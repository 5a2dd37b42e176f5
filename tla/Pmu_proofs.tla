---------------------------- MODULE Pmu_proofs ------------------------------
(* Proofs about Pmu: wakelocks and sleep hooks, for any number of tasks,     *)
(* interrupt handlers and drivers.                                           *)
EXTENDS Pmu, TLAPS, FiniteSetTheorems

-----------------------------------------------------------------------------
(* Wakelocks. Until a store has written back bits that had changed, the word *)
(* is what is held, but for those who are about to clear their bit. A sleep  *)
(* was decided on when the word was empty, and only an interrupt handler     *)
(* that takes a wakelock changes that.                                       *)

LockType ==
  /\ wakelock \subseteq Users /\ held \subseteq Users
  /\ reg \in [Tasks -> [op : {None, "acquire", "release"}, bits : SUBSET Users]]
  /\ idle \in {"awake", "decided", "asleep"} /\ cut \in BOOLEAN /\ late \in BOOLEAN

Releasing == {t \in Tasks : reg[t].op = "release"}

WordTrue  == ~cut => held \subseteq wakelock /\ wakelock \subseteq held \cup Releasing
SleepTrue == idle # "awake" /\ ~late => wakelock = {}

LockInv == LockType /\ WordTrue /\ SleepTrue

LEMMA LockInit == ASSUME PmuAssumption, Init PROVE LockInv
BY DEF PmuAssumption, Init, LockInv, LockType, WordTrue, SleepTrue, Users, Releasing

LEMMA LockLoad ==
  ASSUME PmuAssumption, LockInv, NEW t \in Tasks, NEW op \in {"acquire", "release"}, Load(t, op)
  PROVE  LockInv'
<1> USE DEF LockInv, LockType, Load, Awake
<1>1. LockType'
  BY DEF Users
<1>2. WordTrue'
  <2>1. Releasing \ {t} \subseteq Releasing' /\ t \notin Releasing
    BY DEF Releasing, None
  <2>2. op = "release" => t \in Releasing'
    BY DEF Releasing
  <2>3. CASE op = "release"
    BY <2>1, <2>2, <2>3 DEF WordTrue
  <2>4. CASE op = "acquire"
    BY <2>1, <2>4 DEF WordTrue
  <2> QED
    BY <2>3, <2>4
<1>3. SleepTrue'
  BY DEF SleepTrue
<1> QED
  BY <1>1, <1>2, <1>3

LEMMA LockStore ==
  ASSUME PmuAssumption, LockInv, NEW t \in Tasks, Store(t)
  PROVE  LockInv'
<1> USE DEF LockInv, LockType, Store, Awake
<1>1. reg[t].op \in {"acquire", "release"}
  OBVIOUS
<1>2. LockType'
  BY <1>1 DEF Apply, Holds, Users
<1>3. WordTrue'
  <2> SUFFICES ASSUME ~cut' PROVE WordTrue'
    BY DEF WordTrue
  <2>1. ~cut /\ wakelock = reg[t].bits
    OBVIOUS
  <2>2. Releasing' = Releasing \ {t}
    BY DEF Releasing, None
  <2>3. CASE reg[t].op = "acquire"
    BY <2>1, <2>2, <2>3 DEF WordTrue, Apply, Holds, Releasing
  <2>4. CASE reg[t].op = "release"
    BY <2>1, <2>2, <2>4 DEF WordTrue, Apply, Holds, Releasing
  <2> QED
    BY <1>1, <2>3, <2>4
<1>4. SleepTrue'
  BY DEF SleepTrue
<1> QED
  BY <1>2, <1>3, <1>4

LEMMA LockInterrupt ==
  ASSUME PmuAssumption, LockInv, NEW u \in Irqs, NEW op \in {"acquire", "release"}, Interrupt(u, op)
  PROVE  LockInv'
<1> USE DEF LockInv, LockType, Interrupt, Apply, Holds
<1>1. LockType'
  BY DEF Users
<1>2. WordTrue'
  BY DEF WordTrue, Releasing, PmuAssumption
<1>3. SleepTrue'
  BY DEF SleepTrue
<1> QED
  BY <1>1, <1>2, <1>3

(* What leaves the word, the registers and the flags alone.                  *)
LEMMA LockKept ==
  ASSUME LockInv, UNCHANGED <<wakelock, reg, held, cut>>,
         \/ UNCHANGED <<idle, late>>
         \/ idle' = "decided" /\ wakelock = {} /\ UNCHANGED late
         \/ idle' = "awake" /\ late' = FALSE
         \/ idle = "decided" /\ idle' = "asleep" /\ UNCHANGED late
  PROVE  LockInv'
BY DEF LockInv, LockType, WordTrue, SleepTrue, Releasing

LEMMA LockStep == ASSUME PmuAssumption, LockInv, [Next]_vars PROVE LockInv'
<1>1. CASE \E op \in {"acquire", "release"}, t \in Tasks : Load(t, op)
  BY <1>1, LockLoad
<1>2. CASE \E op \in {"acquire", "release"}, u \in Irqs : Interrupt(u, op)
  BY <1>2, LockInterrupt
<1>3. CASE \E t \in Tasks : Store(t)
  BY <1>3, LockStore
<1>4. CASE \E d \in Devices, f \in Funs : pmu_register_sleep_callback(d, f)
  BY <1>4, LockKept DEF pmu_register_sleep_callback, lockVars
<1>5. CASE \E d \in Devices : pmu_unregister_sleep_callback(d)
  BY <1>5, LockKept DEF pmu_unregister_sleep_callback, lockVars
<1>6. CASE freertos_ready_to_sleep
  BY <1>6, LockKept DEF freertos_ready_to_sleep, Awake
<1>7. CASE AbortSleep
  BY <1>7, LockKept DEF AbortSleep
<1>8. CASE Sleep
  BY <1>8, LockKept DEF Sleep
<1>9. CASE freertos_pre_sleep_processing
  BY <1>9, LockKept DEF freertos_pre_sleep_processing, Wake
<1>10. CASE Undefined \/ UNCHANGED vars
  BY <1>10, LockKept DEF Undefined, vars
<1> QED
  BY <1>1, <1>2, <1>3, <1>4, <1>5, <1>6, <1>7, <1>8, <1>9, <1>10 DEF Next

THEOREM LockInvariant == PmuAssumption => (Spec => []LockInv)
<1> SUFFICES ASSUME PmuAssumption PROVE Spec => []LockInv
  OBVIOUS
<1>1. Init => LockInv
  BY LockInit
<1>2. LockInv /\ [Next]_vars => LockInv'
  BY LockStep
<1> QED
  BY <1>1, <1>2, PTL DEF Spec

(* AwakeWhileHeld of Pmu, for any number of users: the idle task sends the   *)
(* system to sleep over somebody's wakelock only when a load and a store of  *)
(* the word were cut in two, or an interrupt came after the look at it.      *)
THEOREM AwakeWhileHeldHolds == PmuAssumption => (Spec => []AwakeWhileHeld)
<1>1. LockInv => AwakeWhileHeld
  BY DEF LockInv, LockType, WordTrue, SleepTrue, AwakeWhileHeld
<1> QED
  BY <1>1, LockInvariant, PTL

(* SleepsWhenFree of Pmu: no bit stays behind in the word, to keep the       *)
(* system awake for ever, unless a load and a store were cut in two.         *)
THEOREM SleepsWhenFreeHolds == PmuAssumption => (Spec => []SleepsWhenFree)
<1>1. LockInv => SleepsWhenFree
  BY DEF LockInv, LockType, WordTrue, SleepsWhenFree, Resting, Releasing, None
<1> QED
  BY <1>1, LockInvariant, PTL

-----------------------------------------------------------------------------
(* The table of hooks: one row for each driver that is registered, in an     *)
(* order that no longer says anything once a row has been moved.             *)

(* Sequences whose elements need not be looked into.                         *)
LEMMA Appended ==
  ASSUME NEW S, NEW s \in Seq(S), NEW x \in S
  PROVE  /\ Append(s, x) \in Seq(S) /\ Len(Append(s, x)) = Len(s) + 1
         /\ \A i \in 1 .. Len(s) : Append(s, x)[i] = s[i]
         /\ Append(s, x)[Len(s) + 1] = x
OBVIOUS

LEMMA Replaced ==
  ASSUME NEW S, NEW s \in Seq(S), NEW k \in 1 .. Len(s), NEW x \in S
  PROVE  /\ [s EXCEPT ![k] = x] \in Seq(S) /\ Len([s EXCEPT ![k] = x]) = Len(s)
         /\ \A i \in 1 .. Len(s) : [s EXCEPT ![k] = x][i] = IF i = k THEN x ELSE s[i]
OBVIOUS

LEMMA Shortened ==
  ASSUME NEW S, NEW s \in Seq(S), Len(s) # 0
  PROVE  /\ SubSeq(s, 1, Len(s) - 1) \in Seq(S) /\ Len(SubSeq(s, 1, Len(s) - 1)) = Len(s) - 1
         /\ \A i \in 1 .. Len(s) - 1 : SubSeq(s, 1, Len(s) - 1)[i] = s[i]
<1>1. Len(s) \in Nat /\ DOMAIN s = 1 .. Len(s)
  OBVIOUS
<1>2. \A i \in 1 .. Len(s) - 1 : s[i] \in S
  OBVIOUS
<1>3. SubSeq(s, 1, Len(s) - 1) \in Seq(S)
  BY <1>1, <1>2
<1> QED
  BY <1>1, <1>3

HookRows == [dev : Devices, fun : Funs]

HookType ==
  /\ infos \in Seq(HookRows)
  /\ hooked \in [Devices -> Funs \cup {None}]

OneRowEach == \A i, j \in 1 .. Len(infos) : infos[i].dev = infos[j].dev => i = j
RowsAreHooked == \A i \in 1 .. Len(infos) : infos[i].fun = hooked[infos[i].dev]
HookedHaveRows == \A d \in Devices : hooked[d] # None => \E i \in 1 .. Len(infos) : infos[i].dev = d
AllCalled == idle = "asleep" => called = {infos[i] : i \in 1 .. Len(infos)}

HookInv == HookType /\ OneRowEach /\ RowsAreHooked /\ HookedHaveRows /\ AllCalled

LEMMA HookInit == Init => HookInv
BY DEF Init, HookInv, HookType, OneRowEach, RowsAreHooked, HookedHaveRows, AllCalled

LEMMA HookRegister ==
  ASSUME PmuAssumption, HookInv, NEW d \in Devices, NEW f \in Funs, pmu_register_sleep_callback(d, f)
  PROVE  HookInv'
<1> USE DEF HookInv, HookType, pmu_register_sleep_callback, Awake
<1>1. f # None
  BY DEF PmuAssumption
<1>2. AllCalled'
  BY DEF AllCalled, lockVars
<1>0. Row(d, f) \in HookRows /\ Row(d, f).dev = d /\ Row(d, f).fun = f
  BY DEF Row, HookRows
<1>3. CASE RowsOf(d) = {}
  <2>1. infos' = Append(infos, Row(d, f)) /\ \A i \in 1 .. Len(infos) : infos[i].dev # d
    BY <1>3 DEF RowsOf
  <2>2. /\ infos' \in Seq(HookRows) /\ Len(infos') = Len(infos) + 1
        /\ infos'[Len(infos) + 1] = Row(d, f)
        /\ \A i \in 1 .. Len(infos) : infos'[i] = infos[i]
    BY <1>0, <2>1, Appended
  <2>3. HookType'
    BY <2>2
  <2>4. OneRowEach'
    BY <2>1, <2>2 DEF OneRowEach, Row
  <2>5. RowsAreHooked'
    BY <2>1, <2>2 DEF RowsAreHooked, Row
  <2>6. HookedHaveRows'
    <3> SUFFICES ASSUME NEW e \in Devices, hooked'[e] # None
                 PROVE  \E i \in 1 .. Len(infos') : infos'[i].dev = e
      BY DEF HookedHaveRows
    <3>1. CASE e = d
      BY <2>2, <3>1 DEF Row
    <3>2. CASE e # d
      BY <2>2, <3>2 DEF HookedHaveRows
    <3> QED
      BY <3>1, <3>2
  <2> QED
    BY <1>2, <2>3, <2>4, <2>5, <2>6
<1>4. CASE RowsOf(d) # {}
  <2> DEFINE k == CHOOSE i \in RowsOf(d) : TRUE
  <2>1. k \in 1 .. Len(infos) /\ infos[k].dev = d
    BY <1>4 DEF RowsOf
  <2> HIDE DEF k
  <2>2. infos' = [infos EXCEPT ![k] = Row(d, f)]
    BY <1>4 DEF k
  <2>3. /\ infos' \in Seq(HookRows) /\ Len(infos') = Len(infos) /\ infos'[k] = Row(d, f)
        /\ \A i \in 1 .. Len(infos) : i # k => infos'[i] = infos[i]
    <3> DEFINE replaced == [infos EXCEPT ![k] = Row(d, f)]
    <3>1. /\ replaced \in Seq(HookRows) /\ Len(replaced) = Len(infos)
          /\ \A i \in 1 .. Len(infos) : replaced[i] = IF i = k THEN Row(d, f) ELSE infos[i]
      BY <1>0, <2>1, Replaced
    <3> HIDE DEF replaced
    <3>2. infos' = replaced
      BY <2>2 DEF replaced
    <3> QED
      BY <2>1, <3>1, <3>2
  <2>4. HookType'
    BY <2>3
  <2>5. \A i \in 1 .. Len(infos) : infos'[i].dev = infos[i].dev
    BY <2>1, <2>3 DEF Row
  <2>6. OneRowEach'
    BY <2>3, <2>5 DEF OneRowEach
  <2>7. RowsAreHooked'
    BY <2>1, <2>3, <2>5 DEF RowsAreHooked, OneRowEach, Row
  <2>8. HookedHaveRows'
    <3> SUFFICES ASSUME NEW e \in Devices, hooked'[e] # None
                 PROVE  \E i \in 1 .. Len(infos') : infos'[i].dev = e
      BY DEF HookedHaveRows
    <3>1. CASE e = d
      BY <2>1, <2>3, <2>5, <3>1
    <3>2. CASE e # d
      <4>1. hooked[e] # None
        BY <3>2
      <4>2. PICK i \in 1 .. Len(infos) : infos[i].dev = e
        BY <4>1 DEF HookedHaveRows
      <4> QED
        BY <2>3, <2>5, <4>2
    <3> QED
      BY <3>1, <3>2
  <2> QED
    BY <1>2, <2>4, <2>6, <2>7, <2>8
<1> QED
  BY <1>3, <1>4

LEMMA HookUnregister ==
  ASSUME PmuAssumption, HookInv, NEW d \in Devices, pmu_unregister_sleep_callback(d)
  PROVE  HookInv'
<1> USE DEF HookInv, HookType
<1> DEFINE k == CHOOSE i \in RowsOf(d) : TRUE
           n == Len(infos)
<1>1. k \in 1 .. n /\ infos[k].dev = d
  BY DEF RowsOf, pmu_unregister_sleep_callback
<1>2. /\ infos' = SubSeq([infos EXCEPT ![k] = infos[n]], 1, n - 1)
      /\ hooked' = [hooked EXCEPT ![d] = None] /\ idle = "awake" /\ idle' = idle
  BY <1>1 DEF pmu_unregister_sleep_callback, Awake, lockVars
<1> HIDE DEF k
<1>3. n \in Nat \ {0}
  BY <1>1
<1> DEFINE swapped == [infos EXCEPT ![k] = infos[n]]
<1>4. /\ swapped \in Seq(HookRows) /\ Len(swapped) = n
      /\ \A i \in 1 .. n : swapped[i] = IF i = k THEN infos[n] ELSE infos[i]
  <2>1. infos[n] \in HookRows
    BY <1>3
  <2> QED
    BY <1>1, <2>1, Replaced
<1>5. /\ Len(infos') = n - 1 /\ HookType'
      /\ \A i \in 1 .. n - 1 : infos'[i] = infos[IF i = k THEN n ELSE i]
  <2>1. infos' = SubSeq(swapped, 1, Len(swapped) - 1)
    BY <1>2, <1>4
  <2> HIDE DEF swapped
  <2>2. /\ infos' \in Seq(HookRows) /\ Len(infos') = n - 1
        /\ \A i \in 1 .. n - 1 : infos'[i] = swapped[i]
    BY <1>3, <1>4, <2>1, Shortened
  <2> QED
    BY <1>2, <1>3, <1>4, <2>2
<1> HIDE DEF n
<1>11. n = Len(infos) /\ n \in 1 .. n
  BY <1>3 DEF n
<1>6. \A i \in 1 .. n - 1 : infos'[i].dev # d
  <2> SUFFICES ASSUME NEW i \in 1 .. n - 1 PROVE infos'[i].dev # d
    OBVIOUS
  <2> DEFINE j == IF i = k THEN n ELSE i
  <2>1. j \in 1 .. n /\ j # k /\ infos'[i] = infos[j]
    BY <1>1, <1>3, <1>5
  <2> QED
    BY <1>1, <1>11, <2>1 DEF OneRowEach
<1>7. OneRowEach'
  <2> SUFFICES ASSUME NEW i \in 1 .. n - 1, NEW j \in 1 .. n - 1, infos'[i].dev = infos'[j].dev
               PROVE  i = j
    BY <1>5 DEF OneRowEach
  <2>1. (IF i = k THEN n ELSE i) = (IF j = k THEN n ELSE j)
    BY <1>3, <1>5, <1>11 DEF OneRowEach
  <2> QED
    BY <1>3, <2>1
<1>8. RowsAreHooked'
  <2> SUFFICES ASSUME NEW i \in 1 .. n - 1 PROVE infos'[i].fun = hooked'[infos'[i].dev]
    BY <1>5 DEF RowsAreHooked
  <2>1. PICK j \in 1 .. n : infos'[i] = infos[j]
    BY <1>3, <1>5
  <2>2. infos[j].dev # d /\ infos[j].dev \in Devices
    <3>1. infos[j] \in HookRows
      BY <1>11, <2>1
    <3> QED
      BY <1>6, <2>1, <3>1 DEF HookRows
  <2> QED
    BY <1>2, <1>11, <2>1, <2>2 DEF RowsAreHooked
<1>9. HookedHaveRows'
  <2> SUFFICES ASSUME NEW e \in Devices, hooked'[e] # None
               PROVE  \E i \in 1 .. Len(infos') : infos'[i].dev = e
    BY DEF HookedHaveRows
  <2>1. e # d /\ hooked[e] # None
    BY <1>2
  <2>2. PICK j \in 1 .. n : infos[j].dev = e
    BY <1>11, <2>1 DEF HookedHaveRows
  <2>3. j # k
    BY <1>1, <2>1, <2>2
  <2>4. CASE j = n
    BY <1>1, <1>3, <1>5, <2>2, <2>3, <2>4
  <2>5. CASE j # n
    BY <1>3, <1>5, <2>2, <2>3, <2>5
  <2> QED
    BY <2>4, <2>5
<1>10. AllCalled'
  BY <1>2 DEF AllCalled
<1> QED
  BY <1>5, <1>7, <1>8, <1>9, <1>10

(* What leaves the table alone, and calls it only on the way to sleep.       *)
LEMMA HookKept ==
  ASSUME HookInv, UNCHANGED <<infos, hooked>>,
         \/ UNCHANGED called /\ (idle' = "asleep" => idle = "asleep")
         \/ idle' # "asleep"
         \/ called' = {infos[i] : i \in DOMAIN infos}
  PROVE  HookInv'
BY DEF HookInv, HookType, OneRowEach, RowsAreHooked, HookedHaveRows, AllCalled

LEMMA HookStep == ASSUME PmuAssumption, HookInv, [Next]_vars PROVE HookInv'
<1>1. CASE \E op \in {"acquire", "release"}, t \in Tasks : Load(t, op)
  BY <1>1, HookKept DEF Load, hookVars
<1>2. CASE \E op \in {"acquire", "release"}, u \in Irqs : Interrupt(u, op)
  BY <1>2, HookKept DEF Interrupt, hookVars
<1>3. CASE \E t \in Tasks : Store(t)
  BY <1>3, HookKept DEF Store, hookVars
<1>4. CASE \E d \in Devices, f \in Funs : pmu_register_sleep_callback(d, f)
  BY <1>4, HookRegister
<1>5. CASE \E d \in Devices : pmu_unregister_sleep_callback(d)
  BY <1>5, HookUnregister
<1>6. CASE freertos_ready_to_sleep
  BY <1>6, HookKept DEF freertos_ready_to_sleep, hookVars
<1>7. CASE AbortSleep
  BY <1>7, HookKept DEF AbortSleep, hookVars
<1>8. CASE Sleep
  BY <1>8, HookKept DEF Sleep
<1>9. CASE freertos_pre_sleep_processing
  BY <1>9, HookKept DEF freertos_pre_sleep_processing, Wake
<1>10. CASE Undefined \/ UNCHANGED vars
  BY <1>10, HookKept DEF Undefined, vars
<1> QED
  BY <1>1, <1>2, <1>3, <1>4, <1>5, <1>6, <1>7, <1>8, <1>9, <1>10 DEF Next

(* One row each: the rows are numbered by the drivers that are registered.   *)
LEMMA RowsCounted == ASSUME PmuAssumption, HookInv PROVE Len(infos) = Cardinality(Hooked)
<1> DEFINE n    == Len(infos)
           devs == [i \in 1 .. n |-> infos[i].dev]
<1>1. n \in Nat /\ \A i \in 1 .. n : infos[i] \in HookRows
  BY DEF HookInv, HookType
<1>2. \A i \in 1 .. n : infos[i].dev \in Hooked
  BY <1>1 DEF HookInv, HookRows, RowsAreHooked, Hooked, PmuAssumption
<1>3. \A d \in Hooked : \E i \in 1 .. n : infos[i].dev = d
  BY DEF HookInv, HookedHaveRows, Hooked
<1>4. devs \in Bijection(1 .. n, Hooked)
  BY <1>2, <1>3 DEF HookInv, OneRowEach, Bijection, Injection, Surjection, IsInjective
<1>5. ExistsBijection(1 .. n, Hooked)
  BY <1>4 DEF ExistsBijection
<1> QED
  BY <1>1, <1>5, FS_CountingElements

(* HooksCalled of Pmu, for any number of drivers that come and go in any     *)
(* order and a table of any size, up to the call that writes behind it: each *)
(* that is registered is called before a sleep, with what it registered      *)
(* last, nobody else is; and the table has one row for each and no other, so *)
(* that only more drivers than rows, registered at once, run over it.        *)
THEOREM HooksCalledHolds == PmuAssumption => (Spec => []HooksCalled)
<1> SUFFICES ASSUME PmuAssumption PROVE Spec => []HooksCalled
  OBVIOUS
<1>1. Init => HookInv
  BY HookInit
<1>2. HookInv /\ [Next]_vars => HookInv'
  BY HookStep
<1>3. HookInv => HooksCalled
  <2> SUFFICES ASSUME HookInv, idle = "asleep"
               PROVE  called = {Row(d, hooked[d]) : d \in Hooked}
    BY RowsCounted DEF HooksCalled
  <2> DEFINE n == Len(infos)
  <2>1. n \in Nat /\ \A i \in 1 .. n : infos[i] \in HookRows
    BY DEF HookInv, HookType
  <2>2. called = {infos[i] : i \in 1 .. n}
    BY DEF HookInv, AllCalled
  <2>3. \A i \in 1 .. n : infos[i] = Row(infos[i].dev, hooked[infos[i].dev]) /\ hooked[infos[i].dev] # None
    BY <2>1 DEF HookInv, HookRows, RowsAreHooked, Row, PmuAssumption
  <2>4. ASSUME NEW d \in Hooked PROVE Row(d, hooked[d]) \in called
    <3>1. PICK i \in 1 .. n : infos[i].dev = d
      BY <2>4 DEF HookInv, HookedHaveRows, Hooked
    <3> QED
      BY <2>2, <2>3, <3>1
  <2> QED
    BY <2>1, <2>2, <2>3, <2>4 DEF HookRows, Hooked
<1> QED
  BY <1>1, <1>2, <1>3, PTL DEF Spec

-----------------------------------------------------------------------------
(* The kernel's clock.                                                       *)

ClockType ==
  /\ clock \in [missing : 0 .. Word - 1, owed : Int, wraps : 0 .. MaxSleeps, still : BOOLEAN,
                sleeps : 0 .. MaxSleeps]
  /\ clock.wraps <= clock.sleeps /\ (idle # "awake" => idle \in {"decided", "asleep"})
  /\ idle = "asleep" => clock.sleeps < MaxSleeps

LEMMA Quotient ==
  ASSUME NEW a \in Nat, NEW b \in Nat \ {0}
  PROVE  a \div b \in Nat /\ a % b \in 0 .. b - 1 /\ a % b <= a /\ b * (a \div b) + (a % b) = a
<1>1. a \div b \in Nat /\ a % b \in 0 .. b - 1
  OBVIOUS
<1>2. b * (a \div b) + (a % b) = a
  OBVIOUS
<1>3. b * (a \div b) \in Nat
  BY <1>1
<1> QED
  BY <1>1, <1>2, <1>3

(* What CatchUp makes of the time that has passed: no microsecond is lost,   *)
(* whole ticks become the kernel's, and no more of them than expected.       *)
LEMMA CaughtUp ==
  ASSUME PmuAssumption, NEW passed \in Nat, NEW stime \in 1 .. MaxTicks, NEW limit, limit = stime * TickUs,
         NEW r, r = CatchUp(passed, stime)
  PROVE  /\ r.missing \in Nat /\ r.us \in Nat /\ r.us \div TickUs \in Nat
         /\ r.missing + TickUs * (r.us \div TickUs) = passed
         /\ passed > limit => r.missing = passed - limit
         /\ ~(passed > limit) => r.missing < TickUs
<1>1. TickUs \in Nat \ {0} /\ MaxTicks \in Nat /\ stime \in Nat
  BY DEF PmuAssumption
<1>2. limit \in Nat /\ limit = TickUs * stime
  BY <1>1
<1>3. IF passed > limit THEN r.missing = passed - limit /\ r.us = limit ELSE r.missing = passed % TickUs /\ r.us = passed
  BY DEF CatchUp
<1>4. limit \div TickUs = stime
  <2> DEFINE q == limit \div TickUs
             m == limit % TickUs
  <2>1. q \in Nat /\ m \in 0 .. TickUs - 1 /\ TickUs * q + m = limit
    BY <1>1, <1>2, Quotient
  <2> HIDE DEF q, m
  <2>2. TickUs * (stime - q) = m
    BY <1>1, <1>2, <2>1
  <2>3. ~(stime > q)
    <3> SUFFICES ASSUME stime > q PROVE FALSE
      OBVIOUS
    <3>1. stime - q >= 1 /\ stime - q \in Nat
      BY <1>1, <2>1
    <3>2. TickUs * (stime - q) >= TickUs
      BY <1>1, <3>1
    <3> QED
      BY <1>1, <2>1, <2>2, <3>2
  <2>4. ~(q > stime)
    <3> SUFFICES ASSUME q > stime PROVE FALSE
      OBVIOUS
    <3>1. q - stime >= 1 /\ q - stime \in Nat /\ TickUs * (q - stime) = 0 - m
      BY <1>1, <2>1, <2>2
    <3>2. TickUs * (q - stime) >= TickUs
      BY <1>1, <3>1
    <3> QED
      BY <1>1, <2>1, <3>1, <3>2
  <2> QED
    BY <1>1, <2>1, <2>3, <2>4 DEF q
<1>5. CASE passed > limit
  <2>1. r.missing = passed - limit /\ r.us = limit /\ r.us \div TickUs = stime
    BY <1>3, <1>4, <1>5
  <2>2. TickUs * (r.us \div TickUs) = limit
    BY <1>2, <2>1
  <2>3. r.missing \in Nat /\ r.us \in Nat /\ r.us \div TickUs \in Nat
    BY <1>1, <1>2, <1>5, <2>1
  <2> DEFINE whole == TickUs * (r.us \div TickUs)
  <2>4. whole = limit
    BY <2>2
  <2> HIDE DEF whole
  <2>5. r.missing + whole = passed
    BY <1>2, <1>5, <2>1, <2>4
  <2>6. r.missing + TickUs * (r.us \div TickUs) = passed
    BY <2>5, Zenon DEF whole
  <2>7. (passed > limit => r.missing = passed - limit) /\ (~(passed > limit) => r.missing < TickUs)
    BY <1>5, <2>1
  <2> QED
    BY <2>3, <2>6, <2>7, Zenon
<1>6. CASE ~(passed > limit)
  <2>1. r.missing = passed % TickUs /\ r.us = passed
    BY <1>3, <1>6
  <2>2. passed \div TickUs \in Nat /\ passed % TickUs \in 0 .. TickUs - 1
        /\ TickUs * (passed \div TickUs) + (passed % TickUs) = passed
    BY <1>1, Quotient
  <2> DEFINE whole == TickUs * (passed \div TickUs)
  <2>3. whole \in Nat
    BY <1>1, <2>2
  <2>4. whole + (passed % TickUs) = passed
    BY <2>2
  <2> HIDE DEF whole
  <2>5. r.missing + whole = passed
    BY <1>1, <2>1, <2>2, <2>3, <2>4
  <2>6. r.missing + TickUs * (r.us \div TickUs) = passed
    BY <2>1, <2>5, Zenon DEF whole
  <2>7. r.missing \in Nat /\ r.us \in Nat /\ r.us \div TickUs \in Nat
    BY <1>1, <2>1, <2>2
  <2>8. (passed > limit => r.missing = passed - limit) /\ (~(passed > limit) => r.missing < TickUs)
    BY <1>1, <1>6, <2>1, <2>2
  <2> QED
    BY <2>6, <2>7, <2>8, Zenon
<1> QED
  BY <1>5, <1>6

(* The two stamps of a sleep of d microseconds, which ends after at most     *)
(* Word - 1: a microsecond is lost when the stamp wraps.                     *)
Wraps(before, d) == IF before + d >= Word THEN 1 ELSE 0
Passed(before, d) ==
  LET after == (before + d) % Word
  IN IF after > before THEN after - before ELSE (Word - 1 - before) + after

LEMMA Stamps ==
  ASSUME PmuAssumption, NEW before \in 0 .. Word - 1, NEW d \in 0 .. Word - 1
  PROVE  /\ Passed(before, d) \in 0 .. Word - 1 /\ Wraps(before, d) \in 0 .. 1
         /\ d # 0 => Passed(before, d) = d - Wraps(before, d)
<1>1. Word \in Nat \ {0}
  BY DEF PmuAssumption
<1> DEFINE sum   == before + d
           after == sum % Word
<1>2. sum \in Nat /\ sum < 2 * Word
  BY <1>1
<1>3. after = IF sum >= Word THEN sum - Word ELSE sum
  <2> HIDE DEF sum
  <2> DEFINE q == sum \div Word
  <2>1. q \in Nat /\ after \in 0 .. Word - 1 /\ Word * q + after = sum
    BY <1>1, <1>2, Quotient
  <2> HIDE DEF q, after
  <2>2. CASE q = 0
    BY <1>1, <1>2, <2>1, <2>2
  <2>3. CASE q = 1
    BY <1>1, <1>2, <2>1, <2>3
  <2>4. ~(q > 1)
    <3> SUFFICES ASSUME q > 1 PROVE FALSE
      OBVIOUS
    <3>1. Word * q >= Word * 2
      BY <1>1, <2>1
    <3> QED
      BY <1>1, <1>2, <2>1, <3>1
  <2> QED
    BY <2>1, <2>2, <2>3, <2>4
<1>4. Passed(before, d) = IF after > before THEN after - before ELSE (Word - 1 - before) + after
  BY DEF Passed
<1>5. Wraps(before, d) = IF sum >= Word THEN 1 ELSE 0
  BY DEF Wraps
<1> HIDE DEF after
<1> QED
  BY <1>1, <1>3, <1>4, <1>5

(* One sleep. The last bound keeps what is put off from reaching a word.     *)
LEMMA Slept ==
  ASSUME PmuAssumption, ClockType, idle = "asleep",
         NEW stime \in 1 .. MaxTicks, NEW before \in 0 .. Word - 1,
         NEW d \in 0 .. stime * TickUs + 1, d < Word, Wake(before, d, stime)
  PROVE  /\ ClockType'
         /\ clock'.still <=> clock.still \/ d = 0
         /\ clock'.sleeps = clock.sleeps + 1 /\ clock'.wraps = clock.wraps + Wraps(before, d)
         /\ clock.missing + stime * TickUs + 1 < Word /\ d # 0 =>
              clock'.owed - clock'.missing = clock.owed - clock.missing + Wraps(before, d)
         /\ clock'.missing <= clock.missing + 1 \/ clock'.missing < TickUs \/ d = 0
            \/ clock.missing + stime * TickUs + 1 >= Word
<1> DEFINE w     == Wraps(before, d)
           p     == Passed(before, d)
           total == (p + clock.missing) % Word
<1>1. /\ Word \in Nat \ {0} /\ TickUs \in Nat \ {0} /\ MaxTicks \in Nat /\ MaxSleeps \in Nat
      /\ stime \in Nat \ {0} /\ d \in 0 .. Word - 1
      /\ clock.missing \in 0 .. Word - 1 /\ clock.owed \in Int /\ clock.wraps \in Nat /\ clock.sleeps \in Nat
  BY DEF PmuAssumption, ClockType
<1>2. p \in 0 .. Word - 1 /\ w \in 0 .. 1 /\ (d # 0 => p = d - w)
  BY <1>1, Stamps
<1> DEFINE caught == CatchUp(total, stime)
           ticks  == caught.us \div TickUs
<1>3. clock' = [missing |-> caught.missing, owed |-> clock.owed + d - TickUs * ticks, wraps |-> clock.wraps + w,
                still |-> clock.still \/ d = 0, sleeps |-> clock.sleeps + 1]
  BY DEF Wake, Wraps, Passed
<1> HIDE DEF w, p
<1>4. total \in 0 .. Word - 1
  <2>1. p + clock.missing \in Nat
    BY <1>1, <1>2
  <2> QED
    BY <1>1, <2>1
<1>5. p + clock.missing < Word => total = p + clock.missing
  <2>1. p + clock.missing \in Nat
    BY <1>1, <1>2
  <2> QED
    BY <1>1, <2>1
<1> HIDE DEF total
<1> DEFINE spent == TickUs * ticks
           limit == stime * TickUs
<1>6. /\ caught.missing \in Nat /\ ticks \in Nat /\ caught.missing + spent = total
      /\ total > limit => caught.missing = total - limit
      /\ ~(total > limit) => caught.missing < TickUs
  BY <1>4, CaughtUp
<1>7. spent \in Nat /\ limit \in Nat /\ d <= limit + 1
  BY <1>1, <1>6
<1>8. /\ clock'.missing = caught.missing /\ clock'.owed = clock.owed + d - spent
      /\ clock'.wraps = clock.wraps + w /\ (clock'.still <=> clock.still \/ d = 0)
      /\ clock'.sleeps = clock.sleeps + 1
  BY <1>3
<1> HIDE DEF caught, ticks
<1> HIDE DEF spent
<1>9. clock.wraps <= clock.sleeps /\ clock.sleeps < MaxSleeps /\ idle' = "awake"
  BY DEF ClockType, Wake
<1>10. ClockType'
  <2>1. clock'.missing \in 0 .. Word - 1 /\ clock'.owed \in Int
    BY <1>1, <1>4, <1>6, <1>7, <1>8
  <2>2. clock'.wraps \in 0 .. MaxSleeps /\ clock'.sleeps \in 0 .. MaxSleeps /\ clock'.wraps <= clock'.sleeps
    BY <1>1, <1>2, <1>8, <1>9
  <2>3. clock'.still \in BOOLEAN
    BY <1>3
  <2>4. clock' = [missing |-> clock'.missing, owed |-> clock'.owed, wraps |-> clock'.wraps,
                  still |-> clock'.still, sleeps |-> clock'.sleeps]
    BY <1>3
  <2> QED
    BY <1>9, <2>1, <2>2, <2>3, <2>4 DEF ClockType
<1>11. clock.missing + limit + 1 < Word /\ d # 0 =>
         clock'.owed - clock'.missing = clock.owed - clock.missing + w
  <2> HIDE DEF limit
  <2> SUFFICES ASSUME clock.missing + limit + 1 < Word, d # 0
               PROVE  clock'.owed - clock'.missing = clock.owed - clock.missing + w
    OBVIOUS
  <2>1. total = p + clock.missing /\ p = d - w
    BY <1>1, <1>2, <1>5, <1>7
  <2>2. caught.missing \in Nat /\ caught.missing + spent = d - w + clock.missing
    BY <1>6, <2>1
  <2> QED
    BY <1>1, <1>2, <1>7, <1>8, <2>2
<1>12. clock'.missing <= clock.missing + 1 \/ clock'.missing < TickUs \/ d = 0 \/ clock.missing + limit + 1 >= Word
  <2> HIDE DEF limit
  <2> SUFFICES ASSUME d # 0, clock.missing + limit + 1 < Word
               PROVE  clock'.missing <= clock.missing + 1 \/ clock'.missing < TickUs
    BY <1>1, <1>7
  <2>1. total = p + clock.missing /\ p <= limit + 1
    BY <1>1, <1>2, <1>5, <1>7
  <2> QED
    BY <1>1, <1>2, <1>6, <1>7, <1>8, <2>1
<1>13. w = Wraps(before, d)
  BY DEF w
<1> QED
  BY <1>8, <1>10, <1>11, <1>12, <1>13

(* What every other step does to the clock and to the idle task.             *)
ClockLeft ==
  /\ UNCHANGED clock
  /\ \/ UNCHANGED idle
     \/ idle' \in {"awake", "decided"}
     \/ idle' = "asleep" /\ clock.sleeps < MaxSleeps

LEMMA OtherStep ==
  ASSUME [Next]_vars, ~freertos_pre_sleep_processing
  PROVE  ClockLeft
<1> USE DEF ClockLeft
<1>1. CASE \E op \in {"acquire", "release"} : (\E t \in Tasks : Load(t, op)) \/ (\E u \in Irqs : Interrupt(u, op))
  BY <1>1 DEF Load, Interrupt
<1>2. CASE \E t \in Tasks : Store(t)
  BY <1>2 DEF Store
<1>3. CASE \E d \in Devices, f \in Funs : pmu_register_sleep_callback(d, f)
  BY <1>3 DEF pmu_register_sleep_callback, lockVars
<1>4. CASE \E d \in Devices : pmu_unregister_sleep_callback(d)
  BY <1>4 DEF pmu_unregister_sleep_callback, lockVars
<1>5. CASE freertos_ready_to_sleep
  BY <1>5 DEF freertos_ready_to_sleep
<1>6. CASE AbortSleep
  BY <1>6 DEF AbortSleep
<1>7. CASE Sleep
  BY <1>7 DEF Sleep
<1>8. CASE Undefined \/ UNCHANGED vars
  BY <1>8 DEF Undefined, vars
<1> QED
  BY <1>1, <1>2, <1>3, <1>4, <1>5, <1>6, <1>7, <1>8 DEF Next

LEMMA ClockInit == ASSUME PmuAssumption, Init PROVE ClockType
BY DEF PmuAssumption, Init, ClockType

LEMMA ClockStep == ASSUME PmuAssumption, ClockType, [Next]_vars PROVE ClockType'
<1>1. CASE freertos_pre_sleep_processing
  <2>1. PICK stime \in 1 .. MaxTicks, before \in 0 .. Word - 1 :
          \E d \in 0 .. stime * TickUs + 1 : d < Word /\ Wake(before, d, stime)
    BY <1>1 DEF freertos_pre_sleep_processing
  <2>2. PICK d \in 0 .. stime * TickUs + 1 : d < Word /\ Wake(before, d, stime)
    BY <2>1
  <2>3. idle = "asleep"
    BY <2>2 DEF Wake
  <2> QED
    BY <2>2, <2>3, Slept
<1>2. CASE ~freertos_pre_sleep_processing
  BY <1>2, OtherStep DEF ClockLeft, ClockType
<1> QED
  BY <1>1, <1>2

(* What is put off: a part of a tick, and of each sleep so far at most the   *)
(* microsecond by which the timer was late.                                  *)
SmallRest == clock.still \/ clock.missing <= TickUs - 1 + clock.sleeps

(* A word holds the longest sleep and what is put off at most.               *)
Room == (MaxTicks + 1) * TickUs + MaxSleeps <= Word

LEMMA RoomToSleep ==
  ASSUME PmuAssumption, Room, ClockType, SmallRest, ~clock.still, clock.sleeps < MaxSleeps, NEW stime \in 1 .. MaxTicks
  PROVE  clock.missing + stime * TickUs + 1 < Word
<1>1. /\ Word \in Nat /\ TickUs \in Nat /\ MaxTicks \in Nat /\ MaxSleeps \in Nat
      /\ clock.missing \in Nat /\ clock.sleeps \in Nat /\ stime \in Nat /\ stime <= MaxTicks
  BY DEF PmuAssumption, ClockType
<1>2. stime * TickUs <= MaxTicks * TickUs /\ (MaxTicks + 1) * TickUs = MaxTicks * TickUs + TickUs
  BY <1>1
<1> DEFINE limit == stime * TickUs
           most  == MaxTicks * TickUs
<1>3. limit \in Nat /\ most \in Nat /\ limit <= most /\ most + TickUs + MaxSleeps <= Word
  BY <1>1, <1>2 DEF Room
<1>4. clock.missing <= TickUs - 1 + clock.sleeps
  BY DEF SmallRest
<1> HIDE DEF limit, most
<1>5. clock.missing + limit + 1 < Word
  BY <1>1, <1>3, <1>4
<1> QED
  BY <1>5 DEF limit

LEMMA KeptByWake ==
  ASSUME PmuAssumption, Room, ClockType, SmallRest, ClockKept, freertos_pre_sleep_processing
  PROVE  SmallRest' /\ ClockKept'
<1> SUFFICES ASSUME ~clock'.still PROVE SmallRest' /\ ClockKept'
  BY DEF SmallRest, ClockKept
<1>1. PICK stime \in 1 .. MaxTicks, before \in 0 .. Word - 1 :
        \E d \in 0 .. stime * TickUs + 1 : d < Word /\ Wake(before, d, stime)
  BY DEF freertos_pre_sleep_processing
<1>2. PICK d \in 0 .. stime * TickUs + 1 : d < Word /\ Wake(before, d, stime)
  BY <1>1
<1>3. idle = "asleep" /\ clock.sleeps < MaxSleeps
  BY <1>2 DEF Wake, ClockType
<1> DEFINE w     == Wraps(before, d)
           limit == stime * TickUs
<1>4. /\ clock'.still <=> clock.still \/ d = 0
      /\ clock'.sleeps = clock.sleeps + 1 /\ clock'.wraps = clock.wraps + w
      /\ clock.missing + limit + 1 < Word /\ d # 0 =>
           clock'.owed - clock'.missing = clock.owed - clock.missing + w
      /\ clock'.missing <= clock.missing + 1 \/ clock'.missing < TickUs \/ d = 0
         \/ clock.missing + limit + 1 >= Word
  BY <1>2, <1>3, Slept
<1>5. ClockType'
  BY <1>2, <1>3, Slept
<1>6. ~clock.still /\ d # 0
  BY <1>4
<1>7. clock.missing + limit + 1 < Word
  BY <1>3, <1>6, RoomToSleep
<1>8. w \in 0 .. 1 /\ limit \in Nat /\ TickUs \in Nat /\ Word \in Nat
  BY <1>1, <1>2 DEF PmuAssumption, Wraps
<1>9. /\ clock.missing \in Nat /\ clock.owed \in Int /\ clock.wraps \in Nat /\ clock.sleeps \in Nat
      /\ clock'.missing \in Nat /\ clock'.owed \in Int /\ clock'.wraps \in Nat /\ clock'.sleeps \in Nat
  BY <1>5 DEF ClockType
<1> HIDE DEF w, limit
<1>10. SmallRest'
  <2>1. clock.missing <= TickUs - 1 + clock.sleeps
    BY <1>6 DEF SmallRest
  <2>2. clock'.missing <= clock.missing + 1 \/ clock'.missing < TickUs
    BY <1>4, <1>6, <1>7, <1>8, <1>9
  <2> QED
    BY <1>4, <1>8, <1>9, <2>1, <2>2 DEF SmallRest
<1>11. ClockKept'
  <2>1. clock.missing <= clock.owed /\ clock.owed <= clock.missing + clock.wraps
    BY <1>6 DEF ClockKept
  <2>2. clock'.owed - clock'.missing = clock.owed - clock.missing + w
    BY <1>4, <1>6, <1>7
  <2>3. clock'.missing <= clock'.owed /\ clock'.owed <= clock'.missing + clock'.wraps
    BY <1>4, <1>8, <1>9, <2>1, <2>2
  <2> QED
    BY <2>3 DEF ClockKept
<1> QED
  BY <1>10, <1>11

(* ClockKept of Pmu: over any number of sleeps of any length, as long as a   *)
(* word has room for them (Room), the kernel's time never runs ahead of what *)
(* was slept, and stays behind by what is put off and a microsecond a wrap.  *)
THEOREM ClockKeptHolds == PmuAssumption /\ Room => (Spec => []ClockKept)
<1> SUFFICES ASSUME PmuAssumption, Room PROVE Spec => []ClockKept
  OBVIOUS
<1> DEFINE ClockInv == ClockType /\ SmallRest /\ ClockKept
<1>1. Init => ClockInv
  <2> SUFFICES ASSUME Init PROVE ClockInv
    OBVIOUS
  <2>1. TickUs \in Nat \ {0}
    BY DEF PmuAssumption
  <2>2. clock.missing = 0 /\ clock.owed = 0 /\ clock.wraps = 0 /\ clock.sleeps = 0
    BY DEF Init
  <2>3. SmallRest /\ ClockKept
    BY <2>1, <2>2 DEF SmallRest, ClockKept
  <2> QED
    BY <2>3, ClockInit
<1>2. ClockInv /\ [Next]_vars => ClockInv'
  <2> SUFFICES ASSUME ClockInv, [Next]_vars PROVE ClockInv'
    OBVIOUS
  <2>1. ClockType'
    BY ClockStep
  <2>2. CASE freertos_pre_sleep_processing
    BY <2>1, <2>2, KeptByWake
  <2>3. CASE ~freertos_pre_sleep_processing
    BY <2>1, <2>3, OtherStep DEF ClockLeft, SmallRest, ClockKept
  <2> QED
    BY <2>2, <2>3
<1>3. ClockInv => ClockKept
  OBVIOUS
<1> QED
  BY <1>1, <1>2, <1>3, PTL DEF Spec

-----------------------------------------------------------------------------
(* The types: what is called are rows of the table.                          *)

CalledRows == called \subseteq HookRows

LEMMA CalledStep == ASSUME HookInv, CalledRows, [Next]_vars PROVE CalledRows'
<1> USE DEF CalledRows
<1>1. CASE Sleep
  <2>1. called' = {infos[i] : i \in DOMAIN infos} /\ infos \in Seq(HookRows)
    BY <1>1 DEF Sleep, HookInv, HookType
  <2> QED
    BY <2>1
<1>2. CASE \E op \in {"acquire", "release"} : (\E t \in Tasks : Load(t, op)) \/ (\E u \in Irqs : Interrupt(u, op))
  BY <1>2 DEF Load, Interrupt, hookVars
<1>3. CASE \E t \in Tasks : Store(t)
  BY <1>3 DEF Store, hookVars
<1>4. CASE \E d \in Devices, f \in Funs : pmu_register_sleep_callback(d, f)
  BY <1>4 DEF pmu_register_sleep_callback
<1>5. CASE \E d \in Devices : pmu_unregister_sleep_callback(d)
  BY <1>5 DEF pmu_unregister_sleep_callback
<1>6. CASE freertos_ready_to_sleep
  BY <1>6 DEF freertos_ready_to_sleep, hookVars
<1>7. CASE AbortSleep
  BY <1>7 DEF AbortSleep, hookVars
<1>8. CASE freertos_pre_sleep_processing
  BY <1>8 DEF freertos_pre_sleep_processing, Wake
<1>9. CASE Undefined \/ UNCHANGED vars
  BY <1>9 DEF Undefined, vars
<1> QED
  BY <1>1, <1>2, <1>3, <1>4, <1>5, <1>6, <1>7, <1>8, <1>9 DEF Next

(* TypeOK of Pmu: among the rest, the rows and what is called are a driver   *)
(* and its hook each, and what is put off never leaves a word.               *)
THEOREM TypeCorrect == PmuAssumption => (Spec => []TypeOK)
<1> SUFFICES ASSUME PmuAssumption PROVE Spec => []TypeOK
  OBVIOUS
<1> DEFINE TypeInv == LockInv /\ HookInv /\ CalledRows /\ ClockType
<1>1. Init => TypeInv
  BY LockInit, HookInit, ClockInit DEF Init, CalledRows
<1>2. TypeInv /\ [Next]_vars => TypeInv'
  BY LockStep, HookStep, CalledStep, ClockStep
<1>3. TypeInv => TypeOK
  BY DEF LockInv, LockType, HookInv, HookType, HookRows, CalledRows, ClockType, TypeOK
<1> QED
  BY <1>1, <1>2, <1>3, PTL DEF Spec
=============================================================================
