----------------------------- MODULE Ota_proofs -----------------------------
(* Proofs about Ota: for images, sectors, packets and words of any size, any *)
(* number of updates and of mishaps.                                         *)
EXTENDS Ota, TLAPS, SequenceTheorems

-----------------------------------------------------------------------------
(* Sectors.                                                                  *)

LEMMA Quotient ==
  ASSUME NEW a \in Nat, NEW b \in Nat \ {0}
  PROVE  /\ a \div b \in Nat
         /\ (a \div b) * b <= a /\ a < (a \div b) * b + b
  OBVIOUS

LEMMA QuotientGrows ==
  ASSUME NEW a \in Nat, NEW c \in Nat, NEW b \in Nat \ {0}, a <= c
  PROVE  a \div b <= c \div b
<1> DEFINE q == a \div b
           r == c \div b
<1>1. q \in Nat /\ r \in Nat /\ q * b <= a /\ c < r * b + b
  BY Quotient
<1> HIDE DEF q, r
<1>2. q * b < (r + 1) * b
  BY <1>1
<1>3. q <= r
  <2> SUFFICES ASSUME q >= r + 1 PROVE FALSE
    BY <1>1
  <2>1. q * b >= (r + 1) * b
    BY <1>1
  <2> QED
    BY <1>1, <1>2, <2>1
<1> QED
  BY <1>3 DEF q, r

LEMMA Sectors ==
  ASSUME OtaAssumption
  PROVE  /\ LastSector \in Nat
         /\ \A p \in Positions : (p - 1) \div SectorSize \in 0 .. LastSector
<1>1. FileLen - 1 \in Nat /\ SectorSize \in Nat \ {0}
  BY DEF OtaAssumption, SumLen
<1>2. LastSector \in Nat
  BY <1>1, Quotient DEF LastSector
<1>3. ASSUME NEW p \in Positions PROVE (p - 1) \div SectorSize \in 0 .. LastSector
  <2>1. p - 1 \in Nat /\ p - 1 <= FileLen - 1
    BY DEF Positions, OtaAssumption
  <2>2. (p - 1) \div SectorSize \in Nat
    BY <1>1, <2>1, Quotient
  <2>3. (p - 1) \div SectorSize <= LastSector
    BY <1>1, <2>1, QuotientGrows DEF LastSector
  <2> QED
    BY <1>2, <2>2, <2>3
<1> QED
  BY <1>2, <1>3

-----------------------------------------------------------------------------
(* The checksum: what an updater keeps are the last four bytes that it read, *)
(* as long as no response header stands before them.                         *)

Sums == [1 .. SumLen -> 0 .. FileLen]

LastRead(size) == [k \in 1 .. SumLen |-> IF size - SumLen + k > 0 THEN size - SumLen + k ELSE 0]

LEMMA Kept ==
  ASSUME OtaAssumption, NEW s \in Sums, NEW h \in Nat, NEW n \in Nat, NEW from \in Nat,
         from + n <= FileLen, NEW k \in 1 .. SumLen
  PROVE  Sum(s, Buffer(h, from, n), n)[k] =
           IF n + k <= SumLen THEN s[n + k]
           ELSE IF n + k <= SumLen + h THEN 0 ELSE from + n + k - SumLen - h
<1> DEFINE buf == Buffer(h, from, n)
           alloc == s \o buf
<1>1. s \in Seq(0 .. FileLen) /\ Len(s) = SumLen
  <2>1. s \in Seq(0 .. FileLen)
    <3>1. s \in [1 .. SumLen -> 0 .. FileLen] /\ SumLen \in Nat
      BY DEF Sums, SumLen
    <3>2. Seq(0 .. FileLen) = UNION {[1 .. m -> 0 .. FileLen] : m \in Nat}
      BY SeqDef
    <3> QED
      BY <3>1, <3>2, Zenon
  <2>2. DOMAIN s = 1 .. SumLen
    BY DEF Sums
  <2> QED
    BY <2>1, <2>2, LenProperties DEF SumLen
<1>2. buf \in Seq(0 .. FileLen) /\ Len(buf) = h + n
      /\ \A j \in 1 .. h + n : buf[j] = IF j <= h THEN 0 ELSE from + j - h
  BY DEF Buffer, OtaAssumption
<1> HIDE DEF buf
<1>3. n + k \in 1 .. SumLen + h + n
  BY DEF SumLen
<1>4. alloc[n + k] = IF n + k <= SumLen THEN s[n + k] ELSE buf[n + k - SumLen]
  <2>1. \A j \in 1 .. Len(s) + Len(buf) : (s \o buf)[j] = IF j <= Len(s) THEN s[j] ELSE buf[j - Len(s)]
    BY <1>1, <1>2, ConcatProperties
  <2>2. n + k \in 1 .. Len(s) + Len(buf)
    BY <1>1, <1>2, <1>3 DEF SumLen
  <2>3. alloc[n + k] = IF n + k <= Len(s) THEN s[n + k] ELSE buf[n + k - Len(s)]
    BY <2>1, <2>2
  <2> QED
    BY <1>1, <2>3
<1>5. n + k > SumLen => n + k - SumLen \in 1 .. h + n
  BY <1>3 DEF SumLen
<1>6. Sum(s, buf, n)[k] = alloc[n + k]
  BY DEF Sum
<1> QED
  BY <1>2, <1>4, <1>5, <1>6 DEF buf, SumLen

LEMMA SumType ==
  ASSUME OtaAssumption, NEW s \in Sums, NEW h \in Nat, NEW n \in Nat, NEW from \in Nat,
         from + n <= FileLen
  PROVE  Sum(s, Buffer(h, from, n), n) \in Sums
<1>1. ASSUME NEW k \in 1 .. SumLen PROVE Sum(s, Buffer(h, from, n), n)[k] \in 0 .. FileLen
  <2>1. n + k <= SumLen => s[n + k] \in 0 .. FileLen
    BY DEF Sums, SumLen
  <2>2. Sum(s, Buffer(h, from, n), n)[k] =
           IF n + k <= SumLen THEN s[n + k]
           ELSE IF n + k <= SumLen + h THEN 0 ELSE from + n + k - SumLen - h
    BY Kept
  <2> QED
    BY <2>1, <2>2 DEF SumLen, OtaAssumption
<1>2. Sum(s, Buffer(h, from, n), n) = [k \in 1 .. SumLen |-> Sum(s, Buffer(h, from, n), n)[k]]
  BY DEF Sum
<1> QED
  BY <1>1, <1>2 DEF Sums

LEMMA SumKeepsLast ==
  ASSUME OtaAssumption, NEW n \in Nat, NEW from \in Nat, from + n <= FileLen
  PROVE  Sum(LastRead(from), Buffer(0, from, n), n) = LastRead(from + n)
<1>1. LastRead(from) \in Sums
  BY DEF LastRead, Sums, SumLen, OtaAssumption
<1>2. ASSUME NEW k \in 1 .. SumLen
      PROVE  Sum(LastRead(from), Buffer(0, from, n), n)[k] = LastRead(from + n)[k]
  <2>1. Sum(LastRead(from), Buffer(0, from, n), n)[k] =
           IF n + k <= SumLen THEN LastRead(from)[n + k]
           ELSE IF n + k <= SumLen + 0 THEN 0 ELSE from + n + k - SumLen - 0
    BY <1>1, Kept
  <2> QED
    BY <2>1 DEF LastRead, SumLen
<1> QED
  BY <1>2 DEF LastRead, Sum

-----------------------------------------------------------------------------
(* Type correctness, with what belongs to each place of an update: who has   *)
(* the lock, how far a loop has come, how much has been read.                *)

Records == [pc : Pcs, i : 0 .. Words + LastSector, v : 1 .. MaxUpdates + 1,
            size : 0 .. FileLen, sum : [1 .. SumLen -> 0 .. FileLen]]

Early  == (Locked \ {"signed"}) \cup {"connect", "open", "first"}

(* An updater u whose record is r, while n updates have been begun and l has *)
(* the lock.                                                                 *)
InPlace(u, r, n, l) ==
  /\ r.pc # "idle" => r.v \in 1 .. n
  /\ r.pc \in {"copyOut", "copyBack"} => r.i < Words
  /\ r.pc = "erase" => r.i <= LastSector
  /\ r.pc \in Early => r.size = 0
  /\ r.pc \in Locked => l = u
  /\ u = "local" => r.sum = LastRead(r.size)

FlashType ==
  /\ sys \in [WordsOf -> BOOLEAN] /\ bak \in [WordsOf -> BOOLEAN]
  /\ img \in [Positions -> -1 .. MaxUpdates]
  /\ sig \in {"blank", "half", "signed", "cleared"}

RecType ==
  /\ rec \in [pc : {"idle", "backup", "erase", "head", "rest"}, buf : [Positions -> -1 .. MaxUpdates]]
  /\ rec.pc # "idle" => lock = Recovery

HistoryType ==
  /\ good \in Seq(BOOLEAN) /\ Len(good) <= MaxUpdates
  /\ overlap \in BOOLEAN /\ again \in BOOLEAN /\ torn \in BOOLEAN /\ mishaps \in 0 .. MaxMishaps

TypeInv ==
  /\ FlashType /\ RecType /\ HistoryType
  /\ up \in [Updaters -> Records] /\ lock \in Updaters \cup {None, Recovery}
  /\ \A u \in Updaters : InPlace(u, up[u], Len(good), lock)

LEMMA TypeInvTypes == TypeInv => TypeOK
BY DEF TypeInv, TypeOK, FlashType, RecType, HistoryType, Records

LEMMA NoUpdateInPlace ==
  ASSUME OtaAssumption
  PROVE  NoUpdate \in Records /\ \A u, n, l : InPlace(u, NoUpdate, n, l)
<1>1. NoUpdate.pc = "idle" /\ NoUpdate.i = 0 /\ NoUpdate.v = 1 /\ NoUpdate.size = 0
      /\ NoUpdate.sum = [k \in 1 .. SumLen |-> 0]
  BY DEF NoUpdate
<1>2. [k \in 1 .. SumLen |-> 0] = LastRead(0)
  BY DEF LastRead, SumLen
<1>3. NoUpdate \in Records
  BY Sectors DEF NoUpdate, Records, Pcs, OtaAssumption, SumLen
<1> QED
  BY <1>1, <1>2, <1>3 DEF InPlace, Early, Locked

LEMMA TypeInit == ASSUME OtaAssumption, Init PROVE TypeInv
<1>1. FlashType /\ RecType /\ HistoryType
  <2>1. FlashType
    BY DEF Init, FlashType, OtaAssumption, WordsOf, Blank
  <2>2. RecType
    BY DEF Init, RecType, NoRecovery, OtaAssumption
  <2>3. good \in Seq(BOOLEAN) /\ Len(good) = 0
    BY EmptySeq DEF Init
  <2>5. Len(good) <= MaxUpdates /\ 0 \in 0 .. MaxMishaps
    BY <2>3 DEF OtaAssumption
  <2>4. HistoryType
    BY <2>3, <2>5, Zenon DEF Init, HistoryType
  <2> QED
    BY <2>1, <2>2, <2>4
<1> QED
  BY <1>1, NoUpdateInPlace DEF Init, TypeInv

(* One updater moves, and takes or gives back the lock at most.              *)
LEMMA OneMoves ==
  ASSUME OtaAssumption, TypeInv, NEW u \in Updaters, NEW r \in Records,
         up' = [up EXCEPT ![u] = r], FlashType', HistoryType', UNCHANGED rec,
         InPlace(u, r, Len(good'), lock'), Len(good') >= Len(good),
         lock' = lock \/ (lock \in {None, u} /\ lock' \in {None, u})
  PROVE  TypeInv'
<1>1. up' \in [Updaters -> Records] /\ up'[u] = r /\ \A w \in Updaters \ {u} : up'[w] = up[w]
  BY DEF TypeInv
<1>2. None \notin Updaters /\ Recovery \notin Updaters /\ None # Recovery
  BY DEF OtaAssumption, Recovery
<1>3. RecType'
  BY <1>2 DEF TypeInv, RecType
<1>4. lock' \in Updaters \cup {None, Recovery}
  BY DEF TypeInv
<1>5. Len(good) \in Nat /\ Len(good') \in Nat
  BY DEF TypeInv, HistoryType
<1>6. ASSUME NEW w \in Updaters PROVE InPlace(w, up'[w], Len(good'), lock')
  <2>1. CASE w = u
    BY <1>1, <2>1
  <2>2. CASE w # u
    <3>1. up'[w] = up[w] /\ InPlace(w, up[w], Len(good), lock)
      BY <1>1, <2>2 DEF TypeInv
    <3>2. lock = w => lock' = w
      BY <1>2, <2>2
    <3> QED
      BY <1>5, <3>1, <3>2 DEF InPlace
  <2> QED
    BY <2>1, <2>2
<1> QED
  BY <1>1, <1>3, <1>4, <1>6 DEF TypeInv

LEMMA Goes ==
  ASSUME OtaAssumption, TypeInv, NEW u \in Updaters, Active(u),
         NEW pc \in Pcs, NEW i \in 0 .. Words + LastSector, Goto(u, pc, i),
         pc \in {"copyOut", "copyBack"} => i < Words,
         pc = "erase" => i <= LastSector,
         pc \in Early => up[u].pc \in Early,
         pc \in Locked => lock' = u,
         FlashType', HistoryType', UNCHANGED <<rec, good>>,
         lock' = lock \/ (lock \in {None, u} /\ lock' \in {None, u})
  PROVE  TypeInv'
<1> DEFINE r == [up[u] EXCEPT !.pc = pc, !.i = i]
<1>1. up[u] \in Records
  BY DEF TypeInv
<1>2. r \in Records /\ r.pc = pc /\ r.i = i /\ r.v = up[u].v /\ r.size = up[u].size /\ r.sum = up[u].sum
  BY <1>1 DEF Records
<1>3. up' = [up EXCEPT ![u] = r]
  BY DEF Goto
<1> HIDE DEF r
<1>4. InPlace(u, up[u], Len(good), lock)
  BY DEF TypeInv
<1>5. InPlace(u, r, Len(good'), lock')
  BY <1>2, <1>4 DEF InPlace, Active, At
<1>6. Len(good) \in Nat /\ Len(good') >= Len(good)
  BY DEF HistoryType, TypeInv
<1> QED
  BY <1>2, <1>3, <1>5, <1>6, OneMoves

LEMMA Stops ==
  ASSUME OtaAssumption, TypeInv, NEW u \in Updaters, Stop(u),
         FlashType', HistoryType', UNCHANGED <<rec, good>>,
         lock' = lock \/ (lock \in {None, u} /\ lock' \in {None, u})
  PROVE  TypeInv'
<1>1. Len(good) \in Nat /\ Len(good') >= Len(good)
  BY DEF HistoryType, TypeInv
<1>2. NoUpdate \in Records /\ InPlace(u, NoUpdate, Len(good'), lock')
  BY NoUpdateInPlace
<1>3. up' = [up EXCEPT ![u] = NoUpdate]
  BY DEF Stop
<1> QED
  BY <1>1, <1>2, <1>3, OneMoves

(* What an updater does before it reads.                                     *)
LEMMA TypePrepare ==
  ASSUME OtaAssumption, TypeInv, NEW u \in Updaters,
         \/ PrepareAddr(u) \/ EraseBackup(u) \/ CopyOut(u) \/ EraseSystem(u) \/ CopyBack(u)
         \/ DropBackup(u) \/ Open(u) \/ EraseSector(u)
  PROVE  TypeInv'
<1> USE DEF At, Active, Keep, flash, Early, Locked, Pcs
<1>1. HistoryType'
  BY DEF TypeInv, HistoryType, PrepareAddr, EraseBackup, CopyOut, EraseSystem, CopyBack,
         DropBackup, Open, EraseSector
<1>2. LastSector \in Nat /\ Words \in Nat \ {0} /\ 0 \in 0 .. Words + LastSector
  BY Sectors DEF OtaAssumption
<1>3. /\ up[u] \in Records
      /\ InPlace(u, up[u], Len(good), lock)
  BY DEF TypeInv
<1>4. CASE PrepareAddr(u)
  <2>1. FlashType'
    BY <1>4 DEF TypeInv, FlashType, PrepareAddr
  <2> QED
    BY <1>1, <1>2, <1>4, <2>1, Goes DEF PrepareAddr, Lock, Free
<1>5. CASE EraseBackup(u)
  <2>1. FlashType'
    BY <1>5 DEF TypeInv, FlashType, EraseBackup, Blank
  <2>2. lock = u /\ up[u].pc \in Early
    BY <1>3, <1>5 DEF EraseBackup, InPlace
  <2>3. Goto(u, "copyOut", 0) /\ 0 < Words /\ "copyOut" \in Pcs
    BY <1>2, <1>5 DEF EraseBackup
  <2> HIDE DEF Pcs, Early
  <2> QED
    BY <1>1, <1>2, <1>5, <2>1, <2>2, <2>3, Goes DEF EraseBackup
<1>6. CASE CopyOut(u)
  <2>1. FlashType'
    BY <1>6 DEF TypeInv, FlashType, CopyOut
  <2>2. up[u].i \in 0 .. Words - 1
    BY <1>2, <1>3, <1>6 DEF CopyOut, InPlace, Records
  <2>3. lock = u /\ up[u].pc \in Early
    BY <1>3, <1>6 DEF CopyOut, InPlace
  <2>4. up[u].i \in 0 .. Words - 1 /\ FlashType'
    BY <2>1, <2>2
  <2>5. CASE up[u].i + 1 = Words
    <3>1. Goto(u, "eraseSys", 0)
      BY <1>6, <2>5 DEF CopyOut
    <3> QED
      BY <1>1, <1>2, <1>6, <2>3, <2>4, <3>1, Goes DEF CopyOut
  <2>6. CASE up[u].i + 1 # Words
    <3>1. Goto(u, "copyOut", up[u].i + 1) /\ up[u].i + 1 < Words /\ up[u].i + 1 \in 0 .. Words + LastSector
      BY <1>2, <1>6, <2>4, <2>6 DEF CopyOut
    <3> QED
      BY <1>1, <1>6, <2>3, <2>4, <3>1, Goes DEF CopyOut
  <2> QED
    BY <2>5, <2>6
<1>7. CASE EraseSystem(u)
  <2>1. FlashType'
    BY <1>7 DEF TypeInv, FlashType, EraseSystem, Blank
  <2>2. lock = u /\ up[u].pc \in Early
    BY <1>3, <1>7 DEF EraseSystem, InPlace
  <2>3. Goto(u, "copyBack", 0) /\ 0 < Words /\ "copyBack" \in Pcs
    BY <1>2, <1>7 DEF EraseSystem
  <2> HIDE DEF Pcs, Early
  <2> QED
    BY <1>1, <1>2, <1>7, <2>1, <2>2, <2>3, Goes DEF EraseSystem
<1>8. CASE CopyBack(u)
  <2>1. up[u].i \in 0 .. Words - 1
    BY <1>2, <1>3, <1>8 DEF CopyBack, InPlace, Records
  <2>2. FlashType'
    BY <1>8, <2>1 DEF TypeInv, FlashType, CopyBack, WordsOf
  <2>3. lock = u /\ up[u].pc \in Early
    BY <1>3, <1>8 DEF CopyBack, InPlace
  <2>4. up[u].i \in 0 .. Words - 1 /\ FlashType'
    BY <2>1, <2>2
  <2>5. CASE up[u].i + 1 = Words
    <3>1. Goto(u, "dropBak", 0)
      BY <1>8, <2>5 DEF CopyBack
    <3> QED
      BY <1>1, <1>2, <1>8, <2>3, <2>4, <3>1, Goes DEF CopyBack
  <2>6. CASE up[u].i + 1 # Words
    <3>1. Goto(u, "copyBack", up[u].i + 1) /\ up[u].i + 1 < Words /\ up[u].i + 1 \in 0 .. Words + LastSector
      BY <1>2, <1>8, <2>4, <2>6 DEF CopyBack
    <3> QED
      BY <1>1, <1>8, <2>3, <2>4, <3>1, Goes DEF CopyBack
  <2> QED
    BY <2>5, <2>6
<1>9. CASE DropBackup(u)
  <2>1. FlashType'
    BY <1>9 DEF TypeInv, FlashType, DropBackup, Blank
  <2> QED
    BY <1>1, <1>2, <1>3, <1>9, <2>1, Goes DEF DropBackup, InPlace, Unlock
<1>10. CASE Open(u)
  <2>1. FlashType'
    BY <1>10 DEF TypeInv, FlashType, Open
  <2>2. /\ Goto(u, "erase", 0) /\ 0 <= LastSector /\ "erase" \in Pcs /\ up[u].pc \in Early
        /\ lock = None /\ lock' = u
    BY <1>2, <1>10 DEF Open, Lock
  <2> HIDE DEF Pcs, Early
  <2> QED
    BY <1>1, <1>2, <1>10, <2>1, <2>2, Goes DEF Open
<1>11. CASE EraseSector(u)
  <2>1. FlashType'
    BY <1>11 DEF TypeInv, FlashType, HistoryType, EraseSector, Erase, OtaAssumption
  <2>2. up[u].i \in 0 .. LastSector
    BY <1>2, <1>3, <1>11 DEF EraseSector, InPlace, Records
  <2>3. CASE up[u].i = LastSector
    BY <1>1, <1>2, <1>3, <1>11, <2>1, <2>3, Goes DEF EraseSector, InPlace, Unlock
  <2>4. CASE up[u].i # LastSector
    <3>1. up[u].i + 1 <= LastSector /\ up[u].i + 1 \in 0 .. Words + LastSector
      BY <1>2, <2>2, <2>4
    <3>2. lock = u
      BY <1>3, <1>11 DEF EraseSector, InPlace
    <3> QED
      BY <1>1, <1>11, <2>1, <2>4, <3>1, <3>2, Goes DEF EraseSector
  <2> QED
    BY <2>3, <2>4
<1> QED
  BY <1>4, <1>5, <1>6, <1>7, <1>8, <1>9, <1>10, <1>11

LEMMA Advances ==
  ASSUME OtaAssumption, TypeInv, NEW u \in Updaters, NEW pc \in Pcs, NEW h \in Nat, NEW n \in Nat,
         up[u].size + n <= FileLen, u = "local" => h = 0, Advance(u, pc, h, n)
  PROVE  \E r \in Records :
           /\ up' = [up EXCEPT ![u] = r]
           /\ r.pc = pc /\ r.size = up[u].size + n /\ r.i = up[u].i /\ r.v = up[u].v
           /\ u = "local" => r.sum = LastRead(r.size)
<1> DEFINE t == IF n = 0 THEN up[u].sum ELSE Sum(up[u].sum, Buffer(h, up[u].size, n), n)
           r == [up[u] EXCEPT !.pc = pc, !.size = @ + n, !.sum = t]
<1>1. up[u] \in Records /\ up[u].size \in Nat /\ up[u].sum \in Sums /\ up \in [Updaters -> Records]
  <2>1. up[u] \in Records /\ up \in [Updaters -> Records]
    BY DEF TypeInv
  <2>2. up[u].size \in 0 .. FileLen /\ up[u].sum \in Sums
    BY <2>1 DEF Records, Sums
  <2> QED
    BY <2>1, <2>2 DEF OtaAssumption
<1>2. t \in Sums
  BY <1>1, SumType
<1>3. u = "local" => up[u].sum = LastRead(up[u].size)
  BY DEF TypeInv, InPlace
<1>4. u = "local" => t = LastRead(up[u].size + n)
  BY <1>1, <1>3, SumKeepsLast
<1>5. up' = [up EXCEPT ![u] = [up[u] EXCEPT !.pc = pc, !.size = @ + n, !.sum = t]]
  BY <1>1 DEF Advance, Records
<1> HIDE DEF t
<1>6. r \in Records /\ r.pc = pc /\ r.size = up[u].size + n /\ r.i = up[u].i /\ r.v = up[u].v /\ r.sum = t
  <2>1. up[u].size + n \in 0 .. FileLen
    BY <1>1 DEF OtaAssumption
  <2> QED
    BY <1>1, <1>2, <2>1 DEF Records, Sums
<1> QED
  BY <1>4, <1>5, <1>6

LEMMA TypeStored ==
  ASSUME OtaAssumption, TypeInv, NEW u \in Updaters, up[u].pc \in {"first", "read"},
         NEW h \in Nat, NEW n \in Nat, up[u].size + n <= FileLen, u = "local" => h = 0,
         Store(u, h, n)
  PROVE  TypeInv'
<1>1. /\ up[u] \in Records /\ InPlace(u, up[u], Len(good), lock)
      /\ Len(good) \in Nat /\ Len(good) <= MaxUpdates /\ up[u].v \in 1 .. Len(good)
  BY DEF TypeInv, InPlace, HistoryType
<1>2. FlashType'
  BY <1>1 DEF TypeInv, FlashType, Store, Program, OtaAssumption
<1>3. HistoryType'
  BY DEF TypeInv, HistoryType, Store, Keep
<1> DEFINE pc == IF Done(u, n) THEN "verify" ELSE "read"
<1>4. pc \in Pcs /\ pc \in {"verify", "read"} /\ Advance(u, pc, h, n)
  BY DEF Store, Pcs
<1> HIDE DEF pc
<1>5. PICK r \in Records :
        /\ up' = [up EXCEPT ![u] = r]
        /\ r.pc = pc /\ r.v = up[u].v
        /\ u = "local" => r.sum = LastRead(r.size)
  BY <1>4, Advances
<1>6. Len(good') >= Len(good) /\ lock' = lock /\ rec' = rec /\ good' = good
  BY <1>1 DEF Store, Keep, Free
<1>7. InPlace(u, r, Len(good'), lock')
  <2>1. r.v \in 1 .. Len(good')
    BY <1>1, <1>5, <1>6
  <2>2. r.pc \notin Early /\ r.pc \notin Locked /\ r.pc \notin {"copyOut", "copyBack", "erase"}
    BY <1>4, <1>5 DEF Early, Locked
  <2> QED
    BY <1>5, <2>1, <2>2 DEF InPlace
<1> QED
  BY <1>2, <1>3, <1>5, <1>6, <1>7, OneMoves

(* What an updater reads, and what it makes of it.                           *)
LEMMA TypeDownload ==
  ASSUME OtaAssumption, TypeInv, NEW u \in Updaters,
         First(u) \/ Read(u) \/ Close(u) \/ Verify(u) \/ Sign(u) \/ SignSecond(u)
  PROVE  TypeInv'
<1>10. /\ "read" \in Pcs /\ "verify" \in Pcs /\ "sign" \in Pcs /\ "signed" \in Pcs /\ "reset" \in Pcs
       /\ "read" \notin Early /\ "verify" \notin Early /\ "sign" \notin Early
       /\ "signed" \notin Early /\ "reset" \notin Early
       /\ "read" \notin Locked /\ "verify" \notin Locked /\ "sign" \notin Locked /\ "reset" \notin Locked
  BY DEF Pcs, Early, Locked
<1>1. LastSector \in Nat /\ Words \in Nat \ {0} /\ 0 \in 0 .. Words + LastSector
  BY Sectors DEF OtaAssumption
<1>2. up[u] \in Records /\ InPlace(u, up[u], Len(good), lock) /\ up[u].size \in 0 .. FileLen
  BY DEF TypeInv, Records
<1>3. FileLen \in Nat /\ ChunkMax \in Nat /\ Headers \subseteq Nat
  BY DEF OtaAssumption
<1>4. CASE First(u)
  <2>1. CASE u = "local"
    <3>1. FlashType' /\ HistoryType'
      BY <1>4, <2>1 DEF First, TypeInv, FlashType, HistoryType, Keep, flash
    <3>2. Active(u) /\ Goto(u, "read", 0) /\ UNCHANGED <<rec, good>> /\ lock' = lock
      BY <1>4, <2>1 DEF First, At, Active, Keep, flash
    <3> QED
      BY <1>1, <1>10, <3>1, <3>2, Goes
  <2>2. CASE u # "local"
    <3>1. PICK h \in Headers : \E n \in 0 .. Least(ChunkMax - h, FileLen) : Store(u, h, n)
      BY <1>4, <2>2 DEF First
    <3>2. PICK n \in 0 .. Least(ChunkMax - h, FileLen) : Store(u, h, n)
      BY <3>1
    <3>3. up[u].size = 0
      BY <1>2, <1>4 DEF First, InPlace, At, Early
    <3>4. h \in Nat /\ n \in Nat /\ up[u].size + n <= FileLen
      <4>1. h \in Nat /\ ChunkMax - h \in Int
        BY <1>3
      <4>2. Least(ChunkMax - h, FileLen) \in Int /\ Least(ChunkMax - h, FileLen) <= FileLen
        BY <1>3, <4>1 DEF Least
      <4>3. n \in Nat /\ n <= FileLen
        BY <1>3, <4>2
      <4> QED
        BY <3>3, <4>1, <4>3
    <3> QED
      BY <1>4, <2>2, <3>2, <3>4, TypeStored DEF First, At
  <2> QED
    BY <2>1, <2>2
<1>5. CASE Read(u)
  <2>1. PICK n \in 1 .. Least(ChunkMax, FileLen - up[u].size) : Store(u, 0, n)
    BY <1>5 DEF Read
  <2>2. n \in Nat /\ up[u].size + n <= FileLen
    BY <1>2, <1>3 DEF Least
  <2> QED
    BY <1>5, <2>1, <2>2, TypeStored DEF Read, At
<1>6. CASE Close(u)
  <2>1. FlashType' /\ HistoryType'
    BY <1>6 DEF Close, TypeInv, FlashType, HistoryType, Mishap, OtaAssumption, flash
  <2>2. CASE u = "local"
    <3>1. Active(u) /\ Goto(u, "verify", 0) /\ UNCHANGED <<rec, good>> /\ lock' = lock
      BY <1>6, <2>2 DEF Close, At, Active, Keep, flash
    <3> QED
      BY <1>1, <1>10, <2>1, <3>1, Goes
  <2>3. CASE u # "local"
    <3>1. Stop(u) /\ UNCHANGED <<rec, good>> /\ lock' = lock
      BY <1>6, <2>3 DEF Close
    <3> QED
      BY <2>1, <3>1, Stops
  <2> QED
    BY <2>2, <2>3
<1>7. CASE Verify(u)
  <2>1. FlashType' /\ HistoryType' /\ lock' = lock
    BY <1>7 DEF Verify, TypeInv, FlashType, HistoryType, Free, Keep, flash
  <2>2. CASE Matches(u)
    <3>1. Active(u) /\ Goto(u, "sign", 0) /\ UNCHANGED <<rec, good>>
      BY <1>7, <2>2 DEF Verify, At, Active, Keep, flash
    <3> QED
      BY <1>1, <1>10, <2>1, <3>1, Goes
  <2>3. CASE ~Matches(u)
    <3>1. Stop(u) /\ UNCHANGED <<rec, good>>
      BY <1>7, <2>3 DEF Verify, Keep
    <3> QED
      BY <2>1, <3>1, Stops
  <2> QED
    BY <2>2, <2>3
<1>8. CASE Sign(u)
  <2>1. FlashType' /\ HistoryType'
    BY <1>8 DEF Sign, TypeInv, FlashType, HistoryType, Keep
  <2>2. /\ Active(u) /\ Goto(u, "signed", 0) /\ UNCHANGED <<rec, good>>
        /\ lock = None /\ lock' = u
    BY <1>8 DEF Sign, Lock, At, Active, Keep, flash
  <2> QED
    BY <1>1, <1>10, <2>1, <2>2, Goes
<1>9. CASE SignSecond(u)
  <2>1. FlashType' /\ HistoryType'
    BY <1>9 DEF SignSecond, TypeInv, FlashType, HistoryType, Keep
  <2>2. lock = u /\ lock' = None
    BY <1>2, <1>9 DEF SignSecond, InPlace, Unlock, At, Locked
  <2>3. CASE u = "local"
    <3>1. Active(u) /\ Goto(u, "reset", 0) /\ UNCHANGED <<rec, good>>
      BY <1>9, <2>3 DEF SignSecond, At, Active, Keep, flash
    <3> QED
      BY <1>1, <1>10, <2>1, <2>2, <3>1, Goes
  <2>4. CASE u # "local"
    <3>1. Stop(u) /\ UNCHANGED <<rec, good>>
      BY <1>9, <2>4 DEF SignSecond, Keep
    <3> QED
      BY <2>1, <2>2, <3>1, Stops
  <2> QED
    BY <2>3, <2>4
<1> QED
  BY <1>4, <1>5, <1>6, <1>7, <1>8, <1>9

LEMMA TypeStart ==
  ASSUME OtaAssumption, TypeInv, NEW u \in Updaters, Start(u)
  PROVE  TypeInv'
<1>1. PICK g \in BOOLEAN : good' = Append(good, g)
  BY DEF Start
<1>2. /\ good \in Seq(BOOLEAN) /\ Len(good) \in Nat /\ Len(good) < MaxUpdates /\ MaxUpdates \in Nat
  BY DEF Start, TypeInv, HistoryType, OtaAssumption
<1>3. good' \in Seq(BOOLEAN) /\ Len(good') = Len(good) + 1
  BY <1>1, <1>2
<1>4. FlashType' /\ HistoryType'
  <2>1. FlashType'
    BY DEF Start, TypeInv, FlashType, flash
  <2>2. Len(good') <= MaxUpdates
    BY <1>2, <1>3
  <2>3. overlap' \in BOOLEAN /\ again' = again /\ torn' = torn /\ mishaps' = mishaps
    BY DEF Start
  <2> QED
    BY <1>3, <2>1, <2>2, <2>3 DEF TypeInv, HistoryType
<1> DEFINE r == [NoUpdate EXCEPT !.pc = "connect", !.v = Len(good')]
<1>5. NoUpdate \in Records /\ NoUpdate.size = 0 /\ NoUpdate.sum = [k \in 1 .. SumLen |-> 0]
  BY NoUpdateInPlace DEF NoUpdate
<1>6. [k \in 1 .. SumLen |-> 0] = LastRead(0)
  BY DEF LastRead, SumLen
<1>7. Len(good') \in 1 .. MaxUpdates + 1 /\ "connect" \in Pcs
  BY <1>2, <1>3 DEF Pcs
<1>8. r \in Records /\ r.pc = "connect" /\ r.v = Len(good') /\ r.size = 0 /\ r.sum = NoUpdate.sum
  BY <1>5, <1>7 DEF Records
<1>9. up' = [up EXCEPT ![u] = r]
  BY DEF Start
<1> HIDE DEF r
<1>10. "connect" \notin Locked
  BY DEF Locked
<1>11. InPlace(u, r, Len(good'), lock')
  BY <1>2, <1>3, <1>5, <1>6, <1>8, <1>10 DEF InPlace
<1>12. Len(good') >= Len(good) /\ lock' = lock /\ rec' = rec
  BY <1>2, <1>3 DEF Start
<1> QED
  BY <1>4, <1>8, <1>9, <1>11, <1>12, OneMoves

LEMMA TypeUpdate ==
  ASSUME OtaAssumption, TypeInv, NEW u \in Updaters, Update(u)
  PROVE  TypeInv'
<1>1. CASE Fail(u)
  <2>1. FlashType' /\ HistoryType'
    BY <1>1 DEF Fail, TypeInv, FlashType, HistoryType, Mishap, OtaAssumption, flash
  <2>2. Stop(u) /\ UNCHANGED <<rec, good>> /\ lock' = lock
    BY <1>1 DEF Fail
  <2> QED
    BY <2>1, <2>2, Stops
<1>2. CASE Redirect(u)
  <2>1. FlashType' /\ HistoryType'
    BY <1>2 DEF Redirect, TypeInv, FlashType, HistoryType, Mishap, OtaAssumption, flash
  <2>2. Active(u) /\ Goto(u, "connect", 0) /\ UNCHANGED <<rec, good>> /\ lock' = lock
    BY <1>2 DEF Redirect, At, Active
  <2>3. "connect" \in Pcs /\ "connect" \notin Locked /\ up[u].pc \in Early
    BY <1>2 DEF Redirect, At, Pcs, Locked, Early
  <2>4. 0 \in 0 .. Words + LastSector
    BY Sectors DEF OtaAssumption
  <2> QED
    BY <2>1, <2>2, <2>3, <2>4, Goes
<1> QED
  BY <1>1, <1>2, TypeStart, TypePrepare, TypeDownload DEF Update

(* Recovery of the signature, and what ends everything.                      *)
LEMMA TypeRecovery ==
  ASSUME OtaAssumption, TypeInv, ClearSignature \/ RecoverSignature
  PROVE  TypeInv'
<1>1. /\ UNCHANGED <<up, good, overlap, torn>> /\ again' \in BOOLEAN /\ mishaps' \in 0 .. MaxMishaps
      /\ FlashType'
  <2> USE DEF TypeInv, HistoryType, FlashType, RecoveryStep
  <2>0. /\ MaxMishaps \in Nat /\ MaxUpdates \in Nat /\ rec.buf \in [Positions -> -1 .. MaxUpdates]
    BY DEF OtaAssumption, RecType
  <2>1. CASE ClearSignature
    BY <2>1 DEF ClearSignature, Keep
  <2>2. CASE Recover
    BY <2>2 DEF Recover, flash
  <2>3. CASE RecoverFails
    BY <2>0, <2>3 DEF RecoverFails, Mishap, flash
  <2>4. CASE RecoverBackup
    BY <2>4 DEF RecoverBackup, Blank
  <2>5. CASE RecoverErase
    BY <2>0, <2>5 DEF RecoverErase, Erase
  <2>6. CASE RecoverHead
    BY <2>6 DEF RecoverHead
  <2>7. CASE RecoverRest
    BY <2>0, <2>7 DEF RecoverRest
  <2> QED
    BY <2>1, <2>2, <2>3, <2>4, <2>5, <2>6, <2>7 DEF RecoverSignature
<1>2. HistoryType'
  BY <1>1 DEF TypeInv, HistoryType
<1>3. RecType' /\ (lock' = lock \/ (lock \in {None, Recovery} /\ lock' \in {None, Recovery}))
  <2> USE DEF TypeInv, RecType, RecoveryStep, NoRecovery, FlashType
  <2>0. MaxUpdates \in Nat
    BY DEF OtaAssumption
  <2>1. CASE ClearSignature
    BY <2>1 DEF ClearSignature, Free, Keep
  <2>2. CASE Recover
    BY <2>0, <2>2 DEF Recover, Lock
  <2>3. CASE RecoverFails
    BY <2>3 DEF RecoverFails, Lock
  <2>4. CASE RecoverBackup
    BY <2>4 DEF RecoverBackup
  <2>5. CASE RecoverErase
    BY <2>5 DEF RecoverErase
  <2>6. CASE RecoverHead
    BY <2>6 DEF RecoverHead
  <2>7. CASE RecoverRest
    BY <2>0, <2>7 DEF RecoverRest, Unlock
  <2> QED
    BY <2>1, <2>2, <2>3, <2>4, <2>5, <2>6, <2>7 DEF RecoverSignature
<1>4. None \notin Updaters /\ Recovery \notin Updaters
  BY DEF OtaAssumption, Recovery
<1>5. \A u \in Updaters : InPlace(u, up'[u], Len(good'), lock')
  BY <1>1, <1>3, <1>4 DEF TypeInv, InPlace
<1> QED
  BY <1>1, <1>2, <1>3, <1>5 DEF TypeInv

LEMMA TypeRestart ==
  ASSUME OtaAssumption, TypeInv, Reset \/ PowerFails
  PROVE  TypeInv'
<1>1. FlashType' /\ HistoryType'
  <2>1. MaxMishaps \in Nat
    BY DEF OtaAssumption
  <2>2. mishaps' \in 0 .. MaxMishaps
    BY <2>1 DEF Reset, PowerFails, Mishap, TypeInv, HistoryType
  <2>3. UNCHANGED <<sys, bak, img, sig, good, overlap, again>> /\ torn' \in BOOLEAN
    BY DEF Reset, PowerFails, Restart, flash
  <2> QED
    BY <2>2, <2>3 DEF TypeInv, FlashType, HistoryType
<1>2. RecType' /\ lock' = None
  BY DEF Reset, PowerFails, Restart, RecType, NoRecovery, OtaAssumption
<1>3. up' = [u \in Updaters |-> NoUpdate]
  BY DEF Reset, PowerFails, Restart
<1> QED
  BY <1>1, <1>2, <1>3, NoUpdateInPlace DEF TypeInv

LEMMA TypeStep == ASSUME OtaAssumption, TypeInv, [Next]_vars PROVE TypeInv'
<1>1. CASE UNCHANGED vars
  BY <1>1 DEF vars, flash, TypeInv, FlashType, RecType, HistoryType
<1> QED
  BY <1>1, TypeUpdate, TypeRecovery, TypeRestart DEF Next

(* TypeOK of Ota: every variable keeps to its type, and the checksum that is *)
(* kept has its four bytes, wherever the packets and the header end.         *)
THEOREM TypesHold == OtaAssumption => (Spec => []TypeOK)
<1> SUFFICES ASSUME OtaAssumption PROVE Spec => []TypeOK
  OBVIOUS
<1>1. Init => TypeInv
  BY TypeInit
<1>2. TypeInv /\ [Next]_vars => TypeInv'
  BY TypeStep
<1> QED
  BY <1>1, <1>2, TypeInvTypes, PTL DEF Spec

-----------------------------------------------------------------------------
(* GoodIsTaken of Ota: the local task never refuses a right file, whatever   *)
(* its packets - among them those that hold fewer bytes than the checksum    *)
(* and those that end in the middle of it.                                   *)
THEOREM GoodIsTakenHolds == OtaAssumption => (Spec => []GoodIsTaken)
<1> SUFFICES ASSUME OtaAssumption PROVE Spec => []GoodIsTaken
  OBVIOUS
<1>1. TypeInv => GoodIsTaken
  <2> SUFFICES ASSUME TypeInv, NEW u \in Updaters, u = "local", up[u].size = FileLen,
                      good[up[u].v], \A p \in Positions : img[p] = up[u].v
               PROVE  Matches(u)
    BY DEF GoodIsTaken
  <2>1. up[u].sum = LastRead(FileLen)
    BY DEF TypeInv, InPlace
  <2>2. LastRead(FileLen) = [k \in 1 .. SumLen |-> FileLen - SumLen + k]
    BY DEF LastRead, SumLen, OtaAssumption
  <2>3. Intact(up[u].v)
    BY DEF Intact, Positions, SumLen, OtaAssumption
  <2> QED
    BY <2>1, <2>2, <2>3 DEF Matches
<1>2. Init => TypeInv
  BY TypeInit
<1>3. TypeInv /\ [Next]_vars => TypeInv'
  BY TypeStep
<1> QED
  BY <1>1, <1>2, <1>3, PTL DEF Spec

-----------------------------------------------------------------------------
(* System data. While its sector is rewritten the words are all in the one   *)
(* sector or all in the other, and the copy that is being made is complete   *)
(* as far as it has come. Whoever writes either sector has the lock.         *)

Whole(words) == \A i \in WordsOf \ {0} : words[i]
Copying == {"eraseBak", "copyOut", "eraseSys", "copyBack", "dropBak"}

CopyKept(r) ==
  /\ r.pc \in {"eraseBak", "copyOut", "eraseSys", "dropBak"} => Whole(sys)
  /\ r.pc \in {"eraseSys", "copyBack"} => Whole(bak)
  /\ r.pc = "copyOut" => \A j \in WordsOf \ {0} : j < r.i => bak[j]
  /\ r.pc = "copyBack" => \A j \in WordsOf \ {0} : j < r.i => sys[j]

DataInv ==
  again \/ (/\ Whole(sys) \/ Whole(bak)
            /\ \A u \in Updaters : CopyKept(up[u]))

(* One updater moves; if it writes system data, it has the lock.             *)
LEMMA OneCopies ==
  ASSUME OtaAssumption, TypeInv, DataInv, ~again, ~again', NEW u \in Updaters,
         \A w \in Updaters \ {u} : up'[w] = up[w],
         UNCHANGED <<sys, bak>> \/ lock = None \/ lock = u,
         Whole(sys') \/ Whole(bak'), CopyKept(up[u])'
  PROVE  DataInv'
<1>1. None \notin Updaters
  BY DEF OtaAssumption
<1>2. ASSUME NEW w \in Updaters \ {u} PROVE CopyKept(up[w])'
  <2>1. CopyKept(up[w]) /\ up'[w] = up[w] /\ InPlace(w, up[w], Len(good), lock)
    BY DEF DataInv, TypeInv
  <2>2. CASE UNCHANGED <<sys, bak>>
    BY <2>1, <2>2 DEF CopyKept, Whole
  <2>3. CASE lock = None \/ lock = u
    <3>1. up[w].pc \notin Locked
      BY <1>1, <2>1, <2>3 DEF InPlace
    <3> QED
      BY <2>1, <3>1 DEF CopyKept, Locked
  <2> QED
    BY <2>2, <2>3
<1> QED
  BY <1>2 DEF DataInv

(* Who moves outside the copying leaves system data alone.                   *)
LEMMA NobodyCopies ==
  ASSUME OtaAssumption, TypeInv, DataInv, NEW u \in Updaters, NEW r, r.pc \notin Copying,
         up' = [up EXCEPT ![u] = r], UNCHANGED <<sys, bak, again>>
  PROVE  DataInv'
<1> SUFFICES ASSUME ~again PROVE DataInv'
  BY DEF DataInv
<1>1. up'[u] = r /\ \A w \in Updaters \ {u} : up'[w] = up[w]
  BY DEF TypeInv
<1>2. CopyKept(up[u])'
  BY <1>1 DEF CopyKept, Copying
<1> QED
  BY <1>1, <1>2, OneCopies DEF DataInv, Whole

LEMMA NobodyGoes ==
  ASSUME OtaAssumption, TypeInv, DataInv, NEW u \in Updaters, UNCHANGED <<sys, bak, again>>,
         Stop(u) \/ \E pc \in Pcs \ Copying, i \in Int : Goto(u, pc, i)
  PROVE  DataInv'
<1>1. CASE Stop(u)
  <2>1. NoUpdate.pc = "idle" /\ up' = [up EXCEPT ![u] = NoUpdate]
    BY <1>1 DEF Stop, NoUpdate
  <2> QED
    BY <2>1, NobodyCopies DEF Copying
<1>2. CASE \E pc \in Pcs \ Copying, i \in Int : Goto(u, pc, i)
  <2>1. PICK pc \in Pcs \ Copying, i \in Int : Goto(u, pc, i)
    BY <1>2
  <2> DEFINE r == [up[u] EXCEPT !.pc = pc, !.i = i]
  <2>2. r.pc = pc
    BY DEF TypeInv, Records
  <2>3. up' = [up EXCEPT ![u] = r]
    BY <2>1 DEF Goto
  <2> QED
    BY <2>2, <2>3, NobodyCopies
<1> QED
  BY <1>1, <1>2

LEMMA DataPrepare ==
  ASSUME OtaAssumption, TypeInv, DataInv, NEW u \in Updaters,
         \/ PrepareAddr(u) \/ EraseBackup(u) \/ CopyOut(u) \/ EraseSystem(u) \/ CopyBack(u) \/ DropBackup(u)
  PROVE  DataInv'
<1> SUFFICES ASSUME ~again' PROVE DataInv'
  BY DEF DataInv
<1>1. ~again /\ CopyKept(up[u]) /\ (Whole(sys) \/ Whole(bak))
  <2>1. ~again
    BY DEF PrepareAddr, EraseBackup, CopyOut, EraseSystem, CopyBack, DropBackup, Keep
  <2> QED
    BY <2>1 DEF DataInv
<1>2. /\ up \in [Updaters -> Records] /\ up[u] \in Records /\ InPlace(u, up[u], Len(good), lock)
      /\ sys \in [WordsOf -> BOOLEAN] /\ bak \in [WordsOf -> BOOLEAN]
  BY DEF TypeInv, FlashType
<1>3. ASSUME NEW pc, NEW i, Goto(u, pc, i)
      PROVE  up'[u].pc = pc /\ up'[u].i = i /\ \A w \in Updaters \ {u} : up'[w] = up[w]
  BY <1>2, <1>3 DEF Goto, Records
<1>4. CASE PrepareAddr(u)
  <2>1. Whole(sys)
    BY <1>4 DEF PrepareAddr, Missing, Whole
  <2>2. Whole(sys')
    BY <1>2, <1>4, <2>1 DEF PrepareAddr, Whole
  <2>3. CASE sys[0]
    <3>1. up'[u].pc = "eraseBak" /\ \A w \in Updaters \ {u} : up'[w] = up[w]
      BY <1>3, <1>4, <2>3 DEF PrepareAddr
    <3>2. CopyKept(up[u])'
      BY <2>2, <3>1 DEF CopyKept
    <3>3. lock = None
      BY <1>4, <2>3 DEF PrepareAddr, Lock
    <3> QED
      BY <1>1, <2>2, <3>1, <3>2, <3>3, OneCopies
  <2>4. CASE ~sys[0]
    <3>1. up'[u].pc = "open" /\ \A w \in Updaters \ {u} : up'[w] = up[w]
      BY <1>3, <1>4, <2>4 DEF PrepareAddr
    <3>2. CopyKept(up[u])'
      BY <3>1 DEF CopyKept
    <3>3. lock = None
      BY <1>4, <2>4 DEF PrepareAddr, Free
    <3> QED
      BY <1>1, <2>2, <3>1, <3>2, <3>3, OneCopies
  <2> QED
    BY <2>3, <2>4
<1>5. CASE EraseBackup(u)
  <2>1. Whole(sys) /\ Whole(sys') /\ lock = u
    BY <1>1, <1>2, <1>5 DEF EraseBackup, CopyKept, InPlace, At, Locked, Whole
  <2>2. up'[u].pc = "copyOut" /\ up'[u].i = 0 /\ \A w \in Updaters \ {u} : up'[w] = up[w]
    BY <1>3, <1>5 DEF EraseBackup
  <2>3. CopyKept(up[u])'
    BY <2>1, <2>2 DEF CopyKept, WordsOf
  <2> QED
    BY <1>1, <2>1, <2>2, <2>3, OneCopies
<1>6. CASE CopyOut(u)
  <2>1. Whole(sys) /\ Whole(sys') /\ lock = u /\ \A j \in WordsOf \ {0} : j < up[u].i => bak[j]
    BY <1>1, <1>2, <1>6 DEF CopyOut, CopyKept, InPlace, At, Locked, Whole
  <2>2. up[u].i \in WordsOf /\ Words \in Nat
    BY <1>2, <1>6 DEF CopyOut, InPlace, At, Records, WordsOf, OtaAssumption
  <2>3. \A j \in WordsOf \ {0} : j < up[u].i + 1 => bak'[j]
    BY <1>2, <1>6, <2>1, <2>2 DEF CopyOut, Whole, WordsOf
  <2>4. CASE up[u].i + 1 = Words
    <3>1. up'[u].pc = "eraseSys" /\ \A w \in Updaters \ {u} : up'[w] = up[w]
      BY <1>3, <1>6, <2>4 DEF CopyOut
    <3>2. Whole(bak')
      BY <2>2, <2>3, <2>4 DEF Whole, WordsOf
    <3>3. CopyKept(up[u])'
      BY <2>1, <3>1, <3>2 DEF CopyKept
    <3> QED
      BY <1>1, <2>1, <3>1, <3>3, OneCopies
  <2>5. CASE up[u].i + 1 # Words
    <3>1. up'[u].pc = "copyOut" /\ up'[u].i = up[u].i + 1 /\ \A w \in Updaters \ {u} : up'[w] = up[w]
      BY <1>3, <1>6, <2>5 DEF CopyOut
    <3>2. CopyKept(up[u])'
      BY <2>1, <2>3, <3>1 DEF CopyKept
    <3> QED
      BY <1>1, <2>1, <3>1, <3>2, OneCopies
  <2> QED
    BY <2>4, <2>5
<1>7. CASE EraseSystem(u)
  <2>1. Whole(bak) /\ Whole(bak') /\ lock = u
    BY <1>1, <1>2, <1>7 DEF EraseSystem, CopyKept, InPlace, At, Locked, Whole
  <2>2. up'[u].pc = "copyBack" /\ up'[u].i = 0 /\ \A w \in Updaters \ {u} : up'[w] = up[w]
    BY <1>3, <1>7 DEF EraseSystem
  <2>3. CopyKept(up[u])'
    BY <2>1, <2>2 DEF CopyKept, WordsOf
  <2> QED
    BY <1>1, <2>1, <2>2, <2>3, OneCopies
<1>8. CASE CopyBack(u)
  <2>1. Whole(bak) /\ Whole(bak') /\ lock = u /\ \A j \in WordsOf \ {0} : j < up[u].i => sys[j]
    BY <1>1, <1>2, <1>8 DEF CopyBack, CopyKept, InPlace, At, Locked, Whole
  <2>2. up[u].i \in WordsOf /\ Words \in Nat
    BY <1>2, <1>8 DEF CopyBack, InPlace, At, Records, WordsOf, OtaAssumption
  <2>3. \A j \in WordsOf \ {0} : j < up[u].i + 1 => sys'[j]
    BY <1>2, <1>8, <2>1, <2>2 DEF CopyBack, Whole, WordsOf
  <2>4. CASE up[u].i + 1 = Words
    <3>1. up'[u].pc = "dropBak" /\ \A w \in Updaters \ {u} : up'[w] = up[w]
      BY <1>3, <1>8, <2>4 DEF CopyBack
    <3>2. Whole(sys')
      BY <2>2, <2>3, <2>4 DEF Whole, WordsOf
    <3>3. CopyKept(up[u])'
      BY <3>1, <3>2 DEF CopyKept
    <3> QED
      BY <1>1, <2>1, <3>1, <3>3, OneCopies
  <2>5. CASE up[u].i + 1 # Words
    <3>1. up'[u].pc = "copyBack" /\ up'[u].i = up[u].i + 1 /\ \A w \in Updaters \ {u} : up'[w] = up[w]
      BY <1>3, <1>8, <2>5 DEF CopyBack
    <3>2. CopyKept(up[u])'
      BY <2>1, <2>3, <3>1 DEF CopyKept
    <3> QED
      BY <1>1, <2>1, <3>1, <3>2, OneCopies
  <2> QED
    BY <2>4, <2>5
<1>9. CASE DropBackup(u)
  <2>1. Whole(sys) /\ Whole(sys') /\ lock = u
    BY <1>1, <1>2, <1>9 DEF DropBackup, CopyKept, InPlace, At, Locked, Whole
  <2>2. up'[u].pc = "open" /\ \A w \in Updaters \ {u} : up'[w] = up[w]
    BY <1>3, <1>9 DEF DropBackup
  <2>3. CopyKept(up[u])'
    BY <2>2 DEF CopyKept
  <2> QED
    BY <1>1, <2>1, <2>2, <2>3, OneCopies
<1> QED
  BY <1>4, <1>5, <1>6, <1>7, <1>8, <1>9

LEMMA DataStore ==
  ASSUME OtaAssumption, TypeInv, DataInv, NEW u \in Updaters, First(u) \/ Read(u)
  PROVE  DataInv'
<1>1. CASE u = "local" /\ First(u)
  <2>1. Goto(u, "read", 0) /\ UNCHANGED <<sys, bak, again>> /\ "read" \in Pcs \ Copying
    BY <1>1 DEF First, Keep, flash, Pcs, Copying
  <2> QED
    BY <2>1, NobodyGoes
<1>2. CASE \E h \in Int, n \in Int : Store(u, h, n)
  <2>1. PICK h \in Int, n \in Int : Store(u, h, n)
    BY <1>2
  <2> DEFINE pc == IF Done(u, n) THEN "verify" ELSE "read"
             r  == [up[u] EXCEPT !.pc = pc, !.size = @ + n,
                                 !.sum = IF n = 0 THEN @ ELSE Sum(@, Buffer(h, up[u].size, n), n)]
  <2>2. up' = [up EXCEPT ![u] = r] /\ UNCHANGED <<sys, bak, again>>
    BY <2>1 DEF Store, Advance, Keep, TypeInv, Records
  <2>3. r.pc = pc
    BY DEF TypeInv, Records
  <2>4. r.pc \notin Copying
    BY <2>3 DEF Copying
  <2> HIDE DEF r
  <2> QED
    BY <2>2, <2>4, NobodyCopies
<1>3. CASE u # "local" /\ First(u)
  <2>1. PICK h \in Headers : \E n \in 0 .. Least(ChunkMax - h, FileLen) : Store(u, h, n)
    BY <1>3 DEF First
  <2>2. h \in Int
    BY DEF OtaAssumption
  <2> QED
    BY <1>2, <2>1, <2>2
<1>4. CASE Read(u)
  BY <1>2, <1>4 DEF Read
<1> QED
  BY <1>1, <1>3, <1>4

LEMMA DataUpdate ==
  ASSUME OtaAssumption, TypeInv, DataInv, NEW u \in Updaters, Update(u)
  PROVE  DataInv'
<1>1. CASE Start(u)
  <2> DEFINE r == [NoUpdate EXCEPT !.pc = "connect", !.v = Len(good')]
  <2>1. up' = [up EXCEPT ![u] = r] /\ UNCHANGED <<sys, bak, again>>
    BY <1>1 DEF Start, flash
  <2>2. r.pc = "connect"
    BY DEF NoUpdate
  <2>3. r.pc \notin Copying
    BY <2>2 DEF Copying
  <2> HIDE DEF r
  <2> QED
    BY <2>1, <2>3, NobodyCopies
<1>2. CASE \/ Fail(u) \/ Redirect(u) \/ Open(u) \/ EraseSector(u) \/ Close(u) \/ Verify(u) \/ Sign(u)
           \/ SignSecond(u)
  <2> DEFINE Going == Stop(u) \/ \E pc \in Pcs \ Copying, i \in Int : Goto(u, pc, i)
  <2>1. UNCHANGED <<sys, bak, again>>
    BY <1>2 DEF Fail, Redirect, Open, EraseSector, Close, Verify, Sign, SignSecond, Keep, flash
  <2>2. /\ {"connect", "erase", "first", "verify", "sign", "signed", "reset"} \subseteq Pcs \ Copying
        /\ 0 \in Int
    BY DEF Pcs, Copying
  <2>3. up[u].i + 1 \in Int
    <3>1. up[u].i \in 0 .. Words + LastSector
      BY DEF TypeInv, Records
    <3> QED
      BY <3>1
  <2>4. Fail(u) => Going
    BY DEF Fail
  <2>5. Redirect(u) => Going
    BY <2>2 DEF Redirect
  <2>6. Open(u) => Going
    BY <2>2 DEF Open
  <2>7. EraseSector(u) => Going
    BY <2>2, <2>3 DEF EraseSector
  <2>8. Close(u) => Going
    BY <2>2 DEF Close
  <2>9. Verify(u) => Going
    BY <2>2 DEF Verify
  <2>10. Sign(u) => Going
    BY <2>2 DEF Sign
  <2>11. SignSecond(u) => Going
    BY <2>2 DEF SignSecond
  <2>12. Going
    BY <1>2, <2>4, <2>5, <2>6, <2>7, <2>8, <2>9, <2>10, <2>11
  <2> QED
    BY <2>1, <2>12, NobodyGoes
<1> QED
  BY <1>1, <1>2, DataPrepare, DataStore DEF Update

LEMMA DataRecovery ==
  ASSUME OtaAssumption, TypeInv, DataInv, ClearSignature \/ RecoverSignature
  PROVE  DataInv'
<1>1. up' = up
  BY DEF ClearSignature, RecoverSignature, Recover, RecoverFails, RecoverBackup, RecoverErase, RecoverHead,
         RecoverRest, RecoveryStep
<1>2. CASE RecoverBackup
  <2> SUFFICES ASSUME ~again' PROVE DataInv'
    BY DEF DataInv
  <2>1. ~again /\ Whole(sys) /\ sys' = sys
    BY <1>2 DEF RecoverBackup, RecoveryStep, Missing, Whole
  <2>2. lock = Recovery /\ Recovery \notin Updaters
    BY <1>2 DEF RecoverBackup, RecoveryStep, TypeInv, RecType, OtaAssumption, Recovery
  <2>3. ASSUME NEW u \in Updaters PROVE CopyKept(up[u])'
    <3>1. InPlace(u, up[u], Len(good), lock)
      BY DEF TypeInv
    <3>2. up[u].pc \notin Locked
      BY <2>2, <3>1 DEF InPlace
    <3> QED
      BY <1>1, <3>2 DEF CopyKept, Locked
  <2> QED
    BY <2>1, <2>3 DEF DataInv, Whole
<1>3. CASE ~RecoverBackup
  <2>1. UNCHANGED <<sys, bak, again>>
    BY <1>3 DEF ClearSignature, RecoverSignature, Recover, RecoverFails, RecoverErase, RecoverHead,
                RecoverRest, RecoveryStep, Keep, flash
  <2> QED
    BY <1>1, <2>1 DEF DataInv, CopyKept, Whole
<1> QED
  BY <1>2, <1>3

LEMMA DataRestart ==
  ASSUME OtaAssumption, TypeInv, DataInv, Reset \/ PowerFails
  PROVE  DataInv'
<1>1. up' = [u \in Updaters |-> NoUpdate] /\ UNCHANGED <<sys, bak, again>>
  BY DEF Reset, PowerFails, Restart, flash
<1>2. NoUpdate.pc = "idle"
  BY DEF NoUpdate
<1> QED
  BY <1>1, <1>2 DEF DataInv, CopyKept, Whole

LEMMA DataStep == ASSUME OtaAssumption, TypeInv, DataInv, [Next]_vars PROVE DataInv'
<1>1. CASE UNCHANGED vars
  BY <1>1 DEF vars, flash, DataInv, CopyKept, Whole
<1> QED
  BY <1>1, DataUpdate, DataRecovery, DataRestart DEF Next

LEMMA DataInit == Init => DataInv
<1>1. NoUpdate.pc = "idle"
  BY DEF NoUpdate
<1>2. ASSUME Init PROVE Whole(sys)
  <2>1. PICK set \in BOOLEAN : sys = [i \in WordsOf |-> i > 0 \/ set]
    BY <1>2 DEF Init
  <2>2. \A i \in WordsOf \ {0} : i > 0
    BY DEF WordsOf
  <2> QED
    BY <2>1, <2>2 DEF Whole
<1> QED
  BY <1>1, <1>2 DEF Init, DataInv, CopyKept

(* SystemDataKept of Ota, for a sector of any number of words and any number *)
(* of updates: the words of system data survive a power failure anywhere in  *)
(* the rewriting of their sector, in the one sector or in the other, as long *)
(* as nobody reuses the backup after such a failure.                         *)
THEOREM SystemDataKeptHolds == OtaAssumption => (Spec => []SystemDataKept)
<1> SUFFICES ASSUME OtaAssumption PROVE Spec => []SystemDataKept
  OBVIOUS
<1>1. Init => TypeInv /\ DataInv
  BY TypeInit, DataInit
<1>2. (TypeInv /\ DataInv) /\ [Next]_vars => (TypeInv /\ DataInv)'
  BY TypeStep, DataStep
<1>3. TypeInv /\ DataInv => SystemDataKept
  BY DEF DataInv, Whole, SystemDataKept
<1> QED
  BY <1>1, <1>2, <1>3, PTL DEF Spec

-----------------------------------------------------------------------------
(* The flash is written by whoever has the lock, or by one that has found it *)
(* free and takes it for this step alone.                                    *)

LEMMA WritesAlone ==
  ASSUME OtaAssumption, TypeInv, NEW u \in Updaters, Update(u), flash' # flash
  PROVE  /\ lock \in {None, u} /\ \A w \in Updaters \ {u} : up'[w] = up[w]
         /\ up[u].pc \in Locked => up'[u] # up[u]
<1>1. /\ up \in [Updaters -> Records] /\ up[u] \in Records /\ up[u].i \in Int
      /\ up[u].pc \in Locked => lock = u
  BY DEF TypeInv, InPlace, Records
<1>2. ASSUME NEW pc, NEW i, Goto(u, pc, i)
      PROVE  up'[u].pc = pc /\ up'[u].i = i /\ \A w \in Updaters \ {u} : up'[w] = up[w]
  BY <1>1, <1>2 DEF Goto, Records
<1>3. CASE Start(u) \/ Fail(u) \/ Redirect(u) \/ Open(u) \/ Close(u) \/ Verify(u)
  BY <1>3 DEF Start, Fail, Redirect, Open, Close, Verify
<1>4. CASE PrepareAddr(u)
  <2>1. up[u].pc = "connect" /\ lock = None
    BY <1>4 DEF PrepareAddr, At, Lock, Free
  <2>2. PICK pc, i : Goto(u, pc, i)
    BY <1>4 DEF PrepareAddr
  <2> QED
    BY <1>2, <2>1, <2>2 DEF Locked
<1>5. CASE EraseBackup(u) \/ CopyOut(u) \/ EraseSystem(u) \/ CopyBack(u) \/ DropBackup(u) \/ EraseSector(u)
  <2>1. up[u].pc \in Locked
    BY <1>5 DEF EraseBackup, CopyOut, EraseSystem, CopyBack, DropBackup, EraseSector, At, Locked
  <2>2. PICK pc, i : Goto(u, pc, i) /\ (pc # up[u].pc \/ i # up[u].i)
    <3>1. up[u].i + 1 # up[u].i
      BY <1>1
    <3> QED
      BY <1>5, <3>1 DEF EraseBackup, CopyOut, EraseSystem, CopyBack, DropBackup, EraseSector, At
  <2> QED
    BY <1>1, <1>2, <2>1, <2>2
<1>6. CASE First(u) \/ Read(u)
  <2>1. up[u].pc \notin Locked
    BY <1>6 DEF First, Read, At, Locked
  <2>2. PICK h, n : Store(u, h, n)
    BY <1>6 DEF First, Read
  <2>3. lock = None /\ \A w \in Updaters \ {u} : up'[w] = up[w]
    BY <1>1, <2>2 DEF Store, Free, Advance
  <2> QED
    BY <2>1, <2>3
<1>7. CASE Sign(u)
  <2>1. up[u].pc = "sign" /\ lock = None /\ Goto(u, "signed", 0)
    BY <1>7 DEF Sign, At, Lock
  <2> QED
    BY <1>2, <2>1 DEF Locked
<1>8. CASE SignSecond(u)
  <2>1. up[u].pc = "signed" /\ (Stop(u) \/ Goto(u, "reset", 0))
    BY <1>8 DEF SignSecond, At
  <2>2. up'[u].pc \in {"idle", "reset"} /\ \A w \in Updaters \ {u} : up'[w] = up[w]
    BY <1>1, <1>2, <2>1 DEF Stop, NoUpdate
  <2> QED
    BY <1>1, <2>1, <2>2 DEF Locked
<1> QED
  BY <1>3, <1>4, <1>5, <1>6, <1>7, <1>8 DEF Update

LEMMA RecoversAlone ==
  ASSUME OtaAssumption, TypeInv, ClearSignature \/ RecoverSignature, flash' # flash
  PROVE  lock \in {None, Recovery} /\ (rec.pc # "idle" => rec' # rec)
<1>1. rec \in [pc : {"idle", "backup", "erase", "head", "rest"}, buf : [Positions -> -1 .. MaxUpdates]]
  BY DEF TypeInv, RecType
<1>2. rec.pc # "idle" => lock = Recovery
  BY DEF TypeInv, RecType
<1>3. CASE ClearSignature
  BY <1>2, <1>3 DEF ClearSignature, Free, Recovery, OtaAssumption
<1>4. CASE Recover \/ RecoverFails
  BY <1>4 DEF Recover, RecoverFails
<1>5. ASSUME NEW from \in {"backup", "erase", "head", "rest"}, NEW to \in {"erase", "head", "rest", "idle"}, from # to,
             RecoveryStep(from, to)
      PROVE  lock = Recovery /\ rec' # rec
  <2>1. rec.pc = from /\ rec'.pc = to
    BY <1>1, <1>5 DEF RecoveryStep, NoRecovery
  <2> QED
    BY <1>2, <1>5, <2>1
<1> QED
  BY <1>3, <1>4, <1>5 DEF RecoverSignature, RecoverBackup, RecoverErase, RecoverHead, RecoverRest

(* FlashExclusive of Ota: device_mutex_lock keeps the sequences of flash     *)
(* operations whole, those of two updates and of a recovery that are under   *)
(* way at once among them, wherever power fails.                             *)
THEOREM FlashExclusiveHolds == OtaAssumption => (Spec => FlashExclusive)
<1> SUFFICES ASSUME OtaAssumption PROVE Spec => FlashExclusive
  OBVIOUS
<1> DEFINE Exclusive == /\ \A u \in Updaters : up[u].pc \in Locked => up'[u] # up[u]
                        /\ rec.pc # "idle" => rec' # rec
<1>1. ASSUME TypeInv, Next, flash' # flash PROVE Exclusive
  <2>1. /\ None \notin Updaters /\ Recovery \notin Updaters /\ None # Recovery
        /\ \A u \in Updaters : up[u].pc \in Locked => lock = u
        /\ rec.pc # "idle" => lock = Recovery
    BY <1>1 DEF OtaAssumption, Recovery, TypeInv, InPlace, RecType
  <2>2. ASSUME NEW u \in Updaters, Update(u) PROVE Exclusive
    BY <1>1, <2>1, <2>2, WritesAlone
  <2>3. CASE ClearSignature \/ RecoverSignature
    BY <1>1, <2>1, <2>3, RecoversAlone
  <2>4. CASE Reset \/ PowerFails
    BY <1>1, <2>4 DEF Reset, PowerFails, Restart
  <2> QED
    BY <1>1, <2>2, <2>3, <2>4 DEF Next
<1>2. TypeInv /\ [Next]_vars => [flash' # flash => Exclusive]_vars
  BY <1>1 DEF vars, flash
<1>3. Init => TypeInv
  BY TypeInit
<1>4. TypeInv /\ [Next]_vars => TypeInv'
  BY TypeStep
<1> QED
  BY <1>2, <1>3, <1>4, PTL DEF Spec, FlashExclusive

-----------------------------------------------------------------------------
(* Signatures. While one update at most is under way, the flash behind the   *)
(* running image is erased, then filled with one file from its beginning,    *)
(* and only a whole and right one goes on to be signed; there is no          *)
(* signature in between. A recovery has what it erases in its buffer.        *)

Image(v) == good[v] /\ \A p \in Positions : img[p] = v
Verified == \E v \in DOMAIN good : Image(v)

Alone == \A u, w \in Updaters : Active(u) /\ Active(w) => u = w

SigSound == sig \in {"signed", "cleared"} /\ rec.pc # "rest" => Verified

RecSound ==
  /\ rec.pc \in {"backup", "erase"} =>
       sig = "cleared" /\ \A p \in Positions : FirstSector(p) => rec.buf[p] = img[p]
  /\ rec.pc = "head" => sig = "blank"
  /\ rec.pc \in {"head", "rest"} =>
       \E v \in DOMAIN good :
         good[v] /\ \A p \in Positions : v = IF FirstSector(p) THEN rec.buf[p] ELSE img[p]

Progress(r) ==
  /\ r.pc \in {"first", "read", "verify", "sign"} \/ (r.pc = "erase" /\ r.i > 0) =>
       sig = "blank" /\ rec.pc = "idle"
  /\ r.pc = "erase" => \A p \in Positions : (p - 1) \div SectorSize < r.i => img[p] = 0
  /\ r.pc \in {"first", "read", "verify"} =>
       \A p \in Positions : img[p] = IF p <= r.size THEN r.v ELSE 0
  /\ r.pc = "verify" => r.size # 0
  /\ r.pc \in {"sign", "signed"} => Image(r.v)
  /\ r.pc = "signed" => sig = "half"

SignInv == overlap \/ torn \/ (Alone /\ SigSound /\ RecSound /\ \A u \in Updaters : Progress(up[u]))

(* The updater that is under way moves.                                      *)
LEMMA OneSigns ==
  ASSUME TypeInv, SignInv, ~overlap, ~torn, NEW u \in Updaters, Active(u), NEW r \in Records,
         up' = [up EXCEPT ![u] = r], SigSound', RecSound', Progress(r)'
  PROVE  SignInv'
<1>1. up'[u] = r /\ \A w \in Updaters \ {u} : up'[w] = up[w] /\ up[w].pc = "idle"
  BY DEF TypeInv, SignInv, Alone, Active, At
<1>2. Alone'
  BY <1>1 DEF Alone, Active, At
<1>3. \A w \in Updaters : Progress(up[w])'
  BY <1>1 DEF Progress
<1> QED
  BY <1>2, <1>3 DEF SignInv

(* One that does not touch the image moves to where nothing is asked of it.  *)
LEMMA SignIdly ==
  ASSUME OtaAssumption, TypeInv, SignInv, NEW u \in Updaters, Active(u), NEW r \in Records,
         up' = [up EXCEPT ![u] = r],
         r.pc \notin {"first", "read", "verify", "sign", "signed"}, r.pc = "erase" => r.i = 0,
         UNCHANGED <<img, sig, rec, good, overlap, torn>>
  PROVE  SignInv'
<1> SUFFICES ASSUME ~overlap, ~torn PROVE SignInv'
  BY DEF SignInv
<1>1. SigSound' /\ RecSound'
  BY DEF SignInv, SigSound, RecSound, Verified, Image
<1>2. Progress(r)'
  <2>1. r.pc = "erase" => \A p \in Positions : ~((p - 1) \div SectorSize < r.i)
    BY Sectors
  <2> QED
    BY <2>1 DEF Progress
<1> QED
  BY <1>1, <1>2, OneSigns

LEMMA GoesTo ==
  ASSUME OtaAssumption, TypeInv, NEW u \in Updaters, NEW pc \in Pcs,
         NEW i \in 0 .. Words + LastSector, Goto(u, pc, i)
  PROVE  \E r \in Records :
           /\ up' = [up EXCEPT ![u] = r]
           /\ r.pc = pc /\ r.i = i /\ r.v = up[u].v /\ r.size = up[u].size
<1> DEFINE r == [up[u] EXCEPT !.pc = pc, !.i = i]
<1>1. up[u] \in Records
  BY DEF TypeInv
<1>2. r \in Records /\ r.pc = pc /\ r.i = i /\ r.v = up[u].v /\ r.size = up[u].size
  BY <1>1 DEF Records
<1>3. up' = [up EXCEPT ![u] = r]
  BY DEF Goto
<1> QED
  BY <1>2, <1>3

LEMMA SignIdlyGoes ==
  ASSUME OtaAssumption, TypeInv, SignInv, NEW u \in Updaters, Active(u),
         \/ Stop(u)
         \/ \E pc \in Pcs \ {"first", "read", "verify", "sign", "signed"}, i \in 0 .. Words + LastSector :
              (pc = "erase" => i = 0) /\ Goto(u, pc, i),
         UNCHANGED <<img, sig, rec, good, overlap, torn>>
  PROVE  SignInv'
<1>1. CASE Stop(u)
  <2>1. NoUpdate.pc = "idle" /\ up' = [up EXCEPT ![u] = NoUpdate] /\ NoUpdate \in Records
    BY <1>1, NoUpdateInPlace DEF Stop, NoUpdate
  <2> QED
    BY <2>1, SignIdly
<1>2. CASE ~Stop(u)
  <2>1. PICK pc \in Pcs \ {"first", "read", "verify", "sign", "signed"}, i \in 0 .. Words + LastSector :
          (pc = "erase" => i = 0) /\ Goto(u, pc, i)
    BY <1>2
  <2>2. PICK r \in Records : up' = [up EXCEPT ![u] = r] /\ r.pc = pc /\ r.i = i
    BY <2>1, GoesTo
  <2> QED
    BY <2>1, <2>2, SignIdly
<1> QED
  BY <1>1, <1>2

LEMMA SignStart ==
  ASSUME OtaAssumption, TypeInv, SignInv, NEW u \in Updaters, Start(u)
  PROVE  SignInv'
<1> SUFFICES ASSUME ~overlap', ~torn' PROVE SignInv'
  BY DEF SignInv
<1>1. /\ ~overlap /\ ~torn /\ UNCHANGED <<img, sig, rec>>
      /\ \A w \in Updaters \ {u} : ~Active(w)
  BY DEF Start, flash
<1>2. PICK g \in BOOLEAN : good' = Append(good, g)
  BY DEF Start
<1>3. \A v \in DOMAIN good : v \in DOMAIN good' /\ good'[v] = good[v]
  <2>1. good \in Seq(BOOLEAN) /\ Len(good) \in Nat /\ DOMAIN good = 1 .. Len(good)
    BY LenProperties DEF TypeInv, HistoryType
  <2>2. DOMAIN good' = 1 .. Len(good) + 1
    BY <1>2, <2>1
  <2> QED
    BY <1>2, <2>1, <2>2
<1> DEFINE r == [NoUpdate EXCEPT !.pc = "connect", !.v = Len(good')]
<1>4. r.pc = "connect"
  BY DEF NoUpdate
<1>5. up' = [up EXCEPT ![u] = r]
  BY DEF Start
<1> HIDE DEF r
<1>6. up'[u].pc = "connect" /\ \A w \in Updaters \ {u} : up'[w].pc = "idle"
  BY <1>1, <1>4, <1>5 DEF TypeInv, Active, At
<1>7. Alone' /\ \A w \in Updaters : Progress(up[w])'
  BY <1>6 DEF Alone, Active, At, Progress
<1>8. SigSound' /\ RecSound'
  BY <1>1, <1>3 DEF SignInv, SigSound, RecSound, Verified, Image
<1> QED
  BY <1>7, <1>8 DEF SignInv

LEMMA SignErase ==
  ASSUME OtaAssumption, TypeInv, SignInv, NEW u \in Updaters, EraseSector(u)
  PROVE  SignInv'
<1> SUFFICES ASSUME ~overlap, ~torn PROVE SignInv'
  BY DEF SignInv, EraseSector, Keep
<1>1. /\ up[u].pc = "erase" /\ UNCHANGED <<rec, good, overlap, torn>> /\ Active(u)
      /\ up[u] \in Records /\ InPlace(u, up[u], Len(good), lock) /\ Progress(up[u])
  BY DEF EraseSector, Keep, At, Active, TypeInv, SignInv
<1>2. up[u].i \in 0 .. LastSector /\ LastSector \in Nat /\ up[u].size = 0 /\ Words \in Nat
  BY <1>1, Sectors DEF InPlace, Records, Early, Locked, OtaAssumption
<1>3. lock = u /\ rec.pc = "idle"
  BY <1>1 DEF InPlace, Locked, TypeInv, RecType, OtaAssumption, Recovery
<1>4. sig' = "blank"
  BY <1>1, <1>2 DEF EraseSector, Erase, Progress
<1>5. img' = [p \in Positions |-> IF InSector(p, up[u].i) THEN 0 ELSE img[p]]
  BY DEF EraseSector, Erase
<1>6. ASSUME NEW p \in Positions, (p - 1) \div SectorSize <= up[u].i PROVE img'[p] = 0
  <2>1. (p - 1) \div SectorSize \in Nat
    BY Sectors
  <2>2. CASE (p - 1) \div SectorSize = up[u].i
    BY <1>5, <2>2 DEF InSector
  <2>3. CASE (p - 1) \div SectorSize < up[u].i
    BY <1>1, <1>5, <2>3 DEF Progress
  <2> QED
    BY <1>2, <1>6, <2>1, <2>2, <2>3
<1>7. SigSound' /\ RecSound'
  BY <1>1, <1>3, <1>4 DEF SigSound, RecSound
<1>8. CASE up[u].i = LastSector
  <2>1. Goto(u, "first", 0) /\ "first" \in Pcs /\ 0 \in 0 .. Words + LastSector
    BY <1>2, <1>8 DEF EraseSector, Pcs
  <2>2. PICK r \in Records : up' = [up EXCEPT ![u] = r] /\ r.pc = "first" /\ r.size = 0
    BY <1>2, <2>1, GoesTo
  <2>3. \A p \in Positions : img'[p] = 0
    BY <1>6, <1>8, Sectors
  <2>4. \A p \in Positions : ~(p <= r.size)
    BY <2>2 DEF Positions
  <2>5. Progress(r)'
    BY <1>1, <1>3, <1>4, <2>2, <2>3, <2>4 DEF Progress
  <2> QED
    BY <1>1, <1>7, <2>2, <2>5, OneSigns
<1>9. CASE up[u].i # LastSector
  <2>1. Goto(u, "erase", up[u].i + 1) /\ "erase" \in Pcs /\ up[u].i + 1 \in 0 .. Words + LastSector
    BY <1>2, <1>9 DEF EraseSector, Pcs
  <2>2. PICK r \in Records : up' = [up EXCEPT ![u] = r] /\ r.pc = "erase" /\ r.i = up[u].i + 1
    BY <2>1, GoesTo
  <2>3. \A p \in Positions : (p - 1) \div SectorSize < r.i => img'[p] = 0
    BY <1>2, <1>6, <2>2, Sectors
  <2>4. Progress(r)'
    BY <1>1, <1>3, <1>4, <2>2, <2>3 DEF Progress
  <2> QED
    BY <1>1, <1>7, <2>2, <2>4, OneSigns
<1> QED
  BY <1>8, <1>9

LEMMA SignStored ==
  ASSUME OtaAssumption, TypeInv, SignInv, NEW u \in Updaters, up[u].pc \in {"first", "read"},
         NEW h \in Nat, NEW n \in Nat, up[u].size + n <= FileLen, u = "local" => h = 0,
         Store(u, h, n)
  PROVE  SignInv'
<1> SUFFICES ASSUME ~overlap, ~torn PROVE SignInv'
  BY DEF SignInv, Store, Keep
<1>1. /\ UNCHANGED <<rec, good, overlap, torn, sig>> /\ Active(u)
      /\ up[u] \in Records /\ InPlace(u, up[u], Len(good), lock) /\ Progress(up[u])
  BY DEF Store, Keep, At, Active, TypeInv, SignInv
<1>2. up[u].size \in Nat /\ up[u].v # 0 /\ FileLen \in Nat \ {0}
  <2>1. up[u].size \in 0 .. FileLen /\ up[u].v \in 1 .. MaxUpdates + 1
    BY <1>1 DEF Records
  <2>2. FileLen \in Nat \ {0} /\ MaxUpdates \in Nat
    BY DEF OtaAssumption, SumLen
  <2> QED
    BY <2>1, <2>2
<1> DEFINE pc == IF Done(u, n) THEN "verify" ELSE "read"
<1>3. pc \in Pcs /\ pc \in {"verify", "read"} /\ Advance(u, pc, h, n)
      /\ (pc = "verify" => up[u].size + n = FileLen)
  BY DEF Store, Pcs, Done
<1> HIDE DEF pc
<1>4. PICK r \in Records : up' = [up EXCEPT ![u] = r] /\ r.pc = pc /\ r.size = up[u].size + n /\ r.v = up[u].v
  BY <1>3, Advances
<1>5. sig = "blank" /\ rec.pc = "idle" /\ \A p \in Positions : img[p] = IF p <= up[u].size THEN up[u].v ELSE 0
  BY <1>1 DEF Progress
<1>6. \A p \in Positions : img'[p] = IF p <= r.size THEN r.v ELSE 0
  BY <1>2, <1>4, <1>5 DEF Store, Program, Positions
<1>7. Progress(r)'
  BY <1>1, <1>2, <1>3, <1>4, <1>5, <1>6 DEF Progress
<1>8. SigSound' /\ RecSound'
  BY <1>1, <1>5 DEF SigSound, RecSound
<1> QED
  BY <1>1, <1>4, <1>7, <1>8, OneSigns

(* A server that closes before it has sent a byte is left out: the checksum  *)
(* of nothing is right.                                                      *)
LEMMA SignUpdate ==
  ASSUME OtaAssumption, 0 \notin Closes, TypeInv, SignInv, NEW u \in Updaters, Update(u)
  PROVE  SignInv'
<1>1. up[u] \in Records /\ InPlace(u, up[u], Len(good), lock) /\ up[u].size \in 0 .. FileLen
  BY DEF TypeInv, Records
<1>2. FileLen \in Nat /\ ChunkMax \in Nat /\ Headers \subseteq Nat /\ Words \in Nat \ {0} /\ LastSector \in Nat
  BY Sectors DEF OtaAssumption
<1>3. 0 \in 0 .. Words + LastSector
  BY <1>2
<1>4. CASE \/ Fail(u) \/ Redirect(u) \/ PrepareAddr(u) \/ EraseBackup(u) \/ CopyOut(u) \/ EraseSystem(u)
           \/ CopyBack(u) \/ DropBackup(u) \/ Open(u)
  <2> DEFINE Going == \/ Stop(u)
                      \/ \E pc \in Pcs \ {"first", "read", "verify", "sign", "signed"}, i \in 0 .. Words + LastSector :
                           (pc = "erase" => i = 0) /\ Goto(u, pc, i)
  <2>1. UNCHANGED <<img, sig, rec, good, overlap, torn>> /\ Active(u)
    BY <1>4 DEF Fail, Redirect, PrepareAddr, EraseBackup, CopyOut, EraseSystem, CopyBack, DropBackup, Open,
                Keep, flash, Active, At
  <2>2. {"connect", "eraseBak", "copyOut", "eraseSys", "copyBack", "dropBak", "open", "erase"}
          \subseteq Pcs \ {"first", "read", "verify", "sign", "signed"}
    BY DEF Pcs
  <2>3. Fail(u) => Going
    BY DEF Fail
  <2>4. Redirect(u) => Going
    BY <1>3, <2>2 DEF Redirect
  <2>5. PrepareAddr(u) => Going
    BY <1>3, <2>2 DEF PrepareAddr
  <2>6. EraseBackup(u) => Going
    BY <1>3, <2>2 DEF EraseBackup
  <2>7. ASSUME CopyOut(u) PROVE Going
    <3>1. up[u].i + 1 \in 0 .. Words + LastSector
      BY <1>1, <1>2, <2>7 DEF CopyOut, InPlace, At, Records
    <3> QED
      BY <1>3, <2>2, <2>7, <3>1 DEF CopyOut
  <2>8. EraseSystem(u) => Going
    BY <1>3, <2>2 DEF EraseSystem
  <2>9. ASSUME CopyBack(u) PROVE Going
    <3>1. up[u].i + 1 \in 0 .. Words + LastSector
      BY <1>1, <1>2, <2>9 DEF CopyBack, InPlace, At, Records
    <3> QED
      BY <1>3, <2>2, <2>9, <3>1 DEF CopyBack
  <2>10. DropBackup(u) => Going
    BY <1>3, <2>2 DEF DropBackup
  <2>11. Open(u) => Going
    BY <1>3, <2>2 DEF Open
  <2>12. Going
    BY <1>4, <2>3, <2>4, <2>5, <2>6, <2>7, <2>8, <2>9, <2>10, <2>11
  <2> QED
    BY <2>1, <2>12, SignIdlyGoes
<1>5. CASE First(u)
  <2>1. CASE u = "local"
    <3> SUFFICES ASSUME ~overlap, ~torn PROVE SignInv'
      BY <1>5, <2>1 DEF SignInv, First, Keep
    <3>1. /\ Goto(u, "read", 0) /\ "read" \in Pcs /\ Active(u) /\ up[u].pc = "first"
          /\ UNCHANGED <<img, sig, rec, good, overlap, torn>> /\ Progress(up[u])
      BY <1>5, <2>1 DEF First, Keep, flash, Pcs, Active, At, SignInv
    <3>2. PICK r \in Records : up' = [up EXCEPT ![u] = r] /\ r.pc = "read" /\ r.size = up[u].size /\ r.v = up[u].v
      BY <1>3, <3>1, GoesTo
    <3>3. Progress(r)'
      BY <3>1, <3>2 DEF Progress
    <3>4. SigSound' /\ RecSound'
      BY <3>1 DEF SigSound, RecSound, SignInv, Progress
    <3> QED
      BY <3>1, <3>2, <3>3, <3>4, OneSigns
  <2>2. CASE u # "local"
    <3>1. PICK h \in Headers : \E n \in 0 .. Least(ChunkMax - h, FileLen) : Store(u, h, n)
      BY <1>5, <2>2 DEF First
    <3>2. PICK n \in 0 .. Least(ChunkMax - h, FileLen) : Store(u, h, n)
      BY <3>1
    <3>3. up[u].size = 0
      BY <1>1, <1>5 DEF First, InPlace, At, Early
    <3>4. h \in Nat /\ n \in Nat /\ up[u].size + n <= FileLen
      <4>1. h \in Nat /\ ChunkMax - h \in Int
        BY <1>2
      <4>2. Least(ChunkMax - h, FileLen) \in Int /\ Least(ChunkMax - h, FileLen) <= FileLen
        BY <1>2, <4>1 DEF Least
      <4>3. n \in Nat /\ n <= FileLen
        BY <1>2, <4>2
      <4> QED
        BY <3>3, <4>1, <4>3
    <3> QED
      BY <1>5, <2>2, <3>2, <3>4, SignStored DEF First, At
  <2> QED
    BY <2>1, <2>2
<1>6. CASE Read(u)
  <2>1. PICK n \in 1 .. Least(ChunkMax, FileLen - up[u].size) : Store(u, 0, n)
    BY <1>6 DEF Read
  <2>2. n \in Nat /\ up[u].size + n <= FileLen
    BY <1>1, <1>2 DEF Least
  <2> QED
    BY <1>6, <2>1, <2>2, SignStored DEF Read, At
<1>7. CASE Close(u)
  <2>1. /\ Active(u) /\ up[u].pc = "read" /\ up[u].size # 0
        /\ UNCHANGED <<img, sig, rec, good, overlap, torn>>
    BY <1>7 DEF Close, flash, Active, At
  <2>2. CASE u = "local"
    <3> SUFFICES ASSUME ~overlap, ~torn PROVE SignInv'
      BY <2>1 DEF SignInv
    <3>1. Goto(u, "verify", 0) /\ "verify" \in Pcs /\ Progress(up[u])
      BY <1>7, <2>2 DEF Close, Pcs, SignInv
    <3>2. PICK r \in Records :
            up' = [up EXCEPT ![u] = r] /\ r.pc = "verify" /\ r.size = up[u].size /\ r.v = up[u].v
      BY <1>3, <3>1, GoesTo
    <3>3. Progress(r)'
      BY <2>1, <3>1, <3>2 DEF Progress
    <3>4. SigSound' /\ RecSound'
      BY <2>1, <3>1 DEF SigSound, RecSound, SignInv, Progress
    <3> QED
      BY <2>1, <3>2, <3>3, <3>4, OneSigns
  <2>3. CASE u # "local"
    BY <1>7, <2>1, <2>3, SignIdlyGoes DEF Close
  <2> QED
    BY <2>2, <2>3
<1>8. CASE Verify(u)
  <2>1. /\ Active(u) /\ up[u].pc = "verify"
        /\ UNCHANGED <<img, sig, rec, good, overlap, torn>>
    BY <1>8 DEF Verify, flash, Keep, Active, At
  <2>2. CASE Matches(u)
    <3> SUFFICES ASSUME ~overlap, ~torn PROVE SignInv'
      BY <2>1 DEF SignInv
    <3>1. Goto(u, "sign", 0) /\ "sign" \in Pcs /\ Progress(up[u])
      BY <1>8, <2>2 DEF Verify, Pcs, SignInv
    <3>2. Image(up[u].v)
      BY <2>1, <2>2, <3>1 DEF Matches, Intact, Progress, Image, Positions
    <3>3. PICK r \in Records : up' = [up EXCEPT ![u] = r] /\ r.pc = "sign" /\ r.v = up[u].v
      BY <1>3, <3>1, GoesTo
    <3>4. Progress(r)'
      BY <2>1, <3>1, <3>2, <3>3 DEF Progress, Image
    <3>5. SigSound' /\ RecSound'
      BY <2>1, <3>1 DEF SigSound, RecSound, Progress
    <3> QED
      BY <2>1, <3>3, <3>4, <3>5, OneSigns
  <2>3. CASE ~Matches(u)
    BY <1>8, <2>1, <2>3, SignIdlyGoes DEF Verify
  <2> QED
    BY <2>2, <2>3
<1>9. CASE Sign(u)
  <2> SUFFICES ASSUME ~overlap, ~torn PROVE SignInv'
    BY <1>9 DEF SignInv, Sign, Keep
  <2>1. /\ Active(u) /\ up[u].pc = "sign" /\ Goto(u, "signed", 0) /\ "signed" \in Pcs /\ Progress(up[u])
        /\ UNCHANGED <<img, rec, good, overlap, torn>>
    BY <1>9 DEF Sign, Keep, Active, At, Pcs, SignInv
  <2>2. rec.pc = "idle" /\ sig' = "half" /\ Image(up[u].v)
    BY <1>9, <2>1 DEF Sign, Progress
  <2>3. PICK r \in Records : up' = [up EXCEPT ![u] = r] /\ r.pc = "signed" /\ r.v = up[u].v
    BY <1>3, <2>1, GoesTo
  <2>4. Progress(r)'
    BY <2>1, <2>2, <2>3 DEF Progress, Image
  <2>5. SigSound' /\ RecSound'
    BY <2>1, <2>2 DEF SigSound, RecSound
  <2> QED
    BY <2>1, <2>3, <2>4, <2>5, OneSigns
<1>10. CASE SignSecond(u)
  <2> SUFFICES ASSUME ~overlap, ~torn PROVE SignInv'
    BY <1>10 DEF SignInv, SignSecond, Keep
  <2>1. /\ Active(u) /\ up[u].pc = "signed" /\ "reset" \in Pcs /\ Progress(up[u])
        /\ UNCHANGED <<img, rec, good, overlap, torn>> /\ (Goto(u, "reset", 0) \/ Stop(u))
    BY <1>10 DEF SignSecond, Keep, Active, At, Pcs, SignInv
  <2>2. rec.pc = "idle" /\ sig' = "signed" /\ Image(up[u].v) /\ up[u].v \in DOMAIN good
    <3>1. lock = u /\ up[u].v \in 1 .. Len(good) /\ Image(up[u].v) /\ sig = "half"
      BY <1>1, <2>1 DEF InPlace, Locked, Active, At, Progress
    <3>2. DOMAIN good = 1 .. Len(good)
      BY LenProperties DEF TypeInv, HistoryType
    <3> QED
      BY <1>10, <3>1, <3>2 DEF SignSecond, TypeInv, RecType, OtaAssumption, Recovery
  <2>3. SigSound' /\ RecSound'
    BY <2>1, <2>2 DEF SigSound, RecSound, Verified, Image
  <2>4. PICK r \in Records : up' = [up EXCEPT ![u] = r] /\ r.pc \in {"reset", "idle"}
    <3>1. CASE Goto(u, "reset", 0)
      <4>1. PICK r \in Records : up' = [up EXCEPT ![u] = r] /\ r.pc = "reset"
        BY <1>3, <2>1, <3>1, GoesTo
      <4> QED
        BY <4>1
    <3>2. CASE Stop(u)
      BY <3>2, NoUpdateInPlace DEF Stop, NoUpdate
    <3> QED
      BY <2>1, <3>1, <3>2
  <2>5. Progress(r)'
    BY <2>4 DEF Progress
  <2> QED
    BY <2>1, <2>3, <2>4, <2>5, OneSigns
<1> QED
  BY <1>4, <1>5, <1>6, <1>7, <1>8, <1>9, <1>10, SignStart, SignErase DEF Update

LEMMA SignRecovery ==
  ASSUME OtaAssumption, TypeInv, SignInv, ClearSignature \/ RecoverSignature
  PROVE  SignInv'
<1> SUFFICES ASSUME ~overlap, ~torn PROVE SignInv'
  BY DEF SignInv, ClearSignature, RecoverSignature, Recover, RecoverFails, RecoverBackup, RecoverErase,
         RecoverHead, RecoverRest, RecoveryStep, Keep
<1>1. /\ SigSound /\ RecSound /\ Alone
      /\ \A u \in Updaters : Progress(up[u]) /\ InPlace(u, up[u], Len(good), lock)
      /\ rec.pc # "idle" => lock = Recovery
      /\ None \notin Updaters /\ Recovery \notin Updaters /\ None # Recovery
  BY DEF SignInv, TypeInv, RecType, OtaAssumption, Recovery
<1>2. UNCHANGED <<up, good, overlap, torn>> /\ Alone'
  BY <1>1 DEF ClearSignature, RecoverSignature, Recover, RecoverFails, RecoverBackup, RecoverErase,
         RecoverHead, RecoverRest, RecoveryStep, Keep, Alone, Active, At
(* Nobody is past the erasing, nor in its middle, when a signature is        *)
(* cleared or recovered.                                                     *)
<1>3. ASSUME sig \in {"signed", "cleared"} \/ rec.pc # "idle", lock = None \/ lock = Recovery,
             NEW u \in Updaters
      PROVE  up[u].pc \notin {"erase", "first", "read", "verify", "sign", "signed"}
  <2>1. up[u].pc \notin Locked
    BY <1>1, <1>3 DEF InPlace
  <2>2. up[u].pc \notin {"first", "read", "verify", "sign"}
    BY <1>1, <1>3 DEF Progress
  <2> QED
    BY <2>1, <2>2 DEF Locked
<1>4. (sig \in {"signed", "cleared"} \/ rec.pc # "idle") /\ (lock = None \/ lock = Recovery)
  BY <1>1 DEF ClearSignature, RecoverSignature, Recover, RecoverFails, RecoverBackup, RecoverErase,
              RecoverHead, RecoverRest, RecoveryStep, Lock, Free
<1>5. \A u \in Updaters : Progress(up[u])'
  BY <1>2, <1>3, <1>4 DEF Progress
<1>6. SigSound' /\ RecSound'
  <2>1. CASE ClearSignature
    BY <1>1, <2>1 DEF ClearSignature, Keep, Free, SigSound, RecSound, Verified, Image
  <2>2. CASE Recover
    <3>1. /\ sig = "cleared" /\ rec.pc = "idle" /\ UNCHANGED <<img, sig, good>> /\ rec'.pc = "backup"
          /\ rec'.buf = [p \in Positions |-> IF FirstSector(p) THEN img[p] ELSE 0]
      BY <2>2 DEF Recover, flash
    <3> QED
      BY <1>1, <3>1 DEF SigSound, RecSound, Verified, Image
  <2>3. CASE RecoverFails
    BY <1>1, <2>3 DEF RecoverFails, flash, SigSound, RecSound, Verified, Image
  <2>4. CASE RecoverBackup
    <3>1. /\ rec.pc = "backup" /\ UNCHANGED <<img, sig, good>> /\ rec'.pc = "erase" /\ rec'.buf = rec.buf
      BY <2>4 DEF RecoverBackup, RecoveryStep, TypeInv, RecType
    <3> QED
      BY <1>1, <3>1 DEF SigSound, RecSound, Verified, Image
  <2>5. CASE RecoverErase
    <3>1. /\ rec.pc = "erase" /\ rec'.pc = "head" /\ rec'.buf = rec.buf /\ sig' = "blank"
          /\ img' = [p \in Positions |-> IF FirstSector(p) THEN 0 ELSE img[p]] /\ good' = good
      BY <2>5 DEF RecoverErase, RecoveryStep, TypeInv, RecType, Erase, FirstSector
    <3>2. PICK v \in DOMAIN good : Image(v)
      BY <1>1, <3>1 DEF SigSound, RecSound, Verified
    <3>3. \A p \in Positions : v = IF FirstSector(p) THEN rec'.buf[p] ELSE img'[p]
      BY <1>1, <3>1, <3>2 DEF RecSound, Image
    <3> QED
      BY <3>1, <3>2, <3>3 DEF SigSound, RecSound, Image
  <2>6. CASE RecoverHead
    <3>1. /\ rec.pc = "head" /\ rec'.pc = "rest" /\ rec'.buf = rec.buf /\ UNCHANGED <<img, good>>
      BY <2>6 DEF RecoverHead, RecoveryStep, TypeInv, RecType
    <3> QED
      BY <1>1, <3>1 DEF SigSound, RecSound
  <2>7. CASE RecoverRest
    <3>1. /\ rec.pc = "rest" /\ rec'.pc = "idle" /\ good' = good
          /\ img' = [p \in Positions |-> IF FirstSector(p) THEN rec.buf[p] ELSE img[p]]
      BY <2>7 DEF RecoverRest, RecoveryStep, NoRecovery
    <3>2. PICK v \in DOMAIN good :
            good[v] /\ \A p \in Positions : v = IF FirstSector(p) THEN rec.buf[p] ELSE img[p]
      BY <1>1, <3>1 DEF RecSound
    <3>3. Verified'
      BY <3>1, <3>2 DEF Verified, Image
    <3> QED
      BY <3>1, <3>3 DEF SigSound, RecSound
  <2> QED
    BY <2>1, <2>2, <2>3, <2>4, <2>5, <2>6, <2>7 DEF RecoverSignature
<1> QED
  BY <1>2, <1>5, <1>6 DEF SignInv

LEMMA SignRestart ==
  ASSUME OtaAssumption, TypeInv, SignInv, Reset \/ PowerFails
  PROVE  SignInv'
<1> SUFFICES ASSUME ~overlap', ~torn' PROVE SignInv'
  BY DEF SignInv
<1>1. /\ ~overlap /\ ~torn /\ rec.pc # "rest" /\ UNCHANGED <<img, sig, good>>
      /\ rec' = NoRecovery /\ up' = [u \in Updaters |-> NoUpdate]
  <2>1. Restart
    BY DEF Reset, PowerFails
  <2>2. overlap' = overlap /\ torn' = (torn \/ rec.pc = "rest")
    BY <2>1 DEF Restart
  <2>3. ~overlap /\ ~torn /\ rec.pc # "rest"
    BY <2>2, Zenon
  <2> QED
    BY <2>1, <2>3 DEF Restart, flash
<1>2. NoUpdate.pc = "idle" /\ NoRecovery.pc = "idle"
  BY DEF NoUpdate, NoRecovery
<1>3. SigSound' /\ RecSound'
  BY <1>1, <1>2 DEF SignInv, SigSound, RecSound, Verified, Image
<1> QED
  BY <1>1, <1>2, <1>3 DEF SignInv, Alone, Active, At, Progress

LEMMA SignStep ==
  ASSUME OtaAssumption, 0 \notin Closes, TypeInv, SignInv, [Next]_vars
  PROVE  SignInv'
<1>1. CASE UNCHANGED vars
  BY <1>1 DEF vars, flash, SignInv, Alone, Active, At, SigSound, RecSound, Verified, Image, Progress
<1> QED
  BY <1>1, SignUpdate, SignRecovery, SignRestart DEF Next

LEMMA SignInit == ASSUME OtaAssumption, Init PROVE SignInv
<1>1. NoUpdate.pc = "idle" /\ NoRecovery.pc = "idle"
  BY DEF NoUpdate, NoRecovery
<1> QED
  BY <1>1 DEF Init, SignInv, Alone, Active, At, SigSound, RecSound, Progress

(* SignedIsVerified of Ota, for images, sectors and packets of any size, any *)
(* number of updates and of failures: what is signed is one update's whole   *)
(* and right file - if no server closes before it has sent a byte, which is  *)
(* what the run UpdateEmpty shows.                                           *)
THEOREM SignedIsVerifiedHolds == OtaAssumption /\ 0 \notin Closes => (Spec => []SignedIsVerified)
<1> SUFFICES ASSUME OtaAssumption, 0 \notin Closes PROVE Spec => []SignedIsVerified
  OBVIOUS
<1>1. Init => TypeInv /\ SignInv
  BY TypeInit, SignInit
<1>2. (TypeInv /\ SignInv) /\ [Next]_vars => (TypeInv /\ SignInv)'
  BY TypeStep, SignStep
<1>3. TypeInv /\ SignInv => SignedIsVerified
  BY DEF SignInv, SigSound, Verified, Image, SignedIsVerified
<1> QED
  BY <1>1, <1>2, <1>3, PTL DEF Spec
=============================================================================
