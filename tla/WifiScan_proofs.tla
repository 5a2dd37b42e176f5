-------------------------- MODULE WifiScan_proofs ---------------------------
(* Proofs about WifiScan: the result table, for any number of access points, *)
(* signal strengths and slots, and the scans in progress, for any number of  *)
(* tasks and channels and in both builds.                                    *)
EXTENDS WifiScan, SequenceFacts, TLAPS

-----------------------------------------------------------------------------
(* Lists of slots, strongest access point first, none twice.                 *)

Ordered(q, a) ==
  /\ q \in Seq(Slots)
  /\ \A i \in DOMAIN q : a[q[i]] \in Entries
  /\ \A i, j \in DOMAIN q : i < j => a[q[i]].s >= a[q[j]].s /\ q[i] # q[j] /\ a[q[i]].b # a[q[j]].b

(* What is in the list r is what is in q, and x.                             *)
Adds(r, q, x) ==
  /\ \E j \in DOMAIN r : r[j] = x
  /\ \A j \in DOMAIN r : r[j] = x \/ \E i \in DOMAIN q : r[j] = q[i]
  /\ \A i \in DOMAIN q : \E j \in DOMAIN r : r[j] = q[i]

(* Neither the slot x nor the access point b is in the list.                 *)
Without(q, a, x, b) == \A i \in DOMAIN q : q[i] # x /\ a[q[i]].b # b

(* What is before the place is no weaker than s, the rest no stronger.       *)
Divides(pos, q, a, s) == \A i \in DOMAIN q : IF i < pos THEN a[q[i]].s >= s ELSE s >= a[q[i]].s

(* e is written to the slot x, and the slot is put in the list.              *)
Puts(r, c, q, a, pos, x, e) == r = InsertAt(q, pos, x) /\ c = [a EXCEPT ![x] = e]

LEMMA ListFields ==
  ASSUME NEW q \in Seq(Slots)
  PROVE  Len(q) \in Nat /\ DOMAIN q = 1 .. Len(q) /\ \A i \in DOMAIN q : q[i] \in Slots
OBVIOUS

LEMMA EntryFields ==
  ASSUME ScanAssumption
  PROVE  /\ MaxLevel \in Nat \ {0} /\ MaxAp \in Nat \ {0} /\ Channels \in Nat \ {0}
         /\ None \notin Callers /\ None \notin Entries /\ None \notin ReportCalls /\ None \notin DoneCalls
         /\ MaxCalls \in Nat /\ MaxReports \in Nat
         /\ \A e \in Entries : e.b \in Bssids /\ e.s \in 1 .. MaxLevel /\ e.s \in Nat
BY DEF ScanAssumption, Entries, Levels

LEMMA OutOfList ==
  ASSUME NEW q \in Seq(Slots), NEW i \in DOMAIN q
  PROVE  /\ RemoveAt(q, i) \in Seq(Slots) /\ Len(RemoveAt(q, i)) = Len(q) - 1
         /\ DOMAIN RemoveAt(q, i) = 1 .. Len(q) - 1
         /\ \A j \in 1 .. Len(q) - 1 : RemoveAt(q, i)[j] = IF j < i THEN q[j] ELSE q[j + 1]
<1>1. i \in 1 .. Len(q)
  BY ListFields
<1> QED
  BY <1>1, Removed

LEMMA Ends ==
  ASSUME ScanAssumption, NEW q, NEW a, Ordered(q, a), NEW i \in DOMAIN q
  PROVE  /\ Ordered(RemoveAt(q, i), a) /\ Len(RemoveAt(q, i)) = Len(q) - 1
         /\ Adds(q, RemoveAt(q, i), q[i])
         /\ \A j \in DOMAIN RemoveAt(q, i) : /\ RemoveAt(q, i)[j] # q[i]
                                             /\ a[RemoveAt(q, i)[j]].b # a[q[i]].b
<1> DEFINE r       == RemoveAt(q, i)
           from(j) == IF j < i THEN j ELSE j + 1
<1>1. q \in Seq(Slots) /\ Len(q) \in Nat /\ DOMAIN q = 1 .. Len(q) /\ i \in 1 .. Len(q)
  BY ListFields DEF Ordered
<1>2. /\ r \in Seq(Slots) /\ Len(r) = Len(q) - 1 /\ DOMAIN r = 1 .. Len(q) - 1
      /\ \A j \in 1 .. Len(q) - 1 : r[j] = IF j < i THEN q[j] ELSE q[j + 1]
  BY <1>1, Removed
<1> HIDE DEF r
<1>3. \A j \in DOMAIN r : from(j) \in DOMAIN q /\ from(j) # i /\ r[j] = q[from(j)]
  BY <1>1, <1>2
<1>4. \A j, k \in DOMAIN r : j < k => from(j) < from(k)
  BY <1>1, <1>2
<1>5. \A k \in DOMAIN q : k # i => \E j \in DOMAIN r : r[j] = q[k]
  <2>1. ASSUME NEW k \in DOMAIN q, k < i PROVE k \in DOMAIN r /\ r[k] = q[k]
    BY <1>1, <1>2, <2>1
  <2>2. ASSUME NEW k \in DOMAIN q, k > i PROVE k - 1 \in DOMAIN r /\ r[k - 1] = q[k]
    <3>1. k - 1 \in 1 .. Len(q) - 1 /\ ~(k - 1 < i) /\ (k - 1) + 1 = k
      BY <1>1, <2>2
    <3> QED
      BY <1>2, <3>1
  <2> QED
    BY <1>1, <2>1, <2>2
<1> HIDE DEF from
<1>6. Ordered(r, a)
  BY <1>2, <1>3, <1>4 DEF Ordered
<1>7. Adds(q, r, q[i])
  BY <1>3, <1>5 DEF Adds
<1>8. \A k \in DOMAIN q : k # i => q[k] # q[i] /\ a[q[k]].b # a[q[i]].b
  <2>1. \A k \in DOMAIN q : k # i => k < i \/ i < k
    BY <1>1
  <2> QED
    BY <2>1 DEF Ordered
<1> QED
  BY <1>2, <1>3, <1>6, <1>7, <1>8 DEF r

LEMMA IntoList ==
  ASSUME NEW q \in Seq(Slots), NEW x \in Slots, NEW pos, pos \in 1 .. Len(q) + 1, NEW r, r = InsertAt(q, pos, x)
  PROVE  /\ r \in Seq(Slots) /\ Len(r) = Len(q) + 1 /\ DOMAIN r = 1 .. Len(q) + 1
         /\ \A j \in 1 .. Len(q) + 1 : r[j] = IF j < pos THEN q[j] ELSE IF j = pos THEN x ELSE q[j - 1]
BY Inserted

(* An access point that is put between the stronger and the weaker ones.     *)
LEMMA Place ==
  ASSUME NEW q, NEW a, Ordered(q, a), NEW x \in Slots, NEW e \in Entries,
         a \in [Slots -> Entries \cup {None}],
         Without(q, a, x, e.b), NEW pos \in 1 .. Len(q) + 1, Divides(pos, q, a, e.s),
         NEW r, NEW c, Puts(r, c, q, a, pos, x, e)
  PROVE  /\ Ordered(r, c) /\ Len(r) = Len(q) + 1 /\ Adds(r, q, x)
         /\ \A i \in DOMAIN q : c[q[i]] = a[q[i]]
         /\ c[x] = e /\ c \in [Slots -> Entries \cup {None}]
<1>1. /\ q \in Seq(Slots) /\ Len(q) \in Nat /\ DOMAIN q = 1 .. Len(q)
      /\ \A i \in DOMAIN q : q[i] \in Slots /\ a[q[i]] \in Entries
  BY ListFields DEF Ordered
<1>2. /\ r \in Seq(Slots) /\ Len(r) = Len(q) + 1 /\ DOMAIN r = 1 .. Len(q) + 1
      /\ \A j \in 1 .. Len(q) + 1 : r[j] = IF j < pos THEN q[j] ELSE IF j = pos THEN x ELSE q[j - 1]
  BY <1>1, IntoList DEF Puts
<1>3. c[x] = e /\ \A i \in DOMAIN q : c[q[i]] = a[q[i]] /\ c[q[i]] \in Entries
  BY <1>1 DEF Without, Puts
<1>4. c \in [Slots -> Entries \cup {None}]
  BY DEF Puts
<1>5. /\ pos \in DOMAIN r /\ r[pos] = x
      /\ \A j \in DOMAIN r : j < pos => j \in DOMAIN q /\ r[j] = q[j]
      /\ \A j \in DOMAIN r : j > pos => j - 1 \in DOMAIN q /\ ~(j - 1 < pos) /\ r[j] = q[j - 1]
      /\ \A j \in DOMAIN r : j \in Nat /\ pos \in Nat
  BY <1>1, <1>2
<1>6. ASSUME NEW i \in DOMAIN r, NEW j \in DOMAIN r, i < j
      PROVE  c[r[i]].s >= c[r[j]].s /\ r[i] # r[j] /\ c[r[i]].b # c[r[j]].b
  <2>1. CASE j < pos
    <3>1. i < pos
      BY <1>5, <1>6, <2>1
    <3> QED
      BY <1>3, <1>5, <1>6, <2>1, <3>1 DEF Ordered
  <2>2. CASE i > pos
    <3>1. j > pos /\ i - 1 < j - 1
      BY <1>5, <1>6, <2>2
    <3> QED
      BY <1>3, <1>5, <2>2, <3>1 DEF Ordered
  <2>3. CASE i < pos /\ j > pos
    <3>1. i < j - 1
      BY <1>5, <2>3
    <3> QED
      BY <1>3, <1>5, <2>3, <3>1 DEF Ordered
  <2>4. CASE j = pos
    <3>1. i < pos
      BY <1>6, <2>4
    <3> QED
      BY <1>3, <1>5, <2>4, <3>1 DEF Without, Divides
  <2>5. CASE i = pos
    <3>1. j > pos
      BY <1>6, <2>5
    <3> QED
      BY <1>3, <1>5, <2>5, <3>1 DEF Without, Divides
  <2> QED
    BY <1>5, <2>1, <2>2, <2>3, <2>4, <2>5
<1>7. \A j \in DOMAIN r : r[j] = x \/ \E i \in DOMAIN q : r[j] = q[i]
  <2>1. \A j \in DOMAIN r : j < pos \/ j = pos \/ j > pos
    BY <1>5
  <2> QED
    BY <1>5, <2>1
<1>8. ASSUME NEW i \in DOMAIN q PROVE \E j \in DOMAIN r : r[j] = q[i]
  <2>1. CASE i < pos
    <3>1. i \in 1 .. Len(q) + 1
      BY <1>1
    <3> QED
      BY <1>2, <2>1, <3>1
  <2>2. CASE ~(i < pos)
    <3>1. i + 1 \in 1 .. Len(q) + 1 /\ ~(i + 1 < pos) /\ i + 1 # pos /\ (i + 1) - 1 = i
      BY <1>1, <2>2
    <3> QED
      BY <1>2, <3>1
  <2> QED
    BY <2>1, <2>2
<1>9. \A j \in DOMAIN r : c[r[j]] \in Entries
  BY <1>3, <1>7
<1>10. Ordered(r, c) /\ Adds(r, q, x)
  BY <1>2, <1>5, <1>6, <1>7, <1>8, <1>9 DEF Ordered, Adds
<1> QED
  BY <1>2, <1>3, <1>4, <1>10

-----------------------------------------------------------------------------
(* The result table: its slots are the first ones, every access point in it  *)
(* is at the strength it was best heard at, and one that is not in it was    *)
(* never heard or is no stronger than any in a full table.                   *)

Table ==
  /\ ap \in [Slots -> Entries \cup {None}] /\ best \in [Bssids -> 0 .. MaxLevel]
  /\ Ordered(pap, ap) /\ Len(pap) <= MaxAp /\ \A i \in DOMAIN pap : pap[i] <= Len(pap)

AtBest == \A i \in DOMAIN pap : ap[pap[i]].s = best[ap[pap[i]].b]

NoneBetter ==
  \A b \in Bssids : best[b] > 0 /\ (\A i \in DOMAIN pap : ap[pap[i]].b # b) =>
    Len(pap) = MaxAp /\ \A i \in DOMAIN pap : best[b] <= ap[pap[i]].s

LEMMA TableFields ==
  ASSUME ScanAssumption, Table
  PROVE  /\ pap \in Seq(Slots) /\ Len(pap) \in Nat /\ DOMAIN pap = 1 .. Len(pap)
         /\ \A i \in DOMAIN pap : /\ pap[i] \in Slots /\ pap[i] \in Nat /\ ap[pap[i]] \in Entries
                                  /\ ap[pap[i]].s \in Nat /\ ap[pap[i]].b \in Bssids
         /\ \A b \in Bssids : best[b] \in Nat
         /\ \A i, j \in DOMAIN pap : i <= j => ap[pap[i]].s >= ap[pap[j]].s
<1>1. pap \in Seq(Slots) /\ Len(pap) \in Nat /\ DOMAIN pap = 1 .. Len(pap)
  BY ListFields DEF Table, Ordered
<1>2. \A i \in DOMAIN pap : pap[i] \in Slots /\ ap[pap[i]] \in Entries
  BY <1>1, ListFields DEF Table, Ordered
<1>3. \A i \in DOMAIN pap : pap[i] \in Nat /\ ap[pap[i]].s \in Nat /\ ap[pap[i]].b \in Bssids
  BY <1>2, EntryFields DEF Slots
<1>4. ASSUME NEW i \in DOMAIN pap, NEW j \in DOMAIN pap, i <= j PROVE ap[pap[i]].s >= ap[pap[j]].s
  <2>1. i = j \/ i < j
    BY <1>1, <1>4
  <2> QED
    BY <1>3, <2>1 DEF Table, Ordered
<1>5. \A b \in Bssids : best[b] \in Nat
  BY EntryFields DEF Table
<1> QED
  BY <1>1, <1>2, <1>3, <1>4, <1>5

(* The slots q of the table as it was, and x with the report in it.          *)
LEMMA Placed ==
  ASSUME ScanAssumption, Table, AtBest,
         NEW q, NEW x \in Slots, NEW e \in Entries, NEW pos \in 1 .. Len(q) + 1,
         Ordered(q, ap), Without(q, ap, x, e.b), Divides(pos, q, ap, e.s),
         \A i \in DOMAIN q : \E k \in DOMAIN pap : q[i] = pap[k],
         pap' = InsertAt(q, pos, x), ap' = [ap EXCEPT ![x] = e],
         Len(q) + 1 <= MaxAp, x <= Len(q) + 1, \A i \in DOMAIN q : q[i] <= Len(q) + 1,
         best' \in [Bssids -> 0 .. MaxLevel], best'[e.b] = e.s,
         \A b \in Bssids \ {e.b} : best'[b] = best[b]
  PROVE  /\ Table' /\ AtBest' /\ Len(pap') = Len(q) + 1 /\ Adds(pap', q, x)
         /\ ap'[x] = e /\ \A i \in DOMAIN q : ap'[q[i]] = ap[q[i]]
<1>1. /\ Ordered(pap', ap') /\ Len(pap') = Len(q) + 1 /\ Adds(pap', q, x)
      /\ \A i \in DOMAIN q : ap'[q[i]] = ap[q[i]]
      /\ ap'[x] = e /\ ap' \in [Slots -> Entries \cup {None}]
  <2>1. ap \in [Slots -> Entries \cup {None}]
    BY DEF Table
  <2>2. Puts(pap', ap', q, ap, pos, x, e)
    BY DEF Puts
  <2> QED
    BY <2>1, <2>2, Place
<1>2. \A j \in DOMAIN pap' : pap'[j] <= Len(pap')
  BY <1>1 DEF Adds
<1>3. ASSUME NEW j \in DOMAIN pap' PROVE ap'[pap'[j]].s = best'[ap'[pap'[j]].b]
  <2>1. CASE pap'[j] = x
    BY <1>1, <2>1
  <2>2. ASSUME NEW i \in DOMAIN q, pap'[j] = q[i] PROVE ap'[pap'[j]].s = best'[ap'[pap'[j]].b]
    <3>1. PICK k \in DOMAIN pap : q[i] = pap[k]
      OBVIOUS
    <3>2. ap[q[i]].s = best[ap[q[i]].b] /\ ap[q[i]].b \in Bssids \ {e.b}
      BY <3>1, TableFields DEF AtBest, Without
    <3> QED
      BY <1>1, <2>2, <3>2
  <2> QED
    BY <1>1, <2>1, <2>2 DEF Adds
<1> QED
  BY <1>1, <1>2, <1>3 DEF Table, AtBest

(* A new access point, into the list it leaves or without the weakest.       *)
LEMMA Inserting ==
  ASSUME ScanAssumption, Table, AtBest,
         NEW kept, NEW x \in Slots, NEW e \in Entries, InsertSlot(kept, x, e),
         Ordered(kept, ap), DOMAIN kept \subseteq DOMAIN pap, \A i \in DOMAIN kept : kept[i] = pap[i] /\ kept[i] # x,
         \A i \in DOMAIN pap : ap[pap[i]].b # e.b,
         Len(kept) + 1 <= MaxAp, x <= Len(kept) + 1, \A i \in DOMAIN kept : kept[i] <= Len(kept) + 1,
         best' \in [Bssids -> 0 .. MaxLevel], best'[e.b] = e.s,
         \A b \in Bssids \ {e.b} : best'[b] = best[b]
  PROVE  /\ Table' /\ AtBest' /\ Len(pap') = Len(kept) + 1 /\ Adds(pap', kept, x)
         /\ ap'[x] = e /\ \A i \in DOMAIN kept : ap'[kept[i]] = ap[kept[i]]
<1> DEFINE weaker == Weaker(e.s) \cap DOMAIN kept
           places == weaker \cup {Len(kept) + 1}
           pos    == Min(places)
<1>1. Len(kept) \in Nat /\ DOMAIN kept = 1 .. Len(kept)
  BY ListFields DEF Ordered
<1>2. pap' = InsertAt(kept, pos, x) /\ ap' = [ap EXCEPT ![x] = e]
  BY DEF InsertSlot
<1>3. pos \in places /\ \A i \in places : pos <= i
  <2>1. places \in SUBSET Nat /\ places # {}
    BY <1>1 DEF Weaker
  <2> QED
    BY <2>1, MinIsFirst
<1> HIDE DEF pos
<1>4. pos \in 1 .. Len(kept) + 1
  BY <1>1, <1>3
<1>5. \A i \in DOMAIN kept : i \in weaker <=> e.s > ap[kept[i]].s
  BY DEF Weaker, Signal
<1> HIDE DEF weaker
<1>6. ASSUME NEW i \in DOMAIN kept PROVE IF i < pos THEN ap[kept[i]].s >= e.s ELSE e.s >= ap[kept[i]].s
  <2>1. e.s \in Nat /\ ap[kept[i]].s \in Nat /\ i \in Nat
    BY <1>1, EntryFields, TableFields
  <2>2. CASE i < pos
    <3>1. i \notin weaker
      BY <1>1, <1>3, <1>4, <2>2
    <3> QED
      BY <1>5, <2>1, <2>2, <3>1
  <2>3. CASE ~(i < pos)
    <3>1. pos \in weaker /\ pos \in DOMAIN kept /\ pos <= i
      BY <1>1, <1>3, <1>4, <2>3
    <3>2. e.s > ap[kept[pos]].s /\ ap[kept[pos]].s >= ap[kept[i]].s /\ ap[kept[pos]].s \in Nat
      BY <1>5, <3>1, TableFields
    <3> QED
      BY <2>1, <2>3, <3>2
  <2> QED
    BY <2>2, <2>3
<1>7. Without(kept, ap, x, e.b) /\ Divides(pos, kept, ap, e.s)
  BY <1>6 DEF Without, Divides
<1>8. \A i \in DOMAIN kept : \E k \in DOMAIN pap : kept[i] = pap[k]
  OBVIOUS
<1> QED
  BY <1>2, <1>4, <1>7, <1>8, Placed

(* What the report does to the history: the best strength is the higher one. *)
Heard(e) == best' = [best EXCEPT ![e.b] = Max({@, e.s})]

LEMMA BestOf ==
  ASSUME ScanAssumption, Table, NEW e \in Entries, Heard(e)
  PROVE  /\ best' \in [Bssids -> 0 .. MaxLevel] /\ e.b \in Bssids
         /\ best[e.b] \in Nat /\ e.s \in Nat
         /\ best'[e.b] = IF e.s > best[e.b] THEN e.s ELSE best[e.b]
         /\ \A b \in Bssids \ {e.b} : best'[b] = best[b]
<1> DEFINE s == best[e.b]
<1>1. /\ MaxLevel \in Nat /\ e.b \in Bssids /\ e.s \in 0 .. MaxLevel /\ s \in 0 .. MaxLevel
      /\ best \in [Bssids -> 0 .. MaxLevel]
  BY EntryFields DEF Table
<1>2. best' = [best EXCEPT ![e.b] = Max({s, e.s})]
  BY DEF Heard
<1> HIDE DEF s
<1>3. {s, e.s} \in SUBSET (0 .. MaxLevel) /\ {s, e.s} # {}
  BY <1>1
<1>4. Max({s, e.s}) \in {s, e.s} /\ \A x \in {s, e.s} : x <= Max({s, e.s})
  BY <1>1, <1>3, MaxIsLast
<1>5. PICK m : m = Max({s, e.s})
  OBVIOUS
<1>6. m \in 0 .. MaxLevel /\ m = IF e.s > s THEN e.s ELSE s
  BY <1>1, <1>4, <1>5
<1>7. best' = [best EXCEPT ![e.b] = m]
  BY <1>2, <1>5
<1>8. best' \in [Bssids -> 0 .. MaxLevel] /\ best'[e.b] = m /\ \A b \in Bssids \ {e.b} : best'[b] = best[b]
  BY <1>1, <1>6, <1>7
<1> QED
  BY <1>1, <1>6, <1>8 DEF s

(* A known access point that is heard better.                                *)
LEMMA Raised ==
  ASSUME ScanAssumption, Table, AtBest, NoneBetter, NEW i \in DOMAIN pap, NEW e \in Entries, Heard(e),
         ap[pap[i]].b = e.b, e.s > ap[pap[i]].s, Raise(i, e.s)
  PROVE  Table' /\ AtBest' /\ NoneBetter'
<1> DEFINE x        == pap[i]
           q        == RemoveAt(pap, i)
           stronger == {j \in 1 .. i - 1 : Signal(j) >= e.s}
           m        == Max(stronger \cup {0})
<1>1. /\ Ordered(q, ap) /\ Len(q) = Len(pap) - 1 /\ Adds(pap, q, x)
      /\ \A j \in DOMAIN q : q[j] # x /\ ap[q[j]].b # e.b
  BY Ends DEF Table
<1>2. /\ DOMAIN q = 1 .. Len(pap) - 1
      /\ \A j \in 1 .. Len(pap) - 1 : q[j] = IF j < i THEN pap[j] ELSE pap[j + 1]
  BY TableFields, OutOfList
<1>3. /\ Len(pap) \in Nat /\ DOMAIN pap = 1 .. Len(pap) /\ i \in 1 .. Len(pap) /\ x \in Slots
      /\ ap[x] \in Entries /\ e.s \in Nat /\ ap[x].s \in Nat /\ ap[x].b = e.b
      /\ \A j \in DOMAIN pap : ap[pap[j]].s \in Nat
  BY TableFields, EntryFields
<1>4. pap' = InsertAt(q, m + 1, x) /\ ap' = [ap EXCEPT ![x].s = e.s]
  BY DEF Raise
<1>5. \A j \in 1 .. i - 1 : j \in stronger <=> ap[pap[j]].s >= e.s
  BY DEF Signal
<1>6. m \in stronger \cup {0} /\ \A j \in stronger : j <= m
  <2>1. stronger \cup {0} \in SUBSET (0 .. i - 1) /\ stronger \cup {0} # {} /\ i - 1 \in Nat
    BY <1>3
  <2> HIDE DEF stronger
  <2> QED
    BY <2>1, MaxIsLast
<1>7. m \in 0 .. i - 1
  BY <1>3, <1>6
<1> HIDE DEF m, q
<1>8. Divides(m + 1, q, ap, e.s)
  <2> SUFFICES ASSUME NEW k \in DOMAIN q
               PROVE  IF k < m + 1 THEN ap[q[k]].s >= e.s ELSE e.s >= ap[q[k]].s
    BY DEF Divides
  <2>1. k \in 1 .. Len(pap) - 1
    BY <1>2
  <2>2. CASE k < m + 1
    <3>1. m \in stronger /\ k <= m /\ m \in 1 .. i - 1 /\ k < i
      BY <1>3, <1>6, <1>7, <2>1, <2>2
    <3>2. ap[pap[m]].s >= e.s
      BY <1>5, <3>1
    <3>6. k \in DOMAIN pap /\ m \in DOMAIN pap
      BY <1>3, <2>1, <3>1
    <3>3. ap[pap[k]].s >= ap[pap[m]].s /\ ap[pap[k]].s \in Nat /\ ap[pap[m]].s \in Nat
      BY <1>3, <3>1, <3>6, TableFields
    <3>4. q[k] = pap[k]
      BY <1>2, <2>1, <3>1
    <3>5. ap[pap[k]].s >= e.s
      BY <1>3, <3>2, <3>3
    <3> QED
      BY <2>2, <3>4, <3>5
  <2>3. CASE ~(k < m + 1) /\ k < i
    <3>1. k \in 1 .. i - 1 /\ k \notin stronger /\ k \in DOMAIN pap
      BY <1>3, <1>6, <1>7, <2>1, <2>3
    <3>2. ~(ap[pap[k]].s >= e.s) /\ ap[pap[k]].s \in Nat
      BY <1>3, <1>5, <3>1
    <3>3. q[k] = pap[k]
      BY <1>2, <2>1, <2>3
    <3> QED
      BY <1>3, <2>3, <3>2, <3>3
  <2>4. CASE ~(k < m + 1) /\ ~(k < i)
    <3>1. k + 1 \in DOMAIN pap /\ i <= k + 1 /\ q[k] = pap[k + 1]
      BY <1>2, <1>3, <2>1, <2>4
    <3>2. ap[pap[i]].s >= ap[pap[k + 1]].s /\ ap[pap[k + 1]].s \in Nat
      BY <1>3, <3>1, TableFields
    <3>3. e.s >= ap[pap[k + 1]].s
      BY <1>3, <3>2
    <3> QED
      BY <2>4, <3>1, <3>3
  <2> QED
    BY <2>2, <2>3, <2>4
<1>9. ap' = [ap EXCEPT ![x] = e]
  <2>1. [ap[x] EXCEPT !.s = e.s] = e
    BY <1>3 DEF Entries
  <2> QED
    BY <1>4, <2>1
<1>10. PICK pos : pos = m + 1
  OBVIOUS
<1>11. /\ pos \in 1 .. Len(q) + 1 /\ Len(q) + 1 <= MaxAp /\ x <= Len(q) + 1
       /\ Without(q, ap, x, e.b) /\ Divides(pos, q, ap, e.s) /\ pap' = InsertAt(q, pos, x)
  <2>1. pos \in 1 .. Len(q) + 1 /\ Len(q) + 1 = Len(pap)
    BY <1>1, <1>3, <1>7, <1>10
  <2> QED
    BY <1>1, <1>4, <1>8, <1>10, <2>1 DEF Table, Without
<1>12. \A j \in DOMAIN q : q[j] <= Len(q) + 1 /\ \E k \in DOMAIN pap : q[j] = pap[k]
  <2>1. Len(q) + 1 = Len(pap)
    BY <1>1, <1>3
  <2> QED
    BY <1>1, <2>1 DEF Table, Adds
<1>13. e.s > best[e.b]
  BY <1>3 DEF AtBest
<1>14. /\ Table' /\ AtBest' /\ Len(pap') = Len(q) + 1 /\ Adds(pap', q, x)
       /\ ap'[x] = e /\ \A j \in DOMAIN q : ap'[q[j]] = ap[q[j]]
  BY <1>1, <1>3, <1>9, <1>11, <1>12, <1>13, BestOf, Placed
<1>15. NoneBetter'
  <2> SUFFICES ASSUME NEW b \in Bssids, best'[b] > 0, \A j \in DOMAIN pap' : ap'[pap'[j]].b # b
               PROVE  Len(pap') = MaxAp /\ \A j \in DOMAIN pap' : best'[b] <= ap'[pap'[j]].s
    BY DEF NoneBetter
  <2>1. b # e.b
    BY <1>14 DEF Adds
  <2>2. best'[b] = best[b] /\ best[b] \in Nat
    BY <2>1, BestOf, TableFields
  <2>3. ASSUME NEW k \in DOMAIN pap PROVE ap[pap[k]].b # b
    <3>1. CASE pap[k] = x
      BY <1>3, <2>1, <3>1
    <3>2. ASSUME NEW l \in DOMAIN q, pap[k] = q[l] PROVE ap[pap[k]].b # b
      <4>1. PICK j \in DOMAIN pap' : pap'[j] = q[l]
        BY <1>14 DEF Adds
      <4> QED
        BY <1>14, <3>2, <4>1
    <3> QED
      BY <1>1, <3>1, <3>2 DEF Adds
  <2>4. Len(pap) = MaxAp /\ \A k \in DOMAIN pap : best[b] <= ap[pap[k]].s
    BY <2>2, <2>3 DEF NoneBetter
  <2>5. ASSUME NEW j \in DOMAIN pap' PROVE best[b] <= ap'[pap'[j]].s
    <3>1. CASE pap'[j] = x
      <4>1. best[b] <= ap[x].s
        BY <2>4
      <4> QED
        BY <1>3, <1>14, <2>2, <3>1, <4>1
    <3>2. ASSUME NEW k \in DOMAIN q, pap'[j] = q[k] PROVE best[b] <= ap'[pap'[j]].s
      <4>1. PICK l \in DOMAIN pap : q[k] = pap[l]
        BY <1>12
      <4> QED
        BY <1>14, <2>4, <3>2, <4>1
    <3> QED
      BY <1>14, <3>1, <3>2 DEF Adds
  <2> QED
    BY <1>1, <1>3, <1>14, <2>2, <2>4, <2>5
<1> QED
  BY <1>14, <1>15

(* One that is not known, with a slot left.                                  *)
LEMMA Added ==
  ASSUME ScanAssumption, Table, AtBest, NoneBetter, NEW e \in Entries, Heard(e),
         \A i \in DOMAIN pap : ap[pap[i]].b # e.b, Len(pap) < MaxAp, InsertSlot(pap, Len(pap) + 1, e)
  PROVE  Table' /\ AtBest' /\ NoneBetter'
<1>1. PICK x : x = Len(pap) + 1
  OBVIOUS
<1>2. /\ x \in Slots /\ Len(pap) + 1 <= MaxAp /\ x <= Len(pap) + 1
      /\ \A i \in DOMAIN pap : pap[i] # x /\ pap[i] <= Len(pap) + 1
  <2>1. Len(pap) \in Nat /\ MaxAp \in Nat /\ \A i \in DOMAIN pap : pap[i] \in Nat /\ pap[i] <= Len(pap)
    BY TableFields, EntryFields DEF Table
  <2> QED
    BY <1>1, <2>1 DEF Slots
<1>3. Ordered(pap, ap) /\ InsertSlot(pap, x, e)
  BY <1>1 DEF Table
<1>4. best[e.b] = 0
  <2>1. Len(pap) # MaxAp /\ e.b \in Bssids /\ best[e.b] \in Nat
    BY TableFields, BestOf, EntryFields
  <2> QED
    BY <2>1 DEF NoneBetter
<1>5. best' \in [Bssids -> 0 .. MaxLevel] /\ best'[e.b] = e.s /\ \A b \in Bssids \ {e.b} : best'[b] = best[b]
  BY <1>4, BestOf, EntryFields
<1>6. /\ Table' /\ AtBest' /\ Len(pap') = Len(pap) + 1 /\ Adds(pap', pap, x)
      /\ ap'[x] = e /\ \A i \in DOMAIN pap : ap'[pap[i]] = ap[pap[i]]
  BY <1>2, <1>3, <1>5, Inserting
<1>7. NoneBetter'
  <2> SUFFICES ASSUME NEW b \in Bssids, best'[b] > 0, \A j \in DOMAIN pap' : ap'[pap'[j]].b # b PROVE FALSE
    BY DEF NoneBetter
  <2>1. b # e.b
    BY <1>6 DEF Adds
  <2>2. \A i \in DOMAIN pap : ap[pap[i]].b # b
    BY <1>6 DEF Adds
  <2>3. best[b] > 0 /\ Len(pap) # MaxAp
    BY <1>5, <2>1, TableFields, EntryFields
  <2> QED
    BY <2>2, <2>3 DEF NoneBetter
<1> QED
  BY <1>6, <1>7

(* One that is stronger than the weakest of a full table takes its slot.     *)
LEMMA Replaced ==
  ASSUME ScanAssumption, Table, AtBest, NoneBetter, NEW e \in Entries, Heard(e),
         \A i \in DOMAIN pap : ap[pap[i]].b # e.b, ~(Len(pap) < MaxAp), e.s > Signal(Len(pap)),
         InsertSlot(Front(pap), pap[Len(pap)], e)
  PROVE  Table' /\ AtBest' /\ NoneBetter'
<1> DEFINE n == Len(pap)
           x == pap[n]
           q == Front(pap)
<1>1. /\ n \in Nat /\ n = MaxAp /\ n \in DOMAIN pap /\ DOMAIN pap = 1 .. n /\ pap \in Seq(Slots)
      /\ x \in Slots /\ e.s \in Nat /\ e.s > ap[x].s /\ ap[x].s \in Nat /\ ap[x].b \in Bssids
  <2>1. n \in Nat /\ DOMAIN pap = 1 .. n /\ MaxAp \in Nat \ {0} /\ n <= MaxAp /\ pap \in Seq(Slots)
    BY TableFields, EntryFields DEF Table
  <2>2. n = MaxAp /\ n \in DOMAIN pap
    BY <2>1
  <2> QED
    BY <2>1, <2>2, TableFields, EntryFields DEF Signal
<1>2. q \in Seq(Slots) /\ Len(q) = n - 1 /\ DOMAIN q = 1 .. n - 1 /\ \A i \in DOMAIN q : q[i] = pap[i]
  <2>1. /\ SubSeq(pap, 1, n - 1) \in Seq(Slots) /\ Len(SubSeq(pap, 1, n - 1)) = n - 1
        /\ \A j \in 1 .. n - 1 : SubSeq(pap, 1, n - 1)[j] = pap[j]
    BY <1>1, Part
  <2>2. q = SubSeq(pap, 1, n - 1)
    BY DEF Front
  <2>3. DOMAIN q = 1 .. Len(q)
    BY <2>1, <2>2
  <2> QED
    BY <2>1, <2>2, <2>3
<1> HIDE DEF q
<1>3. DOMAIN q \subseteq DOMAIN pap /\ \A i \in DOMAIN q : i < n /\ i \in DOMAIN pap
  BY <1>1, <1>2
<1>4. Ordered(q, ap) /\ \A i \in DOMAIN q : q[i] = pap[i] /\ q[i] # x /\ ap[q[i]].b # ap[x].b
  BY <1>1, <1>2, <1>3 DEF Table, Ordered
<1>5. Len(q) + 1 = n /\ x <= Len(q) + 1 /\ \A i \in DOMAIN q : q[i] <= Len(q) + 1
  BY <1>1, <1>2, <1>3 DEF Table
<1>6. best[e.b] <= ap[x].s
  <2>1. best[e.b] \in Nat /\ e.b \in Bssids
    BY TableFields, BestOf
  <2> QED
    BY <1>1, <2>1 DEF NoneBetter
<1>7. best' \in [Bssids -> 0 .. MaxLevel] /\ best'[e.b] = e.s /\ \A b \in Bssids \ {e.b} : best'[b] = best[b]
  BY <1>1, <1>6, BestOf
<1>8. PICK y : y = x
  OBVIOUS
<1>9. InsertSlot(q, y, e) /\ y \in Slots /\ \A i \in DOMAIN q : q[i] # y
  BY <1>1, <1>4, <1>8 DEF q
<1>10. /\ Table' /\ AtBest' /\ Len(pap') = Len(q) + 1 /\ Adds(pap', q, y)
       /\ ap'[y] = e /\ \A i \in DOMAIN q : ap'[q[i]] = ap[q[i]]
  <2>1. \A i \in DOMAIN q : q[i] = pap[i] /\ q[i] # y
    BY <1>2, <1>9
  <2>2. DOMAIN q \subseteq DOMAIN pap /\ Ordered(q, ap)
    BY <1>3, <1>4
  <2>3. Len(q) + 1 <= MaxAp /\ y <= Len(q) + 1 /\ \A i \in DOMAIN q : q[i] <= Len(q) + 1
    BY <1>1, <1>5, <1>8
  <2> QED
    BY <1>7, <1>9, <2>1, <2>2, <2>3, Inserting
<1>11. \A i \in DOMAIN pap : i # n => i \in DOMAIN q
  BY <1>1, <1>2
<1>12. NoneBetter'
  <2> SUFFICES ASSUME NEW b \in Bssids, best'[b] > 0, \A j \in DOMAIN pap' : ap'[pap'[j]].b # b
               PROVE  Len(pap') = MaxAp /\ \A j \in DOMAIN pap' : best'[b] <= ap'[pap'[j]].s
    BY DEF NoneBetter
  <2>1. b # e.b /\ best'[b] = best[b] /\ best[b] \in Nat
    BY <1>7, <1>10, TableFields DEF Adds
  <2>2. \A i \in DOMAIN q : ap[pap[i]].b # b
    BY <1>4, <1>10 DEF Adds
  <2>3. best[b] <= ap[x].s
    <3>1. CASE ap[x].b = b
      BY <1>1, <3>1 DEF AtBest
    <3>2. CASE ap[x].b # b
      <4>1. \A i \in DOMAIN pap : ap[pap[i]].b # b
        BY <1>11, <2>2, <3>2
      <4> QED
        BY <1>1, <2>1, <4>1 DEF NoneBetter
    <3> QED
      BY <3>1, <3>2
  <2>4. \A i \in DOMAIN q : best[b] <= ap[q[i]].s
    <3> SUFFICES ASSUME NEW i \in DOMAIN q PROVE best[b] <= ap[q[i]].s
      OBVIOUS
    <3>1. i \in DOMAIN pap /\ i <= n /\ q[i] = pap[i]
      BY <1>1, <1>2, <1>3
    <3>2. ap[pap[i]].s >= ap[x].s /\ ap[pap[i]].s \in Nat
      BY <1>1, <3>1, TableFields
    <3> QED
      BY <1>1, <2>1, <2>3, <3>1, <3>2
  <2>5. ASSUME NEW j \in DOMAIN pap' PROVE best[b] <= ap'[pap'[j]].s
    <3>1. CASE pap'[j] = y
      BY <1>1, <1>10, <2>1, <2>3, <3>1
    <3>2. ASSUME NEW i \in DOMAIN q, pap'[j] = q[i] PROVE best[b] <= ap'[pap'[j]].s
      BY <1>10, <2>4, <3>2
    <3> QED
      BY <1>10, <3>1, <3>2 DEF Adds
  <2> QED
    BY <1>1, <1>5, <1>10, <2>1, <2>5
<1> QED
  BY <1>10, <1>12

(* What is heard leaves the table as it is: known and no stronger, or no     *)
(* stronger than the weakest of a full table.                                *)
LEMMA Left ==
  ASSUME ScanAssumption, Table, AtBest, NoneBetter, NEW e \in Entries, Heard(e), UNCHANGED <<ap, pap>>,
         \/ \E i \in DOMAIN pap : ap[pap[i]].b = e.b /\ ~(e.s > ap[pap[i]].s)
         \/ ~(Len(pap) < MaxAp) /\ ~(e.s > Signal(Len(pap))) /\ \A i \in DOMAIN pap : ap[pap[i]].b # e.b
  PROVE  Table' /\ AtBest' /\ NoneBetter'
<1>1. Table'
  BY BestOf DEF Table
<1>2. ASSUME NEW i \in DOMAIN pap, ap[pap[i]].b = e.b, ~(e.s > ap[pap[i]].s) PROVE AtBest' /\ NoneBetter'
  <2>1. best[e.b] = ap[pap[i]].s
    BY <1>2 DEF AtBest
  <2>2. best' = best
    <3>1. best'[e.b] = best[e.b] /\ \A b \in Bssids \ {e.b} : best'[b] = best[b]
      BY <1>2, <2>1, BestOf
    <3>2. best \in [Bssids -> 0 .. MaxLevel] /\ best' \in [Bssids -> 0 .. MaxLevel]
      BY BestOf DEF Table
    <3>3. \A b \in Bssids : best'[b] = best[b]
      BY <3>1
    <3> QED
      BY <3>2, <3>3
  <2> QED
    BY <2>2 DEF AtBest, NoneBetter
<1>3. ASSUME ~(Len(pap) < MaxAp), ~(e.s > Signal(Len(pap))), \A i \in DOMAIN pap : ap[pap[i]].b # e.b
      PROVE  AtBest' /\ NoneBetter'
  <2>1. Len(pap) = MaxAp /\ Len(pap) \in DOMAIN pap /\ Len(pap) \in Nat /\ DOMAIN pap = 1 .. Len(pap)
    <3>1. Len(pap) \in Nat /\ DOMAIN pap = 1 .. Len(pap) /\ MaxAp \in Nat \ {0} /\ Len(pap) <= MaxAp
      BY TableFields, EntryFields DEF Table
    <3> QED
      BY <1>3, <3>1
  <2>2. \A i \in DOMAIN pap : e.s <= ap[pap[i]].s
    <3> SUFFICES ASSUME NEW i \in DOMAIN pap PROVE e.s <= ap[pap[i]].s
      OBVIOUS
    <3>1. i <= Len(pap)
      BY <2>1
    <3>2. /\ ap[pap[i]].s >= ap[pap[Len(pap)]].s /\ ap[pap[i]].s \in Nat /\ ap[pap[Len(pap)]].s \in Nat
          /\ e.s \in Nat
      BY <2>1, <3>1, TableFields, EntryFields
    <3> QED
      BY <1>3, <3>2 DEF Signal
  <2>3. AtBest'
    BY <1>3, BestOf, TableFields DEF AtBest
  <2>4. NoneBetter'
    <3> SUFFICES ASSUME NEW b \in Bssids, best'[b] > 0, \A i \in DOMAIN pap : ap[pap[i]].b # b
                 PROVE  \A i \in DOMAIN pap : best'[b] <= ap[pap[i]].s
      BY <2>1 DEF NoneBetter
    <3>1. best[b] = 0 \/ \A i \in DOMAIN pap : best[b] <= ap[pap[i]].s
      <4>1. best[b] \in Nat
        BY TableFields
      <4> QED
        BY <4>1 DEF NoneBetter
    <3>2. best'[b] = best[b] \/ best'[b] = e.s
      BY BestOf
    <3> QED
      BY <2>2, <3>1, <3>2
  <2> QED
    BY <2>3, <2>4
<1> QED
  BY <1>1, <1>2, <1>3

(* The whole of wifi_scan_each_report_hdl.                                   *)
LEMMA Reported ==
  ASSUME ScanAssumption, Table, AtBest, NoneBetter, NEW e \in Entries, Heard(e), Report(e)
  PROVE  Table' /\ AtBest' /\ NoneBetter'
<1> DEFINE known == {i \in DOMAIN pap : ap[pap[i]].b = e.b}
<1>1. DOMAIN pap = 1 .. Len(pap) /\ Len(pap) \in Nat
  BY TableFields
<1>2. CASE known # {}
  <2>1. PICK i : i = Min(known)
    OBVIOUS
  <2>2. known \in SUBSET Nat
    BY <1>1
  <2>3. i \in known
    BY <1>2, <2>1, <2>2, MinIsFirst
  <2>4. i \in DOMAIN pap /\ ap[pap[i]].b = e.b
    BY <2>3
  <2>5. IF e.s > Signal(i) THEN Raise(i, e.s) ELSE UNCHANGED <<ap, pap>>
    BY <1>2, <2>1 DEF Report
  <2>6. CASE e.s > Signal(i)
    BY <2>4, <2>5, <2>6, Raised DEF Signal
  <2>7. CASE ~(e.s > Signal(i))
    BY <2>4, <2>5, <2>7, Left DEF Signal
  <2> QED
    BY <2>6, <2>7
<1>3. CASE known = {}
  <2>1. \A i \in DOMAIN pap : ap[pap[i]].b # e.b
    BY <1>3
  <2>2. CASE Len(pap) < MaxAp
    <3>1. InsertSlot(pap, Len(pap) + 1, e)
      BY <1>3, <2>2 DEF Report
    <3> QED
      BY <2>1, <2>2, <3>1, Added
  <2>3. CASE ~(Len(pap) < MaxAp)
    <3>1. IF e.s > Signal(Len(pap)) THEN InsertSlot(Front(pap), pap[Len(pap)], e) ELSE UNCHANGED <<ap, pap>>
      BY <1>3, <2>3 DEF Report
    <3>2. CASE e.s > Signal(Len(pap))
      BY <2>1, <2>3, <3>1, <3>2, Replaced
    <3>3. CASE ~(e.s > Signal(Len(pap)))
      BY <2>1, <2>3, <3>1, <3>3, Left
    <3> QED
      BY <3>2, <3>3
  <2> QED
    BY <2>2, <2>3
<1> QED
  BY <1>2, <1>3

-----------------------------------------------------------------------------
(* Types.                                                                    *)

Types ==
  /\ pc \in [Callers -> Pcs] /\ kind \in [Callers -> {"plain", "mcc"}] /\ chan \in [Callers -> 1 .. Channels]
  /\ calls \in 0 .. MaxCalls /\ owed \subseteq Callers /\ free \in Nat
  /\ buf \in {"null", "live", "freed"} /\ user \in Callers \cup {None}
  /\ regs \subseteq Handlers /\ run \in {None} \cup ReportCalls \cup DoneCalls
  /\ drv \in [on : BOOLEAN, sent : Nat] /\ wild \in BOOLEAN /\ raced \in BOOLEAN
  /\ \A c \in Callers : pc[c] = "claim" => ~UseSema

LEMMA RunFields ==
  ASSUME ScanAssumption, Types
  PROVE  /\ run # None /\ run.h = "each_report" => run \in ReportCalls /\ run.e \in Entries
         /\ run # None /\ run.h # "each_report" =>
              /\ run \in DoneCalls /\ run.h \in {"done", "done_mcc", "release", "unreg"}
              /\ run.rest \subseteq {"done", "done_mcc"}
BY DEF Types, ReportCalls, DoneCalls

(* A caller that goes on, and a channel_index that stays in its range.       *)
LEMMA Goes ==
  ASSUME Types, NEW c \in Callers, NEW p \in Pcs, Goto(c, p), p = "claim" => ~UseSema
  PROVE  /\ pc' \in [Callers -> Pcs] /\ pc'[c] = p /\ \A d \in Callers \ {c} : pc'[d] = pc[d]
         /\ \A d \in Callers : pc'[d] = "claim" => ~UseSema
BY DEF Types, Goto

LEMMA NextGoes ==
  ASSUME ScanAssumption, Types, NEW c \in Callers, NextChannel(c)
  PROVE  /\ pc' \in [Callers -> Pcs] /\ pc'[c] = IF LastChannel(c) THEN "idle" ELSE "test"
         /\ \A d \in Callers \ {c} : pc'[d] = pc[d] /\ chan'[d] = chan[d]
         /\ \A d \in Callers : pc'[d] = "claim" => ~UseSema
         /\ chan' \in [Callers -> 1 .. Channels]
<1>1. CASE LastChannel(c)
  <2>1. Goto(c, "idle") /\ chan' = chan /\ "idle" \in Pcs
    BY <1>1 DEF NextChannel, Pcs
  <2> QED
    BY <1>1, <2>1, Goes DEF Types
<1>2. CASE ~LastChannel(c)
  <2>1. Goto(c, "test") /\ chan' = [chan EXCEPT ![c] = @ + 1] /\ "test" \in Pcs
    BY <1>2 DEF NextChannel, Pcs
  <2>2. chan[c] + 1 \in 1 .. Channels
    BY <1>2, EntryFields DEF Types, LastChannel
  <2>3. chan' \in [Callers -> 1 .. Channels] /\ \A d \in Callers \ {c} : chan'[d] = chan[d]
    BY <2>1, <2>2 DEF Types
  <2> QED
    BY <1>2, <2>1, <2>3, Goes
<1> QED
  BY <1>1, <1>2

(* The claim of a caller at "poll" or "claim".                               *)
LEMMA Claims ==
  ASSUME Types, NEW c \in Callers, Claimed(c), UseSema => free > 0, UseSema \in BOOLEAN
  PROVE  /\ pc' \in [Callers -> Pcs] /\ pc'[c] = IF chan[c] = 1 THEN "alloc" ELSE "reg"
         /\ \A d \in Callers \ {c} : pc'[d] = pc[d]
         /\ \A d \in Callers : pc'[d] = "claim" => ~UseSema
         /\ free' \in Nat /\ raced' \in BOOLEAN /\ (~raced' => ~raced /\ ~InProgress(c))
<1>1. \E p \in {"alloc", "reg"} : Goto(c, p) /\ p = IF chan[c] = 1 THEN "alloc" ELSE "reg"
  BY DEF Claimed
<1>2. {"alloc", "reg"} \subseteq Pcs /\ "claim" \notin {"alloc", "reg"}
  BY DEF Pcs, Busy
<1>3. free' \in Nat
  BY DEF Claimed, Types
<1>4. raced' = (raced \/ InProgress(c)) /\ raced \in BOOLEAN
  BY DEF Claimed, Types
<1>5. raced' \in BOOLEAN /\ (~raced' => ~raced /\ ~InProgress(c))
  BY <1>4
<1>6. PICK p \in {"alloc", "reg"} : Goto(c, p) /\ p = IF chan[c] = 1 THEN "alloc" ELSE "reg"
  BY <1>1
<1> QED
  BY <1>2, <1>3, <1>5, <1>6, Goes

LEMMA TypesCaller ==
  ASSUME ScanAssumption, Types, NEW c \in Callers, Call(c) \/ Step(c)
  PROVE  Types'
<1>1. UseSema \in BOOLEAN /\ Kinds \subseteq {"plain", "mcc"} /\ {"idle", "test", "poll", "claim", "reg", "request"} \subseteq Pcs
      /\ 1 \in 1 .. Channels
  BY EntryFields DEF ScanAssumption, Pcs, Busy
<1>2. CASE Call(c)
  <2>1. Goto(c, "test") /\ calls' \in 0 .. MaxCalls
    BY <1>2, EntryFields DEF Call, Types
  <2>2. kind' \in [Callers -> {"plain", "mcc"}] /\ chan' \in [Callers -> 1 .. Channels]
    BY <1>1, <1>2 DEF Call, Types
  <2>3. pc' \in [Callers -> Pcs] /\ \A d \in Callers : pc'[d] = "claim" => ~UseSema
    BY <1>1, <2>1, Goes
  <2> QED
    BY <1>2, <2>1, <2>2, <2>3 DEF Call, Types, tableVars
<1>3. CASE Test(c)
  <2>1. PICK p \in {"poll", "claim"} : Goto(c, p) /\ (p = "claim" => ~UseSema)
    BY <1>1, <1>3 DEF Test
  <2>2. pc' \in [Callers -> Pcs] /\ \A d \in Callers : pc'[d] = "claim" => ~UseSema
    BY <1>1, <2>1, Goes
  <2> QED
    BY <1>3, <2>2 DEF Test, Types, tableVars
<1>4. CASE Poll(c)
  <2>1. pc' \in [Callers -> Pcs] /\ free' \in Nat /\ raced' \in BOOLEAN /\ \A d \in Callers : pc'[d] = "claim" => ~UseSema
    <3>1. CASE UseSema
      <4>1. Claimed(c) /\ free > 0
        BY <1>4, <3>1 DEF Poll
      <4> QED
        BY <1>1, <4>1, Claims
    <3>2. CASE ~UseSema
      <4>1. Goto(c, "claim") /\ free' = free /\ raced' = raced
        BY <1>4, <3>2 DEF Poll
      <4> QED
        BY <1>1, <3>2, <4>1, Goes DEF Types
    <3> QED
      BY <3>1, <3>2
  <2> QED
    BY <1>4, <2>1 DEF Poll, Types, tableVars
<1>5. CASE PollTimeout(c)
  <2>1. Goto(c, "idle") /\ free' \in Nat
    BY <1>5 DEF PollTimeout, Types
  <2>2. pc' \in [Callers -> Pcs] /\ \A d \in Callers : pc'[d] = "claim" => ~UseSema
    BY <1>1, <2>1, Goes
  <2> QED
    BY <1>5, <2>1, <2>2 DEF PollTimeout, Types, tableVars
<1>6. CASE Claim(c)
  <2>1. Claimed(c) /\ ~UseSema
    BY <1>6 DEF Claim, Types, At
  <2>2. pc' \in [Callers -> Pcs] /\ free' \in Nat /\ raced' \in BOOLEAN /\ \A d \in Callers : pc'[d] = "claim" => ~UseSema
    BY <1>1, <2>1, Claims
  <2> QED
    BY <1>6, <2>2 DEF Claim, Types, tableVars
<1>7. CASE Allocate(c)
  <2>1. PICK p \in {"idle", "reg"} : Goto(c, p)
    BY <1>7 DEF Allocate
  <2>2. buf' \in {"null", "live", "freed"} /\ user' \in Callers \cup {None} /\ free' \in Nat
    BY <1>7 DEF Allocate, NewTables, Wipe, Types
  <2>3. pc' \in [Callers -> Pcs] /\ \A d \in Callers : pc'[d] = "claim" => ~UseSema
    BY <1>1, <2>1, Goes
  <2> QED
    BY <1>7, <2>2, <2>3 DEF Allocate, Types
<1>8. CASE Register(c)
  <2>1. Goto(c, "request")
    BY <1>8 DEF Register
  <2>2. regs' \subseteq Handlers
    BY <1>8 DEF Register, Types, Handlers
  <2>3. pc' \in [Callers -> Pcs] /\ \A d \in Callers : pc'[d] = "claim" => ~UseSema
    BY <1>1, <2>1, Goes
  <2> QED
    BY <1>8, <2>2, <2>3 DEF Register, Types, tableVars
<1>9. CASE Request(c)
  <2>1. NextChannel(c) /\ drv' \in [on : BOOLEAN, sent : Nat] /\ owed' \subseteq Callers
    BY <1>9 DEF Request, Types
  <2>2. /\ pc' \in [Callers -> Pcs] /\ chan' \in [Callers -> 1 .. Channels]
        /\ \A d \in Callers : pc'[d] = "claim" => ~UseSema
    BY <2>1, NextGoes
  <2> QED
    BY <1>9, <2>1, <2>2 DEF Request, Types, tableVars
<1>10. CASE RequestFails(c)
  <2>1. Goto(c, "idle") /\ regs' \subseteq Handlers
    BY <1>10 DEF RequestFails, Types
  <2>2. buf' \in {"null", "live", "freed"} /\ user' \in Callers \cup {None} /\ free' \in Nat
    BY <1>10 DEF RequestFails, Wipe
  <2>3. wild' \in BOOLEAN
    <3>1. wild' = (wild \/ buf = "freed")
      BY <1>10 DEF RequestFails
    <3> QED
      BY <3>1
  <2>4. pc' \in [Callers -> Pcs] /\ \A d \in Callers : pc'[d] = "claim" => ~UseSema
    BY <1>1, <2>1, Goes
  <2> QED
    BY <1>10, <2>1, <2>2, <2>3, <2>4 DEF RequestFails, Types
<1>11. CASE PartialScanFails(c)
  <2>1. NextChannel(c) /\ regs' \subseteq Handlers
    BY <1>11 DEF PartialScanFails, Types
  <2>2. free' \in Nat
    BY <1>11 DEF PartialScanFails, Release, Types
  <2>3. buf' \in {"null", "live", "freed"} /\ owed' \subseteq Callers
    BY <1>11 DEF PartialScanFails, Deliver, Types
  <2>4. wild' \in BOOLEAN
    <3>1. wild' = (wild \/ buf # "live") \/ wild' = wild
      BY <1>11 DEF PartialScanFails, Deliver
    <3>2. wild \in BOOLEAN
      BY DEF Types
    <3> QED
      BY <3>1, <3>2
  <2>5. /\ pc' \in [Callers -> Pcs] /\ chan' \in [Callers -> 1 .. Channels]
        /\ \A d \in Callers : pc'[d] = "claim" => ~UseSema
    BY <2>1, NextGoes
  <2> QED
    BY <1>11, <2>1, <2>2, <2>3, <2>4, <2>5 DEF PartialScanFails, Types
<1> QED
  BY <1>2, <1>3, <1>4, <1>5, <1>6, <1>7, <1>8, <1>9, <1>10, <1>11 DEF Step

(* What RunOne lets run: a registered handler, and it is not run again.      *)
LEMMA OneRuns ==
  ASSUME NEW hs \in SUBSET {"done", "done_mcc"}, RunOne(hs), None \notin DoneCalls
  PROVE  /\ run' \in {None} \cup DoneCalls
         /\ run' = None <=> hs \cap regs' = {}
         /\ run' # None => /\ run'.h \in hs \cap regs' /\ run'.h \in {"done", "done_mcc"}
                           /\ run'.rest = hs \ {run'.h}
<1>1. CASE hs \cap regs' = {}
  BY <1>1 DEF RunOne
<1>2. CASE hs \cap regs' # {}
  <2>1. PICK h \in hs \cap regs' : run' = [h |-> h, rest |-> hs \ {h}]
    BY <1>2 DEF RunOne
  <2>2. run' \in DoneCalls /\ run'.h = h /\ run'.rest = hs \ {h}
    BY <2>1 DEF DoneCalls
  <2> QED
    BY <1>2, <2>2
<1> QED
  BY <1>1, <1>2

LEMMA TypesDriver ==
  ASSUME ScanAssumption, Types, HandlerStep \/ DriverReport \/ DriverDone
  PROVE  Types'
<1>1. {"done", "done_mcc"} \in SUBSET {"done", "done_mcc"} /\ None \notin DoneCalls
  BY EntryFields
<1>2. CASE EachReportHdl
  <2>1. wild' \in BOOLEAN /\ run' \in {None} \cup ReportCalls \cup DoneCalls
    BY <1>2 DEF EachReportHdl, Types
  <2> QED
    BY <1>2, <2>1 DEF EachReportHdl, Types
<1>3. CASE DoneHdl
  <2>1. run \in DoneCalls /\ run' = [run EXCEPT !.h = "release"]
    BY <1>3, RunFields DEF DoneHdl, Runs
  <2>2. run' \in DoneCalls
    BY <2>1 DEF DoneCalls
  <2>3. wild' \in BOOLEAN
    <3>1. wild' = (wild \/ buf # "live")
      BY <1>3 DEF DoneHdl, Deliver
    <3> QED
      BY <3>1
  <2> QED
    BY <1>3, <2>2, <2>3 DEF DoneHdl, Deliver, Types
<1>4. CASE DoneHdlRelease
  <2>1. run \in DoneCalls /\ run' = [run EXCEPT !.h = "unreg"]
    BY <1>4, RunFields DEF DoneHdlRelease, Runs
  <2>2. run' \in DoneCalls
    BY <2>1 DEF DoneCalls
  <2>3. free' \in Nat
    BY <1>4 DEF DoneHdlRelease, Release, Types
  <2> QED
    BY <1>4, <2>2, <2>3 DEF DoneHdlRelease, Types, tableVars
<1>5. CASE DoneHdlUnregister
  <2>1. run.rest \in SUBSET {"done", "done_mcc"} /\ RunOne(run.rest) /\ regs' \subseteq Handlers
    BY <1>5, RunFields DEF DoneHdlUnregister, Runs, Types
  <2>2. run' \in {None} \cup DoneCalls
    BY <1>1, <2>1, OneRuns
  <2> QED
    BY <1>5, <2>1, <2>2 DEF DoneHdlUnregister, Types, tableVars
<1>6. CASE DoneHdlMcc
  <2>1. run.rest \in SUBSET {"done", "done_mcc"} /\ RunOne(run.rest)
    BY <1>6, RunFields DEF DoneHdlMcc, Runs
  <2>2. run' \in {None} \cup DoneCalls
    BY <1>1, <2>1, OneRuns
  <2>3. free' \in Nat
    BY <1>6 DEF DoneHdlMcc, Release, Types
  <2> QED
    BY <1>6, <2>2, <2>3 DEF DoneHdlMcc, Types, tableVars
<1>7. CASE DriverReport
  <2>1. run' \in {None} \cup ReportCalls \cup DoneCalls
    BY <1>7 DEF DriverReport, ReportCalls, Types
  <2>2. drv' \in [on : BOOLEAN, sent : Nat]
    BY <1>7 DEF DriverReport, Types
  <2> QED
    BY <1>7, <2>1, <2>2 DEF DriverReport, Types, tableVars
<1>8. CASE DriverDone
  <2>1. run' \in {None} \cup DoneCalls
    BY <1>1, <1>8, OneRuns DEF DriverDone
  <2> QED
    BY <1>8, <2>1 DEF DriverDone, Types, tableVars
<1> QED
  BY <1>2, <1>3, <1>4, <1>5, <1>6, <1>7, <1>8 DEF HandlerStep

-----------------------------------------------------------------------------
(* The table through every step.                                             *)

Tables == Table /\ AtBest /\ (buf = "live" => NoneBetter)

LEMMA EmptyTable ==
  ASSUME ScanAssumption
  PROVE  /\ [i \in Slots |-> None] \in [Slots -> Entries \cup {None}]
         /\ [b \in Bssids |-> 0] \in [Bssids -> 0 .. MaxLevel]
         /\ \A a : Ordered(<<>>, a)
         /\ Len(<<>>) = 0 /\ DOMAIN <<>> = {} /\ 0 <= MaxAp
<1>1. MaxLevel \in Nat /\ MaxAp \in Nat
  BY EntryFields
<1>2. <<>> \in Seq(Slots) /\ DOMAIN <<>> = {} /\ Len(<<>>) = 0
  OBVIOUS
<1> QED
  BY <1>1, <1>2 DEF Ordered

LEMMA Emptied ==
  ASSUME ScanAssumption, Table, pap' = <<>>,
         \/ ap' = ap /\ best' = best /\ buf' = "null"
         \/ ap' = [i \in Slots |-> None] /\ best' = [b \in Bssids |-> 0]
  PROVE  Tables'
<1>1. DOMAIN pap' = {} /\ Len(pap') = 0 /\ Len(pap') <= MaxAp /\ Ordered(pap', ap')
  BY EmptyTable
<1>2. ap' \in [Slots -> Entries \cup {None}] /\ best' \in [Bssids -> 0 .. MaxLevel]
  BY EmptyTable DEF Table
<1>3. buf' = "live" => NoneBetter'
  <2>1. buf' = "live" => \A b \in Bssids : best'[b] = 0
    OBVIOUS
  <2> QED
    BY <2>1 DEF NoneBetter
<1> QED
  BY <1>1, <1>2, <1>3 DEF Tables, Table, AtBest

LEMMA TablesNext ==
  ASSUME ScanAssumption, Types, Tables, [Next]_vars
  PROVE  Tables'
<1>1. ASSUME UNCHANGED <<ap, pap, best>>, buf' = "live" => buf = "live" PROVE Tables'
  BY <1>1 DEF Tables, Table, AtBest, NoneBetter
<1>2. ASSUME NEW c \in Callers, Allocate(c) PROVE Tables'
  <2>1. NewTables \/ Wipe
    BY <1>2 DEF Allocate
  <2> QED
    BY <2>1, Emptied DEF Tables, NewTables, Wipe
<1>3. ASSUME NEW c \in Callers, RequestFails(c) PROVE Tables'
  BY <1>3, Emptied DEF Tables, RequestFails, Wipe
<1>4. ASSUME EachReportHdl PROVE Tables'
  <2>1. CASE buf = "live"
    <3>1. PICK e \in Entries : e = run.e
      BY <1>4, RunFields DEF EachReportHdl, Runs
    <3>2. Report(e) /\ Heard(e)
      BY <1>4, <2>1, <3>1 DEF EachReportHdl, Heard
    <3> QED
      BY <2>1, <3>2, Reported DEF Tables
  <2>2. CASE buf # "live"
    BY <1>1, <1>4, <2>2 DEF EachReportHdl
  <2> QED
    BY <2>1, <2>2
<1>5. ASSUME NEW c \in Callers,
             Call(c) \/ Test(c) \/ Poll(c) \/ PollTimeout(c) \/ Claim(c) \/ Register(c) \/ Request(c)
             \/ PartialScanFails(c)
      PROVE  Tables'
  BY <1>1, <1>5 DEF Call, Test, Poll, PollTimeout, Claim, Register, Request, PartialScanFails, Deliver, tableVars
<1>6. ASSUME DoneHdl \/ DoneHdlRelease \/ DoneHdlUnregister \/ DoneHdlMcc \/ DriverReport \/ DriverDone PROVE Tables'
  BY <1>1, <1>6 DEF DoneHdl, Deliver, DoneHdlRelease, DoneHdlUnregister, DoneHdlMcc, DriverReport, DriverDone, tableVars
<1>7. CASE UNCHANGED vars
  BY <1>1, <1>7 DEF vars
<1> QED
  BY <1>2, <1>3, <1>4, <1>5, <1>6, <1>7 DEF Next, Step, HandlerStep

LEMMA TypesInit == ASSUME ScanAssumption, Init PROVE Types /\ Tables
<1>1. 1 \in 1 .. Channels /\ 0 \in 0 .. MaxCalls
  BY EntryFields
<1>2. pc \in [Callers -> Pcs] /\ \A c \in Callers : pc[c] = "idle"
  BY DEF Init, Pcs
<1>3. kind \in [Callers -> {"plain", "mcc"}] /\ chan \in [Callers -> 1 .. Channels]
  BY <1>1 DEF Init
<1>4. Types
  BY <1>1, <1>2, <1>3 DEF Init, Types, Handlers
<1>5. Table /\ AtBest
  BY EmptyTable DEF Init, Table, AtBest
<1> QED
  BY <1>4, <1>5 DEF Init, Tables

LEMMA TypesNext == ASSUME ScanAssumption, Types, [Next]_vars PROVE Types'
<1>1. CASE UNCHANGED vars
  BY <1>1 DEF vars, Types
<1> QED
  BY <1>1, TypesCaller, TypesDriver DEF Next

(* Every variable keeps its type, and the table never holds more access      *)
(* points than there are slots, nor a slot that has not been filled.         *)
THEOREM TypeCorrect == ASSUME ScanAssumption PROVE Spec => []TypeOK
<1>1. Types /\ Tables => TypeOK
  <2> SUFFICES ASSUME Types, Tables PROVE TypeOK
    OBVIOUS
  <2>1. \A i \in DOMAIN pap : pap[i] \in Slots /\ ap[pap[i]] # None
    BY TableFields, EntryFields DEF Tables
  <2> QED
    BY <2>1 DEF Types, Tables, Table, TypeOK
<1>2. Init => Types /\ Tables
  BY TypesInit
<1>3. Types /\ Tables /\ [Next]_vars => Types' /\ Tables'
  BY TypesNext, TablesNext
<1> QED
  BY <1>1, <1>2, <1>3, PTL DEF Spec

(* The table is what the reports say, in whatever order they come: strongest *)
(* first, each access point once and at its best, none better left out.      *)
THEOREM TopNHolds == ASSUME ScanAssumption PROVE Spec => []TopN
<1>1. Types /\ Tables => TopN
  <2> SUFFICES ASSUME Types, Tables, buf = "live"
               PROVE  LET n == Len(pap)
                      IN /\ \A i, j \in 1 .. n : i < j => Signal(i) >= Signal(j) /\ pap[i] # pap[j]
                                                          /\ ap[pap[i]].b # ap[pap[j]].b
                         /\ \A i \in 1 .. n : Signal(i) = best[ap[pap[i]].b]
                         /\ \A b \in Bssids : best[b] > 0 /\ (\A i \in 1 .. n : ap[pap[i]].b # b) =>
                              n = MaxAp /\ best[b] <= Signal(n)
    BY DEF TopN
  <2>1. Table /\ AtBest /\ NoneBetter /\ DOMAIN pap = 1 .. Len(pap) /\ Len(pap) \in Nat /\ MaxAp \in Nat \ {0}
    BY TableFields, EntryFields DEF Tables
  <2>2. \A i, j \in 1 .. Len(pap) : i < j => Signal(i) >= Signal(j) /\ pap[i] # pap[j]
                                              /\ ap[pap[i]].b # ap[pap[j]].b
    BY <2>1 DEF Table, Ordered, Signal
  <2>3. \A i \in 1 .. Len(pap) : Signal(i) = best[ap[pap[i]].b]
    BY <2>1 DEF AtBest, Signal
  <2>4. ASSUME NEW b \in Bssids, best[b] > 0, \A i \in 1 .. Len(pap) : ap[pap[i]].b # b
        PROVE  Len(pap) = MaxAp /\ best[b] <= Signal(Len(pap))
    <3>1. Len(pap) = MaxAp /\ \A i \in DOMAIN pap : best[b] <= ap[pap[i]].s
      BY <2>1, <2>4 DEF NoneBetter
    <3>2. Len(pap) \in DOMAIN pap
      BY <2>1, <3>1
    <3> QED
      BY <3>1, <3>2 DEF Signal
  <2> QED
    BY <2>2, <2>3, <2>4
<1>2. Init => Types /\ Tables
  BY TypesInit
<1>3. Types /\ Tables /\ [Next]_vars => Types' /\ Tables'
  BY TypesNext, TablesNext
<1> QED
  BY <1>1, <1>2, <1>3, PTL DEF Spec

-----------------------------------------------------------------------------
(* The scans in progress, as long as none has been let in beside another.    *)

Mid(c)         == pc[c] # "idle" /\ chan[c] > 1
LastRequest(c) == pc[c] = "request" /\ LastChannel(c)
Dones          == {"done", "done_mcc"}

(* While a caller prepares its scan nobody else scans, prepares a scan, runs *)
(* a handler or goes channel by channel.                                     *)
Alone ==
  \A c \in Callers : pc[c] \in Busy =>
    ~drv.on /\ run = None /\ \A d \in Callers \ {c} : pc[d] \notin Busy /\ ~Mid(d)

(* Who needs the buffers has them.                                           *)
Buffers ==
  /\ \A c \in Callers : pc[c] \in {"reg", "request"} \/ Mid(c) => buf = "live"
  /\ drv.on => buf = "live"
  /\ run # None /\ run.h = "done" => buf = "live"
  /\ run # None /\ run.h = "done_mcc" /\ "done" \in run.rest \cap regs => buf = "live"

(* Which handlers are registered: the final one only for a scan that is to   *)
(* end, that of the channel between two channels, some while the driver      *)
(* scans or is about to.                                                     *)
Handled ==
  /\ ~drv.on /\ run = None /\ "done" \in regs => \E c \in Callers : LastRequest(c)
  /\ \A c \in Callers : Mid(c) /\ ~LastRequest(c) =>
       /\ "done" \notin regs /\ "done_mcc" \in regs
       /\ run # None => run.h \in {"each_report", "done_mcc"}
  /\ \A c \in Callers : pc[c] = "request" => regs \cap Dones # {}
  /\ drv.on => regs \cap Dones # {}

(* What is running in the driver's thread.                                   *)
Running ==
  run # None =>
    /\ run.h = "each_report" <=> drv.on
    /\ run.h = "done_mcc" /\ "done" \in regs => "done" \in run.rest
    /\ run.h \in {"done", "release", "unreg"} => "done" \notin run.rest
    /\ run.h = "unreg" => free > 0

Clears ==
  free = 0 => (\E c \in Callers : pc[c] \in Busy) \/ drv.on \/ (run # None /\ run.h # "each_report")

Orderly == Alone /\ Buffers /\ Handled /\ Running /\ Clears /\ ~wild
Scans   == ~raced => Orderly

(* A caller that is not preparing a scan, before the step and after it.      *)
LEMMA Waits ==
  ASSUME ScanAssumption, Types, Orderly, NEW c \in Callers, pc[c] \notin Busy, pc'[c] \notin Busy,
         \A d \in Callers \ {c} : pc'[d] = pc[d] /\ chan'[d] = chan[d] /\ kind'[d] = kind[d],
         kind'[c] = kind[c] \/ ~Mid(c)', Mid(c)' => Mid(c),
         UNCHANGED <<buf, regs, run, drv, wild>>, free' \in Nat, free' = free \/ free' > 0
  PROVE  Orderly'
<1>1. "request" \in Busy /\ "reg" \in Busy
  BY DEF Busy
<1>2. /\ \A d \in Callers : pc'[d] \in Busy <=> pc[d] \in Busy
      /\ \A d \in Callers : pc'[d] = "request" <=> pc[d] = "request"
      /\ \A d \in Callers : pc'[d] = "reg" <=> pc[d] = "reg"
  BY <1>1
<1>3. \A d \in Callers : Mid(d)' => Mid(d)
  BY DEF Mid
<1>4. \A d \in Callers : LastRequest(d)' <=> LastRequest(d)
  BY <1>1 DEF LastRequest, LastChannel
<1>5. Alone'
  BY <1>2, <1>3 DEF Orderly, Alone
<1>6. Buffers'
  BY <1>2, <1>3 DEF Orderly, Buffers
<1>7. Handled'
  BY <1>2, <1>3, <1>4 DEF Orderly, Handled
<1>8. Running' /\ Clears' /\ ~wild'
  BY <1>2 DEF Orderly, Running, Clears, Types
<1> QED
  BY <1>5, <1>6, <1>7, <1>8 DEF Orderly

LEMMA ScansWaiting ==
  ASSUME ScanAssumption, Types, Scans, NEW c \in Callers,
         Call(c) \/ Test(c) \/ PollTimeout(c) \/ (Poll(c) /\ ~UseSema), ~raced'
  PROVE  Orderly'
<1>1. raced' = raced
  BY DEF Call, Test, PollTimeout, Poll
<1>2. Orderly
  BY <1>1 DEF Scans
<1>3. pc[c] \in {"idle", "test", "poll"} /\ pc[c] \notin Busy
  BY DEF Call, Test, PollTimeout, Poll, At, Busy
<1>4. \E p \in {"idle", "test", "poll", "claim"} : Goto(c, p)
  BY DEF Call, Test, PollTimeout, Poll
<1>5. pc'[c] \notin Busy /\ \A d \in Callers \ {c} : pc'[d] = pc[d]
  BY <1>4 DEF Goto, Types, Busy
<1>6. UNCHANGED <<buf, regs, run, drv, wild>>
  BY DEF Call, Test, PollTimeout, Poll, tableVars
<1>7. free' \in Nat /\ (free' = free \/ free' > 0)
  BY DEF Call, Test, PollTimeout, Poll, Types
<1>8. \A d \in Callers \ {c} : chan'[d] = chan[d] /\ kind'[d] = kind[d]
  BY DEF Call, Test, PollTimeout, Poll, Types
<1>9. (kind'[c] = kind[c] \/ ~Mid(c)') /\ (Mid(c)' => Mid(c))
  <2>1. CASE Call(c)
    <3>1. chan'[c] = 1
      BY <2>1 DEF Call, Types
    <3> QED
      BY <3>1 DEF Mid
  <2>2. CASE ~Call(c)
    <3>1. kind' = kind /\ chan' = chan /\ pc[c] # "idle"
      BY <2>2 DEF Test, PollTimeout, Poll, At
    <3> QED
      BY <3>1 DEF Mid
  <2> QED
    BY <2>1, <2>2
<1> QED
  BY <1>2, <1>3, <1>5, <1>6, <1>7, <1>8, <1>9, Waits

(* The claim: the next scan is let in when none is in progress.              *)
LEMMA ScansClaim ==
  ASSUME ScanAssumption, Types, Scans, NEW c \in Callers, Claim(c) \/ (Poll(c) /\ UseSema), ~raced'
  PROVE  Orderly'
<1>1. Claimed(c) /\ (UseSema => free > 0) /\ UNCHANGED <<buf, regs, run, drv, wild, kind, chan>>
  BY DEF Claim, Poll, tableVars, Types, At
<1>2. pc[c] \in {"poll", "claim"}
  BY DEF Claim, Poll, At
<1>3. UseSema \in BOOLEAN
  BY DEF ScanAssumption
<1>4. /\ pc'[c] = IF chan[c] = 1 THEN "alloc" ELSE "reg"
      /\ \A d \in Callers \ {c} : pc'[d] = pc[d]
      /\ ~raced /\ ~InProgress(c)
  BY <1>1, <1>3, Claims
<1>5. Orderly
  BY <1>4 DEF Scans
<1>6. ~drv.on /\ run = None /\ \A d \in Callers \ {c} : pc[d] \notin Busy /\ ~Mid(d)
  BY <1>4 DEF InProgress, Mid
<1>7. chan[c] \in Nat \ {0}
  BY EntryFields DEF Types
<1>8. pc'[c] \in Busy /\ pc'[c] # "request" /\ "request" \in Busy /\ "reg" \in Busy
  BY <1>4 DEF Busy
<1>9. \A d \in Callers \ {c} : pc'[d] \notin Busy /\ ~Mid(d)'
  BY <1>1, <1>4, <1>6 DEF Mid
<1>10. Mid(c)' => Mid(c) /\ ~LastRequest(c)
  BY <1>1, <1>2 DEF Mid, LastRequest
<1>11. pc'[c] = "reg" => Mid(c)
  BY <1>2, <1>4, <1>7 DEF Mid
<1>12. Alone'
  BY <1>1, <1>6, <1>9 DEF Alone
<1>13. Buffers'
  BY <1>1, <1>5, <1>6, <1>8, <1>9, <1>10, <1>11 DEF Orderly, Buffers
<1>14. Handled'
  <2>1. "done" \notin regs
    <3>1. \A d \in Callers : ~LastRequest(d)
      BY <1>2, <1>6, <1>8 DEF LastRequest
    <3> QED
      BY <1>5, <1>6, <3>1 DEF Orderly, Handled
  <2>2. \A d \in Callers : Mid(d)' => "done_mcc" \in regs
    BY <1>5, <1>9, <1>10 DEF Orderly, Handled
  <2>3. \A d \in Callers : pc'[d] # "request"
    BY <1>8, <1>9
  <2> QED
    BY <1>1, <1>6, <2>1, <2>2, <2>3 DEF Handled
<1>15. Running' /\ Clears' /\ ~wild'
  BY <1>1, <1>5, <1>6, <1>8 DEF Orderly, Running, Clears
<1> QED
  BY <1>12, <1>13, <1>14, <1>15 DEF Orderly

(* What the step of the one caller that prepares a scan leaves behind.       *)
LEMMA Prepares ==
  ASSUME ScanAssumption, Types, Orderly, NEW c \in Callers, pc[c] \in Busy,
         \A d \in Callers \ {c} : pc'[d] = pc[d] /\ chan'[d] = chan[d], run' = run
  PROVE  /\ ~drv.on /\ run = None /\ run' = None
         /\ \A d \in Callers \ {c} : pc'[d] \notin Busy /\ ~Mid(d)' /\ pc'[d] # "request" /\ pc'[d] # "reg"
         /\ Running' /\ (~drv'.on => Alone')
         /\ "done" \in regs => LastRequest(c)
<1>1. {"request", "reg"} \subseteq Busy
  BY DEF Busy
<1>2. ~drv.on /\ run = None /\ \A d \in Callers \ {c} : pc[d] \notin Busy /\ ~Mid(d)
  BY DEF Orderly, Alone
<1>3. \A d \in Callers \ {c} : pc'[d] \notin Busy /\ ~Mid(d)' /\ pc'[d] # "request" /\ pc'[d] # "reg"
  BY <1>1, <1>2 DEF Mid
<1>4. "done" \in regs => LastRequest(c)
  BY <1>1, <1>2 DEF Orderly, Handled, LastRequest
<1> QED
  BY <1>2, <1>3, <1>4 DEF Running, Alone

LEMMA ScansAllocate ==
  ASSUME ScanAssumption, Types, Scans, NEW c \in Callers, Allocate(c), ~raced'
  PROVE  Orderly'
<1>1. raced' = raced /\ UNCHANGED <<kind, chan, regs, run, drv, wild>> /\ pc[c] = "alloc"
  BY DEF Allocate, At
<1>2. Orderly
  BY <1>1 DEF Scans
<1>3. PICK p \in {"idle", "reg"} : Goto(c, p) /\ (p = "reg" => buf' = "live" /\ free' = free) /\ (p = "idle" => free' = 1)
  BY DEF Allocate, NewTables, Wipe
<1>4. pc'[c] = p /\ \A d \in Callers \ {c} : pc'[d] = pc[d]
  BY <1>3 DEF Goto, Types
<1>5. /\ ~drv.on /\ run = None /\ run' = None
      /\ \A d \in Callers \ {c} : pc'[d] \notin Busy /\ ~Mid(d)' /\ pc'[d] # "request" /\ pc'[d] # "reg"
      /\ Running' /\ Alone' /\ "done" \notin regs
  <2>1. pc[c] \in Busy /\ ~LastRequest(c) /\ ~drv'.on = ~drv.on
    BY <1>1 DEF Busy, LastRequest
  <2> QED
    BY <1>1, <1>2, <1>4, <2>1, Prepares
<1>6. Mid(c)' => p = "reg" /\ Mid(c) /\ ~LastRequest(c)
  BY <1>1, <1>4 DEF Mid, LastRequest
<1>7. Buffers'
  BY <1>1, <1>3, <1>4, <1>5, <1>6 DEF Buffers
<1>8. Handled'
  BY <1>1, <1>2, <1>4, <1>5, <1>6 DEF Orderly, Handled
<1>9. Clears' /\ ~wild'
  <2>1. "reg" \in Busy
    BY DEF Busy
  <2> QED
    BY <1>1, <1>2, <1>3, <1>4, <2>1 DEF Orderly, Clears
<1> QED
  BY <1>5, <1>7, <1>8, <1>9 DEF Orderly

LEMMA ScansRegister ==
  ASSUME ScanAssumption, Types, Scans, NEW c \in Callers, Register(c), ~raced'
  PROVE  Orderly'
<1>1. raced' = raced /\ UNCHANGED <<kind, chan, buf, free, run, drv, wild>> /\ pc[c] = "reg" /\ Goto(c, "request")
  BY DEF Register, At, tableVars
<1>2. Orderly
  BY <1>1 DEF Scans
<1>4. pc'[c] = "request" /\ \A d \in Callers \ {c} : pc'[d] = pc[d]
  BY <1>1 DEF Goto, Types
<1>5. /\ ~drv.on /\ run = None /\ run' = None
      /\ \A d \in Callers \ {c} : pc'[d] \notin Busy /\ ~Mid(d)' /\ pc'[d] # "request" /\ pc'[d] # "reg"
      /\ Running' /\ Alone' /\ "done" \notin regs
  <2>1. pc[c] \in Busy /\ ~LastRequest(c) /\ ~drv'.on = ~drv.on
    BY <1>1 DEF Busy, LastRequest
  <2> QED
    BY <1>1, <1>2, <1>4, <2>1, Prepares
<1>6. Mid(c)' => Mid(c) /\ ~LastRequest(c)
  BY <1>1 DEF Mid, LastRequest
<1>7. LastRequest(c)' <=> LastChannel(c)
  BY <1>1, <1>4 DEF LastRequest, LastChannel
<1>8. Buffers'
  <2>1. buf = "live"
    BY <1>1, <1>2 DEF Orderly, Buffers
  <2> QED
    BY <1>1, <2>1 DEF Buffers
<1>9. LastChannel(c) => "done" \in regs'
  BY DEF Register, LastChannel
<1>10. ~LastChannel(c) => "done" \notin regs' /\ "done_mcc" \in regs'
  <2> SUFFICES ASSUME ~LastChannel(c) PROVE "done" \notin regs' /\ "done_mcc" \in regs'
    OBVIOUS
  <2>1. kind[c] # "plain"
    BY DEF LastChannel
  <2>2. regs' = IF chan[c] = 1 THEN regs \cup {"each_report", "done_mcc"} ELSE regs
    BY <2>1 DEF Register
  <2>3. chan[c] # 1 => "done_mcc" \in regs
    <3>1. chan[c] \in Nat \ {0}
      BY EntryFields DEF Types
    <3>2. chan[c] # 1 => Mid(c) /\ ~LastRequest(c)
      BY <1>1, <3>1 DEF Mid, LastRequest
    <3> QED
      BY <1>2, <3>2 DEF Orderly, Handled
  <2> QED
    BY <1>5, <2>2, <2>3
<1>11. Handled'
  BY <1>1, <1>4, <1>5, <1>7, <1>9, <1>10 DEF Handled, Dones
<1>12. Clears' /\ ~wild'
  <2>1. "request" \in Busy
    BY DEF Busy
  <2> QED
    BY <1>1, <1>2, <1>4, <2>1 DEF Orderly, Clears
<1> QED
  BY <1>5, <1>8, <1>11, <1>12 DEF Orderly

(* A caller at "request", before and after it.                               *)
LEMMA Requests ==
  ASSUME ScanAssumption, Types, Orderly, NEW c \in Callers, pc[c] = "request",
         \A d \in Callers \ {c} : pc'[d] = pc[d] /\ chan'[d] = chan[d], run' = run
  PROVE  /\ ~drv.on /\ run = None /\ run' = None
         /\ \A d \in Callers \ {c} : pc'[d] \notin Busy /\ ~Mid(d)' /\ pc'[d] # "request" /\ pc'[d] # "reg"
         /\ Running' /\ (~drv'.on => Alone')
         /\ buf = "live" /\ regs \cap Dones # {}
         /\ ~LastChannel(c) => "done" \notin regs /\ "done_mcc" \in regs
<1>1. pc[c] \in Busy
  BY DEF Busy
<1>2. /\ ~drv.on /\ run = None /\ run' = None
      /\ \A d \in Callers \ {c} : pc'[d] \notin Busy /\ ~Mid(d)' /\ pc'[d] # "request" /\ pc'[d] # "reg"
      /\ Running' /\ (~drv'.on => Alone') /\ ("done" \in regs => LastRequest(c))
  BY <1>1, Prepares
<1>3. buf = "live" /\ regs \cap Dones # {}
  BY DEF Orderly, Buffers, Handled
<1> QED
  BY <1>2, <1>3 DEF LastRequest, Dones

LEMMA ScansRequest ==
  ASSUME ScanAssumption, Types, Scans, NEW c \in Callers, Request(c), ~raced'
  PROVE  Orderly'
<1>1. /\ raced' = raced /\ UNCHANGED <<kind, buf, regs, free, run, wild>> /\ pc[c] = "request"
      /\ drv'.on /\ NextChannel(c)
  BY DEF Request, At, tableVars
<1>2. Orderly
  BY <1>1 DEF Scans
<1>3. /\ pc'[c] = IF LastChannel(c) THEN "idle" ELSE "test"
      /\ \A d \in Callers \ {c} : pc'[d] = pc[d] /\ chan'[d] = chan[d]
  BY <1>1, NextGoes
<1>4. pc'[c] \notin Busy /\ pc'[c] # "request" /\ pc'[c] # "reg"
  BY <1>3 DEF Busy
<1>5. /\ run' = None /\ Running' /\ buf = "live" /\ regs \cap Dones # {}
      /\ \A d \in Callers \ {c} : pc'[d] \notin Busy /\ ~Mid(d)' /\ pc'[d] # "request" /\ pc'[d] # "reg"
      /\ ~LastChannel(c) => "done" \notin regs /\ "done_mcc" \in regs
  BY <1>1, <1>2, <1>3, Requests
<1>6. Mid(c)' => ~LastChannel(c)
  BY <1>3 DEF Mid
<1>7. Alone' /\ Buffers'
  BY <1>1, <1>4, <1>5 DEF Alone, Buffers
<1>8. Handled'
  BY <1>1, <1>4, <1>5, <1>6 DEF Handled
<1>9. Clears' /\ ~wild'
  BY <1>1, <1>2 DEF Orderly, Clears
<1> QED
  BY <1>5, <1>7, <1>8, <1>9 DEF Orderly

LEMMA ScansRequestFails ==
  ASSUME ScanAssumption, Types, Scans, NEW c \in Callers, RequestFails(c), ~raced'
  PROVE  Orderly'
<1>1. /\ raced' = raced /\ UNCHANGED <<kind, chan, run, drv>> /\ pc[c] = "request"
      /\ wild' = (wild \/ buf = "freed") /\ free' = 1 /\ Goto(c, "idle")
      /\ "done" \notin regs'
  BY DEF RequestFails, At, Wipe, Handlers
<1>2. Orderly
  BY <1>1 DEF Scans
<1>3. pc'[c] = "idle" /\ \A d \in Callers \ {c} : pc'[d] = pc[d] /\ chan'[d] = chan[d]
  BY <1>1 DEF Goto, Types
<1>4. /\ ~drv.on /\ run' = None /\ Running' /\ buf = "live" /\ (~drv'.on => Alone')
      /\ \A d \in Callers \ {c} : pc'[d] \notin Busy /\ ~Mid(d)' /\ pc'[d] # "request" /\ pc'[d] # "reg"
  BY <1>1, <1>2, <1>3, Requests
<1>5. ~Mid(c)'
  BY <1>3 DEF Mid
<1>6. drv' = drv /\ ~drv'.on /\ Alone'
  BY <1>1, <1>4
<1>7. Buffers' /\ Handled' /\ Clears'
  BY <1>1, <1>3, <1>4, <1>5, <1>6 DEF Buffers, Handled, Clears
<1>8. ~wild'
  BY <1>1, <1>2, <1>4 DEF Orderly
<1> QED
  BY <1>4, <1>6, <1>7, <1>8 DEF Orderly

LEMMA ScansPartial ==
  ASSUME ScanAssumption, Types, Scans, NEW c \in Callers, PartialScanFails(c), ~raced'
  PROVE  Orderly'
<1>1. raced' = raced /\ UNCHANGED <<kind, run, drv>> /\ pc[c] = "request" /\ NextChannel(c)
  BY DEF PartialScanFails, At
<1>2. Orderly
  BY <1>1 DEF Scans
<1>3. /\ pc'[c] = IF LastChannel(c) THEN "idle" ELSE "test"
      /\ \A d \in Callers \ {c} : pc'[d] = pc[d] /\ chan'[d] = chan[d]
  BY <1>1, NextGoes
<1>4. pc'[c] \notin Busy /\ pc'[c] # "request" /\ pc'[c] # "reg"
  BY <1>3 DEF Busy
<1>5. /\ ~drv.on /\ run' = None /\ Running' /\ buf = "live" /\ (~drv'.on => Alone')
      /\ \A d \in Callers \ {c} : pc'[d] \notin Busy /\ ~Mid(d)' /\ pc'[d] # "request" /\ pc'[d] # "reg"
      /\ ~LastChannel(c) => "done" \notin regs /\ "done_mcc" \in regs
  BY <1>1, <1>2, <1>3, Requests
<1>6. drv' = drv /\ ~drv'.on /\ Alone'
  BY <1>1, <1>5
<1>7. Mid(c)' => ~LastChannel(c)
  BY <1>3 DEF Mid
<1>8. free' > 0 /\ free' \in Nat
  BY DEF PartialScanFails, Release, Types
<1>9. ~wild'
  <2>1. wild' = (wild \/ buf # "live") \/ wild' = wild
    BY DEF PartialScanFails, Deliver
  <2>2. ~wild
    BY <1>2 DEF Orderly
  <2> QED
    BY <1>5, <2>1, <2>2
<1>10. CASE LastChannel(c)
  <2>1. "done" \notin regs'
    BY <1>10 DEF PartialScanFails
  <2>2. Buffers' /\ Handled' /\ Clears'
    BY <1>4, <1>5, <1>6, <1>7, <1>8, <1>10, <2>1 DEF Buffers, Handled, Clears
  <2> QED
    BY <1>5, <1>6, <1>9, <2>2 DEF Orderly
<1>11. CASE ~LastChannel(c)
  <2>1. buf' = buf /\ regs' = regs
    BY <1>11 DEF PartialScanFails
  <2>2. Buffers' /\ Handled' /\ Clears'
    BY <1>4, <1>5, <1>6, <1>7, <1>8, <1>11, <2>1 DEF Buffers, Handled, Clears
  <2> QED
    BY <1>5, <1>6, <1>9, <2>2 DEF Orderly
<1> QED
  BY <1>10, <1>11

(* While the driver scans or a handler runs, nobody prepares a scan; and it  *)
(* is nobody's that goes channel by channel, unless it ends a channel.       *)
LEMMA NobodyBusy ==
  ASSUME ScanAssumption, Types, Orderly, drv.on \/ run # None
  PROVE  /\ \A c \in Callers : pc[c] \notin Busy /\ ~LastRequest(c) /\ pc[c] # "request" /\ pc[c] # "reg"
         /\ \A c \in Callers : Mid(c) => "done" \notin regs /\ "done_mcc" \in regs
         /\ run # None /\ run.h \notin {"each_report", "done_mcc"} => \A c \in Callers : ~Mid(c)
<1>1. \A c \in Callers : pc[c] \notin Busy
  BY DEF Orderly, Alone
<1>2. \A c \in Callers : ~LastRequest(c) /\ pc[c] # "request" /\ pc[c] # "reg"
  BY <1>1 DEF LastRequest, Busy
<1> QED
  BY <1>1, <1>2 DEF Orderly, Handled

(* A step of the driver's thread: the callers stay where they are.           *)
LEMMA Stays ==
  ASSUME UNCHANGED <<pc, kind, chan>>
  PROVE  \A c \in Callers : /\ Mid(c)' <=> Mid(c)
                            /\ LastRequest(c)' <=> LastRequest(c)
BY DEF Mid, LastRequest, LastChannel

LEMMA ScansReport ==
  ASSUME ScanAssumption, Types, Scans, DriverReport \/ EachReportHdl, ~raced'
  PROVE  Orderly'
<1>1. raced' = raced /\ UNCHANGED <<pc, kind, chan, buf, regs, free>>
  BY DEF DriverReport, EachReportHdl, tableVars
<1>2. Orderly
  BY <1>1 DEF Scans
<1>3. drv.on /\ drv'.on
  BY <1>2 DEF DriverReport, EachReportHdl, Runs, Orderly, Running, Types
<1>4. run' # None => run'.h = "each_report"
  <2>1. CASE DriverReport
    BY <2>1 DEF DriverReport
  <2>2. CASE EachReportHdl
    BY <2>2 DEF EachReportHdl
  <2> QED
    BY <2>1, <2>2
<1>5. ~wild'
  BY <1>2, <1>3 DEF DriverReport, EachReportHdl, Orderly, Buffers
<1>6. \A c \in Callers : pc[c] \notin Busy
  BY <1>2, <1>3, NobodyBusy
<1>7. Alone'
  BY <1>1, <1>6 DEF Alone
<1>8. Buffers'
  BY <1>1, <1>2, <1>3, <1>4, Stays DEF Orderly, Buffers
<1>9. Handled'
  BY <1>1, <1>2, <1>3, <1>4, Stays DEF Orderly, Handled
<1>10. Running' /\ Clears'
  BY <1>3, <1>4 DEF Running, Clears
<1> QED
  BY <1>5, <1>7, <1>8, <1>9, <1>10 DEF Orderly

LEMMA ScansDriverDone ==
  ASSUME ScanAssumption, Types, Scans, DriverDone, ~raced'
  PROVE  Orderly'
<1>1. /\ raced' = raced /\ UNCHANGED <<pc, kind, chan, buf, regs, free, wild>> /\ drv.on /\ ~drv'.on
      /\ RunOne(Dones)
  BY DEF DriverDone, tableVars, Dones
<1>2. Orderly
  BY <1>1 DEF Scans
<1>3. buf = "live" /\ regs \cap Dones # {}
  BY <1>1, <1>2 DEF Orderly, Buffers, Handled
<1>4. run' # None /\ run'.h \in Dones \cap regs /\ run'.h \in {"done", "done_mcc"} /\ run'.rest = Dones \ {run'.h}
  BY <1>1, <1>3, OneRuns, EntryFields DEF Dones
<1>5. /\ \A c \in Callers : pc[c] \notin Busy /\ pc[c] # "request" /\ pc[c] # "reg"
      /\ \A c \in Callers : Mid(c) => "done" \notin regs /\ "done_mcc" \in regs
  BY <1>1, <1>2, NobodyBusy
<1>6. Alone' /\ Buffers'
  BY <1>1, <1>3, <1>5 DEF Alone, Buffers
<1>7. Handled'
  BY <1>1, <1>4, <1>5, Stays DEF Handled
<1>8. Running' /\ Clears' /\ ~wild'
  BY <1>1, <1>2, <1>4 DEF Orderly, Running, Clears, Dones
<1> QED
  BY <1>6, <1>7, <1>8 DEF Orderly

LEMMA ScansDoneHdl ==
  ASSUME ScanAssumption, Types, Scans, DoneHdl \/ DoneHdlRelease, ~raced'
  PROVE  Orderly'
<1>1. /\ raced' = raced /\ UNCHANGED <<pc, kind, chan, regs, drv>>
      /\ run # None /\ run.h \in {"done", "release"}
  BY DEF DoneHdl, DoneHdlRelease, Runs, tableVars
<1>2. Orderly
  BY <1>1 DEF Scans
<1>3. run \in DoneCalls /\ "done" \notin run.rest /\ ~drv.on
  BY <1>1, <1>2, RunFields DEF Orderly, Running, Types
<1>4. /\ run' # None /\ run'.h \in {"release", "unreg"} /\ run'.rest = run.rest
      /\ run'.h = "unreg" => free' > 0
  <2>1. run' = [run EXCEPT !.h = "release"] \/ (run' = [run EXCEPT !.h = "unreg"] /\ free' > 0)
    BY DEF DoneHdl, DoneHdlRelease, Release, Types
  <2>2. run' \in DoneCalls /\ run'.rest = run.rest /\ (run'.h = "release" \/ (run'.h = "unreg" /\ free' > 0))
    BY <1>3, <2>1 DEF DoneCalls
  <2> QED
    BY <2>2, EntryFields
<1>5. /\ \A c \in Callers : pc[c] \notin Busy /\ ~LastRequest(c) /\ pc[c] # "request" /\ pc[c] # "reg"
      /\ \A c \in Callers : ~Mid(c)
  BY <1>1, <1>2, NobodyBusy
<1>6. ~wild'
  <2>1. CASE DoneHdl
    <3>1. buf = "live" /\ ~wild
      BY <1>2, <2>1 DEF DoneHdl, Runs, Orderly, Buffers
    <3>2. wild' = (wild \/ buf # "live")
      BY <2>1 DEF DoneHdl, Deliver
    <3> QED
      BY <3>1, <3>2
  <2>2. CASE DoneHdlRelease
    BY <1>2, <2>2 DEF DoneHdlRelease, Orderly
  <2> QED
    BY <2>1, <2>2
<1>7. Alone' /\ Buffers'
  BY <1>1, <1>3, <1>4, <1>5, Stays DEF Alone, Buffers
<1>8. Handled'
  BY <1>1, <1>3, <1>4, <1>5, Stays DEF Handled
<1>9. Running' /\ Clears'
  BY <1>1, <1>3, <1>4 DEF Running, Clears
<1> QED
  BY <1>6, <1>7, <1>8, <1>9 DEF Orderly

LEMMA ScansUnregister ==
  ASSUME ScanAssumption, Types, Scans, DoneHdlUnregister, ~raced'
  PROVE  Orderly'
<1>1. /\ raced' = raced /\ UNCHANGED <<pc, kind, chan, buf, free, drv, wild>>
      /\ run # None /\ run.h = "unreg" /\ "done" \notin regs' /\ RunOne(run.rest)
  BY DEF DoneHdlUnregister, Runs, tableVars
<1>2. Orderly
  BY <1>1 DEF Scans
<1>3. run.rest \in SUBSET {"done", "done_mcc"} /\ "done" \notin run.rest /\ ~drv.on /\ free > 0 /\ free \in Nat
  BY <1>1, <1>2, RunFields DEF Orderly, Running, Types
<1>4. run' # None => run'.h = "done_mcc"
  BY <1>1, <1>3, OneRuns, EntryFields
<1>5. /\ \A c \in Callers : pc[c] \notin Busy /\ ~LastRequest(c) /\ pc[c] # "request" /\ pc[c] # "reg"
      /\ \A c \in Callers : ~Mid(c)
  BY <1>1, <1>2, NobodyBusy
<1>6. Alone' /\ Buffers'
  BY <1>1, <1>3, <1>4, <1>5, Stays DEF Alone, Buffers
<1>7. Handled'
  BY <1>1, <1>3, <1>5, Stays DEF Handled
<1>8. Running' /\ Clears' /\ ~wild'
  BY <1>1, <1>2, <1>3, <1>4 DEF Orderly, Running, Clears
<1> QED
  BY <1>6, <1>7, <1>8 DEF Orderly

LEMMA ScansDoneMcc ==
  ASSUME ScanAssumption, Types, Scans, DoneHdlMcc, ~raced'
  PROVE  Orderly'
<1>1. /\ raced' = raced /\ UNCHANGED <<pc, kind, chan, buf, regs, drv, wild>>
      /\ run # None /\ run.h = "done_mcc" /\ RunOne(run.rest) /\ free' > 0 /\ free' \in Nat
  BY DEF DoneHdlMcc, Runs, Release, tableVars, Types
<1>2. Orderly
  BY <1>1 DEF Scans
<1>3. /\ run.rest \in SUBSET {"done", "done_mcc"} /\ ~drv.on
      /\ "done" \in regs => "done" \in run.rest /\ buf = "live"
  BY <1>1, <1>2, RunFields DEF Orderly, Running, Buffers, Types
<1>4. /\ run' = None <=> run.rest \cap regs = {}
      /\ run' # None => /\ run'.h \in run.rest \cap regs /\ run'.h \in {"done", "done_mcc"}
                        /\ run'.rest = run.rest \ {run'.h}
  <2>1. regs' = regs
    BY <1>1
  <2> QED
    BY <1>1, <1>3, <2>1, OneRuns, EntryFields
<1>5. /\ \A c \in Callers : pc[c] \notin Busy /\ ~LastRequest(c) /\ pc[c] # "request" /\ pc[c] # "reg"
      /\ \A c \in Callers : Mid(c) => "done" \notin regs /\ "done_mcc" \in regs
  BY <1>1, <1>2, NobodyBusy
<1>6. Alone'
  BY <1>1, <1>5 DEF Alone
<1>7. Buffers'
  <2>1. \A c \in Callers : ~(pc[c] \in {"reg", "request"}) /\ (Mid(c) => buf = "live")
    BY <1>2, <1>5 DEF Orderly, Buffers
  <2> QED
    BY <1>1, <1>3, <1>4, <2>1, Stays DEF Buffers
<1>8. Handled'
  <2>1. run' = None => "done" \notin regs
    BY <1>3, <1>4
  <2>2. \A c \in Callers : Mid(c)' => "done" \notin regs' /\ "done_mcc" \in regs' /\ (run' # None => run'.h = "done_mcc")
    BY <1>1, <1>4, <1>5, Stays
  <2> QED
    BY <1>1, <1>3, <1>5, <2>1, <2>2 DEF Handled
<1>9. Running' /\ Clears' /\ ~wild'
  BY <1>1, <1>2, <1>3, <1>4 DEF Orderly, Running, Clears
<1> QED
  BY <1>6, <1>7, <1>8, <1>9 DEF Orderly

LEMMA ScansNext ==
  ASSUME ScanAssumption, Types, Scans, [Next]_vars
  PROVE  Scans'
<1> SUFFICES ASSUME ~raced' PROVE Orderly'
  BY DEF Scans
<1>1. ASSUME NEW c \in Callers, Call(c) \/ Step(c) PROVE Orderly'
  <2>1. UseSema \in BOOLEAN
    BY DEF ScanAssumption
  <2> QED
    BY <1>1, <2>1, ScansWaiting, ScansClaim, ScansAllocate, ScansRegister, ScansRequest, ScansRequestFails,
       ScansPartial DEF Step
<1>2. ASSUME HandlerStep \/ DriverReport \/ DriverDone PROVE Orderly'
  BY <1>2, ScansReport, ScansDriverDone, ScansDoneHdl, ScansUnregister, ScansDoneMcc DEF HandlerStep
<1>3. CASE UNCHANGED vars
  <2>1. Orderly /\ UNCHANGED <<pc, kind, chan>>
    BY <1>3 DEF Scans, vars
  <2>2. Alone' /\ Buffers' /\ Handled'
    BY <1>3, <2>1, Stays DEF vars, Orderly, Alone, Buffers, Handled
  <2> QED
    BY <1>3, <2>1, <2>2 DEF vars, Orderly, Running, Clears
<1> QED
  BY <1>1, <1>2, <1>3 DEF Next

LEMMA ScansInit == ASSUME ScanAssumption, Init PROVE Scans
<1>1. \A c \in Callers : pc[c] = "idle"
  BY DEF Init
<1>2. \A c \in Callers : pc[c] \notin Busy /\ ~Mid(c) /\ pc[c] \notin {"reg", "request"}
  BY <1>1 DEF Busy, Mid
<1>3. ~drv.on /\ run = None /\ regs = {} /\ free = 1 /\ ~wild
  BY DEF Init
<1> QED
  BY <1>2, <1>3 DEF Scans, Orderly, Alone, Buffers, Handled, Running, Clears

(* The result buffers are used and freed only while they are allocated, in   *)
(* every run that lets no scan in beside another one: whatever fails, times  *)
(* out or is given up on the way.                                            *)
THEOREM BuffersSafeHolds == ASSUME ScanAssumption PROVE Spec => []BuffersSafe
<1>1. Types /\ Scans => BuffersSafe
  BY DEF Scans, Orderly, BuffersSafe
<1>2. Init => Types /\ Scans
  BY TypesInit, ScansInit
<1>3. Types /\ Scans /\ [Next]_vars => Types' /\ Scans'
  BY TypesNext, ScansNext
<1> QED
  BY <1>1, <1>2, <1>3, PTL DEF Spec

(* While scan_running turns scans away, someone is there who will clear it.  *)
THEOREM RunningOwnedHolds == ASSUME ScanAssumption PROVE Spec => []RunningOwned
<1>1. Types /\ Scans => RunningOwned
  BY DEF Scans, Orderly, Clears, Handled, Dones, RunningOwned
<1>2. Init => Types /\ Scans
  BY TypesInit, ScansInit
<1>3. Types /\ Scans /\ [Next]_vars => Types' /\ Scans'
  BY TypesNext, ScansNext
<1> QED
  BY <1>1, <1>2, <1>3, PTL DEF Spec
=============================================================================
