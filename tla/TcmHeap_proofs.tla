--------------------------- MODULE TcmHeap_proofs ---------------------------
(* Proofs about TcmHeap: the list of free chunks, for a heap of any size,    *)
(* any size of a chunk and of the header, and any sizes asked for.           *)
EXTENDS TcmHeap, SequenceFacts, TLAPS

LEMMA ChunkFields ==
  ASSUME HeapAssumption, NEW f \in Seq(Chunks), NEW i \in DOMAIN f
  PROVE  /\ f[i] \in Chunks /\ f[i].at \in Nat \ {0} /\ f[i].len \in Nat \ {0}
         /\ End(f[i]) = f[i].at + f[i].len /\ End(f[i]) \in Nat
         /\ i \in 1 .. Len(f) /\ Len(f) \in Nat /\ DOMAIN f = 1 .. Len(f)
<1>1. f[i] \in Chunks /\ i \in 1 .. Len(f) /\ Len(f) \in Nat /\ DOMAIN f = 1 .. Len(f)
  OBVIOUS
<1>2. \A c \in Chunks : c.at \in Nat \ {0} /\ c.len \in Nat \ {0}
  BY DEF Chunks, HeapAssumption
<1> QED
  BY <1>1, <1>2 DEF End

(* ROUND_UP2: a block takes at least one unit.                               *)
LEMMA AtLeastOne ==
  ASSUME HeapAssumption, NEW bytes \in Nat
  PROVE  UnitsFor(bytes) \in Nat \ {0}
<1>1. ChunkSize \in Nat \ {0}
  BY DEF HeapAssumption
<1>2. CASE bytes # 0
  <2>1. \A a, b \in Nat : b > 0 /\ a >= b => a \div b \in Nat \ {0}
    OBVIOUS
  <2> QED
    BY <1>1, <1>2, <2>1 DEF UnitsFor
<1> QED
  BY <1>2 DEF UnitsFor

-----------------------------------------------------------------------------
(* The list: sorted, with a gap after every chunk, and inside the heap.      *)

IsFree(f, u)  == \E i \in DOMAIN f : f[i].at <= u /\ u < End(f[i])
InBlock(b, u) == b.at <= u /\ u < b.at + UnitsFor(b.bytes)

Sorted(f) == \A i, j \in DOMAIN f : i < j => End(f[i]) < f[j].at
Inside(f) == \A i \in DOMAIN f : End(f[i]) <= Units + 1
List(f)   == f \in Seq(Chunks) /\ Sorted(f) /\ Inside(f)

(* Taking n units from the end of chunk i.                                   *)
LEMMA TakeList ==
  ASSUME HeapAssumption, NEW f, List(f), NEW i \in DOMAIN f, NEW n \in Nat \ {0}, f[i].len >= n
  PROVE  /\ List(Take(f, i, n))
         /\ Given(f[i], n) \in 1 .. Units /\ Given(f[i], n) + n <= Units + 1
         /\ \A u \in 1 .. Units : IsFree(Take(f, i, n), u)
                                    <=> IsFree(f, u) /\ ~(Given(f[i], n) <= u /\ u < Given(f[i], n) + n)
         /\ \A u \in Int : Given(f[i], n) <= u /\ u < Given(f[i], n) + n => IsFree(f, u)
<1> DEFINE at == Given(f[i], n)
           g  == Take(f, i, n)
<1>1. f \in Seq(Chunks) /\ Sorted(f) /\ Inside(f) /\ Units \in Nat \ {0}
  BY DEF List, HeapAssumption
<1>2. /\ i \in 1 .. Len(f) /\ Len(f) \in Nat /\ DOMAIN f = 1 .. Len(f)
      /\ f[i] \in Chunks /\ f[i].at \in Nat \ {0} /\ f[i].len \in Nat \ {0} /\ End(f[i]) = f[i].at + f[i].len
  BY <1>1, ChunkFields
<1>3. at + n = End(f[i]) /\ at >= f[i].at /\ at \in Nat
  BY <1>2 DEF Given
<1>4. at \in 1 .. Units /\ at + n <= Units + 1
  BY <1>1, <1>2, <1>3 DEF Inside
<1> HIDE DEF at
<1>5. \A u \in Int : at <= u /\ u < at + n => IsFree(f, u)
  BY <1>2, <1>3 DEF IsFree
<1>6. \A j \in DOMAIN f, u \in Int :
        (f[j].at <= u /\ u < End(f[j]) /\ f[i].at <= u /\ u < End(f[i])) => j = i
  <2>1. ASSUME NEW j \in DOMAIN f, NEW u \in Int, j # i,
               f[j].at <= u, u < End(f[j]), f[i].at <= u, u < End(f[i])
        PROVE  FALSE
    <3>1. j \in Nat /\ i \in Nat /\ f[j].at \in Nat /\ End(f[j]) \in Nat /\ f[i].at \in Nat /\ End(f[i]) \in Nat
      BY <1>1, <1>2, ChunkFields
    <3>2. End(f[j]) < f[i].at \/ End(f[i]) < f[j].at
      BY <1>1, <2>1, <3>1 DEF Sorted
    <3> QED
      BY <2>1, <3>1, <3>2
  <2> QED
    BY <2>1
<1>7. CASE f[i].len = n
  <2>1. g = RemoveAt(f, i) /\ at = f[i].at
    BY <1>2, <1>3, <1>7 DEF Take
  <2>2. /\ g \in Seq(Chunks) /\ DOMAIN g = 1 .. Len(f) - 1
        /\ \A j \in 1 .. Len(f) - 1 : g[j] = IF j < i THEN f[j] ELSE f[j + 1]
    BY <1>1, <1>2, <2>1, Removed
  <2> DEFINE from(j) == IF j < i THEN j ELSE j + 1
  <2>3. \A j \in DOMAIN g : from(j) \in DOMAIN f /\ from(j) # i /\ g[j] = f[from(j)]
    BY <1>2, <2>2
  <2>4. \A j, k \in DOMAIN g : j < k => from(j) < from(k)
    BY <1>2, <2>2
  <2>5. \A k \in DOMAIN f : k # i => \E j \in DOMAIN g : from(j) = k
    <3>1. ASSUME NEW k \in DOMAIN f, k < i PROVE k \in DOMAIN g /\ from(k) = k
      BY <1>2, <2>2, <3>1
    <3>2. ASSUME NEW k \in DOMAIN f, k > i PROVE k - 1 \in DOMAIN g /\ from(k - 1) = k
      BY <1>2, <2>2, <3>2
    <3> QED
      BY <1>2, <3>1, <3>2
  <2> HIDE DEF from, g
  <2>6. List(g)
    BY <1>1, <2>2, <2>3, <2>4 DEF List, Sorted, Inside
  <2>7. \A u \in 1 .. Units : IsFree(g, u) <=> IsFree(f, u) /\ ~(at <= u /\ u < at + n)
    <3> SUFFICES ASSUME NEW u \in 1 .. Units
                 PROVE  IsFree(g, u) <=> IsFree(f, u) /\ ~(at <= u /\ u < at + n)
      OBVIOUS
    <3>1. ASSUME IsFree(g, u) PROVE IsFree(f, u) /\ ~(at <= u /\ u < at + n)
      BY <1>3, <1>6, <2>1, <2>3, <3>1 DEF IsFree
    <3>2. ASSUME IsFree(f, u), ~(at <= u /\ u < at + n) PROVE IsFree(g, u)
      BY <1>3, <2>1, <2>3, <2>5, <3>2 DEF IsFree
    <3> QED
      BY <3>1, <3>2
  <2> QED
    BY <1>4, <1>5, <2>6, <2>7 DEF at, g
<1>8. CASE f[i].len # n
  <2> DEFINE c == [f[i] EXCEPT !.len = f[i].len - n]
  <2>1. g = [f EXCEPT ![i] = c]
    BY <1>2, <1>8 DEF Take
  <2>2. c \in Chunks /\ c.at = f[i].at /\ End(c) = at
    <3>1. f[i].len - n \in 1 .. Units
      BY <1>2, <1>8 DEF Chunks
    <3>2. c \in Chunks /\ c.at = f[i].at /\ c.len = f[i].len - n
      BY <1>2, <3>1 DEF Chunks
    <3> HIDE DEF c
    <3>3. c.at + c.len = at
      BY <1>2, <1>3, <3>2
    <3> QED
      BY <3>2, <3>3 DEF End
  <2> HIDE DEF c, g
  <2>3. /\ g \in Seq(Chunks) /\ DOMAIN g = 1 .. Len(f)
        /\ \A j \in 1 .. Len(f) : g[j] = IF j = i THEN c ELSE f[j]
    BY <1>1, <1>2, <2>1, <2>2, Changed
  <2>4. \A j \in DOMAIN f : g[j].at = f[j].at /\ End(g[j]) = IF j = i THEN at ELSE End(f[j])
    BY <1>2, <2>2, <2>3
  <2>5. \A j \in DOMAIN f : End(g[j]) <= End(f[j]) /\ End(f[j]) \in Nat /\ End(g[j]) \in Nat /\ f[j].at \in Nat
    <3>1. \A j \in DOMAIN f : End(f[j]) \in Nat /\ f[j].at \in Nat
      BY <1>1, ChunkFields
    <3>2. at <= End(f[i])
      BY <1>2, <1>3
    <3> QED
      BY <1>3, <2>4, <3>1, <3>2
  <2>6. List(g)
    <3>1. ASSUME NEW j \in DOMAIN f, NEW k \in DOMAIN f, j < k PROVE End(g[j]) < g[k].at
      <4>1. End(f[j]) < f[k].at
        BY <1>1, <3>1 DEF Sorted
      <4> QED
        BY <2>4, <2>5, <4>1
    <3>2. \A j \in DOMAIN f : End(g[j]) <= Units + 1
      BY <1>1, <2>5 DEF Inside
    <3> QED
      BY <1>2, <2>3, <3>1, <3>2 DEF List, Sorted, Inside
  <2>7. \A u \in 1 .. Units : IsFree(g, u) <=> IsFree(f, u) /\ ~(at <= u /\ u < at + n)
    <3> SUFFICES ASSUME NEW u \in 1 .. Units
                 PROVE  IsFree(g, u) <=> IsFree(f, u) /\ ~(at <= u /\ u < at + n)
      OBVIOUS
    <3>1. ASSUME IsFree(g, u) PROVE IsFree(f, u) /\ ~(at <= u /\ u < at + n)
      <4>1. PICK j \in DOMAIN f : f[j].at <= u /\ u < End(g[j])
        BY <1>2, <2>3, <2>4, <3>1 DEF IsFree
      <4>2. u < End(f[j])
        BY <2>5, <4>1
      <4>3. ~(at <= u /\ u < at + n)
        BY <1>3, <1>6, <2>4, <2>5, <4>1, <4>2
      <4> QED
        BY <4>1, <4>2, <4>3 DEF IsFree
    <3>2. ASSUME IsFree(f, u), ~(at <= u /\ u < at + n) PROVE IsFree(g, u)
      <4>1. PICK j \in DOMAIN f : f[j].at <= u /\ u < End(f[j])
        BY <3>2 DEF IsFree
      <4>2. u < End(g[j])
        BY <1>3, <2>4, <3>2, <4>1
      <4> QED
        BY <1>2, <2>3, <2>4, <4>1, <4>2 DEF IsFree
    <3> QED
      BY <3>1, <3>2
  <2> QED
    BY <1>4, <1>5, <2>6, <2>7 DEF at, g
<1> QED
  BY <1>7, <1>8

(* Where a block goes: chunks up to there begin before it, the others after. *)
LEMMA PositionIs ==
  ASSUME HeapAssumption, NEW f, List(f), NEW at \in Nat
  PROVE  /\ Position(f, at) \in 0 .. Len(f)
         /\ \A i \in DOMAIN f : IF i <= Position(f, at) THEN f[i].at <= at ELSE at <= f[i].at
<1> DEFINE later == {i \in DOMAIN f : i = Len(f) \/ f[i + 1].at >= at}
<1>1. f \in Seq(Chunks) /\ Sorted(f) /\ Len(f) \in Nat /\ DOMAIN f = 1 .. Len(f)
  BY DEF List
<1>2. \A i \in DOMAIN f : f[i].at \in Nat /\ End(f[i]) \in Nat /\ f[i].at < End(f[i])
  BY <1>1, ChunkFields
<1>3. \A i, j \in DOMAIN f : i <= j => f[i].at <= f[j].at
  <2>1. \A i, j \in DOMAIN f : i < j => f[i].at < f[j].at
    BY <1>1, <1>2 DEF Sorted
  <2> QED
    BY <1>1, <1>2, <2>1
<1>4. CASE f = << >>
  BY <1>1, <1>4 DEF Position
<1>5. CASE f # << >> /\ at < f[1].at
  <2>1. 1 \in DOMAIN f /\ \A i \in DOMAIN f : 1 <= i /\ ~(i <= 0)
    BY <1>1, <1>5
  <2>2. Position(f, at) = 0
    BY <1>5 DEF Position
  <2>3. \A i \in DOMAIN f : at <= f[i].at
    <3>1. \A i \in DOMAIN f : f[1].at <= f[i].at
      BY <1>3, <2>1
    <3> QED
      BY <1>2, <1>5, <2>1, <3>1
  <2> QED
    BY <1>1, <2>1, <2>2, <2>3
<1>6. CASE f # << >> /\ ~(at < f[1].at)
  <2>1. 1 \in DOMAIN f /\ Len(f) \in DOMAIN f /\ f[1].at <= at
    BY <1>1, <1>2, <1>6
  <2>2. later \in SUBSET Nat /\ later # {}
    BY <1>1, <2>1
  <2>3. Min(later) \in later /\ \A x \in later : Min(later) <= x
    BY <2>2, MinIsFirst
  <2>4. Position(f, at) = Min(later)
    BY <1>6 DEF Position
  <2>5. PICK p \in DOMAIN f : /\ p = Position(f, at)
                              /\ p = Len(f) \/ f[p + 1].at >= at
                              /\ \A x \in later : p <= x
    BY <2>3, <2>4
  <2> HIDE DEF later
  <2>6. f[p].at <= at
    <3>1. CASE p = 1
      BY <2>1, <3>1
    <3>2. CASE p # 1
      <4>1. p - 1 \in DOMAIN f /\ p - 1 # Len(f) /\ ~(p <= p - 1) /\ (p - 1) + 1 = p
        BY <1>1, <3>2
      <4>2. p - 1 \notin later
        BY <2>5, <4>1
      <4>3. ~(f[(p - 1) + 1].at >= at)
        BY <4>1, <4>2 DEF later
      <4> QED
        BY <1>2, <4>1, <4>3
    <3> QED
      BY <3>1, <3>2
  <2>7. ASSUME NEW i \in DOMAIN f, i <= p PROVE f[i].at <= at
    BY <1>2, <1>3, <2>6, <2>7
  <2>8. ASSUME NEW i \in DOMAIN f, ~(i <= p) PROVE at <= f[i].at
    <3>1. p + 1 \in DOMAIN f /\ p + 1 <= i /\ p # Len(f)
      BY <1>1, <2>8
    <3> QED
      BY <1>2, <1>3, <2>5, <3>1
  <2>9. \A i \in DOMAIN f : IF i <= p THEN f[i].at <= at ELSE at <= f[i].at
    BY <2>7, <2>8
  <2>10. p \in 0 .. Len(f) /\ p = Position(f, at)
    BY <1>1, <2>5
  <2> QED
    BY <2>9, <2>10
<1> QED
  BY <1>4, <1>5, <1>6

(* What remains to be merged: chunk j may reach up to the one that follows.  *)
Almost(g, j) ==
  /\ g \in Seq(Chunks) /\ Inside(g) /\ j \in DOMAIN g
  /\ \A i, k \in DOMAIN g :
       i < k => End(g[i]) < g[k].at \/ (i = j /\ k = j + 1 /\ End(g[i]) = g[k].at)

LEMMA MergePrevList ==
  ASSUME HeapAssumption, NEW f, List(f), NEW c \in Chunks, End(c) <= Units + 1,
         \A u \in Int : c.at <= u /\ u < End(c) => ~IsFree(f, u)
  PROVE  LET m == MergePrev(f, Position(f, c.at), c)
         IN /\ Almost(m[1], m[2])
            /\ \A u \in Int : IsFree(m[1], u) <=> IsFree(f, u) \/ (c.at <= u /\ u < End(c))
<1> DEFINE p == Position(f, c.at)
           m == MergePrev(f, p, c)
<1>1. /\ f \in Seq(Chunks) /\ Sorted(f) /\ Inside(f) /\ Units \in Nat
      /\ Len(f) \in Nat /\ DOMAIN f = 1 .. Len(f)
  BY DEF List, HeapAssumption
<1>2. /\ c.at \in Nat /\ c.len \in Nat \ {0} /\ End(c) = c.at + c.len
      /\ \A i \in DOMAIN f : /\ f[i] \in Chunks /\ f[i].at \in Nat /\ End(f[i]) \in Nat
                             /\ f[i].len \in Nat \ {0} /\ End(f[i]) = f[i].at + f[i].len
  <2>1. c.at \in Nat /\ c.len \in Nat \ {0} /\ End(c) = c.at + c.len
    BY <1>1 DEF Chunks, End
  <2> QED
    BY <1>1, <2>1, ChunkFields
<1>3. p \in 0 .. Len(f) /\ \A i \in DOMAIN f : IF i <= p THEN f[i].at <= c.at ELSE c.at <= f[i].at
  BY <1>2, PositionIs
<1> HIDE DEF p
<1>4. ASSUME NEW i \in DOMAIN f PROVE IF i <= p THEN End(f[i]) <= c.at ELSE End(c) <= f[i].at
  <2>1. CASE i <= p
    <3>1. f[i].at <= c.at
      BY <1>3, <2>1
    <3>2. ~(c.at < End(f[i]))
      BY <1>2, <3>1 DEF IsFree
    <3> QED
      BY <1>2, <2>1, <3>2
  <2>2. CASE ~(i <= p)
    <3>1. c.at <= f[i].at
      BY <1>3, <2>2
    <3>2. ~(f[i].at < End(c))
      BY <1>2, <3>1 DEF IsFree
    <3> QED
      BY <1>2, <2>2, <3>2
  <2> QED
    BY <2>1, <2>2
<1>5. CASE p > 0 /\ End(f[p]) = c.at
  <2> DEFINE d == [f[p] EXCEPT !.len = f[p].len + c.len]
             g == [f EXCEPT ![p] = d]
  <2>1. m = <<g, p>>
    BY <1>5 DEF MergePrev
  <2>2. p \in DOMAIN f
    BY <1>1, <1>3, <1>5
  <2>3. d \in Chunks /\ d.at = f[p].at /\ End(d) = End(c)
    <3>1. f[p].at >= 1
      BY <1>2, <2>2 DEF Chunks
    <3>2. f[p].len + c.len \in 1 .. Units /\ f[p].at + (f[p].len + c.len) = End(c)
      <4> DEFINE l == f[p].len
      <4>1. f[p].at + l = c.at /\ End(c) = c.at + c.len /\ End(c) <= Units + 1
        BY <1>2, <1>5, <2>2
      <4>2. f[p].at \in Nat /\ l \in Nat \ {0} /\ c.at \in Nat /\ c.len \in Nat \ {0} /\ Units \in Nat
        BY <1>1, <1>2, <2>2
      <4> HIDE DEF l
      <4>3. l + c.len \in 1 .. Units /\ f[p].at + (l + c.len) = End(c)
        BY <3>1, <4>1, <4>2
      <4> QED
        BY <4>3 DEF l
    <3>3. d \in Chunks /\ d.at = f[p].at /\ d.len = f[p].len + c.len
      BY <1>2, <2>2, <3>2 DEF Chunks
    <3> HIDE DEF d
    <3> QED
      BY <3>2, <3>3 DEF End
  <2> HIDE DEF d
  <2>4. /\ g \in Seq(Chunks) /\ DOMAIN g = 1 .. Len(f)
        /\ \A j \in 1 .. Len(f) : g[j] = IF j = p THEN d ELSE f[j]
    BY <1>1, <2>2, <2>3, Changed
  <2> HIDE DEF g
  <2>5. \A j \in DOMAIN f : g[j].at = f[j].at /\ End(g[j]) = IF j = p THEN End(c) ELSE End(f[j])
    BY <1>1, <2>3, <2>4
  <2>6. Almost(g, p)
    <3>1. ASSUME NEW i \in DOMAIN f, NEW k \in DOMAIN f, i < k
          PROVE  End(g[i]) < g[k].at \/ (i = p /\ k = p + 1 /\ End(g[i]) = g[k].at)
      <4>1. CASE i # p
        <5>1. End(f[i]) < f[k].at
          BY <1>1, <3>1 DEF Sorted
        <5> QED
          BY <2>5, <4>1, <5>1
      <4>2. CASE i = p /\ k = p + 1
        <5>1. End(c) <= f[k].at
          BY <1>1, <1>4, <4>2
        <5> QED
          BY <1>2, <2>5, <4>2, <5>1
      <4>3. CASE i = p /\ k # p + 1
        <5>1. p + 1 \in DOMAIN f /\ p + 1 < k /\ ~(p + 1 <= p)
          BY <1>1, <3>1, <4>3
        <5>2. End(c) <= f[p + 1].at /\ End(f[p + 1]) < f[k].at
          BY <1>1, <1>4, <5>1 DEF Sorted
        <5> QED
          BY <1>2, <2>5, <4>3, <5>1, <5>2
      <4> QED
        BY <4>1, <4>2, <4>3
    <3>2. \A i \in DOMAIN f : End(g[i]) <= Units + 1
      BY <1>1, <2>5 DEF Inside
    <3> QED
      BY <1>1, <2>2, <2>4, <3>1, <3>2 DEF Almost, Inside
  <2>7. ASSUME NEW u \in Int PROVE IsFree(g, u) <=> IsFree(f, u) \/ (c.at <= u /\ u < End(c))
    <3>1. ASSUME IsFree(g, u) PROVE IsFree(f, u) \/ (c.at <= u /\ u < End(c))
      <4>1. PICK j \in DOMAIN f : f[j].at <= u /\ u < End(g[j])
        BY <1>1, <2>4, <2>5, <3>1 DEF IsFree
      <4>2. CASE j # p
        BY <2>5, <4>1, <4>2 DEF IsFree
      <4>3. CASE j = p
        BY <1>2, <1>5, <2>5, <4>1, <4>3 DEF IsFree
      <4> QED
        BY <4>2, <4>3
    <3>2. ASSUME IsFree(f, u) PROVE IsFree(g, u)
      <4>1. PICK j \in DOMAIN f : f[j].at <= u /\ u < End(f[j])
        BY <3>2 DEF IsFree
      <4>2. u < End(g[j])
        BY <1>2, <1>5, <2>5, <4>1
      <4> QED
        BY <1>1, <2>4, <2>5, <4>1, <4>2 DEF IsFree
    <3>3. ASSUME c.at <= u, u < End(c) PROVE IsFree(g, u)
      <4>1. f[p].at <= u
        BY <1>2, <1>5, <2>2, <3>3
      <4> QED
        BY <1>1, <2>2, <2>4, <2>5, <3>3, <4>1 DEF IsFree
    <3> QED
      BY <3>1, <3>2, <3>3
  <2> QED
    BY <2>1, <2>6, <2>7 DEF p
<1>6. CASE ~(p > 0 /\ End(f[p]) = c.at)
  <2> DEFINE g == InsertAt(f, p + 1, c)
  <2>1. m = <<g, p + 1>>
    BY <1>6 DEF MergePrev
  <2>2. /\ g \in Seq(Chunks) /\ DOMAIN g = 1 .. Len(f) + 1
        /\ \A j \in 1 .. Len(f) + 1 : g[j] = IF j < p + 1 THEN f[j] ELSE IF j = p + 1 THEN c ELSE f[j - 1]
    <3>1. p + 1 \in 1 .. Len(f) + 1
      BY <1>1, <1>3
    <3>2. PICK q \in 1 .. Len(f) + 1 : q = p + 1
      BY <3>1
    <3>3. /\ InsertAt(f, q, c) \in Seq(Chunks) /\ DOMAIN InsertAt(f, q, c) = 1 .. Len(f) + 1
          /\ \A j \in 1 .. Len(f) + 1 :
               InsertAt(f, q, c)[j] = IF j < q THEN f[j] ELSE IF j = q THEN c ELSE f[j - 1]
      BY <1>1, Inserted
    <3> QED
      BY <3>2, <3>3
  <2> HIDE DEF g
  <2>3. /\ p + 1 \in DOMAIN g /\ g[p + 1] = c
        /\ \A j \in DOMAIN g : j < p + 1 => j \in DOMAIN f /\ j <= p /\ g[j] = f[j]
        /\ \A j \in DOMAIN g : j > p + 1 => j - 1 \in DOMAIN f /\ ~(j - 1 <= p) /\ g[j] = f[j - 1]
    BY <1>1, <1>3, <2>2
  <2>4. Almost(g, p + 1)
    <3>1. ASSUME NEW i \in DOMAIN g, NEW k \in DOMAIN g, i < k
          PROVE  End(g[i]) < g[k].at \/ (i = p + 1 /\ k = (p + 1) + 1 /\ End(g[i]) = g[k].at)
      <4> i \in Nat /\ k \in Nat /\ p \in Nat
        BY <1>3, <2>2
      <4>1. CASE k < p + 1
        BY <1>1, <2>3, <3>1, <4>1 DEF Sorted
      <4>2. CASE i > p + 1
        BY <1>1, <2>3, <3>1, <4>2 DEF Sorted
      <4>3. CASE i < p + 1 /\ k > p + 1
        <5>1. i < k - 1
          BY <4>3
        <5> QED
          BY <1>1, <2>3, <4>3, <5>1 DEF Sorted
      <4>4. CASE k = p + 1
        <5>1. i \in DOMAIN f /\ i <= p /\ g[i] = f[i] /\ p \in DOMAIN f /\ p > 0
          BY <1>1, <1>3, <2>3, <3>1, <4>4
        <5>2. End(f[p]) < c.at
          BY <1>2, <1>4, <1>6, <5>1
        <5>3. End(f[i]) <= End(f[p])
          <6>1. CASE i = p
            BY <1>2, <5>1, <6>1
          <6>2. CASE i # p
            <7>1. End(f[i]) < f[p].at
              BY <1>1, <5>1, <6>2 DEF Sorted
            <7> QED
              BY <1>2, <5>1, <7>1
          <6> QED
            BY <6>1, <6>2
        <5> QED
          BY <1>2, <2>3, <4>4, <5>1, <5>2, <5>3
      <4>5. CASE i = p + 1
        <5>1. k - 1 \in DOMAIN f /\ ~(k - 1 <= p) /\ g[k] = f[k - 1]
          BY <2>3, <3>1, <4>5
        <5>2. End(c) <= f[k - 1].at
          BY <1>4, <5>1
        <5>3. CASE k = (p + 1) + 1
          BY <1>2, <2>3, <4>5, <5>1, <5>2, <5>3
        <5>4. CASE k # (p + 1) + 1
          <6>1. p + 1 \in DOMAIN f /\ p + 1 < k - 1 /\ ~(p + 1 <= p)
            BY <1>1, <3>1, <4>5, <5>1, <5>4
          <6>2. End(c) <= f[p + 1].at /\ End(f[p + 1]) < f[k - 1].at
            BY <1>1, <1>4, <5>1, <6>1 DEF Sorted
          <6> QED
            BY <1>2, <2>3, <4>5, <5>1, <6>1, <6>2
        <5> QED
          BY <5>3, <5>4
      <4> QED
        BY <4>1, <4>2, <4>3, <4>4, <4>5
    <3>2. \A i \in DOMAIN g : End(g[i]) <= Units + 1
      <4>1. \A i \in DOMAIN g : i < p + 1 \/ i = p + 1 \/ i > p + 1
        BY <1>3, <2>2
      <4> QED
        BY <1>1, <2>3, <4>1 DEF Inside
    <3> QED
      BY <2>2, <2>3, <3>1, <3>2 DEF Almost, Inside
  <2>5. ASSUME NEW u \in Int PROVE IsFree(g, u) <=> IsFree(f, u) \/ (c.at <= u /\ u < End(c))
    <3>1. ASSUME IsFree(g, u) PROVE IsFree(f, u) \/ (c.at <= u /\ u < End(c))
      <4>1. PICK j \in DOMAIN g : g[j].at <= u /\ u < End(g[j])
        BY <3>1 DEF IsFree
      <4>2. j < p + 1 \/ j = p + 1 \/ j > p + 1
        BY <1>3, <2>2
      <4> QED
        BY <2>3, <4>1, <4>2 DEF IsFree
    <3>2. ASSUME IsFree(f, u) PROVE IsFree(g, u)
      <4>1. PICK j \in DOMAIN f : f[j].at <= u /\ u < End(f[j])
        BY <3>2 DEF IsFree
      <4>2. CASE j <= p
        <5>1. j \in DOMAIN g /\ g[j] = f[j]
          BY <1>1, <1>3, <2>2, <4>2
        <5> QED
          BY <4>1, <5>1 DEF IsFree
      <4>3. CASE ~(j <= p)
        <5>1. j + 1 \in DOMAIN g /\ g[j + 1] = f[j]
          BY <1>1, <1>3, <2>2, <4>3
        <5> QED
          BY <4>1, <5>1 DEF IsFree
      <4> QED
        BY <4>2, <4>3
    <3>3. ASSUME c.at <= u, u < End(c) PROVE IsFree(g, u)
      BY <2>3, <3>3 DEF IsFree
    <3> QED
      BY <3>1, <3>2, <3>3
  <2> QED
    BY <2>1, <2>4, <2>5 DEF p
<1> QED
  BY <1>5, <1>6

LEMMA MergeNextList ==
  ASSUME HeapAssumption, NEW g, NEW j, Almost(g, j)
  PROVE  /\ List(MergeNext(g, j))
         /\ \A u \in Int : IsFree(MergeNext(g, j), u) <=> IsFree(g, u)
<1>1. /\ g \in Seq(Chunks) /\ Inside(g) /\ Units \in Nat
      /\ Len(g) \in Nat /\ DOMAIN g = 1 .. Len(g) /\ j \in DOMAIN g
  BY DEF Almost, HeapAssumption
<1>2. \A i \in DOMAIN g : /\ g[i] \in Chunks /\ g[i].at \in Nat \ {0} /\ End(g[i]) \in Nat
                          /\ g[i].len \in Nat \ {0} /\ End(g[i]) = g[i].at + g[i].len
  BY <1>1, ChunkFields
<1>3. CASE ~(j < Len(g) /\ End(g[j]) = g[j + 1].at)
  <2>1. MergeNext(g, j) = g
    BY <1>3 DEF MergeNext
  <2>2. ASSUME NEW i \in DOMAIN g, NEW k \in DOMAIN g, i < k PROVE End(g[i]) < g[k].at
    <3>1. ~(i = j /\ k = j + 1 /\ End(g[i]) = g[k].at)
      BY <1>1, <1>3, <2>2
    <3> QED
      BY <2>2, <3>1 DEF Almost
  <2> QED
    BY <1>1, <2>1, <2>2 DEF List, Sorted
<1>4. CASE j < Len(g) /\ End(g[j]) = g[j + 1].at
  <2> DEFINE n == j + 1
             d == [g[j] EXCEPT !.len = g[j].len + g[n].len]
             h == [g EXCEPT ![j] = d]
             r == RemoveAt(h, n)
  <2>1. MergeNext(g, j) = r
    BY <1>4 DEF MergeNext
  <2>2. n \in DOMAIN g /\ n = j + 1 /\ End(g[j]) = g[n].at
    BY <1>1, <1>4
  <2> HIDE DEF n
  <2>3. d \in Chunks /\ d.at = g[j].at /\ End(d) = End(g[n])
    <3> DEFINE a == g[j].len
               b == g[n].len
    <3>1. /\ g[j].at + a = g[n].at /\ End(g[n]) = g[n].at + b /\ End(g[n]) <= Units + 1
          /\ g[j].at \in Nat \ {0} /\ a \in Nat \ {0} /\ b \in Nat \ {0} /\ g[n].at \in Nat
      BY <1>1, <1>2, <2>2 DEF Inside
    <3> DEFINE x == g[j].at
               y == g[n].at
               e == End(g[n])
    <3>2. a + b \in 1 .. Units /\ x + (a + b) = e
      <4>1. /\ x + a = y /\ e = y + b /\ e <= Units + 1 /\ Units \in Nat
            /\ x \in Nat \ {0} /\ a \in Nat \ {0} /\ b \in Nat \ {0} /\ y \in Nat
        BY <1>1, <3>1
      <4> HIDE DEF a, b, x, y, e
      <4> QED
        BY <4>1
    <3> HIDE DEF a, b
    <3>3. d \in Chunks /\ d.at = g[j].at /\ d.len = a + b
      BY <1>1, <1>2, <3>2 DEF Chunks, a, b
    <3> HIDE DEF d
    <3> QED
      BY <3>2, <3>3 DEF End
  <2> HIDE DEF d
  <2>4. /\ h \in Seq(Chunks) /\ Len(h) = Len(g) /\ DOMAIN h = 1 .. Len(g)
        /\ \A i \in 1 .. Len(g) : h[i] = IF i = j THEN d ELSE g[i]
    BY <1>1, <2>3, Changed
  <2> HIDE DEF h
  <2>5. /\ r \in Seq(Chunks) /\ DOMAIN r = 1 .. Len(g) - 1
        /\ \A i \in 1 .. Len(g) - 1 : r[i] = IF i < n THEN h[i] ELSE h[i + 1]
    <3>1. n \in 1 .. Len(h)
      BY <1>1, <2>2, <2>4
    <3> QED
      BY <2>4, <3>1, Removed
  <2> HIDE DEF r
  <2> DEFINE from(i) == IF i < n THEN i ELSE i + 1
             last(i) == IF i = j THEN n ELSE from(i)
  <2>6. ASSUME NEW i \in DOMAIN r
        PROVE  /\ from(i) \in DOMAIN g /\ last(i) \in DOMAIN g /\ from(i) # n
               /\ r[i].at = g[from(i)].at /\ End(r[i]) = End(g[last(i)])
    <3>1. CASE i = j
      BY <1>1, <2>2, <2>3, <2>4, <2>5, <3>1
    <3>2. CASE i < j
      BY <1>1, <2>2, <2>3, <2>4, <2>5, <3>2
    <3>3. CASE i > j
      <4>1. i + 1 \in 1 .. Len(g) /\ ~(i < n) /\ i + 1 # j /\ i + 1 # n /\ i # j
        BY <1>1, <2>2, <2>5, <3>3
      <4> QED
        BY <1>1, <2>4, <2>5, <4>1
    <3> QED
      BY <1>1, <2>5, <3>1, <3>2, <3>3
  <2>7. \A i, k \in DOMAIN r : i < k => last(i) < from(k) /\ ~(last(i) = j)
    BY <1>1, <2>2, <2>5
  <2>8. \A k \in DOMAIN g : \E i \in DOMAIN r : from(i) = k \/ last(i) = k
    <3>1. ASSUME NEW k \in DOMAIN g, k < n PROVE k \in DOMAIN r /\ from(k) = k
      BY <1>1, <2>2, <2>5, <3>1
    <3>2. j \in DOMAIN r /\ last(j) = n
      BY <1>1, <2>2, <2>5
    <3>3. ASSUME NEW k \in DOMAIN g, k > n PROVE k - 1 \in DOMAIN r /\ from(k - 1) = k
      BY <1>1, <2>2, <2>5, <3>3
    <3> QED
      BY <1>1, <2>2, <3>1, <3>2, <3>3
  <2>9. List(r)
    <3>1. ASSUME NEW i \in DOMAIN r, NEW k \in DOMAIN r, i < k PROVE End(r[i]) < r[k].at
      <4>1. last(i) \in DOMAIN g /\ from(k) \in DOMAIN g /\ last(i) < from(k) /\ last(i) # j
        BY <2>6, <2>7, <3>1
      <4>2. End(g[last(i)]) < g[from(k)].at
        BY <4>1 DEF Almost
      <4> QED
        BY <2>6, <4>2
    <3>2. \A i \in DOMAIN r : End(r[i]) <= Units + 1
      BY <1>1, <2>6 DEF Inside
    <3> QED
      BY <2>5, <3>1, <3>2 DEF List, Sorted, Inside
  <2>10. ASSUME NEW u \in Int PROVE IsFree(r, u) <=> IsFree(g, u)
    <3>1. ASSUME IsFree(r, u) PROVE IsFree(g, u)
      <4>1. PICK i \in DOMAIN r : r[i].at <= u /\ u < End(r[i])
        BY <3>1 DEF IsFree
      <4>2. CASE i = j
        <5>1. g[j].at <= u /\ u < End(g[n])
          BY <1>1, <2>2, <2>6, <4>1, <4>2
        <5>2. u < End(g[j]) \/ g[n].at <= u
          BY <1>1, <1>2, <2>2
        <5> QED
          BY <1>1, <2>2, <5>1, <5>2 DEF IsFree
      <4>3. CASE i # j
        <5>1. last(i) = from(i) /\ from(i) \in DOMAIN g
          BY <2>6, <4>3
        <5> QED
          BY <2>6, <4>1, <5>1 DEF IsFree
      <4> QED
        BY <4>2, <4>3
    <3>2. ASSUME IsFree(g, u) PROVE IsFree(r, u)
      <4>1. PICK k \in DOMAIN g : g[k].at <= u /\ u < End(g[k])
        BY <3>2 DEF IsFree
      <4>2. PICK i \in DOMAIN r : from(i) = k \/ last(i) = k
        BY <2>8
      <4>3. CASE i = j
        <5>1. r[i].at = g[j].at /\ End(r[i]) = End(g[n]) /\ k \in {j, n}
          BY <1>1, <2>2, <2>6, <4>2, <4>3
        <5>2. g[j].at <= u /\ u < End(g[n])
          <6>1. /\ g[j].at \in Nat /\ g[n].at \in Nat /\ End(g[n]) \in Nat
                /\ g[j].at < g[n].at /\ g[n].at < End(g[n]) /\ End(g[j]) = g[n].at
            <7>1. /\ g[j].at \in Nat /\ g[j].len \in Nat \ {0} /\ End(g[j]) = g[j].at + g[j].len
                  /\ g[n].at \in Nat /\ g[n].len \in Nat \ {0} /\ End(g[n]) = g[n].at + g[n].len
                  /\ End(g[j]) \in Nat /\ End(g[n]) \in Nat
              BY <1>1, <1>2, <2>2
            <7>2. End(g[j]) > g[j].at /\ End(g[n]) > g[n].at
              BY <7>1
            <7> QED
              BY <2>2, <7>1, <7>2
          <6> QED
            BY <4>1, <5>1, <6>1
        <5> QED
          BY <5>1, <5>2 DEF IsFree
      <4>4. CASE i # j
        <5>1. r[i].at = g[k].at /\ End(r[i]) = End(g[k])
          BY <2>6, <4>2, <4>4
        <5> QED
          BY <4>1, <5>1 DEF IsFree
      <4> QED
        BY <4>3, <4>4
    <3> QED
      BY <3>1, <3>2
  <2> QED
    BY <2>1, <2>9, <2>10
<1> QED
  BY <1>3, <1>4

-----------------------------------------------------------------------------
(* The heap.                                                                 *)

Types ==
  /\ inited \in BOOLEAN /\ free \in Seq(Chunks)
  /\ live \subseteq [at : 1 .. Units, bytes : Requests] /\ got \in 0 .. Units

Blocks(bs) ==
  /\ \A b \in bs : b.at + UnitsFor(b.bytes) <= Units + 1
  /\ \A b, c \in bs : b # c => b.at + UnitsFor(b.bytes) <= c.at \/ c.at + UnitsFor(c.bytes) <= b.at

Exact(f, bs) == \A u \in 1 .. Units : IsFree(f, u) <=> \A b \in bs : ~InBlock(b, u)

HeapInv ==
  /\ Types
  /\ List(FreeList) /\ Blocks(live) /\ Exact(FreeList, live)

LEMMA RequestFields ==
  ASSUME HeapAssumption
  PROVE  /\ Requests \subseteq Nat /\ Units \in Nat \ {0}
         /\ \A bytes \in Requests : UnitsFor(bytes) \in Nat \ {0}
         /\ \A b \in [at : 1 .. Units, bytes : Requests] :
              /\ b.at \in Nat \ {0} /\ b.bytes \in Requests /\ UnitsFor(b.bytes) \in Nat \ {0}
              /\ b.at + UnitsFor(b.bytes) \in Nat /\ b.at < b.at + UnitsFor(b.bytes)
<1>1. Requests \subseteq Nat /\ Units \in Nat \ {0}
  <2>1. Sizes \subseteq Nat /\ IntSize \in Nat /\ Units \in Nat \ {0}
    BY DEF HeapAssumption
  <2>2. ASSUME NEW bytes \in Requests PROVE bytes \in Nat
    <3>1. bytes \in Sizes \/ \E size \in Sizes : bytes = size + IntSize
      BY DEF Requests
    <3>2. \A size \in Sizes : size \in Nat /\ size + IntSize \in Nat
      BY <2>1
    <3> QED
      BY <3>1, <3>2
  <2> QED
    BY <2>1, <2>2
<1>2. \A bytes \in Requests : UnitsFor(bytes) \in Nat \ {0}
  BY <1>1, AtLeastOne
<1>3. ASSUME NEW b \in [at : 1 .. Units, bytes : Requests]
      PROVE  /\ b.at \in Nat \ {0} /\ b.bytes \in Requests /\ UnitsFor(b.bytes) \in Nat \ {0}
             /\ b.at + UnitsFor(b.bytes) \in Nat /\ b.at < b.at + UnitsFor(b.bytes)
  <2>1. b.at \in Nat \ {0} /\ b.bytes \in Requests
    OBVIOUS
  <2>2. UnitsFor(b.bytes) \in Nat \ {0}
    BY <1>2, <2>1
  <2> QED
    BY <2>1, <2>2
<1> QED
  BY <1>1, <1>2, <1>3

LEMMA InitHeap ==
  ASSUME HeapAssumption, Init
  PROVE  HeapInv
<1> DEFINE c == [at |-> 1, len |-> Units]
<1>1. FreeList = << c >> /\ live = {} /\ Units \in Nat \ {0}
  BY RequestFields DEF Init, FreeList
<1>2. c \in Chunks /\ c.at = 1 /\ End(c) = Units + 1
  BY <1>1 DEF Chunks, End
<1> HIDE DEF c
<1>3. << c >> \in Seq(Chunks) /\ DOMAIN << c >> = {1} /\ << c >>[1] = c
  BY <1>2
<1>4. List(<< c >>)
  BY <1>2, <1>3 DEF List, Sorted, Inside
<1>5. \A u \in 1 .. Units : IsFree(<< c >>, u)
  BY <1>1, <1>2, <1>3 DEF IsFree
<1>6. Types
  <2>1. free = << >> /\ free \in Seq(Chunks)
    BY DEF Init
  <2> QED
    BY <1>1, <2>1, 0 \in 0 .. Units DEF Init, Types
<1> QED
  BY <1>1, <1>4, <1>5, <1>6 DEF HeapInv, Blocks, Exact

LEMMA RoomIs ==
  ASSUME NEW n \in Nat \ {0}, NEW at
  PROVE  at \in Abstract!Room(n)
           <=> /\ at \in 1 .. Units - n + 1
               /\ \A u \in at .. at + n - 1 : \A b \in live : ~(u \in b.at .. b.at + UnitsFor(b.bytes) - 1)
BY DEF Abstract!Room, Abstract!Within, Abstract!Taken

LEMMA InBlockIs ==
  ASSUME HeapAssumption, Types, NEW b \in live, NEW u \in Int
  PROVE  InBlock(b, u) <=> u \in b.at .. b.at + UnitsFor(b.bytes) - 1
BY RequestFields DEF InBlock, Types

(* A run of free units lies in one chunk, for the list has no chunks to      *)
(* merge: the unit after a chunk is not free.                                *)
LEMMA RunInChunk ==
  ASSUME HeapAssumption, NEW f, List(f), NEW at \in Nat \ {0}, NEW n \in Nat \ {0},
         \A u \in at .. at + n - 1 : IsFree(f, u)
  PROVE  \E i \in DOMAIN f : f[i].len >= n
<1>1. f \in Seq(Chunks) /\ Sorted(f) /\ DOMAIN f \subseteq Nat
  BY DEF List
<1>2. \A i \in DOMAIN f : /\ f[i].at \in Nat /\ End(f[i]) \in Nat /\ f[i].len \in Nat \ {0}
                          /\ End(f[i]) = f[i].at + f[i].len
  BY <1>1, ChunkFields
<1>3. PICK i \in DOMAIN f : f[i].at <= at /\ at < End(f[i])
  BY DEF IsFree
<1>4. at + n <= End(f[i])
  <2> SUFFICES ASSUME End(f[i]) < at + n PROVE FALSE
    BY <1>2
  <2>1. End(f[i]) \in at .. at + n - 1
    BY <1>2, <1>3
  <2>2. PICK j \in DOMAIN f : f[j].at <= End(f[i]) /\ End(f[i]) < End(f[j])
    BY <2>1 DEF IsFree
  <2>3. j # i /\ f[i].at < End(f[i]) /\ f[j].at \in Nat /\ End(f[j]) \in Nat /\ f[i].at \in Nat /\ End(f[i]) \in Nat
    BY <1>2, <2>2
  <2>4. (j < i /\ End(f[j]) < f[i].at) \/ (i < j /\ End(f[i]) < f[j].at)
    BY <1>1, <2>3 DEF Sorted
  <2> QED
    BY <2>2, <2>3, <2>4
<1> DEFINE l == f[i].len
           x == f[i].at
<1>5. x + l >= at + n /\ x <= at /\ l \in Nat /\ x \in Nat
  BY <1>2, <1>3, <1>4
<1> HIDE DEF l, x
<1>6. l >= n
  BY <1>5
<1> QED
  BY <1>6 DEF l

LEMMA AllocStep ==
  ASSUME HeapAssumption, HeapInv, NEW bytes \in Requests, AllocMem(bytes)
  PROVE  HeapInv' /\ Abstract!Alloc(bytes)
<1> DEFINE n    == UnitsFor(bytes)
           fits == {i \in DOMAIN FreeList : FreeList[i].len >= n}
           i    == Min(fits)
           f    == FreeList
<1>1. /\ Types /\ List(f) /\ Blocks(live) /\ Exact(f, live)
      /\ n \in Nat \ {0} /\ Units \in Nat \ {0}
  BY RequestFields DEF HeapInv
<1>2. /\ inited' = TRUE
      /\ \/ /\ fits # {}
            /\ free' = Take(f, i, n)
            /\ got' = Given(f[i], n)
            /\ live' = live \cup {[at |-> got', bytes |-> bytes]}
         \/ /\ fits = {}
            /\ free' = f /\ got' = 0 /\ UNCHANGED live
  BY DEF AllocMem
<1>3. FreeList' = free'
  BY <1>2 DEF FreeList
<1> HIDE DEF n, f
<1>4. \A b \in live : b \in [at : 1 .. Units, bytes : Requests]
  BY <1>1 DEF Types
<1>5. CASE fits # {}
  <2> DEFINE at == got'
             b  == [at |-> at, bytes |-> bytes]
  <2>1. i \in DOMAIN f /\ f[i].len >= n
    <3>1. fits \in SUBSET Nat
      BY <1>1 DEF List, f
    <3> QED
      BY <1>5, <3>1, MinIsFirst DEF f
  <2> HIDE DEF i
  <2>2. /\ List(free') /\ at \in 1 .. Units /\ at + n <= Units + 1
        /\ \A u \in 1 .. Units : IsFree(free', u) <=> IsFree(f, u) /\ ~(at <= u /\ u < at + n)
        /\ \A u \in Int : at <= u /\ u < at + n => IsFree(f, u)
    BY <1>1, <1>2, <1>5, <2>1, TakeList
  <2>3. live' = live \cup {b}
    BY <1>2, <1>5
  <2> HIDE DEF at
  <2>4. b.at = at /\ b.bytes = bytes /\ UnitsFor(b.bytes) = n /\ b \in [at : 1 .. Units, bytes : Requests]
    BY <2>2 DEF n
  <2> HIDE DEF b
  <2>5. \A u \in 1 .. Units : at <= u /\ u < at + n => \A c \in live : ~InBlock(c, u)
    BY <1>1, <2>2 DEF Exact
  <2>6. Types'
    <3>1. free' \in Seq(Chunks) /\ got' \in 0 .. Units
      BY <2>2 DEF List, at
    <3>2. live' \subseteq [at : 1 .. Units, bytes : Requests]
      BY <1>4, <2>3, <2>4
    <3> QED
      BY <1>2, <3>1, <3>2 DEF Types
  <2>7. ASSUME NEW c \in live PROVE c.at + UnitsFor(c.bytes) <= at \/ at + n <= c.at
    <3>1. c.at \in 1 .. Units /\ c.at + UnitsFor(c.bytes) \in Nat /\ c.at < c.at + UnitsFor(c.bytes)
      BY <1>4, RequestFields
    <3>2. CASE c.at <= at
      <4>1. ~InBlock(c, at)
        BY <1>1, <2>2, <2>5
      <4> QED
        BY <1>1, <2>2, <3>1, <3>2, <4>1 DEF InBlock
    <3>3. CASE at < c.at
      <4>1. InBlock(c, c.at)
        BY <3>1 DEF InBlock
      <4>2. ~(c.at < at + n)
        BY <2>2, <2>5, <3>1, <3>3, <4>1
      <4> QED
        BY <1>1, <2>2, <3>1, <4>2
    <3> QED
      BY <2>2, <3>1, <3>2, <3>3
  <2>8. Blocks(live')
    BY <1>1, <2>2, <2>3, <2>4, <2>7 DEF Blocks
  <2>9. Exact(free', live')
    <3>1. \A u \in 1 .. Units : InBlock(b, u) <=> at <= u /\ u < at + n
      BY <2>4 DEF InBlock
    <3> QED
      BY <1>1, <2>2, <2>3, <3>1 DEF Exact
  <2>10. HeapInv'
    BY <1>2, <1>3, <2>2, <2>6, <2>8, <2>9 DEF HeapInv
  <2>11. at \in Abstract!Room(n)
    <3>1. at \in 1 .. Units - n + 1
      BY <1>1, <2>2
    <3>2. ASSUME NEW u \in at .. at + n - 1, NEW c \in live PROVE ~(u \in c.at .. c.at + UnitsFor(c.bytes) - 1)
      <4>1. u \in 1 .. Units /\ at <= u /\ u < at + n /\ u \in Int
        BY <1>1, <2>2
      <4> QED
        BY <1>1, <2>5, <4>1, InBlockIs
    <3> QED
      BY <1>1, <3>1, <3>2, RoomIs
  <2>12. Abstract!Alloc(bytes)
    BY <2>3, <2>11 DEF Abstract!Alloc, n, at, b
  <2> QED
    BY <2>10, <2>12
<1>6. CASE fits = {}
  <2>1. free' = f /\ got' = 0 /\ live' = live /\ inited' = TRUE
    BY <1>2, <1>6
  <2>2. Types'
    <3>1. f \in Seq(Chunks) /\ 0 \in 0 .. Units
      BY <1>1 DEF List
    <3> QED
      BY <1>1, <2>1, <3>1 DEF Types
  <2>3. HeapInv'
    BY <1>1, <1>3, <2>1, <2>2 DEF HeapInv
  <2>4. Abstract!Room(n) = {}
    <3> SUFFICES ASSUME NEW at \in Abstract!Room(n) PROVE FALSE
      OBVIOUS
    <3>1. /\ at \in 1 .. Units - n + 1
          /\ \A u \in at .. at + n - 1 : \A c \in live : ~(u \in c.at .. c.at + UnitsFor(c.bytes) - 1)
      BY <1>1, RoomIs
    <3>2. ASSUME NEW u \in at .. at + n - 1 PROVE IsFree(f, u)
      <4>1. u \in 1 .. Units /\ u \in Int
        BY <1>1, <3>1
      <4>2. \A c \in live : ~InBlock(c, u)
        BY <1>1, <3>1, <4>1, InBlockIs
      <4> QED
        BY <1>1, <4>1, <4>2 DEF Exact
    <3>3. at \in Nat \ {0}
      BY <1>1, <3>1
    <3>4. \E j \in DOMAIN f : f[j].len >= n
      BY <1>1, <3>2, <3>3, RunInChunk
    <3> QED
      BY <1>6, <3>4 DEF f
  <2> QED
    BY <2>1, <2>3, <2>4 DEF Abstract!Alloc, n
<1> QED
  BY <1>5, <1>6

LEMMA FreeStep ==
  ASSUME HeapAssumption, HeapInv, NEW b \in live, FreeMem(b)
  PROVE  HeapInv' /\ Abstract!Free(b)
<1> DEFINE c   == [at |-> b.at, len |-> UnitsFor(b.bytes)]
           f   == FreeList
           put == MergePrev(f, Position(f, b.at), c)
<1>1. /\ Types /\ List(f) /\ Blocks(live) /\ Exact(f, live) /\ Units \in Nat \ {0}
  BY RequestFields DEF HeapInv
<1>2. /\ inited' = TRUE /\ free' = MergeNext(put[1], put[2])
      /\ live' = live \ {b} /\ UNCHANGED got
  BY DEF FreeMem
<1>3. FreeList' = free'
  BY <1>2 DEF FreeList
<1>4. /\ b.at \in 1 .. Units /\ UnitsFor(b.bytes) \in Nat \ {0}
      /\ b.at + UnitsFor(b.bytes) <= Units + 1
  BY <1>1, RequestFields DEF Types, Blocks
<1>5. /\ c \in Chunks /\ c.at = b.at /\ c.len = UnitsFor(b.bytes) /\ End(c) = b.at + UnitsFor(b.bytes)
  BY <1>1, <1>4 DEF Chunks, End
<1> HIDE DEF c, f
<1>6. \A u \in Int : c.at <= u /\ u < End(c) <=> InBlock(b, u)
  BY <1>5 DEF InBlock
<1>7. \A u \in Int : InBlock(b, u) => u \in 1 .. Units /\ ~IsFree(f, u)
  <2>1. \A u \in Int : InBlock(b, u) => u \in 1 .. Units
    BY <1>1, <1>4 DEF InBlock
  <2> QED
    BY <1>1, <2>1 DEF Exact
<1>8. /\ Almost(put[1], put[2])
      /\ \A u \in Int : IsFree(put[1], u) <=> IsFree(f, u) \/ (c.at <= u /\ u < End(c))
  <2>1. End(c) <= Units + 1 /\ \A u \in Int : c.at <= u /\ u < End(c) => ~IsFree(f, u)
    BY <1>4, <1>5, <1>6, <1>7
  <2>2. c.at = b.at
    BY <1>5
  <2> QED
    BY <1>1, <1>5, <2>1, <2>2, MergePrevList
<1> HIDE DEF put
<1>9. List(free') /\ \A u \in Int : IsFree(free', u) <=> IsFree(put[1], u)
  BY <1>2, <1>8, MergeNextList
<1>10. ASSUME NEW u \in 1 .. Units PROVE IsFree(free', u) <=> \A d \in live' : ~InBlock(d, u)
  <2>1. IsFree(free', u) <=> IsFree(f, u) \/ InBlock(b, u)
    BY <1>6, <1>8, <1>9
  <2>2. IsFree(f, u) <=> \A d \in live : ~InBlock(d, u)
    BY <1>1 DEF Exact
  <2>3. ASSUME NEW d \in live, d # b PROVE ~(InBlock(d, u) /\ InBlock(b, u))
    <3>1. d.at \in Nat /\ UnitsFor(d.bytes) \in Nat /\ b.at \in Nat /\ UnitsFor(b.bytes) \in Nat
      BY <1>1, <1>4, RequestFields DEF Types
    <3>2. d.at + UnitsFor(d.bytes) <= b.at \/ b.at + UnitsFor(b.bytes) <= d.at
      BY <1>1, <2>3 DEF Blocks
    <3> QED
      BY <3>1, <3>2 DEF InBlock
  <2> QED
    BY <1>2, <2>1, <2>2, <2>3
<1>11. Types'
  BY <1>1, <1>2, <1>9 DEF Types, List
<1>12. Blocks(live') /\ Exact(free', live')
  BY <1>1, <1>2, <1>10 DEF Blocks, Exact
<1> QED
  BY <1>2, <1>3, <1>9, <1>11, <1>12 DEF HeapInv, Abstract!Free

LEMMA HeapStep ==
  ASSUME HeapAssumption, HeapInv, [Next]_vars
  PROVE  HeapInv' /\ [Abstract!Next]_<<live, got>>
<1>1. ASSUME NEW size \in Sizes, AllocMem(size) \/ Malloc(size)
      PROVE  HeapInv' /\ Abstract!Next
  <2>1. size \in Requests /\ size + IntSize \in Requests
    BY DEF Requests
  <2> QED
    BY <1>1, <2>1, AllocStep DEF Malloc, Abstract!Next
<1>2. ASSUME NEW b \in live, FreeMem(b) PROVE HeapInv' /\ Abstract!Next
  BY <1>2, FreeStep DEF Abstract!Next
<1>3. CASE FreeSpace
  <2>1. inited' = TRUE /\ free' = FreeList /\ FreeList' = FreeList /\ UNCHANGED <<live, got>>
    BY <1>3 DEF FreeSpace, FreeList
  <2> QED
    BY <2>1 DEF HeapInv, Types, List
<1>4. CASE UNCHANGED vars
  BY <1>4 DEF vars, HeapInv, Types, FreeList
<1> QED
  BY <1>1, <1>2, <1>3, <1>4 DEF Next

LEMMA HeapInvExact ==
  ASSUME HeapAssumption, HeapInv
  PROVE  FreeListExact
<1> SUFFICES ASSUME inited
             PROVE  /\ \A i \in 1 .. Len(free) - 1 : End(free[i]) < free[i + 1].at
                    /\ UNION {Abstract!Within(free[i].at, free[i].len) : i \in DOMAIN free}
                         = (1 .. Units) \ Abstract!Taken(live)
  BY DEF FreeListExact
<1>1. /\ free \in Seq(Chunks) /\ Sorted(free) /\ Inside(free) /\ Exact(free, live) /\ Types
      /\ Len(free) \in Nat /\ DOMAIN free = 1 .. Len(free)
  BY DEF HeapInv, FreeList, List
<1>2. \A i \in 1 .. Len(free) - 1 : End(free[i]) < free[i + 1].at
  BY <1>1 DEF Sorted
<1>3. \A i \in DOMAIN free : /\ free[i].at \in Nat \ {0} /\ free[i].len \in Nat
                             /\ End(free[i]) = free[i].at + free[i].len /\ End(free[i]) <= Units + 1
  BY <1>1, ChunkFields DEF Inside
<1>4. ASSUME NEW u
      PROVE  u \in UNION {Abstract!Within(free[i].at, free[i].len) : i \in DOMAIN free}
               <=> u \in 1 .. Units /\ IsFree(free, u)
  <2>1. \A i \in DOMAIN free : u \in Abstract!Within(free[i].at, free[i].len)
                                 <=> u \in 1 .. Units /\ free[i].at <= u /\ u < End(free[i])
    BY <1>3, RequestFields DEF Abstract!Within
  <2> QED
    BY <2>1 DEF IsFree
<1>5. ASSUME NEW u \in 1 .. Units PROVE u \in Abstract!Taken(live) <=> \E b \in live : InBlock(b, u)
  <2>1. \A b \in live : u \in Abstract!Within(b.at, UnitsFor(b.bytes)) <=> InBlock(b, u)
    BY <1>1, InBlockIs DEF Abstract!Within
  <2> QED
    BY <2>1 DEF Abstract!Taken
<1>6. \A u \in 1 .. Units : IsFree(free, u) <=> u \notin Abstract!Taken(live)
  BY <1>1, <1>5 DEF Exact
<1> QED
  BY <1>2, <1>4, <1>6

(* freeSpace: what the loop over the list adds up is the number of free      *)
(* units, for the chunks share none.                                         *)
LEMMA SpaceIs ==
  ASSUME HeapAssumption, NEW f, List(f)
  PROVE  Space(f) = Cardinality({u \in 1 .. Units : IsFree(f, u)})
<1> DEFINE size == [i \in DOMAIN f |-> f[i].len]
           part == [i \in DOMAIN f |-> f[i].at .. End(f[i]) - 1]
           next(g) == [s \in SUBSET DOMAIN f |->
                         IF s = {} THEN 0
                         ELSE f[CHOOSE x \in s : TRUE].len + g[s \ {CHOOSE x \in s : TRUE}]]
           sum  == CHOOSE g : g = next(g)
<1>1. Space(f) = sum[DOMAIN f]
  BY Zenon DEF Space, FoldSeq, FoldFunction, FoldFunctionOnSet, MapThenFoldSet
<1>2. \A i \in DOMAIN f : /\ f[i].at \in Nat \ {0} /\ f[i].len \in Nat \ {0} /\ End(f[i]) = f[i].at + f[i].len
                          /\ End(f[i]) \in Nat /\ End(f[i]) <= Units + 1 /\ i \in Nat
  BY ChunkFields DEF List, Inside
<1>3. IsFiniteSet(1 .. Units) /\ Units \in Nat
  BY FS_Interval, RequestFields
<1>4. Measured(size, part, DOMAIN f, 1 .. Units)
  <2> SUFFICES ASSUME NEW i \in DOMAIN f
               PROVE  part[i] # {} /\ part[i] \subseteq 1 .. Units /\ size[i] = Cardinality(part[i])
    BY DEF Measured
  <2>1. PICK a \in Nat \ {0}, n \in Nat \ {0} : a = f[i].at /\ n = f[i].len
    BY <1>2
  <2>2. part[i] = a .. a + n - 1 /\ size[i] = n /\ a + n <= Units + 1
    <3>1. End(f[i]) = a + n /\ End(f[i]) <= Units + 1
      BY <1>2, <2>1
    <3> QED
      BY <2>1, <3>1
  <2>3. Cardinality(a .. a + n - 1) = n
    BY FS_Interval
  <2>4. a \in a .. a + n - 1 /\ a .. a + n - 1 \subseteq 1 .. Units
    BY <1>3, <2>2
  <2> QED
    BY <2>2, <2>3, <2>4
<1>5. Disjoint(part, DOMAIN f)
  <2> SUFFICES ASSUME NEW i \in DOMAIN f, NEW j \in DOMAIN f, i # j PROVE part[i] \cap part[j] = {}
    BY DEF Disjoint
  <2>1. End(f[i]) < f[j].at \/ End(f[j]) < f[i].at
    <3>1. i < j \/ j < i
      BY <1>2
    <3> QED
      BY <3>1 DEF List, Sorted
  <2>2. part[i] = f[i].at .. End(f[i]) - 1 /\ part[j] = f[j].at .. End(f[j]) - 1
    OBVIOUS
  <2> QED
    BY <1>2, <2>1, <2>2
<1>6. \A g : next(g) = AddUp(size, DOMAIN f, g)
  <2>1. \A s \in SUBSET DOMAIN f : s # {} =>
          size[CHOOSE x \in s : TRUE] = f[CHOOSE x \in s : TRUE].len
    <3>1. \A s \in SUBSET DOMAIN f : s # {} => (CHOOSE x \in s : TRUE) \in DOMAIN f
      OBVIOUS
    <3> QED
      BY <3>1
  <2> HIDE DEF size
  <2> QED
    BY <2>1 DEF AddUp
<1>7. \E g : g = next(g)
  <2> HIDE DEF next, size, part
  <2> QED
    BY <1>3, <1>4, <1>5, <1>6, CountAddsUp
<1>8. sum = AddUp(size, DOMAIN f, sum)
  <2> HIDE DEF next
  <2>1. sum = next(sum)
    BY <1>7, Zenon
  <2> HIDE DEF sum, size
  <2> QED
    BY <1>6, <2>1
<1>9. sum[DOMAIN f] = Cardinality(Cover(part, DOMAIN f))
  <2> HIDE DEF sum, size, part
  <2> QED
    BY <1>3, <1>4, <1>5, <1>8, SumIsCount
<1>10. Cover(part, DOMAIN f) = {u \in 1 .. Units : IsFree(f, u)}
  <2>1. \A i \in DOMAIN f : \A u : u \in part[i] <=> u \in 1 .. Units /\ f[i].at <= u /\ u < End(f[i])
    BY <1>2, <1>3
  <2>2. \A u : u \in Cover(part, DOMAIN f) <=> \E i \in DOMAIN f : u \in part[i]
    BY DEF Cover
  <2> HIDE DEF part
  <2> QED
    BY <2>1, <2>2 DEF IsFree
<1> HIDE DEF sum, part
<1> QED
  BY <1>1, <1>9, <1>10

(* The live blocks share no unit either, so their units add up as well.      *)
LEMMA LiveIs ==
  ASSUME HeapAssumption, NEW bs, bs \subseteq [at : 1 .. Units, bytes : Requests], Blocks(bs)
  PROVE  FoldSet(LAMBDA b, sum : UnitsFor(b.bytes) + sum, 0, bs)
           = Cardinality({u \in 1 .. Units : \E b \in bs : InBlock(b, u)})
<1> DEFINE size == [b \in bs |-> UnitsFor(b.bytes)]
           part == [b \in bs |-> b.at .. b.at + UnitsFor(b.bytes) - 1]
           next(g) == [s \in SUBSET bs |->
                         IF s = {} THEN 0
                         ELSE UnitsFor((CHOOSE x \in s : TRUE).bytes) + g[s \ {CHOOSE x \in s : TRUE}]]
           sum  == CHOOSE g : g = next(g)
<1>1. FoldSet(LAMBDA b, more : UnitsFor(b.bytes) + more, 0, bs) = sum[bs]
  BY Zenon DEF FoldSet, MapThenFoldSet
<1>2. \A b \in bs : /\ b.at \in Nat \ {0} /\ UnitsFor(b.bytes) \in Nat \ {0}
                    /\ b.at + UnitsFor(b.bytes) <= Units + 1
  BY RequestFields DEF Blocks
<1>3. IsFiniteSet(1 .. Units) /\ Units \in Nat
  BY FS_Interval, RequestFields
<1>4. Measured(size, part, bs, 1 .. Units)
  <2> SUFFICES ASSUME NEW b \in bs
               PROVE  part[b] # {} /\ part[b] \subseteq 1 .. Units /\ size[b] = Cardinality(part[b])
    BY DEF Measured
  <2>1. PICK a \in Nat \ {0}, n \in Nat \ {0} : a = b.at /\ n = UnitsFor(b.bytes)
    BY <1>2
  <2>2. part[b] = a .. a + n - 1 /\ size[b] = n
    BY <2>1
  <2>3. Cardinality(a .. a + n - 1) = n
    BY FS_Interval
  <2>4. a + n <= Units + 1
    BY <1>2, <2>1
  <2>5. a \in a .. a + n - 1 /\ a .. a + n - 1 \subseteq 1 .. Units
    BY <1>3, <2>4
  <2> QED
    BY <2>2, <2>3, <2>5
<1>5. Disjoint(part, bs)
  <2> SUFFICES ASSUME NEW b \in bs, NEW c \in bs, b # c PROVE part[b] \cap part[c] = {}
    BY DEF Disjoint
  <2>1. b.at + UnitsFor(b.bytes) <= c.at \/ c.at + UnitsFor(c.bytes) <= b.at
    BY DEF Blocks
  <2>2. part[b] = b.at .. b.at + UnitsFor(b.bytes) - 1 /\ part[c] = c.at .. c.at + UnitsFor(c.bytes) - 1
    OBVIOUS
  <2> QED
    BY <1>2, <2>1, <2>2
<1>6. \A g : next(g) = AddUp(size, bs, g)
  <2>1. \A s \in SUBSET bs : s # {} =>
          size[CHOOSE x \in s : TRUE] = UnitsFor((CHOOSE x \in s : TRUE).bytes)
    <3>1. \A s \in SUBSET bs : s # {} => (CHOOSE x \in s : TRUE) \in bs
      OBVIOUS
    <3> QED
      BY <3>1
  <2> HIDE DEF size
  <2> QED
    BY <2>1 DEF AddUp
<1>7. \E g : g = next(g)
  <2> HIDE DEF next, size, part
  <2> QED
    BY <1>3, <1>4, <1>5, <1>6, CountAddsUp
<1>8. sum = AddUp(size, bs, sum)
  <2> HIDE DEF next
  <2>1. sum = next(sum)
    BY <1>7, Zenon
  <2> HIDE DEF sum, size
  <2> QED
    BY <1>6, <2>1
<1>9. sum[bs] = Cardinality(Cover(part, bs))
  <2> HIDE DEF sum, size, part
  <2> QED
    BY <1>3, <1>4, <1>5, <1>8, SumIsCount
<1>10. Cover(part, bs) = {u \in 1 .. Units : \E b \in bs : InBlock(b, u)}
  <2>1. \A b \in bs : \A u : u \in part[b] <=> u \in 1 .. Units /\ b.at <= u /\ u < b.at + UnitsFor(b.bytes)
    BY <1>2, <1>3
  <2>2. \A u : u \in Cover(part, bs) <=> \E b \in bs : u \in part[b]
    BY DEF Cover
  <2> HIDE DEF part
  <2> QED
    BY <2>1, <2>2 DEF InBlock
<1> HIDE DEF sum, part
<1> QED
  BY <1>1, <1>9, <1>10

(* The heap is the free units and the units of the live blocks.              *)
LEMMA HeapInvSpace ==
  ASSUME HeapAssumption, HeapInv
  PROVE  SpaceExact
<1> DEFINE F == {u \in 1 .. Units : IsFree(free, u)}
           B == {u \in 1 .. Units : \E b \in live : InBlock(b, u)}
<1> SUFFICES ASSUME inited
             PROVE  Space(free) + FoldSet(LAMBDA b, sum : UnitsFor(b.bytes) + sum, 0, live) = Units
  BY DEF SpaceExact
<1>1. /\ List(free) /\ Exact(free, live) /\ Blocks(live) /\ live \subseteq [at : 1 .. Units, bytes : Requests]
  BY DEF HeapInv, FreeList, Types
<1>2. Space(free) = Cardinality(F)
  BY <1>1, SpaceIs
<1>3. FoldSet(LAMBDA b, sum : UnitsFor(b.bytes) + sum, 0, live) = Cardinality(B)
  BY <1>1, LiveIs
<1>4. F \cup B = 1 .. Units /\ F \cap B = {}
  BY <1>1 DEF Exact
<1>5. IsFiniteSet(1 .. Units) /\ Cardinality(1 .. Units) = Units /\ Units \in Nat
  BY FS_Interval, RequestFields
<1>6. IsFiniteSet(F) /\ IsFiniteSet(B)
  <2>1. F \in SUBSET (1 .. Units) /\ B \in SUBSET (1 .. Units)
    OBVIOUS
  <2> HIDE DEF F, B
  <2> QED
    BY <1>5, <2>1, FS_Subset
<1> HIDE DEF F, B
<1>7. Cardinality(F) \in Nat /\ Cardinality(B) \in Nat
  BY <1>6, FS_CardinalityType
<1>8. Cardinality(F \cup B) = Cardinality(F) + Cardinality(B) - Cardinality(F \cap B)
  BY <1>6, FS_Union
<1>9. Cardinality(F \cap B) = 0
  BY <1>4, FS_EmptySet
<1>10. Cardinality(F \cup B) = Units
  BY <1>4, <1>5, Zenon
<1>11. Cardinality(F) + Cardinality(B) = Units
  BY <1>7, <1>8, <1>9, <1>10
<1> QED
  BY <1>2, <1>3, <1>11, Zenon

LEMMA HeapAlways ==
  ASSUME HeapAssumption
  PROVE  Spec => []HeapInv
<1>1. Init => HeapInv
  BY InitHeap
<1>2. HeapInv /\ [Next]_vars => HeapInv'
  BY HeapStep
<1> QED
  BY <1>1, <1>2, PTL DEF Spec

(* tcm_heap.c keeps the types of its list, of the blocks and of what it      *)
(* returns: no chunk and no block ever reaches beyond the heap.              *)
THEOREM TypeCorrect ==
  ASSUME HeapAssumption
  PROVE  Spec => []TypeOK
<1>1. HeapInv => TypeOK
  BY DEF HeapInv, Types, TypeOK
<1> QED
  BY <1>1, HeapAlways, PTL

(* tcm_heap_allocmem and tcm_heap_freemem: after any sequence of calls the   *)
(* list is sorted and merged, and it holds exactly the units that no live    *)
(* block has, in a heap of any size and for blocks of any sizes.             *)
THEOREM FreeListExactHolds ==
  ASSUME HeapAssumption
  PROVE  Spec => []FreeListExact
<1>1. HeapInv => FreeListExact
  BY HeapInvExact
<1> QED
  BY <1>1, HeapAlways, PTL

(* tcm_heap_freeSpace: after any sequence of calls the free chunks add up to *)
(* the heap's size less what each live block was rounded up to, so that no   *)
(* unit is lost when chunks are split, merged and unlinked.                  *)
THEOREM SpaceExactHolds ==
  ASSUME HeapAssumption
  PROVE  Spec => []SpaceExact
<1>1. HeapInv => SpaceExact
  BY HeapInvSpace
<1> QED
  BY <1>1, HeapAlways, PTL

(* The list implements the promise of module Allocator: no two live blocks   *)
(* share a unit, and tcm_heap_allocmem returns NULL only when no run of free *)
(* units, in one chunk or in several, is long enough.                        *)
THEOREM AllocatorSpecHolds ==
  ASSUME HeapAssumption
  PROVE  Spec => AllocatorSpec
<1>1. Init => Abstract!Init
  BY DEF Init, Abstract!Init
<1>2. HeapInv /\ [Next]_vars => [Abstract!Next]_<<live, got>>
  BY HeapStep
<1> QED
  BY <1>1, <1>2, HeapAlways, PTL DEF Spec, AllocatorSpec, Abstract!Spec
=============================================================================
