--------------------------- MODULE SequenceFacts ----------------------------
(* What the operators on sequences and on sets of numbers that the modules   *)
(* use return: the lemmas that several of the proofs rest on.                *)
EXTENDS Integers, SequencesExt, TLAPS, WellFoundedInduction, FiniteSetTheorems

-----------------------------------------------------------------------------
(* The first and the last of some places.                                    *)

LEMMA MinIsFirst ==
  ASSUME NEW S \in SUBSET Nat, S # {}
  PROVE  Min(S) \in S /\ \A x \in S : Min(S) <= x
<1> DEFINE R == OpToRel(<, Nat)
<1>1. IsWellFoundedOn(R, Nat)
  BY NatLessThanWellFounded
<1>2. PICK x \in S : \A y \in S : ~ (<<y, x>> \in R)
  BY <1>1, WFMin
<1>3. \A y \in S : x <= y
  <2> SUFFICES ASSUME NEW y \in S, y < x PROVE FALSE
    OBVIOUS
  <2>1. <<y, x>> \in R
    BY DEF OpToRel
  <2> QED
    BY <1>2, <2>1
<1> QED
  BY <1>3 DEF Min

LEMMA MaxIsLast ==
  ASSUME NEW n \in Nat, NEW S \in SUBSET (0 .. n), S # {}
  PROVE  Max(S) \in S /\ \A x \in S : x <= Max(S)
<1> DEFINE T == {k \in 0 .. n : n - k \in S}
<1>1. T \in SUBSET Nat /\ T # {}
  <2>1. PICK x \in S : TRUE
    OBVIOUS
  <2>2. n - x \in 0 .. n /\ n - (n - x) = x
    OBVIOUS
  <2>3. n - x \in T
    BY <2>2
  <2>4. T \subseteq Nat
    OBVIOUS
  <2> QED
    BY <2>3, <2>4
<1>2. Min(T) \in T /\ \A k \in T : Min(T) <= k
  BY <1>1, MinIsFirst
<1> DEFINE m == n - Min(T)
<1>3. m \in S
  BY <1>2
<1>4. ASSUME NEW x \in S PROVE x <= m
  <2>1. n - x \in T
    OBVIOUS
  <2> QED
    BY <1>2, <2>1
<1> HIDE DEF m
<1> QED
  BY <1>3, <1>4 DEF Max

-----------------------------------------------------------------------------
(* Sequences: what is appended and taken off, cut out, joined, removed,      *)
(* inserted and changed.                                                     *)

LEMMA Queued ==
  ASSUME NEW S, NEW q \in Seq(S), NEW m \in S
  PROVE  /\ Append(q, m) \in Seq(S) /\ Len(Append(q, m)) = Len(q) + 1 /\ Len(q) \in Nat
         /\ DOMAIN Append(q, m) = 1 .. Len(q) + 1 /\ DOMAIN q = 1 .. Len(q)
         /\ Append(q, m)[Len(q) + 1] = m
         /\ \A i \in 1 .. Len(q) : Append(q, m)[i] = q[i]
OBVIOUS

LEMMA Unqueued ==
  ASSUME NEW S, NEW q \in Seq(S), q # << >>
  PROVE  /\ Tail(q) \in Seq(S) /\ Len(Tail(q)) = Len(q) - 1 /\ Len(q) \in Nat \ {0} /\ Head(q) = q[1]
         /\ DOMAIN Tail(q) = 1 .. Len(q) - 1 /\ DOMAIN q = 1 .. Len(q) /\ q[1] \in S
         /\ \A i \in 1 .. Len(q) - 1 : Tail(q)[i] = q[i + 1]
OBVIOUS

LEMMA Part ==
  ASSUME NEW S, NEW f \in Seq(S), NEW m \in Nat \ {0}, NEW n \in Nat, m <= n + 1, n <= Len(f)
  PROVE  /\ SubSeq(f, m, n) \in Seq(S) /\ Len(SubSeq(f, m, n)) = n - m + 1
         /\ \A j \in 1 .. n - m + 1 : SubSeq(f, m, n)[j] = f[m + j - 1]
OBVIOUS

LEMMA Joined ==
  ASSUME NEW S, NEW f \in Seq(S), NEW g \in Seq(S)
  PROVE  /\ f \o g \in Seq(S) /\ Len(f \o g) = Len(f) + Len(g)
         /\ \A j \in 1 .. Len(f) + Len(g) : (f \o g)[j] = IF j <= Len(f) THEN f[j] ELSE g[j - Len(f)]
OBVIOUS

LEMMA Removed ==
  ASSUME NEW S, NEW f \in Seq(S), NEW i \in 1 .. Len(f)
  PROVE  /\ RemoveAt(f, i) \in Seq(S) /\ Len(RemoveAt(f, i)) = Len(f) - 1
         /\ DOMAIN RemoveAt(f, i) = 1 .. Len(f) - 1
         /\ \A j \in 1 .. Len(f) - 1 : RemoveAt(f, i)[j] = IF j < i THEN f[j] ELSE f[j + 1]
<1> DEFINE front == SubSeq(f, 1, i - 1)
           back  == SubSeq(f, i + 1, Len(f))
<1>1. Len(f) \in Nat /\ i \in Nat \ {0} /\ i <= Len(f)
  OBVIOUS
<1>2. front \in Seq(S) /\ Len(front) = i - 1 /\ \A j \in 1 .. i - 1 : front[j] = f[j]
  BY <1>1, Part
<1>3. back \in Seq(S) /\ Len(back) = Len(f) - i /\ \A j \in 1 .. Len(f) - i : back[j] = f[i + j]
  BY <1>1, Part
<1>4. RemoveAt(f, i) = front \o back
  BY DEF RemoveAt
<1> HIDE DEF front, back
<1>5. /\ front \o back \in Seq(S) /\ Len(front \o back) = Len(f) - 1
      /\ \A j \in 1 .. Len(f) - 1 : (front \o back)[j] = IF j <= i - 1 THEN front[j] ELSE back[j - (i - 1)]
  <2>1. /\ front \o back \in Seq(S) /\ Len(front \o back) = Len(front) + Len(back)
        /\ \A j \in 1 .. Len(front) + Len(back) :
             (front \o back)[j] = IF j <= Len(front) THEN front[j] ELSE back[j - Len(front)]
    BY <1>2, <1>3, Joined
  <2>2. Len(front) + Len(back) = Len(f) - 1
    BY <1>1, <1>2, <1>3
  <2> QED
    BY <1>2, <2>1, <2>2
<1>6. \A j \in 1 .. Len(f) - 1 : ~(j < i) => j - (i - 1) \in 1 .. Len(f) - i /\ i + (j - (i - 1)) = j + 1
  BY <1>1
<1>7. \A j \in 1 .. Len(f) - 1 : j < i => j \in 1 .. i - 1
  BY <1>1
<1>8. \A j \in 1 .. Len(f) - 1 : (front \o back)[j] = IF j < i THEN f[j] ELSE f[j + 1]
  BY <1>1, <1>2, <1>3, <1>5, <1>6, <1>7
<1>9. \A g \in Seq(S) : DOMAIN g = 1 .. Len(g)
  OBVIOUS
<1> QED
  BY <1>4, <1>5, <1>8, <1>9

LEMMA Inserted ==
  ASSUME NEW S, NEW f \in Seq(S), NEW i \in 1 .. Len(f) + 1, NEW e \in S
  PROVE  /\ InsertAt(f, i, e) \in Seq(S) /\ Len(InsertAt(f, i, e)) = Len(f) + 1
         /\ DOMAIN InsertAt(f, i, e) = 1 .. Len(f) + 1
         /\ \A j \in 1 .. Len(f) + 1 :
              InsertAt(f, i, e)[j] = IF j < i THEN f[j] ELSE IF j = i THEN e ELSE f[j - 1]
<1> DEFINE front == SubSeq(f, 1, i - 1)
           back  == SubSeq(f, i, Len(f))
           g     == front \o << e >>
<1>1. Len(f) \in Nat /\ i \in Nat \ {0} /\ i <= Len(f) + 1
  OBVIOUS
<1>2. front \in Seq(S) /\ Len(front) = i - 1 /\ \A j \in 1 .. i - 1 : front[j] = f[j]
  BY <1>1, Part
<1>3. /\ back \in Seq(S) /\ Len(back) = Len(f) - i + 1
      /\ \A j \in 1 .. Len(f) - i + 1 : back[j] = f[i + j - 1]
  BY <1>1, Part
<1>4. InsertAt(f, i, e) = (front \o << e >>) \o back
  BY DEF InsertAt
<1> HIDE DEF front, back
<1>5. << e >> \in Seq(S) /\ Len(<< e >>) = 1 /\ << e >>[1] = e
  OBVIOUS
<1>6. /\ g \in Seq(S) /\ Len(g) = i
      /\ \A j \in 1 .. i : g[j] = IF j <= i - 1 THEN front[j] ELSE << e >>[j - (i - 1)]
  BY <1>1, <1>2, <1>5, Joined
<1>7. g[i] = e /\ \A j \in 1 .. i - 1 : g[j] = f[j]
  BY <1>1, <1>2, <1>5, <1>6
<1> HIDE DEF g
<1>8. /\ g \o back \in Seq(S) /\ Len(g \o back) = Len(f) + 1
      /\ \A j \in 1 .. Len(f) + 1 : (g \o back)[j] = IF j <= i THEN g[j] ELSE back[j - i]
  <2>1. /\ g \o back \in Seq(S) /\ Len(g \o back) = Len(g) + Len(back)
        /\ \A j \in 1 .. Len(g) + Len(back) :
             (g \o back)[j] = IF j <= Len(g) THEN g[j] ELSE back[j - Len(g)]
    BY <1>3, <1>6, Joined
  <2>2. Len(g) + Len(back) = Len(f) + 1
    BY <1>1, <1>3, <1>6
  <2> QED
    BY <1>6, <2>1, <2>2
<1>9. \A j \in 1 .. Len(f) + 1 : j > i => j - i \in 1 .. Len(f) - i + 1 /\ i + (j - i) - 1 = j - 1
  BY <1>1
<1>10. \A j \in 1 .. Len(f) + 1 : j < i => j \in 1 .. i - 1
  BY <1>1
<1>11. \A j \in 1 .. Len(f) + 1 :
         (g \o back)[j] = IF j < i THEN f[j] ELSE IF j = i THEN e ELSE f[j - 1]
  BY <1>1, <1>3, <1>7, <1>8, <1>9, <1>10
<1>12. \A h \in Seq(S) : DOMAIN h = 1 .. Len(h)
  OBVIOUS
<1> QED
  BY <1>4, <1>8, <1>11, <1>12 DEF g

LEMMA Changed ==
  ASSUME NEW S, NEW f \in Seq(S), NEW i \in 1 .. Len(f), NEW e \in S
  PROVE  /\ [f EXCEPT ![i] = e] \in Seq(S) /\ Len([f EXCEPT ![i] = e]) = Len(f)
         /\ DOMAIN [f EXCEPT ![i] = e] = 1 .. Len(f)
         /\ \A j \in 1 .. Len(f) : [f EXCEPT ![i] = e][j] = IF j = i THEN e ELSE f[j]
OBVIOUS

-----------------------------------------------------------------------------
(* Sums. What a fold adds up is the size of a set when every summand is the  *)
(* size of a part of it and the parts are disjoint, in whichever order the   *)
(* fold takes them.                                                          *)

Cover(part, s) == UNION {part[x] : x \in s}

Disjoint(part, s) == \A x, y \in s : x # y => part[x] \cap part[y] = {}

(* A fold with + is a function that this maps to itself.                     *)
AddUp(size, S, sum) ==
  [s \in SUBSET S |->
     IF s = {} THEN 0
     ELSE size[CHOOSE x \in s : TRUE] + sum[s \ {CHOOSE x \in s : TRUE}]]

Measured(size, part, S, U) ==
  \A x \in S : part[x] # {} /\ part[x] \subseteq U /\ size[x] = Cardinality(part[x])

Counted(size, part, s, x) ==
  /\ Cardinality(Cover(part, s)) = size[x] + Cardinality(Cover(part, s \ {x}))
  /\ size[x] \in Nat \ {0} /\ Cardinality(Cover(part, s)) \in Nat
  /\ Cardinality(Cover(part, s \ {x})) \in Nat

LEMMA CoverWithout ==
  ASSUME NEW S, NEW U, IsFiniteSet(U), NEW size, NEW part,
         Measured(size, part, S, U), Disjoint(part, S),
         NEW s \in SUBSET S, NEW x \in s
  PROVE  Counted(size, part, s, x)
<1> DEFINE rest == Cover(part, s \ {x})
<1>1. Cover(part, s) = part[x] \cup rest
  BY DEF Cover
<1>2. part[x] \cap rest = {}
  BY DEF Cover, Disjoint
<1>3. part[x] \subseteq U /\ rest \subseteq U /\ part[x] # {} /\ size[x] = Cardinality(part[x])
  BY DEF Cover, Measured
<1>4. IsFiniteSet(part[x]) /\ IsFiniteSet(rest)
  BY <1>3, FS_Subset
<1> HIDE DEF rest
<1>5. Cardinality(part[x]) \in Nat /\ Cardinality(rest) \in Nat
  BY <1>4, FS_CardinalityType
<1>6. Cardinality(part[x]) # 0
  BY <1>3, <1>4, FS_EmptySet
<1>7. Cardinality(part[x] \cup rest) = Cardinality(part[x]) + Cardinality(rest) - Cardinality(part[x] \cap rest)
  BY <1>4, FS_Union
<1>8. Cardinality(part[x] \cap rest) = 0
  BY <1>2, FS_EmptySet
<1> QED
  BY <1>1, <1>3, <1>5, <1>6, <1>7, <1>8 DEF rest, Counted

(* The sizes of the covers add up, so there is a function that does.         *)
LEMMA CountAddsUp ==
  ASSUME NEW S, NEW U, IsFiniteSet(U), NEW size, NEW part,
         Measured(size, part, S, U), Disjoint(part, S)
  PROVE  \E count : count = AddUp(size, S, count)
<1> DEFINE count == [s \in SUBSET S |-> Cardinality(Cover(part, s))]
<1>1. ASSUME NEW s \in SUBSET S, s = {} PROVE Cardinality(Cover(part, s)) = 0
  BY <1>1, FS_EmptySet DEF Cover
<1>2. ASSUME NEW s \in SUBSET S, s # {}
      PROVE  Cardinality(Cover(part, s))
               = size[CHOOSE x \in s : TRUE] + count[s \ {CHOOSE x \in s : TRUE}]
  <2>1. PICK c \in s : c = CHOOSE x \in s : TRUE
    BY <1>2
  <2>2. Cardinality(Cover(part, s)) = size[c] + Cardinality(Cover(part, s \ {c}))
    <3>1. Counted(size, part, s, c)
      BY CoverWithout
    <3> QED
      BY <3>1 DEF Counted
  <2>3. s \ {c} \in SUBSET S
    OBVIOUS
  <2>4. count[s \ {c}] = Cardinality(Cover(part, s \ {c}))
    BY <2>3
  <2> QED
    BY <2>1, <2>2, <2>4
<1>3. count = AddUp(size, S, count)
  BY <1>1, <1>2 DEF AddUp
<1> HIDE DEF count
<1> QED
  BY <1>3

LEMMA SumIsCount ==
  ASSUME NEW S, NEW U, IsFiniteSet(U), NEW size, NEW part,
         Measured(size, part, S, U), Disjoint(part, S),
         NEW sum, sum = AddUp(size, S, sum)
  PROVE  sum[S] = Cardinality(Cover(part, S))
<1> DEFINE count(s) == Cardinality(Cover(part, s))
           bad      == {s \in SUBSET S : sum[s] # count(s)}
           places   == {n \in Nat : \E s \in bad : n = count(s)}
<1> SUFFICES ASSUME bad # {} PROVE FALSE
  <2>1. S \in SUBSET S
    OBVIOUS
  <2> QED
    BY <2>1
<1>1. ASSUME NEW s \in bad PROVE s # {}
  <2>1. s \in SUBSET S /\ sum[s] # count(s)
    OBVIOUS
  <2>2. s = {} => count(s) = 0 /\ sum[s] = 0
    BY <2>1, FS_EmptySet DEF Cover, AddUp
  <2> QED
    BY <2>1, <2>2
<1>2. ASSUME NEW s \in bad PROVE count(s) \in Nat
  <2>1. PICK x \in s : TRUE
    BY <1>1
  <2>2. Counted(size, part, s, x)
    BY <2>1, CoverWithout
  <2> QED
    BY <2>2 DEF Counted
<1>3. places \in SUBSET Nat /\ places # {}
  BY <1>2
<1>4. Min(places) \in places /\ \A n \in places : Min(places) <= n
  BY <1>3, MinIsFirst
<1>5. PICK s \in bad : Min(places) = count(s)
  BY <1>4
<1>6. s \in SUBSET S /\ s # {} /\ sum[s] # count(s)
  BY <1>1, <1>5
<1>7. PICK c \in s : c = CHOOSE x \in s : TRUE
  BY <1>6
<1>8. sum[s] = size[c] + sum[s \ {c}]
  <2>1. AddUp(size, S, sum)[s] = size[c] + sum[s \ {c}]
    BY <1>6, <1>7 DEF AddUp
  <2> QED
    BY <2>1
<1>9. count(s) = size[c] + count(s \ {c}) /\ size[c] \in Nat \ {0} /\ count(s) \in Nat /\ count(s \ {c}) \in Nat
  <2>1. Counted(size, part, s, c)
    BY <1>6, CoverWithout
  <2> QED
    BY <2>1 DEF Counted
<1>10. s \ {c} \in bad
  <2>1. s \ {c} \in SUBSET S
    BY <1>6
  <2>2. sum[s \ {c}] # count(s \ {c})
    BY <1>6, <1>8, <1>9
  <2> QED
    BY <2>1, <2>2
<1>11. count(s \ {c}) \in places
  BY <1>9, <1>10
<1> HIDE DEF places, bad, count
<1>12. count(s) <= count(s \ {c})
  BY <1>4, <1>5, <1>11
<1> QED
  BY <1>9, <1>12
=============================================================================
