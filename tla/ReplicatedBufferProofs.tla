------------------------ MODULE ReplicatedBufferProofs ------------------------
(***************************************************************************)
(* Copies that have observed the same operations are the same, for any     *)
(* replicas, edits, undos and messages, and undoing gives back the text     *)
(* that was there before.                                                  *)
(***************************************************************************)
EXTENDS ReplicatedBuffer, FiniteSetTheorems, SequenceTheorems, WellFoundedInduction, TLAPS

-----------------------------------------------------------------------------
(* Induction over the natural numbers, stated for sets                     *)

LEMMA LeastOf ==
    ASSUME NEW T, T \subseteq Nat, T # {}
    PROVE  \E n \in T : \A m \in T : n <= m
<1>1. IsWellFoundedOn(OpToRel(<, Nat), Nat)
  BY NatLessThanWellFounded, Zenon
<1>2. PICK n \in T : \A m \in T : <<m, n>> \notin OpToRel(<, Nat)
  BY <1>1, WFMin, Zenon
<1>3. \A m \in T : ~(m < n)
  BY <1>2 DEF OpToRel
<1> QED
  BY <1>3

LEMMA Induct ==
    ASSUME NEW T, 0 \in T, \A n \in Nat : n \in T => n + 1 \in T
    PROVE  Nat \subseteq T
<1>1. ASSUME Nat \ T # {} PROVE FALSE
  <2>1. PICK n \in Nat \ T : \A m \in Nat \ T : n <= m
    BY <1>1, LeastOf
  <2>2. n # 0 /\ n - 1 \in Nat
    BY <2>1
  <2>3. n - 1 \in T
    BY <2>1, <2>2
  <2> QED
    BY <2>1, <2>2, <2>3
<1> QED
  BY <1>1

LEMMA GreatestOf ==
    ASSUME NEW n \in Nat, NEW T \in SUBSET (0 .. n), T # {}
    PROVE  \E k \in T : \A m \in T : m <= k
<1> DEFINE D == {d \in Nat : n - d \in T}
<1>1. D # {}
  <2>1. PICK m \in T : TRUE
    OBVIOUS
  <2>2. n - m \in D
    BY <2>1
  <2> QED
    BY <2>2
<1>2. PICK d \in D : \A e \in D : d <= e
  BY <1>1, LeastOf
<1>3. \A m \in T : n - m \in D
  OBVIOUS
<1> QED
  BY <1>2, <1>3

LEMMA MaxIs ==
    ASSUME NEW n \in Nat, NEW T \in SUBSET (0 .. n), T # {}
    PROVE  Max(T) \in T /\ \A m \in T : m <= Max(T)
<1>1. \E k \in T : \A m \in T : k >= m
  BY GreatestOf
<1> QED
  BY <1>1 DEF Max

LEMMA MinIs ==
    ASSUME NEW T \in SUBSET Nat, T # {}
    PROVE  Min(T) \in T /\ \A m \in T : Min(T) <= m
<1>1. \E k \in T : \A m \in T : k <= m
  BY LeastOf
<1> QED
  BY <1>1 DEF Min

-----------------------------------------------------------------------------
(* Counting: how many of the first i numbers are in a set                  *)

Count(J, i) == Cardinality({j \in 1 .. i : j \in J})

LEMMA CountZero ==
    ASSUME NEW J
    PROVE  Count(J, 0) = 0
<1>1. {j \in 1 .. 0 : j \in J} = {}
  OBVIOUS
<1> QED
  BY <1>1, FS_EmptySet DEF Count

LEMMA CountStep ==
    ASSUME NEW J, NEW i \in Nat
    PROVE  /\ Count(J, i) \in Nat
           /\ Count(J, i + 1) = IF i + 1 \in J THEN Count(J, i) + 1 ELSE Count(J, i)
<1> DEFINE A == {j \in 1 .. i : j \in J}
           B == {j \in 1 .. i + 1 : j \in J}
<1>1. IsFiniteSet(A) /\ Cardinality(A) \in Nat
  <2>1. IsFiniteSet(1 .. i)
    BY FS_Interval
  <2>2. A \subseteq 1 .. i
    OBVIOUS
  <2> QED
    BY <2>1, <2>2, FS_Subset, FS_CardinalityType
<1>2. CASE i + 1 \in J
  <2>1. B = A \cup {i + 1} /\ i + 1 \notin A
    BY <1>2
  <2>2. Cardinality(A \cup {i + 1}) = Cardinality(A) + 1
    BY <1>1, <2>1, FS_AddElement
  <2> QED
    BY <1>1, <1>2, <2>1, <2>2 DEF Count
<1>3. CASE i + 1 \notin J
  <2>1. B = A
    BY <1>3
  <2> QED
    BY <1>1, <1>3, <2>1 DEF Count
<1> QED
  BY <1>2, <1>3

LEMMA CountNat ==
    ASSUME NEW J, NEW i \in Nat
    PROVE  Count(J, i) \in Nat
BY CountStep

LEMMA CountMonotone ==
    ASSUME NEW J, NEW i \in Nat, NEW k \in Nat, i <= k
    PROVE  Count(J, i) <= Count(J, k)
<1> DEFINE T == {d \in Nat : Count(J, i) <= Count(J, i + d)}
<1>1. 0 \in T
  BY CountNat
<1>2. \A d \in Nat : d \in T => d + 1 \in T
  <2> SUFFICES ASSUME NEW d \in Nat, d \in T PROVE d + 1 \in T
    OBVIOUS
  <2>1. i + d \in Nat /\ i + (d + 1) = (i + d) + 1
    OBVIOUS
  <2> QED
    BY <2>1, CountStep
<1>3. Nat \subseteq T
  <2> HIDE DEF T
  <2> QED
    BY <1>1, <1>2, Induct
<1>4. k - i \in Nat /\ i + (k - i) = k
  OBVIOUS
<1> QED
  BY <1>3, <1>4

\* The members counted are the first ones.
LEMMA CountStrict ==
    ASSUME NEW J, NEW i \in Nat, NEW k \in Nat, i < k, k \in J
    PROVE  Count(J, i) < Count(J, k)
<1>1. k - 1 \in Nat /\ i <= k - 1 /\ (k - 1) + 1 = k
  OBVIOUS
<1>2. Count(J, i) <= Count(J, k - 1)
  BY <1>1, CountMonotone
<1>3. Count(J, k) = Count(J, k - 1) + 1
  BY <1>1, CountStep
<1> QED
  BY <1>1, <1>2, <1>3, CountNat

LEMMA CountReaches ==
    ASSUME NEW J, NEW m \in Nat, NEW n \in 0 .. Count(J, m)
    PROVE  \E i \in 0 .. m : Count(J, i) = n
<1> DEFINE T == {i \in Nat : i <= m /\ Count(J, i) >= n}
<1>1. m \in T
  BY CountNat
<1>2. PICK i \in T : \A k \in T : i <= k
  BY <1>1, LeastOf
<1>3. CASE i = 0
  BY <1>2, <1>3, CountZero
<1>4. CASE i # 0
  <2>1. i - 1 \in Nat /\ i - 1 \notin T /\ (i - 1) + 1 = i
    BY <1>2, <1>4
  <2>2. Count(J, i - 1) < n
    BY <1>2, <2>1, CountNat
  <2>3. Count(J, i) <= Count(J, i - 1) + 1
    BY <2>1, CountStep
  <2> QED
    BY <1>2, <2>1, <2>2, <2>3, CountNat
<1> QED
  BY <1>3, <1>4

-----------------------------------------------------------------------------
(* The order of characters.  A character is named by the edit that inserted *)
(* it and its place in the inserted text.                                   *)

Name == [value : Nat, replica : Nat] \X Nat

\* In the order of timestamps, then as inserted.
Less(x, y) == Before(x[1], y[1]) \/ (x[1] = y[1] /\ x[2] < y[2])

LEMMA LessOrder ==
    /\ \A x \in Name : ~Less(x, x)
    /\ \A x, y, z \in Name : Less(x, y) /\ Less(y, z) => Less(x, z)
    /\ \A x, y \in Name : x # y => Less(x, y) \/ Less(y, x)
<1>1. \A x \in Name : /\ x = <<x[1], x[2]>> /\ x[2] \in Nat
                      /\ x[1] = [value |-> x[1].value, replica |-> x[1].replica]
                      /\ x[1].value \in Nat /\ x[1].replica \in Nat
  BY DEF Name
<1>2. \A x, y \in Name : x[1].value = y[1].value /\ x[1].replica = y[1].replica => x[1] = y[1]
  BY <1>1
<1>3. \A x, y \in Name : x[1] = y[1] /\ x[2] = y[2] => x = y
  BY <1>1
<1>4. ASSUME NEW x \in Name
      PROVE  ~Less(x, x)
  <2>1. x[1].value \in Nat /\ x[1].replica \in Nat /\ x[2] \in Nat
    BY <1>1
  <2> QED
    BY <2>1 DEF Less, Before
<1>5. ASSUME NEW x \in Name, NEW y \in Name, NEW z \in Name, Less(x, y), Less(y, z)
      PROVE  Less(x, z)
  <2>1. /\ x[1].value \in Nat /\ x[1].replica \in Nat /\ x[2] \in Nat
        /\ y[1].value \in Nat /\ y[1].replica \in Nat /\ y[2] \in Nat
        /\ z[1].value \in Nat /\ z[1].replica \in Nat /\ z[2] \in Nat
    BY <1>1
  <2> QED
    BY <1>5, <2>1 DEF Less, Before
<1>6. ASSUME NEW x \in Name, NEW y \in Name, x # y
      PROVE  Less(x, y) \/ Less(y, x)
  <2>1. /\ x[1].value \in Nat /\ x[1].replica \in Nat /\ x[2] \in Nat
        /\ y[1].value \in Nat /\ y[1].replica \in Nat /\ y[2] \in Nat
    BY <1>1
  <2>2. CASE x[1] = y[1]
    BY <1>3, <1>6, <2>1, <2>2 DEF Less
  <2>3. CASE x[1] # y[1]
    BY <1>2, <2>1, <2>3 DEF Less, Before
  <2> QED
    BY <2>2, <2>3
<1> QED
  BY <1>4, <1>5, <1>6

LEMMA LeastName ==
    ASSUME NEW T \in SUBSET Name, T # {}
    PROVE  \E x \in T : \A y \in T : ~Less(y, x)
<1>0. \A x \in T : /\ x[2] \in Nat /\ x[1].value \in Nat /\ x[1].replica \in Nat
  BY DEF Name
<1> DEFINE V == {x[1].value : x \in T}
<1>1. PICK v \in V : \A w \in V : v <= w
  <2>1. V \subseteq Nat /\ V # {}
    BY <1>0
  <2> QED
    BY <2>1, LeastOf
<1> DEFINE R == {x[1].replica : x \in {y \in T : y[1].value = v}}
<1>2. PICK r \in R : \A w \in R : r <= w
  <2>1. R \subseteq Nat /\ R # {}
    BY <1>0, <1>1
  <2> HIDE DEF R
  <2> QED
    BY <2>1, LeastOf
<1> DEFINE O == {x[2] : x \in {y \in T : y[1].value = v /\ y[1].replica = r}}
<1>3. PICK o \in O : \A w \in O : o <= w
  <2>1. O \subseteq Nat /\ O # {}
    BY <1>0, <1>2
  <2> HIDE DEF O
  <2> QED
    BY <2>1, LeastOf
<1>4. PICK x \in T : x[1].value = v /\ x[1].replica = r /\ x[2] = o
  BY <1>3
<1>5. ASSUME NEW y \in T, Less(y, x) PROVE FALSE
  <2>1. v <= y[1].value
    BY <1>1
  <2>2. y[1].value = v => r <= y[1].replica
    BY <1>2
  <2>3. y[1].value = v /\ y[1].replica = r => o <= y[2]
    BY <1>3
  <2> QED
    BY <1>0, <1>4, <1>5, <2>1, <2>2, <2>3 DEF Less, Before
<1> QED
  BY <1>5

\* The names a[1], ..., a[m] are laid out as the edits say: each comes after
\* the character it was typed behind, org[a[i]], and all that stand in between
\* have later timestamps.  a[0] is the start of the document.
Laid(a, m, org) ==
    /\ a \in [0 .. m -> Name]
    /\ \A i, j \in 0 .. m : a[i] = a[j] => i = j
    /\ \A i \in 1 .. m : \E h \in 0 .. i - 1 :
          a[h] = org[a[i]] /\ \A k \in h + 1 .. i - 1 : Before(a[i][1], a[k][1])

\* a and b agree that the names of S are there, with those they stand behind.
Shared(a, m, b, n, org, S) ==
    /\ a[0] = b[0]
    /\ \A x \in S : (\E i \in 0 .. m : a[i] = x) /\ (\E j \in 0 .. n : b[j] = x)
    /\ \A x \in S : x # a[0] => org[x] \in S /\ Less(org[x], x)

\* z is the later of two names that a and b have in different orders.
Cross(a, m, b, n, S, z) ==
    \E i, k \in 0 .. m, j, l \in 0 .. n :
        /\ a[i] = b[j] /\ a[i] \in S /\ a[k] = z /\ b[l] = z
        /\ i < k /\ l < j /\ Less(a[i], z)

LEMMA CrossStep ==
    ASSUME NEW m \in Nat, NEW n \in Nat, NEW a, NEW b, NEW org, NEW S \in SUBSET Name,
           Laid(a, m, org), Laid(b, n, org), Shared(a, m, b, n, org, S),
           NEW z \in S, Cross(a, m, b, n, S, z)
    PROVE  \E y \in S : Less(y, z) /\ (Cross(a, m, b, n, S, y) \/ Cross(b, n, a, m, S, y))
<1>1. PICK i \in 0 .. m, k \in 0 .. m, j \in 0 .. n, l \in 0 .. n :
        /\ a[i] = b[j] /\ a[i] \in S /\ a[k] = z /\ b[l] = z
        /\ i < k /\ l < j /\ Less(a[i], z)
  BY DEF Cross
<1>2. k \in 1 .. m
  BY <1>1
<1>3. l \in 1 .. n
  <2>1. a[0] # z
    BY <1>1, <1>2 DEF Laid
  <2> QED
    BY <1>1, <2>1 DEF Shared
<1>4. PICK h \in 0 .. k - 1 :
        a[h] = org[z] /\ \A p \in h + 1 .. k - 1 : Before(z[1], a[p][1])
  BY <1>1, <1>2 DEF Laid
<1>5. PICK g \in 0 .. l - 1 : b[g] = org[z]
  BY <1>1, <1>3 DEF Laid
<1>6. org[z] \in S /\ Less(org[z], z)
  <2>1. a[0] # z
    BY <1>1, <1>2 DEF Laid
  <2> QED
    BY <2>1 DEF Shared
<1>7. a[i] \in Name /\ org[z] \in Name /\ z \in Name
  BY <1>1, <1>6
<1>8. i < h
  <2>1. i # h
    <3>1. ASSUME i = h PROVE FALSE
      <4>1. b[j] = b[g]
        BY <1>1, <1>4, <1>5, <3>1
      <4>2. j \in 0 .. n /\ g \in 0 .. n /\ j # g
        BY <1>1, <1>3, <1>5
      <4> QED
        BY <4>1, <4>2 DEF Laid
    <3> QED
      BY <3>1
  <2>2. ASSUME h < i PROVE FALSE
    <3>1. Before(z[1], a[i][1])
      BY <1>1, <1>4, <2>2
    <3>2. Less(z, a[i])
      BY <3>1 DEF Less
    <3> QED
      BY <1>1, <1>7, <3>2, LessOrder
  <2> QED
    BY <1>1, <1>4, <2>1, <2>2
<1>9. h \in 0 .. m /\ g \in 0 .. n /\ g < j
  BY <1>1, <1>3, <1>4, <1>5
<1>10. a[i] # org[z]
  BY <1>1, <1>4, <1>8, <1>9 DEF Laid
<1>11. CASE Less(a[i], org[z])
  <2>1. Cross(a, m, b, n, S, org[z])
    BY <1>1, <1>4, <1>5, <1>8, <1>9, <1>11 DEF Cross
  <2> QED
    BY <1>6, <2>1
<1>12. CASE Less(org[z], a[i])
  <2>1. Cross(b, n, a, m, S, a[i])
    BY <1>1, <1>4, <1>5, <1>6, <1>8, <1>9, <1>12 DEF Cross
  <2> QED
    BY <1>1, <2>1
<1> QED
  BY <1>7, <1>10, <1>11, <1>12, LessOrder

\* Two documents laid out as the same edits say have what they share in the
\* same order.
LEMMA OrderAgrees ==
    ASSUME NEW m \in Nat, NEW n \in Nat, NEW a, NEW b, NEW org, NEW S \in SUBSET Name,
           Laid(a, m, org), Laid(b, n, org), Shared(a, m, b, n, org, S),
           NEW i \in 0 .. m, NEW k \in 0 .. m, NEW j \in 0 .. n, NEW l \in 0 .. n,
           a[i] \in S, a[k] \in S, a[i] = b[j], a[k] = b[l], i < k
    PROVE  j < l
<1> DEFINE B == {z \in S : Cross(a, m, b, n, S, z) \/ Cross(b, n, a, m, S, z)}
<1>1. B = {}
  <2>1. ASSUME B # {} PROVE FALSE
    <3>1. PICK z \in B : \A y \in B : ~Less(y, z)
      <4>1. B \in SUBSET Name
        OBVIOUS
      <4> HIDE DEF B
      <4> QED
        BY <2>1, <4>1, LeastName
    <3>2. Shared(b, n, a, m, org, S)
      BY DEF Shared
    <3>3. \E y \in S : Less(y, z) /\ (Cross(a, m, b, n, S, y) \/ Cross(b, n, a, m, S, y))
      BY <3>1, <3>2, CrossStep
    <3> QED
      BY <3>1, <3>3
  <2> QED
    BY <2>1
<1>2. ASSUME l < j PROVE FALSE
  <2>1. a[i] # a[k] /\ a[i] \in Name /\ a[k] \in Name
    BY DEF Laid
  <2>2. CASE Less(a[i], a[k])
    <3>1. Cross(a, m, b, n, S, a[k])
      BY <1>2, <2>2 DEF Cross
    <3> QED
      BY <1>1, <3>1
  <2>3. CASE Less(a[k], a[i])
    <3>1. Cross(b, n, a, m, S, a[i])
      BY <1>2, <2>3 DEF Cross
    <3> QED
      BY <1>1, <3>1
  <2> QED
    BY <2>1, <2>2, <2>3, LessOrder
<1>3. j # l
  BY DEF Laid
<1> QED
  BY <1>2, <1>3

-----------------------------------------------------------------------------
(* Documents                                                               *)

Char == [stamp : Stamp, offset : Nat, deletions : SUBSET Stamp, visible : BOOLEAN]

LEMMA StampFacts ==
    /\ Author \subseteq Nat /\ LOCAL_ID \in Author /\ Replica \subseteq Author
    /\ \A s \in Stamp : /\ s.value \in Nat /\ s.replica \in Author /\ s.replica \in Nat
                        /\ s = [value |-> s.value, replica |-> s.replica]
    /\ \A s \in Stamp, k \in Nat : <<s, k>> \in Name
<1>1. Author \subseteq Nat /\ LOCAL_ID \in Author /\ Replica \subseteq Author
  BY BufferAssumption DEF Author, LOCAL_ID
<1>2. \A s \in Stamp : /\ s.value \in Nat /\ s.replica \in Author
                       /\ s = [value |-> s.value, replica |-> s.replica]
  BY DEF Stamp
<1>3. \A s \in Stamp, k \in Nat : <<s, k>> \in Name
  BY <1>1, <1>2 DEF Name
<1> QED
  BY <1>1, <1>2, <1>3

LEMMA JoinIs ==
    ASSUME NEW C, NEW p \in Seq(C), NEW q \in Seq(C)
    PROVE  /\ p \o q \in Seq(C) /\ Len(p \o q) = Len(p) + Len(q)
           /\ \A i \in 1 .. Len(p) + Len(q) :
                 (p \o q)[i] = IF i <= Len(p) THEN p[i] ELSE q[i - Len(p)]
BY ConcatProperties

LEMMA ReplaceIs ==
    ASSUME NEW d \in Seq(Char), NEW edit, edit.stamp \in Stamp, edit.len \in Nat,
           NEW f \in 0 .. Len(d), NEW t \in f .. Len(d), NEW shown
    PROVE  LET r == Replace(d, f, t, edit, shown)
               n == edit.len
           IN  /\ r \in Seq(Char) /\ Len(r) = Len(d) + n
               /\ \A i \in 1 .. f : r[i] = d[i]
               /\ \A i \in 1 .. n : r[f + i] = [stamp |-> edit.stamp, offset |-> i,
                                                deletions |-> {}, visible |-> TRUE]
               /\ \A i \in f + 1 .. Len(d) :
                     r[i + n] = IF i <= t /\ i \in shown THEN Delete(d[i], edit.stamp) ELSE d[i]
<1> DEFINE n == edit.len
           a == SubSeq(d, 1, f)
           b == Inserted(edit.stamp, n)
           c == [i \in 1 .. (t - f) |->
                   IF f + i \in shown THEN Delete(d[f + i], edit.stamp) ELSE d[f + i]]
           e == SubSeq(d, t + 1, Len(d))
<1>0. Len(d) \in Nat /\ n \in Nat /\ f \in Nat /\ t \in Nat /\ f <= t /\ t <= Len(d)
  OBVIOUS
<1>1. \A i \in 1 .. Len(d) : d[i] \in Char /\ Delete(d[i], edit.stamp) \in Char
  <2>1. \A ch \in Char : Delete(ch, edit.stamp) \in Char
    BY DEF Char, Delete
  <2>2. \A i \in 1 .. Len(d) : d[i] \in Char
    OBVIOUS
  <2> QED
    BY <2>1, <2>2, Zenon
<1>2. a \in Seq(Char) /\ Len(a) = f /\ \A i \in 1 .. f : a[i] = d[i]
  BY <1>0, <1>1
<1>3. /\ b \in Seq(Char) /\ Len(b) = n
      /\ \A i \in 1 .. n : b[i] = [stamp |-> edit.stamp, offset |-> i,
                                   deletions |-> {}, visible |-> TRUE]
  <2>1. b = [i \in 1 .. n |-> [stamp |-> edit.stamp, offset |-> i,
                               deletions |-> {}, visible |-> TRUE]]
    BY DEF Inserted
  <2>2. \A i \in 1 .. n : [stamp |-> edit.stamp, offset |-> i,
                           deletions |-> {}, visible |-> TRUE] \in Char
    BY DEF Char
  <2> HIDE DEF b
  <2> QED
    BY <1>0, <2>1, <2>2
<1>4. /\ c \in Seq(Char) /\ Len(c) = t - f
      /\ \A i \in 1 .. t - f :
            c[i] = IF f + i \in shown THEN Delete(d[f + i], edit.stamp) ELSE d[f + i]
  <2>1. t - f \in Nat
    BY <1>0
  <2>2. \A i \in 1 .. t - f : f + i \in 1 .. Len(d)
    BY <1>0
  <2>3. \A i \in 1 .. t - f : c[i] \in Char
    BY <1>1, <2>2
  <2> QED
    BY <2>1, <2>3
<1>5. e \in Seq(Char) /\ Len(e) = Len(d) - t /\ \A i \in 1 .. Len(d) - t : e[i] = d[t + i]
  BY <1>0, <1>1
<1>6. Replace(d, f, t, edit, shown) = ((a \o b) \o c) \o e
  BY DEF Replace
<1> HIDE DEF a, b, c, e
<1> DEFINE ab == a \o b
           abc == ab \o c
           r == abc \o e
<1> HIDE DEF n, ab, abc, r
<1>7. /\ ab \in Seq(Char) /\ Len(ab) = f + n
      /\ \A i \in 1 .. f + n : ab[i] = IF i <= f THEN a[i] ELSE b[i - f]
  <2>1. /\ ab \in Seq(Char) /\ Len(ab) = Len(a) + Len(b)
        /\ \A i \in 1 .. Len(a) + Len(b) : ab[i] = IF i <= Len(a) THEN a[i] ELSE b[i - Len(a)]
    BY <1>2, <1>3, JoinIs, Zenon DEF ab
  <2> QED
    BY <1>2, <1>3, <2>1, Zenon
<1>8. /\ abc \in Seq(Char) /\ Len(abc) = n + t
      /\ \A i \in 1 .. n + t : abc[i] = IF i <= f + n THEN ab[i] ELSE c[i - (f + n)]
  <2>1. /\ abc \in Seq(Char) /\ Len(abc) = Len(ab) + Len(c)
        /\ \A i \in 1 .. Len(ab) + Len(c) : abc[i] = IF i <= Len(ab) THEN ab[i] ELSE c[i - Len(ab)]
    BY <1>7, <1>4, JoinIs, Zenon DEF abc
  <2>2. Len(ab) + Len(c) = n + t
    BY <1>0, <1>4, <1>7
  <2> QED
    BY <1>7, <2>1, <2>2, Zenon
<1>9. /\ r \in Seq(Char) /\ Len(r) = Len(d) + n
      /\ \A i \in 1 .. Len(d) + n : r[i] = IF i <= n + t THEN abc[i] ELSE e[i - (n + t)]
  <2>1. /\ r \in Seq(Char) /\ Len(r) = Len(abc) + Len(e)
        /\ \A i \in 1 .. Len(abc) + Len(e) : r[i] = IF i <= Len(abc) THEN abc[i] ELSE e[i - Len(abc)]
    BY <1>8, <1>5, JoinIs, Zenon DEF r
  <2>2. Len(abc) + Len(e) = Len(d) + n
    BY <1>0, <1>5, <1>8
  <2> QED
    BY <1>8, <2>1, <2>2, Zenon
<1>10. \A i \in 1 .. f : r[i] = d[i]
  BY <1>0, <1>2, <1>7, <1>8, <1>9
<1>11. \A i \in 1 .. n : r[f + i] = b[i]
  <2> SUFFICES ASSUME NEW i \in 1 .. n PROVE r[f + i] = b[i]
    OBVIOUS
  <2>1. /\ f + i \in 1 .. f + n /\ f + i \in 1 .. n + t /\ f + i \in 1 .. Len(d) + n
        /\ ~(f + i <= f) /\ (f + i) - f = i
    BY <1>0
  <2> QED
    BY <1>7, <1>8, <1>9, <2>1
<1>12. ASSUME NEW i \in f + 1 .. Len(d)
       PROVE  r[i + n] = IF i <= t /\ i \in shown THEN Delete(d[i], edit.stamp) ELSE d[i]
  <2>1. CASE i <= t
    <3>1. /\ i + n \in 1 .. n + t /\ i + n \in 1 .. Len(d) + n /\ ~(i + n <= f + n)
          /\ (i + n) - (f + n) = i - f /\ i - f \in 1 .. t - f /\ f + (i - f) = i
      BY <1>0, <2>1
    <3>2. r[i + n] = c[i - f]
      BY <1>8, <1>9, <3>1
    <3>3. c[i - f] = IF i \in shown THEN Delete(d[i], edit.stamp) ELSE d[i]
      BY <1>4, <3>1
    <3> QED
      BY <2>1, <3>2, <3>3
  <2>2. CASE ~(i <= t)
    <3>1. /\ i + n \in 1 .. Len(d) + n /\ ~(i + n <= n + t) /\ (i + n) - (n + t) = i - t
          /\ i - t \in 1 .. Len(d) - t /\ t + (i - t) = i
      BY <1>0, <2>2
    <3>2. r[i + n] = e[i - t]
      BY <1>9, <3>1
    <3>3. e[i - t] = d[i]
      BY <1>5, <3>1
    <3> QED
      BY <2>2, <3>2, <3>3
  <2> QED
    BY <2>1, <2>2
<1>13. r = Replace(d, f, t, edit, shown) /\ r \in Seq(Char) /\ Len(r) = Len(d) + n
  BY <1>6, <1>9, Zenon DEF r, abc, ab
<1>14. \A i \in 1 .. n : r[f + i] = [stamp |-> edit.stamp, offset |-> i,
                                     deletions |-> {}, visible |-> TRUE]
  BY <1>3, <1>11
<1> QED
  BY <1>10, <1>12, <1>13, <1>14, Zenon DEF n

-----------------------------------------------------------------------------
(* What a document is.  S holds the operations made; O gives the character  *)
(* each edit's text was typed behind, X the characters it deleted.          *)

Start == <<[value |-> 0, replica |-> 0], 0>>
Base == [value |-> 1, replica |-> LOCAL_ID]
NameOf(c) == <<c.stamp, c.offset>>
Names(d) == [i \in 0 .. Len(d) |-> IF i = 0 THEN Start ELSE NameOf(d[i])]
Origin(O) == [x \in Name |-> IF x[2] > 1 THEN <<x[1], x[2] - 1>> ELSE O[x[1]]]

\* The characters there are, and those that v has observed.
Written(S) ==
    {x \in Stamp \X Nat : x[2] >= 1 /\
        \/ x[1] = Base /\ x[2] <= BaseLen
        \/ \E op \in S : op.kind = "edit" /\ op.stamp = x[1] /\ x[2] <= op.len}
Made(S, v) == {x \in Written(S) : Observed(v, x[1])}

SeenUndos(S, v) ==
    UNION {UndoEntries(op) : op \in {p \in S : p.kind = "undo" /\ Observed(v, p.stamp)}}

Deleters(S, v, X, x) ==
    {op.stamp : op \in {p \in S : p.kind = "edit" /\ Observed(v, p.stamp)
                                   /\ x \in X[p.stamp]}}

\* A version that observes an operation observes what it was made upon.
VersionSound(S, v) ==
    /\ v \in [Author -> Nat]
    /\ BaseLen > 0 => Observed(v, Base)
    /\ \A op \in S : Observed(v, op.stamp) => ObservedAll(v, op.version)
    /\ \A q \in Author :
          \/ v[q] = 0
          \/ BaseLen > 0 /\ q = LOCAL_ID /\ v[q] = 1
          \/ \E op \in S : op.stamp = [value |-> v[q], replica |-> q]

\* What the document of a copy with version v is made of.
DocSound(S, O, X, d, v) ==
    /\ d \in Seq(Char)
    /\ Laid(Names(d), Len(d), Origin(O))
    /\ {NameOf(d[i]) : i \in 1 .. Len(d)} = Made(S, v)
    /\ \A i \in 1 .. Len(d) :
          /\ d[i].deletions = Deleters(S, v, X, NameOf(d[i]))
          /\ d[i].visible = IsVisible(d[i], SeenUndos(S, v))

\* The author's document when the edit was made.
EditSound(S, O, X, op) ==
    /\ op.len \in Nat
    /\ \E d \in Seq(Char) :
          /\ DocSound(S, O, X, d, op.version)
          /\ op.from \in 0 .. Len(d) /\ op.to \in op.from .. Len(d)
          /\ O[op.stamp] = Names(d)[op.from]
          /\ X[op.stamp] = {NameOf(d[i]) : i \in {j \in op.from + 1 .. op.to : d[j].visible}}

UndoSound(S, op) ==
    /\ op.counts \in [DOMAIN op.counts -> 1 .. Cardinality(S)]
    /\ \A e \in DOMAIN op.counts :
          \E p \in S : p.kind = "edit" /\ p.stamp = e /\ Observed(op.version, e)

OpSound(S, O, X, op) ==
    /\ op.kind \in {"edit", "undo"}
    /\ op.stamp \in Stamp /\ op.stamp.replica \in Replica
    /\ VersionSound(S, op.version)
    /\ \A q \in Author : op.version[q] < op.stamp.value
    /\ \A p \in S : p.stamp.replica = op.stamp.replica /\ p.stamp.value < op.stamp.value
                       => Observed(op.version, p.stamp)
    /\ \A p \in S : p.stamp = op.stamp => p = op
    /\ op.kind = "edit" => EditSound(S, O, X, op)
    /\ op.kind = "undo" => UndoSound(S, op)

OpsSound(S, O, X) ==
    /\ IsFiniteSet(S)
    /\ O \in [Stamp -> Name] /\ X \in [Stamp -> SUBSET Name]
    /\ BaseLen > 0 => O[Base] = Start
    /\ \A op \in S : OpSound(S, O, X, op)

LEMMA MadeWithin ==
    ASSUME NEW S, NEW v \in [Author -> Nat], NEW w \in [Author -> Nat], ObservedAll(v, w)
    PROVE  Made(S, w) = {x \in Made(S, v) : Observed(w, x[1])}
<1>1. \A s \in Stamp : Observed(w, s) => Observed(v, s)
  <2> SUFFICES ASSUME NEW s \in Stamp, Observed(w, s) PROVE Observed(v, s)
    OBVIOUS
  <2>1. s.replica \in Author /\ s.value \in Nat
    BY StampFacts
  <2>2. v[s.replica] \in Nat /\ w[s.replica] \in Nat /\ v[s.replica] >= w[s.replica]
    BY <2>1 DEF ObservedAll
  <2> QED
    BY <2>1, <2>2 DEF Observed
<1>2. \A x \in Written(S) : x[1] \in Stamp
  BY DEF Written
<1> QED
  BY <1>1, <1>2, Zenon DEF Made

LEMMA WrittenFacts ==
    ASSUME NEW S, NEW x \in Written(S)
    PROVE  /\ x \in Name /\ x = <<x[1], x[2]>> /\ x # Start
           /\ x[1] \in Stamp /\ x[1].value \in Nat /\ x[1].replica \in Author
           /\ x[2] \in Nat /\ x[2] >= 1
<1>1. x \in Stamp \X Nat /\ x[2] >= 1
  BY DEF Written
<1>2. x = <<x[1], x[2]>> /\ x[1] \in Stamp /\ x[2] \in Nat
  BY <1>1
<1>3. x \in Name
  <2>1. <<x[1], x[2]>> \in Name
    BY <1>2, StampFacts
  <2> QED
    BY <1>2, <2>1
<1> QED
  BY <1>1, <1>2, <1>3, StampFacts DEF Start

LEMMA DocFacts ==
    ASSUME NEW S, NEW O, NEW X, NEW d, NEW v, DocSound(S, O, X, d, v)
    PROVE  /\ Len(d) \in Nat /\ d \in Seq(Char)
           /\ Names(d)[0] = Start
           /\ \A i \in 1 .. Len(d) :
                 /\ Names(d)[i] = NameOf(d[i]) /\ NameOf(d[i]) \in Made(S, v)
                 /\ NameOf(d[i]) \in Written(S) /\ Observed(v, d[i].stamp)
                 /\ NameOf(d[i])[1] = d[i].stamp
                 /\ d[i] \in Char /\ d[i].stamp \in Stamp
           /\ \A i, j \in 1 .. Len(d) : NameOf(d[i]) = NameOf(d[j]) => i = j
           /\ \A x \in Made(S, v) : \E i \in 1 .. Len(d) : NameOf(d[i]) = x
<1>1. d \in Seq(Char) /\ Len(d) \in Nat
  BY DEF DocSound
<1>2. Names(d)[0] = Start /\ \A i \in 1 .. Len(d) : Names(d)[i] = NameOf(d[i])
  BY <1>1 DEF Names
<1>3. /\ \A i \in 1 .. Len(d) : NameOf(d[i]) \in Made(S, v)
      /\ \A x \in Made(S, v) : \E i \in 1 .. Len(d) : NameOf(d[i]) = x
  BY DEF DocSound
<1>4. \A i, j \in 1 .. Len(d) : NameOf(d[i]) = NameOf(d[j]) => i = j
  <2>1. \A i, j \in 0 .. Len(d) : Names(d)[i] = Names(d)[j] => i = j
    BY DEF DocSound, Laid
  <2> QED
    BY <1>1, <1>2, <2>1
<1>5. \A i \in 1 .. Len(d) : d[i] \in Char /\ d[i].stamp \in Stamp
  <2>1. \A c \in Char : c.stamp \in Stamp
    BY DEF Char
  <2> QED
    BY <1>1, <2>1
<1>6. \A i \in 1 .. Len(d) : /\ NameOf(d[i]) \in Written(S)
                             /\ NameOf(d[i])[1] = d[i].stamp /\ Observed(v, d[i].stamp)
  BY <1>3 DEF Made, NameOf
<1> QED
  BY <1>1, <1>2, <1>3, <1>4, <1>5, <1>6

\* What a character was typed behind is older, and whoever has observed the
\* character has observed it too.
LEMMA OriginEarlier ==
    ASSUME NEW S, NEW O, NEW X, OpsSound(S, O, X), NEW w, VersionSound(S, w),
           NEW x \in Made(S, w)
    PROVE  Origin(O)[x] \in {Start} \cup Made(S, w) /\ Less(Origin(O)[x], x)
<1>1. x \in Written(S) /\ Observed(w, x[1])
  BY DEF Made
<1>2. /\ x \in Name /\ x[1] \in Stamp /\ x[1].value \in Nat /\ x[1].replica \in Author
      /\ x[2] \in Nat /\ x[2] >= 1
  BY <1>1, WrittenFacts
<1>3. CASE x[2] > 1
  <2>1. Origin(O)[x] = <<x[1], x[2] - 1>>
    BY <1>2, <1>3 DEF Origin
  <2> DEFINE y == <<x[1], x[2] - 1>>
  <2>2. y \in Written(S) /\ Less(y, x)
    BY <1>1, <1>2, <1>3, BufferAssumption DEF Written, Less, OpsSound, OpSound, EditSound
  <2> QED
    BY <1>1, <2>1, <2>2 DEF Made
<1>4. CASE x[2] = 1
  <2>1. Origin(O)[x] = O[x[1]]
    BY <1>2, <1>4 DEF Origin
  <2>2. CASE x[1] = Base /\ 1 <= BaseLen
    <3>1. O[x[1]] = Start
      BY <2>2, BufferAssumption DEF OpsSound
    <3>2. Less(Start, x)
      BY <2>2 DEF Less, Before, Start, Base
    <3> QED
      BY <2>1, <3>1, <3>2
  <2>3. CASE \E op \in S : op.kind = "edit" /\ op.stamp = x[1]
    <3>1. PICK op \in S : op.kind = "edit" /\ op.stamp = x[1]
      BY <2>3
    <3>2. OpSound(S, O, X, op)
      BY DEF OpsSound
    <3>3. PICK d \in Seq(Char) :
             /\ DocSound(S, O, X, d, op.version)
             /\ op.from \in 0 .. Len(d) /\ O[op.stamp] = Names(d)[op.from]
      BY <3>1, <3>2, Zenon DEF OpSound, EditSound
    <3>4. /\ op.version \in [Author -> Nat] /\ w \in [Author -> Nat]
          /\ ObservedAll(w, op.version)
          /\ \A q \in Author : op.version[q] < op.stamp.value
      BY <1>1, <3>1, <3>2 DEF OpSound, VersionSound
    <3>5. CASE op.from = 0
      <4>1. O[x[1]] = Start
        BY <3>1, <3>3, <3>5, DocFacts
      <4>2. Less(Start, x)
        <5>1. x[1].value > 0
          <6>1. LOCAL_ID \in Author /\ op.version[LOCAL_ID] \in Nat
            BY <3>4, StampFacts
          <6>2. op.version[LOCAL_ID] < op.stamp.value
            BY <3>4, <6>1
          <6>3. op.stamp.value = x[1].value
            BY <3>1
          <6> QED
            BY <1>2, <6>1, <6>2, <6>3 DEF LOCAL_ID
        <5> QED
          BY <1>2, <5>1 DEF Less, Before, Start
      <4> QED
        BY <2>1, <4>1, <4>2
    <3>6. CASE op.from # 0
      <4> DEFINE y == NameOf(d[op.from])
      <4>1. op.from \in 1 .. Len(d)
        BY <3>3, <3>6, DocFacts
      <4>2. /\ O[x[1]] = y /\ y \in Made(S, op.version)
        BY <3>1, <3>3, <4>1, DocFacts
      <4> HIDE DEF y
      <4>3. y \in Made(S, w) /\ Observed(op.version, y[1]) /\ y \in Written(S)
        <5>1. Made(S, op.version) = {z \in Made(S, w) : Observed(op.version, z[1])}
          BY <3>4, MadeWithin
        <5> QED
          BY <4>2, <5>1 DEF Made
      <4>4. Less(y, x)
        <5>1. y[1].replica \in Author /\ y[1].value \in Nat
          BY <4>3, WrittenFacts
        <5>2. op.version[y[1].replica] < x[1].value /\ op.version[y[1].replica] \in Nat
          BY <3>1, <3>4, <5>1
        <5>3. op.version[y[1].replica] >= y[1].value
          BY <4>3 DEF Observed
        <5>4. y[1].value < x[1].value
          BY <1>2, <5>1, <5>2, <5>3
        <5> QED
          BY <5>4 DEF Less, Before
      <4> QED
        BY <2>1, <4>2, <4>3, <4>4
    <3> QED
      BY <3>5, <3>6
  <2> QED
    BY <1>1, <1>4, <2>2, <2>3 DEF Written
<1> QED
  BY <1>2, <1>3, <1>4

\* A's version is w, d's is v, which has observed all that w has.
LEMMA SameOrder ==
    ASSUME NEW S, NEW O, NEW X, OpsSound(S, O, X),
           NEW v, VersionSound(S, v), NEW w, VersionSound(S, w), ObservedAll(v, w),
           NEW d, DocSound(S, O, X, d, v), NEW A, DocSound(S, O, X, A, w),
           NEW i \in 1 .. Len(d), NEW k \in 1 .. Len(d),
           NEW j \in 1 .. Len(A), NEW l \in 1 .. Len(A),
           NameOf(d[i]) = NameOf(A[j]), NameOf(d[k]) = NameOf(A[l])
    PROVE  i < k <=> j < l
<1> DEFINE T == {Start} \cup Made(S, w)
<1>1. /\ Len(d) \in Nat /\ Len(A) \in Nat /\ Names(d)[0] = Start /\ Names(A)[0] = Start
      /\ \A h \in 1 .. Len(d) : Names(d)[h] = NameOf(d[h])
      /\ \A h \in 1 .. Len(A) : Names(A)[h] = NameOf(A[h]) /\ NameOf(A[h]) \in Made(S, w)
      /\ \A x \in Made(S, v) : \E h \in 1 .. Len(d) : NameOf(d[h]) = x
      /\ \A x \in Made(S, w) : \E h \in 1 .. Len(A) : NameOf(A[h]) = x
  <2>1. /\ Len(d) \in Nat /\ Names(d)[0] = Start
        /\ \A h \in 1 .. Len(d) : Names(d)[h] = NameOf(d[h])
        /\ \A x \in Made(S, v) : \E h \in 1 .. Len(d) : NameOf(d[h]) = x
    BY DocFacts
  <2>2. /\ Len(A) \in Nat /\ Names(A)[0] = Start
        /\ \A h \in 1 .. Len(A) : Names(A)[h] = NameOf(A[h]) /\ NameOf(A[h]) \in Made(S, w)
        /\ \A x \in Made(S, w) : \E h \in 1 .. Len(A) : NameOf(A[h]) = x
    BY DocFacts
  <2> QED
    BY <2>1, <2>2, Zenon
<1>2. T \in SUBSET Name
  <2>1. Start \in Name
    BY DEF Start, Name
  <2>2. \A x \in Made(S, w) : x \in Name
    BY WrittenFacts DEF Made
  <2> QED
    BY <2>1, <2>2
<1>3. \A x \in Made(S, w) : x \in Made(S, v)
  BY MadeWithin DEF VersionSound
<1>4. \A x \in T : x # Start => Origin(O)[x] \in T /\ Less(Origin(O)[x], x)
  BY OriginEarlier
<1>5. \A x \in T : \E h \in 0 .. Len(d) : Names(d)[h] = x
  <2> SUFFICES ASSUME NEW x \in T PROVE \E h \in 0 .. Len(d) : Names(d)[h] = x
    OBVIOUS
  <2>1. CASE x = Start
    BY <1>1, <2>1
  <2>2. CASE x \in Made(S, w)
    <3>1. PICK h \in 1 .. Len(d) : NameOf(d[h]) = x
      BY <1>1, <1>3, <2>2
    <3>2. h \in 0 .. Len(d) /\ Names(d)[h] = x
      BY <1>1, <3>1
    <3> QED
      BY <3>2
  <2> QED
    BY <2>1, <2>2
<1>6. \A x \in T : \E h \in 0 .. Len(A) : Names(A)[h] = x
  <2> SUFFICES ASSUME NEW x \in T PROVE \E h \in 0 .. Len(A) : Names(A)[h] = x
    OBVIOUS
  <2>1. CASE x = Start
    BY <1>1, <2>1
  <2>2. CASE x \in Made(S, w)
    <3>1. PICK h \in 1 .. Len(A) : NameOf(A[h]) = x
      BY <1>1, <2>2
    <3>2. h \in 0 .. Len(A) /\ Names(A)[h] = x
      BY <1>1, <3>1
    <3> QED
      BY <3>2
  <2> QED
    BY <2>1, <2>2
<1>7. Laid(Names(d), Len(d), Origin(O)) /\ Laid(Names(A), Len(A), Origin(O))
  BY DEF DocSound
<1>8. /\ Shared(Names(d), Len(d), Names(A), Len(A), Origin(O), T)
      /\ Shared(Names(A), Len(A), Names(d), Len(d), Origin(O), T)
  BY <1>1, <1>4, <1>5, <1>6 DEF Shared
<1>9. /\ i \in 0 .. Len(d) /\ k \in 0 .. Len(d) /\ j \in 0 .. Len(A) /\ l \in 0 .. Len(A)
      /\ Names(d)[i] \in T /\ Names(d)[k] \in T /\ Names(A)[j] \in T /\ Names(A)[l] \in T
      /\ Names(d)[i] = Names(A)[j] /\ Names(d)[k] = Names(A)[l]
  BY <1>1
<1> HIDE DEF T
<1>10. ASSUME i < k PROVE j < l
  BY <1>1, <1>2, <1>7, <1>8, <1>9, <1>10, OrderAgrees, SMTT(30)
<1>11. ASSUME j < l PROVE i < k
  BY <1>1, <1>2, <1>7, <1>8, <1>9, <1>11, OrderAgrees, SMTT(30)
<1> QED
  BY <1>10, <1>11

\* The number of elements of a set that can be listed without repetition.
LEMMA Listed ==
    ASSUME NEW T, NEW n \in Nat, NEW f \in [1 .. n -> T],
           \A i, j \in 1 .. n : f[i] = f[j] => i = j,
           \A x \in T : \E i \in 1 .. n : f[i] = x
    PROVE  Cardinality(T) = n
<1>1. f \in Bijection(1 .. n, T)
  BY DEF Bijection, Injection, Surjection, IsInjective
<1>2. ExistsBijection(1 .. n, T)
  BY <1>1 DEF ExistsBijection
<1> QED
  BY <1>2, FS_CountingElements

SeenAt(d, w) == {i \in Nat : Observed(w, d[i].stamp)}
ShownAt(d) == {i \in Nat : d[i].visible}

LEMMA SeenToIs ==
    ASSUME NEW d, NEW w, NEW i \in Nat
    PROVE  SeenTo(d, i, w) = Count(SeenAt(d, w), i)
<1>1. {j \in 1 .. i : Observed(w, d[j].stamp)} = {j \in 1 .. i : j \in SeenAt(d, w)}
  BY DEF SeenAt
<1> QED
  BY <1>1 DEF SeenTo, Count

LEMMA ShownToIs ==
    ASSUME NEW d, NEW i \in Nat
    PROVE  ShownTo(d, i) = Count(ShownAt(d), i)
<1>1. {j \in 1 .. i : d[j].visible} = {j \in 1 .. i : j \in ShownAt(d)}
  BY DEF ShownAt
<1> QED
  BY <1>1 DEF ShownTo, Count

\* The characters of d that w has observed are those of A, in the same order.
LEMMA SeenIs ==
    ASSUME NEW S, NEW O, NEW X, OpsSound(S, O, X),
           NEW v, VersionSound(S, v), NEW w, VersionSound(S, w), ObservedAll(v, w),
           NEW d, DocSound(S, O, X, d, v), NEW A, DocSound(S, O, X, A, w)
    PROVE  /\ \A i \in 1 .. Len(d) : Observed(w, d[i].stamp) =>
                 \E j \in 1 .. Len(A) : NameOf(d[i]) = NameOf(A[j])
           /\ \A j \in 1 .. Len(A) : \E i \in 1 .. Len(d) :
                 NameOf(d[i]) = NameOf(A[j]) /\ Observed(w, d[i].stamp)
<1>1. \A x \in Made(S, w) : x \in Made(S, v)
  BY MadeWithin DEF VersionSound
<1>2. \A x \in Made(S, v) : Observed(w, x[1]) => x \in Made(S, w)
  BY MadeWithin DEF VersionSound
<1>3. \A i \in 1 .. Len(d) : NameOf(d[i]) \in Made(S, v) /\ NameOf(d[i])[1] = d[i].stamp
  BY DocFacts
<1>4. \A x \in Made(S, v) : \E i \in 1 .. Len(d) : NameOf(d[i]) = x
  BY DocFacts
<1>5. \A j \in 1 .. Len(A) : NameOf(A[j]) \in Made(S, w) /\ NameOf(A[j])[1] = A[j].stamp
                             /\ Observed(w, A[j].stamp)
  BY DocFacts
<1>6. \A x \in Made(S, w) : \E j \in 1 .. Len(A) : NameOf(A[j]) = x
  BY DocFacts
<1>7. ASSUME NEW i \in 1 .. Len(d), Observed(w, d[i].stamp)
      PROVE  \E j \in 1 .. Len(A) : NameOf(d[i]) = NameOf(A[j])
  BY <1>2, <1>3, <1>6, <1>7, Zenon
<1>8. ASSUME NEW j \in 1 .. Len(A)
      PROVE  \E i \in 1 .. Len(d) : NameOf(d[i]) = NameOf(A[j]) /\ Observed(w, d[i].stamp)
  <2>1. PICK i \in 1 .. Len(d) : NameOf(d[i]) = NameOf(A[j])
    BY <1>1, <1>4, <1>5, Zenon
  <2>2. d[i].stamp = A[j].stamp
    BY <1>3, <1>5, <2>1, Zenon
  <2> QED
    BY <1>5, <2>1, <2>2, Zenon
<1> QED
  BY <1>7, <1>8, Zenon

LEMMA RankIs ==
    ASSUME NEW S, NEW O, NEW X, OpsSound(S, O, X),
           NEW v, VersionSound(S, v), NEW w, VersionSound(S, w), ObservedAll(v, w),
           NEW d, DocSound(S, O, X, d, v), NEW A, DocSound(S, O, X, A, w),
           NEW i \in 1 .. Len(d), NEW j \in 1 .. Len(A), NameOf(d[i]) = NameOf(A[j])
    PROVE  SeenTo(d, i, w) = j
<1> DEFINE T == {k \in 1 .. i : Observed(w, d[k].stamp)}
           at(l) == CHOOSE k \in 1 .. Len(d) : NameOf(d[k]) = NameOf(A[l])
           f == [l \in 1 .. j |-> at(l)]
<1>1. Len(d) \in Nat /\ Len(A) \in Nat
  <2>1. Len(d) \in Nat
    BY DocFacts
  <2>2. Len(A) \in Nat
    BY DocFacts
  <2> QED
    BY <2>1, <2>2
<1>2. \A l \in 1 .. Len(A) : /\ at(l) \in 1 .. Len(d) /\ NameOf(d[at(l)]) = NameOf(A[l])
  <2>1. \A l \in 1 .. Len(A) : \E k \in 1 .. Len(d) : NameOf(d[k]) = NameOf(A[l])
    BY SeenIs
  <2> QED
    BY <2>1, Zenon
<1>3. \A k, m \in 1 .. Len(d) : NameOf(d[k]) = NameOf(d[m]) => k = m
  BY DocFacts
<1>4. \A k, m \in 1 .. Len(A) : NameOf(A[k]) = NameOf(A[m]) => k = m
  BY DocFacts
<1>5. \A l \in 1 .. Len(A) : Observed(w, d[at(l)].stamp)
  <2>1. \A l \in 1 .. Len(A) : \E k \in 1 .. Len(d) :
           NameOf(d[k]) = NameOf(A[l]) /\ Observed(w, d[k].stamp)
    BY SeenIs
  <2> QED
    BY <1>2, <1>3, <2>1, Zenon
<1> HIDE DEF at
<1>6. at(j) = i
  BY <1>2, <1>3
<1>7. \A l \in 1 .. j : l \in 1 .. Len(A)
  BY <1>1
<1>8. \A l \in 1 .. j : at(l) \in 1 .. i
  <2> SUFFICES ASSUME NEW l \in 1 .. j PROVE at(l) \in 1 .. i
    OBVIOUS
  <2>1. l \in 1 .. Len(A) /\ at(l) \in 1 .. Len(d) /\ NameOf(d[at(l)]) = NameOf(A[l])
    BY <1>2, <1>7
  <2>2. i < at(l) <=> j < l
    BY <2>1, SameOrder
  <2> QED
    BY <1>1, <2>1, <2>2
<1>9. f \in [1 .. j -> T]
  BY <1>5, <1>7, <1>8
<1>10. \A k, l \in 1 .. j : f[k] = f[l] => k = l
  <2> SUFFICES ASSUME NEW k \in 1 .. j, NEW l \in 1 .. j, at(k) = at(l) PROVE k = l
    OBVIOUS
  <2> QED
    BY <1>2, <1>4, <1>7, Zenon
<1>11. ASSUME NEW k \in T PROVE \E l \in 1 .. j : f[l] = k
  <2>1. k \in 1 .. Len(d) /\ Observed(w, d[k].stamp) /\ k <= i
    BY <1>1
  <2>2. PICK l \in 1 .. Len(A) : NameOf(d[k]) = NameOf(A[l])
    BY <2>1, SeenIs
  <2>3. i < k <=> j < l
    BY <2>1, <2>2, SameOrder
  <2>4. l \in 1 .. j
    BY <1>1, <2>1, <2>2, <2>3
  <2>5. at(l) = k
    BY <1>2, <1>3, <2>1, <2>2, Zenon
  <2> QED
    BY <2>4, <2>5
<1> HIDE DEF f, T
<1>12. Cardinality(T) = j
  <2>1. j \in Nat
    BY <1>1
  <2> QED
    BY <1>9, <1>10, <1>11, <2>1, Listed
<1> QED
  BY <1>12 DEF SeenTo, T

LEMMA BehindSeenIs ==
    ASSUME NEW S, NEW O, NEW X, OpsSound(S, O, X),
           NEW v, VersionSound(S, v), NEW w, VersionSound(S, w), ObservedAll(v, w),
           NEW d, DocSound(S, O, X, d, v), NEW A, DocSound(S, O, X, A, w),
           NEW n \in 0 .. Len(A)
    PROVE  LET g == BehindSeen(d, w, n)
           IN  /\ g \in 0 .. Len(d) /\ Names(d)[g] = Names(A)[n]
               /\ \A i \in 1 .. Len(d), j \in 1 .. Len(A) :
                     NameOf(d[i]) = NameOf(A[j]) => (i <= g <=> j <= n)
<1> DEFINE T == {i \in 0 .. Len(d) : SeenTo(d, i, w) = n}
           g == BehindSeen(d, w, n)
<1>1. /\ Len(d) \in Nat /\ Names(d)[0] = Start
      /\ \A i \in 1 .. Len(d) : Names(d)[i] = NameOf(d[i])
  BY DocFacts
<1>2. /\ Len(A) \in Nat /\ Names(A)[0] = Start
      /\ \A i \in 1 .. Len(A) : Names(A)[i] = NameOf(A[i])
  BY DocFacts
<1>3. g = Min(T) /\ T \in SUBSET Nat
  <2>1. T \in SUBSET Nat
    OBVIOUS
  <2>2. g = Min(T)
    BY DEF BehindSeen
  <2> QED
    BY <2>1, <2>2
<1>4. CASE n = 0
  <2>1. 0 \in T
    BY <1>1, <1>4, SeenToIs, CountZero
  <2>2. g = 0
    <3> HIDE DEF T, g
    <3>1. g \in T /\ g <= 0
      BY <1>3, <2>1, MinIs
    <3>2. g \in Nat
      BY <1>3, <3>1
    <3> QED
      BY <3>1, <3>2
  <2> QED
    BY <1>1, <1>2, <1>4, <2>2
<1>5. CASE n # 0
  <2>1. n \in 1 .. Len(A)
    BY <1>2, <1>5
  <2>2. PICK k \in 1 .. Len(d) : NameOf(d[k]) = NameOf(A[n]) /\ Observed(w, d[k].stamp)
    BY <2>1, SeenIs
  <2>3. k \in T
    BY <1>1, <2>1, <2>2, RankIs
  <2>4. \A i \in T : ~(i < k)
    <3> SUFFICES ASSUME NEW i \in T, i < k PROVE FALSE
      OBVIOUS
    <3>1. i \in Nat /\ k \in Nat /\ k \in SeenAt(d, w)
      BY <1>1, <2>2 DEF SeenAt
    <3>2. Count(SeenAt(d, w), i) < Count(SeenAt(d, w), k)
      BY <3>1, CountStrict
    <3>3. SeenTo(d, i, w) = n /\ SeenTo(d, k, w) = n
      BY <2>3
    <3> QED
      BY <1>2, <3>1, <3>2, <3>3, SeenToIs
  <2>5. g = k
    <3> HIDE DEF T, g
    <3>1. g \in T /\ g <= k
      BY <1>3, <2>3, MinIs
    <3>2. g \in Nat /\ k \in Nat
      BY <1>3, <2>3, <3>1
    <3> QED
      BY <2>4, <3>1, <3>2
  <2>6. \A i \in 1 .. Len(d), j \in 1 .. Len(A) :
           NameOf(d[i]) = NameOf(A[j]) => (i <= k <=> j <= n)
    <3> SUFFICES ASSUME NEW i \in 1 .. Len(d), NEW j \in 1 .. Len(A),
                        NameOf(d[i]) = NameOf(A[j])
                 PROVE  i <= k <=> j <= n
      OBVIOUS
    <3>1. k < i <=> n < j
      BY <2>1, <2>2, SameOrder
    <3> QED
      BY <1>1, <1>2, <2>1, <3>1
  <2> QED
    BY <1>1, <1>2, <2>1, <2>2, <2>5, <2>6
<1> HIDE DEF g
<1>6. g \in 0 .. Len(d) /\ Names(d)[g] = Names(A)[n]
  BY <1>4, <1>5 DEF g
<1>7. \A i \in 1 .. Len(d), j \in 1 .. Len(A) :
         NameOf(d[i]) = NameOf(A[j]) => (i <= g <=> j <= n)
  BY <1>4, <1>5 DEF g
<1> QED
  BY <1>6, <1>7, Zenon DEF g

LEMMA OpFacts ==
    ASSUME NEW S, NEW O, NEW X, OpsSound(S, O, X), NEW op \in S
    PROVE  /\ op.kind \in {"edit", "undo"}
           /\ op.stamp \in Stamp /\ op.stamp.replica \in Replica
           /\ op.stamp.replica \in Author /\ op.stamp.replica \in Nat
           /\ op.stamp.value \in Nat /\ op.stamp.value > 0
           /\ VersionSound(S, op.version) /\ op.version \in [Author -> Nat]
           /\ \A q \in Author : op.version[q] \in Nat /\ op.version[q] < op.stamp.value
           /\ \A p \in S : p.stamp.replica = op.stamp.replica
                              /\ p.stamp.value < op.stamp.value => Observed(op.version, p.stamp)
           /\ \A p \in S : p.stamp = op.stamp => p = op
           /\ op.kind = "edit" => EditSound(S, O, X, op)
           /\ op.kind = "undo" => UndoSound(S, op)
<1>1. OpSound(S, O, X, op)
  BY DEF OpsSound
<1>2. /\ op.kind \in {"edit", "undo"}
      /\ op.stamp \in Stamp /\ op.stamp.replica \in Replica
      /\ op.stamp.replica \in Author /\ op.stamp.replica \in Nat
      /\ op.stamp.value \in Nat
      /\ VersionSound(S, op.version) /\ op.version \in [Author -> Nat]
  BY <1>1, StampFacts DEF OpSound, VersionSound
<1>3. \A q \in Author : op.version[q] \in Nat /\ op.version[q] < op.stamp.value
  BY <1>1, <1>2 DEF OpSound
<1>4. op.stamp.value > 0
  <2>1. op.version[LOCAL_ID] \in Nat /\ op.version[LOCAL_ID] < op.stamp.value
    BY <1>3, StampFacts
  <2> QED
    BY <1>2, <2>1
<1> QED
  BY <1>1, <1>2, <1>3, <1>4, Zenon DEF OpSound

LEMMA StampOrder ==
    ASSUME NEW s \in Stamp, NEW t \in Stamp
    PROVE  s = t \/ Before(s, t) \/ Before(t, s)
<1>1. \A a \in Stamp : /\ a = [value |-> a.value, replica |-> a.replica]
                       /\ a.value \in Nat /\ a.replica \in Nat
  BY StampFacts
<1>2. s.value = t.value /\ s.replica = t.replica => s = t
  BY <1>1
<1> QED
  BY <1>1, <1>2 DEF Before

LEMMA StillObserved ==
    ASSUME NEW v \in [Author -> Nat], NEW w \in [Author -> Nat], ObservedAll(v, w),
           NEW s \in Stamp, Observed(w, s)
    PROVE  Observed(v, s)
<1>1. s.replica \in Author /\ s.value \in Nat
  BY StampFacts
<1>2. v[s.replica] \in Nat /\ w[s.replica] \in Nat /\ v[s.replica] >= w[s.replica]
  BY <1>1 DEF ObservedAll
<1> QED
  BY <1>1, <1>2 DEF Observed

LEMMA SeenUndosWithin ==
    ASSUME NEW S, NEW O, NEW X, OpsSound(S, O, X),
           NEW v \in [Author -> Nat], NEW w \in [Author -> Nat], ObservedAll(v, w)
    PROVE  SeenUndos(S, w) = {u \in SeenUndos(S, v) : Observed(w, u.undo)}
<1>1. \A op \in S : Observed(w, op.stamp) => Observed(v, op.stamp)
  BY OpFacts, StillObserved
<1>2. \A op \in S : \A u \in UndoEntries(op) : u.undo = op.stamp
  BY DEF UndoEntries
<1> QED
  BY <1>1, <1>2, Zenon DEF SeenUndos

LEMMA DeletersWithin ==
    ASSUME NEW S, NEW O, NEW X, OpsSound(S, O, X),
           NEW v \in [Author -> Nat], NEW w \in [Author -> Nat], ObservedAll(v, w), NEW x
    PROVE  Deleters(S, w, X, x) = {s \in Deleters(S, v, X, x) : Observed(w, s)}
<1>1. \A op \in S : Observed(w, op.stamp) => Observed(v, op.stamp)
  BY OpFacts, StillObserved
<1> QED
  BY <1>1, Zenon DEF Deleters

LEMMA WasUndoneIs ==
    ASSUME NEW S, NEW O, NEW X, OpsSound(S, O, X),
           NEW v \in [Author -> Nat], NEW w \in [Author -> Nat], ObservedAll(v, w), NEW e
    PROVE  WasUndone(SeenUndos(S, v), e, w) <=> IsUndone(SeenUndos(S, w), e)
<1>1. {u \in SeenUndos(S, v) : u.edit = e /\ Observed(w, u.undo)}
          = {u \in SeenUndos(S, w) : u.edit = e}
  BY SeenUndosWithin
<1> QED
  BY <1>1, Zenon DEF WasUndone, IsUndone, UndoCount

\* What d's copy takes to have been shown to the author was.
LEMMA WasVisibleIs ==
    ASSUME NEW S, NEW O, NEW X, OpsSound(S, O, X),
           NEW v, VersionSound(S, v), NEW w, VersionSound(S, w), ObservedAll(v, w),
           NEW d, DocSound(S, O, X, d, v), NEW A, DocSound(S, O, X, A, w),
           NEW i \in 1 .. Len(d), NEW j \in 1 .. Len(A), NameOf(d[i]) = NameOf(A[j])
    PROVE  WasVisible(d[i], w, SeenUndos(S, v)) <=> A[j].visible
<1>1. v \in [Author -> Nat] /\ w \in [Author -> Nat]
  BY DEF VersionSound
<1>2. d[i].stamp = A[j].stamp /\ Observed(w, A[j].stamp)
  <2>1. NameOf(d[i])[1] = d[i].stamp
    BY DocFacts
  <2>2. NameOf(A[j])[1] = A[j].stamp /\ Observed(w, A[j].stamp)
    BY DocFacts
  <2> QED
    BY <2>1, <2>2
<1>3. A[j].visible = IsVisible(A[j], SeenUndos(S, w))
  BY DEF DocSound
<1>4. A[j].deletions = {s \in d[i].deletions : Observed(w, s)}
  <2>1. d[i].deletions = Deleters(S, v, X, NameOf(d[i]))
    BY DEF DocSound
  <2>2. A[j].deletions = Deleters(S, w, X, NameOf(A[j]))
    BY DEF DocSound
  <2>3. Deleters(S, w, X, NameOf(A[j])) = {s \in Deleters(S, v, X, NameOf(A[j])) : Observed(w, s)}
    BY <1>1, DeletersWithin
  <2> QED
    BY <2>1, <2>2, <2>3
<1>5. \A e : WasUndone(SeenUndos(S, v), e, w) <=> IsUndone(SeenUndos(S, w), e)
  BY <1>1, WasUndoneIs
<1> QED
  BY <1>2, <1>3, <1>4, <1>5, Zenon DEF WasVisible, IsVisible

\* Where the text of an edit may go in a document, and what it deletes there: it
\* was typed behind the character at g and goes behind f; what it deletes is among
\* those from f to t.
Place(O, X, op, d, g, f, t, shown) ==
    /\ g \in 0 .. Len(d) /\ f \in g .. Len(d) /\ t \in f .. Len(d)
    /\ Names(d)[g] = O[op.stamp]
    /\ \A j \in g + 1 .. f : Before(op.stamp, d[j].stamp)
    /\ f < Len(d) => Before(d[f + 1].stamp, op.stamp)
    /\ X[op.stamp] = {NameOf(d[i]) : i \in {j \in f + 1 .. t : j \in shown}}

\* Where an edit from elsewhere goes, and what it deletes.
LEMMA RemoteIs ==
    ASSUME NEW S, NEW O, NEW X, OpsSound(S, O, X),
           NEW op \in S, op.kind = "edit",
           NEW v, VersionSound(S, v), ObservedAll(v, op.version), ~Observed(v, op.stamp),
           NEW d, DocSound(S, O, X, d, v)
    PROVE  Place(O, X, op, d, BehindSeen(d, op.version, op.from), RemoteStart(d, op),
                 RemoteEnd(d, op),
                 {i \in DOMAIN d : WasVisible(d[i], op.version, SeenUndos(S, v))})
<1> DEFINE w == op.version
           g == BehindSeen(d, w, op.from)
           f == RemoteStart(d, op)
           t == RemoteEnd(d, op)
           shown == {i \in DOMAIN d : WasVisible(d[i], w, SeenUndos(S, v))}
<1>0. ASSUME g \in 0 .. Len(d), f \in g .. Len(d), t \in f .. Len(d),
             Names(d)[g] = O[op.stamp],
             \A j \in g + 1 .. f : Before(op.stamp, d[j].stamp),
             f < Len(d) => Before(d[f + 1].stamp, op.stamp),
             X[op.stamp] = {NameOf(d[i]) : i \in {j \in f + 1 .. t :
                                WasVisible(d[j], op.version, SeenUndos(S, v))}}
      PROVE  Place(O, X, op, d, g, f, t, shown)
  <2>0. Len(d) \in Nat /\ DOMAIN d = 1 .. Len(d)
    BY DocFacts
  <2> HIDE DEF g, f, t
  <2>1. {j \in f + 1 .. t : WasVisible(d[j], w, SeenUndos(S, v))}
           = {j \in f + 1 .. t : j \in shown}
    <3>1. \A j \in f + 1 .. t : j \in DOMAIN d
      BY <1>0, <2>0
    <3> QED
      BY <3>1
  <2> HIDE DEF shown
  <2> QED
    BY <1>0, <2>1 DEF Place
<1> HIDE DEF shown
<1> SUFFICES Place(O, X, op, d, g, f, t, shown)
  BY DEF shown
<1>1. VersionSound(S, w) /\ EditSound(S, O, X, op)
  BY OpFacts
<1>2. PICK A \in Seq(Char) :
        /\ DocSound(S, O, X, A, w)
        /\ op.from \in 0 .. Len(A) /\ op.to \in op.from .. Len(A)
        /\ O[op.stamp] = Names(A)[op.from]
        /\ X[op.stamp] = {NameOf(A[i]) : i \in {j \in op.from + 1 .. op.to : A[j].visible}}
  BY <1>1, Zenon DEF EditSound
<1>3. Len(d) \in Nat /\ \A i \in 1 .. Len(d) : d[i].stamp \in Stamp
  BY DocFacts
<1>4. Len(A) \in Nat /\ \A i \in 1 .. Len(A) : Observed(w, A[i].stamp)
  BY <1>2, DocFacts
<1>5. /\ g \in 0 .. Len(d) /\ Names(d)[g] = Names(A)[op.from]
      /\ \A i \in 1 .. Len(d), j \in 1 .. Len(A) :
            NameOf(d[i]) = NameOf(A[j]) => (i <= g <=> j <= op.from)
  BY <1>1, <1>2, BehindSeenIs
<1> HIDE DEF g
<1> DEFINE T == {i \in g .. Len(d) : \A j \in g + 1 .. i : Before(op.stamp, d[j].stamp)}
<1>6. f = Max(T)
  BY DEF RemoteStart, g
<1>7. f \in T /\ \A i \in T : i <= f
  <2>1. g \in T
    BY <1>3, <1>5
  <2>2. T \in SUBSET (0 .. Len(d))
    BY <1>3, <1>5
  <2> HIDE DEF T, f
  <2> QED
    BY <1>3, <1>6, <2>1, <2>2, MaxIs
<1> HIDE DEF f
<1>8. f \in g .. Len(d) /\ \A j \in g + 1 .. f : Before(op.stamp, d[j].stamp)
  BY <1>7
<1>9. \A i \in 1 .. Len(d) : Observed(w, d[i].stamp) => Before(d[i].stamp, op.stamp)
                                /\ ~Before(op.stamp, d[i].stamp)
  <2> SUFFICES ASSUME NEW i \in 1 .. Len(d), Observed(w, d[i].stamp)
               PROVE  Before(d[i].stamp, op.stamp) /\ ~Before(op.stamp, d[i].stamp)
    OBVIOUS
  <2> DEFINE s == d[i].stamp
  <2>1. s.replica \in Author /\ s.value \in Nat
    BY <1>3, StampFacts
  <2>2. op.stamp.value \in Nat /\ w[s.replica] \in Nat /\ w[s.replica] < op.stamp.value
    BY <2>1, OpFacts
  <2>3. w[s.replica] >= s.value
    BY DEF Observed
  <2> HIDE DEF s, w
  <2>4. s.value < op.stamp.value
    BY <2>1, <2>2, <2>3
  <2>5. Before(s, op.stamp) /\ ~Before(op.stamp, s)
    BY <2>1, <2>2, <2>4 DEF Before
  <2> QED
    BY <2>5 DEF s
<1>10. ASSUME f < Len(d) PROVE Before(d[f + 1].stamp, op.stamp)
  <2>0. f \in Nat /\ g \in Nat /\ f + 1 \in 1 .. Len(d) /\ g <= f
    BY <1>3, <1>5, <1>8, <1>10
  <2>1. f + 1 \notin T
    BY <1>7, <2>0
  <2>2. ~Before(op.stamp, d[f + 1].stamp)
    <3> SUFFICES ASSUME Before(op.stamp, d[f + 1].stamp) PROVE FALSE
      OBVIOUS
    <3>1. \A j \in g + 1 .. f + 1 : j = f + 1 \/ j \in g + 1 .. f
      BY <2>0
    <3> QED
      BY <1>3, <1>8, <2>0, <2>1, <3>1
  <2>3. CASE Observed(w, d[f + 1].stamp)
    BY <1>9, <2>0, <2>3
  <2>4. d[f + 1].stamp # op.stamp
    <3>1. Observed(v, d[f + 1].stamp)
      BY <2>0, DocFacts
    <3> QED
      BY <3>1
  <2>5. d[f + 1].stamp \in Stamp /\ op.stamp \in Stamp
    BY <1>3, <2>0, OpFacts
  <2> QED
    BY <2>2, <2>4, <2>5, StampOrder
<1>11. CASE op.from = op.to
  <2>1. t = f
    BY <1>11 DEF RemoteEnd, f
  <2>2. X[op.stamp] = {}
    BY <1>2, <1>4, <1>11
  <2>3. f + 1 .. t = {}
    BY <1>3, <1>5, <1>8, <2>1
  <2> HIDE DEF t
  <2>4. t \in f .. Len(d)
    BY <1>3, <1>5, <1>8, <2>1
  <2>5. X[op.stamp] = {NameOf(d[i]) : i \in {j \in f + 1 .. t :
                                    WasVisible(d[j], op.version, SeenUndos(S, v))}}
    BY <2>2, <2>3
  <2>6. Names(d)[g] = O[op.stamp]
    BY <1>2, <1>5
  <2> QED
    BY <1>0, <1>5, <1>8, <1>10, <2>4, <2>5, <2>6 DEF g, f, t
<1>12. CASE op.from # op.to
  <2>1. t = BehindSeen(d, w, op.to)
    BY <1>12 DEF RemoteEnd
  <2>2. op.to \in 0 .. Len(A) /\ op.from \in Nat /\ op.from + 1 \in 1 .. Len(A) /\ op.from + 1 <= op.to
    BY <1>2, <1>4, <1>12
  <2>3. /\ t \in 0 .. Len(d)
        /\ \A i \in 1 .. Len(d), j \in 1 .. Len(A) :
              NameOf(d[i]) = NameOf(A[j]) => (i <= t <=> j <= op.to)
    BY <1>1, <1>2, <2>1, <2>2, BehindSeenIs
  <2> HIDE DEF t
  <2>4. \A i \in 1 .. Len(d) : Observed(w, d[i].stamp) /\ i > g => i > f
    <3> SUFFICES ASSUME NEW i \in 1 .. Len(d), Observed(w, d[i].stamp), i > g, ~(i > f)
                 PROVE  FALSE
      OBVIOUS
    <3>1. i \in g + 1 .. f
      BY <1>3, <1>5, <1>8
    <3> QED
      BY <1>8, <1>9, <3>1
  <2>5. /\ \A i \in 1 .. Len(d) : Observed(w, d[i].stamp) =>
                 \E j \in 1 .. Len(A) : NameOf(d[i]) = NameOf(A[j])
        /\ \A j \in 1 .. Len(A) : \E i \in 1 .. Len(d) :
                 NameOf(d[i]) = NameOf(A[j]) /\ Observed(w, d[i].stamp)
    BY <1>1, <1>2, SeenIs
  <2>6. t \in f .. Len(d)
    <3>1. PICK i \in 1 .. Len(d) : /\ NameOf(d[i]) = NameOf(A[op.from + 1])
                                   /\ Observed(w, d[i].stamp)
      BY <2>2, <2>5
    <3>2. (i <= g <=> op.from + 1 <= op.from) /\ (i <= t <=> op.from + 1 <= op.to)
      BY <1>5, <2>2, <2>3, <3>1
    <3>3. i > g /\ i <= t
      BY <1>3, <1>5, <2>2, <3>1, <3>2
    <3>4. i > f
      BY <2>4, <3>1, <3>3
    <3> QED
      BY <1>3, <1>5, <1>8, <2>3, <3>1, <3>3, <3>4
  <2>7. \A i \in 1 .. Len(d), j \in 1 .. Len(A) : NameOf(d[i]) = NameOf(A[j]) =>
           (WasVisible(d[i], w, SeenUndos(S, v)) <=> A[j].visible)
    BY <1>1, <1>2, WasVisibleIs
  <2> DEFINE P == {j \in f + 1 .. t : WasVisible(d[j], w, SeenUndos(S, v))}
             Q == {j \in op.from + 1 .. op.to : A[j].visible}
  <2>8. ASSUME NEW i \in P PROVE \E j \in Q : NameOf(d[i]) = NameOf(A[j])
    <3>1. i \in 1 .. Len(d) /\ i > g /\ i <= t
      BY <1>3, <1>5, <1>8, <2>6
    <3>2. Observed(w, d[i].stamp) /\ WasVisible(d[i], w, SeenUndos(S, v))
      BY DEF WasVisible
    <3>3. PICK j \in 1 .. Len(A) : NameOf(d[i]) = NameOf(A[j])
      BY <2>5, <3>1, <3>2
    <3>4. (i <= g <=> j <= op.from) /\ (i <= t <=> j <= op.to)
      BY <1>5, <2>3, <3>1, <3>3
    <3>5. j \in op.from + 1 .. op.to
      BY <1>2, <1>3, <1>4, <1>5, <2>2, <3>1, <3>3, <3>4
    <3>6. A[j].visible
      BY <2>7, <3>1, <3>2, <3>3
    <3> QED
      BY <3>3, <3>5, <3>6
  <2>9. ASSUME NEW j \in Q PROVE \E i \in P : NameOf(d[i]) = NameOf(A[j])
    <3>1. j \in 1 .. Len(A) /\ j > op.from /\ j <= op.to
      BY <1>2, <1>4, <2>2
    <3>2. PICK i \in 1 .. Len(d) : NameOf(d[i]) = NameOf(A[j]) /\ Observed(w, d[i].stamp)
      BY <2>5, <3>1
    <3>3. (i <= g <=> j <= op.from) /\ (i <= t <=> j <= op.to)
      BY <1>5, <2>3, <3>1, <3>2
    <3>4. i > g /\ i <= t
      BY <1>3, <1>4, <1>5, <2>2, <3>1, <3>2, <3>3
    <3>5. i \in f + 1 .. t
      BY <1>3, <1>5, <1>8, <2>3, <2>4, <3>2, <3>4
    <3>6. WasVisible(d[i], w, SeenUndos(S, v))
      BY <2>7, <3>1, <3>2
    <3> QED
      BY <3>2, <3>5, <3>6
  <2>10. {NameOf(A[j]) : j \in Q} = {NameOf(d[i]) : i \in P}
    <3> HIDE DEF P, Q
    <3> QED
      BY <2>8, <2>9
  <2>11. X[op.stamp] = {NameOf(d[i]) : i \in P}
    BY <1>2, <2>10
  <2> QED
    BY <1>0, <1>2, <1>5, <1>8, <1>10, <2>6, <2>11 DEF g, f, t
<1> QED
  BY <1>11, <1>12

LEMMA BeforeTransitive ==
    ASSUME NEW x, NEW y, NEW z,
           x.value \in Nat, x.replica \in Nat, y.value \in Nat, y.replica \in Nat,
           z.value \in Nat, z.replica \in Nat, Before(x, y), Before(y, z)
    PROVE  Before(x, z)
BY DEF Before

\* b is a with the n characters of the edit with timestamp s behind its first f;
\* they were typed behind a[g].
Fits(a, m, org, b, n, s, g, f) ==
    /\ s.value \in Nat /\ s.replica \in Nat
    /\ g <= f /\ f <= m
    /\ b \in [0 .. m + n -> Name]
    /\ \A i \in 0 .. f : b[i] = a[i]
    /\ \A i \in 1 .. n : b[f + i] = <<s, i>>
    /\ \A i \in f + 1 .. m : b[i + n] = a[i]
    /\ \A i \in 0 .. m : a[i][1] # s
    /\ n > 0 => org[<<s, 1>>] = a[g]
    /\ \A i \in 2 .. n : org[<<s, i>>] = <<s, i - 1>>
    /\ \A k \in g + 1 .. f : Before(s, a[k][1])
    /\ f < m => Before(a[f + 1][1], s)

\* The text of an edit may go where the character it was typed behind is, or
\* behind later text there, in front of what is earlier.
LEMMA LaidInsert ==
    ASSUME NEW m \in Nat, NEW n \in Nat, NEW a, NEW org, Laid(a, m, org),
           NEW s, NEW g \in Nat, NEW f \in Nat, NEW b, Fits(a, m, org, b, n, s, g, f)
    PROVE  Laid(b, m + n, org)
<1>0. /\ s.value \in Nat /\ s.replica \in Nat
      /\ g <= f /\ f <= m
      /\ b \in [0 .. m + n -> Name]
      /\ \A i \in 0 .. f : b[i] = a[i]
      /\ \A i \in 1 .. n : b[f + i] = <<s, i>>
      /\ \A i \in f + 1 .. m : b[i + n] = a[i]
      /\ \A i \in 0 .. m : a[i][1] # s
      /\ n > 0 => org[<<s, 1>>] = a[g]
      /\ \A i \in 2 .. n : org[<<s, i>>] = <<s, i - 1>>
      /\ \A k \in g + 1 .. f : Before(s, a[k][1])
      /\ f < m => Before(a[f + 1][1], s)
  BY DEF Fits
<1> USE <1>0
<1>1. /\ a \in [0 .. m -> Name]
      /\ \A i, j \in 0 .. m : a[i] = a[j] => i = j
      /\ \A i \in 1 .. m : \E h \in 0 .. i - 1 :
            a[h] = org[a[i]] /\ \A k \in h + 1 .. i - 1 : Before(a[i][1], a[k][1])
  BY DEF Laid
<1>2. \A i \in f + 1 .. f + n : i - f \in 1 .. n /\ b[i] = <<s, i - f>>
  <2> SUFFICES ASSUME NEW i \in f + 1 .. f + n PROVE i - f \in 1 .. n /\ b[i] = <<s, i - f>>
    OBVIOUS
  <2>1. i - f \in 1 .. n /\ f + (i - f) = i
    OBVIOUS
  <2>2. b[f + (i - f)] = <<s, i - f>>
    BY <2>1
  <2> QED
    BY <2>1, <2>2
<1>3. \A i \in f + n + 1 .. m + n : i - n \in f + 1 .. m /\ b[i] = a[i - n]
  <2> SUFFICES ASSUME NEW i \in f + n + 1 .. m + n
               PROVE  i - n \in f + 1 .. m /\ b[i] = a[i - n]
    OBVIOUS
  <2>1. i - n \in f + 1 .. m /\ (i - n) + n = i
    OBVIOUS
  <2>2. b[(i - n) + n] = a[i - n]
    BY <2>1
  <2> QED
    BY <2>1, <2>2
<1>4. \A i \in 0 .. m + n : i \in 0 .. f \/ i \in f + 1 .. f + n \/ i \in f + n + 1 .. m + n
  OBVIOUS
<1>5. ASSUME NEW i \in 0 .. m + n, NEW j \in 0 .. m + n, b[i] = b[j], i < j
      PROVE  FALSE
  <2>1. CASE i \in 0 .. f /\ j \in 0 .. f
    BY <1>1, <1>5, <2>1
  <2>2. CASE i \in 0 .. f /\ j \in f + 1 .. f + n
    <3>1. a[i] = <<s, j - f>> /\ i \in 0 .. m
      BY <1>2, <1>5, <2>2
    <3> QED
      BY <3>1
  <2>3. CASE i \in 0 .. f /\ j \in f + n + 1 .. m + n
    <3>1. a[i] = a[j - n] /\ i \in 0 .. m /\ j - n \in 0 .. m /\ i # j - n
      BY <1>3, <1>5, <2>3
    <3> QED
      BY <1>1, <3>1
  <2>4. CASE i \in f + 1 .. f + n /\ j \in f + 1 .. f + n
    <3>1. <<s, i - f>> = <<s, j - f>>
      BY <1>2, <1>5, <2>4
    <3>2. i - f = j - f
      BY <3>1
    <3> QED
      BY <1>5, <2>4, <3>2
  <2>5. CASE i \in f + 1 .. f + n /\ j \in f + n + 1 .. m + n
    <3>1. a[j - n] = <<s, i - f>> /\ j - n \in 0 .. m
      BY <1>2, <1>3, <1>5, <2>5
    <3> QED
      BY <3>1
  <2>6. CASE i \in f + n + 1 .. m + n /\ j \in f + n + 1 .. m + n
    <3>1. a[i - n] = a[j - n]
      BY <1>3, <1>5, <2>6
    <3>2. i - n \in 0 .. m /\ j - n \in 0 .. m /\ i - n # j - n
      BY <1>5, <2>6
    <3> QED
      BY <1>1, <3>1, <3>2
  <2> QED
    BY <1>4, <1>5, <2>1, <2>2, <2>3, <2>4, <2>5, <2>6
<1>6. \A i, j \in 0 .. m + n : b[i] = b[j] => i = j
  <2> SUFFICES ASSUME NEW i \in 0 .. m + n, NEW j \in 0 .. m + n, b[i] = b[j] PROVE i = j
    OBVIOUS
  <2>1. ~(i < j) /\ ~(j < i)
    BY <1>5
  <2> QED
    BY <2>1
<1>7. ASSUME NEW i \in 1 .. f
      PROVE  \E h \in 0 .. i - 1 :
                b[h] = org[b[i]] /\ \A k \in h + 1 .. i - 1 : Before(b[i][1], b[k][1])
  <2>1. PICK h \in 0 .. i - 1 :
           a[h] = org[a[i]] /\ \A k \in h + 1 .. i - 1 : Before(a[i][1], a[k][1])
    <3>1. i \in 1 .. m
      OBVIOUS
    <3> QED
      BY <1>1, <3>1, Zenon
  <2>2. b[i] = a[i] /\ b[h] = a[h] /\ \A k \in h + 1 .. i - 1 : b[k] = a[k]
    OBVIOUS
  <2> QED
    BY <2>1, <2>2
<1>8. ASSUME NEW i \in f + 1 .. f + n
      PROVE  \E h \in 0 .. i - 1 :
                b[h] = org[b[i]] /\ \A k \in h + 1 .. i - 1 : Before(b[i][1], b[k][1])
  <2>1. b[i] = <<s, i - f>> /\ b[i][1] = s
    BY <1>2
  <2>2. CASE i = f + 1
    <3>1. b[g] = org[b[i]] /\ g \in 0 .. i - 1
      BY <2>1, <2>2
    <3>2. \A k \in g + 1 .. i - 1 : b[k] = a[k] /\ Before(s, a[k][1])
      BY <2>2
    <3> QED
      BY <2>1, <3>1, <3>2
  <2>3. CASE i # f + 1
    <3>1. i - 1 \in f + 1 .. f + n /\ i - f \in 2 .. n /\ (i - 1) - f = (i - f) - 1
      BY <2>3
    <3>2. b[i - 1] = <<s, (i - f) - 1>>
      BY <1>2, <3>1
    <3>3. b[i - 1] = org[b[i]]
      BY <2>1, <3>1, <3>2
    <3>4. i - 1 \in 0 .. i - 1 /\ \A k \in (i - 1) + 1 .. i - 1 : FALSE
      OBVIOUS
    <3> QED
      BY <3>3, <3>4
  <2> QED
    BY <2>2, <2>3
<1>9. ASSUME NEW i \in f + n + 1 .. m + n
      PROVE  \E h \in 0 .. i - 1 :
                b[h] = org[b[i]] /\ \A k \in h + 1 .. i - 1 : Before(b[i][1], b[k][1])
  <2> DEFINE j == i - n
  <2>1. j \in f + 1 .. m /\ b[i] = a[j] /\ i = j + n /\ j \in 1 .. m
    BY <1>3
  <2> HIDE DEF j
  <2>2. PICK l \in 0 .. j - 1 :
           a[l] = org[a[j]] /\ \A k \in l + 1 .. j - 1 : Before(a[j][1], a[k][1])
    BY <1>1, <2>1, Zenon
  <2>3. CASE l <= f
    <3>1. Before(a[j][1], s)
      <4>1. CASE j = f + 1
        BY <2>1, <4>1
      <4>2. CASE j # f + 1
        <5>1. Before(a[j][1], a[f + 1][1]) /\ Before(a[f + 1][1], s)
          <6>1. f + 1 \in l + 1 .. j - 1 /\ f < m
            <7>1. j \in Nat /\ l \in Nat /\ j >= f + 1 /\ j <= m
              BY <2>1
            <7> QED
              BY <2>3, <4>2, <7>1, SMTT(30)
          <6> QED
            BY <2>2, <6>1, Zenon
        <5>2. /\ a[j][1].value \in Nat /\ a[j][1].replica \in Nat
              /\ a[f + 1][1].value \in Nat /\ a[f + 1][1].replica \in Nat
          <6>1. a[j] \in Name /\ a[f + 1] \in Name
            BY <1>1, <2>1
          <6> QED
            BY <6>1 DEF Name
        <5> QED
          BY <5>1, <5>2, BeforeTransitive
      <4> QED
        BY <4>1, <4>2
    <3>2. ASSUME NEW k \in l + 1 .. i - 1 PROVE Before(b[i][1], b[k][1])
      <4>1. CASE k \in 0 .. f
        <5>1. k \in l + 1 .. j - 1 /\ b[k] = a[k]
          BY <2>1, <4>1
        <5> QED
          BY <2>1, <2>2, <5>1
      <4>2. CASE k \in f + 1 .. f + n
        <5>1. b[k] = <<s, k - f>>
          BY <1>2, <4>2, Zenon
        <5> QED
          BY <2>1, <3>1, <5>1
      <4>3. CASE k \in f + n + 1 .. m + n
        <5>1. k - n \in f + 1 .. m /\ b[k] = a[k - n]
          BY <1>3, <4>3, Zenon
        <5>2. k - n \in l + 1 .. j - 1
          BY <2>1, <2>2, <2>3, <5>1, SMTT(30)
        <5> QED
          BY <2>1, <2>2, <5>1, <5>2
      <4>4. k \in 0 .. m + n
        OBVIOUS
      <4> QED
        BY <1>4, <4>1, <4>2, <4>3, <4>4
    <3>3. b[l] = org[b[i]] /\ l \in 0 .. i - 1
      BY <2>1, <2>2, <2>3, SMTT(30)
    <3> QED
      BY <3>2, <3>3
  <2>4. CASE ~(l <= f)
    <3>1. l \in f + 1 .. m /\ l + n \in 0 .. i - 1 /\ b[l + n] = a[l]
      BY <2>1, <2>2, <2>4
    <3>2. ASSUME NEW k \in l + n + 1 .. i - 1 PROVE Before(b[i][1], b[k][1])
      <4>1. k \in f + n + 1 .. m + n
        BY <3>1
      <4>2. b[k] = a[k - n]
        BY <1>3, <4>1, Zenon
      <4>3. k - n \in l + 1 .. j - 1
        BY <2>1, <2>2, <3>1
      <4> QED
        BY <2>1, <2>2, <4>2, <4>3
    <3>3. b[l + n] = org[b[i]]
      BY <2>1, <2>2, <3>1
    <3> QED
      BY <3>1, <3>2, <3>3
  <2> QED
    BY <2>2, <2>3, <2>4
<1>10. \A i \in 1 .. m + n : i \in 1 .. f \/ i \in f + 1 .. f + n \/ i \in f + n + 1 .. m + n
  OBVIOUS
<1>11. \A i \in 1 .. m + n : \E h \in 0 .. i - 1 :
          b[h] = org[b[i]] /\ \A k \in h + 1 .. i - 1 : Before(b[i][1], b[k][1])
  BY <1>7, <1>8, <1>9, <1>10
<1> QED
  BY <1>6, <1>11 DEF Laid

LEMMA ObserveIs ==
    ASSUME NEW S, NEW O, NEW X, OpsSound(S, O, X), NEW op \in S,
           NEW v, VersionSound(S, v), ObservedAll(v, op.version), ~Observed(v, op.stamp)
    PROVE  LET w == Observe(v, op.stamp)
           IN  /\ w \in [Author -> Nat] /\ ObservedAll(w, v) /\ VersionSound(S, w)
               /\ w = [v EXCEPT ![op.stamp.replica] = op.stamp.value]
               /\ \A p \in S : Observed(w, p.stamp) <=> Observed(v, p.stamp) \/ p = op
<1> DEFINE w == Observe(v, op.stamp)
           q == op.stamp.replica
<1>1. v \in [Author -> Nat] /\ q \in Author /\ op.stamp.value \in Nat /\ v[q] \in Nat
  BY OpFacts DEF VersionSound
<1>2. v[q] < op.stamp.value
  BY <1>1 DEF Observed
<1>3. w = [v EXCEPT ![q] = op.stamp.value]
  BY <1>1, <1>2 DEF Observe
<1> HIDE DEF w
<1>4. w \in [Author -> Nat] /\ w[q] = op.stamp.value /\ \A p \in Author : p # q => w[p] = v[p]
  BY <1>1, <1>3
<1>5. ObservedAll(w, v)
  BY <1>1, <1>2, <1>4 DEF ObservedAll
<1>6. ASSUME NEW p \in S PROVE Observed(w, p.stamp) <=> Observed(v, p.stamp) \/ p = op
  <2>1. /\ p.stamp.replica \in Author /\ p.stamp.value \in Nat /\ p.stamp \in Stamp
        /\ (p.stamp = op.stamp => p = op) /\ op.version \in [Author -> Nat]
        /\ (p.stamp.replica = q /\ p.stamp.value < op.stamp.value => Observed(op.version, p.stamp))
    BY OpFacts
  <2>2. Observed(v, p.stamp) => Observed(w, p.stamp)
    BY <1>1, <1>4, <1>5, <2>1, StillObserved
  <2>3. Observed(w, op.stamp)
    BY <1>1, <1>4 DEF Observed
  <2>4. ASSUME Observed(w, p.stamp), ~Observed(v, p.stamp) PROVE p = op
    <3>1. p.stamp.replica = q
      BY <1>4, <2>1, <2>4 DEF Observed
    <3>2. p.stamp.value <= op.stamp.value
      BY <1>1, <1>4, <2>1, <2>4, <3>1 DEF Observed
    <3>3. ~(p.stamp.value < op.stamp.value)
      <4>1. Observed(op.version, p.stamp) => Observed(v, p.stamp)
        BY <1>1, <2>1, StillObserved
      <4> QED
        BY <2>1, <2>4, <3>1, <4>1
    <3>4. p.stamp.value = op.stamp.value
      BY <1>1, <2>1, <3>2, <3>3
    <3>5. p.stamp = op.stamp
      <4>1. op.stamp \in Stamp
        BY OpFacts
      <4> QED
        BY <2>1, <3>1, <3>4, <4>1, StampFacts
    <3> QED
      BY <2>1, <3>5
  <2> QED
    BY <2>2, <2>3, <2>4
<1>7. VersionSound(S, w)
  <2>1. BaseLen > 0 => Observed(w, Base)
    <3>1. Base.replica \in Author /\ Base.value \in Nat /\ Base.value = 1 /\ Base \in Stamp
      BY StampFacts DEF Base, Stamp
    <3> QED
      BY <1>1, <1>4, <1>5, <3>1, StillObserved DEF VersionSound
  <2>2. ASSUME NEW p \in S, Observed(w, p.stamp) PROVE ObservedAll(w, p.version)
    <3>1. ObservedAll(v, p.version)
      BY <1>6, <2>2 DEF VersionSound
    <3>2. p.version \in [Author -> Nat]
      BY OpFacts
    <3> QED
      BY <1>1, <1>4, <1>5, <3>1, <3>2 DEF ObservedAll
  <2>3. ASSUME NEW p \in Author
        PROVE  \/ w[p] = 0
               \/ BaseLen > 0 /\ p = LOCAL_ID /\ w[p] = 1
               \/ \E o \in S : o.stamp = [value |-> w[p], replica |-> p]
    <3>1. CASE p = q
      <4>1. op.stamp = [value |-> w[p], replica |-> p]
        BY <1>4, <3>1, OpFacts, StampFacts
      <4> QED
        BY <4>1
    <3>2. CASE p # q
      <4>1. w[p] = v[p]
        BY <1>4, <3>2
      <4> QED
        BY <4>1 DEF VersionSound
    <3> QED
      BY <3>1, <3>2
  <2> QED
    BY <1>4, <2>1, <2>2, <2>3 DEF VersionSound
<1> QED
  BY <1>3, <1>4, <1>5, <1>6, <1>7 DEF w

\* What there is to see when one more operation is observed.
LEMMA ObserveMade ==
    ASSUME NEW S, NEW O, NEW X, OpsSound(S, O, X), NEW op \in S,
           NEW v, VersionSound(S, v), ObservedAll(v, op.version), ~Observed(v, op.stamp)
    PROVE  LET w == Observe(v, op.stamp)
           IN  /\ op.kind = "edit" =>
                     /\ Made(S, w) = Made(S, v) \cup {<<op.stamp, k>> : k \in 1 .. op.len}
                     /\ SeenUndos(S, w) = SeenUndos(S, v)
                     /\ \A x : Deleters(S, w, X, x) =
                           Deleters(S, v, X, x) \cup {s \in {op.stamp} : x \in X[s]}
               /\ op.kind = "undo" =>
                     /\ Made(S, w) = Made(S, v)
                     /\ SeenUndos(S, w) = SeenUndos(S, v) \cup UndoEntries(op)
                     /\ \A x : Deleters(S, w, X, x) = Deleters(S, v, X, x)
<1> DEFINE w == Observe(v, op.stamp)
<1>1. /\ VersionSound(S, w)
      /\ \A p \in S : Observed(w, p.stamp) <=> Observed(v, p.stamp) \/ p = op
  BY ObserveIs
<1> HIDE DEF w
<1>2. op.kind \in {"edit", "undo"} /\ (op.kind = "edit" => op.len \in Nat)
      /\ op.stamp \in Stamp /\ \A p \in S : p.stamp = op.stamp => p = op
  BY OpFacts DEF EditSound
<1>3. ASSUME op.kind = "edit"
      PROVE  Made(S, w) = Made(S, v) \cup {<<op.stamp, k>> : k \in 1 .. op.len}
  <2>1. ASSUME NEW x \in Made(S, w)
        PROVE  x \in Made(S, v) \cup {<<op.stamp, k>> : k \in 1 .. op.len}
    <3>1. x \in Written(S) /\ Observed(w, x[1])
      BY DEF Made
    <3>2. x = <<x[1], x[2]>> /\ x[2] \in Nat /\ x[2] >= 1
      BY <3>1, WrittenFacts
    <3>3. CASE x[1] = Base /\ x[2] <= BaseLen
      <4>1. Observed(v, x[1])
        BY <3>2, <3>3, BufferAssumption DEF VersionSound
      <4> QED
        BY <3>1, <4>1 DEF Made
    <3>4. CASE \E p \in S : p.kind = "edit" /\ p.stamp = x[1] /\ x[2] <= p.len
      <4>1. PICK p \in S : p.kind = "edit" /\ p.stamp = x[1] /\ x[2] <= p.len
        BY <3>4
      <4>2. CASE Observed(v, p.stamp)
        BY <3>1, <4>1, <4>2 DEF Made
      <4>3. CASE p = op
        <5>1. x = <<op.stamp, x[2]>> /\ x[2] \in 1 .. op.len
          BY <1>2, <1>3, <3>2, <4>1, <4>3
        <5> QED
          BY <5>1
      <4> QED
        BY <1>1, <3>1, <4>1, <4>2, <4>3
    <3> QED
      BY <3>1, <3>3, <3>4 DEF Written
  <2>2. ASSUME NEW x \in Made(S, v) PROVE x \in Made(S, w)
    <3>1. x \in Written(S) /\ Observed(v, x[1])
      BY DEF Made
    <3>2. ObservedAll(w, v) /\ v \in [Author -> Nat] /\ w \in [Author -> Nat]
      <4>1. ObservedAll(w, v) /\ w \in [Author -> Nat]
        BY ObserveIs DEF w
      <4> QED
        BY <4>1 DEF VersionSound
    <3>3. Observed(w, x[1])
      BY <3>1, <3>2, WrittenFacts, StillObserved
    <3> QED
      BY <3>1, <3>3 DEF Made
  <2>3. ASSUME NEW k \in 1 .. op.len PROVE <<op.stamp, k>> \in Made(S, w)
    <3> DEFINE x == <<op.stamp, k>>
    <3>1. x \in Stamp \X Nat /\ x[2] >= 1 /\ x[2] <= op.len /\ x[1] = op.stamp
      BY <1>2, <1>3
    <3>2. x \in Written(S)
      BY <1>3, <3>1 DEF Written
    <3> QED
      BY <1>1, <3>1, <3>2 DEF Made
  <2> QED
    BY <2>1, <2>2, <2>3
<1>4. ASSUME op.kind = "undo"
      PROVE  Made(S, w) = Made(S, v)
  <2>1. ASSUME NEW x \in Written(S)
        PROVE  Observed(w, x[1]) <=> Observed(v, x[1])
    <3>1. CASE x[1] = Base /\ x[2] <= BaseLen
      BY <1>1, <3>1, WrittenFacts, BufferAssumption DEF VersionSound
    <3>2. CASE \E p \in S : p.kind = "edit" /\ p.stamp = x[1] /\ x[2] <= p.len
      BY <1>1, <1>4, <3>2
    <3> QED
      BY <3>1, <3>2 DEF Written
  <2> QED
    BY <2>1 DEF Made
<1>5. op.kind = "edit" => SeenUndos(S, w) = SeenUndos(S, v)
  BY <1>1 DEF SeenUndos
<1>6. op.kind = "undo" => SeenUndos(S, w) = SeenUndos(S, v) \cup UndoEntries(op)
  <2>1. op.kind = "undo" => {p \in S : p.kind = "undo" /\ Observed(w, p.stamp)}
                               = {p \in S : p.kind = "undo" /\ Observed(v, p.stamp)} \cup {op}
    BY <1>1
  <2> QED
    BY <2>1, Zenon DEF SeenUndos
<1>7. op.kind = "edit" => \A x : Deleters(S, w, X, x) =
                              Deleters(S, v, X, x) \cup {s \in {op.stamp} : x \in X[s]}
  <2> SUFFICES ASSUME op.kind = "edit", NEW x
               PROVE  Deleters(S, w, X, x) =
                              Deleters(S, v, X, x) \cup {s \in {op.stamp} : x \in X[s]}
    OBVIOUS
  <2> QED
    BY <1>1 DEF Deleters
<1>8. op.kind = "undo" => \A x : Deleters(S, w, X, x) = Deleters(S, v, X, x)
  BY <1>1, <1>2 DEF Deleters
<1> QED
  BY <1>3, <1>4, <1>5, <1>6, <1>7, <1>8 DEF w

\* An edit is undone only by those who have observed it.
LEMMA NotYetUndone ==
    ASSUME NEW S, NEW O, NEW X, OpsSound(S, O, X), NEW v, VersionSound(S, v),
           NEW e \in Stamp, ~Observed(v, e)
    PROVE  ~IsUndone(SeenUndos(S, v), e)
<1>1. \A u \in SeenUndos(S, v) : u.edit # e
  <2> SUFFICES ASSUME NEW u \in SeenUndos(S, v), u.edit = e PROVE FALSE
    OBVIOUS
  <2>1. PICK op \in S : op.kind = "undo" /\ Observed(v, op.stamp) /\ u \in UndoEntries(op)
    BY DEF SeenUndos
  <2>2. e \in DOMAIN op.counts
    BY <2>1 DEF UndoEntries
  <2>3. Observed(op.version, e)
    BY <2>1, <2>2, OpFacts DEF UndoSound
  <2>4. ObservedAll(v, op.version) /\ v \in [Author -> Nat]
    BY <2>1 DEF VersionSound
  <2>5. op.version \in [Author -> Nat]
    BY OpFacts
  <2> QED
    BY <2>3, <2>4, <2>5, StillObserved
<1>2. {u \in SeenUndos(S, v) : u.edit = e} = {}
  BY <1>1
<1>3. {u.count : u \in {x \in SeenUndos(S, v) : x.edit = e}} = {}
  BY <1>2
<1>4. UndoCount(SeenUndos(S, v), e) = Max({0})
  BY <1>3 DEF UndoCount, Highest
<1>5. Max({0}) = 0
  <2>1. {0} \in SUBSET (0 .. 0) /\ {0} # {}
    OBVIOUS
  <2> QED
    BY <2>1, MaxIs
<1> QED
  BY <1>4, <1>5 DEF IsUndone

\* What an edit deletes, its author had observed.
LEMMA DeletedObserved ==
    ASSUME NEW S, NEW O, NEW X, OpsSound(S, O, X), NEW op \in S, op.kind = "edit"
    PROVE  X[op.stamp] \subseteq Made(S, op.version)
<1>1. PICK d \in Seq(Char) :
        /\ DocSound(S, O, X, d, op.version)
        /\ op.from \in 0 .. Len(d) /\ op.to \in op.from .. Len(d)
        /\ X[op.stamp] = {NameOf(d[i]) : i \in {j \in op.from + 1 .. op.to : d[j].visible}}
  <2>1. EditSound(S, O, X, op)
    BY OpFacts
  <2> QED
    BY <2>1, Zenon DEF EditSound
<1>2. Len(d) \in Nat /\ \A i \in 1 .. Len(d) : NameOf(d[i]) \in Made(S, op.version)
  BY <1>1, DocFacts
<1>3. \A i \in op.from + 1 .. op.to : i \in 1 .. Len(d)
  BY <1>1, <1>2
<1> QED
  BY <1>1, <1>2, <1>3

\* A copy that takes an edit in is what a copy with that version must be.
LEMMA EditGood ==
    ASSUME NEW S, NEW O, NEW X, OpsSound(S, O, X), NEW op \in S, op.kind = "edit",
           NEW v, VersionSound(S, v), ObservedAll(v, op.version), ~Observed(v, op.stamp),
           NEW d, DocSound(S, O, X, d, v),
           NEW g, NEW f, NEW t, NEW shown, Place(O, X, op, d, g, f, t, shown)
    PROVE  DocSound(S, O, X, Replace(d, f, t, op, shown), Observe(v, op.stamp))
<1> DEFINE r == Replace(d, f, t, op, shown)
           w == Observe(v, op.stamp)
           n == op.len
           m == Len(d)
<1>0. /\ g \in 0 .. Len(d) /\ f \in g .. Len(d) /\ t \in f .. Len(d)
      /\ Names(d)[g] = O[op.stamp]
      /\ \A j \in g + 1 .. f : Before(op.stamp, d[j].stamp)
      /\ f < Len(d) => Before(d[f + 1].stamp, op.stamp)
      /\ X[op.stamp] = {NameOf(d[i]) : i \in {j \in f + 1 .. t : j \in shown}}
  BY DEF Place
<1> USE <1>0
<1>1. /\ op.stamp \in Stamp /\ op.len \in Nat
      /\ op.stamp.value \in Nat /\ op.stamp.replica \in Nat /\ op.version \in [Author -> Nat]
  BY OpFacts DEF EditSound
<1>2. /\ m \in Nat /\ d \in Seq(Char) /\ Names(d)[0] = Start
      /\ \A i \in 1 .. m : /\ Names(d)[i] = NameOf(d[i]) /\ NameOf(d[i]) \in Made(S, v)
                           /\ NameOf(d[i]) \in Written(S) /\ Observed(v, d[i].stamp)
                           /\ NameOf(d[i])[1] = d[i].stamp /\ d[i] \in Char
                           /\ d[i].stamp \in Stamp
      /\ \A x \in Made(S, v) : \E i \in 1 .. m : NameOf(d[i]) = x
  BY DocFacts
<1>3. g \in Nat /\ f \in Nat /\ t \in Nat /\ g <= f /\ f <= t /\ t <= m /\ n \in Nat
  BY <1>1, <1>2
<1>4. /\ r \in Seq(Char) /\ Len(r) = m + n
      /\ \A i \in 1 .. f : r[i] = d[i]
      /\ \A i \in 1 .. n : r[f + i] = [stamp |-> op.stamp, offset |-> i,
                                       deletions |-> {}, visible |-> TRUE]
      /\ \A i \in f + 1 .. m :
            r[i + n] = IF i <= t /\ i \in shown THEN Delete(d[i], op.stamp) ELSE d[i]
  <2>1. f \in 0 .. Len(d) /\ t \in f .. Len(d) /\ d \in Seq(Char)
    BY <1>2, <1>3
  <2>2. op.stamp \in Stamp /\ op.len \in Nat
    BY <1>1
  <2> HIDE <1>0
  <2> QED
    BY <2>1, <2>2, ReplaceIs, SMTT(30)
<1> HIDE DEF r, w
<1>5. \A i \in f + 1 .. m : NameOf(r[i + n]) = NameOf(d[i])
  <2> SUFFICES ASSUME NEW i \in f + 1 .. m PROVE NameOf(r[i + n]) = NameOf(d[i])
    OBVIOUS
  <2>1. i \in 1 .. m
    BY <1>3
  <2>2. Delete(d[i], op.stamp).stamp = d[i].stamp /\ Delete(d[i], op.stamp).offset = d[i].offset
    BY <1>2, <2>1 DEF Delete, Char
  <2> QED
    BY <1>4, <2>2 DEF NameOf
<1>6. \A i \in 1 .. n : NameOf(r[f + i]) = <<op.stamp, i>>
  <2> SUFFICES ASSUME NEW i \in 1 .. n PROVE NameOf(r[f + i]) = <<op.stamp, i>>
    OBVIOUS
  <2>1. r[f + i] = [stamp |-> op.stamp, offset |-> i, deletions |-> {}, visible |-> TRUE]
    BY <1>4
  <2>2. r[f + i].stamp = op.stamp /\ r[f + i].offset = i
    BY <2>1
  <2> QED
    BY <2>2 DEF NameOf
<1>7. \A i \in 1 .. m + n : \/ i \in 1 .. f
                            \/ \E j \in 1 .. n : i = f + j
                            \/ \E j \in f + 1 .. m : i = j + n
  <2> SUFFICES ASSUME NEW i \in 1 .. m + n, i \notin 1 .. f
               PROVE  \/ \E j \in 1 .. n : i = f + j
                      \/ \E j \in f + 1 .. m : i = j + n
    OBVIOUS
  <2>1. CASE i <= f + n
    <3>1. i - f \in 1 .. n /\ i = f + (i - f)
      BY <1>3, <2>1
    <3> QED
      BY <3>1
  <2>2. CASE ~(i <= f + n)
    <3>1. i - n \in f + 1 .. m /\ i = (i - n) + n
      BY <1>3, <2>2, SMTT(30)
    <3> QED
      BY <3>1
  <2> QED
    BY <2>1, <2>2
<1>8. \A i \in 1 .. n : f + i \in 1 .. m + n
  BY <1>3
<1>9. \A i \in f + 1 .. m : i + n \in 1 .. m + n /\ i \in 1 .. m
  BY <1>3
<1>10. \A i \in 1 .. f : i \in 1 .. m /\ i \in 1 .. m + n
  BY <1>3
<1>11. /\ Names(r) \in [0 .. m + n -> Name] /\ Names(r)[0] = Start
       /\ \A i \in 1 .. m + n : Names(r)[i] = NameOf(r[i])
  <2>1. \A i \in 1 .. m + n : NameOf(r[i]) \in Name
    <3>1. \A c \in Char : NameOf(c) \in Name
      BY StampFacts DEF NameOf, Char
    <3> QED
      BY <1>4, <3>1
  <2>2. Names(r) = [i \in 0 .. m + n |-> IF i = 0 THEN Start ELSE NameOf(r[i])]
    BY <1>4 DEF Names
  <2>3. Start \in Name
    BY DEF Start, Name
  <2> QED
    BY <1>3, <2>1, <2>2, <2>3
<1>12. Laid(Names(r), m + n, Origin(O))
  <2>1. Laid(Names(d), m, Origin(O))
    BY DEF DocSound
  <2>2. \A i \in 0 .. f : Names(r)[i] = Names(d)[i]
    BY <1>2, <1>3, <1>4, <1>10, <1>11
  <2>3. \A i \in 1 .. n : Names(r)[f + i] = <<op.stamp, i>>
    BY <1>6, <1>8, <1>11
  <2>4. \A i \in f + 1 .. m : Names(r)[i + n] = Names(d)[i]
    BY <1>2, <1>5, <1>9, <1>11
  <2>5. \A i \in 0 .. m : Names(d)[i][1] # op.stamp
    <3> SUFFICES ASSUME NEW i \in 0 .. m PROVE Names(d)[i][1] # op.stamp
      OBVIOUS
    <3>1. CASE i = 0
      <4>1. op.stamp.value > 0
        BY OpFacts
      <4>2. Names(d)[i][1].value = 0
        BY <1>2, <3>1 DEF Start
      <4> QED
        BY <4>1, <4>2
    <3>2. CASE i # 0
      <4>1. i \in 1 .. m
        BY <1>2, <3>2
      <4>2. Names(d)[i][1] = d[i].stamp /\ Observed(v, d[i].stamp)
        BY <1>2, <4>1
      <4> QED
        BY <4>2
    <3> QED
      BY <3>1, <3>2
  <2>6. Origin(O)[<<op.stamp, 1>>] = Names(d)[g]
    <3>1. <<op.stamp, 1>> \in Name
      BY <1>1, StampFacts
    <3> QED
      BY <3>1 DEF Origin
  <2>7. \A i \in 2 .. n : Origin(O)[<<op.stamp, i>>] = <<op.stamp, i - 1>>
    <3>1. \A i \in 2 .. n : <<op.stamp, i>> \in Name
      BY <1>1, StampFacts
    <3> QED
      BY <3>1 DEF Origin
  <2>8. \A k \in g + 1 .. f : Before(op.stamp, Names(d)[k][1])
    <3> SUFFICES ASSUME NEW k \in g + 1 .. f PROVE Before(op.stamp, Names(d)[k][1])
      OBVIOUS
    <3>1. k \in 1 .. m
      BY <1>3
    <3>2. Names(d)[k][1] = d[k].stamp
      BY <1>2, <3>1
    <3> QED
      BY <3>2
  <2>9. f < m => Before(Names(d)[f + 1][1], op.stamp)
    <3> SUFFICES ASSUME f < m PROVE Before(Names(d)[f + 1][1], op.stamp)
      OBVIOUS
    <3>1. f + 1 \in 1 .. m
      BY <1>3
    <3>2. Names(d)[f + 1][1] = d[f + 1].stamp
      BY <1>2, <3>1
    <3> QED
      BY <3>2
  <2> DEFINE a == Names(d)
             b == Names(r)
             org == Origin(O)
             s == op.stamp
  <2>10. s.value \in Nat /\ s.replica \in Nat /\ g <= f /\ f <= m /\ b \in [0 .. m + n -> Name]
    BY <1>1, <1>3, <1>11
  <2>11. Fits(a, m, org, b, n, s, g, f)
    BY <2>2, <2>3, <2>4, <2>5, <2>6, <2>7, <2>8, <2>9, <2>10, Zenon DEF Fits
  <2> HIDE DEF m, n, a, b, org, s
  <2>12. Laid(b, m + n, org)
    BY <1>2, <1>3, <2>1, <2>11, LaidInsert DEF a, org
  <2> QED
    BY <2>12 DEF b, org
<1>13. /\ Made(S, w) = Made(S, v) \cup {<<op.stamp, k>> : k \in 1 .. n}
       /\ SeenUndos(S, w) = SeenUndos(S, v)
       /\ \A x : Deleters(S, w, X, x) = Deleters(S, v, X, x) \cup {s \in {op.stamp} : x \in X[s]}
  BY ObserveMade DEF w
<1>14. {NameOf(r[i]) : i \in 1 .. m + n} = Made(S, w)
  <2>1. ASSUME NEW i \in 1 .. m + n PROVE NameOf(r[i]) \in Made(S, w)
    <3>1. CASE i \in 1 .. f
      BY <1>2, <1>4, <1>10, <1>13, <3>1
    <3>2. CASE \E j \in 1 .. n : i = f + j
      BY <1>6, <1>13, <3>2
    <3>3. CASE \E j \in f + 1 .. m : i = j + n
      BY <1>2, <1>5, <1>9, <1>13, <3>3
    <3> QED
      BY <1>7, <3>1, <3>2, <3>3
  <2>2. ASSUME NEW x \in Made(S, w) PROVE \E i \in 1 .. m + n : NameOf(r[i]) = x
    <3>1. CASE x \in Made(S, v)
      <4>1. PICK i \in 1 .. m : NameOf(d[i]) = x
        BY <1>2, <3>1
      <4>2. CASE i \in 1 .. f
        BY <1>4, <1>10, <4>1, <4>2
      <4>3. CASE i \in f + 1 .. m
        BY <1>5, <1>9, <4>1, <4>3
      <4> QED
        BY <1>3, <4>2, <4>3
    <3>2. CASE x \in {<<op.stamp, k>> : k \in 1 .. n}
      BY <1>6, <1>8, <3>2
    <3> QED
      BY <1>13, <3>1, <3>2
  <2> QED
    BY <2>1, <2>2
<1>15. X[op.stamp] \subseteq Made(S, op.version)
  BY DeletedObserved
<1>16. \A k \in Nat : Deleters(S, w, X, <<op.stamp, k>>) = {}
  <2> SUFFICES ASSUME NEW k \in Nat, NEW p \in S, p.kind = "edit", Observed(w, p.stamp),
                      <<op.stamp, k>> \in X[p.stamp]
               PROVE  FALSE
    BY DEF Deleters
  <2>1. Observed(p.version, op.stamp)
    <3>1. <<op.stamp, k>> \in Made(S, p.version)
      BY DeletedObserved
    <3> QED
      BY <3>1 DEF Made
  <2>2. p.version \in [Author -> Nat] /\ v \in [Author -> Nat]
    BY OpFacts DEF VersionSound
  <2>3. Observed(v, p.stamp) \/ p = op
    BY ObserveIs DEF w
  <2>4. ObservedAll(v, p.version)
    BY <2>3 DEF VersionSound
  <2> QED
    BY <1>1, <2>1, <2>2, <2>4, StillObserved
<1>17. ~IsUndone(SeenUndos(S, w), op.stamp)
  BY <1>1, <1>13, NotYetUndone
<1>18. ASSUME NEW i \in 1 .. m, i \notin f + 1 .. t \/ i \notin shown
       PROVE  /\ d[i].deletions = Deleters(S, w, X, NameOf(d[i]))
              /\ d[i].visible = IsVisible(d[i], SeenUndos(S, w))
  <2>1. NameOf(d[i]) \notin X[op.stamp]
    <3> SUFFICES ASSUME NameOf(d[i]) \in X[op.stamp] PROVE FALSE
      OBVIOUS
    <3>1. PICK j \in f + 1 .. t : j \in shown /\ NameOf(d[i]) = NameOf(d[j])
      OBVIOUS
    <3>2. j \in 1 .. m
      BY <1>3
    <3>3. i = j
      BY <3>1, <3>2, DocFacts
    <3> QED
      BY <1>18, <3>1, <3>3
  <2>2. /\ d[i].deletions = Deleters(S, v, X, NameOf(d[i]))
        /\ d[i].visible = IsVisible(d[i], SeenUndos(S, v))
    BY DEF DocSound
  <2> QED
    BY <1>13, <2>1, <2>2
<1>19. ASSUME NEW i \in f + 1 .. t, i \in shown
       PROVE  LET c == Delete(d[i], op.stamp)
              IN  /\ c.deletions = Deleters(S, w, X, NameOf(d[i]))
                  /\ c.visible = IsVisible(c, SeenUndos(S, w))
  <2> DEFINE c == Delete(d[i], op.stamp)
  <2>1. i \in 1 .. m
    BY <1>3
  <2>2. NameOf(d[i]) \in X[op.stamp]
    BY <1>19
  <2>3. d[i].deletions = Deleters(S, v, X, NameOf(d[i]))
    BY <2>1 DEF DocSound
  <2>4. c.deletions = d[i].deletions \cup {op.stamp} /\ c.visible = FALSE
    BY <1>2, <2>1 DEF Delete, Char
  <2> HIDE DEF c
  <2>5. IsVisible(c, SeenUndos(S, w)) = FALSE
    <3>1. op.stamp \in c.deletions
      BY <2>4
    <3> QED
      BY <1>17, <3>1, Zenon DEF IsVisible
  <2>6. c.deletions = Deleters(S, w, X, NameOf(d[i]))
    BY <1>13, <2>2, <2>3, <2>4
  <2>7. c.visible = IsVisible(c, SeenUndos(S, w))
    BY <2>4, <2>5, Zenon
  <2> QED
    BY <2>6, <2>7, Zenon DEF c
<1>20. ASSUME NEW i \in 1 .. m + n
       PROVE  /\ r[i].deletions = Deleters(S, w, X, NameOf(r[i]))
              /\ r[i].visible = IsVisible(r[i], SeenUndos(S, w))
  <2>1. CASE i \in 1 .. f
    <3>1. i \in 1 .. m /\ i \notin f + 1 .. t /\ r[i] = d[i]
      BY <1>3, <1>4, <2>1
    <3> QED
      BY <1>18, <3>1
  <2>2. CASE \E j \in 1 .. n : i = f + j
    <3>1. PICK j \in 1 .. n : i = f + j
      BY <2>2
    <3>2. r[i] = [stamp |-> op.stamp, offset |-> j, deletions |-> {}, visible |-> TRUE]
      BY <1>4, <3>1
    <3>3. NameOf(r[i]) = <<op.stamp, j>> /\ r[i].deletions = {} /\ r[i].visible = TRUE
          /\ r[i].stamp = op.stamp
      BY <3>2 DEF NameOf
    <3>4. IsVisible(r[i], SeenUndos(S, w)) = TRUE
      BY <1>17, <3>3, Zenon DEF IsVisible
    <3>5. r[i].visible = IsVisible(r[i], SeenUndos(S, w))
      BY <3>3, <3>4, Zenon
    <3>6. r[i].deletions = Deleters(S, w, X, NameOf(r[i]))
      BY <1>16, <3>3
    <3> QED
      BY <3>5, <3>6, Zenon
  <2>3. CASE \E j \in f + 1 .. m : i = j + n
    <3>1. PICK j \in f + 1 .. m : i = j + n
      BY <2>3
    <3>2. NameOf(r[i]) = NameOf(d[j]) /\ j \in 1 .. m
      BY <1>3, <1>5, <3>1
    <3>3. CASE j <= t /\ j \in shown
      <4>1. r[i] = Delete(d[j], op.stamp) /\ j \in f + 1 .. t
        BY <1>3, <1>4, <3>1, <3>3
      <4> QED
        BY <1>19, <3>2, <3>3, <4>1
    <3>4. CASE ~(j <= t /\ j \in shown)
      <4>1. r[i] = d[j] /\ (j \notin f + 1 .. t \/ j \notin shown)
        BY <1>3, <1>4, <3>1, <3>4
      <4> QED
        BY <1>18, <3>2, <4>1
    <3> QED
      BY <3>3, <3>4
  <2> QED
    BY <1>7, <2>1, <2>2, <2>3
<1> QED
  <2>1. DocSound(S, O, X, r, w)
    BY <1>4, <1>12, <1>14, <1>20 DEF DocSound
  <2> QED
    BY <2>1 DEF r, w

LEMMA IsUndoneSame ==
    ASSUME NEW U, NEW W, NEW e, {u \in U : u.edit = e} = {u \in W : u.edit = e}
    PROVE  IsUndone(U, e) <=> IsUndone(W, e)
BY Zenon DEF IsUndone, UndoCount

\* So is one that takes an undo in.
LEMMA UndoGood ==
    ASSUME NEW S, NEW O, NEW X, OpsSound(S, O, X), NEW op \in S, op.kind = "undo",
           NEW v, VersionSound(S, v), ObservedAll(v, op.version), ~Observed(v, op.stamp),
           NEW d, DocSound(S, O, X, d, v),
           NEW U, U = SeenUndos(S, v) \cup UndoEntries(op)
    PROVE  /\ DocSound(S, O, X, ApplyUndo(d, DOMAIN op.counts, U), Observe(v, op.stamp))
           /\ U = SeenUndos(S, Observe(v, op.stamp))
<1> DEFINE E == DOMAIN op.counts
           r == ApplyUndo(d, E, U)
           w == Observe(v, op.stamp)
<1>1. /\ Len(d) \in Nat /\ d \in Seq(Char) /\ \A i \in 1 .. Len(d) : d[i] \in Char
  BY DocFacts
<1>2. /\ Made(S, w) = Made(S, v) /\ SeenUndos(S, w) = U
      /\ \A x : Deleters(S, w, X, x) = Deleters(S, v, X, x)
  BY ObserveMade
<1> HIDE DEF w
<1>3. r = [i \in 1 .. Len(d) |->
              IF d[i].stamp \in E \/ d[i].deletions \cap E # {}
              THEN [d[i] EXCEPT !.visible = IsVisible(d[i], U)] ELSE d[i]]
  BY <1>1 DEF ApplyUndo
<1> HIDE DEF r, E
<1>4. ASSUME NEW c \in Char
      PROVE  LET b == [c EXCEPT !.visible = IsVisible(c, U)]
             IN  /\ b \in Char /\ b.stamp = c.stamp /\ b.offset = c.offset
                 /\ b.deletions = c.deletions /\ b.visible = IsVisible(c, U)
  <2>1. IsVisible(c, U) \in BOOLEAN
    BY DEF IsVisible
  <2> DEFINE z == IsVisible(c, U)
  <2> HIDE DEF z
  <2>2. LET b == [c EXCEPT !.visible = z]
        IN  /\ b \in Char /\ b.stamp = c.stamp /\ b.offset = c.offset
            /\ b.deletions = c.deletions /\ b.visible = z
    BY <2>1 DEF Char, z
  <2> QED
    BY <2>2 DEF z
<1>5. \A i \in 1 .. Len(d) : /\ r[i] \in Char /\ r[i].stamp = d[i].stamp
                             /\ r[i].offset = d[i].offset /\ r[i].deletions = d[i].deletions
  <2> SUFFICES ASSUME NEW i \in 1 .. Len(d)
               PROVE  /\ r[i] \in Char /\ r[i].stamp = d[i].stamp
                      /\ r[i].offset = d[i].offset /\ r[i].deletions = d[i].deletions
    OBVIOUS
  <2>1. d[i] \in Char /\ (r[i] = d[i] \/ r[i] = [d[i] EXCEPT !.visible = IsVisible(d[i], U)])
    BY <1>1, <1>3
  <2> QED
    BY <1>4, <2>1
<1>6. r \in Seq(Char) /\ Len(r) = Len(d)
  <2>1. r \in [1 .. Len(d) -> Char]
    <3>1. DOMAIN r = 1 .. Len(d) /\ r = [i \in 1 .. Len(d) |-> r[i]]
      BY <1>3, Zenon
    <3> QED
      BY <1>5, <3>1, Zenon
  <2> QED
    BY <1>1, <2>1
<1>7. \A i \in 1 .. Len(d) : NameOf(r[i]) = NameOf(d[i])
  BY <1>5 DEF NameOf
<1>8. Names(r) = Names(d)
  BY <1>1, <1>6, <1>7 DEF Names
<1>9. {NameOf(r[i]) : i \in 1 .. Len(r)} = {NameOf(d[i]) : i \in 1 .. Len(d)}
  BY <1>6, <1>7
<1>10. ASSUME NEW e, e \notin E PROVE IsUndone(U, e) <=> IsUndone(SeenUndos(S, v), e)
  <2>1. \A u \in UndoEntries(op) : u.edit \in E
    BY DEF UndoEntries, E
  <2>2. {u \in U : u.edit = e} = {u \in SeenUndos(S, v) : u.edit = e}
    BY <1>10, <2>1
  <2> QED
    BY <2>2, IsUndoneSame
<1>11. ASSUME NEW i \in 1 .. Len(d)
       PROVE  r[i].visible = IsVisible(r[i], U)
  <2>1. IsVisible(r[i], U) = IsVisible(d[i], U)
    BY <1>5, Zenon DEF IsVisible
  <2>2. CASE d[i].stamp \in E \/ d[i].deletions \cap E # {}
    <3>1. r[i] = [d[i] EXCEPT !.visible = IsVisible(d[i], U)]
      BY <1>3, <2>2
    <3>2. r[i].visible = IsVisible(d[i], U)
      BY <1>1, <1>4, <3>1
    <3> QED
      BY <2>1, <3>2
  <2>3. CASE ~(d[i].stamp \in E \/ d[i].deletions \cap E # {})
    <3>1. r[i] = d[i]
      BY <1>3, <2>3
    <3>2. d[i].visible = IsVisible(d[i], SeenUndos(S, v))
      BY DEF DocSound
    <3>3. IsUndone(U, d[i].stamp) <=> IsUndone(SeenUndos(S, v), d[i].stamp)
      BY <1>10, <2>3
    <3>4. \A e \in d[i].deletions : IsUndone(U, e) <=> IsUndone(SeenUndos(S, v), e)
      BY <1>10, <2>3
    <3>5. IsVisible(d[i], U) = IsVisible(d[i], SeenUndos(S, v))
      BY <3>3, <3>4, Zenon DEF IsVisible
    <3> QED
      BY <3>1, <3>2, <3>5
  <2> QED
    BY <2>2, <2>3
<1> QED
  <2>1. Laid(Names(r), Len(r), Origin(O))
    BY <1>6, <1>8 DEF DocSound
  <2>2. {NameOf(r[i]) : i \in 1 .. Len(r)} = Made(S, w)
    BY <1>2, <1>9 DEF DocSound
  <2>3. \A i \in 1 .. Len(r) : r[i].deletions = Deleters(S, w, X, NameOf(r[i]))
    BY <1>2, <1>5, <1>6, <1>7 DEF DocSound
  <2>4. DocSound(S, O, X, r, w)
    BY <1>2, <1>6, <1>11, <2>1, <2>2, <2>3 DEF DocSound
  <2> QED
    BY <1>2, <2>4 DEF r, w, E

-----------------------------------------------------------------------------
(* Receiving operations                                                    *)

AllUndos(S) == UNION {UndoEntries(op) : op \in {p \in S : p.kind = "undo"}}

CopyType(S) ==
    [fragments : Seq(Char), version : [Author -> Nat], clock : Nat,
     undos : SUBSET AllUndos(S), deferred : SUBSET S, waiting : SUBSET Author]

\* A copy holds what its version says, and no more.
CopySound(S, O, X, c) ==
    /\ c \in CopyType(S)
    /\ VersionSound(S, c.version)
    /\ DocSound(S, O, X, c.fragments, c.version)
    /\ c.undos = SeenUndos(S, c.version)
    /\ \A q \in Author : c.version[q] < c.clock

LEMMA NotedIs ==
    ASSUME NEW S, NEW c \in CopyType(S), NEW s \in Stamp
    PROVE  LET d == Noted(c, s)
           IN  /\ d \in CopyType(S)
               /\ d.fragments = c.fragments /\ d.undos = c.undos
               /\ d.deferred = c.deferred /\ d.waiting = c.waiting
               /\ d.version = Observe(c.version, s)
               /\ d.clock > s.value /\ d.clock > c.clock
<1>1. s.value \in Nat /\ s.replica \in Author
  BY StampFacts
<1>2. /\ c.version \in [Author -> Nat] /\ c.clock \in Nat
      /\ c = [fragments |-> c.fragments, version |-> c.version, clock |-> c.clock,
              undos |-> c.undos, deferred |-> c.deferred, waiting |-> c.waiting]
  BY DEF CopyType
<1> DEFINE w == Observe(c.version, s)
           k == (IF c.clock < s.value THEN s.value ELSE c.clock) + 1
<1>3. w \in [Author -> Nat]
  BY <1>1, <1>2 DEF Observe
<1>4. k \in Nat /\ k > s.value /\ k > c.clock
  BY <1>1, <1>2
<1>5. Noted(c, s) = [fragments |-> c.fragments, version |-> w, clock |-> k,
                     undos |-> c.undos, deferred |-> c.deferred, waiting |-> c.waiting]
  <2> DEFINE b == [c EXCEPT !.version = w]
  <2>1. b = [fragments |-> c.fragments, version |-> w, clock |-> c.clock,
             undos |-> c.undos, deferred |-> c.deferred, waiting |-> c.waiting]
    BY <1>2
  <2>2. Noted(c, s) = [b EXCEPT !.clock = k]
    BY DEF Noted
  <2> HIDE DEF b, w, k
  <2> QED
    BY <2>1, <2>2
<1> HIDE DEF w, k
<1>6. [fragments |-> c.fragments, version |-> w, clock |-> k,
       undos |-> c.undos, deferred |-> c.deferred, waiting |-> c.waiting] \in CopyType(S)
  BY <1>3, <1>4 DEF CopyType
<1> QED
  BY <1>4, <1>5, <1>6 DEF w

LEMMA ApplyGood ==
    ASSUME NEW S, NEW O, NEW X, OpsSound(S, O, X), NEW c, CopySound(S, O, X, c),
           NEW op \in S, ObservedAll(c.version, op.version)
    PROVE  LET d == ApplyOp(c, op)
           IN  /\ CopySound(S, O, X, d)
               /\ d.version = IF Observed(c.version, op.stamp) THEN c.version
                                                               ELSE Observe(c.version, op.stamp)
               /\ d.deferred = c.deferred /\ d.waiting = c.waiting
<1> DEFINE v == c.version
<1>1. /\ c \in CopyType(S) /\ VersionSound(S, v) /\ DocSound(S, O, X, c.fragments, v)
      /\ c.undos = SeenUndos(S, v) /\ \A q \in Author : v[q] < c.clock
  BY DEF CopySound
<1>2. /\ op.stamp \in Stamp /\ op.kind \in {"edit", "undo"} /\ op.stamp.replica \in Author
      /\ op.stamp.value \in Nat
  BY OpFacts
<1>3. /\ v \in [Author -> Nat] /\ c.clock \in Nat
      /\ c = [fragments |-> c.fragments, version |-> c.version, clock |-> c.clock,
              undos |-> c.undos, deferred |-> c.deferred, waiting |-> c.waiting]
  BY <1>1 DEF CopyType
<1>4. CASE Observed(v, op.stamp)
  BY <1>4 DEF ApplyOp
<1>5. ASSUME ~Observed(v, op.stamp),
             NEW F, NEW U, DocSound(S, O, X, F, Observe(v, op.stamp)),
             U = SeenUndos(S, Observe(v, op.stamp)),
             NEW b, b = [fragments |-> F, version |-> c.version, clock |-> c.clock,
                         undos |-> U, deferred |-> c.deferred, waiting |-> c.waiting]
      PROVE  LET d == Noted(b, op.stamp)
             IN  /\ CopySound(S, O, X, d) /\ d.version = Observe(v, op.stamp)
                 /\ d.deferred = c.deferred /\ d.waiting = c.waiting
  <2> DEFINE w == Observe(v, op.stamp)
             d == Noted(b, op.stamp)
  <2>1. F \in Seq(Char)
    BY <1>5 DEF DocSound
  <2>2. U \in SUBSET AllUndos(S)
    BY <1>5 DEF SeenUndos, AllUndos
  <2>3. b \in CopyType(S)
    BY <1>1, <1>5, <2>1, <2>2 DEF CopyType
  <2>4. /\ b.fragments = F /\ b.undos = U /\ b.version = v /\ b.clock = c.clock
        /\ b.deferred = c.deferred /\ b.waiting = c.waiting
    BY <1>5
  <2>5. /\ d \in CopyType(S) /\ d.fragments = F /\ d.undos = U /\ d.version = w
        /\ d.deferred = c.deferred /\ d.waiting = c.waiting
        /\ d.clock > op.stamp.value /\ d.clock > c.clock
    BY <1>2, <2>3, <2>4, NotedIs
  <2>6. VersionSound(S, w) /\ w = [v EXCEPT ![op.stamp.replica] = op.stamp.value]
    BY <1>1, <1>5, ObserveIs
  <2>7. \A q \in Author : w[q] < d.clock
    <3>1. d.clock \in Nat
      BY <2>5 DEF CopyType
    <3> HIDE DEF d, w
    <3>2. \A q \in Author : w[q] = op.stamp.value \/ w[q] = v[q]
      BY <1>2, <1>3, <2>6
    <3>3. \A q \in Author : v[q] < c.clock /\ v[q] \in Nat
      BY <1>1, <1>3
    <3> QED
      BY <1>2, <1>3, <2>5, <3>1, <3>2, <3>3
  <2> HIDE DEF d, w
  <2>8. CopySound(S, O, X, d)
    BY <1>5, <2>5, <2>6, <2>7 DEF CopySound, w
  <2> QED
    BY <2>5, <2>8 DEF d, w
<1>6. CASE ~Observed(v, op.stamp) /\ op.kind = "edit"
  <2> DEFINE d == c.fragments
             g == BehindSeen(d, op.version, op.from)
             f == RemoteStart(d, op)
             t == RemoteEnd(d, op)
             shown == {i \in DOMAIN d : WasVisible(d[i], op.version, c.undos)}
             F == Replace(d, f, t, op, shown)
             b == [c EXCEPT !.fragments = F]
  <2>1. DocSound(S, O, X, F, Observe(v, op.stamp))
    <3>1. VersionSound(S, v) /\ ObservedAll(v, op.version) /\ ~Observed(v, op.stamp)
          /\ DocSound(S, O, X, d, v) /\ c.undos = SeenUndos(S, v)
      BY <1>1, <1>6
    <3> HIDE DEF v, d
    <3>2. Place(O, X, op, d, g, f, t, shown)
      <4>1. Place(O, X, op, d, g, f, t,
                  {i \in DOMAIN d : WasVisible(d[i], op.version, SeenUndos(S, v))})
        BY <1>6, <3>1, RemoteIs
      <4>2. shown = {i \in DOMAIN d : WasVisible(d[i], op.version, SeenUndos(S, v))}
        BY <3>1
      <4> QED
        BY <4>1, <4>2
    <3> HIDE DEF g, f, t, shown
    <3> QED
      BY <1>6, <3>1, <3>2, EditGood
  <2>7. c.undos = SeenUndos(S, Observe(v, op.stamp))
    BY <1>1, <1>6, ObserveMade
  <2>8. ApplyOp(c, op) = Noted(b, op.stamp)
    BY <1>6, Zenon DEF ApplyOp, ApplyRemoteEdit
  <2> HIDE DEF F
  <2>9. b = [fragments |-> F, version |-> c.version, clock |-> c.clock,
             undos |-> c.undos, deferred |-> c.deferred, waiting |-> c.waiting]
    BY <1>3
  <2> HIDE DEF b
  <2> QED
    BY <1>5, <1>6, <2>1, <2>7, <2>8, <2>9
<1>7. CASE ~Observed(v, op.stamp) /\ op.kind = "undo"
  <2> DEFINE U == c.undos \cup UndoEntries(op)
             F == ApplyUndo(c.fragments, DOMAIN op.counts, U)
             b == [c EXCEPT !.undos = U, !.fragments = F]
  <2>1. /\ DocSound(S, O, X, F, Observe(v, op.stamp))
        /\ U = SeenUndos(S, Observe(v, op.stamp))
    <3> DEFINE d == c.fragments
    <3>1. VersionSound(S, v) /\ ObservedAll(v, op.version) /\ ~Observed(v, op.stamp)
          /\ DocSound(S, O, X, d, v) /\ U = SeenUndos(S, v) \cup UndoEntries(op)
      BY <1>1, <1>7
    <3> HIDE DEF v, d, U
    <3>2. /\ DocSound(S, O, X, ApplyUndo(d, DOMAIN op.counts, U), Observe(v, op.stamp))
          /\ U = SeenUndos(S, Observe(v, op.stamp))
      BY <1>7, <3>1, UndoGood
    <3> QED
      BY <3>2 DEF d
  <2>2. ApplyOp(c, op) = Noted(b, op.stamp)
    <3>1. ApplyOp(c, op) = Noted([c EXCEPT !.undos = U,
                                     !.fragments = ApplyUndo(@, DOMAIN op.counts, U)], op.stamp)
      BY <1>7, Zenon DEF ApplyOp
    <3>2. [c EXCEPT !.undos = U, !.fragments = ApplyUndo(@, DOMAIN op.counts, U)] = b
      BY <1>3
    <3> QED
      BY <3>1, <3>2
  <2> HIDE DEF F, U
  <2>3. b = [fragments |-> F, version |-> c.version, clock |-> c.clock,
             undos |-> U, deferred |-> c.deferred, waiting |-> c.waiting]
    <3> DEFINE a == [c EXCEPT !.undos = U]
    <3>1. a = [fragments |-> c.fragments, version |-> c.version, clock |-> c.clock,
               undos |-> U, deferred |-> c.deferred, waiting |-> c.waiting]
      BY <1>3
    <3>2. b = [a EXCEPT !.fragments = F]
      OBVIOUS
    <3> HIDE DEF a, b
    <3> QED
      BY <3>1, <3>2
  <2> HIDE DEF b
  <2> QED
    BY <1>5, <1>7, <2>1, <2>2, <2>3
<1> QED
  BY <1>2, <1>4, <1>6, <1>7

\* The copies after each of the first n operations.
IsPath(p, c, ops, n) ==
    p = [i \in 0 .. n |-> IF i = 0 THEN c ELSE ApplyOrDefer(p[i - 1], ops[i])]

LEMMA PathExists ==
    ASSUME NEW c, NEW ops, NEW k \in Nat
    PROVE  \E p : IsPath(p, c, ops, k)
<1> DEFINE T == {n \in Nat : \E p : IsPath(p, c, ops, n)}
<1>1. 0 \in T
  <2>1. IsPath([i \in 0 .. 0 |-> c], c, ops, 0)
    BY DEF IsPath
  <2> QED
    BY <2>1
<1>2. ASSUME NEW n \in Nat, n \in T PROVE n + 1 \in T
  <2>1. PICK p : IsPath(p, c, ops, n)
    BY <1>2
  <2> DEFINE q == [i \in 0 .. n + 1 |->
                      IF i <= n THEN p[i] ELSE ApplyOrDefer(p[n], ops[n + 1])]
  <2>2. IsPath(q, c, ops, n + 1)
    <3>1. \A i \in 0 .. n : p[i] = IF i = 0 THEN c ELSE ApplyOrDefer(p[i - 1], ops[i])
      BY <2>1 DEF IsPath
    <3> SUFFICES ASSUME NEW i \in 0 .. n + 1
                 PROVE  q[i] = IF i = 0 THEN c ELSE ApplyOrDefer(q[i - 1], ops[i])
      BY Zenon DEF IsPath
    <3>2. CASE i <= n
      BY <3>1, <3>2
    <3>3. CASE i = n + 1
      BY <3>3
    <3> QED
      BY <3>2, <3>3
  <2> QED
    BY <2>2
<1>3. Nat \subseteq T
  <2> HIDE DEF T
  <2> QED
    BY <1>1, <1>2, Induct
<1> QED
  BY <1>3

LEMMA ReceiveIs ==
    ASSUME NEW c, NEW ops, Len(ops) \in Nat
    PROVE  \E p : /\ p[0] = c /\ Receive(c, ops) = p[Len(ops)]
                  /\ \A i \in 1 .. Len(ops) : p[i] = ApplyOrDefer(p[i - 1], ops[i])
<1> DEFINE p == CHOOSE q : IsPath(q, c, ops, Len(ops))
<1>1. \E q : IsPath(q, c, ops, Len(ops))
  BY PathExists
<1>2. IsPath(p, c, ops, Len(ops))
  BY <1>1, Zenon
<1>3. Receive(c, ops) = p[Len(ops)]
  BY Zenon DEF Receive, IsPath
<1> HIDE DEF p
<1>4. p[0] = c
  BY <1>2 DEF IsPath
<1>5. \A i \in 1 .. Len(ops) : p[i] = ApplyOrDefer(p[i - 1], ops[i])
  <2> SUFFICES ASSUME NEW i \in 1 .. Len(ops) PROVE p[i] = ApplyOrDefer(p[i - 1], ops[i])
    OBVIOUS
  <2>1. i \in 0 .. Len(ops) /\ i # 0
    OBVIOUS
  <2>2. p = [j \in 0 .. Len(ops) |-> IF j = 0 THEN c ELSE ApplyOrDefer(p[j - 1], ops[j])]
    BY <1>2 DEF IsPath
  <2> DEFINE e(j) == IF j = 0 THEN c ELSE ApplyOrDefer(p[j - 1], ops[j])
  <2>3. p = [j \in 0 .. Len(ops) |-> e(j)]
    BY <2>2
  <2> HIDE DEF e
  <2>4. p[i] = e(i)
    BY <2>1, <2>3
  <2> QED
    BY <2>1, <2>4 DEF e
<1> QED
  BY <1>3, <1>4, <1>5

PutOff(c, op) == [c EXCEPT !.waiting = @ \cup {op.stamp.replica}, !.deferred = @ \cup {op}]

LEMMA DeferIs ==
    ASSUME NEW S, NEW O, NEW X, OpsSound(S, O, X), NEW c, CopySound(S, O, X, c), NEW op \in S
    PROVE  LET d == PutOff(c, op)
           IN  /\ CopySound(S, O, X, d) /\ d.version = c.version
               /\ d.waiting = c.waiting \cup {op.stamp.replica}
               /\ d.deferred = c.deferred \cup {op}
<1> DEFINE W == c.waiting \cup {op.stamp.replica}
           D == c.deferred \cup {op}
           a == [c EXCEPT !.waiting = W]
           d == [a EXCEPT !.deferred = D]
<1>1. c \in CopyType(S)
  BY DEF CopySound
<1>2. c = [fragments |-> c.fragments, version |-> c.version, clock |-> c.clock,
           undos |-> c.undos, deferred |-> c.deferred, waiting |-> c.waiting]
  BY <1>1 DEF CopyType
<1>3. W \in SUBSET Author /\ D \in SUBSET S
  BY <1>1, OpFacts DEF CopyType
<1> HIDE DEF W, D
<1>4. a = [fragments |-> c.fragments, version |-> c.version, clock |-> c.clock,
           undos |-> c.undos, deferred |-> c.deferred, waiting |-> W]
  BY <1>2
<1> HIDE DEF a
<1>5. d = [fragments |-> c.fragments, version |-> c.version, clock |-> c.clock,
           undos |-> c.undos, deferred |-> D, waiting |-> W]
  BY <1>4
<1>6. d = PutOff(c, op)
  <2>1. a.deferred = c.deferred
    BY <1>4
  <2> QED
    BY <2>1 DEF a, W, D, PutOff
<1> HIDE DEF d
<1>7. d \in CopyType(S)
  BY <1>1, <1>3, <1>5 DEF CopyType
<1>8. CopySound(S, O, X, d)
  BY <1>5, <1>7 DEF CopySound
<1>9. d.version = c.version /\ d.waiting = W /\ d.deferred = D
  BY <1>5
<1> QED
  BY <1>6, <1>8, <1>9 DEF W, D

LEMMA ReceiveOneGood ==
    ASSUME NEW S, NEW O, NEW X, OpsSound(S, O, X), NEW c, CopySound(S, O, X, c), NEW op \in S
    PROVE  /\ CopySound(S, O, X, ApplyOrDefer(c, op))
           /\ ObservedAll(ApplyOrDefer(c, op).version, c.version)
<1>0. VersionSound(S, c.version) /\ c.version \in [Author -> Nat]
  BY DEF CopySound, VersionSound
<1>1. CASE CanApplyOp(c, op)
  <2>1. ApplyOrDefer(c, op) = ApplyOp(c, op) /\ ObservedAll(c.version, op.version)
    BY <1>1 DEF ApplyOrDefer, CanApplyOp
  <2>2. CopySound(S, O, X, ApplyOp(c, op))
    BY <2>1, ApplyGood
  <2>3. ApplyOp(c, op).version = IF Observed(c.version, op.stamp) THEN c.version
                                 ELSE Observe(c.version, op.stamp)
    BY <2>1, ApplyGood
  <2>4. CASE Observed(c.version, op.stamp)
    BY <1>0, <2>1, <2>2, <2>3, <2>4 DEF ObservedAll
  <2>5. CASE ~Observed(c.version, op.stamp)
    <3>1. ObservedAll(Observe(c.version, op.stamp), c.version)
      BY <1>0, <2>1, <2>5, ObserveIs
    <3> QED
      BY <2>1, <2>2, <2>3, <2>5, <3>1
  <2> QED
    BY <2>4, <2>5
<1>2. CASE ~CanApplyOp(c, op)
  <2> DEFINE d == PutOff(c, op)
  <2>1. ApplyOrDefer(c, op) = d
    BY <1>2, Zenon DEF ApplyOrDefer, PutOff
  <2>2. CopySound(S, O, X, d) /\ d.version = c.version
    BY DeferIs
  <2> HIDE DEF d
  <2> QED
    BY <1>0, <2>1, <2>2 DEF ObservedAll
<1> QED
  BY <1>1, <1>2

LEMMA ObservedAllTransitive ==
    ASSUME NEW u \in [Author -> Nat], NEW v \in [Author -> Nat], NEW w \in [Author -> Nat],
           ObservedAll(u, v), ObservedAll(v, w)
    PROVE  ObservedAll(u, w)
<1> SUFFICES ASSUME NEW q \in Author PROVE u[q] >= w[q]
  BY DEF ObservedAll
<1>1. u[q] >= v[q] /\ v[q] >= w[q] /\ u[q] \in Nat /\ v[q] \in Nat /\ w[q] \in Nat
  BY DEF ObservedAll
<1> QED
  BY <1>1

LEMMA ReceiveGood ==
    ASSUME NEW S, NEW O, NEW X, OpsSound(S, O, X), NEW c, CopySound(S, O, X, c),
           NEW ops \in Seq(S)
    PROVE  /\ CopySound(S, O, X, Receive(c, ops))
           /\ ObservedAll(Receive(c, ops).version, c.version)
<1>0. Len(ops) \in Nat /\ \A i \in 1 .. Len(ops) : ops[i] \in S
  OBVIOUS
<1>1. PICK p : /\ p[0] = c /\ Receive(c, ops) = p[Len(ops)]
               /\ \A i \in 1 .. Len(ops) : p[i] = ApplyOrDefer(p[i - 1], ops[i])
  BY <1>0, ReceiveIs
<1>2. \A d : CopySound(S, O, X, d) => d.version \in [Author -> Nat]
  BY DEF CopySound, VersionSound
<1> DEFINE Good(d) == CopySound(S, O, X, d) /\ ObservedAll(d.version, c.version)
           T == {i \in Nat : i <= Len(ops) => Good(p[i])}
<1>3. 0 \in T
  <2>1. ObservedAll(c.version, c.version)
    BY <1>2 DEF ObservedAll
  <2> QED
    BY <1>1, <2>1
<1>4. ASSUME NEW n \in Nat, n \in T PROVE n + 1 \in T
  <2> SUFFICES ASSUME n + 1 <= Len(ops) PROVE Good(p[n + 1])
    OBVIOUS
  <2>1. n + 1 \in 1 .. Len(ops) /\ (n + 1) - 1 = n
    BY <1>0
  <2>2. p[n + 1] = ApplyOrDefer(p[n], ops[n + 1])
    BY <1>1, <2>1
  <2>3. Good(p[n]) /\ ops[n + 1] \in S
    BY <1>0, <1>4, <2>1
  <2>4. /\ CopySound(S, O, X, p[n + 1])
        /\ ObservedAll(p[n + 1].version, p[n].version)
    BY <2>2, <2>3, ReceiveOneGood
  <2> QED
    BY <1>2, <2>3, <2>4, ObservedAllTransitive
<1>5. Nat \subseteq T
  <2> HIDE DEF T
  <2> QED
    BY <1>3, <1>4, Induct
<1> QED
  BY <1>0, <1>1, <1>5

-----------------------------------------------------------------------------
(* The pass over the operations put off                                    *)

Sorted(q) == \A i, j \in DOMAIN q : i < j => Before(q[i].stamp, q[j].stamp)

\* The latest of some operations.
LEMMA LatestOp ==
    ASSUME NEW S, NEW O, NEW X, OpsSound(S, O, X), NEW D \in SUBSET S, D # {}
    PROVE  \E op \in D : \A p \in D \ {op} : Before(p.stamp, op.stamp)
<1> DEFINE Upto(k) == {op \in D : op.stamp.value <= k}
<1>1. \A op \in D : /\ op.stamp \in Stamp /\ op.stamp.value \in Nat /\ op.stamp.replica \in Nat
                    /\ \A p \in D : p.stamp = op.stamp => p = op
  BY OpFacts
<1>2. IsFiniteSet(D)
  BY FS_Subset DEF OpsSound
<1> DEFINE Later == {x \in SUBSET D : x # {} /\ \E op \in x : \A p \in x \ {op} : Before(p.stamp, op.stamp)}
           T == {n \in Nat : \A E \in SUBSET D : IsFiniteSet(E) /\ Cardinality(E) = n + 1 => E \in Later}
<1>3. 0 \in T
  <2> SUFFICES ASSUME NEW E \in SUBSET D, IsFiniteSet(E), Cardinality(E) = 1 PROVE E \in Later
    OBVIOUS
  <2>1. PICK x \in E : E = {x}
    BY FS_Singleton
  <2> QED
    BY <2>1
<1>4. ASSUME NEW n \in Nat, n \in T PROVE n + 1 \in T
  <2> SUFFICES ASSUME NEW E \in SUBSET D, IsFiniteSet(E), Cardinality(E) = (n + 1) + 1
               PROVE  E \in Later
    OBVIOUS
  <2>1. PICK x \in E : TRUE
    BY FS_EmptySet
  <2>2. IsFiniteSet(E \ {x}) /\ Cardinality(E \ {x}) = n + 1
    BY FS_RemoveElement
  <2>3. E \ {x} \in Later
    BY <1>4, <2>2
  <2>4. PICK y \in E \ {x} : \A p \in (E \ {x}) \ {y} : Before(p.stamp, y.stamp)
    BY <2>3
  <2>5. CASE Before(x.stamp, y.stamp)
    <3>1. \A p \in E \ {y} : Before(p.stamp, y.stamp)
      BY <2>4, <2>5
    <3> QED
      BY <3>1
  <2>6. CASE ~Before(x.stamp, y.stamp)
    <3>1. Before(y.stamp, x.stamp)
      BY <1>1, <2>1, <2>4, <2>6, StampOrder
    <3>2. ASSUME NEW p \in E \ {x} PROVE Before(p.stamp, x.stamp)
      <4>1. CASE p = y
        BY <3>1, <4>1
      <4>2. CASE p # y
        <5>1. Before(p.stamp, y.stamp)
          BY <2>4, <4>2
        <5>2. p \in D /\ x \in D /\ y \in D
          OBVIOUS
        <5> QED
          BY <1>1, <3>1, <5>1, <5>2, BeforeTransitive
      <4> QED
        BY <4>1, <4>2
    <3> QED
      BY <2>1, <3>2
  <2> QED
    BY <2>5, <2>6
<1>5. Nat \subseteq T
  <2> HIDE DEF T
  <2> QED
    BY <1>3, <1>4, Induct
<1>6. Cardinality(D) \in Nat /\ Cardinality(D) # 0
  BY <1>2, FS_CardinalityType, FS_EmptySet
<1>7. Cardinality(D) - 1 \in Nat /\ (Cardinality(D) - 1) + 1 = Cardinality(D)
  BY <1>6
<1>8. D \in Later
  BY <1>2, <1>5, <1>7
<1> QED
  BY <1>8

LEMMA SortedExists ==
    ASSUME NEW S, NEW O, NEW X, OpsSound(S, O, X), NEW D \in SUBSET S
    PROVE  \E q \in [1 .. Cardinality(D) -> D] : Sorted(q)
<1> DEFINE T == {n \in Nat : \A E \in SUBSET D : IsFiniteSet(E) /\ Cardinality(E) = n =>
                    \E q \in [1 .. n -> E] : Sorted(q)}
<1>1. IsFiniteSet(D) /\ Cardinality(D) \in Nat
  BY FS_Subset, FS_CardinalityType DEF OpsSound
<1>2. 0 \in T
  <2> SUFFICES ASSUME NEW E \in SUBSET D PROVE \E q \in [1 .. 0 -> E] : Sorted(q)
    OBVIOUS
  <2> DEFINE q == [i \in 1 .. 0 |-> CHOOSE e \in E : TRUE]
  <2>1. q \in [1 .. 0 -> E] /\ Sorted(q)
    BY DEF Sorted
  <2> QED
    BY <2>1
<1>3. ASSUME NEW n \in Nat, n \in T PROVE n + 1 \in T
  <2> SUFFICES ASSUME NEW E \in SUBSET D, IsFiniteSet(E), Cardinality(E) = n + 1
               PROVE  \E q \in [1 .. n + 1 -> E] : Sorted(q)
    OBVIOUS
  <2>1. E # {}
    BY FS_EmptySet
  <2>2. PICK x \in E : \A p \in E \ {x} : Before(p.stamp, x.stamp)
    BY <2>1, LatestOp
  <2>3. IsFiniteSet(E \ {x}) /\ Cardinality(E \ {x}) = n
    BY FS_RemoveElement, SMTT(30)
  <2>4. PICK q \in [1 .. n -> E \ {x}] : Sorted(q)
    BY <1>3, <2>3
  <2> DEFINE r == [i \in 1 .. n + 1 |-> IF i <= n THEN q[i] ELSE x]
  <2>5. r \in [1 .. n + 1 -> E]
    OBVIOUS
  <2>6. Sorted(r)
    <3> SUFFICES ASSUME NEW i \in 1 .. n + 1, NEW j \in 1 .. n + 1, i < j
                 PROVE  Before(r[i].stamp, r[j].stamp)
      BY DEF Sorted
    <3>1. i \in 1 .. n /\ r[i] = q[i] /\ q[i] \in E \ {x}
      OBVIOUS
    <3>2. CASE j <= n
      <4>1. r[j] = q[j] /\ j \in 1 .. n
        BY <3>2
      <4> QED
        BY <2>4, <3>1, <4>1 DEF Sorted
    <3>3. CASE ~(j <= n)
      BY <2>2, <3>1, <3>3
    <3> QED
      BY <3>2, <3>3
  <2> QED
    BY <2>5, <2>6
<1>4. Nat \subseteq T
  <2> HIDE DEF T
  <2> QED
    BY <1>2, <1>3, Induct
<1> QED
  BY <1>1, <1>4

LEMMA InOrderIs ==
    ASSUME NEW S, NEW O, NEW X, OpsSound(S, O, X), NEW D \in SUBSET S
    PROVE  /\ InOrder(D) \in Seq(D) /\ Len(InOrder(D)) = Cardinality(D)
           /\ Cardinality(D) \in Nat
           /\ \A i, j \in 1 .. Cardinality(D) :
                 i < j => Before(InOrder(D)[i].stamp, InOrder(D)[j].stamp)
<1> DEFINE n == Cardinality(D)
           q == InOrder(D)
<1>1. n \in Nat
  BY FS_Subset, FS_CardinalityType DEF OpsSound
<1>2. \E p \in [1 .. n -> D] : Sorted(p)
  BY SortedExists
<1>3. q \in [1 .. n -> D] /\ Sorted(q)
  BY <1>2, Zenon DEF InOrder, Sorted
<1> HIDE DEF q, n
<1>4. q \in Seq(D) /\ Len(q) = n
  BY <1>1, <1>3
<1>5. \A i, j \in 1 .. n : i < j => Before(q[i].stamp, q[j].stamp)
  BY <1>3 DEF Sorted
<1> QED
  BY <1>1, <1>4, <1>5 DEF q, n

\* A later operation that can be applied does not bring what an earlier one lacks.
LEMMA StillMissing ==
    ASSUME NEW S, NEW O, NEW X, OpsSound(S, O, X), NEW v, VersionSound(S, v),
           NEW p \in S, ~ObservedAll(v, p.version),
           NEW op \in S, ObservedAll(v, op.version), ~Observed(v, op.stamp),
           Before(p.stamp, op.stamp)
    PROVE  ~ObservedAll(Observe(v, op.stamp), p.version)
<1> DEFINE w == Observe(v, op.stamp)
<1>1. /\ p.version \in [Author -> Nat] /\ VersionSound(S, p.version) /\ p.stamp.value \in Nat
      /\ \A q \in Author : p.version[q] \in Nat /\ p.version[q] < p.stamp.value
  BY OpFacts
<1>2. /\ op.version \in [Author -> Nat] /\ op.stamp.value \in Nat /\ op.stamp.replica \in Author
      /\ \A z \in S : z.stamp.replica = op.stamp.replica
                         /\ z.stamp.value < op.stamp.value => Observed(op.version, z.stamp)
  BY OpFacts
<1>3. v \in [Author -> Nat]
  BY DEF VersionSound
<1>4. PICK q \in Author : ~(v[q] >= p.version[q])
  BY DEF ObservedAll
<1>5. v[q] \in Nat /\ p.version[q] \in Nat /\ v[q] < p.version[q]
  BY <1>1, <1>3, <1>4
<1>6. w = [v EXCEPT ![op.stamp.replica] = op.stamp.value]
  BY ObserveIs
<1> HIDE DEF w
<1>7. CASE q # op.stamp.replica
  <2>1. w[q] = v[q]
    BY <1>2, <1>3, <1>6, <1>7
  <2> QED
    BY <1>4, <2>1 DEF ObservedAll, w
<1>8. CASE q = op.stamp.replica
  <2>1. ~(q = LOCAL_ID /\ BaseLen > 0 /\ p.version[q] = 1)
    <3> SUFFICES ASSUME q = LOCAL_ID, BaseLen > 0, p.version[q] = 1 PROVE FALSE
      OBVIOUS
    <3>1. v[LOCAL_ID] >= 1
      BY DEF VersionSound, Observed, Base
    <3> QED
      BY <1>5, <3>1
  <2>2. PICK z \in S : z.stamp = [value |-> p.version[q], replica |-> q]
    BY <1>1, <1>5, <2>1 DEF VersionSound
  <2>3. z.stamp.replica = q /\ z.stamp.value = p.version[q]
    BY <2>2
  <2>4. p.stamp.value <= op.stamp.value
    BY <1>1, <1>2 DEF Before
  <2>5. z.stamp.value < op.stamp.value
    BY <1>1, <1>2, <1>5, <2>3, <2>4
  <2>6. Observed(op.version, z.stamp)
    BY <1>2, <1>8, <2>3, <2>5
  <2>7. Observed(v, z.stamp)
    <3>1. z.stamp \in Stamp
      BY OpFacts
    <3> QED
      BY <1>2, <1>3, <2>6, <3>1, StillObserved
  <2> QED
    BY <1>5, <2>3, <2>7 DEF Observed
<1> QED
  BY <1>7, <1>8

\* What the pass has kept back so far lacks something, and so does all that is
\* kept back because an earlier operation of its author was.
KeptBack(S, c, before) ==
    /\ \A p \in c.deferred : ~ObservedAll(c.version, p.version) /\ p \in before
    /\ \A a \in c.waiting : \E p \in c.deferred : p.stamp.replica = a

LEMMA KeepBackStep ==
    ASSUME NEW S, NEW O, NEW X, OpsSound(S, O, X), NEW c, CopySound(S, O, X, c),
           NEW before \in SUBSET S, KeptBack(S, c, before),
           NEW op \in S, \A p \in before : Before(p.stamp, op.stamp)
    PROVE  KeptBack(S, ApplyOrDefer(c, op), before \cup {op})
<1>0. VersionSound(S, c.version) /\ c.version \in [Author -> Nat] /\ c.deferred \in SUBSET S
  BY DEF CopySound, VersionSound, CopyType
<1>1. CASE CanApplyOp(c, op)
  <2> DEFINE d == ApplyOp(c, op)
  <2>1. ApplyOrDefer(c, op) = d /\ ObservedAll(c.version, op.version)
    BY <1>1 DEF ApplyOrDefer, CanApplyOp
  <2>2. /\ d.version = IF Observed(c.version, op.stamp) THEN c.version
                       ELSE Observe(c.version, op.stamp)
        /\ d.deferred = c.deferred /\ d.waiting = c.waiting
    BY <2>1, ApplyGood
  <2> HIDE DEF d
  <2>3. \A p \in c.deferred : ~ObservedAll(d.version, p.version)
    <3> SUFFICES ASSUME NEW p \in c.deferred PROVE ~ObservedAll(d.version, p.version)
      OBVIOUS
    <3>1. p \in S /\ ~ObservedAll(c.version, p.version) /\ Before(p.stamp, op.stamp)
      BY <1>0 DEF KeptBack
    <3>2. CASE Observed(c.version, op.stamp)
      BY <2>2, <3>1, <3>2
    <3>3. CASE ~Observed(c.version, op.stamp)
      BY <1>0, <2>1, <2>2, <3>1, <3>3, StillMissing
    <3> QED
      BY <3>2, <3>3
  <2> QED
    BY <2>1, <2>2, <2>3 DEF KeptBack
<1>2. CASE ~CanApplyOp(c, op)
  <2> DEFINE d == PutOff(c, op)
  <2>1. ApplyOrDefer(c, op) = d
    BY <1>2, Zenon DEF ApplyOrDefer, PutOff
  <2>2. /\ d.version = c.version
        /\ d.waiting = c.waiting \cup {op.stamp.replica}
        /\ d.deferred = c.deferred \cup {op}
    BY DeferIs
  <2> HIDE DEF d
  <2>3. ~ObservedAll(c.version, op.version)
    <3>1. CASE ~ObservedAll(c.version, op.version)
      BY <3>1
    <3>2. CASE op.stamp.replica \in c.waiting
      <4>1. PICK p \in c.deferred : p.stamp.replica = op.stamp.replica
        BY <3>2 DEF KeptBack
      <4>2. p \in S /\ ~ObservedAll(c.version, p.version) /\ Before(p.stamp, op.stamp)
        BY <1>0, <4>1 DEF KeptBack
      <4>3. ~Observed(c.version, p.stamp)
        BY <1>0, <4>2 DEF VersionSound
      <4>4. p.stamp \in Stamp /\ p.stamp.value \in Nat /\ p.stamp.replica \in Nat
        BY <4>2, OpFacts
      <4>5. p.stamp.value < op.stamp.value
        BY <4>1, <4>2, <4>4 DEF Before
      <4>6. op.version \in [Author -> Nat] /\ Observed(op.version, p.stamp)
        BY <4>1, <4>2, <4>5, OpFacts
      <4> QED
        BY <1>0, <4>3, <4>4, <4>6, StillObserved
    <3> QED
      BY <1>2, <3>1, <3>2 DEF CanApplyOp
  <2>4. \A p \in d.deferred : ~ObservedAll(d.version, p.version) /\ p \in before \cup {op}
    BY <2>2, <2>3 DEF KeptBack
  <2>5. \A a \in d.waiting : \E p \in d.deferred : p.stamp.replica = a
    BY <2>2 DEF KeptBack
  <2> QED
    BY <2>1, <2>4, <2>5 DEF KeptBack
<1> QED
  BY <1>1, <1>2

LEMMA FlushGood ==
    ASSUME NEW S, NEW O, NEW X, OpsSound(S, O, X), NEW c, CopySound(S, O, X, c)
    PROVE  LET d == FlushDeferredOps(c)
           IN  /\ CopySound(S, O, X, d) /\ ObservedAll(d.version, c.version)
               /\ \A p \in d.deferred : ~ObservedAll(d.version, p.version)
<1> DEFINE D == c.deferred
           a == [c EXCEPT !.deferred = {}]
           b == [a EXCEPT !.waiting = {}]
           q == InOrder(D)
           n == Cardinality(D)
<1>1. c \in CopyType(S) /\ D \in SUBSET S
  BY DEF CopySound, CopyType
<1>2. c = [fragments |-> c.fragments, version |-> c.version, clock |-> c.clock,
           undos |-> c.undos, deferred |-> c.deferred, waiting |-> c.waiting]
  BY <1>1 DEF CopyType
<1>3. /\ q \in Seq(D) /\ Len(q) = n /\ n \in Nat
      /\ \A i, j \in 1 .. n : i < j => Before(q[i].stamp, q[j].stamp)
  BY <1>1, InOrderIs
<1>4. a = [fragments |-> c.fragments, version |-> c.version, clock |-> c.clock,
           undos |-> c.undos, deferred |-> {}, waiting |-> c.waiting]
  BY <1>2
<1> HIDE DEF a
<1>5. b = [fragments |-> c.fragments, version |-> c.version, clock |-> c.clock,
           undos |-> c.undos, deferred |-> {}, waiting |-> {}]
  BY <1>4
<1>6. FlushDeferredOps(c) = Receive(b, q)
  BY Zenon DEF FlushDeferredOps, a
<1> HIDE DEF b
<1>7. CopySound(S, O, X, b) /\ b.version = c.version /\ KeptBack(S, b, {})
  <2>1. b \in CopyType(S)
    BY <1>1, <1>5 DEF CopyType
  <2> QED
    BY <1>5, <2>1 DEF CopySound, KeptBack
<1> HIDE DEF D, q, n
<1>8. \A i \in 1 .. n : q[i] \in S
  BY <1>1, <1>3
<1>9. q \in Seq(S)
  BY <1>1, <1>3
<1>10. PICK p : /\ p[0] = b /\ Receive(b, q) = p[n]
                /\ \A i \in 1 .. n : p[i] = ApplyOrDefer(p[i - 1], q[i])
  BY <1>3, ReceiveIs
<1> DEFINE Upto(i) == {q[j] : j \in 1 .. i}
           Good(i) == CopySound(S, O, X, p[i]) /\ KeptBack(S, p[i], Upto(i))
           T == {i \in Nat : i <= n => Good(i)}
<1>11. 0 \in T
  <2>1. Upto(0) = {}
    OBVIOUS
  <2> QED
    BY <1>7, <1>10, <2>1
<1>12. ASSUME NEW i \in Nat, i \in T PROVE i + 1 \in T
  <2> SUFFICES ASSUME i + 1 <= n PROVE Good(i + 1)
    OBVIOUS
  <2>1. i + 1 \in 1 .. n /\ (i + 1) - 1 = i /\ i <= n
    BY <1>3
  <2>2. p[i + 1] = ApplyOrDefer(p[i], q[i + 1])
    BY <1>10, <2>1
  <2>3. CopySound(S, O, X, p[i]) /\ KeptBack(S, p[i], Upto(i)) /\ q[i + 1] \in S
    BY <1>8, <1>12, <2>1
  <2>4. Upto(i) \in SUBSET S /\ \A x \in Upto(i) : Before(x.stamp, q[i + 1].stamp)
    BY <1>3, <1>8, <2>1
  <2>5. Upto(i + 1) = Upto(i) \cup {q[i + 1]}
    <3>1. 1 .. i + 1 = (1 .. i) \cup {i + 1}
      OBVIOUS
    <3> QED
      BY <3>1
  <2> HIDE DEF Upto
  <2>6. CopySound(S, O, X, p[i + 1])
    BY <2>2, <2>3, ReceiveOneGood
  <2>7. KeptBack(S, p[i + 1], Upto(i + 1))
    BY <2>2, <2>3, <2>4, <2>5, KeepBackStep
  <2> QED
    BY <2>6, <2>7
<1>13. Good(n)
  <2>1. Nat \subseteq T
    <3> HIDE DEF T
    <3> QED
      BY <1>11, <1>12, Induct
  <2> HIDE DEF Good
  <2>2. n \in T /\ n <= n
    BY <1>3, <2>1
  <2> QED
    BY <2>2
<1>14. ObservedAll(Receive(b, q).version, c.version)
  BY <1>7, <1>9, ReceiveGood
<1> QED
  BY <1>6, <1>10, <1>13, <1>14 DEF KeptBack

LEMMA ApplyOpsGood ==
    ASSUME NEW S, NEW O, NEW X, OpsSound(S, O, X), NEW c, CopySound(S, O, X, c),
           NEW ops \in Seq(S)
    PROVE  LET d == ApplyOps(c, ops)
           IN  /\ CopySound(S, O, X, d) /\ ObservedAll(d.version, c.version)
               /\ \A p \in d.deferred : ~ObservedAll(d.version, p.version)
<1> DEFINE b == Receive(c, ops)
           d == FlushDeferredOps(b)
<1>1. CopySound(S, O, X, b) /\ ObservedAll(b.version, c.version)
  BY ReceiveGood
<1> HIDE DEF b
<1>2. /\ CopySound(S, O, X, d) /\ ObservedAll(d.version, b.version)
      /\ \A p \in d.deferred : ~ObservedAll(d.version, p.version)
  BY <1>1, FlushGood
<1> HIDE DEF d
<1>3. \A e : CopySound(S, O, X, e) => e.version \in [Author -> Nat]
  BY DEF CopySound, VersionSound
<1>4. ObservedAll(d.version, c.version)
  BY <1>1, <1>2, <1>3, ObservedAllTransitive
<1> QED
  BY <1>2, <1>4 DEF ApplyOps, d, b

-----------------------------------------------------------------------------
(* Making operations                                                       *)

\* An operation with a timestamp later than all of its author's.
Fresh(S, op) ==
    /\ op.stamp \in Stamp /\ op.stamp.replica \in Replica /\ op.stamp.value > 0
    /\ BaseLen > 0 => op.stamp.value > 1
    /\ \A p \in S : p.stamp.replica = op.stamp.replica => p.stamp.value < op.stamp.value

\* What its author knows when it makes it: y is the character an edit's text is
\* typed behind, Y what it deletes.
NewOp(S, O, X, op, y, Y) ==
    /\ op.kind \in {"edit", "undo"}
    /\ Fresh(S, op)
    /\ VersionSound(S, op.version)
    /\ \A q \in Author : op.version[q] < op.stamp.value
    /\ \A p \in S : p.stamp.replica = op.stamp.replica => Observed(op.version, p.stamp)
    /\ y \in Name /\ Y \in SUBSET Name
    /\ op.kind = "edit" =>
          /\ op.len \in Nat
          /\ \E d \in Seq(Char) :
                /\ DocSound(S, O, X, d, op.version)
                /\ op.from \in 0 .. Len(d) /\ op.to \in op.from .. Len(d)
                /\ y = Names(d)[op.from]
                /\ Y = {NameOf(d[i]) : i \in {j \in op.from + 1 .. op.to : d[j].visible}}
    /\ op.kind = "undo" =>
          /\ op.counts \in [DOMAIN op.counts -> 1 .. Cardinality(S) + 1]
          /\ \A e \in DOMAIN op.counts :
                \E p \in S : p.kind = "edit" /\ p.stamp = e /\ Observed(op.version, e)

LEMMA FreshUnseen ==
    ASSUME NEW S, NEW op, Fresh(S, op), NEW w, VersionSound(S, w)
    PROVE  ~Observed(w, op.stamp)
<1> DEFINE q == op.stamp.replica
<1>1. q \in Author /\ op.stamp.value \in Nat /\ op.stamp.value > 0
  BY StampFacts DEF Fresh
<1>2. w[q] \in Nat
  BY <1>1 DEF VersionSound
<1>3. w[q] < op.stamp.value
  <2>1. CASE w[q] = 0
    BY <1>1, <2>1
  <2>2. CASE BaseLen > 0 /\ q = LOCAL_ID /\ w[q] = 1
    BY <1>1, <2>2 DEF Fresh
  <2>3. CASE \E p \in S : p.stamp = [value |-> w[q], replica |-> q]
    <3>1. PICK p \in S : p.stamp = [value |-> w[q], replica |-> q]
      BY <2>3
    <3>2. p.stamp.replica = q /\ p.stamp.value = w[q]
      BY <3>1
    <3> QED
      BY <3>2 DEF Fresh
  <2> QED
    BY <1>1, <2>1, <2>2, <2>3 DEF VersionSound
<1> QED
  BY <1>1, <1>2, <1>3 DEF Observed

LEMMA GrowVersion ==
    ASSUME NEW S, NEW op, Fresh(S, op), NEW w, VersionSound(S, w)
    PROVE  VersionSound(S \cup {op}, w)
<1>1. ~Observed(w, op.stamp)
  BY FreshUnseen
<1> QED
  BY <1>1 DEF VersionSound

LEMMA GrowMade ==
    ASSUME NEW S, NEW op, Fresh(S, op), NEW w, VersionSound(S, w)
    PROVE  Made(S \cup {op}, w) = Made(S, w) /\ SeenUndos(S \cup {op}, w) = SeenUndos(S, w)
<1>1. ~Observed(w, op.stamp)
  BY FreshUnseen
<1>2. Made(S \cup {op}, w) = Made(S, w)
  <2>1. ASSUME NEW x \in Made(S \cup {op}, w) PROVE x \in Made(S, w)
    BY <1>1 DEF Made, Written
  <2>2. ASSUME NEW x \in Made(S, w) PROVE x \in Made(S \cup {op}, w)
    BY DEF Made, Written
  <2> QED
    BY <2>1, <2>2
<1>3. {p \in S \cup {op} : p.kind = "undo" /\ Observed(w, p.stamp)}
         = {p \in S : p.kind = "undo" /\ Observed(w, p.stamp)}
  BY <1>1
<1> QED
  BY <1>2, <1>3 DEF SeenUndos

LEMMA GrowDoc ==
    ASSUME NEW S, NEW O, NEW X, OpsSound(S, O, X), NEW op, Fresh(S, op), NEW y, NEW Y,
           NEW w, VersionSound(S, w), NEW d, DocSound(S, O, X, d, w)
    PROVE  DocSound(S \cup {op}, [O EXCEPT ![op.stamp] = y], [X EXCEPT ![op.stamp] = Y], d, w)
<1> DEFINE P == [O EXCEPT ![op.stamp] = y]
           Z == [X EXCEPT ![op.stamp] = Y]
           R == S \cup {op}
<1>1. ~Observed(w, op.stamp)
  BY FreshUnseen
<1>2. Made(R, w) = Made(S, w) /\ SeenUndos(R, w) = SeenUndos(S, w)
  BY GrowMade
<1>3. \A s \in Stamp : s # op.stamp => P[s] = O[s] /\ Z[s] = X[s]
  BY DEF OpsSound
<1>4. \A p \in S : p.stamp \in Stamp /\ p.stamp # op.stamp
  <2>1. \A p \in S : p.stamp \in Stamp /\ p.stamp.value \in Nat
    BY OpFacts
  <2> QED
    BY <2>1 DEF Fresh
<1> HIDE DEF P, Z, R
<1>5. \A x : Deleters(R, w, Z, x) = Deleters(S, w, X, x)
  <2> SUFFICES ASSUME NEW x PROVE Deleters(R, w, Z, x) = Deleters(S, w, X, x)
    OBVIOUS
  <2>1. {p \in R : p.kind = "edit" /\ Observed(w, p.stamp) /\ x \in Z[p.stamp]}
          = {p \in S : p.kind = "edit" /\ Observed(w, p.stamp) /\ x \in X[p.stamp]}
    BY <1>1, <1>3, <1>4 DEF R
  <2> QED
    BY <2>1 DEF Deleters
<1>6. /\ Len(d) \in Nat
      /\ \A i \in 1 .. Len(d) : /\ Names(d)[i] = NameOf(d[i]) /\ NameOf(d[i]) \in Written(S)
                                /\ NameOf(d[i])[1] = d[i].stamp /\ Observed(w, d[i].stamp)
  BY DocFacts
<1>7. ASSUME NEW i \in 1 .. Len(d) PROVE Origin(P)[Names(d)[i]] = Origin(O)[Names(d)[i]]
  <2> DEFINE x == Names(d)[i]
  <2>1. x \in Name /\ x[1] \in Stamp /\ x[1] # op.stamp
    <3>1. x \in Written(S) /\ x[1] = d[i].stamp /\ Observed(w, d[i].stamp)
      BY <1>6
    <3>2. x[1] \in Stamp /\ x \in Name
      BY <3>1, WrittenFacts
    <3> QED
      BY <1>1, <3>1, <3>2
  <2> HIDE DEF x
  <2>2. P[x[1]] = O[x[1]]
    BY <1>3, <2>1
  <2>3. Origin(P)[x] = Origin(O)[x]
    BY <2>1, <2>2 DEF Origin
  <2> QED
    BY <2>3 DEF x
<1>8. Laid(Names(d), Len(d), Origin(P))
  <2>1. Laid(Names(d), Len(d), Origin(O))
    BY DEF DocSound
  <2>2. \A i \in 1 .. Len(d) : \E h \in 0 .. i - 1 :
           /\ Names(d)[h] = Origin(P)[Names(d)[i]]
           /\ \A k \in h + 1 .. i - 1 : Before(Names(d)[i][1], Names(d)[k][1])
    <3> SUFFICES ASSUME NEW i \in 1 .. Len(d)
                 PROVE  \E h \in 0 .. i - 1 :
                           /\ Names(d)[h] = Origin(P)[Names(d)[i]]
                           /\ \A k \in h + 1 .. i - 1 : Before(Names(d)[i][1], Names(d)[k][1])
      OBVIOUS
    <3>1. PICK h \in 0 .. i - 1 :
           /\ Names(d)[h] = Origin(O)[Names(d)[i]]
           /\ \A k \in h + 1 .. i - 1 : Before(Names(d)[i][1], Names(d)[k][1])
      BY <2>1, Zenon DEF Laid
    <3> QED
      BY <1>7, <3>1
  <2> QED
    BY <2>1, <2>2, Zenon DEF Laid
<1>9. DocSound(R, P, Z, d, w)
  BY <1>2, <1>5, <1>8 DEF DocSound
<1> QED
  BY <1>9 DEF R, P, Z

LEMMA GrowOps ==
    ASSUME NEW S, NEW O, NEW X, OpsSound(S, O, X), NEW op, NEW y, NEW Y,
           NewOp(S, O, X, op, y, Y)
    PROVE  OpsSound(S \cup {op}, [O EXCEPT ![op.stamp] = y], [X EXCEPT ![op.stamp] = Y])
<1> DEFINE P == [O EXCEPT ![op.stamp] = y]
           Z == [X EXCEPT ![op.stamp] = Y]
           R == S \cup {op}
<1>1. /\ Fresh(S, op) /\ op.stamp \in Stamp /\ op.stamp.value \in Nat
      /\ op.stamp.replica \in Replica /\ VersionSound(S, op.version)
      /\ y \in Name /\ Y \in SUBSET Name
  BY StampFacts DEF NewOp, Fresh
<1>2. /\ IsFiniteSet(S) /\ O \in [Stamp -> Name] /\ X \in [Stamp -> SUBSET Name]
      /\ BaseLen > 0 => O[Base] = Start
  BY DEF OpsSound
<1>3. op \notin S /\ \A p \in S : p.stamp \in Stamp /\ p.stamp.value \in Nat /\ p.stamp # op.stamp
  <2>1. \A p \in S : p.stamp \in Stamp /\ p.stamp.value \in Nat
    BY OpFacts
  <2> QED
    BY <1>1, <2>1 DEF Fresh
<1>4. IsFiniteSet(R) /\ Cardinality(R) = Cardinality(S) + 1 /\ Cardinality(S) \in Nat
  BY <1>2, <1>3, FS_AddElement, FS_CardinalityType
<1>5. /\ P \in [Stamp -> Name] /\ Z \in [Stamp -> SUBSET Name]
      /\ P[op.stamp] = y /\ Z[op.stamp] = Y
      /\ \A s \in Stamp : s # op.stamp => P[s] = O[s] /\ Z[s] = X[s]
  BY <1>1, <1>2
<1>6. BaseLen > 0 => P[Base] = Start
  <2>1. Base \in Stamp /\ Base.value = 1
    BY StampFacts DEF Base, Stamp
  <2>2. BaseLen > 0 => Base # op.stamp
    BY <1>1, <2>1 DEF Fresh
  <2> QED
    BY <1>2, <1>5, <2>1, <2>2
<1>7. \A d, w : VersionSound(S, w) /\ DocSound(S, O, X, d, w) => DocSound(R, P, Z, d, w)
  BY <1>1, GrowDoc
<1>8. \A w : VersionSound(S, w) => VersionSound(R, w)
  BY <1>1, GrowVersion
<1> HIDE DEF P, Z, R
<1>9. ASSUME NEW p \in S PROVE OpSound(R, P, Z, p)
  <2>1. OpSound(S, O, X, p)
    BY DEF OpsSound
  <2>2. \A z \in R : z.stamp.replica = p.stamp.replica /\ z.stamp.value < p.stamp.value
                        => Observed(p.version, z.stamp)
    <3> SUFFICES ASSUME NEW z \in R, z.stamp.replica = p.stamp.replica,
                        z.stamp.value < p.stamp.value
                 PROVE  Observed(p.version, z.stamp)
      OBVIOUS
    <3>1. z # op
      BY <1>1, <1>3 DEF Fresh
    <3> QED
      BY <2>1, <3>1 DEF OpSound, R
  <2>3. \A z \in R : z.stamp = p.stamp => z = p
    BY <1>3, <2>1 DEF OpSound, R
  <2>4. ASSUME p.kind = "edit" PROVE EditSound(R, P, Z, p)
    <3>1. EditSound(S, O, X, p) /\ VersionSound(S, p.version)
      BY <2>1, <2>4 DEF OpSound
    <3>2. PICK d \in Seq(Char) :
            /\ DocSound(S, O, X, d, p.version)
            /\ p.from \in 0 .. Len(d) /\ p.to \in p.from .. Len(d)
            /\ O[p.stamp] = Names(d)[p.from]
            /\ X[p.stamp] = {NameOf(d[i]) : i \in {j \in p.from + 1 .. p.to : d[j].visible}}
      BY <3>1, Zenon DEF EditSound
    <3>3. DocSound(R, P, Z, d, p.version) /\ P[p.stamp] = O[p.stamp] /\ Z[p.stamp] = X[p.stamp]
      BY <1>3, <1>5, <1>7, <3>1, <3>2
    <3> QED
      BY <3>1, <3>2, <3>3, Zenon DEF EditSound
  <2>5. ASSUME p.kind = "undo" PROVE UndoSound(R, p)
    <3>1. UndoSound(S, p)
      BY <2>1, <2>5 DEF OpSound
    <3>2. 1 .. Cardinality(S) \subseteq 1 .. Cardinality(R)
      BY <1>4
    <3>3. p.counts \in [DOMAIN p.counts -> 1 .. Cardinality(R)]
      BY <3>1, <3>2 DEF UndoSound
    <3> QED
      BY <3>1, <3>3 DEF UndoSound, R
  <2> QED
    BY <1>8, <2>1, <2>2, <2>3, <2>4, <2>5 DEF OpSound
<1>10. OpSound(R, P, Z, op)
  <2>1. \A z \in R : z.stamp.replica = op.stamp.replica /\ z.stamp.value < op.stamp.value
                        => Observed(op.version, z.stamp)
    BY <1>1 DEF NewOp, R
  <2>2. \A z \in R : z.stamp = op.stamp => z = op
    BY <1>3 DEF R
  <2>3. ASSUME op.kind = "edit" PROVE EditSound(R, P, Z, op)
    <3>1. op.len \in Nat /\ VersionSound(S, op.version)
      BY <1>1, <2>3 DEF NewOp
    <3>2. PICK d \in Seq(Char) :
            /\ DocSound(S, O, X, d, op.version)
            /\ op.from \in 0 .. Len(d) /\ op.to \in op.from .. Len(d)
            /\ y = Names(d)[op.from]
            /\ Y = {NameOf(d[i]) : i \in {j \in op.from + 1 .. op.to : d[j].visible}}
      BY <2>3, Zenon DEF NewOp
    <3>3. DocSound(R, P, Z, d, op.version)
      BY <1>7, <3>1, <3>2
    <3> QED
      BY <1>5, <3>1, <3>2, <3>3, Zenon DEF EditSound
  <2>4. ASSUME op.kind = "undo" PROVE UndoSound(R, op)
    BY <1>4, <2>4 DEF NewOp, UndoSound, R
  <2> QED
    BY <1>1, <1>8, <2>1, <2>2, <2>3, <2>4 DEF OpSound, NewOp
<1>11. \A p \in R : OpSound(R, P, Z, p)
  BY <1>9, <1>10 DEF R
<1>12. OpsSound(R, P, Z)
  BY <1>4, <1>5, <1>6, <1>11 DEF OpsSound
<1> QED
  BY <1>12 DEF R, P, Z

LEMMA GrowCopy ==
    ASSUME NEW S, NEW O, NEW X, OpsSound(S, O, X), NEW op, Fresh(S, op), NEW y, NEW Y,
           NEW c, CopySound(S, O, X, c)
    PROVE  CopySound(S \cup {op}, [O EXCEPT ![op.stamp] = y], [X EXCEPT ![op.stamp] = Y], c)
<1>1. c \in CopyType(S \cup {op})
  <2>1. AllUndos(S) \subseteq AllUndos(S \cup {op})
    BY DEF AllUndos
  <2> QED
    BY <2>1 DEF CopySound, CopyType
<1> QED
  BY <1>1, GrowVersion, GrowMade, GrowDoc DEF CopySound

\* What is left of the copies, and of the world they are copies of, when an
\* operation has been made.
AfterMaking(S, O, X, op, c, d, U) ==
    \E P, Z :
        /\ OpsSound(S \cup {op}, P, Z)
        /\ \A b : CopySound(S, O, X, b) => CopySound(S \cup {op}, P, Z, b)
        /\ VersionSound(S \cup {op}, Observe(c.version, op.stamp))
        /\ DocSound(S \cup {op}, P, Z, d, Observe(c.version, op.stamp))
        /\ U = SeenUndos(S \cup {op}, Observe(c.version, op.stamp))

\* The author has observed what it has made, and nothing as late as this.
OwnOp(S, op, c) ==
    /\ Fresh(S, op) /\ op.version = c.version
    /\ op.stamp.value >= c.clock
    /\ \A p \in S : p.stamp.replica = op.stamp.replica => Observed(c.version, p.stamp)

LEMMA EditMade ==
    ASSUME NEW S, NEW O, NEW X, OpsSound(S, O, X), NEW c, CopySound(S, O, X, c),
           NEW op, op.kind = "edit", OwnOp(S, op, c), op.len \in Nat,
           op.from \in 0 .. Len(c.fragments), op.to \in op.from .. Len(c.fragments)
    PROVE  AfterMaking(S, O, X, op, c, ApplyLocalEdit(c.fragments, op), c.undos)
<1> DEFINE d == c.fragments
           y == Names(d)[op.from]
           Y == {NameOf(d[i]) : i \in {j \in op.from + 1 .. op.to : d[j].visible}}
           P == [O EXCEPT ![op.stamp] = y]
           Z == [X EXCEPT ![op.stamp] = Y]
           R == S \cup {op}
           v == c.version
           shown == {i \in DOMAIN d : d[i].visible}
<1>1. /\ VersionSound(S, v) /\ DocSound(S, O, X, d, v) /\ d \in Seq(Char)
      /\ c.undos = SeenUndos(S, v) /\ c.clock \in Nat /\ v \in [Author -> Nat]
      /\ \A q \in Author : v[q] < c.clock
  BY DEF CopySound, CopyType
<1>2. /\ Fresh(S, op) /\ op.version = v /\ op.stamp.value >= c.clock
      /\ \A p \in S : p.stamp.replica = op.stamp.replica => Observed(v, p.stamp)
      /\ op.stamp \in Stamp /\ op.stamp.value \in Nat /\ op.stamp.replica \in Nat
  BY StampFacts DEF OwnOp, Fresh
<1>3. \A q \in Author : v[q] \in Nat /\ v[q] < op.stamp.value
  BY <1>1, <1>2
<1>4. /\ Len(d) \in Nat /\ Names(d)[0] = Start
      /\ \A i \in 1 .. Len(d) : /\ Names(d)[i] = NameOf(d[i]) /\ NameOf(d[i]) \in Written(S)
                                /\ d[i].stamp \in Stamp /\ Observed(v, d[i].stamp)
  BY <1>1, DocFacts
<1>5. \A i \in 0 .. Len(d) : Names(d)[i] \in Name
  <2>1. Start \in Name
    BY DEF Start, Name
  <2>2. \A i \in 1 .. Len(d) : Names(d)[i] \in Name
    BY <1>4, WrittenFacts
  <2> QED
    BY <1>4, <2>1, <2>2
<1>6. y \in Name /\ Y \in SUBSET Name
  <2>1. \A i \in 1 .. Len(d) : NameOf(d[i]) \in Name
    BY <1>4, WrittenFacts
  <2> QED
    BY <1>4, <1>5, <2>1
<1>7. NewOp(S, O, X, op, y, Y)
  <2>1. \E b \in Seq(Char) :
           /\ DocSound(S, O, X, b, op.version)
           /\ op.from \in 0 .. Len(b) /\ op.to \in op.from .. Len(b)
           /\ y = Names(b)[op.from]
           /\ Y = {NameOf(b[i]) : i \in {j \in op.from + 1 .. op.to : b[j].visible}}
    BY <1>1, <1>2
  <2> QED
    BY <1>1, <1>2, <1>3, <1>6, <2>1 DEF NewOp
<1>8. OpsSound(R, P, Z)
  BY <1>7, GrowOps
<1>9. \A b : CopySound(S, O, X, b) => CopySound(R, P, Z, b)
  BY <1>2, GrowCopy
<1>10. VersionSound(R, v) /\ DocSound(R, P, Z, d, v) /\ c.undos = SeenUndos(R, v)
  BY <1>9 DEF CopySound
<1>11. P[op.stamp] = y /\ Z[op.stamp] = Y
  BY <1>2 DEF OpsSound
<1>12. Place(P, Z, op, d, op.from, op.from, op.to, shown)
  <2>1. op.from < Len(d) => Before(d[op.from + 1].stamp, op.stamp)
    <3> SUFFICES ASSUME op.from < Len(d) PROVE Before(d[op.from + 1].stamp, op.stamp)
      OBVIOUS
    <3>1. op.from + 1 \in 1 .. Len(d)
      BY <1>4
    <3> DEFINE s == d[op.from + 1].stamp
    <3>2. s \in Stamp /\ Observed(v, s)
      BY <1>4, <3>1
    <3> HIDE DEF s
    <3>3. s.value \in Nat /\ s.replica \in Author
      BY <3>2, StampFacts
    <3>4. s.value < op.stamp.value
      <4>1. v[s.replica] \in Nat /\ v[s.replica] < op.stamp.value
        BY <1>3, <3>3
      <4>2. v[s.replica] >= s.value
        BY <3>2 DEF Observed
      <4> HIDE DEF v
      <4> QED
        BY <1>2, <3>3, <4>1, <4>2
    <3> QED
      BY <3>4 DEF Before, s
  <2>2. {j \in op.from + 1 .. op.to : d[j].visible} = {j \in op.from + 1 .. op.to : j \in shown}
    BY <1>1, <1>4
  <2>3. op.from \in op.from .. Len(d) /\ ~ (\E j \in op.from + 1 .. op.from : TRUE)
    BY <1>4
  <2> HIDE DEF P, Z, shown, d
  <2> QED
    BY <1>11, <2>1, <2>2, <2>3 DEF Place, d
<1>13. ~Observed(v, op.stamp) /\ ObservedAll(v, op.version) /\ op \in R
  <2>1. ~Observed(v, op.stamp)
    BY <1>1, <1>2, FreshUnseen
  <2> QED
    BY <1>2, <1>3, <2>1 DEF ObservedAll
<1> HIDE DEF P, Z, R, y, Y
<1>14. DocSound(R, P, Z, Replace(d, op.from, op.to, op, shown), Observe(v, op.stamp))
  BY <1>8, <1>10, <1>12, <1>13, EditGood
<1>15. VersionSound(R, Observe(v, op.stamp))
  BY <1>8, <1>10, <1>13, ObserveIs
<1>16. SeenUndos(R, Observe(v, op.stamp)) = c.undos
  <2>1. SeenUndos(R, Observe(v, op.stamp)) = SeenUndos(R, v)
    BY <1>8, <1>10, <1>13, ObserveMade
  <2> QED
    BY <1>10, <2>1
<1> QED
  BY <1>8, <1>9, <1>14, <1>15, <1>16 DEF AfterMaking, ApplyLocalEdit, R

LEMMA UndoCountIs ==
    ASSUME NEW S, NEW O, NEW X, OpsSound(S, O, X), NEW v, NEW e
    PROVE  /\ Cardinality(S) \in Nat
           /\ UndoCount(SeenUndos(S, v), e) \in 0 .. Cardinality(S)
           /\ \A u \in SeenUndos(S, v) : u.count \in 1 .. Cardinality(S)
<1>1. Cardinality(S) \in Nat
  BY FS_CardinalityType DEF OpsSound
<1>2. \A u \in SeenUndos(S, v) : u.count \in 1 .. Cardinality(S)
  <2> SUFFICES ASSUME NEW u \in SeenUndos(S, v) PROVE u.count \in 1 .. Cardinality(S)
    OBVIOUS
  <2>1. PICK op \in S : op.kind = "undo" /\ u \in UndoEntries(op)
    BY DEF SeenUndos
  <2>2. op.counts \in [DOMAIN op.counts -> 1 .. Cardinality(S)]
    BY <2>1, OpFacts DEF UndoSound
  <2> QED
    BY <2>1, <2>2 DEF UndoEntries
<1> DEFINE T == {0} \cup {u.count : u \in {x \in SeenUndos(S, v) : x.edit = e}}
<1>3. T \in SUBSET (0 .. Cardinality(S)) /\ T # {}
  BY <1>1, <1>2
<1> HIDE DEF T
<1>4. Max(T) \in 0 .. Cardinality(S)
  BY <1>1, <1>3, MaxIs
<1> QED
  BY <1>1, <1>2, <1>4 DEF UndoCount, Highest, T

LEMMA UndoMade ==
    ASSUME NEW S, NEW O, NEW X, OpsSound(S, O, X), NEW c, CopySound(S, O, X, c),
           NEW op, op.kind = "undo", OwnOp(S, op, c), NEW edits,
           op.counts = [e \in edits |-> UndoCount(c.undos, e) + 1],
           \A e \in edits : \E p \in S : p.kind = "edit" /\ p.stamp = e /\ Observed(c.version, e)
    PROVE  AfterMaking(S, O, X, op, c,
                 ApplyUndo(c.fragments, edits, c.undos \cup UndoEntries(op)),
                 c.undos \cup UndoEntries(op))
<1> DEFINE d == c.fragments
           P == [O EXCEPT ![op.stamp] = Start]
           Z == [X EXCEPT ![op.stamp] = {}]
           R == S \cup {op}
           v == c.version
           U == c.undos \cup UndoEntries(op)
<1>1. /\ VersionSound(S, v) /\ DocSound(S, O, X, d, v) /\ d \in Seq(Char)
      /\ c.undos = SeenUndos(S, v) /\ c.clock \in Nat /\ v \in [Author -> Nat]
      /\ \A q \in Author : v[q] < c.clock
  BY DEF CopySound, CopyType
<1>2. /\ Fresh(S, op) /\ op.version = v /\ op.stamp.value >= c.clock
      /\ \A p \in S : p.stamp.replica = op.stamp.replica => Observed(v, p.stamp)
      /\ op.stamp \in Stamp /\ op.stamp.value \in Nat /\ op.stamp.replica \in Nat
  BY StampFacts DEF OwnOp, Fresh
<1>3. \A q \in Author : v[q] \in Nat /\ v[q] < op.stamp.value
  BY <1>1, <1>2
<1>4. NewOp(S, O, X, op, Start, {})
  <2>1. Start \in Name /\ {} \in SUBSET Name
    BY DEF Start, Name
  <2>2. DOMAIN op.counts = edits
    OBVIOUS
  <2>3. \A e \in edits : UndoCount(c.undos, e) + 1 \in 1 .. Cardinality(S) + 1
    <3> SUFFICES ASSUME NEW e \in edits
                 PROVE  UndoCount(c.undos, e) + 1 \in 1 .. Cardinality(S) + 1
      OBVIOUS
    <3>1. /\ Cardinality(S) \in Nat
          /\ UndoCount(SeenUndos(S, v), e) \in 0 .. Cardinality(S)
      BY UndoCountIs
    <3> QED
      BY <1>1, <3>1
  <2>4. op.counts \in [DOMAIN op.counts -> 1 .. Cardinality(S) + 1]
    BY <2>2, <2>3
  <2> QED
    BY <1>1, <1>2, <1>3, <2>1, <2>2, <2>4 DEF NewOp
<1>5. OpsSound(R, P, Z)
  BY <1>4, GrowOps
<1>6. \A b : CopySound(S, O, X, b) => CopySound(R, P, Z, b)
  BY <1>2, GrowCopy
<1>7. VersionSound(R, v) /\ DocSound(R, P, Z, d, v) /\ c.undos = SeenUndos(R, v)
  BY <1>6 DEF CopySound
<1>8. ~Observed(v, op.stamp) /\ ObservedAll(v, op.version) /\ op \in R
  <2>1. ~Observed(v, op.stamp)
    BY <1>1, <1>2, FreshUnseen
  <2> QED
    BY <1>2, <1>3, <2>1 DEF ObservedAll
<1>9. U = SeenUndos(R, v) \cup UndoEntries(op) /\ DOMAIN op.counts = edits
  BY <1>7
<1> HIDE DEF P, Z, R, U
<1>10. /\ DocSound(R, P, Z, ApplyUndo(d, DOMAIN op.counts, U), Observe(v, op.stamp))
       /\ U = SeenUndos(R, Observe(v, op.stamp))
  <2>1. op.kind = "undo" /\ op \in R
    BY <1>8
  <2> HIDE DEF d, v
  <2>2. ASSUME NEW G, G = SeenUndos(R, v) \cup UndoEntries(op)
        PROVE  /\ DocSound(R, P, Z, ApplyUndo(d, DOMAIN op.counts, G), Observe(v, op.stamp))
               /\ G = SeenUndos(R, Observe(v, op.stamp))
    BY <1>5, <1>7, <1>8, <2>1, <2>2, UndoGood, SMTT(30)
  <2> QED
    BY <1>9, <2>2
<1>11. VersionSound(R, Observe(v, op.stamp))
  BY <1>5, <1>7, <1>8, ObserveIs
<1> QED
  BY <1>5, <1>6, <1>9, <1>10, <1>11 DEF AfterMaking, R, U

-----------------------------------------------------------------------------
(* The inductive invariant                                                 *)

\* A transaction holds edits that have been made and observed.
EntrySound(S, x, v) ==
    /\ "edits" \in DOMAIN x
    /\ \A e \in x.edits : \E p \in S : p.kind = "edit" /\ p.stamp = e /\ Observed(v, e)

StackSound(S, stack, v) ==
    \E T : stack \in Seq(T) /\ \A x \in T : EntrySound(S, x, v)

\* What holds of each replica besides what its copy holds.
ReplicaSound(r) ==
    /\ lamport_clock[r] > 0 /\ (BaseLen > 0 => lamport_clock[r] > 1)
    /\ \A op \in operations : op.stamp.replica = r => Observed(version[r], op.stamp)
    /\ \A op \in deferred_ops[r] : ~ObservedAll(version[r], op.version)
    /\ StackSound(operations, undo_stack[r], version[r])
    /\ StackSound(operations, redo_stack[r], version[r])

WorldSound ==
    \E O, X : /\ OpsSound(operations, O, X)
              /\ \A r \in Replica : CopySound(operations, O, X, Copy(r))

Functions ==
    /\ fragments = [r \in Replica |-> fragments[r]]
    /\ version = [r \in Replica |-> version[r]]
    /\ lamport_clock = [r \in Replica |-> lamport_clock[r]]
    /\ undo_map = [r \in Replica |-> undo_map[r]]
    /\ deferred_ops = [r \in Replica |-> deferred_ops[r]]
    /\ undo_stack = [r \in Replica |-> undo_stack[r]]
    /\ redo_stack = [r \in Replica |-> redo_stack[r]]

BufferInv ==
    /\ Functions
    /\ WorldSound
    /\ \A r \in Replica : ReplicaSound(r)
    /\ Cardinality(operations) <= MaxOps

BaseDoc == Inserted([value |-> 1, replica |-> LOCAL_ID], BaseLen)
BaseVersion == [q \in Author |-> IF q = LOCAL_ID /\ BaseLen > 0 THEN 1 ELSE 0]

LEMMA BaseSound ==
    LET O == [s \in Stamp |-> Start]
        X == [s \in Stamp |-> {}]
    IN  /\ OpsSound({}, O, X)
        /\ VersionSound({}, BaseVersion)
        /\ DocSound({}, O, X, BaseDoc, BaseVersion)
<1> DEFINE O == [s \in Stamp |-> Start]
           X == [s \in Stamp |-> {}]
           d == BaseDoc
           v == BaseVersion
<1>0. BaseLen \in Nat /\ Base \in Stamp /\ Base.value = 1 /\ Base.replica = LOCAL_ID
  BY BufferAssumption, StampFacts DEF Base, Stamp
<1>1. Start \in Name
  BY DEF Start, Name
<1>2. OpsSound({}, O, X)
  BY <1>0, <1>1, FS_EmptySet DEF OpsSound
<1>3. v \in [Author -> Nat] /\ (BaseLen > 0 => Observed(v, Base))
  BY <1>0, StampFacts DEF Observed, BaseVersion
<1>4. VersionSound({}, v)
  BY <1>3 DEF VersionSound, BaseVersion
<1>5. /\ d \in Seq(Char) /\ Len(d) = BaseLen
      /\ \A i \in 1 .. BaseLen : d[i] = [stamp |-> Base, offset |-> i, deletions |-> {},
                                         visible |-> TRUE]
  <2>1. \A i \in 1 .. BaseLen : [stamp |-> Base, offset |-> i, deletions |-> {},
                                 visible |-> TRUE] \in Char
    BY <1>0 DEF Char
  <2>2. d = [i \in 1 .. BaseLen |-> [stamp |-> Base, offset |-> i, deletions |-> {},
                                     visible |-> TRUE]]
    BY DEF BaseDoc, Base, Inserted
  <2> QED
    BY <1>0, <2>1, <2>2
<1>6. \A i \in 1 .. BaseLen : NameOf(d[i]) = <<Base, i>>
  BY <1>5 DEF NameOf
<1>7. /\ Names(d)[0] = Start /\ \A i \in 1 .. BaseLen : Names(d)[i] = <<Base, i>>
      /\ Names(d) \in [0 .. BaseLen -> Name]
  <2>1. Names(d) = [i \in 0 .. BaseLen |-> IF i = 0 THEN Start ELSE NameOf(d[i])]
    BY <1>5 DEF Names
  <2>2. \A i \in 1 .. BaseLen : <<Base, i>> \in Name
    BY <1>0, StampFacts
  <2> QED
    BY <1>0, <1>1, <1>6, <2>1, <2>2
<1>8. \A i \in 1 .. BaseLen : Origin(O)[<<Base, i>>] = Names(d)[i - 1]
  <2> SUFFICES ASSUME NEW i \in 1 .. BaseLen
               PROVE  Origin(O)[<<Base, i>>] = Names(d)[i - 1]
    OBVIOUS
  <2>1. <<Base, i>> \in Name /\ O[Base] = Start
    BY <1>0, StampFacts
  <2>2. Origin(O)[<<Base, i>>] = IF i > 1 THEN <<Base, i - 1>> ELSE Start
    BY <2>1 DEF Origin
  <2>3. CASE i = 1
    BY <1>7, <2>2, <2>3
  <2>4. CASE i > 1
    BY <1>0, <1>7, <2>2, <2>4
  <2> QED
    BY <1>0, <2>3, <2>4
<1> HIDE DEF O, X, d, v
<1>9. Laid(Names(d), Len(d), Origin(O))
  <2>1. \A i, j \in 0 .. BaseLen : Names(d)[i] = Names(d)[j] => i = j
    <3>1. \A i \in 1 .. BaseLen : Names(d)[i] # Start /\ Names(d)[i][2] = i
      BY <1>0, <1>7 DEF Start
    <3> QED
      BY <1>0, <1>7, <3>1
  <2>2. \A i \in 1 .. BaseLen : \E h \in 0 .. i - 1 :
           /\ Names(d)[h] = Origin(O)[Names(d)[i]]
           /\ \A k \in h + 1 .. i - 1 : Before(Names(d)[i][1], Names(d)[k][1])
    <3> SUFFICES ASSUME NEW i \in 1 .. BaseLen
                 PROVE  \E h \in 0 .. i - 1 :
                           /\ Names(d)[h] = Origin(O)[Names(d)[i]]
                           /\ \A k \in h + 1 .. i - 1 : Before(Names(d)[i][1], Names(d)[k][1])
      OBVIOUS
    <3>1. i - 1 \in 0 .. i - 1 /\ Names(d)[i - 1] = Origin(O)[Names(d)[i]]
      <4>1. Names(d)[i] = <<Base, i>> /\ i - 1 \in 0 .. i - 1
        BY <1>0, <1>7
      <4>2. Origin(O)[<<Base, i>>] = Names(d)[i - 1]
        BY <1>8
      <4> QED
        BY <4>1, <4>2
    <3>2. \A k \in (i - 1) + 1 .. i - 1 : FALSE
      BY <1>0
    <3> QED
      BY <3>1, <3>2
  <2> QED
    BY <1>5, <1>7, <2>1, <2>2, Zenon DEF Laid
<1>10. Made({}, v) = {<<Base, k>> : k \in 1 .. BaseLen}
  <2>1. ASSUME NEW x \in Made({}, v) PROVE x \in {<<Base, k>> : k \in 1 .. BaseLen}
    BY <1>0 DEF Made, Written
  <2>2. ASSUME NEW k \in 1 .. BaseLen PROVE <<Base, k>> \in Made({}, v)
    BY <1>0, <1>3 DEF Made, Written
  <2> QED
    BY <2>1, <2>2
<1>11. {NameOf(d[i]) : i \in 1 .. Len(d)} = Made({}, v)
  BY <1>5, <1>6, <1>10
<1>12. SeenUndos({}, v) = {} /\ \A x : Deleters({}, v, X, x) = {}
  BY DEF SeenUndos, Deleters
<1>13. ASSUME NEW e PROVE ~IsUndone({}, e)
  <2>1. {u.count : u \in {x \in {} : x.edit = e}} = {}
    OBVIOUS
  <2>2. Max({0}) = 0
    BY MaxIs
  <2>3. UndoCount({}, e) = 0
    <3>1. {0} \cup {u.count : u \in {x \in {} : x.edit = e}} = {0}
      BY <2>1
    <3> QED
      BY <2>2, <3>1 DEF UndoCount, Highest
  <2> QED
    BY <2>3 DEF IsUndone
<1>14. \A i \in 1 .. Len(d) : /\ d[i].deletions = Deleters({}, v, X, NameOf(d[i]))
                              /\ d[i].visible = IsVisible(d[i], SeenUndos({}, v))
  <2> SUFFICES ASSUME NEW i \in 1 .. Len(d)
               PROVE  /\ d[i].deletions = Deleters({}, v, X, NameOf(d[i]))
                      /\ d[i].visible = IsVisible(d[i], SeenUndos({}, v))
    OBVIOUS
  <2>1. d[i].deletions = {} /\ d[i].visible = TRUE
    BY <1>5
  <2>2. IsVisible(d[i], {}) = TRUE
    BY <1>13, <2>1, Zenon DEF IsVisible
  <2> QED
    BY <1>12, <2>1, <2>2
<1>15. DocSound({}, O, X, d, v)
  BY <1>5, <1>9, <1>11, <1>14, Zenon DEF DocSound
<1> QED
  BY <1>2, <1>4, <1>15 DEF O, X, d, v

LEMMA NoTransactions ==
    ASSUME NEW S, NEW v
    PROVE  StackSound(S, <<>>, v)
<1>1. ASSUME NEW T, T = {} PROVE StackSound(S, <<>>, v)
  <2>1. <<>> \in Seq(T) /\ \A x \in T : EntrySound(S, x, v)
    BY <1>1
  <2> QED
    BY <2>1, Zenon DEF StackSound
<1>2. \E T : T = {}
  OBVIOUS
<1> QED
  BY <1>1, <1>2, Zenon

LEMMA InitGood == Init => BufferInv
<1> SUFFICES ASSUME Init PROVE BufferInv
  OBVIOUS
<1> DEFINE O == [s \in Stamp |-> Start]
           X == [s \in Stamp |-> {}]
<1>1. operations = {}
  BY DEF Init
<1>2. ASSUME NEW r \in Replica
      PROVE  /\ fragments[r] = BaseDoc /\ version[r] = BaseVersion
             /\ lamport_clock[r] = (IF BaseLen > 0 THEN 2 ELSE 1)
             /\ undo_map[r] = {} /\ deferred_ops[r] = {}
             /\ undo_stack[r] = <<>> /\ redo_stack[r] = <<>>
  BY DEF Init, BaseDoc, BaseVersion
<1>3. /\ OpsSound({}, O, X) /\ VersionSound({}, BaseVersion)
      /\ DocSound({}, O, X, BaseDoc, BaseVersion)
  BY BaseSound
<1> HIDE DEF O, X
<1>4. ASSUME NEW r \in Replica PROVE CopySound({}, O, X, Copy(r))
  <2>1. Copy(r) = [fragments |-> BaseDoc, version |-> BaseVersion,
                   clock |-> (IF BaseLen > 0 THEN 2 ELSE 1), undos |-> {}, deferred |-> {},
                   waiting |-> {op.stamp.replica : op \in {}}]
    BY <1>2 DEF Copy
  <2>2. BaseDoc \in Seq(Char) /\ BaseVersion \in [Author -> Nat]
    BY <1>3 DEF DocSound, VersionSound
  <2>3. {op.stamp.replica : op \in {}} = {}
    OBVIOUS
  <2>4. Copy(r) \in CopyType({})
    BY <2>1, <2>2, <2>3 DEF CopyType
  <2>5. SeenUndos({}, BaseVersion) = {}
    BY DEF SeenUndos
  <2>6. \A q \in Author : BaseVersion[q] < (IF BaseLen > 0 THEN 2 ELSE 1)
    BY BufferAssumption DEF BaseVersion
  <2>7. /\ Copy(r).version = BaseVersion /\ Copy(r).fragments = BaseDoc
        /\ Copy(r).undos = {} /\ Copy(r).clock = (IF BaseLen > 0 THEN 2 ELSE 1)
    BY <2>1
  <2> QED
    BY <1>3, <2>4, <2>5, <2>6, <2>7 DEF CopySound
<1>5. WorldSound
  BY <1>1, <1>3, <1>4 DEF WorldSound
<1>6. ASSUME NEW r \in Replica PROVE ReplicaSound(r)
  BY <1>1, <1>2, NoTransactions DEF ReplicaSound
<1>7. Functions
  BY DEF Init, Functions
<1>8. Cardinality(operations) <= MaxOps
  BY <1>1, FS_EmptySet, BufferAssumption
<1> QED
  BY <1>5, <1>6, <1>7, <1>8 DEF BufferInv

\* The shape of a copy, and what it says of the variables.
LEMMA CopyIs ==
    ASSUME NEW S, NEW O, NEW X, NEW r, CopySound(S, O, X, Copy(r))
    PROVE  /\ VersionSound(S, version[r]) /\ version[r] \in [Author -> Nat]
           /\ DocSound(S, O, X, fragments[r], version[r])
           /\ fragments[r] \in Seq(Char) /\ Len(fragments[r]) \in Nat
           /\ undo_map[r] = SeenUndos(S, version[r])
           /\ lamport_clock[r] \in Nat /\ deferred_ops[r] \in SUBSET S
           /\ undo_map[r] \in SUBSET AllUndos(S)
           /\ \A q \in Author : version[r][q] < lamport_clock[r]
<1>1. /\ Copy(r).fragments = fragments[r] /\ Copy(r).version = version[r]
      /\ Copy(r).clock = lamport_clock[r] /\ Copy(r).undos = undo_map[r]
      /\ Copy(r).deferred = deferred_ops[r]
  BY DEF Copy
<1>2. /\ fragments[r] \in Seq(Char) /\ version[r] \in [Author -> Nat]
      /\ lamport_clock[r] \in Nat /\ deferred_ops[r] \in SUBSET S
      /\ undo_map[r] \in SUBSET AllUndos(S)
  BY <1>1 DEF CopySound, CopyType
<1> QED
  BY <1>1, <1>2 DEF CopySound

\* A copy is made of its parts.
CopyOf(d, v, k, U, D) ==
    [fragments |-> d, version |-> v, clock |-> k, undos |-> U, deferred |-> D,
     waiting |-> {op.stamp.replica : op \in D}]

LEMMA CopyFrom ==
    ASSUME NEW S, NEW O, NEW X, OpsSound(S, O, X), NEW v, VersionSound(S, v),
           NEW d, DocSound(S, O, X, d, v), NEW k \in Nat, \A q \in Author : v[q] < k,
           NEW D \in SUBSET S
    PROVE  CopySound(S, O, X, CopyOf(d, v, k, SeenUndos(S, v), D))
<1> DEFINE c == CopyOf(d, v, k, SeenUndos(S, v), D)
<1>1. /\ c.fragments = d /\ c.version = v
      /\ c.clock = k /\ c.undos = SeenUndos(S, v)
      /\ c.deferred = D
  BY DEF CopyOf
<1>2. d \in Seq(Char) /\ v \in [Author -> Nat]
  BY DEF DocSound, VersionSound
<1>3. SeenUndos(S, v) \in SUBSET AllUndos(S)
  BY DEF SeenUndos, AllUndos
<1>4. {op.stamp.replica : op \in D} \in SUBSET Author
  <2>1. \A op \in S : op.stamp.replica \in Author
    BY OpFacts
  <2> QED
    BY <2>1
<1>5. c \in CopyType(S)
  BY <1>2, <1>3, <1>4 DEF CopyOf, CopyType
<1> HIDE DEF c
<1> QED
  BY <1>1, <1>5 DEF CopySound, c

LEMMA PopSound ==
    ASSUME NEW S, NEW v, NEW stack, StackSound(S, stack, v), stack # <<>>
    PROVE  StackSound(S, Front(stack), v) /\ EntrySound(S, Last(stack), v)
<1>1. PICK T : stack \in Seq(T) /\ \A x \in T : EntrySound(S, x, v)
  BY Zenon DEF StackSound
<1>2. Len(stack) \in Nat /\ Len(stack) > 0
  BY <1>1
<1>3. Front(stack) \in Seq(T) /\ Last(stack) \in T
  BY <1>1, <1>2 DEF Front, Last
<1> QED
  BY <1>1, <1>3, Zenon DEF StackSound

LEMMA PushSound ==
    ASSUME NEW S, NEW v, NEW stack, StackSound(S, stack, v), NEW x, EntrySound(S, x, v)
    PROVE  StackSound(S, Append(stack, x), v) /\ StackSound(S, stack \o <<x>>, v)
<1>1. PICK T : stack \in Seq(T) /\ \A y \in T : EntrySound(S, y, v)
  BY Zenon DEF StackSound
<1> DEFINE G == T \cup {x}
<1>2. stack \in Seq(G)
  <2>1. Len(stack) \in Nat /\ \A i \in 1 .. Len(stack) : stack[i] \in G
    BY <1>1
  <2>2. stack = [i \in 1 .. Len(stack) |-> stack[i]]
    BY <1>1
  <2> HIDE DEF G
  <2> QED
    BY <2>1, <2>2
<1>3. x \in G /\ \A y \in G : EntrySound(S, y, v)
  BY <1>1
<1> HIDE DEF G
<1>4. Append(stack, x) \in Seq(G)
  BY <1>2, <1>3
<1>5. <<x>> \in Seq(G)
  BY <1>3
<1>6. stack \o <<x>> \in Seq(G)
  BY <1>2, <1>5, JoinIs
<1> QED
  BY <1>3, <1>4, <1>6, Zenon DEF StackSound

LEMMA GroupSound ==
    ASSUME NEW S, NEW v, NEW stack, StackSound(S, stack, v), stack # <<>>,
           NEW p \in S, p.kind = "edit", Observed(v, p.stamp)
    PROVE  StackSound(S, GroupTrailing(stack, p.stamp), v)
<1>1. StackSound(S, Front(stack), v) /\ EntrySound(S, Last(stack), v)
  BY PopSound
<1> DEFINE x == Last(stack)
           y == [x EXCEPT !.edits = @ \cup {p.stamp}]
<1>2. "edits" \in DOMAIN x
  BY <1>1 DEF EntrySound
<1>3. \A e \in x.edits : \E z \in S : z.kind = "edit" /\ z.stamp = e /\ Observed(v, e)
  BY <1>1 DEF EntrySound
<1> HIDE DEF x
<1>4. "edits" \in DOMAIN y /\ y.edits = x.edits \cup {p.stamp}
  BY <1>2
<1> HIDE DEF y
<1>7. EntrySound(S, y, v)
  BY <1>3, <1>4 DEF EntrySound
<1>8. StackSound(S, Front(stack) \o <<y>>, v)
  BY <1>1, <1>7, PushSound
<1> QED
  BY <1>8 DEF GroupTrailing, y, x

\* A transaction stays sound as its replica sees more.
LEMMA GrowStack ==
    ASSUME NEW S, NEW O, NEW X, OpsSound(S, O, X), NEW R, S \subseteq R,
           NEW v \in [Author -> Nat], NEW w \in [Author -> Nat], ObservedAll(w, v),
           NEW stack, StackSound(S, stack, v)
    PROVE  StackSound(R, stack, w)
<1>1. PICK T : stack \in Seq(T) /\ \A x \in T : EntrySound(S, x, v)
  BY Zenon DEF StackSound
<1>2. ASSUME NEW x \in T PROVE EntrySound(R, x, w)
  <2>1. EntrySound(S, x, v)
    BY <1>1
  <2>2. ASSUME NEW e \in x.edits
        PROVE  \E p \in R : p.kind = "edit" /\ p.stamp = e /\ Observed(w, e)
    <3>1. PICK p \in S : p.kind = "edit" /\ p.stamp = e /\ Observed(v, e)
      BY <2>1 DEF EntrySound
    <3>2. e \in Stamp
      BY <3>1, OpFacts
    <3>3. Observed(w, e)
      BY <3>1, <3>2, StillObserved
    <3> QED
      BY <3>1, <3>3
  <2> QED
    BY <2>1, <2>2 DEF EntrySound
<1> QED
  BY <1>1, <1>2, Zenon DEF StackSound

\* A copy that has taken in more of what was made.
LEMMA DeliverGood ==
    ASSUME BufferInv, NEW r \in Replica, NEW n \in Nat, NEW ops \in [1 .. n -> operations],
           Deliver(r, ops)
    PROVE  BufferInv'
<1> DEFINE S == operations
           d == ApplyOps(Copy(r), ops)
<1>1. PICK O, X : /\ OpsSound(S, O, X)
                  /\ \A q \in Replica : CopySound(S, O, X, Copy(q))
  BY DEF BufferInv, WorldSound
<1>2. ops \in Seq(S)
  OBVIOUS
<1>3. /\ CopySound(S, O, X, d) /\ ObservedAll(d.version, Copy(r).version)
      /\ \A p \in d.deferred : ~ObservedAll(d.version, p.version)
  <2>1. CopySound(S, O, X, Copy(r))
    BY <1>1
  <2> QED
    BY <1>1, <1>2, <2>1, ApplyOpsGood
<1> HIDE DEF d
<1>4. /\ VersionSound(S, d.version) /\ DocSound(S, O, X, d.fragments, d.version)
      /\ d.undos = SeenUndos(S, d.version) /\ d.clock \in Nat
      /\ \A q \in Author : d.version[q] < d.clock
      /\ d.deferred \in SUBSET S /\ d.version \in [Author -> Nat]
  BY <1>3 DEF CopySound, CopyType
<1>5. /\ fragments' = [fragments EXCEPT ![r] = d.fragments]
      /\ version' = [version EXCEPT ![r] = d.version]
      /\ lamport_clock' = [lamport_clock EXCEPT ![r] = d.clock]
      /\ undo_map' = [undo_map EXCEPT ![r] = d.undos]
      /\ deferred_ops' = [deferred_ops EXCEPT ![r] = d.deferred]
      /\ undo_stack' = undo_stack /\ redo_stack' = redo_stack /\ operations' = S
  BY DEF Deliver, d
<1>6. Functions
  BY DEF BufferInv
<1>7. ASSUME NEW q \in Replica
      PROVE  /\ fragments'[q] = IF q = r THEN d.fragments ELSE fragments[q]
             /\ version'[q] = IF q = r THEN d.version ELSE version[q]
             /\ lamport_clock'[q] = IF q = r THEN d.clock ELSE lamport_clock[q]
             /\ undo_map'[q] = IF q = r THEN d.undos ELSE undo_map[q]
             /\ deferred_ops'[q] = IF q = r THEN d.deferred ELSE deferred_ops[q]
  BY <1>5, <1>6, Zenon DEF Functions
<1>8. Functions'
  BY <1>5, <1>6, Zenon DEF Functions
<1>9. /\ version[r] \in [Author -> Nat] /\ lamport_clock[r] \in Nat
      /\ ObservedAll(d.version, version[r])
      /\ \A q \in Author : version[r][q] < lamport_clock[r]
  <2>1. Copy(r).version = version[r]
    BY DEF Copy
  <2> QED
    BY <1>1, <1>3, <2>1, CopyIs
<1>10. WorldSound'
  <2>1. ASSUME NEW q \in Replica PROVE CopySound(S, O, X, Copy(q)')
    <3>1. CASE q = r
      <4>1. CopySound(S, O, X, CopyOf(d.fragments, d.version, d.clock,
                                      SeenUndos(S, d.version), d.deferred))
        BY <1>1, <1>4, CopyFrom
      <4>2. Copy(q)' = CopyOf(d.fragments, d.version, d.clock, d.undos, d.deferred)
        BY <1>7, <3>1 DEF Copy, CopyOf
      <4> QED
        BY <1>4, <4>1, <4>2
    <3>2. CASE q # r
      <4>1. Copy(q)' = Copy(q)
        BY <1>7, <3>2 DEF Copy
      <4> QED
        BY <1>1, <4>1
    <3> QED
      BY <3>1, <3>2
  <2> QED
    BY <1>1, <1>5, <2>1 DEF WorldSound
<1>11. d.clock > 0 /\ (BaseLen > 0 => d.clock > 1)
  <2>1. d.version[LOCAL_ID] \in Nat /\ d.version[LOCAL_ID] < d.clock
    BY <1>4, StampFacts
  <2>2. BaseLen > 0 => d.version[LOCAL_ID] >= 1
    BY <1>4 DEF VersionSound, Observed, Base
  <2> QED
    BY <1>4, <2>1, <2>2
<1>12. \A p \in S : p.stamp \in Stamp
  BY <1>1, OpFacts
<1>13. ASSUME NEW q \in Replica PROVE ReplicaSound(q)'
  <2>1. ReplicaSound(q)
    BY DEF BufferInv
  <2>2. CASE q # r
    BY <1>5, <1>7, <2>1, <2>2 DEF ReplicaSound
  <2>3. CASE q = r
    <3>1. \A p \in S : p.stamp.replica = r => Observed(d.version, p.stamp)
      BY <1>4, <1>9, <1>12, <2>1, <2>3, StillObserved DEF ReplicaSound
    <3>2. /\ StackSound(S, undo_stack[r], d.version)
          /\ StackSound(S, redo_stack[r], d.version)
      <4>1. StackSound(S, undo_stack[r], version[r]) /\ StackSound(S, redo_stack[r], version[r])
        BY <2>1, <2>3 DEF ReplicaSound
      <4> QED
        BY <1>1, <1>4, <1>9, <4>1, GrowStack
    <3> QED
      BY <1>3, <1>5, <1>7, <1>11, <2>3, <3>1, <3>2 DEF ReplicaSound
  <2> QED
    BY <2>2, <2>3
<1> QED
  BY <1>5, <1>8, <1>10, <1>13 DEF BufferInv

\* A replica makes an operation and is as it says after it.
Makes(r, op, d, U, k, us, rs) ==
    /\ op.stamp.replica = r /\ op.stamp.value >= lamport_clock[r]
    /\ k \in Nat /\ k > op.stamp.value /\ op.stamp \in Stamp
    /\ CanMake
    /\ fragments' = [fragments EXCEPT ![r] = d]
    /\ version' = [version EXCEPT ![r] = Observe(@, op.stamp)]
    /\ lamport_clock' = [lamport_clock EXCEPT ![r] = k]
    /\ undo_map' = [undo_map EXCEPT ![r] = U]
    /\ undo_stack' = [undo_stack EXCEPT ![r] = us]
    /\ redo_stack' = [redo_stack EXCEPT ![r] = rs]
    /\ deferred_ops' = deferred_ops
    /\ operations' = operations \cup {op}

\* What is put off does not wait for what its own replica makes next.
LEMMA StillPutOff ==
    ASSUME NEW S, NEW O, NEW X, OpsSound(S, O, X), NEW v, VersionSound(S, v),
           NEW s \in Stamp,
           \A p \in S : p.stamp.replica = s.replica => Observed(v, p.stamp),
           NEW z \in S, ~ObservedAll(v, z.version)
    PROVE  ~ObservedAll(Observe(v, s), z.version)
<1>1. VersionSound(S, z.version) /\ z.version \in [Author -> Nat] /\ v \in [Author -> Nat]
  BY OpFacts DEF VersionSound
<1>2. PICK q \in Author : ~(v[q] >= z.version[q])
  BY DEF ObservedAll
<1>3. q # s.replica
  <2> SUFFICES ASSUME q = s.replica PROVE FALSE
    OBVIOUS
  <2>1. v[q] \in Nat /\ z.version[q] \in Nat /\ v[q] < z.version[q]
    BY <1>1, <1>2
  <2>2. CASE z.version[q] = 0
    BY <2>1, <2>2
  <2>3. CASE BaseLen > 0 /\ q = LOCAL_ID /\ z.version[q] = 1
    <3>1. v[q] >= 1
      BY <2>3 DEF VersionSound, Observed, Base
    <3> QED
      BY <2>1, <2>3, <3>1
  <2>4. CASE \E p \in S : p.stamp = [value |-> z.version[q], replica |-> q]
    <3>1. PICK p \in S : p.stamp = [value |-> z.version[q], replica |-> q]
      BY <2>4
    <3>2. p.stamp.replica = q /\ p.stamp.value = z.version[q]
      BY <3>1
    <3>3. Observed(v, p.stamp)
      BY <3>2
    <3> QED
      BY <2>1, <3>2, <3>3 DEF Observed
  <2> QED
    BY <1>1, <2>2, <2>3, <2>4 DEF VersionSound
<1>4. Observe(v, s)[q] = v[q]
  BY <1>1, <1>3 DEF Observe
<1> QED
  BY <1>2, <1>4 DEF ObservedAll

LEMMA ObserveMore ==
    ASSUME NEW v \in [Author -> Nat], NEW s \in Stamp
    PROVE  /\ Observe(v, s) \in [Author -> Nat] /\ ObservedAll(Observe(v, s), v)
           /\ Observed(Observe(v, s), s)
           /\ \A q \in Author : Observe(v, s)[q] = v[q] \/ Observe(v, s)[q] = s.value
<1>1. s.value \in Nat /\ s.replica \in Author
  BY StampFacts
<1> QED
  BY <1>1 DEF Observe, ObservedAll, Observed

LEMMA LocalGood ==
    ASSUME BufferInv, NEW r \in Replica,
           NEW op, NEW d, NEW U, NEW k, NEW us, NEW rs, Makes(r, op, d, U, k, us, rs),
           \A O, X : OpsSound(operations, O, X) /\ CopySound(operations, O, X, Copy(r))
                        => AfterMaking(operations, O, X, op, Copy(r), d, U),
           StackSound(operations \cup {op}, us, Observe(version[r], op.stamp)),
           StackSound(operations \cup {op}, rs, Observe(version[r], op.stamp))
    PROVE  BufferInv'
<1> DEFINE S == operations
           R == operations \cup {op}
           v == version[r]
           w == Observe(version[r], op.stamp)
<1>1. PICK O, X : /\ OpsSound(S, O, X)
                  /\ \A q \in Replica : CopySound(S, O, X, Copy(q))
  BY DEF BufferInv, WorldSound
<1>2. Copy(r).version = v
  BY DEF Copy
<1>3. PICK P, Z :
        /\ OpsSound(R, P, Z)
        /\ \A b : CopySound(S, O, X, b) => CopySound(R, P, Z, b)
        /\ VersionSound(R, w)
        /\ DocSound(R, P, Z, d, w)
        /\ U = SeenUndos(R, w)
  BY <1>1, <1>2, Zenon DEF AfterMaking
<1>4. /\ op.stamp.replica = r /\ op.stamp.value >= lamport_clock[r]
      /\ k \in Nat /\ k > op.stamp.value /\ op.stamp \in Stamp /\ op.stamp.value \in Nat
      /\ op.stamp.replica \in Author
  BY StampFacts DEF Makes
<1>5. /\ fragments' = [fragments EXCEPT ![r] = d]
      /\ version' = [version EXCEPT ![r] = w]
      /\ lamport_clock' = [lamport_clock EXCEPT ![r] = k]
      /\ undo_map' = [undo_map EXCEPT ![r] = U]
      /\ undo_stack' = [undo_stack EXCEPT ![r] = us]
      /\ redo_stack' = [redo_stack EXCEPT ![r] = rs]
      /\ deferred_ops' = deferred_ops /\ operations' = R
  BY DEF Makes
<1>6. Functions
  BY DEF BufferInv
<1>7. ASSUME NEW q \in Replica
      PROVE  /\ fragments'[q] = IF q = r THEN d ELSE fragments[q]
             /\ version'[q] = IF q = r THEN w ELSE version[q]
             /\ lamport_clock'[q] = IF q = r THEN k ELSE lamport_clock[q]
             /\ undo_map'[q] = IF q = r THEN U ELSE undo_map[q]
             /\ undo_stack'[q] = IF q = r THEN us ELSE undo_stack[q]
             /\ redo_stack'[q] = IF q = r THEN rs ELSE redo_stack[q]
             /\ deferred_ops'[q] = deferred_ops[q]
  <2> HIDE DEF w
  <2> QED
    BY <1>5, <1>6, Zenon DEF Functions
<1>8. Functions'
  <2> HIDE DEF w, R
  <2> QED
    BY <1>5, <1>6, Zenon DEF Functions
<1>9. ASSUME NEW q \in Replica
      PROVE  /\ VersionSound(S, version[q]) /\ version[q] \in [Author -> Nat]
             /\ lamport_clock[q] \in Nat /\ deferred_ops[q] \in SUBSET S
             /\ \A a \in Author : version[q][a] < lamport_clock[q]
  BY <1>1, CopyIs
<1>10. /\ w \in [Author -> Nat] /\ ObservedAll(w, v) /\ Observed(w, op.stamp)
       /\ \A q \in Author : w[q] = v[q] \/ w[q] = op.stamp.value
  BY <1>4, <1>9, ObserveMore
<1>11. \A q \in Author : w[q] < k
  BY <1>4, <1>9, <1>10
<1> HIDE DEF w, R
<1>12. S \subseteq R /\ op \in R /\ \A p \in R : p \in S \/ p = op
  BY DEF R
<1>13. WorldSound'
  <2>1. ASSUME NEW q \in Replica PROVE CopySound(R, P, Z, Copy(q)')
    <3>1. CASE q = r
      <4>1. deferred_ops[r] \in SUBSET R
        BY <1>9, <1>12
      <4>2. CopySound(R, P, Z, CopyOf(d, w, k, SeenUndos(R, w), deferred_ops[r]))
        BY <1>3, <1>4, <1>11, <4>1, CopyFrom
      <4>3. Copy(q)' = CopyOf(d, w, k, U, deferred_ops[r])
        BY <1>5, <1>7, <3>1 DEF Copy, CopyOf
      <4> QED
        BY <1>3, <4>2, <4>3
    <3>2. CASE q # r
      <4>1. Copy(q)' = Copy(q)
        BY <1>5, <1>7, <3>2 DEF Copy
      <4> QED
        BY <1>1, <1>3, <4>1
    <3> QED
      BY <3>1, <3>2
  <2> QED
    BY <1>3, <1>5, <2>1 DEF WorldSound
<1>14. \A p \in S : p.stamp \in Stamp
  BY <1>1, OpFacts
<1>15. \A q \in Replica : ReplicaSound(q)
  BY DEF BufferInv
<1>16. \A p \in S : p.stamp.replica = r => Observed(v, p.stamp)
  BY <1>15 DEF ReplicaSound
<1>17. ASSUME NEW q \in Replica PROVE ReplicaSound(q)'
  <2>1. ReplicaSound(q)
    BY <1>15
  <2>2. CASE q # r
    <3>1. \A p \in R : p.stamp.replica = q => Observed(version[q], p.stamp)
      BY <1>4, <1>12, <2>1, <2>2 DEF ReplicaSound
    <3>2. ObservedAll(version[q], version[q])
      BY <1>9 DEF ObservedAll
    <3>3. StackSound(R, undo_stack[q], version[q]) /\ StackSound(R, redo_stack[q], version[q])
      <4>1. StackSound(S, undo_stack[q], version[q]) /\ StackSound(S, redo_stack[q], version[q])
        BY <2>1 DEF ReplicaSound
      <4> QED
        BY <1>1, <1>9, <1>12, <3>2, <4>1, GrowStack
    <3> QED
      BY <1>5, <1>7, <2>1, <2>2, <3>1, <3>3 DEF ReplicaSound
  <2>3. CASE q = r
    <3>1. \A p \in R : p.stamp.replica = r => Observed(w, p.stamp)
      BY <1>9, <1>10, <1>12, <1>14, <1>16, StillObserved
    <3>2. \A p \in deferred_ops[r] : ~ObservedAll(w, p.version)
      <4> SUFFICES ASSUME NEW p \in deferred_ops[r] PROVE ~ObservedAll(w, p.version)
        OBVIOUS
      <4>1. p \in S /\ ~ObservedAll(v, p.version)
        BY <1>9, <2>1, <2>3 DEF ReplicaSound
      <4>2. VersionSound(S, v) /\ \A z \in S : z.stamp.replica = op.stamp.replica
                                                  => Observed(v, z.stamp)
        BY <1>4, <1>9, <1>16
      <4> QED
        BY <1>1, <1>4, <4>1, <4>2, StillPutOff DEF w
    <3>3. k > 0 /\ (BaseLen > 0 => k > 1)
      BY <1>4, <1>9, <1>15 DEF ReplicaSound
    <3>4. StackSound(R, us, w) /\ StackSound(R, rs, w)
      BY DEF R, w
    <3> QED
      BY <1>5, <1>7, <2>3, <3>1, <3>2, <3>3, <3>4 DEF ReplicaSound
  <2> QED
    BY <2>2, <2>3
<1>18. Cardinality(R) <= MaxOps
  <2>1. IsFiniteSet(S)
    BY <1>1 DEF OpsSound
  <2>2. Cardinality(S) \in Nat /\ Cardinality(S) < MaxOps
    BY <2>1, FS_CardinalityType DEF Makes, CanMake
  <2>3. Cardinality(R) \in Nat /\ Cardinality(R) <= Cardinality(S) + 1
    BY <2>1, <2>2, FS_AddElement DEF R
  <2> QED
    BY <2>2, <2>3, BufferAssumption
<1> QED
  BY <1>5, <1>8, <1>13, <1>17, <1>18 DEF BufferInv

\* A local edit has a place in its document.
LEMMA LocalPlace ==
    ASSUME NEW d \in Seq(Char), NEW end \in 0 .. TextLen(d), NEW start \in 0 .. end
    PROVE  /\ LocalStart(d, start) \in 0 .. Len(d)
           /\ LocalEnd(d, start, end) \in LocalStart(d, start) .. Len(d)
<1> DEFINE J == ShownAt(d)
           n == Len(d)
           a == LocalStart(d, start)
           b == BehindShown(d, end)
<1>1. n \in Nat /\ \A i \in 0 .. n : ShownTo(d, i) = Count(J, i) /\ Count(J, i) \in Nat
  BY ShownToIs, CountNat
<1>2. end \in 0 .. Count(J, n) /\ end \in Nat /\ start \in Nat
  BY <1>1 DEF TextLen
<1> HIDE DEF J
<1>3. a \in 0 .. n /\ Count(J, a) <= start
  <2> DEFINE T == {i \in 0 .. n : ShownTo(d, i) <= start}
  <2>1. 0 \in T
    BY <1>1, <1>2, CountZero
  <2>2. T \in SUBSET (0 .. n) /\ T # {}
    BY <2>1
  <2> HIDE DEF T
  <2>3. Max(T) \in T
    BY <1>1, <2>2, MaxIs
  <2>4. a = Max(T)
    BY DEF LocalStart, T
  <2> HIDE DEF a
  <2> QED
    BY <1>1, <2>3, <2>4 DEF T
<1>4. b \in 0 .. n /\ Count(J, b) = end
  <2> DEFINE T == {i \in 0 .. n : ShownTo(d, i) = end}
  <2>0. PICK i \in 0 .. n : Count(J, i) = end
    BY <1>1, <1>2, CountReaches
  <2>1. T \in SUBSET Nat /\ T # {}
    BY <1>1, <2>0
  <2> HIDE DEF T
  <2>2. Min(T) \in T
    BY <2>1, MinIs
  <2>3. b = Min(T)
    BY DEF T, BehindShown
  <2> HIDE DEF b
  <2> QED
    BY <1>1, <2>2, <2>3 DEF T
<1>5. CASE start = end
  BY <1>1, <1>3, <1>5 DEF LocalEnd
<1>6. CASE start # end
  <2>1. LocalEnd(d, start, end) = b
    BY <1>6 DEF LocalEnd
  <2> HIDE DEF a, b
  <2>2. b >= a
    <3> SUFFICES ASSUME b < a PROVE FALSE
      BY <1>1, <1>3, <1>4
    <3>1. Count(J, b) <= Count(J, a)
      BY <1>1, <1>3, <1>4, CountMonotone
    <3> QED
      BY <1>1, <1>2, <1>3, <1>4, <1>6, <3>1
  <2> QED
    BY <1>1, <1>3, <1>4, <2>1, <2>2 DEF a
<1> QED
  BY <1>5, <1>6

\* An edit of one's own text.
LEMMA EditStep ==
    ASSUME BufferInv, NEW r \in Replica, NEW end \in 0 .. TextLen(fragments[r]),
           NEW start \in 0 .. end, NEW len \in InsertLens, NEW grouped \in BOOLEAN,
           Edit(r, start, end, len, grouped)
    PROVE  BufferInv'
<1> DEFINE doc == fragments[r]
           edit == [kind |-> "edit", version |-> version[r], len |-> len,
                    stamp |-> [value |-> lamport_clock[r] + 1, replica |-> r],
                    from |-> LocalStart(doc, start),
                    to |-> LocalEnd(doc, start, end)]
           entry == [id |-> lamport_clock[r], start |-> version[r],
                     edits |-> {edit.stamp}, text |-> Text(doc)]
           us == IF grouped THEN GroupTrailing(undo_stack[r], edit.stamp)
                            ELSE Append(undo_stack[r], entry)
           k == lamport_clock[r] + 2
           d == ApplyLocalEdit(doc, edit)
           S == operations
           R == operations \cup {edit}
           w == Observe(version[r], edit.stamp)
<1>1. /\ edit.kind = "edit" /\ edit.version = version[r] /\ edit.len = len
      /\ edit.stamp = [value |-> lamport_clock[r] + 1, replica |-> r]
      /\ edit.stamp.value = lamport_clock[r] + 1 /\ edit.stamp.replica = r
      /\ edit.from = LocalStart(doc, start) /\ edit.to = LocalEnd(doc, start, end)
  OBVIOUS
<1>2. /\ entry.edits = {edit.stamp} /\ "edits" \in DOMAIN entry
  OBVIOUS
<1>3. ReplicaSound(r) /\ Functions
  BY DEF BufferInv
<1>4. PICK O, X : OpsSound(S, O, X) /\ CopySound(S, O, X, Copy(r))
  BY DEF BufferInv, WorldSound
<1>5. /\ VersionSound(S, version[r]) /\ version[r] \in [Author -> Nat]
      /\ doc \in Seq(Char) /\ Len(doc) \in Nat /\ lamport_clock[r] \in Nat
      /\ \A q \in Author : version[r][q] < lamport_clock[r]
  BY <1>4, CopyIs
<1>6. /\ edit.from \in 0 .. Len(doc) /\ edit.to \in edit.from .. Len(doc)
  BY <1>1, <1>5, LocalPlace
<1>7. edit.stamp \in Stamp /\ edit.len \in Nat
  BY <1>1, <1>5, StampFacts, BufferAssumption DEF Stamp
<1>8. /\ fragments' = [fragments EXCEPT ![r] = d]
      /\ version' = [version EXCEPT ![r] = Observe(@, edit.stamp)]
      /\ lamport_clock' = [lamport_clock EXCEPT ![r] = k]
      /\ undo_stack' = [undo_stack EXCEPT ![r] = us]
      /\ redo_stack' = [redo_stack EXCEPT ![r] = <<>>]
      /\ operations' = R
      /\ undo_map' = undo_map /\ deferred_ops' = deferred_ops
      /\ CanMake /\ (grouped => undo_stack[r] # <<>>)
  BY DEF Edit
<1> HIDE DEF edit, entry
<1>9. undo_map' = [undo_map EXCEPT ![r] = undo_map[r]]
  BY <1>3, <1>8, Zenon DEF Functions
<1>10. Makes(r, edit, d, undo_map[r], k, us, <<>>)
  <2> HIDE DEF d, us
  <2>1. edit.stamp.value >= lamport_clock[r] /\ k \in Nat /\ k > edit.stamp.value
    BY <1>1, <1>5
  <2> QED
    BY <1>1, <1>7, <1>8, <1>9, <2>1 DEF Makes
<1>11. Fresh(S, edit) /\ OwnOp(S, edit, Copy(r))
  <2>1. \A p \in S : p.stamp \in Stamp
    BY <1>4, OpFacts
  <2>2. ASSUME NEW p \in S, p.stamp.replica = r PROVE p.stamp.value < edit.stamp.value
    <3>1. Observed(version[r], p.stamp) /\ p.stamp.value \in Nat /\ r \in Author
      BY <1>3, <2>1, <2>2, StampFacts DEF ReplicaSound
    <3>2. version[r][r] \in Nat /\ version[r][r] >= p.stamp.value
          /\ version[r][r] < lamport_clock[r]
      BY <1>5, <2>2, <3>1 DEF Observed
    <3> QED
      BY <1>1, <1>5, <3>1, <3>2
  <2>3. /\ edit.stamp.value > 0 /\ (BaseLen > 0 => edit.stamp.value > 1)
        /\ edit.stamp.value >= lamport_clock[r]
    BY <1>1, <1>3, <1>5 DEF ReplicaSound
  <2>4. Fresh(S, edit)
    BY <1>1, <1>7, <2>2, <2>3 DEF Fresh
  <2>5. Copy(r).version = version[r] /\ Copy(r).clock = lamport_clock[r]
    BY DEF Copy
  <2>6. \A p \in S : p.stamp.replica = edit.stamp.replica => Observed(version[r], p.stamp)
    BY <1>1, <1>3 DEF ReplicaSound
  <2> QED
    BY <1>1, <2>3, <2>4, <2>5, <2>6 DEF OwnOp
<1>12. ASSUME NEW P, NEW Z, OpsSound(S, P, Z), CopySound(S, P, Z, Copy(r))
       PROVE  AfterMaking(S, P, Z, edit, Copy(r), d, undo_map[r])
  <2>1. Copy(r).fragments = doc /\ Copy(r).undos = undo_map[r]
    BY DEF Copy
  <2>2. AfterMaking(S, P, Z, edit, Copy(r), ApplyLocalEdit(Copy(r).fragments, edit), Copy(r).undos)
    BY <1>1, <1>6, <1>7, <1>11, <1>12, <2>1, EditMade
  <2> QED
    BY <2>1, <2>2
<1>13. /\ w \in [Author -> Nat] /\ ObservedAll(w, version[r]) /\ Observed(w, edit.stamp)
  BY <1>5, <1>7, ObserveMore
<1> HIDE DEF w, R, us, d
<1>14. edit \in R /\ S \subseteq R
  BY DEF R
<1>15. StackSound(R, us, w)
  <2>1. StackSound(R, undo_stack[r], w)
    <3>1. StackSound(S, undo_stack[r], version[r])
      BY <1>3 DEF ReplicaSound
    <3> QED
      BY <1>4, <1>5, <1>13, <1>14, <3>1, GrowStack
  <2>2. CASE grouped
    <3>1. StackSound(R, GroupTrailing(undo_stack[r], edit.stamp), w)
      BY <1>1, <1>8, <1>13, <1>14, <2>1, <2>2, GroupSound
    <3> QED
      BY <2>2, <3>1 DEF us
  <2>3. CASE ~grouped
    <3>1. EntrySound(R, entry, w)
      BY <1>1, <1>2, <1>13, <1>14 DEF EntrySound
    <3>2. StackSound(R, Append(undo_stack[r], entry), w)
      BY <2>1, <3>1, PushSound
    <3> QED
      BY <2>3, <3>2 DEF us
  <2> QED
    BY <2>2, <2>3
<1>16. StackSound(R, <<>>, w)
  BY NoTransactions
<1> QED
  BY <1>10, <1>12, <1>15, <1>16, LocalGood DEF R, w

\* Undoing a transaction, and bringing it back.
LEMMA UndoOrRedoStep ==
    ASSUME BufferInv, NEW r \in Replica, NEW entry, EntrySound(operations, entry, version[r]),
           UndoOrRedo(r, entry), NEW us, NEW rs,
           undo_stack' = [undo_stack EXCEPT ![r] = us],
           redo_stack' = [redo_stack EXCEPT ![r] = rs],
           StackSound(operations, us, version[r]), StackSound(operations, rs, version[r])
    PROVE  BufferInv'
<1> DEFINE doc == fragments[r]
           undo == [kind |-> "undo", version |-> version[r],
                    stamp |-> [value |-> lamport_clock[r], replica |-> r],
                    counts |-> [e \in entry.edits |-> UndoCount(undo_map[r], e) + 1]]
           U == undo_map[r] \cup UndoEntries(undo)
           d == ApplyUndo(doc, entry.edits, U)
           k == lamport_clock[r] + 1
           S == operations
           R == operations \cup {undo}
           w == Observe(version[r], undo.stamp)
<1>1. /\ undo.kind = "undo" /\ undo.version = version[r]
      /\ undo.stamp = [value |-> lamport_clock[r], replica |-> r]
      /\ undo.stamp.value = lamport_clock[r] /\ undo.stamp.replica = r
      /\ undo.counts = [e \in entry.edits |-> UndoCount(undo_map[r], e) + 1]
  OBVIOUS
<1>3. ReplicaSound(r) /\ Functions
  BY DEF BufferInv
<1>4. PICK O, X : OpsSound(S, O, X) /\ CopySound(S, O, X, Copy(r))
  BY DEF BufferInv, WorldSound
<1>5. /\ VersionSound(S, version[r]) /\ version[r] \in [Author -> Nat]
      /\ doc \in Seq(Char) /\ Len(doc) \in Nat /\ lamport_clock[r] \in Nat
      /\ \A q \in Author : version[r][q] < lamport_clock[r]
  BY <1>4, CopyIs
<1>7. undo.stamp \in Stamp
  BY <1>1, <1>5, StampFacts DEF Stamp
<1>8. /\ fragments' = [fragments EXCEPT ![r] = ApplyUndo(@, entry.edits, U)]
      /\ version' = [version EXCEPT ![r] = Observe(@, undo.stamp)]
      /\ lamport_clock' = [lamport_clock EXCEPT ![r] = k]
      /\ operations' = R
      /\ undo_map' = [undo_map EXCEPT ![r] = U] /\ deferred_ops' = deferred_ops
      /\ CanMake
  BY DEF UndoOrRedo
<1> HIDE DEF undo
<1>9. fragments' = [fragments EXCEPT ![r] = d]
  BY <1>8
<1>10. Makes(r, undo, d, U, k, us, rs)
  <2> HIDE DEF d, U
  <2>1. undo.stamp.value >= lamport_clock[r] /\ k \in Nat /\ k > undo.stamp.value
    BY <1>1, <1>5
  <2> QED
    BY <1>1, <1>7, <1>8, <1>9, <2>1 DEF Makes
<1>11. Fresh(S, undo) /\ OwnOp(S, undo, Copy(r))
  <2>1. \A p \in S : p.stamp \in Stamp
    BY <1>4, OpFacts
  <2>2. ASSUME NEW p \in S, p.stamp.replica = r PROVE p.stamp.value < undo.stamp.value
    <3>1. Observed(version[r], p.stamp) /\ p.stamp.value \in Nat /\ r \in Author
      BY <1>3, <2>1, <2>2, StampFacts DEF ReplicaSound
    <3>2. version[r][r] \in Nat /\ version[r][r] >= p.stamp.value
          /\ version[r][r] < lamport_clock[r]
      BY <1>5, <2>2, <3>1 DEF Observed
    <3> QED
      BY <1>1, <1>5, <3>1, <3>2
  <2>3. /\ undo.stamp.value > 0 /\ (BaseLen > 0 => undo.stamp.value > 1)
        /\ undo.stamp.value >= lamport_clock[r]
    BY <1>1, <1>3, <1>5 DEF ReplicaSound
  <2>4. Fresh(S, undo)
    BY <1>1, <1>7, <2>2, <2>3 DEF Fresh
  <2>5. Copy(r).version = version[r] /\ Copy(r).clock = lamport_clock[r]
    BY DEF Copy
  <2>6. \A p \in S : p.stamp.replica = undo.stamp.replica => Observed(version[r], p.stamp)
    BY <1>1, <1>3 DEF ReplicaSound
  <2> QED
    BY <1>1, <2>3, <2>4, <2>5, <2>6 DEF OwnOp
<1>12. ASSUME NEW P, NEW Z, OpsSound(S, P, Z), CopySound(S, P, Z, Copy(r))
       PROVE  AfterMaking(S, P, Z, undo, Copy(r), d, U)
  <2>1. /\ Copy(r).fragments = doc /\ Copy(r).undos = undo_map[r]
        /\ Copy(r).version = version[r]
    BY DEF Copy
  <2>2. \A e \in entry.edits : \E p \in S : p.kind = "edit" /\ p.stamp = e
                                               /\ Observed(Copy(r).version, e)
    BY <2>1 DEF EntrySound
  <2>3. undo.counts = [e \in entry.edits |-> UndoCount(Copy(r).undos, e) + 1]
    BY <1>1, <2>1
  <2>4. AfterMaking(S, P, Z, undo, Copy(r),
              ApplyUndo(Copy(r).fragments, entry.edits, Copy(r).undos \cup UndoEntries(undo)),
              Copy(r).undos \cup UndoEntries(undo))
    BY <1>1, <1>11, <1>12, <2>2, <2>3, UndoMade
  <2> QED
    BY <2>1, <2>4
<1>13. w \in [Author -> Nat] /\ ObservedAll(w, version[r])
  BY <1>5, <1>7, ObserveMore
<1> HIDE DEF w, R, U, d
<1>14. S \subseteq R
  BY DEF R
<1>15. StackSound(R, us, w) /\ StackSound(R, rs, w)
  BY <1>4, <1>5, <1>13, <1>14, GrowStack
<1> QED
  BY <1>10, <1>12, <1>15, LocalGood DEF R, w

LEMMA UndoStep ==
    ASSUME BufferInv, NEW r \in Replica, Undo(r) \/ Redo(r)
    PROVE  BufferInv'
<1> DEFINE us == undo_stack[r]
           rs == redo_stack[r]
<1>1. StackSound(operations, us, version[r]) /\ StackSound(operations, rs, version[r])
  BY DEF BufferInv, ReplicaSound
<1>2. CASE Undo(r)
  <2>1. us # <<>> /\ UndoOrRedo(r, Last(us))
        /\ undo_stack' = [undo_stack EXCEPT ![r] = Front(us)]
        /\ redo_stack' = [redo_stack EXCEPT ![r] = Append(rs, Last(us))]
    BY <1>2 DEF Undo
  <2> HIDE DEF us, rs
  <2>2. StackSound(operations, Front(us), version[r]) /\ EntrySound(operations, Last(us), version[r])
    BY <1>1, <2>1, PopSound
  <2>3. StackSound(operations, Append(rs, Last(us)), version[r])
    BY <1>1, <2>2, PushSound
  <2> QED
    BY <2>1, <2>2, <2>3, UndoOrRedoStep
<1>3. CASE Redo(r)
  <2>1. rs # <<>> /\ UndoOrRedo(r, Last(rs))
        /\ redo_stack' = [redo_stack EXCEPT ![r] = Front(rs)]
        /\ undo_stack' = [undo_stack EXCEPT ![r] = Append(us, Last(rs))]
    BY <1>3 DEF Redo
  <2> HIDE DEF us, rs
  <2>2. StackSound(operations, Front(rs), version[r]) /\ EntrySound(operations, Last(rs), version[r])
    BY <1>1, <2>1, PopSound
  <2>3. StackSound(operations, Append(us, Last(rs)), version[r])
    BY <1>1, <2>2, PushSound
  <2> QED
    BY <2>1, <2>2, <2>3, UndoOrRedoStep
<1> QED
  BY <1>2, <1>3

LEMMA BufferInvStays == BufferInv /\ [Next]_bufferVars => BufferInv'
<1> SUFFICES ASSUME BufferInv, [Next]_bufferVars PROVE BufferInv'
  OBVIOUS
<1>1. ASSUME NEW r \in Replica, NEW end \in 0 .. TextLen(fragments[r]), NEW start \in 0 .. end,
             NEW len \in InsertLens, NEW grouped \in BOOLEAN,
             Edit(r, start, end, len, grouped)
      PROVE  BufferInv'
  BY <1>1, EditStep
<1>2. ASSUME NEW r \in Replica, Undo(r) \/ Redo(r) PROVE BufferInv'
  BY <1>2, UndoStep
<1>3. ASSUME NEW r \in Replica, NEW n \in 1 .. BatchLen, NEW ops \in [1 .. n -> operations],
             Deliver(r, ops)
      PROVE  BufferInv'
  <2>1. n \in Nat
    BY BufferAssumption
  <2> QED
    BY <1>3, <2>1, DeliverGood
<1>4. CASE UNCHANGED bufferVars
  BY <1>4 DEF bufferVars, BufferInv, Functions, WorldSound, ReplicaSound, Copy
<1> QED
  BY <1>1, <1>2, <1>3, <1>4 DEF Next

-----------------------------------------------------------------------------
(* What the invariant says                                                 *)

\* Documents of copies with one version are the same.
LEMMA SameDocument ==
    ASSUME NEW S, NEW O, NEW X, OpsSound(S, O, X), NEW v, VersionSound(S, v),
           NEW d, DocSound(S, O, X, d, v), NEW e, DocSound(S, O, X, e, v)
    PROVE  d = e
<1>1. ObservedAll(v, v)
  BY DEF ObservedAll, VersionSound
<1>2. /\ Len(d) \in Nat /\ Len(e) \in Nat /\ d \in Seq(Char) /\ e \in Seq(Char)
      /\ \A i \in 1 .. Len(d) : Observed(v, d[i].stamp)
      /\ \A i \in 1 .. Len(e) : Observed(v, e[i].stamp)
  BY DocFacts
<1>3. ASSUME NEW a, NEW b, DocSound(S, O, X, a, v), DocSound(S, O, X, b, v),
             NEW i \in 1 .. Len(a)
      PROVE  i \in 1 .. Len(b) /\ NameOf(a[i]) = NameOf(b[i])
  <2>1. Observed(v, a[i].stamp)
    BY <1>3, DocFacts
  <2>2. PICK j \in 1 .. Len(b) : NameOf(a[i]) = NameOf(b[j])
    BY <1>1, <1>3, <2>1, SeenIs
  <2>3. SeenTo(a, i, v) = j
    BY <1>1, <1>3, <2>2, RankIs
  <2>4. SeenTo(a, i, v) = i
    BY <1>1, <1>3, RankIs
  <2> QED
    BY <2>2, <2>3, <2>4
<1>4. Len(d) = Len(e)
  <2>1. Len(d) > 0 => Len(d) \in 1 .. Len(e)
    BY <1>2, <1>3
  <2>2. Len(e) > 0 => Len(e) \in 1 .. Len(d)
    BY <1>2, <1>3
  <2> QED
    BY <1>2, <2>1, <2>2
<1>5. ASSUME NEW i \in 1 .. Len(d) PROVE d[i] = e[i]
  <2>1. NameOf(d[i]) = NameOf(e[i])
    BY <1>3
  <2>2. d[i] \in Char /\ e[i] \in Char
    BY <1>2, <1>4
  <2>3. d[i].stamp = e[i].stamp /\ d[i].offset = e[i].offset
    BY <2>1 DEF NameOf
  <2>4. /\ d[i].deletions = Deleters(S, v, X, NameOf(d[i]))
        /\ d[i].visible = IsVisible(d[i], SeenUndos(S, v))
        /\ e[i].deletions = Deleters(S, v, X, NameOf(e[i]))
        /\ e[i].visible = IsVisible(e[i], SeenUndos(S, v))
    BY <1>4, Zenon DEF DocSound
  <2>5. d[i].deletions = e[i].deletions
    BY <2>1, <2>4
  <2>6. IsVisible(d[i], SeenUndos(S, v)) = IsVisible(e[i], SeenUndos(S, v))
    BY <2>3, <2>5, Zenon DEF IsVisible
  <2>7. d[i].visible = e[i].visible
    BY <2>4, <2>6, Zenon
  <2> QED
    BY <2>2, <2>3, <2>5, <2>7 DEF Char
<1> QED
  BY <1>2, <1>4, <1>5

\* Those who have observed an edit have all its characters.
LEMMA EditIsThere ==
    ASSUME NEW S, NEW O, NEW X, OpsSound(S, O, X), NEW v, VersionSound(S, v),
           NEW d, DocSound(S, O, X, d, v),
           NEW op \in S, op.kind = "edit", Observed(v, op.stamp)
    PROVE  Cardinality({i \in DOMAIN d : d[i].stamp = op.stamp}) = op.len
<1> DEFINE T == {i \in DOMAIN d : d[i].stamp = op.stamp}
           n == op.len
           f == [k \in 1 .. n |-> CHOOSE i \in T : NameOf(d[i]) = <<op.stamp, k>>]
<1>1. /\ n \in Nat /\ op.stamp \in Stamp /\ op.stamp.value \in Nat
      /\ \A p \in S : p.stamp = op.stamp => p = op
  BY OpFacts DEF EditSound
<1>2. /\ Len(d) \in Nat /\ DOMAIN d = 1 .. Len(d)
      /\ \A i \in 1 .. Len(d) : /\ NameOf(d[i]) \in Made(S, v) /\ NameOf(d[i])[1] = d[i].stamp
                                /\ NameOf(d[i]) \in Written(S)
      /\ \A i, j \in 1 .. Len(d) : NameOf(d[i]) = NameOf(d[j]) => i = j
      /\ \A x \in Made(S, v) : \E i \in 1 .. Len(d) : NameOf(d[i]) = x
  BY DocFacts
<1>3. ASSUME NEW k \in 1 .. n PROVE \E i \in T : NameOf(d[i]) = <<op.stamp, k>>
  <2>1. <<op.stamp, k>> \in Made(S, v)
    BY <1>1 DEF Made, Written
  <2>2. PICK i \in 1 .. Len(d) : NameOf(d[i]) = <<op.stamp, k>>
    BY <1>2, <2>1
  <2> QED
    BY <1>2, <2>2
<1>4. f \in [1 .. n -> T] /\ \A k \in 1 .. n : NameOf(d[f[k]]) = <<op.stamp, k>>
  BY <1>3
<1>5. BaseLen > 0 => op.stamp # Base
  <2>1. VersionSound(S, op.version) /\ op.version[LOCAL_ID] < op.stamp.value
        /\ op.version[LOCAL_ID] \in Nat
    BY OpFacts, StampFacts
  <2>2. BaseLen > 0 => op.version[LOCAL_ID] >= 1
    BY <2>1 DEF VersionSound, Observed, Base
  <2> QED
    BY <1>1, <2>1, <2>2 DEF Base
<1>6. ASSUME NEW i \in T PROVE \E k \in 1 .. n : f[k] = i
  <2> DEFINE x == NameOf(d[i])
  <2>1. i \in 1 .. Len(d) /\ x[1] = op.stamp /\ x \in Written(S)
    BY <1>2
  <2>2. x = <<op.stamp, x[2]>> /\ x[2] \in Nat /\ x[2] >= 1
    BY <2>1, WrittenFacts
  <2>3. \/ x[1] = Base /\ x[2] <= BaseLen
        \/ \E p \in S : p.kind = "edit" /\ p.stamp = x[1] /\ x[2] <= p.len
    BY <2>1 DEF Written
  <2>4. BaseLen \in Nat
    BY BufferAssumption
  <2> HIDE DEF x, f, T
  <2>5. x[2] <= n
    BY <1>1, <1>5, <2>1, <2>2, <2>3, <2>4
  <2>6. x[2] \in 1 .. n
    BY <1>1, <2>2, <2>5
  <2>7. NameOf(d[f[x[2]]]) = x /\ f[x[2]] \in T
    BY <1>4, <2>2, <2>6
  <2> QED
    BY <1>2, <2>1, <2>6, <2>7 DEF x, T
<1>7. ASSUME NEW i \in 1 .. n, NEW j \in 1 .. n, f[i] = f[j] PROVE i = j
  <2> HIDE DEF f
  <2>1. <<op.stamp, i>> = <<op.stamp, j>>
    BY <1>4, <1>7
  <2> QED
    BY <2>1
<1> HIDE DEF f, T
<1>8. Cardinality(T) = n
  <2>1. \A i, j \in 1 .. n : f[i] = f[j] => i = j
    BY <1>7
  <2>2. \A i \in T : \E k \in 1 .. n : f[k] = i
    BY <1>6
  <2> HIDE DEF n
  <2>3. n \in Nat /\ f \in [1 .. n -> T]
    BY <1>1, <1>4 DEF n
  <2> QED
    BY <2>1, <2>2, <2>3, Listed
<1> QED
  BY <1>8 DEF T

LEMMA InvSound == BufferInv => CopiesSound
<1> SUFFICES ASSUME BufferInv PROVE CopiesSound
  OBVIOUS
<1> DEFINE S == operations
<1>1. PICK O, X : /\ OpsSound(S, O, X)
                  /\ \A q \in Replica : CopySound(S, O, X, Copy(q))
  BY DEF BufferInv, WorldSound
<1>2. ASSUME NEW r \in Replica
      PROVE  /\ VersionSound(S, version[r]) /\ version[r] \in [Author -> Nat]
             /\ DocSound(S, O, X, fragments[r], version[r])
             /\ fragments[r] \in Seq(Char)
             /\ undo_map[r] = SeenUndos(S, version[r])
             /\ lamport_clock[r] \in Nat /\ deferred_ops[r] \in SUBSET S
  BY <1>1, CopyIs
<1>3. \A r \in Replica : ReplicaSound(r)
  BY DEF BufferInv
<1>4. TypeOK
  <2>1. ASSUME NEW r \in Replica, NEW i \in DOMAIN fragments[r]
        PROVE  /\ fragments[r][i].stamp \in Stamp
               /\ fragments[r][i].deletions \subseteq Stamp
               /\ fragments[r][i].visible \in BOOLEAN
    <3>1. fragments[r][i] \in Char
      BY <1>2
    <3> QED
      BY <3>1 DEF Char
  <2>2. ASSUME NEW r \in Replica, NEW u \in undo_map[r] PROVE u.count \in 1 .. MaxOps
    <3>1. Cardinality(S) \in Nat /\ u.count \in 1 .. Cardinality(S)
      BY <1>1, <1>2, UndoCountIs
    <3>2. Cardinality(S) <= MaxOps /\ MaxOps \in Nat
      BY BufferAssumption DEF BufferInv
    <3> QED
      BY <3>1, <3>2
  <2>3. \A r \in Replica : lamport_clock[r] \in Nat \ {0}
    BY <1>2, <1>3 DEF ReplicaSound
  <2> QED
    BY <1>2, <2>1, <2>2, <2>3 DEF TypeOK
<1>5. VisibleIsDerived
  <2>1. ASSUME NEW r \in Replica, NEW i \in DOMAIN fragments[r]
        PROVE  fragments[r][i].visible = IsVisible(fragments[r][i], undo_map[r])
    <3>1. i \in 1 .. Len(fragments[r])
      BY <1>2
    <3>2. fragments[r][i].visible = IsVisible(fragments[r][i], SeenUndos(S, version[r]))
      BY <1>2, <3>1, Zenon DEF DocSound
    <3> QED
      BY <1>2, <3>2
  <2> QED
    BY <2>1, Zenon DEF VisibleIsDerived
<1>6. ObservedIsApplied
  <2>1. ASSUME NEW r \in Replica, NEW op \in S, Observed(version[r], op.stamp)
        PROVE  /\ ObservedAll(version[r], op.version)
               /\ op.kind = "edit" =>
                     Cardinality({i \in DOMAIN fragments[r] :
                                    fragments[r][i].stamp = op.stamp}) = op.len
               /\ op.kind = "undo" => UndoEntries(op) \subseteq undo_map[r]
    <3>1. ObservedAll(version[r], op.version)
      BY <1>2, <2>1 DEF VersionSound
    <3>2. ASSUME op.kind = "edit"
          PROVE  Cardinality({i \in DOMAIN fragments[r] :
                                fragments[r][i].stamp = op.stamp}) = op.len
      BY <1>1, <1>2, <2>1, <3>2, EditIsThere
    <3>3. ASSUME op.kind = "undo" PROVE UndoEntries(op) \subseteq undo_map[r]
      BY <1>2, <2>1, <3>3 DEF SeenUndos
    <3> QED
      BY <3>1, <3>2, <3>3
  <2> QED
    BY <2>1 DEF ObservedIsApplied
<1>7. DeferredAreMissing
  BY <1>3 DEF ReplicaSound, DeferredAreMissing
<1> QED
  BY <1>4, <1>5, <1>6, <1>7 DEF CopiesSound

LEMMA InvConverged == BufferInv => Converged
<1> SUFFICES ASSUME BufferInv, NEW r \in Replica, NEW q \in Replica, version[r] = version[q]
             PROVE  fragments[r] = fragments[q] /\ undo_map[r] = undo_map[q]
  BY DEF Converged
<1> DEFINE S == operations
<1>1. PICK O, X : /\ OpsSound(S, O, X)
                  /\ \A p \in Replica : CopySound(S, O, X, Copy(p))
  BY DEF BufferInv, WorldSound
<1>2. ASSUME NEW p \in Replica
      PROVE  /\ VersionSound(S, version[p]) /\ DocSound(S, O, X, fragments[p], version[p])
             /\ undo_map[p] = SeenUndos(S, version[p])
  BY <1>1, CopyIs
<1>3. undo_map[r] = undo_map[q]
  BY <1>2
<1>4. fragments[r] = fragments[q]
  BY <1>1, <1>2, SameDocument
<1> QED
  BY <1>3, <1>4

\* Every copy is, at every moment, what the operations it has observed make of
\* it, however they reached it: nothing counts as observed that was not applied,
\* what is shown is what the edits and undos say, and what is put off could not
\* have been applied (apply_ops, flush_deferred_ops, apply_remote_edit).
THEOREM CopiesStaySound == Spec => []CopiesSound
<1>1. Spec => []BufferInv
  BY InitGood, BufferInvStays, PTL DEF Spec
<1> QED
  BY <1>1, InvSound, PTL

\* Copies that have observed the same operations hold the same document, for
\* any number of replicas and operations, in whatever order, how often and in
\* which batches the operations reached them (apply_remote_edit, apply_undo).
THEOREM CopiesConverge == Spec => []Converged
<1>1. Spec => []BufferInv
  BY InitGood, BufferInvStays, PTL DEF Spec
<1> QED
  BY <1>1, InvConverged, PTL

-----------------------------------------------------------------------------
(* What undoing gives back.  The text of a document is its members of a set  *)
(* of places, in order.                                                     *)

PlaceOf(J, m, k) == Min({i \in 0 .. m : Count(J, i) = k})
Listing(d, J) == [k \in 1 .. Count(J, Len(d)) |-> NameOf(d[PlaceOf(J, Len(d), k)])]

\* The k-th member of J is the place where the count reaches k.
LEMMA PlaceIs ==
    ASSUME NEW J, NEW m \in Nat, NEW k \in 1 .. Count(J, m)
    PROVE  /\ PlaceOf(J, m, k) \in 1 .. m /\ PlaceOf(J, m, k) \in J
           /\ Count(J, PlaceOf(J, m, k)) = k
<1> DEFINE T == {i \in 0 .. m : Count(J, i) = k}
           p == Min(T)
<1>1. Count(J, m) \in Nat /\ k \in Nat /\ k >= 1 /\ k \in 0 .. Count(J, m)
  BY CountNat
<1>2. T \in SUBSET Nat /\ T # {}
  BY <1>1, CountReaches
<1> HIDE DEF T
<1>3. p \in T /\ \A i \in T : p <= i
  BY <1>2, MinIs
<1>4. p \in 0 .. m /\ Count(J, p) = k
  BY <1>3 DEF T
<1>5. p # 0
  BY <1>1, <1>4, CountZero
<1>6. p - 1 \in Nat /\ (p - 1) + 1 = p /\ p - 1 \in 0 .. m
  BY <1>4, <1>5
<1>7. p \in J
  <2>1. Count(J, p - 1) # k
    <3> SUFFICES ASSUME Count(J, p - 1) = k PROVE FALSE
      OBVIOUS
    <3>1. p - 1 \in T
      BY <1>6 DEF T
    <3> QED
      BY <1>3, <1>6, <3>1
  <2> HIDE DEF p
  <2> QED
    BY <1>4, <1>6, <2>1, CountStep
<1>8. p = PlaceOf(J, m, k)
  BY DEF PlaceOf, T
<1> HIDE DEF p
<1> QED
  BY <1>4, <1>5, <1>7, <1>8

LEMMA PlaceUnique ==
    ASSUME NEW J, NEW m \in Nat, NEW j \in 1 .. m, j \in J
    PROVE  PlaceOf(J, m, Count(J, j)) = j /\ Count(J, j) \in 1 .. Count(J, m)
<1>1. /\ Count(J, j) \in Nat /\ Count(J, m) \in Nat /\ Count(J, j) <= Count(J, m)
      /\ Count(J, 0) = 0 /\ Count(J, 0) < Count(J, j)
  BY CountNat, CountMonotone, CountStrict, CountZero
<1>2. Count(J, j) \in 1 .. Count(J, m)
  BY <1>1
<1> DEFINE p == PlaceOf(J, m, Count(J, j))
<1>3. p \in 1 .. m /\ p \in J /\ Count(J, p) = Count(J, j)
  BY <1>2, PlaceIs
<1> HIDE DEF p
<1>4. ~(p < j)
  BY <1>1, <1>3, CountStrict
<1>5. ~(j < p)
  BY <1>1, <1>3, CountStrict
<1> QED
  BY <1>2, <1>3, <1>4, <1>5 DEF p

LEMMA SameCount ==
    ASSUME NEW J, NEW K, NEW m \in Nat, \A i \in 1 .. m : i \in J <=> i \in K,
           NEW i \in 0 .. m
    PROVE  Count(J, i) = Count(K, i)
<1>1. {j \in 1 .. i : j \in J} = {j \in 1 .. i : j \in K}
  OBVIOUS
<1> QED
  BY <1>1 DEF Count

\* e has n characters more than d behind place f, and of the others the places in
\* K are those that were in J.
SameButFor(d, e, f, n, J, K) ==
    /\ Len(d) \in Nat /\ n \in Nat /\ f \in 0 .. Len(d) /\ Len(e) = Len(d) + n
    /\ \A i \in 1 .. f : NameOf(e[i]) = NameOf(d[i]) /\ (i \in K <=> i \in J)
    /\ \A i \in 1 .. n : f + i \notin K
    /\ \A i \in f + 1 .. Len(d) : /\ NameOf(e[i + n]) = NameOf(d[i])
                                  /\ i + n \in K <=> i \in J

LEMMA SameListing ==
    ASSUME NEW d, NEW e, NEW f, NEW n, NEW J, NEW K, SameButFor(d, e, f, n, J, K)
    PROVE  Listing(e, K) = Listing(d, J)
<1> DEFINE m == Len(d)
           at(i) == IF i <= f THEN i ELSE i + n
<1>0. /\ m \in Nat /\ f \in Nat /\ f <= m /\ n \in Nat /\ Len(e) = m + n /\ m + n \in Nat
      /\ \A i \in 1 .. f : NameOf(e[i]) = NameOf(d[i]) /\ (i \in K <=> i \in J)
      /\ \A i \in 1 .. n : f + i \notin K
      /\ \A i \in f + 1 .. m : NameOf(e[i + n]) = NameOf(d[i]) /\ (i + n \in K <=> i \in J)
  BY DEF SameButFor
<1> HIDE DEF m
<1>1. \A i \in 0 .. f : Count(K, i) = Count(J, i)
  <2>1. \A i \in 1 .. f : i \in K <=> i \in J
    BY <1>0
  <2> QED
    BY <1>0, <2>1, SameCount, ZenonT(40)
<1>2. \A i \in 0 .. n : Count(K, f + i) = Count(J, f)
  <2> DEFINE T == {i \in Nat : i <= n => Count(K, f + i) = Count(J, f)}
  <2>1. 0 \in T
    BY <1>0, <1>1
  <2>2. ASSUME NEW i \in Nat, i \in T PROVE i + 1 \in T
    <3>1. f + i \in Nat /\ (f + i) + 1 = f + (i + 1)
      BY <1>0
    <3>2. Count(K, f + (i + 1)) = IF f + (i + 1) \in K THEN Count(K, f + i) + 1
                                                        ELSE Count(K, f + i)
      BY <3>1, CountStep
    <3>3. i + 1 <= n => f + (i + 1) \notin K
      BY <1>0
    <3> QED
      BY <1>0, <2>2, <3>2, <3>3
  <2>3. Nat \subseteq T
    <3> HIDE DEF T
    <3> QED
      BY <2>1, <2>2, Induct
  <2>4. \A i \in 0 .. n : i \in T /\ i <= n
    <3> HIDE DEF T
    <3> QED
      BY <1>0, <2>3
  <2> QED
    BY <2>4
<1>3. \A i \in f .. m : Count(K, i + n) = Count(J, i)
  <2> DEFINE T == {i \in Nat : f + i <= m => Count(K, (f + i) + n) = Count(J, f + i)}
  <2>1. 0 \in T
    BY <1>0, <1>2
  <2>2. ASSUME NEW i \in Nat, i \in T PROVE i + 1 \in T
    <3> SUFFICES ASSUME f + (i + 1) <= m
                 PROVE  Count(K, (f + (i + 1)) + n) = Count(J, f + (i + 1))
      BY <2>2
    <3>1. /\ f + i \in Nat /\ (f + i) + 1 = f + (i + 1) /\ (f + i) + n \in Nat
          /\ ((f + i) + n) + 1 = (f + (i + 1)) + n /\ f + (i + 1) \in f + 1 .. m
          /\ f + i <= m
      BY <1>0
    <3>2. Count(K, (f + i) + n) = Count(J, f + i)
      BY <2>2, <3>1
    <3>3. (f + (i + 1)) + n \in K <=> f + (i + 1) \in J
      BY <1>0, <3>1
    <3>4. Count(J, f + (i + 1)) = IF f + (i + 1) \in J THEN Count(J, f + i) + 1
                                                        ELSE Count(J, f + i)
      BY <3>1, CountStep
    <3>5. Count(K, (f + (i + 1)) + n)
            = IF (f + (i + 1)) + n \in K THEN Count(K, (f + i) + n) + 1
                                         ELSE Count(K, (f + i) + n)
      BY <3>1, CountStep
    <3> QED
      BY <3>2, <3>3, <3>4, <3>5
  <2>3. Nat \subseteq T
    <3> HIDE DEF T
    <3> QED
      BY <2>1, <2>2, Induct
  <2> SUFFICES ASSUME NEW i \in f .. m PROVE Count(K, i + n) = Count(J, i)
    OBVIOUS
  <2>4. i - f \in Nat /\ f + (i - f) = i /\ i <= m
    BY <1>0
  <2>5. i - f \in T
    <3> HIDE DEF T
    <3> QED
      BY <2>3, <2>4
  <2> QED
    BY <2>4, <2>5
<1>4. ASSUME NEW i \in 1 .. m, i \in J
      PROVE  /\ at(i) \in 1 .. m + n /\ at(i) \in K /\ Count(K, at(i)) = Count(J, i)
             /\ NameOf(e[at(i)]) = NameOf(d[i])
  <2>1. CASE i <= f
    BY <1>0, <1>1, <1>4, <2>1
  <2>2. CASE ~(i <= f)
    BY <1>0, <1>3, <1>4, <2>2
  <2> QED
    BY <2>1, <2>2
<1>5. Count(K, m + n) = Count(J, m)
  BY <1>0, <1>3
<1> HIDE DEF at
<1>6. ASSUME NEW k \in 1 .. Count(J, m)
      PROVE  NameOf(e[PlaceOf(K, m + n, k)]) = NameOf(d[PlaceOf(J, m, k)])
  <2> DEFINE p == PlaceOf(J, m, k)
  <2>1. p \in 1 .. m /\ p \in J /\ Count(J, p) = k
    BY <1>0, PlaceIs
  <2> HIDE DEF p
  <2>2. /\ at(p) \in 1 .. m + n /\ at(p) \in K /\ Count(K, at(p)) = k
        /\ NameOf(e[at(p)]) = NameOf(d[p])
    BY <1>4, <2>1
  <2>3. PlaceOf(K, m + n, k) = at(p)
    BY <1>0, <2>2, PlaceUnique
  <2> QED
    BY <2>2, <2>3 DEF p
<1> QED
  BY <1>0, <1>5, <1>6 DEF Listing, m

\* The edits that are undone, and the text that would be shown if P were.
Undone(U) == {u.edit : u \in {x \in U : IsUndone(U, x.edit)}}
Kept(d, P) == {i \in Nat : d[i].stamp \notin P /\ d[i].deletions \subseteq P}
TextUnder(d, P) == Listing(d, Kept(d, P))

LEMMA UndoneIs ==
    ASSUME NEW U, NEW e
    PROVE  e \in Undone(U) <=> IsUndone(U, e)
<1>1. ASSUME \A u \in U : u.edit # e PROVE ~IsUndone(U, e)
  <2>1. {u.count : u \in {x \in U : x.edit = e}} = {}
    BY <1>1
  <2>2. {0} \cup {u.count : u \in {x \in U : x.edit = e}} = {0}
    BY <2>1
  <2>3. {0} \in SUBSET (0 .. 0) /\ {0} # {}
    OBVIOUS
  <2>4. Max({0}) \in {0}
    BY <2>3, MaxIs
  <2>5. UndoCount(U, e) = 0
    BY <2>2, <2>4 DEF UndoCount, Highest
  <2> QED
    BY <2>5 DEF IsUndone
<1> QED
  BY <1>1 DEF Undone

\* The text that is shown is the one the undone edits leave.
LEMMA TextIs ==
    ASSUME NEW d \in Seq(Char), NEW U,
           \A i \in 1 .. Len(d) : d[i].visible = IsVisible(d[i], U)
    PROVE  Text(d) = TextUnder(d, Undone(U))
<1> DEFINE m == Len(d)
           J == ShownAt(d)
           K == Kept(d, Undone(U))
<1>1. m \in Nat
  OBVIOUS
<1>2. \A i \in 0 .. m : ShownTo(d, i) = Count(J, i)
  BY <1>1, ShownToIs
<1>3. \A i \in 1 .. m : i \in J <=> i \in K
  <2> SUFFICES ASSUME NEW i \in 1 .. m PROVE i \in J <=> i \in K
    OBVIOUS
  <2>1. i \in J <=> IsVisible(d[i], U)
    BY DEF ShownAt
  <2>2. IsVisible(d[i], U) <=> /\ d[i].stamp \notin Undone(U)
                               /\ \A e \in d[i].deletions : e \in Undone(U)
    BY UndoneIs, Zenon DEF IsVisible
  <2> QED
    BY <2>1, <2>2 DEF Kept
<1>4. TextLen(d) = Count(J, m)
  BY <1>1, <1>2 DEF TextLen
<1>5. \A k : BehindShown(d, k) = PlaceOf(J, m, k)
  <2> SUFFICES ASSUME NEW k PROVE BehindShown(d, k) = PlaceOf(J, m, k)
    OBVIOUS
  <2>1. {i \in 0 .. m : ShownTo(d, i) = k} = {i \in 0 .. m : Count(J, i) = k}
    BY <1>2
  <2> QED
    BY <2>1 DEF BehindShown, PlaceOf
<1>6. Text(d) = Listing(d, J)
  <2> HIDE DEF J
  <2> QED
    BY <1>4, <1>5 DEF Text, Listing, NameOf
<1> HIDE DEF J, K
<1>8. \A i \in 0 .. m : Count(K, i) = Count(J, i)
  BY <1>1, <1>3, SameCount
<1>9. Listing(d, K) = Listing(d, J)
  <2>1. ASSUME NEW k \in 1 .. Count(J, m) PROVE PlaceOf(K, m, k) = PlaceOf(J, m, k)
    <3>1. {i \in 0 .. m : Count(K, i) = k} = {i \in 0 .. m : Count(J, i) = k}
      BY <1>8
    <3> QED
      BY <3>1 DEF PlaceOf
  <2>2. Count(K, m) = Count(J, m)
    BY <1>1, <1>8
  <2> QED
    BY <2>1, <2>2 DEF Listing
<1> QED
  BY <1>6, <1>9 DEF TextUnder, J, K

Unheard(d, x) == \A i \in 1 .. Len(d) : d[i].stamp # x /\ x \notin d[i].deletions

\* If an edit is undone it leaves the text as it was.
LEMMA EditUnder ==
    ASSUME NEW d \in Seq(Char), NEW edit, edit.stamp \in Stamp, edit.len \in Nat,
           NEW f \in 0 .. Len(d), NEW t \in f .. Len(d), NEW shown, NEW P,
           Unheard(d, edit.stamp)
    PROVE  TextUnder(Replace(d, f, t, edit, shown), P \cup {edit.stamp}) = TextUnder(d, P)
<1> DEFINE e == Replace(d, f, t, edit, shown)
           n == edit.len
           m == Len(d)
           x == edit.stamp
           J == Kept(d, P)
           K == Kept(e, P \cup {x})
<1> HIDE DEF J, K
<1>1. /\ Len(e) = Len(d) + n
      /\ \A i \in 1 .. f : e[i] = d[i]
      /\ \A i \in 1 .. n : e[f + i] = [stamp |-> edit.stamp, offset |-> i,
                                       deletions |-> {}, visible |-> TRUE]
      /\ \A i \in f + 1 .. Len(d) :
            e[i + n] = IF i <= t /\ i \in shown THEN Delete(d[i], edit.stamp) ELSE d[i]
  <2>1. Len(e) = Len(d) + n
    BY ReplaceIs
  <2>2. \A i \in 1 .. f : e[i] = d[i]
    BY ReplaceIs
  <2>3. \A i \in 1 .. n : e[f + i] = [stamp |-> edit.stamp, offset |-> i,
                                      deletions |-> {}, visible |-> TRUE]
    BY ReplaceIs
  <2>4. \A i \in f + 1 .. Len(d) :
            e[i + n] = IF i <= t /\ i \in shown THEN Delete(d[i], edit.stamp) ELSE d[i]
    BY ReplaceIs
  <2> HIDE DEF e, n
  <2> QED
    BY <2>1, <2>2, <2>3, <2>4
<1>2. m \in Nat /\ n \in Nat /\ f \in 0 .. m /\ f \in Nat /\ \A i \in 1 .. m : d[i] \in Char
  OBVIOUS
<1> HIDE DEF e, n, m
<1>3. ASSUME NEW i \in 1 .. m
      PROVE  /\ NameOf(Delete(d[i], x)) = NameOf(d[i])
             /\ Delete(d[i], x).stamp = d[i].stamp
             /\ Delete(d[i], x).deletions = d[i].deletions \cup {x}
  BY <1>2 DEF Delete, NameOf, Char
<1>4. ASSUME NEW i \in 1 .. m
      PROVE  /\ d[i].stamp # x
             /\ d[i].stamp \in P \cup {x} <=> d[i].stamp \in P
             /\ d[i].deletions \subseteq P \cup {x} <=> d[i].deletions \subseteq P
             /\ d[i].deletions \cup {x} \subseteq P \cup {x} <=> d[i].deletions \subseteq P
  BY DEF m, Unheard
<1>5. ASSUME NEW i \in 1 .. f PROVE NameOf(e[i]) = NameOf(d[i]) /\ (i \in K <=> i \in J)
  <2>1. e[i] = d[i] /\ i \in 1 .. m /\ i \in Nat
    BY <1>1, <1>2
  <2> QED
    BY <1>4, <2>1 DEF Kept, J, K
<1>6. ASSUME NEW i \in 1 .. n PROVE f + i \notin K
  <2>1. e[f + i] = [stamp |-> x, offset |-> i, deletions |-> {}, visible |-> TRUE]
    BY <1>1
  <2>2. e[f + i].stamp = x
    BY <2>1
  <2> QED
    BY <2>2 DEF Kept, K
<1>7. ASSUME NEW i \in f + 1 .. m
      PROVE  NameOf(e[i + n]) = NameOf(d[i]) /\ (i + n \in K <=> i \in J)
  <2>1. i \in 1 .. m /\ i \in Nat /\ i + n \in Nat
    BY <1>2
  <2>2. e[i + n] = Delete(d[i], x) \/ e[i + n] = d[i]
    BY <1>1 DEF m
  <2>3. NameOf(e[i + n]) = NameOf(d[i]) /\ e[i + n].stamp = d[i].stamp
    BY <1>3, <2>1, <2>2
  <2>4. e[i + n].deletions \subseteq P \cup {x} <=> d[i].deletions \subseteq P
    BY <1>3, <1>4, <2>1, <2>2
  <2> QED
    BY <1>4, <2>1, <2>3, <2>4 DEF Kept, J, K
<1>8. Listing(e, K) = Listing(d, J)
  <2>1. Len(d) \in Nat /\ f \in 0 .. Len(d) /\ Len(e) = Len(d) + n
        /\ Len(d) \in Nat
    BY <1>1, <1>2 DEF m
  <2>2. \A i \in f + 1 .. Len(d) : NameOf(e[i + n]) = NameOf(d[i]) /\ (i + n \in K <=> i \in J)
    BY <1>7 DEF m
  <2>3. \A i \in 1 .. f : NameOf(e[i]) = NameOf(d[i]) /\ (i \in K <=> i \in J)
    BY <1>5
  <2>4. \A i \in 1 .. n : f + i \notin K
    BY <1>6
  <2>5. SameButFor(d, e, f, n, J, K)
    BY <1>2, <2>1, <2>2, <2>3, <2>4 DEF SameButFor
  <2> QED
    BY <2>5, SameListing
<1> QED
  BY <1>8 DEF TextUnder, J, K, e, x

\* An undo changes no more than what is shown.
LEMMA UndoUnder ==
    ASSUME NEW d \in Seq(Char), NEW edits, NEW U, NEW P
    PROVE  TextUnder(ApplyUndo(d, edits, U), P) = TextUnder(d, P)
<1> DEFINE e == ApplyUndo(d, edits, U)
           m == Len(d)
           J == Kept(d, P)
           K == Kept(e, P)
<1>1. m \in Nat /\ DOMAIN d = 1 .. m /\ \A i \in 1 .. m : d[i] \in Char
  OBVIOUS
<1>2. DOMAIN e = 1 .. m /\ Len(e) = m
  <2>1. DOMAIN e = 1 .. m
    BY <1>1 DEF ApplyUndo
  <2> HIDE DEF e
  <2>2. e = [i \in 1 .. m |-> e[i]]
    BY <2>1 DEF e, ApplyUndo
  <2> QED
    BY <1>1, <2>1, <2>2
<1>3. ASSUME NEW i \in 1 .. m
      PROVE  e[i].stamp = d[i].stamp /\ e[i].deletions = d[i].deletions
             /\ e[i].offset = d[i].offset
  <2>1. e[i] = [d[i] EXCEPT !.visible = IsVisible(d[i], U)] \/ e[i] = d[i]
    BY <1>1 DEF ApplyUndo
  <2>2. d[i] \in Char
    BY <1>1
  <2> HIDE DEF e
  <2> QED
    BY <2>1, <2>2 DEF Char
<1> HIDE DEF e
<1>4. ASSUME NEW i \in 0 + 1 .. Len(d)
      PROVE  NameOf(e[i + 0]) = NameOf(d[i]) /\ (i + 0 \in K <=> i \in J)
  <2>1. i + 0 = i /\ i \in 1 .. m /\ i \in Nat
    BY <1>1
  <2> QED
    BY <1>3, <2>1 DEF NameOf, Kept
<1> HIDE DEF J, K
<1>5. /\ 0 \in Nat /\ 0 \in 0 .. Len(d) /\ Len(d) \in Nat /\ Len(e) = Len(d) + 0
      /\ \A i \in 1 .. 0 : FALSE
  BY <1>1, <1>2
<1>6. Listing(e, K) = Listing(d, J)
  <2>1. SameButFor(d, e, 0, 0, J, K)
    BY <1>4, <1>5 DEF SameButFor
  <2> QED
    BY <2>1, SameListing
<1> QED
  BY <1>6 DEF TextUnder, J, K, e

\* An undo turns round whether its edits are undone, and no others.
LEMMA UndoneAfter ==
    ASSUME NEW S, NEW O, NEW X, OpsSound(S, O, X), NEW v, NEW U, U = SeenUndos(S, v),
           NEW undo, NEW edits,
           undo.counts = [e \in edits |-> UndoCount(U, e) + 1]
    PROVE  Undone(U \cup UndoEntries(undo)) = (Undone(U) \ edits) \cup (edits \ Undone(U))
<1> DEFINE W == U \cup UndoEntries(undo)
<1>1. DOMAIN undo.counts = edits /\ \A e \in edits : undo.counts[e] = UndoCount(U, e) + 1
  OBVIOUS
<1>2. \A u \in UndoEntries(undo) : u.edit \in edits /\ u.count = undo.counts[u.edit]
  BY <1>1 DEF UndoEntries
<1>3. ASSUME NEW e \in edits PROVE \E u \in UndoEntries(undo) : u.edit = e
  <2> DEFINE u == [edit |-> e, undo |-> undo.stamp, count |-> undo.counts[e]]
  <2>1. u \in UndoEntries(undo) /\ u.edit = e
    BY <1>1 DEF UndoEntries
  <2> QED
    BY <2>1
<1>4. ASSUME NEW e, e \notin edits PROVE IsUndone(W, e) <=> IsUndone(U, e)
  <2>1. {u \in W : u.edit = e} = {u \in U : u.edit = e}
    BY <1>2, <1>4
  <2> HIDE DEF W
  <2> QED
    BY <2>1, IsUndoneSame
<1>5. ASSUME NEW e \in edits PROVE IsUndone(W, e) <=> ~IsUndone(U, e)
  <2> DEFINE c == UndoCount(U, e)
             n == Cardinality(S)
             T == {0} \cup {u.count : u \in {x \in U : x.edit = e}}
             R == {0} \cup {u.count : u \in {x \in W : x.edit = e}}
  <2>1. n \in Nat /\ c \in Nat /\ \A u \in U : u.count \in 1 .. n
    BY UndoCountIs
  <2>2. T \in SUBSET (0 .. n) /\ T # {}
    BY <2>1
  <2>3. c = Max(T)
    BY DEF UndoCount, Highest
  <2>4. UndoCount(W, e) = Max(R)
    BY DEF UndoCount, Highest
  <2>5. R = T \cup {c + 1}
    <3>1. \A u \in UndoEntries(undo) : u.edit = e => u.count = c + 1
      BY <1>1, <1>2
    <3> HIDE DEF c
    <3> QED
      BY <1>3, <3>1
  <2> HIDE DEF T, R, c, n
  <2>6. \A m \in T : m <= c
    BY <2>1, <2>2, <2>3, MaxIs
  <2>7. R \in SUBSET (0 .. c + 1) /\ R # {}
    BY <2>1, <2>2, <2>5, <2>6
  <2>8. Max(R) \in R /\ \A m \in R : m <= Max(R)
    <3>1. c + 1 \in Nat
      BY <2>1
    <3> QED
      BY <2>7, <3>1, MaxIs
  <2>9. Max(R) = c + 1
    <3>1. c + 1 \in R /\ Max(R) \in 0 .. c + 1
      BY <2>5, <2>7, <2>8
    <3>2. c + 1 <= Max(R)
      BY <2>8, <3>1
    <3> QED
      BY <2>1, <3>1, <3>2
  <2>10. (c + 1) % 2 = 1 <=> c % 2 # 1
    BY <2>1
  <2> QED
    BY <2>4, <2>9, <2>10 DEF IsUndone, c
<1>6. \A e : e \in Undone(W) <=> IF e \in edits THEN e \notin Undone(U) ELSE e \in Undone(U)
  BY <1>4, <1>5, UndoneIs
<1> HIDE DEF W
<1> QED
  BY <1>6 DEF W

\* What is kept with a transaction of replica r: as long as no other replica's
\* operations came in, the text it began with is there again once the edits of P
\* are the undone ones.
Still(r, v, x) == \A q \in Author \ {r} : v[q] = x.start[q]

Gives(r, d, v, x, P) ==
    /\ {"start", "edits", "text"} \subseteq DOMAIN x
    /\ \A e \in x.edits : e.replica = r
    /\ x.start \in [Author -> Nat] /\ ObservedAll(v, x.start)
    /\ Still(r, v, x) => TextUnder(d, P) = x.text

EditsFrom(stack, i) == UNION {stack[j].edits : j \in i .. Len(stack)}
Apart(stack) == \A i, j \in 1 .. Len(stack) : i # j => stack[i].edits \cap stack[j].edits = {}

UndoGives(r, d, v, N, stack) ==
    /\ Apart(stack)
    /\ \A i \in 1 .. Len(stack) :
          /\ stack[i].edits \cap N = {}
          /\ Gives(r, d, v, stack[i], N \cup EditsFrom(stack, i))

RedoGives(r, d, v, N, stack) ==
    /\ Apart(stack)
    /\ \A i \in 1 .. Len(stack) :
          /\ stack[i].edits \subseteq N
          /\ Gives(r, d, v, stack[i], N \ EditsFrom(stack, i + 1))

\* Nobody undoes what another has edited.
OwnUndos == \A op \in operations : op.kind = "undo" =>
                \A e \in DOMAIN op.counts : e.replica = op.stamp.replica

RestoreInv ==
    /\ BufferInv /\ OwnUndos
    /\ \A r \in Replica :
          /\ UndoGives(r, fragments[r], version[r], Undone(undo_map[r]), undo_stack[r])
          /\ RedoGives(r, fragments[r], version[r], Undone(undo_map[r]), redo_stack[r])

LEMMA TopIs ==
    ASSUME NEW S, NEW v, NEW s, StackSound(S, s, v), s # <<>>
    PROVE  /\ Len(s) \in Nat /\ Len(s) >= 1
           /\ Len(Front(s)) = Len(s) - 1 /\ \A i \in 1 .. Len(s) - 1 : Front(s)[i] = s[i]
           /\ Last(s) = s[Len(s)]
           /\ \A i \in 1 .. Len(s) : EditsFrom(s, i) = EditsFrom(Front(s), i) \cup Last(s).edits
<1>1. PICK T : s \in Seq(T)
  BY Zenon DEF StackSound
<1>2. Len(s) \in Nat /\ Len(s) >= 1
  BY <1>1
<1>3. /\ Len(Front(s)) = Len(s) - 1 /\ \A i \in 1 .. Len(s) - 1 : Front(s)[i] = s[i]
      /\ Last(s) = s[Len(s)]
  BY <1>1, <1>2 DEF Front, Last
<1>4. ASSUME NEW i \in 1 .. Len(s)
      PROVE  EditsFrom(s, i) = EditsFrom(Front(s), i) \cup Last(s).edits
  <2>1. i .. Len(s) = (i .. Len(s) - 1) \cup {Len(s)}
    BY <1>2
  <2>2. \A j \in i .. Len(s) - 1 : Front(s)[j] = s[j]
    BY <1>3
  <2>3. {s[j].edits : j \in i .. Len(s)}
          = {s[j].edits : j \in i .. Len(s) - 1} \cup {s[Len(s)].edits}
    BY <2>1
  <2>4. {s[j].edits : j \in i .. Len(s) - 1} = {Front(s)[j].edits : j \in i .. Len(Front(s))}
    BY <1>3, <2>2
  <2> QED
    BY <1>3, <2>3, <2>4 DEF EditsFrom
<1> QED
  BY <1>2, <1>3, <1>4

Pushed(s, x, a) ==
    /\ Len(s) \in Nat /\ Len(a) = Len(s) + 1
    /\ \A i \in 1 .. Len(s) : a[i] = s[i]
    /\ a[Len(s) + 1] = x
    /\ \A i \in 1 .. Len(s) + 1 : EditsFrom(a, i) = EditsFrom(s, i) \cup x.edits
    /\ EditsFrom(s, Len(s) + 1) = {} /\ EditsFrom(a, (Len(s) + 1) + 1) = {}

LEMMA PushIs ==
    ASSUME NEW S, NEW v, NEW s, StackSound(S, s, v), NEW x
    PROVE  Pushed(s, x, Append(s, x)) /\ Append(s, x) = s \o <<x>>
<1>1. PICK T : s \in Seq(T)
  BY Zenon DEF StackSound
<1> DEFINE a == Append(s, x)
<1>2. /\ Len(s) \in Nat /\ Len(a) = Len(s) + 1
      /\ \A i \in 1 .. Len(s) : a[i] = s[i]
      /\ a[Len(s) + 1] = x
  BY <1>1
<1>3. a = s \o <<x>>
  BY <1>1
<1> HIDE DEF a
<1>4. ASSUME NEW i \in 1 .. Len(s) + 1
      PROVE  EditsFrom(a, i) = EditsFrom(s, i) \cup x.edits
  <2>1. i .. Len(s) + 1 = (i .. Len(s)) \cup {Len(s) + 1}
    BY <1>2
  <2>2. \A j \in i .. Len(s) : a[j] = s[j]
    BY <1>2
  <2>3. {a[j].edits : j \in i .. Len(a)} = {a[j].edits : j \in i .. Len(s)} \cup {x.edits}
    BY <1>2, <2>1
  <2>4. {a[j].edits : j \in i .. Len(s)} = {s[j].edits : j \in i .. Len(s)}
    BY <2>2
  <2> QED
    BY <2>3, <2>4 DEF EditsFrom
<1>5. EditsFrom(s, Len(s) + 1) = {} /\ EditsFrom(a, (Len(s) + 1) + 1) = {}
  <2>1. (Len(s) + 1 .. Len(s)) = {} /\ ((Len(s) + 1) + 1 .. Len(a)) = {}
    BY <1>2
  <2> QED
    BY <2>1 DEF EditsFrom
<1>6. Pushed(s, x, a)
  BY <1>2, <1>4, <1>5 DEF Pushed
<1> QED
  BY <1>3, <1>6 DEF a

\* Replica r has observed more, but of its own operations only.
OwnStep(r, v, w) ==
    /\ v \in [Author -> Nat] /\ w \in [Author -> Nat] /\ ObservedAll(w, v)
    /\ \A q \in Author \ {r} : w[q] = v[q]

LEMMA GivesStays ==
    ASSUME NEW r, NEW v, NEW w, OwnStep(r, v, w), NEW d, NEW e, NEW x, NEW P, NEW Q,
           Gives(r, d, v, x, P), TextUnder(e, Q) = TextUnder(d, P)
    PROVE  Gives(r, e, w, x, Q)
<1>1. /\ {"start", "edits", "text"} \subseteq DOMAIN x
      /\ \A a \in x.edits : a.replica = r
      /\ x.start \in [Author -> Nat] /\ ObservedAll(v, x.start)
      /\ Still(r, v, x) => TextUnder(d, P) = x.text
  BY DEF Gives
<1>2. ObservedAll(w, x.start)
  BY <1>1, ObservedAllTransitive DEF OwnStep
<1>3. Still(r, w, x) => Still(r, v, x)
  BY DEF Still, OwnStep
<1> QED
  BY <1>1, <1>2, <1>3 DEF Gives

\* The text before an edit is what its transaction gives back, and those
\* before it still give back theirs.
LEMMA EditStack ==
    ASSUME NEW r, NEW v, NEW w, OwnStep(r, v, w), NEW S, NEW s, StackSound(S, s, v),
           NEW d, NEW e, NEW N, UndoGives(r, d, v, N, s),
           NEW x, x.replica = r, x \notin N, \A i \in 1 .. Len(s) : x \notin s[i].edits,
           \A P : TextUnder(e, P \cup {x}) = TextUnder(d, P),
           NEW y, {"start", "edits", "text"} \subseteq DOMAIN y,
           y.edits = {x}, y.start = v, y.text = TextUnder(d, N)
    PROVE  /\ UndoGives(r, e, w, N, Append(s, y))
           /\ s # <<>> => UndoGives(r, e, w, N, GroupTrailing(s, x))
<1>1. /\ Apart(s)
      /\ \A i \in 1 .. Len(s) : /\ s[i].edits \cap N = {}
                                /\ Gives(r, d, v, s[i], N \cup EditsFrom(s, i))
  BY DEF UndoGives
<1>2. ASSUME NEW i \in 1 .. Len(s), NEW Q, Q = (N \cup EditsFrom(s, i)) \cup {x}
      PROVE  Gives(r, e, w, s[i], Q)
  <2>1. TextUnder(e, Q) = TextUnder(d, N \cup EditsFrom(s, i))
    BY <1>2
  <2>2. Gives(r, d, v, s[i], N \cup EditsFrom(s, i))
    BY <1>1
  <2> QED
    BY <2>1, <2>2, GivesStays
<1>3. UndoGives(r, e, w, N, Append(s, y))
  <2> DEFINE a == Append(s, y)
  <2>1. /\ Len(s) \in Nat /\ Len(a) = Len(s) + 1
        /\ \A i \in 1 .. Len(s) : a[i] = s[i]
        /\ a[Len(s) + 1] = y
        /\ \A i \in 1 .. Len(s) + 1 : EditsFrom(a, i) = EditsFrom(s, i) \cup y.edits
        /\ EditsFrom(s, Len(s) + 1) = {}
    <3>1. Pushed(s, y, a)
      BY PushIs
    <3> HIDE DEF a
    <3> QED
      BY <3>1 DEF Pushed
  <2> HIDE DEF a
  <2>2. Apart(a)
    <3> SUFFICES ASSUME NEW i \in 1 .. Len(a), NEW j \in 1 .. Len(a), i # j
                 PROVE  a[i].edits \cap a[j].edits = {}
      BY DEF Apart
    <3>1. CASE i <= Len(s) /\ j <= Len(s)
      BY <1>1, <2>1, <3>1 DEF Apart
    <3>2. CASE i <= Len(s) /\ ~(j <= Len(s))
      <4>1. j = Len(s) + 1 /\ i \in 1 .. Len(s)
        BY <2>1, <3>2
      <4> QED
        BY <2>1, <4>1
    <3>3. CASE ~(i <= Len(s))
      <4>1. i = Len(s) + 1 /\ j \in 1 .. Len(s)
        BY <2>1, <3>3
      <4> QED
        BY <2>1, <4>1
    <3> QED
      BY <3>1, <3>2, <3>3
  <2>3. ASSUME NEW i \in 1 .. Len(a)
        PROVE  a[i].edits \cap N = {} /\ Gives(r, e, w, a[i], N \cup EditsFrom(a, i))
    <3>1. CASE i <= Len(s)
      <4>1. i \in 1 .. Len(s) /\ a[i] = s[i] /\ EditsFrom(a, i) = EditsFrom(s, i) \cup {x}
        BY <2>1, <3>1
      <4>2. N \cup EditsFrom(a, i) = (N \cup EditsFrom(s, i)) \cup {x}
        BY <4>1
      <4> QED
        BY <1>1, <1>2, <4>1, <4>2
    <3>2. CASE ~(i <= Len(s))
      <4>1. i = Len(s) + 1
        BY <2>1, <3>2
      <4>2. a[i] = y /\ N \cup EditsFrom(a, i) = N \cup {x}
        BY <2>1, <4>1
      <4>3. Gives(r, e, w, y, N \cup {x})
        BY DEF Gives, OwnStep
      <4> QED
        BY <4>2, <4>3
    <3> QED
      BY <3>1, <3>2
  <2> QED
    BY <2>2, <2>3 DEF UndoGives, a
<1>4. ASSUME s # <<>> PROVE UndoGives(r, e, w, N, GroupTrailing(s, x))
  <2> DEFINE t == Last(s)
             z == [t EXCEPT !.edits = @ \cup {x}]
             f == Front(s)
             a == Append(f, z)
  <2>1. StackSound(S, f, v)
    BY <1>4, PopSound
  <2>2. /\ Len(s) \in Nat /\ Len(s) >= 1
        /\ Len(f) = Len(s) - 1 /\ \A i \in 1 .. Len(s) - 1 : f[i] = s[i]
        /\ t = s[Len(s)]
        /\ \A i \in 1 .. Len(s) : EditsFrom(s, i) = EditsFrom(f, i) \cup t.edits
    BY <1>4, TopIs
  <2>3. Gives(r, e, w, t, (N \cup EditsFrom(s, Len(s))) \cup {x})
    <3>1. Len(s) \in 1 .. Len(s) /\ t = s[Len(s)]
      BY <2>2
    <3> HIDE DEF t
    <3> QED
      BY <1>2, <3>1
  <2> HIDE DEF t
  <2>4. z.edits = t.edits \cup {x} /\ z.start = t.start /\ z.text = t.text /\ DOMAIN z = DOMAIN t
    BY <2>3 DEF Gives
  <2> HIDE DEF f, z
  <2>5. /\ Len(a) = Len(f) + 1
        /\ \A i \in 1 .. Len(f) : a[i] = f[i]
        /\ a[Len(f) + 1] = z
        /\ \A i \in 1 .. Len(f) + 1 : EditsFrom(a, i) = EditsFrom(f, i) \cup z.edits
    <3>1. Pushed(f, z, a)
      BY <2>1, PushIs
    <3> HIDE DEF a
    <3> QED
      BY <3>1 DEF Pushed
  <2>6. a = GroupTrailing(s, x)
    <3>1. a = f \o <<z>>
      BY <2>1, PushIs
    <3> HIDE DEF a
    <3> QED
      BY <3>1 DEF GroupTrailing, f, t, z
  <2> HIDE DEF a
  <2>7. /\ Len(a) = Len(s)
        /\ \A i \in 1 .. Len(s) - 1 : a[i] = s[i]
        /\ a[Len(s)] = z
        /\ \A i \in 1 .. Len(s) : EditsFrom(a, i) = EditsFrom(s, i) \cup {x}
    BY <2>2, <2>4, <2>5
  <2>8. \A i \in 1 .. Len(a) : a[i].edits \subseteq s[i].edits \cup {x}
    BY <2>2, <2>4, <2>7
  <2>9. \A i \in 1 .. Len(s) - 1 : a[i].edits = s[i].edits
    BY <2>7
  <2>10. Apart(a)
    <3> SUFFICES ASSUME NEW i \in 1 .. Len(a), NEW j \in 1 .. Len(a), i < j
                 PROVE  a[i].edits \cap a[j].edits = {}
      BY <2>2, <2>7 DEF Apart
    <3>1. i \in 1 .. Len(s) - 1 /\ i \in 1 .. Len(s) /\ j \in 1 .. Len(s) /\ i # j
      BY <2>2, <2>7
    <3>2. s[i].edits \cap s[j].edits = {} /\ x \notin s[i].edits
      BY <1>1, <3>1 DEF Apart
    <3> QED
      BY <2>8, <2>9, <3>1, <3>2
  <2>11. ASSUME NEW i \in 1 .. Len(a)
         PROVE  a[i].edits \cap N = {} /\ Gives(r, e, w, a[i], N \cup EditsFrom(a, i))
    <3>1. i \in 1 .. Len(s)
      BY <2>7
    <3>2. a[i].edits \cap N = {}
      BY <1>1, <2>8, <3>1
    <3>3. N \cup EditsFrom(a, i) = (N \cup EditsFrom(s, i)) \cup {x}
      BY <2>7, <3>1
    <3>4. Gives(r, e, w, s[i], N \cup EditsFrom(a, i))
      BY <1>2, <3>1, <3>3
    <3>5. CASE i # Len(s)
      <4>1. a[i] = s[i]
        BY <2>2, <2>7, <3>1, <3>5
      <4> QED
        BY <3>2, <3>4, <4>1
    <3>6. CASE i = Len(s)
      <4>1. a[i] = z /\ s[i] = t
        BY <2>2, <2>7, <3>6
      <4>2. Gives(r, e, w, z, N \cup EditsFrom(a, i))
        <5>1. Gives(r, e, w, t, N \cup EditsFrom(a, i))
          BY <3>4, <4>1
        <5> QED
          BY <2>4, <5>1 DEF Gives, Still
      <4> QED
        BY <3>2, <4>1, <4>2
    <3> QED
      BY <3>5, <3>6
  <2> QED
    BY <2>6, <2>10, <2>11 DEF UndoGives
<1> QED
  BY <1>3, <1>4

\* Undoing the latest transaction gives back its text.
LEMMA UndoStack ==
    ASSUME NEW r, NEW v, NEW w, OwnStep(r, v, w), NEW S, NEW us, NEW rs,
           StackSound(S, us, v), StackSound(S, rs, v), us # <<>>,
           NEW d, NEW e, \A P : TextUnder(e, P) = TextUnder(d, P),
           NEW N, UndoGives(r, d, v, N, us), RedoGives(r, d, v, N, rs),
           NEW t, t = Last(us), NEW M, M = (N \ t.edits) \cup (t.edits \ N)
    PROVE  /\ UndoGives(r, e, w, M, Front(us))
           /\ RedoGives(r, e, w, M, Append(rs, t))
           /\ Gives(r, e, w, t, M)
<1> DEFINE f == Front(us)
           a == Append(rs, t)
<1>1. /\ Len(us) \in Nat /\ Len(us) >= 1
      /\ Len(f) = Len(us) - 1 /\ \A i \in 1 .. Len(us) - 1 : f[i] = us[i]
      /\ t = us[Len(us)]
      /\ \A i \in 1 .. Len(us) : EditsFrom(us, i) = EditsFrom(f, i) \cup t.edits
  BY TopIs
<1> HIDE DEF f
<1>2. Pushed(rs, t, a)
  BY PushIs
<1> HIDE DEF a
<1>3. /\ Apart(us)
      /\ \A i \in 1 .. Len(us) : /\ us[i].edits \cap N = {}
                                 /\ Gives(r, d, v, us[i], N \cup EditsFrom(us, i))
  BY DEF UndoGives
<1>4. /\ Apart(rs)
      /\ \A i \in 1 .. Len(rs) : /\ rs[i].edits \subseteq N
                                 /\ Gives(r, d, v, rs[i], N \ EditsFrom(rs, i + 1))
  BY DEF RedoGives
<1>5. Len(us) \in 1 .. Len(us) /\ us[Len(us)] = t
  BY <1>1
<1>6. t.edits \cap N = {} /\ M = N \cup t.edits
  BY <1>3, <1>5
<1>7. EditsFrom(f, Len(us)) = {}
  <2>1. (Len(us) .. Len(f)) = {}
    BY <1>1
  <2> QED
    BY <2>1 DEF EditsFrom
<1>8. Gives(r, e, w, t, M)
  <2>1. Gives(r, d, v, t, N \cup EditsFrom(us, Len(us)))
    BY <1>3, <1>5
  <2>2. M = N \cup EditsFrom(us, Len(us))
    BY <1>1, <1>5, <1>6, <1>7
  <2>3. TextUnder(e, N \cup EditsFrom(us, Len(us))) = TextUnder(d, N \cup EditsFrom(us, Len(us)))
    OBVIOUS
  <2>4. Gives(r, e, w, t, N \cup EditsFrom(us, Len(us)))
    BY <2>1, <2>3, GivesStays
  <2> QED
    BY <2>2, <2>4
<1>9. UndoGives(r, e, w, M, f)
  <2>1. Apart(f)
    <3> SUFFICES ASSUME NEW i \in 1 .. Len(f), NEW j \in 1 .. Len(f), i # j
                 PROVE  f[i].edits \cap f[j].edits = {}
      BY DEF Apart
    <3>1. i \in 1 .. Len(us) /\ j \in 1 .. Len(us) /\ f[i] = us[i] /\ f[j] = us[j]
      BY <1>1
    <3> QED
      BY <1>3, <3>1 DEF Apart
  <2>2. ASSUME NEW i \in 1 .. Len(f)
        PROVE  f[i].edits \cap M = {} /\ Gives(r, e, w, f[i], M \cup EditsFrom(f, i))
    <3>1. i \in 1 .. Len(us) /\ f[i] = us[i] /\ i # Len(us)
      BY <1>1
    <3>2. us[i].edits \cap N = {} /\ us[i].edits \cap t.edits = {}
      BY <1>3, <1>5, <3>1 DEF Apart
    <3>3. M \cup EditsFrom(f, i) = N \cup EditsFrom(us, i)
      BY <1>1, <1>6, <3>1
    <3>4. Gives(r, d, v, us[i], N \cup EditsFrom(us, i))
      BY <1>3, <3>1
    <3>5. TextUnder(e, N \cup EditsFrom(us, i)) = TextUnder(d, N \cup EditsFrom(us, i))
      OBVIOUS
    <3>6. Gives(r, e, w, us[i], N \cup EditsFrom(us, i))
      BY <3>4, <3>5, GivesStays
    <3> QED
      BY <1>6, <3>1, <3>2, <3>3, <3>6
  <2> QED
    BY <2>1, <2>2 DEF UndoGives
<1>10. RedoGives(r, e, w, M, a)
  <2>1. /\ Len(rs) \in Nat /\ Len(a) = Len(rs) + 1
        /\ \A i \in 1 .. Len(rs) : a[i] = rs[i]
        /\ a[Len(rs) + 1] = t
        /\ \A i \in 1 .. Len(rs) + 1 : EditsFrom(a, i) = EditsFrom(rs, i) \cup t.edits
        /\ EditsFrom(a, (Len(rs) + 1) + 1) = {}
    BY <1>2 DEF Pushed
  <2>2. Apart(a)
    <3> SUFFICES ASSUME NEW i \in 1 .. Len(a), NEW j \in 1 .. Len(a), i < j
                 PROVE  a[i].edits \cap a[j].edits = {}
      BY <2>1 DEF Apart
    <3>1. i \in 1 .. Len(rs) /\ a[i] = rs[i]
      BY <2>1
    <3>2. CASE j = Len(rs) + 1
      <4>1. a[i].edits \subseteq N /\ a[j].edits = t.edits
        BY <1>4, <2>1, <3>1, <3>2
      <4> QED
        BY <1>6, <4>1
    <3>3. CASE j # Len(rs) + 1
      <4>1. j \in 1 .. Len(rs) /\ a[j] = rs[j] /\ i # j
        BY <2>1, <3>3
      <4> QED
        BY <1>4, <3>1, <4>1 DEF Apart
    <3> QED
      BY <3>2, <3>3
  <2>3. ASSUME NEW i \in 1 .. Len(a)
        PROVE  a[i].edits \subseteq M /\ Gives(r, e, w, a[i], M \ EditsFrom(a, i + 1))
    <3>1. CASE i = Len(rs) + 1
      <4>1. a[i] = t /\ M \ EditsFrom(a, i + 1) = M
        BY <2>1, <3>1
      <4> QED
        BY <1>6, <1>8, <4>1
    <3>2. CASE i # Len(rs) + 1
      <4>1. i \in 1 .. Len(rs) /\ a[i] = rs[i] /\ i + 1 \in 1 .. Len(rs) + 1
        BY <2>1, <3>2
      <4>2. rs[i].edits \subseteq N /\ Gives(r, d, v, rs[i], N \ EditsFrom(rs, i + 1))
        BY <1>4, <4>1
      <4>3. EditsFrom(a, i + 1) = EditsFrom(rs, i + 1) \cup t.edits
        BY <2>1, <4>1
      <4>4. M \ EditsFrom(a, i + 1) = N \ EditsFrom(rs, i + 1)
        BY <1>6, <4>3
      <4>5. TextUnder(e, N \ EditsFrom(rs, i + 1)) = TextUnder(d, N \ EditsFrom(rs, i + 1))
        OBVIOUS
      <4>6. Gives(r, e, w, rs[i], N \ EditsFrom(rs, i + 1))
        BY <4>2, <4>5, GivesStays
      <4> QED
        BY <1>6, <4>1, <4>2, <4>4, <4>6
    <3> QED
      BY <3>1, <3>2
  <2> QED
    BY <2>2, <2>3 DEF RedoGives
<1> QED
  BY <1>8, <1>9, <1>10 DEF f, a

\* Bringing a transaction back makes it undoable again.
LEMMA RedoStack ==
    ASSUME NEW r, NEW v, NEW w, OwnStep(r, v, w), NEW S, NEW us, NEW rs,
           StackSound(S, us, v), StackSound(S, rs, v), rs # <<>>,
           NEW d, NEW e, \A P : TextUnder(e, P) = TextUnder(d, P),
           NEW N, UndoGives(r, d, v, N, us), RedoGives(r, d, v, N, rs),
           NEW t, t = Last(rs), NEW M, M = (N \ t.edits) \cup (t.edits \ N)
    PROVE  /\ UndoGives(r, e, w, M, Append(us, t))
           /\ RedoGives(r, e, w, M, Front(rs))
<1> DEFINE f == Front(rs)
           a == Append(us, t)
<1>1. /\ Len(rs) \in Nat /\ Len(rs) >= 1
      /\ Len(f) = Len(rs) - 1 /\ \A i \in 1 .. Len(rs) - 1 : f[i] = rs[i]
      /\ t = rs[Len(rs)]
      /\ \A i \in 1 .. Len(rs) : EditsFrom(rs, i) = EditsFrom(f, i) \cup t.edits
  BY TopIs
<1> HIDE DEF f
<1>2. Pushed(us, t, a)
  BY PushIs
<1> HIDE DEF a
<1>3. /\ Apart(us)
      /\ \A i \in 1 .. Len(us) : /\ us[i].edits \cap N = {}
                                 /\ Gives(r, d, v, us[i], N \cup EditsFrom(us, i))
  BY DEF UndoGives
<1>4. /\ Apart(rs)
      /\ \A i \in 1 .. Len(rs) : /\ rs[i].edits \subseteq N
                                 /\ Gives(r, d, v, rs[i], N \ EditsFrom(rs, i + 1))
  BY DEF RedoGives
<1>5. Len(rs) \in 1 .. Len(rs) /\ rs[Len(rs)] = t
  BY <1>1
<1>6. t.edits \subseteq N /\ M = N \ t.edits
  BY <1>4, <1>5
<1>7. EditsFrom(rs, Len(rs) + 1) = {} /\ EditsFrom(f, Len(rs)) = {}
  <2>1. (Len(rs) + 1 .. Len(rs)) = {} /\ (Len(rs) .. Len(f)) = {}
    BY <1>1
  <2> QED
    BY <2>1 DEF EditsFrom
<1>8. Gives(r, e, w, t, N)
  <2>1. Gives(r, d, v, t, N \ EditsFrom(rs, Len(rs) + 1))
    BY <1>4, <1>5
  <2>2. N \ EditsFrom(rs, Len(rs) + 1) = N
    BY <1>7
  <2>3. TextUnder(e, N) = TextUnder(d, N)
    OBVIOUS
  <2> QED
    BY <2>1, <2>2, <2>3, GivesStays
<1>9. RedoGives(r, e, w, M, f)
  <2>1. Apart(f)
    <3> SUFFICES ASSUME NEW i \in 1 .. Len(f), NEW j \in 1 .. Len(f), i # j
                 PROVE  f[i].edits \cap f[j].edits = {}
      BY DEF Apart
    <3>1. i \in 1 .. Len(rs) /\ j \in 1 .. Len(rs) /\ f[i] = rs[i] /\ f[j] = rs[j]
      BY <1>1
    <3> QED
      BY <1>4, <3>1 DEF Apart
  <2>2. ASSUME NEW i \in 1 .. Len(f)
        PROVE  f[i].edits \subseteq M /\ Gives(r, e, w, f[i], M \ EditsFrom(f, i + 1))
    <3>1. i \in 1 .. Len(rs) /\ f[i] = rs[i] /\ i # Len(rs) /\ i + 1 \in 1 .. Len(rs)
      BY <1>1
    <3>2. rs[i].edits \subseteq N /\ rs[i].edits \cap t.edits = {}
      BY <1>4, <1>5, <3>1 DEF Apart
    <3>3. M \ EditsFrom(f, i + 1) = N \ EditsFrom(rs, i + 1)
      BY <1>1, <1>6, <3>1
    <3>4. Gives(r, d, v, rs[i], N \ EditsFrom(rs, i + 1))
      BY <1>4, <3>1
    <3>5. TextUnder(e, N \ EditsFrom(rs, i + 1)) = TextUnder(d, N \ EditsFrom(rs, i + 1))
      OBVIOUS
    <3>6. Gives(r, e, w, rs[i], N \ EditsFrom(rs, i + 1))
      BY <3>4, <3>5, GivesStays
    <3> QED
      BY <1>6, <3>1, <3>2, <3>3, <3>6
  <2> QED
    BY <2>1, <2>2 DEF RedoGives
<1>10. UndoGives(r, e, w, M, a)
  <2>1. /\ Len(us) \in Nat /\ Len(a) = Len(us) + 1
        /\ \A i \in 1 .. Len(us) : a[i] = us[i]
        /\ a[Len(us) + 1] = t
        /\ \A i \in 1 .. Len(us) + 1 : EditsFrom(a, i) = EditsFrom(us, i) \cup t.edits
        /\ EditsFrom(us, Len(us) + 1) = {}
    BY <1>2 DEF Pushed
  <2>2. Apart(a)
    <3> SUFFICES ASSUME NEW i \in 1 .. Len(a), NEW j \in 1 .. Len(a), i < j
                 PROVE  a[i].edits \cap a[j].edits = {}
      BY <2>1 DEF Apart
    <3>1. i \in 1 .. Len(us) /\ a[i] = us[i]
      BY <2>1
    <3>2. CASE j = Len(us) + 1
      <4>1. a[i].edits \cap N = {} /\ a[j].edits = t.edits
        BY <1>3, <2>1, <3>1, <3>2
      <4> QED
        BY <1>6, <4>1
    <3>3. CASE j # Len(us) + 1
      <4>1. j \in 1 .. Len(us) /\ a[j] = us[j] /\ i # j
        BY <2>1, <3>3
      <4> QED
        BY <1>3, <3>1, <4>1 DEF Apart
    <3> QED
      BY <3>2, <3>3
  <2>3. ASSUME NEW i \in 1 .. Len(a)
        PROVE  a[i].edits \cap M = {} /\ Gives(r, e, w, a[i], M \cup EditsFrom(a, i))
    <3>1. CASE i = Len(us) + 1
      <4>0. i \in 1 .. Len(us) + 1
        BY <2>1
      <4>1. a[i] = t /\ M \cup EditsFrom(a, i) = N
        BY <1>6, <2>1, <3>1, <4>0
      <4> QED
        BY <1>6, <1>8, <4>1
    <3>2. CASE i # Len(us) + 1
      <4>1. i \in 1 .. Len(us) /\ a[i] = us[i] /\ i \in 1 .. Len(us) + 1
        BY <2>1, <3>2
      <4>2. us[i].edits \cap N = {} /\ Gives(r, d, v, us[i], N \cup EditsFrom(us, i))
        BY <1>3, <4>1
      <4>3. EditsFrom(a, i) = EditsFrom(us, i) \cup t.edits
        BY <2>1, <4>1
      <4>4. M \cup EditsFrom(a, i) = N \cup EditsFrom(us, i)
        BY <1>6, <4>3
      <4>5. TextUnder(e, N \cup EditsFrom(us, i)) = TextUnder(d, N \cup EditsFrom(us, i))
        OBVIOUS
      <4>6. Gives(r, e, w, us[i], N \cup EditsFrom(us, i))
        BY <4>2, <4>5, GivesStays
      <4> QED
        BY <1>6, <4>1, <4>2, <4>4, <4>6
    <3> QED
      BY <3>1, <3>2
  <2> QED
    BY <2>2, <2>3 DEF UndoGives
<1> QED
  BY <1>9, <1>10 DEF f, a

\* What came in from others changes what a transaction gives back only if it
\* came from others.
LEMMA DeliverStack ==
    ASSUME NEW r, NEW v \in [Author -> Nat], NEW w \in [Author -> Nat], ObservedAll(w, v),
           NEW d, NEW e, NEW N, NEW M,
           \A x : x.replica = r => (x \in M <=> x \in N),
           (\A q \in Author \ {r} : w[q] = v[q]) => e = d /\ M = N,
           NEW us, NEW rs, UndoGives(r, d, v, N, us), RedoGives(r, d, v, N, rs)
    PROVE  UndoGives(r, e, w, M, us) /\ RedoGives(r, e, w, M, rs)
<1>1. ASSUME NEW x, NEW P, NEW Q, Gives(r, d, v, x, P),
             (\A q \in Author \ {r} : w[q] = v[q]) => e = d /\ Q = P
      PROVE  Gives(r, e, w, x, Q)
  <2>1. /\ {"start", "edits", "text"} \subseteq DOMAIN x
        /\ \A a \in x.edits : a.replica = r
        /\ x.start \in [Author -> Nat] /\ ObservedAll(v, x.start)
        /\ Still(r, v, x) => TextUnder(d, P) = x.text
    BY <1>1 DEF Gives
  <2>2. ObservedAll(w, x.start)
    BY <2>1, ObservedAllTransitive
  <2>3. ASSUME Still(r, w, x) PROVE TextUnder(e, Q) = x.text
    <3>1. ASSUME NEW q \in Author \ {r} PROVE w[q] = v[q] /\ v[q] = x.start[q]
      <4>1. w[q] \in Nat /\ v[q] \in Nat /\ x.start[q] \in Nat
        BY <2>1
      <4>2. w[q] >= v[q] /\ v[q] >= x.start[q] /\ w[q] = x.start[q]
        BY <2>1, <2>3 DEF Still, ObservedAll
      <4> QED
        BY <4>1, <4>2
    <3>2. e = d /\ Q = P
      BY <1>1, <3>1
    <3>3. Still(r, v, x)
      BY <3>1 DEF Still
    <3> QED
      BY <2>1, <3>2, <3>3
  <2> QED
    BY <2>1, <2>2, <2>3 DEF Gives
<1>2. ASSUME NEW i \in 1 .. Len(us)
      PROVE  us[i].edits \cap M = {} /\ Gives(r, e, w, us[i], M \cup EditsFrom(us, i))
  <2>1. us[i].edits \cap N = {} /\ Gives(r, d, v, us[i], N \cup EditsFrom(us, i))
    BY DEF UndoGives
  <2>2. \A a \in us[i].edits : a.replica = r
    BY <2>1 DEF Gives
  <2>3. (\A q \in Author \ {r} : w[q] = v[q])
            => e = d /\ M \cup EditsFrom(us, i) = N \cup EditsFrom(us, i)
    OBVIOUS
  <2>4. Gives(r, e, w, us[i], M \cup EditsFrom(us, i))
    BY <1>1, <2>1, <2>3
  <2> QED
    BY <2>1, <2>2, <2>4
<1>3. ASSUME NEW i \in 1 .. Len(rs)
      PROVE  rs[i].edits \subseteq M /\ Gives(r, e, w, rs[i], M \ EditsFrom(rs, i + 1))
  <2>1. rs[i].edits \subseteq N /\ Gives(r, d, v, rs[i], N \ EditsFrom(rs, i + 1))
    BY DEF RedoGives
  <2>2. \A a \in rs[i].edits : a.replica = r
    BY <2>1 DEF Gives
  <2>3. (\A q \in Author \ {r} : w[q] = v[q])
            => e = d /\ M \ EditsFrom(rs, i + 1) = N \ EditsFrom(rs, i + 1)
    OBVIOUS
  <2>4. Gives(r, e, w, rs[i], M \ EditsFrom(rs, i + 1))
    BY <1>1, <2>1, <2>3
  <2> QED
    BY <2>1, <2>2, <2>4
<1> QED
  BY <1>2, <1>3 DEF UndoGives, RedoGives

-----------------------------------------------------------------------------
(* Every step keeps what undoing gives back                                *)

LEMMA RestoreInit == Init => RestoreInv
<1> SUFFICES ASSUME Init PROVE RestoreInv
  OBVIOUS
<1>1. BufferInv
  BY InitGood
<1>2. OwnUndos
  BY DEF Init, OwnUndos
<1>3. ASSUME NEW r \in Replica
      PROVE  /\ UndoGives(r, fragments[r], version[r], Undone(undo_map[r]), undo_stack[r])
             /\ RedoGives(r, fragments[r], version[r], Undone(undo_map[r]), redo_stack[r])
  <2>1. undo_stack[r] = <<>> /\ redo_stack[r] = <<>>
    BY DEF Init
  <2>2. Len(<<>>) = 0
    OBVIOUS
  <2> QED
    BY <2>1, <2>2 DEF UndoGives, RedoGives, Apart
<1> QED
  BY <1>1, <1>2, <1>3 DEF RestoreInv

\* What holds of the other replicas goes on holding.
Others(r) ==
    \A q \in Replica \ {r} :
        /\ fragments'[q] = fragments[q] /\ version'[q] = version[q]
        /\ undo_map'[q] = undo_map[q]
        /\ undo_stack'[q] = undo_stack[q] /\ redo_stack'[q] = redo_stack[q]

LEMMA OthersStay ==
    ASSUME RestoreInv, NEW r \in Replica, Others(r), BufferInv', OwnUndos',
           UndoGives(r, fragments'[r], version'[r], Undone(undo_map'[r]), undo_stack'[r]),
           RedoGives(r, fragments'[r], version'[r], Undone(undo_map'[r]), redo_stack'[r])
    PROVE  RestoreInv'
<1>1. ASSUME NEW q \in Replica
      PROVE  /\ UndoGives(q, fragments'[q], version'[q], Undone(undo_map'[q]), undo_stack'[q])
             /\ RedoGives(q, fragments'[q], version'[q], Undone(undo_map'[q]), redo_stack'[q])
  <2>1. CASE q = r
    BY <2>1
  <2>2. CASE q # r
    BY <2>2 DEF RestoreInv, Others
  <2> QED
    BY <2>1, <2>2
<1> QED
  BY <1>1 DEF RestoreInv

\* Nothing a copy holds mentions an operation its replica has not observed.
LEMMA NewStamp ==
    ASSUME NEW S, NEW O, NEW X, OpsSound(S, O, X), NEW v, VersionSound(S, v),
           NEW d, DocSound(S, O, X, d, v), NEW x, ~Observed(v, x)
    PROVE  Unheard(d, x) /\ x \notin Undone(SeenUndos(S, v))
<1>1. ASSUME NEW i \in 1 .. Len(d) PROVE d[i].stamp # x /\ x \notin d[i].deletions
  <2>1. Observed(v, d[i].stamp)
    BY DocFacts
  <2>2. d[i].deletions = Deleters(S, v, X, NameOf(d[i]))
    BY DEF DocSound
  <2>3. \A s \in d[i].deletions : Observed(v, s)
    BY <2>2 DEF Deleters
  <2> QED
    BY <2>1, <2>3
<1>2. ASSUME NEW u \in SeenUndos(S, v) PROVE Observed(v, u.edit)
  <2>1. PICK op \in S : op.kind = "undo" /\ Observed(v, op.stamp) /\ u \in UndoEntries(op)
    BY DEF SeenUndos
  <2>2. u.edit \in DOMAIN op.counts
    BY <2>1 DEF UndoEntries
  <2>3. PICK p \in S : p.kind = "edit" /\ p.stamp = u.edit /\ Observed(op.version, u.edit)
    BY <2>1, <2>2, OpFacts DEF UndoSound
  <2>4. /\ u.edit \in Stamp /\ v \in [Author -> Nat] /\ op.version \in [Author -> Nat]
        /\ ObservedAll(v, op.version)
    BY <2>1, <2>3, OpFacts DEF VersionSound
  <2> QED
    BY <2>3, <2>4, StillObserved
<1> QED
  BY <1>1, <1>2 DEF Undone, Unheard

\* Every edit in a stack has been observed.
LEMMA StackSeen ==
    ASSUME NEW S, NEW v, NEW s, StackSound(S, s, v), NEW i \in 1 .. Len(s), NEW e \in s[i].edits
    PROVE  Observed(v, e)
<1>1. PICK T : s \in Seq(T) /\ \A x \in T : EntrySound(S, x, v)
  BY Zenon DEF StackSound
<1>2. s[i] \in T
  BY <1>1
<1> QED
  BY <1>1, <1>2 DEF EntrySound

LEMMA OwnObserve ==
    ASSUME NEW r, NEW v \in [Author -> Nat], NEW x \in Stamp, x.replica = r
    PROVE  OwnStep(r, v, Observe(v, x))
<1>1. Observe(v, x) \in [Author -> Nat] /\ ObservedAll(Observe(v, x), v)
  BY ObserveMore
<1>2. \A q \in Author \ {r} : Observe(v, x)[q] = v[q]
  BY DEF Observe
<1> QED
  BY <1>1, <1>2 DEF OwnStep

LEMMA RestoreEdit ==
    ASSUME RestoreInv, NEW r \in Replica, NEW end \in 0 .. TextLen(fragments[r]),
           NEW start \in 0 .. end, NEW len \in InsertLens, NEW grouped \in BOOLEAN,
           Edit(r, start, end, len, grouped)
    PROVE  RestoreInv'
<1> DEFINE d == fragments[r]
           edit == [kind |-> "edit", version |-> version[r], len |-> len,
                    stamp |-> [value |-> lamport_clock[r] + 1, replica |-> r],
                    from |-> LocalStart(d, start),
                    to |-> LocalEnd(d, start, end)]
           entry == [id |-> lamport_clock[r], start |-> version[r],
                     edits |-> {edit.stamp}, text |-> Text(d)]
           s == undo_stack[r]
           v == version[r]
           x == edit.stamp
           w == Observe(v, x)
           e == ApplyLocalEdit(d, edit)
           N == Undone(undo_map[r])
           S == operations
<1>1. BufferInv /\ BufferInv'
  BY EditStep DEF RestoreInv
<1>2. /\ edit.kind = "edit" /\ edit.len = len
      /\ x = [value |-> lamport_clock[r] + 1, replica |-> r]
      /\ x.value = lamport_clock[r] + 1 /\ x.replica = r
      /\ edit.from = LocalStart(d, start) /\ edit.to = LocalEnd(d, start, end)
      /\ {"start", "edits", "text"} \subseteq DOMAIN entry
      /\ entry.edits = {x} /\ entry.start = v /\ entry.text = Text(d)
  OBVIOUS
<1>3. /\ fragments' = [fragments EXCEPT ![r] = e]
      /\ version' = [version EXCEPT ![r] = Observe(@, edit.stamp)]
      /\ undo_stack' = [undo_stack EXCEPT ![r] =
            IF grouped THEN GroupTrailing(@, edit.stamp) ELSE Append(@, entry)]
      /\ redo_stack' = [redo_stack EXCEPT ![r] = <<>>]
      /\ undo_map' = undo_map
      /\ operations' = operations \cup {edit}
      /\ grouped => s # <<>>
  BY DEF Edit
<1> HIDE DEF edit, entry
<1>4. Functions
  BY <1>1 DEF BufferInv
<1>5. /\ fragments'[r] = e /\ version'[r] = w
      /\ undo_stack'[r] = IF grouped THEN GroupTrailing(s, x) ELSE Append(s, entry)
      /\ redo_stack'[r] = <<>> /\ undo_map'[r] = undo_map[r]
  BY <1>3, <1>4, Zenon DEF Functions
<1>6. Others(r)
  <2> SUFFICES ASSUME NEW q \in Replica, q # r
               PROVE  /\ fragments'[q] = fragments[q] /\ version'[q] = version[q]
                      /\ undo_map'[q] = undo_map[q]
                      /\ undo_stack'[q] = undo_stack[q] /\ redo_stack'[q] = redo_stack[q]
    BY DEF Others
  <2> HIDE DEF e
  <2> QED
    BY <1>3, <1>4, Zenon DEF Functions
<1>7. PICK O, X : OpsSound(S, O, X) /\ CopySound(S, O, X, Copy(r))
  BY <1>1 DEF BufferInv, WorldSound
<1>8. /\ VersionSound(S, v) /\ v \in [Author -> Nat] /\ DocSound(S, O, X, d, v)
      /\ d \in Seq(Char) /\ Len(d) \in Nat /\ undo_map[r] = SeenUndos(S, v)
      /\ lamport_clock[r] \in Nat /\ \A q \in Author : v[q] < lamport_clock[r]
  BY <1>7, CopyIs
<1>9. x \in Stamp /\ edit.len \in Nat /\ r \in Author
  BY <1>2, <1>8, StampFacts, BufferAssumption DEF Stamp
<1>10. ~Observed(v, x)
  <2>1. v[r] \in Nat /\ v[r] < lamport_clock[r]
    BY <1>8, <1>9
  <2> QED
    BY <1>2, <1>8, <2>1 DEF Observed
<1> HIDE DEF x
<1>11. Unheard(d, x) /\ x \notin N
  BY <1>7, <1>8, <1>10, NewStamp
<1>12. edit.from \in 0 .. Len(d) /\ edit.to \in edit.from .. Len(d)
  BY <1>2, <1>8, LocalPlace
<1>13. ASSUME NEW P PROVE TextUnder(e, P \cup {x}) = TextUnder(d, P)
  <2>1. edit.stamp \in Stamp /\ Unheard(d, edit.stamp)
    BY <1>9, <1>11 DEF x
  <2>2. e = Replace(d, edit.from, edit.to, edit, {i \in DOMAIN d : d[i].visible})
    BY DEF ApplyLocalEdit
  <2> HIDE DEF e, d
  <2> QED
    BY <1>8, <1>9, <1>12, <2>1, <2>2, EditUnder DEF x
<1>14. StackSound(S, s, v) /\ UndoGives(r, d, v, N, s)
  BY <1>1 DEF BufferInv, ReplicaSound, RestoreInv
<1>15. \A i \in 1 .. Len(s) : x \notin s[i].edits
  BY <1>10, <1>14, StackSeen
<1>16. Text(d) = TextUnder(d, N)
  <2>1. \A i \in 1 .. Len(d) : d[i].visible = IsVisible(d[i], undo_map[r])
    BY <1>8 DEF DocSound
  <2> QED
    BY <1>8, <2>1, TextIs
<1>17. OwnStep(r, v, w)
  BY <1>2, <1>8, <1>9, OwnObserve
<1>18. UndoGives(r, e, w, N, undo_stack'[r])
  <2>0. /\ x.replica = r /\ x \notin N
        /\ {"start", "edits", "text"} \subseteq DOMAIN entry
        /\ entry.edits = {x} /\ entry.start = v /\ entry.text = TextUnder(d, N)
    BY <1>2, <1>11, <1>16 DEF x
  <2>3. \A P : TextUnder(e, P \cup {x}) = TextUnder(d, P)
    BY <1>13
  <2> HIDE DEF d, e, v, w, N, s, S
  <2>1. /\ UndoGives(r, e, w, N, Append(s, entry))
        /\ s # <<>> => UndoGives(r, e, w, N, GroupTrailing(s, x))
    BY <1>14, <1>15, <1>17, <2>0, <2>3, EditStack
  <2> QED
    BY <1>3, <1>5, <2>1
<1>19. RedoGives(r, e, w, N, <<>>)
  <2>1. Len(<<>>) = 0
    OBVIOUS
  <2> QED
    BY <2>1 DEF RedoGives, Apart
<1>20. OwnUndos'
  <2>1. \A op \in operations' : op.kind = "undo" => op \in operations
    BY <1>2, <1>3
  <2> QED
    BY <2>1 DEF OwnUndos, RestoreInv
<1> QED
  BY <1>1, <1>5, <1>6, <1>18, <1>19, <1>20, OthersStay

\* What an undo or a redo of transaction t does to its replica.
LEMMA UndoOrRedoIs ==
    ASSUME RestoreInv, NEW r \in Replica, NEW t, UndoOrRedo(r, t),
           EntrySound(operations, t, version[r]), \A e \in t.edits : e.replica = r,
           NEW us, NEW rs,
           undo_stack' = [undo_stack EXCEPT ![r] = us],
           redo_stack' = [redo_stack EXCEPT ![r] = rs]
    PROVE  /\ OwnStep(r, version[r], version'[r])
           /\ \A P : TextUnder(fragments'[r], P) = TextUnder(fragments[r], P)
           /\ Undone(undo_map'[r]) = (Undone(undo_map[r]) \ t.edits)
                                         \cup (t.edits \ Undone(undo_map[r]))
           /\ undo_stack'[r] = us /\ redo_stack'[r] = rs
           /\ Others(r) /\ OwnUndos'
<1> DEFINE d == fragments[r]
           undo == [kind |-> "undo", version |-> version[r],
                    stamp |-> [value |-> lamport_clock[r], replica |-> r],
                    counts |-> [e \in t.edits |-> UndoCount(undo_map[r], e) + 1]]
           U == undo_map[r] \cup UndoEntries(undo)
           v == version[r]
           S == operations
<1>1. /\ undo.kind = "undo" /\ undo.stamp.replica = r
      /\ undo.stamp = [value |-> lamport_clock[r], replica |-> r]
      /\ undo.counts = [e \in t.edits |-> UndoCount(undo_map[r], e) + 1]
  OBVIOUS
<1>2. /\ fragments' = [fragments EXCEPT ![r] = ApplyUndo(@, t.edits, U)]
      /\ version' = [version EXCEPT ![r] = Observe(@, undo.stamp)]
      /\ operations' = operations \cup {undo}
      /\ undo_map' = [undo_map EXCEPT ![r] = U]
  BY DEF UndoOrRedo
<1> HIDE DEF undo
<1>3. Functions /\ BufferInv
  BY DEF BufferInv, RestoreInv
<1>4. /\ fragments'[r] = ApplyUndo(d, t.edits, U) /\ version'[r] = Observe(v, undo.stamp)
      /\ undo_map'[r] = U /\ undo_stack'[r] = us /\ redo_stack'[r] = rs
  <2> HIDE DEF U
  <2> QED
    BY <1>2, <1>3, Zenon DEF Functions
<1>5. Others(r)
  <2> SUFFICES ASSUME NEW q \in Replica, q # r
               PROVE  /\ fragments'[q] = fragments[q] /\ version'[q] = version[q]
                      /\ undo_map'[q] = undo_map[q]
                      /\ undo_stack'[q] = undo_stack[q] /\ redo_stack'[q] = redo_stack[q]
    BY DEF Others
  <2> HIDE DEF U
  <2> QED
    BY <1>2, <1>3, Zenon DEF Functions
<1>6. PICK O, X : OpsSound(S, O, X) /\ CopySound(S, O, X, Copy(r))
  BY <1>3 DEF BufferInv, WorldSound
<1>7. /\ v \in [Author -> Nat] /\ d \in Seq(Char)
      /\ undo_map[r] = SeenUndos(S, v) /\ lamport_clock[r] \in Nat
  BY <1>6, CopyIs
<1>8. undo.stamp \in Stamp
  BY <1>1, <1>7, StampFacts DEF Stamp
<1>9. OwnStep(r, v, version'[r])
  BY <1>1, <1>4, <1>7, <1>8, OwnObserve
<1>10. \A P : TextUnder(fragments'[r], P) = TextUnder(d, P)
  <2> HIDE DEF d, U
  <2> QED
    BY <1>4, <1>7, UndoUnder
<1>11. Undone(U) = (Undone(undo_map[r]) \ t.edits) \cup (t.edits \ Undone(undo_map[r]))
  BY <1>1, <1>6, <1>7, UndoneAfter
<1>12. OwnUndos'
  <2>1. DOMAIN undo.counts = t.edits
    BY <1>1
  <2>2. \A op \in operations : op.kind = "undo" =>
           \A e \in DOMAIN op.counts : e.replica = op.stamp.replica
    BY DEF OwnUndos, RestoreInv
  <2> QED
    BY <1>1, <1>2, <2>1, <2>2 DEF OwnUndos
<1> QED
  BY <1>4, <1>5, <1>9, <1>10, <1>11, <1>12

\* The latest transaction is one of those that give back their text.
LEMMA UndoIs ==
    ASSUME RestoreInv, NEW r \in Replica, Undo(r)
    PROVE  /\ RestoreInv'
           /\ Gives(r, fragments'[r], version'[r], Last(undo_stack[r]), Undone(undo_map'[r]))
<1> DEFINE us == undo_stack[r]
           rs == redo_stack[r]
           v == version[r]
           t == Last(undo_stack[r])
           N == Undone(undo_map[r])
           M == Undone(undo_map'[r])
<1>1. /\ us # <<>> /\ UndoOrRedo(r, t)
      /\ undo_stack' = [undo_stack EXCEPT ![r] = Front(us)]
      /\ redo_stack' = [redo_stack EXCEPT ![r] = Append(rs, t)]
  BY DEF Undo
<1>2. BufferInv /\ BufferInv'
  BY UndoStep DEF RestoreInv
<1>3. /\ StackSound(operations, us, v) /\ StackSound(operations, rs, v)
      /\ UndoGives(r, fragments[r], v, N, us) /\ RedoGives(r, fragments[r], v, N, rs)
  BY <1>2 DEF BufferInv, ReplicaSound, RestoreInv
<1>4. EntrySound(operations, t, v)
  BY <1>1, <1>3, PopSound
<1>5. \A e \in t.edits : e.replica = r
  <2>1. Len(us) \in 1 .. Len(us) /\ t = us[Len(us)]
    BY <1>1, <1>3, TopIs
  <2> HIDE DEF t, us
  <2> QED
    BY <1>3, <2>1 DEF UndoGives, Gives
<1> HIDE DEF us, rs, t
<1>6. /\ OwnStep(r, v, version'[r])
      /\ \A P : TextUnder(fragments'[r], P) = TextUnder(fragments[r], P)
      /\ M = (N \ t.edits) \cup (t.edits \ N)
      /\ undo_stack'[r] = Front(us) /\ redo_stack'[r] = Append(rs, t)
      /\ Others(r) /\ OwnUndos'
  BY <1>1, <1>4, <1>5, UndoOrRedoIs
<1> HIDE DEF v, N, M
<1>7. /\ UndoGives(r, fragments'[r], version'[r], M, Front(us))
      /\ RedoGives(r, fragments'[r], version'[r], M, Append(rs, t))
      /\ Gives(r, fragments'[r], version'[r], t, M)
  <2> DEFINE d == fragments[r]
             e == fragments'[r]
             w == version'[r]
             S == operations
  <2>1. t = Last(us)
    BY DEF t, us
  <2>2. \A P : TextUnder(e, P) = TextUnder(d, P)
    BY <1>6
  <2>3. OwnStep(r, v, w) /\ UndoGives(r, d, v, N, us) /\ RedoGives(r, d, v, N, rs)
    BY <1>3, <1>6
  <2>4. StackSound(S, us, v) /\ StackSound(S, rs, v) /\ us # <<>>
    BY <1>1, <1>3
  <2>5. M = (N \ t.edits) \cup (t.edits \ N)
    BY <1>6
  <2> HIDE DEF d, e, w, S
  <2>6. /\ UndoGives(r, e, w, M, Front(us))
        /\ RedoGives(r, e, w, M, Append(rs, t))
        /\ Gives(r, e, w, t, M)
    BY <2>1, <2>2, <2>3, <2>4, <2>5, UndoStack
  <2> QED
    BY <2>6 DEF d, e, w
<1>8. RestoreInv'
  BY <1>2, <1>6, <1>7, OthersStay DEF M
<1> QED
  BY <1>7, <1>8 DEF t, M

LEMMA RedoIs ==
    ASSUME RestoreInv, NEW r \in Replica, Redo(r)
    PROVE  RestoreInv'
<1> DEFINE us == undo_stack[r]
           rs == redo_stack[r]
           v == version[r]
           t == Last(redo_stack[r])
           N == Undone(undo_map[r])
           M == Undone(undo_map'[r])
<1>1. /\ rs # <<>> /\ UndoOrRedo(r, t)
      /\ redo_stack' = [redo_stack EXCEPT ![r] = Front(rs)]
      /\ undo_stack' = [undo_stack EXCEPT ![r] = Append(us, t)]
  BY DEF Redo
<1>2. BufferInv /\ BufferInv'
  BY UndoStep DEF RestoreInv
<1>3. /\ StackSound(operations, us, v) /\ StackSound(operations, rs, v)
      /\ UndoGives(r, fragments[r], v, N, us) /\ RedoGives(r, fragments[r], v, N, rs)
  BY <1>2 DEF BufferInv, ReplicaSound, RestoreInv
<1>4. EntrySound(operations, t, v)
  BY <1>1, <1>3, PopSound
<1>5. \A e \in t.edits : e.replica = r
  <2>1. Len(rs) \in 1 .. Len(rs) /\ t = rs[Len(rs)]
    BY <1>1, <1>3, TopIs
  <2> HIDE DEF t, rs
  <2> QED
    BY <1>3, <2>1 DEF RedoGives, Gives
<1> HIDE DEF us, rs, t
<1>6. /\ OwnStep(r, v, version'[r])
      /\ \A P : TextUnder(fragments'[r], P) = TextUnder(fragments[r], P)
      /\ M = (N \ t.edits) \cup (t.edits \ N)
      /\ undo_stack'[r] = Append(us, t) /\ redo_stack'[r] = Front(rs)
      /\ Others(r) /\ OwnUndos'
  BY <1>1, <1>4, <1>5, UndoOrRedoIs
<1> HIDE DEF v, N, M
<1>7. /\ UndoGives(r, fragments'[r], version'[r], M, Append(us, t))
      /\ RedoGives(r, fragments'[r], version'[r], M, Front(rs))
  <2>1. t = Last(rs)
    BY DEF t, rs
  <2> QED
    BY <1>1, <1>3, <1>6, <2>1, RedoStack
<1> QED
  BY <1>2, <1>6, <1>7, OthersStay DEF M

\* A replica that learns of nothing made elsewhere learns nothing.
LEMMA OwnVersion ==
    ASSUME NEW S, NEW v, VersionSound(S, v), NEW w, VersionSound(S, w), ObservedAll(w, v),
           NEW r, \A p \in S : p.stamp.replica = r => Observed(v, p.stamp),
           \A q \in Author \ {r} : w[q] = v[q]
    PROVE  w = v
<1>1. v \in [Author -> Nat] /\ w \in [Author -> Nat]
  BY DEF VersionSound
<1>2. ASSUME NEW q \in Author PROVE w[q] = v[q]
  <2>1. v[q] \in Nat /\ w[q] \in Nat /\ w[q] >= v[q]
    BY <1>1 DEF ObservedAll
  <2>2. w[q] <= v[q]
    <3>1. CASE q # r
      BY <2>1, <3>1
    <3>2. CASE q = r /\ w[q] = 0
      BY <2>1, <3>2
    <3>3. CASE q = r /\ BaseLen > 0 /\ q = LOCAL_ID /\ w[q] = 1
      <4>1. v[q] >= 1
        BY <3>3 DEF VersionSound, Observed, Base
      <4> QED
        BY <2>1, <3>3, <4>1
    <3>4. CASE q = r /\ \E p \in S : p.stamp = [value |-> w[q], replica |-> q]
      <4>1. PICK p \in S : p.stamp = [value |-> w[q], replica |-> q]
        BY <3>4
      <4>2. p.stamp.value = w[q] /\ p.stamp.replica = q
        BY <4>1
      <4>3. Observed(v, p.stamp)
        BY <3>4, <4>2
      <4> QED
        BY <2>1, <4>2, <4>3 DEF Observed
    <3> QED
      BY <3>1, <3>2, <3>3, <3>4 DEF VersionSound
  <2> QED
    BY <2>1, <2>2
<1> QED
  BY <1>1, <1>2

\* What a replica has edited is undone by itself alone, and it knows of that.
LEMMA OwnUndone ==
    ASSUME OwnUndos, NEW O, NEW X, OpsSound(operations, O, X),
           NEW v \in [Author -> Nat], NEW w \in [Author -> Nat], ObservedAll(w, v),
           NEW r, \A p \in operations : p.stamp.replica = r => Observed(v, p.stamp),
           NEW x, x.replica = r
    PROVE  x \in Undone(SeenUndos(operations, w)) <=> x \in Undone(SeenUndos(operations, v))
<1> DEFINE S == operations
<1>1. \A op \in S : Observed(v, op.stamp) => Observed(w, op.stamp)
  BY OpFacts, StillObserved
<1>2. \A op \in S : op.kind = "undo" =>
        \A u \in UndoEntries(op) : u.edit.replica = op.stamp.replica
  BY DEF OwnUndos, UndoEntries
<1>3. {u \in SeenUndos(S, w) : u.edit = x} = {u \in SeenUndos(S, v) : u.edit = x}
  BY <1>1, <1>2 DEF SeenUndos
<1> QED
  BY <1>3, IsUndoneSame, UndoneIs

LEMMA RestoreDeliver ==
    ASSUME RestoreInv, NEW r \in Replica, NEW n \in Nat, NEW ops \in [1 .. n -> operations],
           Deliver(r, ops)
    PROVE  RestoreInv'
<1> DEFINE S == operations
           v == version[r]
           c == ApplyOps(Copy(r), ops)
           w == c.version
<1>1. BufferInv /\ BufferInv' /\ OwnUndos
  BY DeliverGood DEF RestoreInv
<1>2. /\ fragments' = [fragments EXCEPT ![r] = c.fragments]
      /\ version' = [version EXCEPT ![r] = c.version]
      /\ undo_map' = [undo_map EXCEPT ![r] = c.undos]
      /\ undo_stack' = undo_stack /\ redo_stack' = redo_stack /\ operations' = operations
  BY DEF Deliver
<1>3. PICK O, X : /\ OpsSound(S, O, X)
                  /\ CopySound(S, O, X, Copy(r))
  BY <1>1 DEF BufferInv, WorldSound
<1>4. /\ VersionSound(S, v) /\ v \in [Author -> Nat] /\ DocSound(S, O, X, fragments[r], v)
      /\ undo_map[r] = SeenUndos(S, v) /\ Copy(r).version = v
  BY <1>3, CopyIs DEF Copy
<1>5. CopySound(S, O, X, c) /\ ObservedAll(w, v)
  <2>1. ops \in Seq(S)
    OBVIOUS
  <2> QED
    BY <1>3, <1>4, <2>1, ApplyOpsGood
<1> HIDE DEF c
<1>6. /\ VersionSound(S, w) /\ w \in [Author -> Nat] /\ DocSound(S, O, X, c.fragments, w)
      /\ c.undos = SeenUndos(S, w)
  BY <1>5 DEF CopySound, VersionSound
<1>7. Functions
  BY <1>1 DEF BufferInv
<1>8. /\ fragments'[r] = c.fragments /\ version'[r] = w /\ undo_map'[r] = c.undos
      /\ undo_stack'[r] = undo_stack[r] /\ redo_stack'[r] = redo_stack[r]
  BY <1>2, <1>7, Zenon DEF Functions
<1>9. Others(r)
  <2> SUFFICES ASSUME NEW q \in Replica, q # r
               PROVE  /\ fragments'[q] = fragments[q] /\ version'[q] = version[q]
                      /\ undo_map'[q] = undo_map[q]
                      /\ undo_stack'[q] = undo_stack[q] /\ redo_stack'[q] = redo_stack[q]
    BY DEF Others
  <2> QED
    BY <1>2, <1>7, Zenon DEF Functions
<1>10. \A p \in S : p.stamp.replica = r => Observed(v, p.stamp)
  BY <1>1 DEF BufferInv, ReplicaSound
<1> HIDE DEF w
<1>11. ASSUME NEW x, x.replica = r
       PROVE  x \in Undone(c.undos) <=> x \in Undone(undo_map[r])
  BY <1>1, <1>3, <1>4, <1>5, <1>6, <1>10, <1>11, OwnUndone
<1>12. ASSUME \A q \in Author \ {r} : w[q] = v[q]
       PROVE  c.fragments = fragments[r] /\ Undone(c.undos) = Undone(undo_map[r])
  <2>1. w = v
    <3>1. VersionSound(S, v) /\ VersionSound(S, w) /\ ObservedAll(w, v)
      BY <1>4, <1>5, <1>6
    <3>2. \A p \in S : p.stamp.replica = r => Observed(v, p.stamp)
      BY <1>10
    <3>3. \A q \in Author \ {r} : w[q] = v[q]
      BY <1>12
    <3> HIDE DEF v, S
    <3> QED
      BY <3>1, <3>2, <3>3, OwnVersion, SMTT(30)
  <2>2. c.fragments = fragments[r]
    BY <1>3, <1>4, <1>6, <2>1, SameDocument
  <2> QED
    BY <1>4, <1>6, <2>1, <2>2
<1>13. /\ UndoGives(r, fragments[r], v, Undone(undo_map[r]), undo_stack[r])
       /\ RedoGives(r, fragments[r], v, Undone(undo_map[r]), redo_stack[r])
  BY DEF RestoreInv
<1>14. /\ UndoGives(r, c.fragments, w, Undone(c.undos), undo_stack[r])
       /\ RedoGives(r, c.fragments, w, Undone(c.undos), redo_stack[r])
  <2> DEFINE d == fragments[r]
             e == c.fragments
             N == Undone(undo_map[r])
             M == Undone(c.undos)
             us == undo_stack[r]
             rs == redo_stack[r]
  <2>1. v \in [Author -> Nat] /\ w \in [Author -> Nat] /\ ObservedAll(w, v)
    BY <1>4, <1>5, <1>6
  <2>2. \A x : x.replica = r => (x \in M <=> x \in N)
    BY <1>11
  <2>3. (\A q \in Author \ {r} : w[q] = v[q]) => e = d /\ M = N
    BY <1>12
  <2>4. UndoGives(r, d, v, N, us) /\ RedoGives(r, d, v, N, rs)
    BY <1>13
  <2> HIDE DEF v, d, e, N, M, us, rs
  <2>5. UndoGives(r, e, w, M, us) /\ RedoGives(r, e, w, M, rs)
    BY <2>1, <2>2, <2>3, <2>4, DeliverStack
  <2> QED
    BY <2>5 DEF e, M, us, rs
<1>15. OwnUndos'
  BY <1>1, <1>2 DEF OwnUndos
<1> QED
  BY <1>1, <1>8, <1>9, <1>14, <1>15, OthersStay

LEMMA RestoreInvStays == RestoreInv /\ [Next]_bufferVars => RestoreInv'
<1> SUFFICES ASSUME RestoreInv, [Next]_bufferVars PROVE RestoreInv'
  OBVIOUS
<1>1. ASSUME NEW r \in Replica, NEW end \in 0 .. TextLen(fragments[r]), NEW start \in 0 .. end,
             NEW len \in InsertLens, NEW grouped \in BOOLEAN,
             Edit(r, start, end, len, grouped)
      PROVE  RestoreInv'
  BY <1>1, RestoreEdit
<1>2. ASSUME NEW r \in Replica, Undo(r) \/ Redo(r) PROVE RestoreInv'
  BY <1>2, UndoIs, RedoIs
<1>3. ASSUME NEW r \in Replica, NEW n \in 1 .. BatchLen, NEW ops \in [1 .. n -> operations],
             Deliver(r, ops)
      PROVE  RestoreInv'
  <2>1. n \in Nat
    BY BufferAssumption
  <2> QED
    BY <1>3, <2>1, RestoreDeliver
<1>4. CASE UNCHANGED bufferVars
  <2>1. BufferInv'
    BY BufferInvStays DEF RestoreInv
  <2> QED
    BY <1>4, <2>1 DEF bufferVars, RestoreInv, OwnUndos
<1> QED
  BY <1>1, <1>2, <1>3, <1>4 DEF Next

\* What every copy shows.
TextsShown == \A r \in Replica :
        Text(fragments[r]) = TextUnder(fragments[r], Undone(undo_map[r]))

LEMMA InvShows == BufferInv => TextsShown
<1> SUFFICES ASSUME BufferInv, NEW r \in Replica
             PROVE  Text(fragments[r]) = TextUnder(fragments[r], Undone(undo_map[r]))
  BY DEF TextsShown
<1> DEFINE S == operations
           d == fragments[r]
<1>1. PICK O, X : CopySound(S, O, X, Copy(r))
  BY DEF BufferInv, WorldSound
<1>2. DocSound(S, O, X, d, version[r]) /\ d \in Seq(Char) /\ undo_map[r] = SeenUndos(S, version[r])
  BY <1>1, CopyIs
<1>3. \A i \in 1 .. Len(d) : d[i].visible = IsVisible(d[i], undo_map[r])
  BY <1>2 DEF DocSound
<1> QED
  BY <1>2, <1>3, TextIs

\* An undo brings back the text.
LEMMA StepRestores == RestoreInv => \A r \in Replica :
        Undo(r) =>
            ((\A q \in Author \ {r} : version[r][q] = Last(undo_stack[r]).start[q])
                => Text(fragments'[r]) = Last(undo_stack[r]).text)
<1> SUFFICES ASSUME RestoreInv, NEW r \in Replica, Undo(r),
                    \A q \in Author \ {r} : version[r][q] = Last(undo_stack[r]).start[q]
             PROVE  Text(fragments'[r]) = Last(undo_stack[r]).text
  OBVIOUS
<1> DEFINE t == Last(undo_stack[r])
<1>1. /\ RestoreInv'
      /\ Gives(r, fragments'[r], version'[r], t, Undone(undo_map'[r]))
  BY UndoIs
<1>2. Still(r, version'[r], t)
  <2>1. UndoOrRedo(r, t) /\ Functions
    BY DEF Undo, RestoreInv, BufferInv
  <2>2. \E s : s.replica = r /\ version' = [version EXCEPT ![r] = Observe(@, s)]
    <3>1. version' = [version EXCEPT ![r] =
              Observe(@, [value |-> lamport_clock[r], replica |-> r])]
      BY <2>1 DEF UndoOrRedo
    <3>2. [value |-> lamport_clock[r], replica |-> r].replica = r
      OBVIOUS
    <3> QED
      BY <3>1, <3>2
  <2>3. PICK s : s.replica = r /\ version'[r] = Observe(version[r], s)
    BY <2>1, <2>2, Zenon DEF Functions
  <2>4. PICK O, X : CopySound(operations, O, X, Copy(r))
    BY DEF RestoreInv, BufferInv, WorldSound
  <2>5. version[r] \in [Author -> Nat]
    BY <2>4, CopyIs
  <2>6. \A q \in Author \ {r} : version'[r][q] = version[r][q]
    BY <2>3, <2>5 DEF Observe
  <2> QED
    BY <2>6 DEF Still
<1>3. TextUnder(fragments'[r], Undone(undo_map'[r])) = t.text
  BY <1>1, <1>2 DEF Gives
<1>4. Text(fragments'[r]) = TextUnder(fragments'[r], Undone(undo_map'[r]))
  <2>1. BufferInv' => TextsShown'
    BY InvShows, PTL
  <2>2. BufferInv'
    BY <1>1 DEF RestoreInv
  <2> QED
    BY <2>1, <2>2 DEF TextsShown
<1> QED
  BY <1>3, <1>4

\* Undoing gives a user back the text the transaction began with, and so does
\* undoing it again after a redo, however many edits it has and whatever was
\* undone in between, unless another replica's operations came in
\* (History::pop_undo, pop_redo and undo_or_redo).
THEOREM UndoGivesBack == Spec => UndoRestores
<1>1. Spec => []RestoreInv
  BY RestoreInit, RestoreInvStays, PTL DEF Spec
<1>2. RestoreInv /\ [Next]_bufferVars =>
        [\A r \in Replica :
            Undo(r) =>
                LET entry == Last(undo_stack[r])
                IN  (\A q \in Author \ {r} : version[r][q] = entry.start[q]) =>
                        Text(fragments'[r]) = entry.text]_bufferVars
  BY StepRestores, Zenon
<1> QED
  BY <1>1, <1>2, PTL DEF Spec, UndoRestores
==============================================================================
