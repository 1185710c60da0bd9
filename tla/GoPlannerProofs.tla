-------------------------- MODULE GoPlannerProofs --------------------------
(***************************************************************************)
(* Proofs about the deterministic planner, for any numbers of pods, slots, *)
(* shards and replicas: its plans are plans that the validator VM runs, an *)
(* accepted one leaves nothing to plan, one that creates a cluster         *)
(* overwrites none, one that changes the number of shards leaves the slots *)
(* even, and none takes a replica that the spec asks for.                  *)
(*                                                                         *)
(* The builders' loops join lists of steps (Joined); what holds of every   *)
(* list of steps follows by induction on the number of lists, and what     *)
(* holds of a plan from the lists that its builder joins.                  *)
(***************************************************************************)
EXTENDS GoPlanner, PlanValidatorProofs, SequenceTheorems, WellFoundedInduction, TLAPS

-----------------------------------------------------------------------------
(***************************************************************************)
(* For any number of slots and of masters, the ranges of balancedSlotRange *)
(* cover the slots, are disjoint and differ in size by one at most.        *)
(***************************************************************************)
\* What the proofs need of a division: base is the quotient, rem the remainder.
LEMMA Division ==
    ASSUME NEW total \in Nat \ {0}, NEW count \in Nat
    PROVE  /\ count \div total \in Nat
           /\ count % total \in 0..total - 1
           /\ count = total * (count \div total) + (count % total)
  BY SMT

\* A larger index is at least one base further.
LEMMA Products ==
    ASSUME NEW i \in Nat, NEW j \in Nat, NEW base \in Nat, i < j
    PROVE  /\ i * base \in Nat
           /\ j * base >= i * base + base
  <1>1. j = i + 1 + (j - i - 1) /\ j - i - 1 \in Nat
    BY SMT
  <1>2. (j - i - 1) * base \in Nat
    BY <1>1, SMT
  <1>3. j * base = i * base + base + (j - i - 1) * base
    BY SMT
  <1> QED
    BY <1>2, <1>3, SMT

\* balancedSlotRange of different masters: the ranges do not overlap.
THEOREM RangesAreDisjoint ==
    ASSUME NEW total \in Nat \ {0}, NEW count \in Nat,
           NEW i \in 0..total - 1, NEW j \in 0..total - 1, i # j
    PROVE  BalancedSlotRange(i, total, count) \cap BalancedSlotRange(j, total, count) = {}
  <1> DEFINE base == count \div total
             rem == count % total
  <1>1. base \in Nat /\ rem \in Nat
    BY Division
  <1> HIDE DEF base, rem
  <1>2. ASSUME NEW a \in 0..total - 1, NEW b \in 0..total - 1, a < b
        PROVE  RangeStart(a, total, count) + RangeSize(a, total, count)
                   <= RangeStart(b, total, count)
    <2>1. a * base \in Nat /\ b * base >= a * base + base /\ b * base \in Int
      BY <1>1, <1>2, Products, SMT
    <2>2. /\ RangeStart(a, total, count) = a * base + (IF a < rem THEN a ELSE rem)
          /\ RangeStart(b, total, count) = b * base + (IF b < rem THEN b ELSE rem)
          /\ RangeSize(a, total, count) = base + (IF a < rem THEN 1 ELSE 0)
      BY DEF RangeStart, RangeSize, base, rem
    <2> QED
      BY <1>1, <1>2, <2>1, <2>2, SMT
  <1>3. \A a \in 0..total - 1 :
          RangeStart(a, total, count) \in Int /\ RangeSize(a, total, count) \in Int
    BY <1>1, SMT DEF RangeStart, RangeSize, base, rem
  <1>4. CASE i < j
    BY <1>2, <1>3, <1>4, SMT DEF BalancedSlotRange
  <1>5. CASE j < i
    BY <1>2, <1>3, <1>5, SMT DEF BalancedSlotRange
  <1> QED
    BY <1>4, <1>5, SMT

\* balancedSlotRange leaves no slot out: the first count % total ranges cover
\* (base + 1) slots each, the others base.
THEOREM RangesCover ==
    ASSUME NEW total \in Nat \ {0}, NEW count \in Nat, NEW slot \in 0..count - 1
    PROVE  \E i \in 0..total - 1 : slot \in BalancedSlotRange(i, total, count)
  <1> DEFINE base == count \div total
             rem == count % total
  <1>1. base \in Nat /\ rem \in 0..total - 1 /\ count = total * base + rem
    BY Division
  <1> HIDE DEF base, rem
  <1>2. \A i : BalancedSlotRange(i, total, count) =
                 (i * base + (IF i < rem THEN i ELSE rem)) ..
                 (i * base + (IF i < rem THEN i ELSE rem))
                     + (base + (IF i < rem THEN 1 ELSE 0)) - 1
    BY DEF BalancedSlotRange, RangeStart, RangeSize, base, rem
  <1>3. CASE slot < rem * (base + 1)
    <2> DEFINE i == slot \div (base + 1)
               r == slot % (base + 1)
    <2>1. i \in Nat /\ r \in 0..base /\ slot = (base + 1) * i + r
      <3>1. base + 1 \in Nat \ {0} /\ slot \in Nat
        BY <1>1, SMT
      <3>2. i \in Nat /\ r \in 0..(base + 1) - 1 /\ slot = (base + 1) * i + r
        BY <3>1, Division
      <3> QED
        BY <1>1, <3>2, SMT
    <2> HIDE DEF i, r
    <2>2. i < rem
      <3>1. SUFFICES ASSUME i >= rem PROVE FALSE
        BY <1>1, <2>1, SMT
      <3>2. (i - rem) * (base + 1) \in Nat
        BY <1>1, <2>1, <3>1, SMT
      <3>3. (base + 1) * i = rem * (base + 1) + (i - rem) * (base + 1)
        BY <1>1, <2>1, SMT
      <3>4. rem * (base + 1) \in Nat
        BY <1>1, SMT
      <3> QED
        BY <1>1, <1>3, <2>1, <3>2, <3>3, <3>4, SMT
    <2>3. slot = i * base + i + r /\ i * base \in Nat
      BY <1>1, <2>1, SMT
    <2>4. i \in 0..total - 1
      BY <1>1, <2>1, <2>2, SMT
    <2>5. slot \in BalancedSlotRange(i, total, count)
      BY <1>1, <1>2, <2>1, <2>2, <2>3, SMT
    <2> QED
      BY <2>4, <2>5
  <1>4. CASE slot >= rem * (base + 1)
    <2>1. base # 0
      <3>1. SUFFICES ASSUME base = 0 PROVE FALSE
        OBVIOUS
      <3>2. total * base = 0 /\ rem * (base + 1) = rem
        BY <1>1, <3>1, SMT
      <3> QED
        BY <1>1, <1>4, <3>2, SMT
    <2> DEFINE rest == slot - rem * (base + 1)
               q == rest \div base
               r == rest % base
               i == rem + q
    <2>2. rest \in Nat /\ rem * (base + 1) \in Nat
      BY <1>1, <1>4, SMT
    <2> HIDE DEF rest
    <2>3. q \in Nat /\ r \in 0..base - 1 /\ rest = base * q + r
      BY <1>1, <2>1, <2>2, Division
    <2> HIDE DEF q, r
    <2>4. slot = i * base + rem + r /\ i * base \in Nat
      <3>1. slot = rem * (base + 1) + rest
        BY <1>1, <2>2, SMT DEF rest
      <3>2. rem * (base + 1) = rem * base + rem /\ (rem + q) * base = rem * base + base * q
        BY <1>1, <2>3, SMT
      <3>3. (rem + q) * base \in Nat
        BY <1>1, <2>3, SMT
      <3>4. rem * base \in Nat /\ base * q \in Nat
        BY <1>1, <2>3, SMT
      <3> QED
        BY <1>1, <2>3, <3>1, <3>2, <3>3, <3>4, SMT
    <2>5. i \in rem..total - 1
      <3>1. i \in Nat /\ i >= rem
        BY <1>1, <2>3, SMT
      <3>2. SUFFICES ASSUME i >= total PROVE FALSE
        BY <1>1, <3>1, SMT
      <3>3. i * base >= total * base
        <4>1. (i - total) * base \in Nat
          BY <1>1, <3>1, <3>2, SMT
        <4>2. i * base = total * base + (i - total) * base
          BY <1>1, <3>1, SMT
        <4>3. total * base \in Nat
          BY <1>1, SMT
        <4> QED
          BY <4>1, <4>2, <4>3, SMT
      <3>4. total * base \in Nat
        BY <1>1, SMT
      <3> QED
        BY <1>1, <2>3, <2>4, <3>3, <3>4, SMT
    <2> HIDE DEF i
    <2>6. slot \in BalancedSlotRange(i, total, count)
      BY <1>1, <1>2, <2>1, <2>3, <2>4, <2>5, SMT
    <2> QED
      BY <1>1, <2>5, <2>6, SMT
  <1>5. rem * (base + 1) \in Nat
    BY <1>1, SMT
  <1> QED
    BY <1>3, <1>4, <1>5, SMT

-----------------------------------------------------------------------------
(***************************************************************************)
(* Induction on the naturals as a fact about a set, which the provers can  *)
(* instantiate, and what it says of the builders' loops.                   *)
(***************************************************************************)
\* A set of naturals that is not empty has a least member.
LEMMA LeastExists ==
  ASSUME NEW T, T \subseteq Nat, T # {}
  PROVE  \E x \in T : \A y \in T : ~(y < x)
<1>1. PICK R : R = OpToRel(<, Nat)
  OBVIOUS
<1>2. \A y, x \in Nat : y < x => <<y, x>> \in R
  BY <1>1, Zenon DEF OpToRel
<1>3. IsWellFoundedOn(R, Nat)
  BY <1>1, NatLessThanWellFounded, Zenon
<1>4. \E x \in T : \A y \in T : ~(<<y, x>> \in R)
  BY <1>3, WFMin, Zenon
<1> QED  BY <1>2, <1>4

\* A set with 0 and the successors of its members has every natural.
LEMMA NaturalInduction ==
  ASSUME NEW S, 0 \in S, \A n \in Nat : n \in S => n + 1 \in S
  PROVE  \A n \in Nat : n \in S
<1>1. SUFFICES ASSUME Nat \ S # {} PROVE FALSE
  OBVIOUS
<1>2. PICK x \in Nat \ S : \A y \in Nat \ S : ~(y < x)
  BY <1>1, LeastExists
<1>3. x # 0 /\ x - 1 \in Nat /\ x - 1 < x
  BY <1>2
<1>4. x - 1 \in S
  BY <1>2, <1>3
<1> QED  BY <1>2, <1>3, <1>4

\* The recursive function inside Joined exists: its equation has a solution for
\* every length.
LEMMA JoinedUnrolls ==
  ASSUME NEW count \in Nat, NEW parts
  PROVE  \E joined :
           /\ joined = [i \in 0..count |-> IF i = 0 THEN <<>> ELSE joined[i - 1] \o parts[i]]
           /\ Joined(count, parts) = joined[count]
<1> DEFINE Unrolls(f, n) ==
             f = [i \in 0..n |-> IF i = 0 THEN <<>> ELSE f[i - 1] \o parts[i]]
           S == {n \in Nat : \E f : Unrolls(f, n)}
<1>1. 0 \in S
  <2>1. Unrolls([i \in 0..0 |-> <<>>], 0)  OBVIOUS
  <2> QED  BY <2>1
<1>2. ASSUME NEW n \in Nat, n \in S PROVE n + 1 \in S
  <2>1. PICK f : Unrolls(f, n)  BY <1>2
  <2> DEFINE g == [i \in 0..n + 1 |-> IF i = n + 1 THEN f[n] \o parts[n + 1] ELSE f[i]]
  <2>2. ASSUME NEW i \in 0..n + 1
        PROVE  g[i] = IF i = 0 THEN <<>> ELSE g[i - 1] \o parts[i]
    <3>1. CASE i = n + 1
      <4>1. i - 1 \in 0..n /\ i - 1 = n /\ i # 0  BY <3>1
      <4> QED  BY <3>1, <4>1
    <3>2. CASE i \in 1..n
      <4>1. i - 1 \in 0..n /\ i # n + 1 /\ i - 1 # n + 1 /\ i # 0  BY <3>2
      <4> QED  BY <2>1, <3>2, <4>1
    <3>3. CASE i = 0  BY <2>1, <3>3
    <3> QED  BY <3>1, <3>2, <3>3
  <2>3. Unrolls(g, n + 1)  BY <2>2
  <2>4. \E h : Unrolls(h, n + 1)  BY <2>3
  <2> HIDE DEF Unrolls
  <2> QED  BY <2>4
<1>3. \E f : Unrolls(f, count)
  <2> HIDE DEF S
  <2>1. count \in S  BY <1>1, <1>2, NaturalInduction
  <2> QED  BY <2>1 DEF S
<1> DEFINE chosen == CHOOSE f : Unrolls(f, count)
<1>4. Unrolls(chosen, count)  BY <1>3
<1>5. Joined(count, parts) = chosen[count]
  BY DEF Joined
<1> QED  BY <1>4, <1>5

\* What is joined of lists over a set is a list over it.
LEMMA JoinedInSeq ==
  ASSUME NEW S, NEW count \in Nat, NEW parts, \A i \in 1..count : parts[i] \in Seq(S)
  PROVE  Joined(count, parts) \in Seq(S)
<1>1. PICK joined :
        /\ joined = [i \in 0..count |-> IF i = 0 THEN <<>> ELSE joined[i - 1] \o parts[i]]
        /\ Joined(count, parts) = joined[count]
  BY JoinedUnrolls
<1> DEFINE T == {n \in Nat : n <= count => joined[n] \in Seq(S)}
<1>2. 0 \in T
  BY <1>1
<1>3. ASSUME NEW n \in Nat, n \in T PROVE n + 1 \in T
  <2>1. SUFFICES ASSUME n + 1 <= count PROVE joined[n + 1] \in Seq(S)
    OBVIOUS
  <2>2. joined[n] \in Seq(S) /\ parts[n + 1] \in Seq(S)
    BY <1>3, <2>1
  <2>3. joined[n + 1] = joined[n] \o parts[n + 1]
    <3>1. n + 1 \in 0..count /\ n + 1 # 0 /\ (n + 1) - 1 = n
      BY <2>1
    <3> QED  BY <1>1, <3>1
  <2> QED  BY <2>2, <2>3, ConcatProperties
<1>4. count \in T
  <2> HIDE DEF T
  <2> QED  BY <1>2, <1>3, NaturalInduction
<1> QED  BY <1>1, <1>4

Has(list, e) == \E j \in 1..Len(list) : list[j] = e

\* What either of two lists has is in their concatenation.
LEMMA ConcatHas ==
  ASSUME NEW S, NEW a \in Seq(S), NEW b \in Seq(S), NEW e, Has(a, e) \/ Has(b, e)
  PROVE  Has(a \o b, e)
<1>1. PICK m \in Nat, n \in Nat : m = Len(a) /\ n = Len(b)
  BY LenProperties
<1>2. /\ Len(a \o b) = m + n
      /\ \A i \in 1..m + n : (a \o b)[i] = IF i <= m THEN a[i] ELSE b[i - m]
  BY <1>1, ConcatProperties
<1>3. CASE Has(a, e)
  <2>1. PICK j \in 1..m : a[j] = e
    BY <1>1, <1>3 DEF Has
  <2>2. j \in 1..m + n /\ j <= m
    OBVIOUS
  <2> QED  BY <1>2, <2>1, <2>2 DEF Has
<1>4. CASE Has(b, e)
  <2>1. PICK j \in 1..n : b[j] = e
    BY <1>1, <1>4 DEF Has
  <2>2. m + j \in 1..m + n /\ ~(m + j <= m) /\ (m + j) - m = j
    OBVIOUS
  <2>3. (a \o b)[m + j] = e
    BY <1>2, <2>1, <2>2
  <2> QED  BY <1>2, <2>2, <2>3 DEF Has
<1> QED  BY <1>3, <1>4

\* What one of the joined lists has is in the joined list.
LEMMA JoinedHas ==
  ASSUME NEW S, NEW count \in Nat, NEW parts, \A i \in 1..count : parts[i] \in Seq(S),
         NEW i \in 1..count, NEW e, Has(parts[i], e)
  PROVE  Has(Joined(count, parts), e)
<1>1. PICK joined :
        /\ joined = [n \in 0..count |-> IF n = 0 THEN <<>> ELSE joined[n - 1] \o parts[n]]
        /\ Joined(count, parts) = joined[count]
  BY JoinedUnrolls
<1> DEFINE T == {n \in Nat : n <= count =>
                    joined[n] \in Seq(S) /\ (i <= n => Has(joined[n], e))}
<1>2. 0 \in T
  <2>1. joined[0] = <<>>
    BY <1>1
  <2>2. ~(i <= 0)
    OBVIOUS
  <2> QED  BY <2>1, <2>2, EmptySeq
<1>3. ASSUME NEW n \in Nat, n \in T PROVE n + 1 \in T
  <2>1. SUFFICES ASSUME n + 1 <= count
                 PROVE  joined[n + 1] \in Seq(S) /\ (i <= n + 1 => Has(joined[n + 1], e))
    OBVIOUS
  <2>2. joined[n] \in Seq(S) /\ parts[n + 1] \in Seq(S) /\ (i <= n => Has(joined[n], e))
    BY <1>3, <2>1
  <2>3. joined[n + 1] = joined[n] \o parts[n + 1]
    <3>1. n + 1 \in 0..count /\ n + 1 # 0 /\ (n + 1) - 1 = n
      BY <2>1
    <3> QED  BY <1>1, <3>1
  <2>4. joined[n + 1] \in Seq(S)
    BY <2>2, <2>3, ConcatProperties
  <2>5. i <= n + 1 => i <= n \/ i = n + 1
    OBVIOUS
  <2>6. i <= n + 1 => Has(joined[n], e) \/ Has(parts[n + 1], e)
    BY <2>2, <2>5
  <2>7. i <= n + 1 => Has(joined[n + 1], e)
    BY <2>2, <2>3, <2>6, ConcatHas
  <2> QED  BY <2>4, <2>7
<1>4. count \in T
  <2> HIDE DEF T
  <2> QED  BY <1>2, <1>3, NaturalInduction
<1> QED  BY <1>1, <1>4

HasBefore(list, j, e) == \E g \in 1..j - 1 : list[g] = e

\* What stands in a concatenation: something of the first list, after what was
\* before it there, or something of the second, after all of the first.
LEMMA ConcatOrder ==
  ASSUME NEW S, NEW a \in Seq(S), NEW b \in Seq(S), NEW j \in 1..Len(a \o b)
  PROVE  \/ /\ j \in 1..Len(a) /\ (a \o b)[j] = a[j]
            /\ \A e : HasBefore(a, j, e) => HasBefore(a \o b, j, e)
         \/ /\ Has(b, (a \o b)[j])
            /\ \A e : Has(a, e) => HasBefore(a \o b, j, e)
<1>1. PICK m \in Nat, n \in Nat : m = Len(a) /\ n = Len(b)
  BY LenProperties
<1>2. PICK c : c = a \o b
  OBVIOUS
<1>3. /\ Len(c) = m + n
      /\ \A i \in 1..m + n : c[i] = IF i <= m THEN a[i] ELSE b[i - m]
  BY <1>1, <1>2, ConcatProperties
<1>4. j \in 1..m + n
  BY <1>2, <1>3
<1>5. \A i \in 1..m : c[i] = a[i]
  BY <1>3
<1>6. CASE j <= m
  <2>1. j \in 1..m /\ c[j] = a[j]
    BY <1>4, <1>5, <1>6
  <2>2. \A e : HasBefore(a, j, e) => HasBefore(c, j, e)
    BY <1>5, <2>1 DEF HasBefore
  <2> QED  BY <1>1, <1>2, <2>1, <2>2
<1>7. CASE ~(j <= m)
  <2>1. j - m \in 1..n /\ c[j] = b[j - m]
    BY <1>3, <1>4, <1>7
  <2>2. Has(b, c[j])
    BY <1>1, <2>1 DEF Has
  <2>3. ASSUME NEW e, Has(a, e) PROVE HasBefore(c, j, e)
    <3>1. PICK g \in 1..m : a[g] = e
      BY <1>1, <2>3 DEF Has
    <3>2. g \in 1..j - 1
      BY <1>4, <1>7
    <3> QED  BY <1>5, <3>1, <3>2 DEF HasBefore
  <2> QED  BY <1>2, <2>2, <2>3
<1> QED  BY <1>6, <1>7

\* The element of list at j is of the i-th of the parts, and all of the parts
\* before that one stands before it.
OfPart(list, parts, i, j) ==
    /\ Has(parts[i], list[j])
    /\ \A h \in 1..i - 1 : \A e : Has(parts[h], e) => HasBefore(list, j, e)

\* The joined list keeps the order of the lists.
LEMMA JoinedOrder ==
  ASSUME NEW S, NEW count \in Nat, NEW parts, \A i \in 1..count : parts[i] \in Seq(S)
  PROVE  \A j \in 1..Len(Joined(count, parts)) :
            \E i \in 1..count : OfPart(Joined(count, parts), parts, i, j)
<1>1. PICK joined :
        /\ joined = [n \in 0..count |-> IF n = 0 THEN <<>> ELSE joined[n - 1] \o parts[n]]
        /\ Joined(count, parts) = joined[count]
  BY JoinedUnrolls
<1> DEFINE Ordered(n, list) ==
             /\ list \in Seq(S)
             /\ \A h \in 1..n : \A e : Has(parts[h], e) => Has(list, e)
             /\ \A j \in 1..Len(list) : \E i \in 1..n : OfPart(list, parts, i, j)
           T == {n \in Nat : n <= count => Ordered(n, joined[n])}
<1>2. 0 \in T
  <2>1. joined[0] = <<>>
    BY <1>1
  <2>2. 1..Len(<<>>) = {} /\ 1..0 = {}
    BY EmptySeq
  <2> QED  BY <2>1, <2>2, EmptySeq
<1>3. ASSUME NEW n \in Nat, n \in T PROVE n + 1 \in T
  <2>1. SUFFICES ASSUME n + 1 <= count PROVE Ordered(n + 1, joined[n + 1])
    OBVIOUS
  <2>2. PICK a, b : a = joined[n] /\ b = parts[n + 1]
    OBVIOUS
  <2>3. Ordered(n, a) /\ a \in Seq(S) /\ b \in Seq(S)
    BY <1>3, <2>1, <2>2
  <2>4. PICK c : c = a \o b
    OBVIOUS
  <2>5. joined[n + 1] = c
    <3>1. n + 1 \in 0..count /\ n + 1 # 0 /\ (n + 1) - 1 = n
      BY <2>1
    <3> QED  BY <1>1, <2>2, <2>4, <3>1
  <2>6. c \in Seq(S)
    BY <2>3, <2>4, ConcatProperties
  <2>7. ASSUME NEW h \in 1..n + 1, NEW e, Has(parts[h], e) PROVE Has(c, e)
    <3>1. h \in 1..n \/ h = n + 1
      OBVIOUS
    <3>2. Has(a, e) \/ Has(b, e)
      BY <2>2, <2>3, <2>7, <3>1
    <3> QED  BY <2>3, <2>4, <3>2, ConcatHas
  <2>8. ASSUME NEW j \in 1..Len(c) PROVE \E i \in 1..n + 1 : OfPart(c, parts, i, j)
    <3>1. \/ /\ j \in 1..Len(a) /\ c[j] = a[j]
             /\ \A e : HasBefore(a, j, e) => HasBefore(c, j, e)
          \/ /\ Has(b, c[j])
             /\ \A e : Has(a, e) => HasBefore(c, j, e)
      BY <2>3, <2>4, <2>8, ConcatOrder
    <3>2. CASE /\ j \in 1..Len(a) /\ c[j] = a[j]
               /\ \A e : HasBefore(a, j, e) => HasBefore(c, j, e)
      <4>1. PICK i \in 1..n : OfPart(a, parts, i, j)
        BY <2>3, <3>2
      <4>2. OfPart(c, parts, i, j)
        BY <3>2, <4>1 DEF OfPart
      <4> QED  BY <4>2
    <3>3. CASE /\ Has(b, c[j])
               /\ \A e : Has(a, e) => HasBefore(c, j, e)
      <4>1. \A h \in 1..n : \A e : Has(parts[h], e) => HasBefore(c, j, e)
        BY <2>3, <3>3
      <4>2. (n + 1) - 1 = n /\ n + 1 \in 1..n + 1
        OBVIOUS
      <4>3. OfPart(c, parts, n + 1, j)
        BY <2>2, <3>3, <4>1, <4>2 DEF OfPart
      <4> QED  BY <4>2, <4>3
    <3> QED  BY <3>1, <3>2, <3>3
  <2> QED  BY <2>5, <2>6, <2>7, <2>8
<1>4. count \in T
  <2> HIDE DEF T
  <2> QED  BY <1>2, <1>3, NaturalInduction
<1> QED  BY <1>1, <1>4

\* Nothing joined is nothing.
LEMMA JoinedEmpty ==
  ASSUME NEW count \in Nat, NEW parts, \A i \in 1..count : parts[i] = <<>>
  PROVE  Joined(count, parts) = <<>>
<1>1. \A i \in 1..count : parts[i] \in Seq({})
  BY EmptySeq
<1>2. Joined(count, parts) \in Seq({})
  BY <1>1, JoinedInSeq
<1> QED  BY <1>2, LenProperties, EmptySeq

-----------------------------------------------------------------------------
(***************************************************************************)
(* A finite set of integers can be listed in ascending order.              *)
(***************************************************************************)
\* A finite set of integers that is not empty has a greatest member.
LEMMA GreatestExists ==
  ASSUME NEW T, T \subseteq Int, IsFiniteSet(T), T # {}
  PROVE  \E m \in T : \A y \in T : y <= m
<1> DEFINE Sized(U, n) == U \subseteq Int /\ IsFiniteSet(U) /\ Cardinality(U) = n + 1
           Tops(U) == \E m \in U : \A y \in U : y <= m
           S == {n \in Nat : \A U : Sized(U, n) => Tops(U)}
<1>1. 0 \in S
  <2>1. ASSUME NEW U, Sized(U, 0) PROVE Tops(U)
    <3>1. PICK x : U = {x}
      BY <2>1, FS_Singleton
    <3> QED  BY <2>1, <3>1
  <2> HIDE DEF Sized, Tops
  <2> QED  BY <2>1
<1>2. ASSUME NEW n \in Nat, n \in S PROVE n + 1 \in S
  <2>1. ASSUME NEW U, Sized(U, n + 1) PROVE Tops(U)
    <3>1. U # {}
      BY <2>1, FS_EmptySet
    <3>2. PICK x \in U : TRUE
      BY <3>1
    <3>3. Sized(U \ {x}, n)
      BY <2>1, FS_RemoveElement
    <3>4. Tops(U \ {x})
      <4> HIDE DEF Sized, Tops
      <4> QED  BY <1>2, <3>3
    <3>5. PICK m \in U \ {x} : \A y \in U \ {x} : y <= m
      BY <3>4
    <3>6. x \in Int /\ m \in Int
      BY <2>1
    <3>7. CASE x <= m
      <4>1. \A y \in U : y <= m  BY <3>5, <3>7
      <4> QED  BY <4>1
    <3>8. CASE m <= x
      <4>1. \A y \in U \ {x} : y \in Int /\ y <= x
        BY <2>1, <3>5, <3>6, <3>8
      <4>2. \A y \in U : y <= x
        BY <3>6, <4>1
      <4> QED  BY <4>2
    <3> QED  BY <3>6, <3>7, <3>8
  <2> HIDE DEF Sized, Tops
  <2> QED  BY <2>1
<1>3. Cardinality(T) \in Nat \ {0}
  BY FS_CardinalityType, FS_EmptySet
<1>4. Cardinality(T) - 1 \in S
  <2> HIDE DEF S
  <2> QED  BY <1>1, <1>2, <1>3, NaturalInduction
<1>5. Sized(T, Cardinality(T) - 1)
  BY <1>3
<1>6. Tops(T)
  <2> HIDE DEF Sized, Tops
  <2> QED  BY <1>4, <1>5
<1> QED  BY <1>6

Ascends(list) == \A i, j \in DOMAIN list : i < j => list[i] < list[j]

\* There is a list for InOrder to choose.
LEMMA SortedExists ==
  ASSUME NEW T, T \subseteq Int, IsFiniteSet(T)
  PROVE  \E list \in [1..Cardinality(T) -> T] : Ascends(list)
<1> DEFINE Sized(U, n) == U \subseteq Int /\ IsFiniteSet(U) /\ Cardinality(U) = n
           Sorts(U, n) == \E list \in [1..n -> U] : Ascends(list)
           S == {n \in Nat : \A U : Sized(U, n) => Sorts(U, n)}
<1>1. 0 \in S
  <2>1. ASSUME NEW U PROVE Sorts(U, 0)
    <3>1. [i \in 1..0 |-> 0] \in [1..0 -> U] /\ Ascends([i \in 1..0 |-> 0])
      BY DEF Ascends
    <3> QED  BY <3>1
  <2> HIDE DEF Sized, Sorts
  <2> QED  BY <2>1
<1>2. ASSUME NEW n \in Nat, n \in S PROVE n + 1 \in S
  <2>1. ASSUME NEW U, Sized(U, n + 1) PROVE Sorts(U, n + 1)
    <3>1. U # {}
      BY <2>1, FS_EmptySet
    <3>2. PICK m \in U : \A y \in U : y <= m
      BY <2>1, <3>1, GreatestExists
    <3>3. Sized(U \ {m}, n)
      BY <2>1, FS_RemoveElement
    <3>4. Sorts(U \ {m}, n)
      <4> HIDE DEF Sized, Sorts
      <4> QED  BY <1>2, <3>3
    <3>5. PICK list \in [1..n -> U \ {m}] : Ascends(list)
      BY <3>4
    <3> DEFINE longer == [i \in 1..n + 1 |-> IF i = n + 1 THEN m ELSE list[i]]
    <3>6. longer \in [1..n + 1 -> U]
      OBVIOUS
    <3>7. ASSUME NEW i \in 1..n + 1, NEW j \in 1..n + 1, i < j
          PROVE  longer[i] < longer[j]
      <4>1. i \in 1..n /\ longer[i] = list[i] /\ list[i] \in U \ {m}
        BY <3>7
      <4>2. CASE j = n + 1
        <5>1. longer[j] = m /\ list[i] <= m /\ list[i] # m
          BY <3>2, <4>1, <4>2
        <5>2. m \in Int /\ list[i] \in Int
          BY <2>1, <4>1
        <5> QED  BY <4>1, <5>1, <5>2
      <4>3. CASE j \in 1..n
        <5>1. longer[j] = list[j]
          BY <4>3
        <5> QED  BY <3>5, <3>7, <4>1, <4>3, <5>1 DEF Ascends
      <4> QED  BY <4>2, <4>3
    <3>8. Ascends(longer)
      BY <3>7 DEF Ascends
    <3> HIDE DEF longer
    <3> QED  BY <3>6, <3>8
  <2> HIDE DEF Sized, Sorts
  <2> QED  BY <2>1
<1>3. Cardinality(T) \in Nat
  BY FS_CardinalityType
<1>4. Cardinality(T) \in S
  <2> HIDE DEF S
  <2> QED  BY <1>1, <1>2, <1>3, NaturalInduction
<1>5. Sized(T, Cardinality(T))
  OBVIOUS
<1>6. Sorts(T, Cardinality(T))
  <2> HIDE DEF Sized, Sorts
  <2> QED  BY <1>4, <1>5
<1> QED  BY <1>6

\* InOrder lists the members, each of them once.
LEMMA InOrderLists ==
  ASSUME NEW T, T \subseteq Int, IsFiniteSet(T)
  PROVE  /\ InOrder(T) \in Seq(T)
         /\ Cardinality(T) \in Nat
         /\ Len(InOrder(T)) = Cardinality(T)
         /\ \A x \in T : \E i \in 1..Cardinality(T) : InOrder(T)[i] = x
         /\ Ascends(InOrder(T))
<1>1. PICK list : list = InOrder(T)
  OBVIOUS
<1>2. list \in [1..Cardinality(T) -> T] /\ Ascends(list)
  BY <1>1, SortedExists DEF InOrder, Ascends
<1>3. Cardinality(T) \in Nat
  BY FS_CardinalityType
<1>4. list \in Seq(T)
  BY <1>2, <1>3, SeqDef
<1>5. Len(list) = Cardinality(T)
  BY <1>2, <1>3, <1>4, LenProperties
<1>6. list \in Injection(1..Cardinality(T), T)
  <2>1. ASSUME NEW i \in 1..Cardinality(T), NEW j \in 1..Cardinality(T), list[i] = list[j]
        PROVE  i = j
    <3>1. list[i] \in Int /\ list[j] \in Int
      BY <1>2
    <3>2. i \in Int /\ j \in Int /\ ~(i < j) /\ ~(j < i)
      BY <1>2, <1>3, <2>1, <3>1 DEF Ascends
    <3> QED  BY <3>2
  <2> QED  BY <1>2, <2>1 DEF Injection, IsInjective
<1>7. list \in Surjection(1..Cardinality(T), T)
  BY <1>3, <1>6, FS_Injection, FS_Interval
<1>8. \A x \in T : \E i \in 1..Cardinality(T) : list[i] = x
  BY <1>7 DEF Surjection
<1> QED  BY <1>1, <1>2, <1>3, <1>4, <1>5, <1>8

-----------------------------------------------------------------------------
(***************************************************************************)
(* What the builders make: lists of steps, whose slots are slots.          *)
(***************************************************************************)
\* Pods and slots are numbers, as the planner computes with them.
LEMMA Numbers ==
  /\ Pods \subseteq Nat
  /\ Cardinality(Slots) \in Nat \ {0}
  /\ Slots = 0..Cardinality(Slots) - 1
  /\ IsFiniteSet(Slots)
<1>1. Pods \subseteq Nat
  BY PlannerAssumption
<1>2. PICK top \in Int : Slots = 0..top
  BY PlannerAssumption
<1>3. IsFiniteSet(Slots) /\ Cardinality(Slots) = IF 0 > top THEN 0 ELSE top + 1
  BY <1>2, FS_Interval
<1>4. Cardinality(Slots) # 0
  BY <1>2, <1>3, PlannerAssumption
<1> QED  BY <1>1, <1>2, <1>3, <1>4

Names == Int \cup Keys \cup {NoKey}

PodSteps == [action : {"EnsureNode", "WaitNodeReady", "DeleteNode"}, pod : Names]
MeetSteps == [action : {"MeetNode"}, source : Names, target : Names]
ReplicateSteps == [action : {"ReplicateNode"}, master : Names, replica : Names]
AddSteps == [action : {"AddSlots"}, pod : Names, slots : SUBSET Slots]
MigrateSteps ==
    [action : {"MigrateSlots"}, source : Names, target : Names, slots : SUBSET Slots]
ForgetSteps == [action : {"ForgetNode"}, key : Names, pod : Pods \cup {NoKey}]
VerifySteps == [action : {"VerifyCluster"}]

\* The steps that make nodes, those that move no slots, and those of every plan but
\* the one for a new cluster.
MakingSteps == PodSteps \cup MeetSteps \cup ReplicateSteps
KeepingSteps == MakingSteps \cup ForgetSteps
ChangingSteps == MakingSteps \cup MigrateSteps \cup ForgetSteps

\* The steps that make the pods of P, that give a master of M a replica, and that
\* retire the pods of P.
EnsureSteps(P) ==
    {step \in PodSteps : step.action \in {"EnsureNode", "WaitNodeReady"} /\ step.pod \in P}
FollowSteps(M) == {step \in ReplicateSteps : step.master \in M}
RetireSteps(P) ==
    {step \in PodSteps : step.action = "DeleteNode" /\ step.pod \in P} \cup ForgetSteps

\* The steps that leave the slots and the masters' number alone: all replicas follow
\* masters of M.
StayingSteps(M) == EnsureSteps(Int) \cup MeetSteps \cup FollowSteps(M) \cup RetireSteps(Names)

RequestTypes ==
    /\ spec \in [shards : 1..MaxShards, replicas : 1..MaxReplicas]
    /\ nextPodOrdinal \in Nat

\* A function of the positions of a list is a list as long.
LEMMA MappedInSeq ==
  ASSUME NEW S, NEW list, NEW n \in Nat, DOMAIN list = 1..n,
         NEW mapped, mapped = [i \in DOMAIN list |-> mapped[i]],
         \A i \in 1..n : mapped[i] \in S
  PROVE  mapped \in Seq(S) /\ Len(mapped) = n /\ DOMAIN mapped = 1..n
<1>1. mapped \in [1..n -> S]
  OBVIOUS
<1>2. mapped \in Seq(S)
  BY <1>1, SeqDef
<1> QED  BY <1>1, <1>2, LenProperties

\* Ordinals counts up from its first number.
LEMMA OrdinalsInSeq ==
  ASSUME NEW first \in Int, NEW count \in Nat
  PROVE  /\ Ordinals(first, count) \in Seq(Int)
         /\ Len(Ordinals(first, count)) = count
         /\ DOMAIN Ordinals(first, count) = 1..count
         /\ \A i \in 1..count : Ordinals(first, count)[i] = first + i - 1
<1>1. Ordinals(first, count) \in [1..count -> Int]
  BY DEF Ordinals
<1>2. Ordinals(first, count) \in Seq(Int)
  BY <1>1, SeqDef
<1> QED  BY <1>1, <1>2, LenProperties DEF Ordinals

\* A step of names and slots is a step of its kind.
LEMMA StepTypes ==
  ASSUME NEW p \in Names, NEW q \in Names, NEW moved \in SUBSET Slots
  PROVE  /\ Ensure(p) \in MakingSteps
         /\ Wait(p) \in MakingSteps
         /\ Meet(p, q) \in MakingSteps
         /\ Replicate(p, q) \in MakingSteps
         /\ Add(p, moved) \in AddSteps
         /\ Migrate(p, q, moved) \in MigrateSteps
         /\ Migrate(p, q, moved) \in ChangingSteps
         /\ ForgetKey(p) \in KeepingSteps
         /\ Delete(p) \in KeepingSteps
<1>1. Ensure(p) \in PodSteps /\ Wait(p) \in PodSteps /\ Delete(p) \in PodSteps
  BY DEF Ensure, Wait, Delete, PodSteps
<1>2. Meet(p, q) \in MeetSteps
  BY DEF Meet, MeetSteps
<1>3. Replicate(p, q) \in ReplicateSteps
  BY DEF Replicate, ReplicateSteps
<1>4. Add(p, moved) \in AddSteps
  BY DEF Add, AddSteps
<1>5. Migrate(p, q, moved) \in MigrateSteps
  BY DEF Migrate, MigrateSteps
<1>6. ForgetKey(p) \in ForgetSteps
  BY DEF ForgetKey, ForgetSteps, Names
<1> QED  BY <1>1, <1>2, <1>3, <1>4, <1>5, <1>6 DEF MakingSteps, KeepingSteps, ChangingSteps

\* The steps of a kind, by the names in them.
LEMMA StepKinds ==
  ASSUME NEW P \in SUBSET Names, NEW p \in P
  PROVE  /\ Ensure(p) \in EnsureSteps(P) /\ Wait(p) \in EnsureSteps(P)
         /\ ForgetKey(p) \in RetireSteps(P) /\ Delete(p) \in RetireSteps(P)
         /\ \A q \in Names : Replicate(p, q) \in FollowSteps(P) /\ Meet(p, q) \in MeetSteps
<1>1. Ensure(p) \in EnsureSteps(P) /\ Wait(p) \in EnsureSteps(P)
  BY DEF Ensure, Wait, EnsureSteps, PodSteps
<1>2. Delete(p) \in RetireSteps(P)
  BY DEF Delete, RetireSteps, PodSteps
<1>3. ForgetKey(p) \in RetireSteps(P)
  BY DEF ForgetKey, RetireSteps, ForgetSteps
<1>4. \A q \in Names : Replicate(p, q) \in FollowSteps(P) /\ Meet(p, q) \in MeetSteps
  BY DEF Replicate, Meet, FollowSteps, ReplicateSteps, MeetSteps
<1> QED  BY <1>1, <1>2, <1>3, <1>4

\* They are steps that a plan may have.
LEMMA KindsAreSteps ==
  ASSUME NEW P, NEW M
  PROVE  /\ EnsureSteps(P) \subseteq MakingSteps
         /\ FollowSteps(M) \subseteq MakingSteps
         /\ RetireSteps(P) \subseteq KeepingSteps
         /\ StayingSteps(M) \subseteq KeepingSteps
BY DEF EnsureSteps, FollowSteps, RetireSteps, StayingSteps, MakingSteps, KeepingSteps

\* replicaProvisionSteps and its like: the pods are ensured, then awaited.
LEMMA ProvisionEnsures ==
  ASSUME NEW P \in SUBSET Names, NEW pods \in Seq(P)
  PROVE  Provision(pods) \in Seq(EnsureSteps(P))
<1>1. Len(pods) \in Nat /\ DOMAIN pods = 1..Len(pods) /\ \A i \in DOMAIN pods : pods[i] \in P
  BY LenProperties
<1>2. Each(Ensure, pods) \in Seq(EnsureSteps(P))
  <2> DEFINE mapped == Each(Ensure, pods)
  <2>1. mapped = [i \in DOMAIN pods |-> mapped[i]] /\ \A i \in 1..Len(pods) : mapped[i] \in EnsureSteps(P)
    BY <1>1, StepKinds DEF Each
  <2> HIDE DEF mapped
  <2>2. mapped \in Seq(EnsureSteps(P))  BY <1>1, <2>1, MappedInSeq
  <2> QED  BY <2>2 DEF mapped
<1>3. Each(Wait, pods) \in Seq(EnsureSteps(P))
  <2> DEFINE mapped == Each(Wait, pods)
  <2>1. mapped = [i \in DOMAIN pods |-> mapped[i]] /\ \A i \in 1..Len(pods) : mapped[i] \in EnsureSteps(P)
    BY <1>1, StepKinds DEF Each
  <2> HIDE DEF mapped
  <2>2. mapped \in Seq(EnsureSteps(P))  BY <1>1, <2>1, MappedInSeq
  <2> QED  BY <2>2 DEF mapped
<1> QED  BY <1>2, <1>3, ConcatProperties DEF Provision

\* Any pods are made so.
LEMMA ProvisionMakes ==
  ASSUME NEW pods \in Seq(Names)
  PROVE  Provision(pods) \in Seq(MakingSteps)
BY ProvisionEnsures, KindsAreSteps, SeqMonotonic

\* The MeetNode steps of a list of pods.
LEMMA MeetAllMeets ==
  ASSUME NEW seed \in Names, NEW pods \in Seq(Names)
  PROVE  MeetAll(seed, pods) \in Seq(MeetSteps)
<1>1. Len(pods) \in Nat /\ DOMAIN pods = 1..Len(pods) /\ \A i \in DOMAIN pods : pods[i] \in Names
  BY LenProperties
<1> DEFINE mapped == MeetAll(seed, pods)
<1>2. mapped = [i \in DOMAIN pods |-> mapped[i]] /\ \A i \in 1..Len(pods) : mapped[i] \in MeetSteps
  BY <1>1, StepKinds DEF MeetAll, Each
<1> HIDE DEF mapped
<1>3. mapped \in Seq(MeetSteps)  BY <1>1, <1>2, MappedInSeq
<1> QED  BY <1>3 DEF mapped

\* They are steps that make nodes.
LEMMA MeetAllMakes ==
  ASSUME NEW seed \in Names, NEW pods \in Seq(Names)
  PROVE  MeetAll(seed, pods) \in Seq(MakingSteps)
<1>1. MeetAll(seed, pods) \in Seq(MeetSteps)
  BY MeetAllMeets
<1> QED  BY <1>1, SeqMonotonic DEF MakingSteps

\* The numbers of a group of pods.
LEMMA GroupMasters ==
  ASSUME RequestTypes, NEW first \in Int, NEW i \in Int
  PROVE  /\ GroupSize \in Nat \ {0}
         /\ GroupMaster(first, i) \in Int
         /\ spec.replicas \in Nat
         /\ spec.shards \in Nat \ {0}
<1>1. spec.replicas \in Nat /\ spec.shards \in Nat \ {0}
  BY PlannerAssumption DEF RequestTypes
<1>2. GroupSize \in Nat \ {0}
  BY <1>1 DEF GroupSize
<1>3. \A g \in Int : (i - 1) * g \in Int
  OBVIOUS
<1>4. GroupMaster(first, i) \in Int
  BY <1>2, <1>3 DEF GroupMaster
<1> QED  BY <1>1, <1>2, <1>4

\* Ordinals that start at 1 are positions.
LEMMA Counting ==
  ASSUME NEW count \in Nat
  PROVE  /\ Ordinals(1, count) \in Seq(1..count)
         /\ Len(Ordinals(1, count)) = count
         /\ DOMAIN Ordinals(1, count) = 1..count
         /\ \A i \in 1..count : Ordinals(1, count)[i] = i
<1>1. Ordinals(1, count) \in [1..count -> 1..count]
  BY DEF Ordinals
<1>2. Ordinals(1, count) \in Seq(1..count)
  BY <1>1, SeqDef
<1> QED  BY <1>1, <1>2, LenProperties DEF Ordinals

\* The ReplicateNode steps of new groups.
LEMMA GroupsFollow ==
  ASSUME RequestTypes, NEW first \in Int, NEW count \in Nat
  PROVE  ReplicateGroups(first, count)
           \in Seq(FollowSteps({GroupMaster(first, i) : i \in 1..count}))
<1> DEFINE S == FollowSteps({GroupMaster(first, i) : i \in 1..count})
           group(i) == Ordinals(GroupMaster(first, i) + 1, spec.replicas)
           parts == [i \in DOMAIN Ordinals(1, count) |->
                       [k \in DOMAIN group(Ordinals(1, count)[i]) |->
                          Replicate(GroupMaster(first, Ordinals(1, count)[i]),
                                    group(Ordinals(1, count)[i])[k])]]
<1>1. /\ Len(Ordinals(1, count)) = count /\ DOMAIN Ordinals(1, count) = 1..count
      /\ \A i \in 1..count : Ordinals(1, count)[i] = i
  BY Counting
<1>2. ASSUME NEW i \in 1..count PROVE parts[i] \in Seq(S)
  <2>1. GroupMaster(first, i) \in Int /\ spec.replicas \in Nat
    BY GroupMasters
  <2>2. /\ DOMAIN group(i) = 1..spec.replicas
        /\ \A k \in 1..spec.replicas : group(i)[k] \in Int
    <3>1. PICK f \in Int : f = GroupMaster(first, i) + 1
      BY <2>1
    <3>2. PICK n \in Nat : n = spec.replicas
      BY <2>1
    <3>3. DOMAIN Ordinals(f, n) = 1..n /\ \A k \in 1..n : Ordinals(f, n)[k] \in Int
      BY OrdinalsInSeq
    <3> QED  BY <3>1, <3>2, <3>3
  <2> DEFINE mapped == [k \in DOMAIN group(i) |-> Replicate(GroupMaster(first, i), group(i)[k])]
  <2>3. \A k \in 1..spec.replicas : mapped[k] \in S
    <3>1. /\ GroupMaster(first, i) \in {GroupMaster(first, m) : m \in 1..count}
          /\ {GroupMaster(first, m) : m \in 1..count} \in SUBSET Names
      BY GroupMasters DEF Names
    <3>2. \A k \in 1..spec.replicas : group(i)[k] \in Names
      BY <2>2 DEF Names
    <3>3. \A q \in Names : Replicate(GroupMaster(first, i), q) \in S
      BY <3>1, StepKinds
    <3> HIDE DEF S, group
    <3> QED  BY <2>2, <3>2, <3>3
  <2>4. parts[i] = mapped
    BY <1>1
  <2>5. mapped = [k \in DOMAIN group(i) |-> mapped[k]]
    OBVIOUS
  <2> HIDE DEF mapped, group, S
  <2>6. mapped \in Seq(S)
    BY <2>1, <2>2, <2>3, <2>5, MappedInSeq
  <2> QED  BY <2>4, <2>6
<1>3. ReplicateGroups(first, count) = Joined(count, parts)
  BY <1>1 DEF ReplicateGroups, Chain, Each
<1> HIDE DEF parts, S
<1>4. ReplicateGroups(first, count) \in Seq(S)
  BY <1>2, <1>3, JoinedInSeq
<1> QED  BY <1>4 DEF S

\* They are steps that make nodes.
LEMMA ReplicateGroupsMake ==
  ASSUME RequestTypes, NEW first \in Int, NEW count \in Nat
  PROVE  ReplicateGroups(first, count) \in Seq(MakingSteps)
BY GroupsFollow, KindsAreSteps, SeqMonotonic

\* A pod is retired by a ForgetNode and a DeleteNode.
LEMMA RetireKind ==
  ASSUME NEW P \in SUBSET Names, NEW p \in P
  PROVE  RetirePod(p) \in Seq(RetireSteps(P)) /\ Has(RetirePod(p), Delete(p))
<1>1. ForgetKey(p) \in RetireSteps(P) /\ Delete(p) \in RetireSteps(P)
  BY StepKinds
<1>2. RetirePod(p) \in Seq(RetireSteps(P))
  BY <1>1 DEF RetirePod
<1>3. Len(RetirePod(p)) = 2 /\ RetirePod(p)[2] = Delete(p)
  BY DEF RetirePod
<1> QED  BY <1>2, <1>3 DEF Has

\* So are the pods of a list, one after the other.
LEMMA RetireEach ==
  ASSUME NEW P \in SUBSET Names, NEW list \in Seq(P)
  PROVE  /\ Chain(RetirePod, list) \in Seq(RetireSteps(P))
         /\ \A i \in 1..Len(list) : Has(Chain(RetirePod, list), Delete(list[i]))
<1> DEFINE parts == [i \in DOMAIN list |-> RetirePod(list[i])]
<1>1. Len(list) \in Nat /\ DOMAIN list = 1..Len(list) /\ \A i \in DOMAIN list : list[i] \in P
  BY LenProperties
<1>2. \A i \in 1..Len(list) : parts[i] \in Seq(RetireSteps(P)) /\ Has(parts[i], Delete(list[i]))
  BY <1>1, RetireKind
<1>3. Chain(RetirePod, list) = Joined(Len(list), parts)
  BY DEF Chain, Each
<1> HIDE DEF parts
<1>4. Chain(RetirePod, list) \in Seq(RetireSteps(P))
  BY <1>1, <1>2, <1>3, JoinedInSeq
<1>5. \A i \in 1..Len(list) : Has(Joined(Len(list), parts), Delete(list[i]))
  BY <1>1, <1>2, JoinedHas
<1> QED  BY <1>3, <1>4, <1>5

\* Retiring pods moves no slots.
LEMMA RetireRetires ==
  ASSUME NEW p \in Names
  PROVE  RetirePod(p) \in Seq(KeepingSteps)
BY RetireKind, KindsAreSteps, SeqMonotonic

\* Neither does retiring a list of them.
LEMMA RetireAll ==
  ASSUME NEW list \in Seq(Names)
  PROVE  Chain(RetirePod, list) \in Seq(KeepingSteps)
BY RetireEach, KindsAreSteps, SeqMonotonic

-----------------------------------------------------------------------------
(***************************************************************************)
(* The observed topology, as the builders read it.                         *)
(***************************************************************************)
PodsExist == exists \subseteq Pods

\* The masters and the replicas of each are finite sets of ordinals, and listed.
LEMMA Observed ==
  ASSUME TypeOK, PodsExist
  PROVE  /\ MasterSet \subseteq Int /\ IsFiniteSet(MasterSet)
         /\ Masters \in Seq(MasterSet)
         /\ Len(Masters) = Cardinality(MasterSet)
         /\ Cardinality(MasterSet) \in Nat
         /\ \A i \in 1..Len(Masters) : Masters[i] \in MasterSet
         /\ \A m : /\ ReplicasOf(m) \subseteq Int /\ IsFiniteSet(ReplicasOf(m))
                   /\ ReplicaList(m) \in Seq(ReplicasOf(m))
                   /\ Len(ReplicaList(m)) = ReplicaCount(m)
                   /\ ReplicaCount(m) \in Nat
<1>1. exists \subseteq Int /\ IsFiniteSet(exists)
  <2>1. IsFiniteSet(Keys) /\ exists \in SUBSET Keys
    BY KeysAssumption DEF TypeOK
  <2>2. IsFiniteSet(exists)
    BY <2>1, FS_Subset
  <2> QED  BY <2>2, Numbers DEF PodsExist
<1>2. MasterSet \subseteq Int /\ IsFiniteSet(MasterSet)
  <2>1. MasterSet \in SUBSET exists
    BY DEF MasterSet
  <2> QED  BY <1>1, <2>1, FS_Subset
<1>3. /\ Masters \in Seq(MasterSet)
      /\ Len(Masters) = Cardinality(MasterSet)
      /\ Cardinality(MasterSet) \in Nat
  BY <1>2, InOrderLists DEF Masters
<1>4. \A i \in 1..Len(Masters) : Masters[i] \in MasterSet
  BY <1>3, ElementOfSeq
<1>5. ASSUME NEW m
      PROVE  /\ ReplicasOf(m) \subseteq Int /\ IsFiniteSet(ReplicasOf(m))
             /\ ReplicaList(m) \in Seq(ReplicasOf(m))
             /\ Len(ReplicaList(m)) = ReplicaCount(m)
             /\ ReplicaCount(m) \in Nat
  <2>1. ReplicasOf(m) \in SUBSET exists
    BY DEF ReplicasOf
  <2>2. ReplicasOf(m) \subseteq Int /\ IsFiniteSet(ReplicasOf(m))
    BY <1>1, <2>1, FS_Subset
  <2> QED  BY <2>2, InOrderLists DEF ReplicaList, ReplicaCount
<1> QED  BY <1>2, <1>3, <1>4, <1>5

\* Each master stands in Missing as often as it lacks a replica.
LEMMA MissingLists ==
  ASSUME TypeOK, PodsExist, RequestTypes
  PROVE  /\ Missing \in Seq(MasterSet)
         /\ (\A m \in MasterSet : ReplicaCount(m) >= spec.replicas) => Missing = <<>>
<1> DEFINE lacked(m) == Cardinality({i \in 1..spec.replicas : i > ReplicaCount(m)})
           parts == [k \in DOMAIN Masters |->
                       [i \in DOMAIN Ordinals(1, lacked(Masters[k])) |-> Masters[k]]]
<1>1. spec.replicas \in Nat
  BY DEF RequestTypes
<1>2. \A m : lacked(m) \in Nat
  <2>1. \A m : IsFiniteSet({i \in 1..spec.replicas : i > ReplicaCount(m)})
    <3>1. IsFiniteSet(1..spec.replicas)
      BY <1>1, FS_Interval
    <3> QED  BY <3>1, FS_Subset
  <2> QED  BY <2>1, FS_CardinalityType
<1>3. Missing = Joined(Len(Masters), parts)
  BY DEF Missing, Chain, Each
<1>4. Len(Masters) \in Nat /\ DOMAIN Masters = 1..Len(Masters)
  BY Observed, LenProperties
<1>5. ASSUME NEW k \in 1..Len(Masters)
      PROVE  /\ parts[k] \in Seq(MasterSet)
             /\ lacked(Masters[k]) = 0 => parts[k] = <<>>
  <2>1. Masters[k] \in MasterSet
    BY Observed
  <2>2. PICK n \in Nat : n = lacked(Masters[k])
    BY <1>2
  <2>3. DOMAIN Ordinals(1, n) = 1..n
    BY Counting
  <2> DEFINE mapped == [i \in 1..n |-> Masters[k]]
  <2>4. parts[k] = mapped
    BY <1>4, <2>2, <2>3
  <2> HIDE DEF parts, lacked
  <2>5. mapped \in Seq(MasterSet)
    BY <2>1, SeqDef
  <2>6. n = 0 => mapped = <<>>
    OBVIOUS
  <2> QED  BY <2>2, <2>4, <2>5, <2>6
<1>6. Missing \in Seq(MasterSet)
  <2> HIDE DEF parts
  <2> QED  BY <1>3, <1>4, <1>5, JoinedInSeq
<1>7. ASSUME \A m \in MasterSet : ReplicaCount(m) >= spec.replicas
      PROVE  Missing = <<>>
  <2>1. ASSUME NEW m \in MasterSet PROVE lacked(m) = 0
    <3>1. ReplicaCount(m) \in Nat
      BY Observed
    <3>2. {i \in 1..spec.replicas : i > ReplicaCount(m)} = {}
      BY <1>1, <1>7, <3>1
    <3> QED  BY <3>2, FS_EmptySet
  <2>2. \A k \in 1..Len(Masters) : parts[k] = <<>>
    <3> HIDE DEF parts, lacked
    <3> QED  BY <1>5, <2>1, Observed
  <2> HIDE DEF parts
  <2> QED  BY <1>3, <1>4, <2>2, JoinedEmpty
<1> QED  BY <1>6, <1>7

\* The observed nodes are names that a step may have.
LEMMA NamesHold ==
  ASSUME TypeOK, PodsExist
  PROVE  MasterSet \subseteq Names /\ \A m : ReplicasOf(m) \subseteq Names
BY Observed DEF Names

-----------------------------------------------------------------------------
(***************************************************************************)
(* One lemma per builder: the steps of its plan.                           *)
(***************************************************************************)
\* A plan is its steps and a VerifyCluster, and no plan without steps.
LEMMA VerifiedPlans ==
  ASSUME NEW S, NEW steps \in Seq(S)
  PROVE  /\ Verified(steps) \in Seq(S \cup VerifySteps)
         /\ steps = <<>> => Verified(steps) = <<>>
<1>1. VerifySpec \in VerifySteps
  BY DEF VerifySpec, VerifySteps
<1>2. steps \in Seq(S \cup VerifySteps)
  BY SeqMonotonic
<1>3. Append(steps, VerifySpec) \in Seq(S \cup VerifySteps)
  BY <1>1, <1>2
<1>4. <<>> \in Seq(S \cup VerifySteps)
  BY EmptySeq
<1> QED  BY <1>3, <1>4 DEF Verified

\* replicaProvisionSteps makes nothing for no masters.
LEMMA ProvisionReplicasStay ==
  ASSUME RequestTypes, NEW M \in SUBSET Names, NEW masters \in Seq(M)
  PROVE  /\ ProvisionReplicas(masters) \in Seq(StayingSteps(M))
         /\ masters = <<>> => ProvisionReplicas(masters) = <<>>
<1>1. PICK n \in Nat : n = Len(masters)
  BY LenProperties
<1>2. DOMAIN masters = 1..n /\ \A i \in 1..n : masters[i] \in M
  BY <1>1, LenProperties
<1>3. PICK pods : pods = Ordinals(nextPodOrdinal, n)
  OBVIOUS
<1>4. /\ pods \in Seq(Int) /\ Len(pods) = n /\ DOMAIN pods = 1..n
      /\ \A i \in 1..n : pods[i] \in Int
  <2>1. nextPodOrdinal \in Int
    BY DEF RequestTypes
  <2>2. \A i \in 1..n : nextPodOrdinal + i - 1 \in Int
    BY <2>1
  <2> QED  BY <1>3, <2>1, <2>2, OrdinalsInSeq
<1> DEFINE meets == [i \in DOMAIN masters |-> Meet(masters[i], pods[i])]
           follows == [i \in DOMAIN masters |-> Replicate(masters[i], pods[i])]
<1>6. Provision(pods) \in Seq(StayingSteps(M))
  <2>1. Int \in SUBSET Names
    BY DEF Names
  <2>2. Provision(pods) \in Seq(EnsureSteps(Int))
    BY <1>4, <2>1, ProvisionEnsures
  <2> QED  BY <2>2, SeqMonotonic DEF StayingSteps
<1>7. meets \in Seq(StayingSteps(M))
  <2>1. meets = [i \in DOMAIN masters |-> meets[i]] /\ \A i \in 1..n : meets[i] \in StayingSteps(M)
    BY <1>2, <1>4, StepKinds DEF Names, StayingSteps
  <2> HIDE DEF meets
  <2> QED  BY <1>2, <2>1, MappedInSeq
<1>8. follows \in Seq(StayingSteps(M))
  <2>1. follows = [i \in DOMAIN masters |-> follows[i]] /\ \A i \in 1..n : follows[i] \in StayingSteps(M)
    BY <1>2, <1>4, StepKinds DEF Names, StayingSteps
  <2> HIDE DEF follows
  <2> QED  BY <1>2, <2>1, MappedInSeq
<1>9. ProvisionReplicas(masters) = (Provision(pods) \o meets) \o follows
  BY <1>1, <1>3 DEF ProvisionReplicas
<1>10. ProvisionReplicas(masters) \in Seq(StayingSteps(M))
  <2> HIDE DEF meets, follows
  <2>1. Provision(pods) \o meets \in Seq(StayingSteps(M))
    BY <1>6, <1>7, ConcatProperties
  <2> QED  BY <1>8, <1>9, <2>1, ConcatProperties
<1>11. ASSUME masters = <<>> PROVE ProvisionReplicas(masters) = <<>>
  <2>1. n = 0
    BY <1>1, <1>11, EmptySeq
  <2>2. pods = <<>> /\ meets = <<>> /\ follows = <<>>
    BY <1>2, <1>4, <2>1
  <2>3. Provision(<<>>) = <<>>
    BY DEF Provision, Each
  <2> HIDE DEF meets, follows
  <2> QED  BY <1>9, <2>2, <2>3
<1> QED  BY <1>10, <1>11

\* balancedSlotRange stays within the slots.
LEMMA RangesFit ==
  ASSUME NEW total \in Nat \ {0}, NEW count \in Nat, NEW i \in 0..total - 1
  PROVE  /\ RangeStart(i, total, count) \in Nat
         /\ RangeSize(i, total, count) \in Nat
         /\ RangeStart(i, total, count) + RangeSize(i, total, count) <= count
<1> DEFINE base == count \div total
           rem == count % total
<1>1. base \in Nat /\ rem \in 0..total - 1 /\ count = total * base + rem
  BY Division
<1> HIDE DEF base, rem
<1>2. i * base \in Nat /\ total * base >= i * base + base
  BY <1>1, Products, SMT
<1>3. /\ RangeStart(i, total, count) = i * base + (IF i < rem THEN i ELSE rem)
      /\ RangeSize(i, total, count) = base + (IF i < rem THEN 1 ELSE 0)
  BY DEF RangeStart, RangeSize, base, rem
<1> QED  BY <1>1, <1>2, <1>3, SMT

\* A move to the i-th target, of slots in the i-th range.
MovesTo(targets) ==
    {step \in MigrateSteps :
        \E i \in 1..Len(targets) :
            /\ step.target = targets[i]
            /\ step.slots \subseteq BalancedSlotRange(i - 1, Len(targets), Cardinality(Slots))}

\* migrationSteps: what a step moves is part of its target's range, and every slot of
\* the range that another owns is moved.
LEMMA MigrationsMove ==
  ASSUME TypeOK, NEW targets \in Seq(Names)
  PROVE  /\ Migrations(targets) \in Seq(MovesTo(targets))
         /\ \A i \in 1..Len(targets) :
              \A s \in BalancedSlotRange(i - 1, Len(targets), Cardinality(Slots)) :
                slotOwners[s] # targets[i] =>
                  \E step \in MovesTo(targets) :
                    /\ Has(Migrations(targets), step)
                    /\ step.source = slotOwners[s] /\ step.target = targets[i]
                    /\ s \in step.slots
<1> DEFINE total == Len(targets)
           count == Cardinality(Slots)
           taken(i, s) == {x \in BalancedSlotRange(i - 1, total, count) :
                             slotOwners[x] = slotOwners[s]}
           move(i, s) == IF slotOwners[s] # targets[i] /\ \A x \in taken(i, s) : s <= x
                         THEN <<Migrate(slotOwners[s], targets[i], taken(i, s))>>
                         ELSE <<>>
           share(i) == Ordinals(RangeStart(i - 1, total, count), RangeSize(i - 1, total, count))
           part(i) == Joined(Len(share(i)), [k \in DOMAIN share(i) |-> move(i, share(i)[k])])
           parts == [k \in DOMAIN Ordinals(1, total) |-> part(Ordinals(1, total)[k])]
<1>1. total \in Nat /\ \A i \in 1..total : targets[i] \in Names
  BY LenProperties
<1>2. count \in Nat /\ Slots = 0..count - 1
  BY Numbers
<1>3. Migrations(targets) = Joined(Len(Ordinals(1, total)), parts)
  BY DEF Migrations, Chain, Each
<1>4. /\ Len(Ordinals(1, total)) = total /\ DOMAIN Ordinals(1, total) = 1..total
      /\ \A i \in 1..total : Ordinals(1, total)[i] = i
  BY <1>1, Counting
<1> HIDE DEF total, count
<1>5. ASSUME NEW i \in 1..total, NEW s \in BalancedSlotRange(i - 1, total, count)
      PROVE  move(i, s) \in Seq(MovesTo(targets)) /\ s \in Slots
  <2>1. i - 1 \in 0..total - 1 /\ total \in Nat \ {0}
    BY <1>1
  <2>2. BalancedSlotRange(i - 1, total, count) \subseteq Slots
    <3>1. PICK start \in Nat, size \in Nat :
            /\ start = RangeStart(i - 1, total, count)
            /\ size = RangeSize(i - 1, total, count)
            /\ start + size <= count
      BY <1>2, <2>1, RangesFit
    <3>2. BalancedSlotRange(i - 1, total, count) = start .. start + size - 1
      BY <3>1 DEF BalancedSlotRange
    <3>3. PICK c \in Nat : c = count /\ Slots = 0..c - 1 /\ start + size <= c
      BY <1>2, <3>1
    <3>4. start .. start + size - 1 \subseteq 0..c - 1
      BY <3>3
    <3> QED  BY <3>2, <3>3, <3>4
  <2>3. slotOwners[s] \in Names /\ targets[i] \in Names
    BY <1>1, <2>2 DEF TypeOK, Names
  <2>4. taken(i, s) \in SUBSET Slots /\ taken(i, s) \subseteq BalancedSlotRange(i - 1, total, count)
    BY <2>2
  <2> HIDE DEF taken
  <2>5. Migrate(slotOwners[s], targets[i], taken(i, s)) \in MigrateSteps
    BY <2>3, <2>4, StepTypes
  <2>6. Migrate(slotOwners[s], targets[i], taken(i, s)) \in MovesTo(targets)
    BY <2>4, <2>5 DEF MovesTo, Migrate, total, count
  <2> QED  BY <2>2, <2>6, EmptySeq
<1>6. ASSUME NEW i \in 1..total
      PROVE  /\ parts[i] = part(i)
             /\ parts[i] \in Seq(MovesTo(targets))
             /\ \A s \in BalancedSlotRange(i - 1, total, count) :
                  \A e : Has(move(i, s), e) => Has(parts[i], e)
  <2>1. i - 1 \in 0..total - 1 /\ total \in Nat \ {0}
    BY <1>1
  <2>2. PICK start \in Nat, size \in Nat :
          /\ start = RangeStart(i - 1, total, count)
          /\ size = RangeSize(i - 1, total, count)
          /\ start + size <= count
    BY <1>2, <2>1, RangesFit
  <2>3. BalancedSlotRange(i - 1, total, count) = start .. start + size - 1
    BY <2>2 DEF BalancedSlotRange
  <2>4. /\ Len(Ordinals(start, size)) = size /\ DOMAIN Ordinals(start, size) = 1..size
        /\ \A k \in 1..size : Ordinals(start, size)[k] = start + k - 1
    <3>1. start \in Int
      OBVIOUS
    <3>2. Len(Ordinals(start, size)) = size /\ DOMAIN Ordinals(start, size) = 1..size
      BY <3>1, OrdinalsInSeq
    <3>3. \A k \in 1..size : Ordinals(start, size)[k] = start + k - 1
      BY <3>1, OrdinalsInSeq
    <3> QED  BY <3>2, <3>3
  <2> DEFINE moves == [k \in DOMAIN Ordinals(start, size) |-> move(i, Ordinals(start, size)[k])]
  <2>5. part(i) = Joined(size, moves)
    <3> HIDE DEF move
    <3> QED  BY <2>2, <2>4
  <2>6. \A k \in 1..size : moves[k] = move(i, start + k - 1) /\ moves[k] \in Seq(MovesTo(targets))
    <3>1. \A k \in 1..size : start + k - 1 \in start .. start + size - 1
      OBVIOUS
    <3>2. \A k \in 1..size : move(i, start + k - 1) \in Seq(MovesTo(targets))
      BY <1>5, <2>3, <3>1
    <3> HIDE DEF move
    <3> QED  BY <2>4, <3>2
  <2>7. part(i) \in Seq(MovesTo(targets))
    <3> HIDE DEF moves, part
    <3> QED  BY <2>5, <2>6, JoinedInSeq
  <2>8. parts[i] = part(i)
    <3> HIDE DEF part
    <3> QED  BY <1>4
  <2>9. ASSUME NEW s \in BalancedSlotRange(i - 1, total, count), NEW e, Has(move(i, s), e)
        PROVE  Has(part(i), e)
    <3>1. PICK k \in 1..size : k = s - start + 1 /\ start + k - 1 = s
      <4>1. s \in Int /\ start <= s /\ s <= start + size - 1
        BY <2>3
      <4>2. s - start + 1 \in 1..size /\ start + (s - start + 1) - 1 = s
        BY <4>1
      <4> QED  BY <4>2
    <3>2. moves[k] = move(i, s)
      <4> HIDE DEF move, moves
      <4> QED  BY <2>6, <3>1
    <3> HIDE DEF moves, part, move
    <3>3. Has(moves[k], e)
      BY <2>9, <3>2
    <3> QED  BY <2>5, <2>6, <3>3, JoinedHas
  <2> HIDE DEF part, parts, move
  <2> QED  BY <2>7, <2>8, <2>9
<1> HIDE DEF parts, part, move
<1>7. Migrations(targets) \in Seq(MovesTo(targets))
  <2>1. \A i \in 1..total : parts[i] \in Seq(MovesTo(targets))
    BY <1>6
  <2> QED  BY <1>1, <1>3, <1>4, <2>1, JoinedInSeq
<1>8. ASSUME NEW i \in 1..total, NEW s \in BalancedSlotRange(i - 1, total, count),
             slotOwners[s] # targets[i]
      PROVE  \E step \in MovesTo(targets) :
               /\ Has(Migrations(targets), step)
               /\ step.source = slotOwners[s] /\ step.target = targets[i]
               /\ s \in step.slots
  <2>1. BalancedSlotRange(i - 1, total, count) \subseteq Nat
    BY <1>2, <1>5
  <2>2. PICK first \in taken(i, s) : \A x \in taken(i, s) : ~(x < first)
    <3>1. s \in taken(i, s) /\ taken(i, s) \subseteq Nat
      BY <2>1
    <3> HIDE DEF taken
    <3> QED  BY <3>1, LeastExists
  <2>3. /\ first \in BalancedSlotRange(i - 1, total, count)
        /\ slotOwners[first] = slotOwners[s]
        /\ taken(i, first) = taken(i, s) /\ slotOwners[first] # targets[i]
    BY <1>8, <2>2
  <2>4. \A x \in taken(i, first) : first <= x
    <3>1. \A x \in taken(i, s) : x \in Int
      BY <2>1
    <3>2. first \in Int
      BY <2>1, <2>3
    <3> HIDE DEF taken
    <3> QED  BY <2>2, <2>3, <3>1, <3>2
  <2>5. PICK step : step = Migrate(slotOwners[first], targets[i], taken(i, s))
    OBVIOUS
  <2>6. move(i, first) = <<step>>
    <3> HIDE DEF taken
    <3> QED  BY <2>3, <2>4, <2>5 DEF move
  <2>7. Has(move(i, first), step)
    BY <2>6 DEF Has
  <2>8. Has(parts[i], step)
    BY <1>6, <2>3, <2>7
  <2>9. Has(Migrations(targets), step)
    <3>1. \A n \in 1..total : parts[n] \in Seq(MovesTo(targets))
      BY <1>6
    <3>2. Has(Joined(total, parts), step)
      BY <1>1, <2>8, <3>1, JoinedHas
    <3> QED  BY <1>3, <1>4, <3>2
  <2>10. step \in MovesTo(targets)
    <3>1. PICK n \in 1..Len(Migrations(targets)) : Migrations(targets)[n] = step
      BY <2>9 DEF Has
    <3> QED  BY <1>7, <3>1, ElementOfSeq
  <2>11. /\ step.source = slotOwners[s] /\ step.target = targets[i]
         /\ s \in step.slots
    <3>1. s \in taken(i, s)
      OBVIOUS
    <3> HIDE DEF taken
    <3> QED  BY <2>3, <2>5, <3>1 DEF Migrate
  <2> QED  BY <2>9, <2>10, <2>11
<1> QED  BY <1>7, <1>8 DEF total, count

\* A finite set has a list for SetToSeq to choose.
LEMMA SetToSeqInSeq ==
  ASSUME NEW T, IsFiniteSet(T)
  PROVE  SetToSeq(T) \in Seq(T)
<1>1. Cardinality(T) \in Nat
  BY FS_CardinalityType
<1>2. PICK f : f \in Bijection(1..Cardinality(T), T)
  BY FS_CardinalityType DEF ExistsBijection
<1>3. f \in [1..Cardinality(T) -> T] /\ IsInjective(f)
  BY <1>2 DEF Bijection, Injection, IsInjective
<1>4. SetToSeq(T) \in [1..Cardinality(T) -> T]
  <2> DEFINE Lists == [1..Cardinality(T) -> T]
  <2>1. f \in Lists /\ IsInjective(f)
    BY <1>3
  <2>2. SetToSeq(T) = CHOOSE g \in Lists : IsInjective(g)
    BY DEF SetToSeq
  <2> HIDE DEF Lists
  <2>3. SetToSeq(T) \in Lists
    BY <2>1, <2>2
  <2> QED  BY <2>3 DEF Lists
<1> QED  BY <1>1, <1>4, SeqDef

StayPlanSteps(M) == StayingSteps(M) \cup VerifySteps
KeepPlanSteps == KeepingSteps \cup VerifySteps
ChangePlanSteps == ChangingSteps \cup VerifySteps

\* A builder's steps with the final VerifyCluster.
LEMMA ChangePlans ==
  ASSUME NEW steps \in Seq(ChangingSteps)
  PROVE  Verified(steps) \in Seq(ChangePlanSteps)
BY VerifiedPlans DEF ChangePlanSteps

\* The steps that make nodes are steps of a change.
LEMMA MakingIsChanging ==
  ASSUME NEW steps \in Seq(MakingSteps)
  PROVE  steps \in Seq(ChangingSteps)
BY SeqMonotonic DEF ChangingSteps

\* So are those that move no slots.
LEMMA KeepingIsChanging ==
  ASSUME NEW steps \in Seq(KeepingSteps)
  PROVE  steps \in Seq(ChangingSteps)
BY SeqMonotonic DEF KeepingSteps, ChangingSteps

\* The steps that make nodes move no slots.
LEMMA MakingIsKeeping ==
  ASSUME NEW steps \in Seq(MakingSteps)
  PROVE  steps \in Seq(KeepingSteps)
BY SeqMonotonic DEF KeepingSteps

\* A plan whose replicas follow the masters of M, and which moves no slots.
LEMMA StayPlans ==
  ASSUME NEW M, NEW steps \in Seq(StayingSteps(M))
  PROVE  Verified(steps) \in Seq(StayPlanSteps(M))
BY VerifiedPlans DEF StayPlanSteps

\* It moves no slots.
LEMMA StayingIsKeeping ==
  ASSUME NEW M
  PROVE  StayPlanSteps(M) \subseteq KeepPlanSteps /\ KeepPlanSteps \subseteq ChangePlanSteps
<1>1. StayPlanSteps(M) \subseteq KeepPlanSteps
  BY KindsAreSteps DEF StayPlanSteps, KeepPlanSteps
<1>2. KeepPlanSteps \subseteq ChangePlanSteps
  BY DEF KeepPlanSteps, ChangePlanSteps, KeepingSteps, ChangingSteps
<1> QED  BY <1>1, <1>2

\* The ghosts to forget, those with a pod name and those without.
LEMMA GhostsListed ==
  ASSUME TypeOK, NEW lost
  PROVE  /\ InOrder(GhostNodes(lost) \cap Pods) \in Seq(GhostNodes(lost))
         /\ SetToSeq(GhostNodes(lost) \cap Ghosts) \in Seq(GhostNodes(lost))
         /\ GhostNodes(lost) \subseteq Names
<1>1. IsFiniteSet(Keys) /\ Pods \subseteq Keys /\ Ghosts \subseteq Keys
  BY KeysAssumption DEF Keys
<1>2. IsFiniteSet(GhostNodes(lost) \cap Pods) /\ IsFiniteSet(GhostNodes(lost) \cap Ghosts)
  <2>1. GhostNodes(lost) \cap Pods \in SUBSET Keys /\ GhostNodes(lost) \cap Ghosts \in SUBSET Keys
    BY <1>1
  <2> QED  BY <1>1, <2>1, FS_Subset
<1>3. InOrder(GhostNodes(lost) \cap Pods) \in Seq(GhostNodes(lost) \cap Pods)
  <2>1. PICK T : T = GhostNodes(lost) \cap Pods
    OBVIOUS
  <2>2. T \subseteq Int /\ IsFiniteSet(T)
    <3>1. IsFiniteSet(T)
      BY <1>2, <2>1
    <3>2. T \subseteq Pods
      BY <2>1
    <3> QED  BY <3>1, <3>2, Numbers
  <2>3. InOrder(T) \in Seq(T)
    BY <2>2, InOrderLists
  <2> QED  BY <2>1, <2>3
<1>4. SetToSeq(GhostNodes(lost) \cap Ghosts) \in Seq(GhostNodes(lost) \cap Ghosts)
  BY <1>2, SetToSeqInSeq
<1>5. GhostNodes(lost) \subseteq Names
  BY DEF GhostNodes, TypeOK, Names
<1> QED  BY <1>3, <1>4, <1>5, SeqMonotonic

\* buildRepairPlan forgets ghosts and provides missing replicas.
LEMMA RepairPlanChanges ==
  ASSUME TypeOK, PodsExist, RequestTypes, NEW lost
  PROVE  RepairPlan(lost) \in Seq(StayPlanSteps(MasterSet))
<1> DEFINE ghosts == InOrder(GhostNodes(lost) \cap Pods) \o SetToSeq(GhostNodes(lost) \cap Ghosts)
           forget(k) == IF k \in Pods \ exists THEN RetirePod(k) ELSE <<ForgetKey(k)>>
           S == StayingSteps(MasterSet)
           parts == [i \in DOMAIN ghosts |-> forget(ghosts[i])]
<1>1. ghosts \in Seq(Names)
  <2>1. PICK a, b : /\ a = InOrder(GhostNodes(lost) \cap Pods)
                    /\ b = SetToSeq(GhostNodes(lost) \cap Ghosts)
    OBVIOUS
  <2>2. a \in Seq(Names) /\ b \in Seq(Names)
    BY <2>1, GhostsListed, SeqMonotonic
  <2> QED  BY <2>1, <2>2, ConcatProperties
<1> HIDE DEF ghosts
<1>2. Len(ghosts) \in Nat /\ DOMAIN ghosts = 1..Len(ghosts) /\ \A i \in DOMAIN ghosts : ghosts[i] \in Names
  BY <1>1, LenProperties
<1>3. \A k \in Names : forget(k) \in Seq(S)
  <2> SUFFICES ASSUME NEW k \in Names PROVE forget(k) \in Seq(S)
    OBVIOUS
  <2>1. ForgetKey(k) \in RetireSteps(Names)
    BY StepKinds
  <2>2. <<ForgetKey(k)>> \in Seq(RetireSteps(Names))
    BY <2>1
  <2>3. RetirePod(k) \in Seq(RetireSteps(Names))
    BY RetireKind
  <2>4. RetireSteps(Names) \subseteq S
    BY DEF StayingSteps
  <2> HIDE DEF S
  <2> QED  BY <2>2, <2>3, <2>4, SeqMonotonic
<1>4. \A i \in 1..Len(ghosts) : parts[i] \in Seq(S)
  <2> HIDE DEF forget, S
  <2> QED  BY <1>2, <1>3
<1>5. Joined(Len(ghosts), parts) \in Seq(S)
  <2> HIDE DEF parts, S
  <2> QED  BY <1>2, <1>4, JoinedInSeq
<1>6. ProvisionReplicas(Missing) \in Seq(S)
  <2>1. Missing \in Seq(MasterSet) /\ MasterSet \in SUBSET Names
    BY MissingLists, NamesHold
  <2> QED  BY <2>1, ProvisionReplicasStay
<1>7. Joined(Len(ghosts), parts) \o ProvisionReplicas(Missing) \in Seq(S)
  BY <1>5, <1>6, ConcatProperties
<1>8. Verified(Joined(Len(ghosts), parts) \o ProvisionReplicas(Missing)) \in Seq(StayPlanSteps(MasterSet))
  BY <1>7, StayPlans
<1>9. \/ RepairPlan(lost) = Verified(Joined(Len(ghosts), parts) \o ProvisionReplicas(Missing))
      \/ RepairPlan(lost) = <<>>
  BY DEF RepairPlan, Chain, Each, ghosts
<1> QED  BY <1>8, <1>9, EmptySeq

\* Ordinals are names.
LEMMA OrdinalNames ==
  ASSUME NEW first \in Int, NEW count \in Nat
  PROVE  Ordinals(first, count) \in Seq(Names)
BY OrdinalsInSeq, SeqMonotonic DEF Names

NewPods == {p \in Int : p >= nextPodOrdinal}

\* The steps that replace the i-th shard.
ShardSteps(i) ==
    EnsureSteps(NewPods) \cup MeetSteps \cup FollowSteps({GroupMaster(nextPodOrdinal, i)})
        \cup MigrateSteps \cup RetireSteps(exists)

\* The groups of pods have ordinals that were not observed.
LEMMA GroupsAreNew ==
  ASSUME RequestTypes, NEW i \in Nat \ {0}
  PROVE  /\ GroupMaster(nextPodOrdinal, i) \in NewPods
         /\ Ordinals(GroupMaster(nextPodOrdinal, i), GroupSize) \in Seq(NewPods)
<1>1. PICK base \in Nat, size \in Nat, first \in Int :
        base = nextPodOrdinal /\ size = GroupSize /\ first = GroupMaster(nextPodOrdinal, i)
  <2>1. nextPodOrdinal \in Int
    BY DEF RequestTypes
  <2>2. GroupSize \in Nat /\ GroupMaster(nextPodOrdinal, i) \in Int
    BY <2>1, GroupMasters
  <2> QED  BY <2>2 DEF RequestTypes
<1>2. (i - 1) * size \in Nat
  BY SMT
<1>3. first = base + (i - 1) * size
  BY <1>1 DEF GroupMaster
<1>4. first \in Int /\ first >= base
  BY <1>2, <1>3
<1>5. Ordinals(first, size) \in [1..size -> NewPods]
  BY <1>1, <1>4 DEF Ordinals, NewPods
<1> QED  BY <1>1, <1>4, <1>5, SeqDef DEF NewPods

\* buildImageDriftPlan: the steps of one shard.  They make pods that were not
\* observed, whose replicas follow the first of them, and delete the replicas of
\* the old master.
LEMMA ReplaceShardReplaces ==
  ASSUME TypeOK, PodsExist, RequestTypes, NEW i \in 1..Len(Masters)
  PROVE  /\ ReplaceShard(i) \in Seq(ShardSteps(i))
         /\ \A r \in ReplicasOf(Masters[i]) : Has(ReplaceShard(i), Delete(r))
<1> DEFINE seed == IF i = 1 THEN Masters[1] ELSE nextPodOrdinal
<1>1. PICK first \in NewPods : first = GroupMaster(nextPodOrdinal, i)
  BY GroupsAreNew
<1>2. PICK pods : pods = Ordinals(first, GroupSize) /\ pods \in Seq(NewPods)
  BY <1>1, GroupsAreNew
<1>3. PICK old \in MasterSet : old = Masters[i]
  BY Observed
<1>4. NewPods \in SUBSET Names /\ exists \in SUBSET Names
  BY Numbers DEF NewPods, Names, PodsExist
<1>5. old \in Names /\ seed \in Names
  <2>1. Masters[i] \in Names
    BY <1>3, NamesHold
  <2>2. i = 1 => Masters[1] \in Names
    BY <2>1
  <2> QED  BY <1>3, <2>1, <2>2 DEF RequestTypes, Names
<1>6. Provision(pods) \in Seq(ShardSteps(i))
  <2>1. Provision(pods) \in Seq(EnsureSteps(NewPods))
    BY <1>2, <1>4, ProvisionEnsures
  <2> QED  BY <2>1, SeqMonotonic DEF ShardSteps
<1>7. MeetAll(seed, pods) \in Seq(ShardSteps(i))
  <2> HIDE DEF seed
  <2>1. pods \in Seq(Names)
    BY <1>2, <1>4, SeqMonotonic
  <2>2. MeetAll(seed, pods) \in Seq(MeetSteps)
    BY <1>5, <2>1, MeetAllMeets
  <2> QED  BY <2>2, SeqMonotonic DEF ShardSteps
<1>8. ReplicateGroups(first, 1) \in Seq(ShardSteps(i))
  <2>1. first \in Int /\ 1 \in Nat
    BY <1>1 DEF NewPods
  <2>2. ReplicateGroups(first, 1) \in Seq(FollowSteps({GroupMaster(first, k) : k \in 1..1}))
    BY <2>1, GroupsFollow
  <2>3. GroupMaster(first, 1) = first
    <3>1. GroupSize \in Int
      BY <2>1, GroupMasters
    <3> QED  BY <2>1, <3>1 DEF GroupMaster
  <2>4. {GroupMaster(first, k) : k \in 1..1} = {first}
    BY <2>3
  <2> QED  BY <1>1, <2>2, <2>4, SeqMonotonic DEF ShardSteps
<1>9. <<Migrate(old, first, slots[old])>> \in Seq(ShardSteps(i))
  <2>1. slots[old] \in SUBSET Slots
    BY DEF MasterSet, TypeOK
  <2>2. Migrate(old, first, slots[old]) \in MigrateSteps
    BY <1>4, <1>5, <2>1, StepTypes
  <2> QED  BY <2>2 DEF ShardSteps
<1>10. /\ Chain(RetirePod, ReplicaList(old)) \in Seq(ShardSteps(i))
       /\ \A r \in ReplicasOf(old) : Has(Chain(RetirePod, ReplicaList(old)), Delete(r))
  <2>1. PICK list : list = ReplicaList(old)
    OBVIOUS
  <2>2. list \in Seq(exists) /\ \A r \in ReplicasOf(old) : \E k \in 1..Len(list) : list[k] = r
    <3>1. /\ ReplicasOf(old) \subseteq Int /\ IsFiniteSet(ReplicasOf(old))
          /\ ReplicasOf(old) \subseteq exists
      BY Observed DEF ReplicasOf
    <3> QED  BY <2>1, <3>1, InOrderLists, SeqMonotonic DEF ReplicaList
  <2>3. /\ Chain(RetirePod, list) \in Seq(RetireSteps(exists))
        /\ \A k \in 1..Len(list) : Has(Chain(RetirePod, list), Delete(list[k]))
    BY <1>4, <2>2, RetireEach
  <2>4. Chain(RetirePod, list) \in Seq(ShardSteps(i))
    BY <2>3, SeqMonotonic DEF ShardSteps
  <2> QED  BY <2>1, <2>2, <2>3, <2>4
<1>11. RetirePod(old) \in Seq(ShardSteps(i))
  <2>1. old \in exists
    BY DEF MasterSet
  <2>2. RetirePod(old) \in Seq(RetireSteps(exists))
    BY <1>4, <2>1, RetireKind
  <2> QED  BY <2>2, SeqMonotonic DEF ShardSteps
<1> HIDE DEF seed
<1>12. PICK a, b, c, d, e, f :
         /\ a = Provision(pods) /\ b = MeetAll(seed, pods) /\ c = ReplicateGroups(first, 1)
         /\ d = <<Migrate(old, first, slots[old])>>
         /\ e = Chain(RetirePod, ReplicaList(old)) /\ f = RetirePod(old)
  OBVIOUS
<1>13. PICK made : made = ((a \o b) \o c) \o d
  OBVIOUS
<1>14. made \in Seq(ShardSteps(i)) /\ e \in Seq(ShardSteps(i)) /\ f \in Seq(ShardSteps(i))
  BY <1>6, <1>7, <1>8, <1>9, <1>10, <1>11, <1>12, <1>13, ConcatProperties
<1>15. ReplaceShard(i) = (made \o e) \o f
  BY <1>1, <1>2, <1>3, <1>12, <1>13 DEF ReplaceShard, seed
<1>16. made \o e \in Seq(ShardSteps(i))
  BY <1>14, ConcatProperties
<1>17. ReplaceShard(i) \in Seq(ShardSteps(i))
  BY <1>14, <1>15, <1>16, ConcatProperties
<1>18. ASSUME NEW r \in ReplicasOf(old) PROVE Has(ReplaceShard(i), Delete(r))
  <2>1. Has(e, Delete(r))
    BY <1>10, <1>12
  <2>2. Has(made \o e, Delete(r))
    BY <1>14, <2>1, ConcatHas
  <2>3. PICK g \in Seq(ShardSteps(i)) : g = made \o e /\ ReplaceShard(i) = g \o f
    BY <1>15, <1>16
  <2>4. Has(g, Delete(r))
    BY <2>2, <2>3
  <2>5. Has(g \o f, Delete(r))
    BY <1>14, <2>4, ConcatHas
  <2> QED  BY <2>3, <2>5
<1> QED  BY <1>3, <1>17, <1>18

\* They are steps of a change.
LEMMA ReplaceShardChanges ==
  ASSUME TypeOK, PodsExist, RequestTypes, NEW i \in 1..Len(Masters)
  PROVE  ReplaceShard(i) \in Seq(ChangingSteps)
<1>1. ShardSteps(i) \subseteq ChangingSteps
  BY KindsAreSteps DEF ShardSteps, ChangingSteps, MakingSteps, KeepingSteps
<1> QED  BY <1>1, ReplaceShardReplaces, SeqMonotonic

\* buildImageDriftPlan replaces one shard after the other.
LEMMA ImageDriftPlanChanges ==
  ASSUME TypeOK, PodsExist, RequestTypes
  PROVE  ImageDriftPlan \in Seq(ChangePlanSteps)
<1> DEFINE parts == [k \in DOMAIN Ordinals(1, Len(Masters)) |->
                       ReplaceShard(Ordinals(1, Len(Masters))[k])]
<1>1. Len(Masters) \in Nat
  BY Observed
<1>2. /\ Len(Ordinals(1, Len(Masters))) = Len(Masters)
      /\ DOMAIN Ordinals(1, Len(Masters)) = 1..Len(Masters)
      /\ \A i \in 1..Len(Masters) : Ordinals(1, Len(Masters))[i] = i
  BY <1>1, Counting
<1>3. \A k \in 1..Len(Masters) : parts[k] \in Seq(ChangingSteps)
  BY <1>2, ReplaceShardChanges
<1>4. Joined(Len(Masters), parts) \in Seq(ChangingSteps)
  <2> HIDE DEF parts
  <2> QED  BY <1>1, <1>3, JoinedInSeq
<1>5. Verified(Joined(Len(Masters), parts)) \in Seq(ChangePlanSteps)
  BY <1>4, ChangePlans
<1>6. ImageDriftPlan = Verified(Joined(Len(Masters), parts)) \/ ImageDriftPlan = <<>>
  BY <1>2 DEF ImageDriftPlan, Chain, Each
<1> QED  BY <1>5, <1>6, EmptySeq

\* When a replica follows a new master, that is one of the i-th group of pods and
\* the replicas in groups, the list of those of the old masters, are gone but for
\* the i-th and later ones.
FollowsInOrder(steps, groups, j) ==
    steps[j].action = "ReplicateNode" => \E i \in DOMAIN groups :
        /\ steps[j].master = GroupMaster(nextPodOrdinal, i)
        /\ \A h \in 1..i - 1 : \A r \in groups[h] : HasBefore(steps, j, Delete(r))

NamesItsPods(step) ==
    /\ step.action = "EnsureNode" => step.pod \in NewPods
    /\ step.action = "DeleteNode" => step.pod \notin NewPods

ReplacesOneByOne(steps, groups) ==
    \A j \in DOMAIN steps : FollowsInOrder(steps, groups, j) /\ NamesItsPods(steps[j])

\* buildImageDriftPlan starts no group before the one before it has replaced its
\* shard.
LEMMA ImageDriftPlanOrder ==
  ASSUME TypeOK, PodsExist, RequestTypes, ImageDriftPlan # <<>>, exists \cap NewPods = {},
         NEW groups, groups = [i \in 1..Len(Masters) |-> ReplicasOf(Masters[i])]
  PROVE  ReplacesOneByOne(ImageDriftPlan, groups)
<1> DEFINE S == ChangingSteps
           parts == [k \in DOMAIN Ordinals(1, Len(Masters)) |->
                       ReplaceShard(Ordinals(1, Len(Masters))[k])]
<1>1. PICK n \in Nat : n = Len(Masters)
  BY Observed
<1>2. /\ Len(Ordinals(1, n)) = n /\ DOMAIN Ordinals(1, n) = 1..n
      /\ \A i \in 1..n : Ordinals(1, n)[i] = i
  BY Counting
<1>3. \A k \in 1..n : parts[k] = ReplaceShard(k)
  BY <1>1, <1>2
<1>4. \A k \in 1..n : /\ parts[k] \in Seq(S) /\ parts[k] \in Seq(ShardSteps(k))
                      /\ \A r \in groups[k] : Has(parts[k], Delete(r))
  BY <1>1, <1>3, ReplaceShardChanges, ReplaceShardReplaces
<1>5. PICK list : list = Joined(n, parts)
  OBVIOUS
<1>6. ImageDriftPlan = Append(list, VerifySpec)
  BY <1>1, <1>2, <1>5 DEF ImageDriftPlan, Chain, Each, Verified
<1> HIDE DEF parts, S
<1>7. list \in Seq(S)
  BY <1>4, <1>5, JoinedInSeq
<1>8. \A j \in 1..Len(list) : \E i \in 1..n : OfPart(list, parts, i, j)
  BY <1>4, <1>5, JoinedOrder
<1>9. PICK steps : steps = Append(list, VerifySpec)
  OBVIOUS
<1>10. PICK m \in Nat : m = Len(list)
  BY <1>7, LenProperties
<1>11. /\ DOMAIN steps = 1..m + 1 /\ steps[m + 1] = VerifySpec
       /\ \A j \in 1..m : steps[j] = list[j]
  <2>1. VerifySpec \in S \cup VerifySteps /\ list \in Seq(S \cup VerifySteps)
    BY <1>7, SeqMonotonic DEF VerifySpec, VerifySteps
  <2>2. steps \in Seq(S \cup VerifySteps) /\ Len(steps) = m + 1
    BY <1>9, <1>10, <2>1, AppendProperties
  <2> QED  BY <1>9, <1>10, <2>1, <2>2, AppendProperties, LenProperties
<1>12. ASSUME NEW j \in 1..m PROVE FollowsInOrder(steps, groups, j) /\ NamesItsPods(steps[j])
  <2>1. PICK i \in 1..n : OfPart(list, parts, i, j)
    BY <1>8, <1>10
  <2>2. PICK step : step = list[j] /\ step = steps[j]
    BY <1>11
  <2>3. step \in ShardSteps(i)
    <3>1. PICK k \in 1..Len(parts[i]) : parts[i][k] = step
      BY <2>1, <2>2 DEF OfPart, Has
    <3> QED  BY <1>4, <3>1, ElementOfSeq
  <2>4. /\ step.action = "ReplicateNode" => step.master = GroupMaster(nextPodOrdinal, i)
        /\ step.action = "EnsureNode" => step.pod \in NewPods
        /\ step.action = "DeleteNode" => step.pod \in exists
    BY <2>3 DEF ShardSteps, EnsureSteps, FollowSteps, RetireSteps, PodSteps, MeetSteps,
                ReplicateSteps, MigrateSteps, ForgetSteps
  <2>5. ASSUME NEW h \in 1..i - 1, NEW r \in groups[h] PROVE HasBefore(steps, j, Delete(r))
    <3>1. h \in 1..n
      OBVIOUS
    <3>2. Has(parts[h], Delete(r))
      BY <1>4, <3>1
    <3>3. HasBefore(list, j, Delete(r))
      BY <2>1, <3>2 DEF OfPart
    <3>4. PICK g \in 1..j - 1 : list[g] = Delete(r)
      BY <3>3 DEF HasBefore
    <3>5. steps[g] = list[g]
      BY <1>11
    <3> QED  BY <3>4, <3>5 DEF HasBefore
  <2>6. DOMAIN groups = 1..n
    BY <1>1
  <2>7. FollowsInOrder(steps, groups, j)
    BY <2>2, <2>4, <2>5, <2>6 DEF FollowsInOrder
  <2>8. NamesItsPods(steps[j])
    BY <2>2, <2>4 DEF NamesItsPods
  <2> QED  BY <2>7, <2>8
<1>13. FollowsInOrder(steps, groups, m + 1) /\ NamesItsPods(steps[m + 1])
  BY <1>11 DEF FollowsInOrder, NamesItsPods, VerifySpec
<1>14. \A j \in DOMAIN steps : j \in 1..m \/ j = m + 1
  BY <1>11
<1> QED  BY <1>6, <1>9, <1>12, <1>13, <1>14 DEF ReplacesOneByOne

\* The replicas of m beyond the number that the spec asks for.
Spare(m) == {ReplicaList(m)[i] : i \in spec.replicas + 1 .. ReplicaCount(m)}

\* They are the surplus replicas of a master, and none when it has what the spec asks
\* for.
LEMMA SurplusListed ==
  ASSUME TypeOK, PodsExist, RequestTypes, NEW m, ReplicaCount(m) >= spec.replicas
  PROVE  /\ Surplus(m) \in Seq(Spare(m))
         /\ Spare(m) \subseteq ReplicasOf(m)
         /\ ReplicaCount(m) = spec.replicas => Surplus(m) = <<>>
<1>1. PICK list : list = ReplicaList(m)
  OBVIOUS
<1>2. PICK n \in Nat : n = Len(list) /\ n = ReplicaCount(m)
  BY <1>1, Observed
<1>3. list \in Seq(ReplicasOf(m))
  BY <1>1, Observed
<1>4. PICK count \in Nat : count = n - spec.replicas /\ count <= n
  <2>1. spec.replicas \in Nat
    BY GroupMasters
  <2> QED  BY <1>2, <2>1
<1>5. PICK tail : tail = SubSeq(list, n - count + 1, n)
  OBVIOUS
<1>6. PICK S : S = Spare(m)
  OBVIOUS
<1>7. \A i \in n - count + 1 .. n : list[i] \in S
  <2>1. spec.replicas = n - count
    BY <1>4, GroupMasters
  <2> QED  BY <1>1, <1>2, <1>6, <2>1 DEF Spare
<1>8. tail \in Seq(S) /\ Len(tail) = count /\ \A i \in 1..count : tail[i] \in S
  <2>1. tail \in Seq(S) /\ Len(tail) = IF n - count + 1 <= n THEN n - (n - count + 1) + 1 ELSE 0
    BY <1>4, <1>5, <1>7, SubSeqProperties
  <2>2. Len(tail) = count
    BY <1>4, <2>1
  <2> QED  BY <2>1, <2>2, LenProperties
<1>9. Surplus(m) = Reverse(tail)
  BY <1>1, <1>2, <1>4, <1>5 DEF Surplus
<1>10. Reverse(tail) \in [1..count -> S]
  <2>1. \A i \in 1..count : count - i + 1 \in 1..count
    BY <1>4
  <2> QED  BY <1>8, <2>1 DEF Reverse
<1>11. Reverse(tail) \in Seq(S)
  BY <1>10, SeqDef
<1>12. count = 0 => Reverse(tail) = <<>>
  BY <1>10, <1>8 DEF Reverse
<1>13. Spare(m) \subseteq ReplicasOf(m)
  <2>1. \A i \in 1..n : list[i] \in ReplicasOf(m)
    BY <1>2, <1>3, ElementOfSeq
  <2>2. \A i \in spec.replicas + 1 .. n : i \in 1..n
    BY GroupMasters
  <2> QED  BY <1>1, <1>2, <2>1, <2>2 DEF Spare
<1> QED  BY <1>2, <1>4, <1>6, <1>9, <1>11, <1>12, <1>13

\* buildReplicaScaleInPlan retires the surplus, and makes no plan without any.
LEMMA ReplicaScaleInPlanChanges ==
  ASSUME TypeOK, PodsExist, RequestTypes
  PROVE  /\ ReplicaScaleInPlan \in Seq(StayPlanSteps(MasterSet))
         /\ (\A m \in MasterSet : ReplicaCount(m) = spec.replicas) => ReplicaScaleInPlan = <<>>
<1> DEFINE S == StayingSteps(MasterSet)
           retire(m) == Chain(RetirePod, Surplus(m))
           parts == [k \in DOMAIN Masters |-> retire(Masters[k])]
<1>1. Len(Masters) \in Nat /\ DOMAIN Masters = 1..Len(Masters)
  BY Observed, LenProperties
<1>2. \A k \in 1..Len(Masters) : Masters[k] \in MasterSet
  BY Observed
<1>3. \/ ReplicaScaleInPlan = Verified(Joined(Len(Masters), parts))
      \/ ReplicaScaleInPlan = <<>>
  BY DEF ReplicaScaleInPlan, Chain, Each
<1>4. CASE \A m \in MasterSet : ReplicaCount(m) >= spec.replicas
  <2>1. ASSUME NEW m \in MasterSet
        PROVE  /\ retire(m) \in Seq(S)
               /\ ReplicaCount(m) = spec.replicas => retire(m) = <<>>
    <3>1. /\ Surplus(m) \in Seq(Names)
          /\ ReplicaCount(m) = spec.replicas => Surplus(m) = <<>>
      <4>1. /\ Surplus(m) \in Seq(Spare(m)) /\ Spare(m) \subseteq ReplicasOf(m)
            /\ ReplicaCount(m) = spec.replicas => Surplus(m) = <<>>
        BY <1>4, SurplusListed
      <4>2. ReplicasOf(m) \subseteq Names
        BY NamesHold
      <4> QED  BY <4>1, <4>2, SeqMonotonic
    <3>2. retire(m) \in Seq(S)
      <4>1. retire(m) \in Seq(RetireSteps(Names))
        BY <3>1, RetireEach
      <4> HIDE DEF retire
      <4> QED  BY <4>1, SeqMonotonic DEF StayingSteps
    <3>3. Surplus(m) = <<>> => retire(m) = <<>>
      <4>1. Joined(0, Each(RetirePod, <<>>)) = <<>>
        BY JoinedEmpty
      <4>2. Chain(RetirePod, <<>>) = Joined(0, Each(RetirePod, <<>>))
        BY EmptySeq DEF Chain
      <4>3. Surplus(m) = <<>> => retire(m) = Chain(RetirePod, <<>>)
        BY Zenon
      <4> QED  BY <4>1, <4>2, <4>3
    <3> QED  BY <3>1, <3>2, <3>3
  <2> HIDE DEF retire, S
  <2>2. \A k \in 1..Len(Masters) : parts[k] \in Seq(S)
    BY <1>1, <1>2, <2>1
  <2>3. (\A m \in MasterSet : ReplicaCount(m) = spec.replicas)
           => \A k \in 1..Len(Masters) : parts[k] = <<>>
    BY <1>1, <1>2, <2>1
  <2> HIDE DEF parts
  <2>4. Joined(Len(Masters), parts) \in Seq(S)
    BY <1>1, <2>2, JoinedInSeq
  <2>5. (\A m \in MasterSet : ReplicaCount(m) = spec.replicas)
           => Joined(Len(Masters), parts) = <<>>
    BY <1>1, <2>3, JoinedEmpty
  <2>6. /\ Verified(Joined(Len(Masters), parts)) \in Seq(StayPlanSteps(MasterSet))
        /\ Joined(Len(Masters), parts) = <<>> => Verified(Joined(Len(Masters), parts)) = <<>>
    BY <2>4, StayPlans DEF Verified, S
  <2> QED  BY <1>3, <2>5, <2>6, EmptySeq
<1>5. CASE ~\A m \in MasterSet : ReplicaCount(m) >= spec.replicas
  <2>1. ReplicaScaleInPlan = <<>>
    BY <1>5 DEF ReplicaScaleInPlan
  <2> QED  BY <2>1, EmptySeq
<1> QED  BY <1>4, <1>5

\* A plan that moves each slot to the master whose range it is in, unless this owns it.
ScalePlan(steps, targets, owner) ==
    /\ targets \in Seq(Names) /\ Len(targets) = spec.shards
    /\ \E body \in Seq(KeepingSteps \cup MovesTo(targets)) :
         /\ steps = Append(body, VerifySpec)
         /\ \A i \in 1..Len(targets) :
              \A s \in BalancedSlotRange(i - 1, Len(targets), Cardinality(Slots)) :
                owner[s] # targets[i] =>
                  \E step \in MovesTo(targets) :
                    Has(body, step) /\ step.target = targets[i] /\ s \in step.slots

\* The steps of a plan that changes the number of shards: the migrations are in it.
LEMMA ScalePlanBuilt ==
  ASSUME TypeOK, NEW targets \in Seq(Names), Len(targets) = spec.shards,
         NEW before \in Seq(KeepingSteps), NEW after \in Seq(KeepingSteps), NEW body,
         \/ body = before \o Migrations(targets)
         \/ body = (before \o Migrations(targets)) \o after
  PROVE  /\ Verified(body) \in Seq(ChangePlanSteps)
         /\ Verified(body) = <<>> \/ ScalePlan(Verified(body), targets, slotOwners)
<1> DEFINE S == KeepingSteps \cup MovesTo(targets)
<1>1. PICK moves : moves = Migrations(targets)
  OBVIOUS
<1>2. moves \in Seq(MovesTo(targets))
  BY <1>1, MigrationsMove
<1>3. moves \in Seq(S) /\ before \in Seq(S) /\ after \in Seq(S)
  BY <1>2, SeqMonotonic
<1> HIDE DEF S
<1>4. before \o moves \in Seq(S)
  BY <1>3, ConcatProperties
<1>5. body \in Seq(S)
  BY <1>1, <1>3, <1>4, ConcatProperties
<1>6. \A step : Has(moves, step) => Has(body, step)
  <2> SUFFICES ASSUME NEW step, Has(moves, step) PROVE Has(body, step)
    OBVIOUS
  <2>1. Has(before \o moves, step)
    BY <1>3, ConcatHas
  <2>2. Has((before \o moves) \o after, step)
    BY <1>3, <1>4, <2>1, ConcatHas
  <2> QED  BY <1>1, <2>1, <2>2
<1>7. Verified(body) \in Seq(ChangePlanSteps)
  <2>1. S \subseteq ChangingSteps
    BY DEF S, MovesTo, KeepingSteps, ChangingSteps
  <2>2. body \in Seq(ChangingSteps)
    BY <1>5, <2>1, SeqMonotonic
  <2> QED  BY <2>2, ChangePlans
<1>8. CASE body = <<>>
  BY <1>7, <1>8 DEF Verified
<1>9. CASE body # <<>>
  <2>1. Verified(body) = Append(body, VerifySpec)
    BY <1>9 DEF Verified
  <2>2. ASSUME NEW i \in 1..Len(targets),
               NEW s \in BalancedSlotRange(i - 1, Len(targets), Cardinality(Slots)),
               slotOwners[s] # targets[i]
        PROVE  \E step \in MovesTo(targets) :
                 Has(body, step) /\ step.target = targets[i] /\ s \in step.slots
    <3>1. PICK step \in MovesTo(targets) :
            Has(Migrations(targets), step) /\ step.target = targets[i] /\ s \in step.slots
      BY <2>2, MigrationsMove
    <3> QED  BY <1>1, <1>6, <3>1
  <2> QED  BY <1>5, <1>7, <2>1, <2>2 DEF ScalePlan, S
<1> QED  BY <1>7, <1>8, <1>9

AreMasters(masters, first, count) ==
    \A i \in 1..count : masters[i] = GroupMaster(first, i)

\* The masters of count new groups of pods.
LEMMA NewMastersListed ==
  ASSUME RequestTypes, NEW first \in Int, NEW count \in Nat, NEW masters,
         masters = Each(LAMBDA i : GroupMaster(first, i), Ordinals(1, count))
  PROVE  /\ masters \in Seq(Int) /\ Len(masters) = count /\ DOMAIN masters = 1..count
         /\ AreMasters(masters, first, count)
<1>1. /\ DOMAIN Ordinals(1, count) = 1..count
      /\ \A i \in 1..count : Ordinals(1, count)[i] = i
  BY Counting
<1>2. masters = [i \in DOMAIN Ordinals(1, count) |-> GroupMaster(first, Ordinals(1, count)[i])]
  BY DEF Each
<1>3. \A i \in 1..count : GroupMaster(first, i) \in Int
  BY GroupMasters
<1>4. masters \in [1..count -> Int]
  BY <1>1, <1>2, <1>3
<1>5. masters \in Seq(Int)
  BY <1>4, SeqDef
<1>6. \A i \in 1..count : masters[i] = GroupMaster(first, i)
  BY <1>1, <1>2
<1>7. Len(masters) = count /\ DOMAIN masters = 1..count
  BY <1>4, <1>5, LenProperties
<1> QED  BY <1>5, <1>6, <1>7 DEF AreMasters

\* buildShardScaleOutPlan makes new groups and moves slots to them.
LEMMA ShardScaleOutPlanChanges ==
  ASSUME TypeOK, PodsExist, RequestTypes
  PROVE  /\ ShardScaleOutPlan \in Seq(ChangePlanSteps)
         /\ \/ ShardScaleOutPlan = <<>>
            \/ \E targets : ScalePlan(ShardScaleOutPlan, targets, slotOwners)
<1>1. CASE ScaleReady /\ spec.shards > Cardinality(MasterSet)
  <2>1. PICK count \in Nat : count = spec.shards - Cardinality(MasterSet)
    <3>1. spec.shards \in Nat
      BY PlannerAssumption DEF RequestTypes
    <3>2. Cardinality(MasterSet) \in Nat
      BY Observed
    <3> QED  BY <1>1, <3>1, <3>2
  <2>2. nextPodOrdinal \in Int /\ GroupSize \in Nat /\ spec.replicas \in Nat
    BY GroupMasters DEF RequestTypes
  <2>3. PICK size \in Nat : size = count * GroupSize
    <3>1. \A a, b \in Nat : a * b \in Nat
      OBVIOUS
    <3> QED  BY <2>2, <3>1
  <2>4. PICK pods : pods = Ordinals(nextPodOrdinal, size) /\ pods \in Seq(Names)
    BY <2>2, OrdinalNames
  <2>5. PICK newMasters : newMasters = Each(LAMBDA i : GroupMaster(nextPodOrdinal, i), Ordinals(1, count))
    OBVIOUS
  <2>6. newMasters \in Seq(Int) /\ Len(newMasters) = count /\ DOMAIN newMasters = 1..count
    BY <2>2, <2>5, NewMastersListed
  <2>7. newMasters \in Seq(Names)
    BY <2>6, SeqMonotonic DEF Names
  <2> DEFINE parts == [i \in DOMAIN newMasters |-> Ordinals(newMasters[i] + 1, spec.replicas)]
  <2>8. PICK newReplicas : newReplicas = Joined(Len(newMasters), parts)
    OBVIOUS
  <2>9. newReplicas \in Seq(Names)
    <3>1. ASSUME NEW i \in 1..count PROVE parts[i] \in Seq(Names)
      <4>1. PICK f \in Int : f = newMasters[i] + 1
        BY <2>6, ElementOfSeq
      <4> QED  BY <2>2, <2>6, <4>1, OrdinalNames
    <3> HIDE DEF parts
    <3> QED  BY <2>6, <2>8, <3>1, JoinedInSeq
  <2>10. Masters[1] \in Names
    <3>1. MasterSet # {}
      BY <1>1 DEF ScaleReady
    <3>2. 1 \in 1..Len(Masters)
      BY <3>1, Observed, FS_EmptySet
    <3> QED  BY <3>2, Observed, NamesHold
  <2>11. PICK targets : targets = Masters \o newMasters
    OBVIOUS
  <2>12. targets \in Seq(Names) /\ Len(targets) = spec.shards
    <3>1. Masters \in Seq(Names) /\ Len(Masters) = Cardinality(MasterSet)
      BY Observed, NamesHold, SeqMonotonic
    <3>2. targets \in Seq(Names) /\ Len(targets) = Len(Masters) + Len(newMasters)
      BY <2>7, <2>11, <3>1, ConcatProperties
    <3>3. Cardinality(MasterSet) \in Nat /\ spec.shards \in Nat
      BY PlannerAssumption, Observed DEF RequestTypes
    <3> QED  BY <2>1, <2>6, <3>1, <3>2, <3>3
  <2>13. PICK a, b, c, d :
           /\ a = Provision(pods) /\ b = MeetAll(Masters[1], newMasters)
           /\ c = MeetAll(Masters[1], newReplicas) /\ d = ReplicateGroups(nextPodOrdinal, count)
    OBVIOUS
  <2>14. a \in Seq(KeepingSteps)
    BY <2>4, <2>13, ProvisionMakes, MakingIsKeeping
  <2>15. b \in Seq(KeepingSteps) /\ c \in Seq(KeepingSteps)
    BY <2>7, <2>9, <2>10, <2>13, MeetAllMakes, MakingIsKeeping
  <2>16. d \in Seq(KeepingSteps)
    BY <2>2, <2>13, ReplicateGroupsMake, MakingIsKeeping
  <2>17. PICK before : before = ((a \o b) \o c) \o d /\ before \in Seq(KeepingSteps)
    BY <2>14, <2>15, <2>16, ConcatProperties
  <2>18. PICK body : body = before \o Migrations(targets)
    OBVIOUS
  <2>19. \/ ShardScaleOutPlan = Verified(body)
         \/ ShardScaleOutPlan = <<>>
    <3>1. newReplicas = Chain(LAMBDA m : Ordinals(m + 1, spec.replicas), newMasters)
      BY <2>8 DEF Chain, Each
    <3> HIDE DEF parts
    <3> QED  BY <2>1, <2>3, <2>4, <2>5, <2>11, <2>13, <2>17, <2>18, <3>1 DEF ShardScaleOutPlan
  <2>20. /\ Verified(body) \in Seq(ChangePlanSteps)
         /\ Verified(body) = <<>> \/ ScalePlan(Verified(body), targets, slotOwners)
    BY <2>12, <2>17, <2>18, ScalePlanBuilt
  <2> HIDE DEF parts
  <2> QED  BY <2>19, <2>20, EmptySeq
<1>2. CASE ~(ScaleReady /\ spec.shards > Cardinality(MasterSet))
  <2>1. ShardScaleOutPlan = <<>>
    BY <1>2, Zenon DEF ShardScaleOutPlan
  <2> QED  BY <2>1, EmptySeq
<1> QED  BY <1>1, <1>2

\* buildShardScaleInPlan also retires every old shard.
LEMMA ShardScaleInPlanChanges ==
  ASSUME TypeOK, PodsExist, RequestTypes
  PROVE  /\ ShardScaleInPlan \in Seq(ChangePlanSteps)
         /\ \/ ShardScaleInPlan = <<>>
            \/ \E targets : ScalePlan(ShardScaleInPlan, targets, slotOwners)
<1>1. CASE ScaleReady
  <2>1. PICK count \in Nat : count = spec.shards
    BY PlannerAssumption DEF RequestTypes
  <2>2. nextPodOrdinal \in Int /\ GroupSize \in Nat
    BY GroupMasters DEF RequestTypes
  <2>3. PICK size \in Nat : size = count * GroupSize
    <3>1. \A a, b \in Nat : a * b \in Nat
      OBVIOUS
    <3> QED  BY <2>2, <3>1
  <2>4. PICK pods : pods = Ordinals(nextPodOrdinal, size) /\ pods \in Seq(Names)
    BY <2>2, OrdinalNames
  <2>5. PICK newMasters : newMasters = Each(LAMBDA i : GroupMaster(nextPodOrdinal, i), Ordinals(1, count))
    OBVIOUS
  <2>6. newMasters \in Seq(Int) /\ Len(newMasters) = spec.shards
    BY <2>1, <2>2, <2>5, NewMastersListed
  <2>7. newMasters \in Seq(Names)
    BY <2>6, SeqMonotonic DEF Names
  <2>8. Masters[1] \in Names
    <3>1. MasterSet # {}
      BY <1>1 DEF ScaleReady
    <3>2. 1 \in 1..Len(Masters)
      BY <3>1, Observed, FS_EmptySet
    <3> QED  BY <3>2, Observed, NamesHold
  <2> DEFINE retire(m) == Chain(RetirePod, <<m>> \o ReplicaList(m))
             parts == [k \in DOMAIN Masters |-> retire(Masters[k])]
  <2>9. Joined(Len(Masters), parts) \in Seq(KeepingSteps)
    <3>1. ASSUME NEW m \in MasterSet PROVE retire(m) \in Seq(KeepingSteps)
      <4>1. m \in Names /\ ReplicaList(m) \in Seq(Names)
        BY Observed, NamesHold, SeqMonotonic
      <4>2. <<m>> \in Seq(Names)
        BY <4>1
      <4>3. <<m>> \o ReplicaList(m) \in Seq(Names)
        BY <4>1, <4>2, ConcatProperties
      <4> QED  BY <4>3, RetireAll
    <3>2. Len(Masters) \in Nat /\ DOMAIN Masters = 1..Len(Masters)
      BY Observed, LenProperties
    <3>3. \A k \in 1..Len(Masters) : Masters[k] \in MasterSet
      BY Observed
    <3> HIDE DEF retire
    <3>4. \A k \in 1..Len(Masters) : parts[k] \in Seq(KeepingSteps)
      BY <3>1, <3>2, <3>3
    <3> HIDE DEF parts
    <3> QED  BY <3>2, <3>4, JoinedInSeq
  <2>10. PICK a, b, c, e :
           /\ a = Provision(pods) /\ b = MeetAll(Masters[1], pods)
           /\ c = ReplicateGroups(nextPodOrdinal, count)
           /\ e = Joined(Len(Masters), parts)
    OBVIOUS
  <2>11. a \in Seq(KeepingSteps)
    BY <2>4, <2>10, ProvisionMakes, MakingIsKeeping
  <2>12. b \in Seq(KeepingSteps)
    BY <2>4, <2>8, <2>10, MeetAllMakes, MakingIsKeeping
  <2>13. c \in Seq(KeepingSteps)
    BY <2>2, <2>10, ReplicateGroupsMake, MakingIsKeeping
  <2>14. PICK before : before = (a \o b) \o c /\ before \in Seq(KeepingSteps)
    BY <2>11, <2>12, <2>13, ConcatProperties
  <2>15. e \in Seq(KeepingSteps)
    <3> HIDE DEF parts
    <3> QED  BY <2>9, <2>10
  <2>16. PICK body : body = (before \o Migrations(newMasters)) \o e
    OBVIOUS
  <2>17. \/ ShardScaleInPlan = Verified(body)
         \/ ShardScaleInPlan = <<>>
    <3>1. e = Chain(RetireShard, Masters)
      BY <2>10 DEF Chain, Each, RetireShard
    <3> HIDE DEF parts
    <3> QED  BY <2>1, <2>3, <2>4, <2>5, <2>10, <2>14, <2>16, <3>1 DEF ShardScaleInPlan
  <2>18. /\ Verified(body) \in Seq(ChangePlanSteps)
         /\ Verified(body) = <<>> \/ ScalePlan(Verified(body), newMasters, slotOwners)
    BY <2>6, <2>7, <2>14, <2>15, <2>16, ScalePlanBuilt
  <2> HIDE DEF parts
  <2> QED  BY <2>17, <2>18, EmptySeq
<1>2. CASE ~ScaleReady
  <2>1. ShardScaleInPlan = <<>>
    BY <1>2, Zenon DEF ShardScaleInPlan
  <2> QED  BY <2>1, EmptySeq
<1> QED  BY <1>1, <1>2

\* buildReplicaScaleOutPlan provides the missing replicas.
LEMMA ReplicaScaleOutPlanChanges ==
  ASSUME TypeOK, PodsExist, RequestTypes
  PROVE  ReplicaScaleOutPlan \in Seq(StayPlanSteps(MasterSet))
<1>1. Missing \in Seq(MasterSet) /\ MasterSet \in SUBSET Names
  BY MissingLists, NamesHold
<1>2. ProvisionReplicas(Missing) \in Seq(StayingSteps(MasterSet))
  BY <1>1, ProvisionReplicasStay
<1>3. Verified(ProvisionReplicas(Missing)) \in Seq(StayPlanSteps(MasterSet))
  BY <1>2, StayPlans
<1> QED  BY <1>3, EmptySeq DEF ReplicaScaleOutPlan

\* Whatever was observed of a cluster with masters, the plan has the steps that
\* change one: none of them is an AddSlots.
LEMMA ChangePlansBuilt ==
  ASSUME TypeOK, PodsExist, RequestTypes, MasterSet # {}, NEW lost
  PROVE  BuildGoPlan(lost) \in Seq(ChangePlanSteps)
<1>1. StayPlanSteps(MasterSet) \subseteq ChangePlanSteps
  BY StayingIsKeeping
<1>2. /\ RepairPlan(lost) \in Seq(ChangePlanSteps)
      /\ ReplicaScaleInPlan \in Seq(ChangePlanSteps)
      /\ ReplicaScaleOutPlan \in Seq(ChangePlanSteps)
  BY <1>1, RepairPlanChanges, ReplicaScaleInPlanChanges, ReplicaScaleOutPlanChanges, SeqMonotonic
<1>3. /\ ImageDriftPlan \in Seq(ChangePlanSteps)
      /\ ShardScaleOutPlan \in Seq(ChangePlanSteps)
      /\ ShardScaleInPlan \in Seq(ChangePlanSteps)
  BY ImageDriftPlanChanges, ShardScaleOutPlanChanges, ShardScaleInPlanChanges
<1> QED  BY <1>2, <1>3, Zenon DEF BuildGoPlan, OrElse

\* The plan moves no slots, or replaces shards one by one and keeps their number, or
\* moves every slot to the master whose range it is in.
LEMMA PlansAllocate ==
  ASSUME TypeOK, PodsExist, RequestTypes, MasterSet # {}, NEW lost
  PROVE  \/ BuildGoPlan(lost) \in Seq(KeepPlanSteps)
         \/ Cardinality(MasterSet) = spec.shards /\ SlotsCovered
         \/ \E targets : ScalePlan(BuildGoPlan(lost), targets, slotOwners)
<1>1. /\ RepairPlan(lost) \in Seq(KeepPlanSteps)
      /\ ReplicaScaleInPlan \in Seq(KeepPlanSteps)
      /\ ReplicaScaleOutPlan \in Seq(KeepPlanSteps)
  BY RepairPlanChanges, ReplicaScaleInPlanChanges, ReplicaScaleOutPlanChanges, StayingIsKeeping,
     SeqMonotonic
<1>2. ImageDriftPlan # <<>> => Cardinality(MasterSet) = spec.shards /\ SlotsCovered
  BY Zenon DEF ImageDriftPlan
<1>3. \/ ShardScaleOutPlan = <<>>
      \/ \E targets : ScalePlan(ShardScaleOutPlan, targets, slotOwners)
  BY ShardScaleOutPlanChanges
<1>4. \/ ShardScaleInPlan = <<>>
      \/ \E targets : ScalePlan(ShardScaleInPlan, targets, slotOwners)
  BY ShardScaleInPlanChanges
<1>5. \/ BuildGoPlan(lost) \in {RepairPlan(lost), ReplicaScaleInPlan, ReplicaScaleOutPlan}
      \/ BuildGoPlan(lost) = ImageDriftPlan /\ ImageDriftPlan # <<>>
      \/ BuildGoPlan(lost) = ShardScaleOutPlan /\ ShardScaleOutPlan # <<>>
      \/ BuildGoPlan(lost) = ShardScaleInPlan /\ ShardScaleInPlan # <<>>
  <2> DEFINE repair == RepairPlan(lost)
  <2> HIDE DEF repair
  <2>1. BuildGoPlan(lost) =
          OrElse(repair, OrElse(ImageDriftPlan, OrElse(ReplicaScaleInPlan,
          OrElse(ShardScaleOutPlan, OrElse(ShardScaleInPlan, ReplicaScaleOutPlan)))))
    BY DEF BuildGoPlan, repair
  <2>2. \/ BuildGoPlan(lost) \in {repair, ReplicaScaleInPlan, ReplicaScaleOutPlan}
        \/ BuildGoPlan(lost) = ImageDriftPlan /\ ImageDriftPlan # <<>>
        \/ BuildGoPlan(lost) = ShardScaleOutPlan /\ ShardScaleOutPlan # <<>>
        \/ BuildGoPlan(lost) = ShardScaleInPlan /\ ShardScaleInPlan # <<>>
    BY <2>1, SMT DEF OrElse
  <2> QED  BY <2>2 DEF repair
<1> QED  BY <1>1, <1>2, <1>3, <1>4, <1>5, Zenon

\* slotRange stays within the slots, and the ranges of the shards cover them.
LEMMA SlotRangesFit ==
  ASSUME NEW shards \in Nat \ {0}, NEW count \in Nat, NEW i \in 0..shards - 1
  PROVE  /\ (i * count) \div shards \in Nat
         /\ ((i + 1) * count) \div shards <= count
<1>1. i * count \in Nat /\ (i + 1) * count \in Nat
  BY Products
<1>2. (i * count) \div shards \in Nat
  BY <1>1, Division
<1>3. PICK q \in Nat, r \in 0..shards - 1 :
        q = ((i + 1) * count) \div shards /\ (i + 1) * count = shards * q + r
  BY <1>1, Division
<1>4. shards * count >= (i + 1) * count
  <2>1. CASE i + 1 = shards
    BY <2>1
  <2>2. CASE i + 1 < shards
    BY <2>2, Products
  <2> QED  BY <2>1, <2>2
<1>5. ASSUME q > count PROVE FALSE
  <2>1. q * shards >= count * shards + shards
    BY <1>5, Products
  <2>2. q * shards = shards * q /\ count * shards = shards * count
    BY SMT
  <2>3. /\ shards * q \in Int /\ shards * count \in Int /\ (i + 1) * count \in Int
    BY <1>1, SMT
  <2> QED  BY <1>3, <1>4, <2>1, <2>2, <2>3
<1> QED  BY <1>2, <1>3, <1>5

\* The shard that has a slot is the first whose range ends after it.
LEMMA SlotRangesCover ==
  ASSUME NEW shards \in Nat \ {0}, NEW count \in Nat, NEW s \in 0..count - 1
  PROVE  \E i \in 0..shards - 1 : s \in SlotRange(i, shards, count)
<1> DEFINE T == {i \in Nat : ((i + 1) * count) \div shards > s}
<1>1. shards - 1 \in T
  <2>1. shards * count \in Nat
    BY SMT
  <2>2. PICK q \in Nat, r \in 0..shards - 1 :
          q = (shards * count) \div shards /\ shards * count = shards * q + r
    BY <2>1, Division
  <2>3. ASSUME q < count PROVE FALSE
    <3>1. count * shards >= q * shards + shards
      BY <2>3, Products
    <3>2. q * shards = shards * q /\ count * shards = shards * count /\ shards * q \in Int
      BY SMT
    <3> QED  BY <2>1, <2>2, <3>1, <3>2
  <2>4. (shards * count) \div shards > s
    BY <2>2, <2>3
  <2>5. shards - 1 \in Nat /\ (shards - 1) + 1 = shards
    OBVIOUS
  <2> QED  BY <2>4, <2>5
<1>2. PICK i \in T : \A j \in T : ~(j < i)
  <2>1. T \subseteq Nat /\ T # {}
    BY <1>1
  <2> HIDE DEF T
  <2> QED  BY <2>1, LeastExists
<1>3. i \in 0..shards - 1
  BY <1>1, <1>2
<1>4. (i * count) \div shards <= s
  <2>1. CASE i = 0
    <3>1. PICK q \in Nat, r \in 0..shards - 1 : q = 0 \div shards /\ 0 = shards * q + r
      BY Division
    <3>2. ASSUME q > 0 PROVE FALSE
      <4>1. q * shards >= 0 * shards + shards
        BY <3>2, Products
      <4>2. q * shards = shards * q /\ 0 * shards = 0
        BY SMT
      <4> QED  BY <3>1, <4>1, <4>2
    <3>3. 0 * count = 0
      BY SMT
    <3> QED  BY <2>1, <3>1, <3>2, <3>3
  <2>2. CASE i # 0
    <3>1. i - 1 \in Nat /\ (i - 1) + 1 = i
      BY <2>2
    <3>2. i - 1 \notin T
      BY <1>2, <3>1
    <3>3. (i * count) \div shards \in Nat
      BY <1>3, SlotRangesFit
    <3> QED  BY <3>1, <3>2, <3>3
  <2> QED  BY <2>1, <2>2
<1>5. ((i + 1) * count) \div shards > s
  BY <1>2
<1>6. (i * count) \div shards \in Nat /\ ((i + 1) * count) \div shards \in Int
  <2>1. (i + 1) * count \in Nat
    BY <1>3, Products
  <2> QED  BY <1>3, <2>1, SlotRangesFit, Division
<1>7. s \in SlotRange(i, shards, count)
  BY <1>4, <1>5, <1>6 DEF SlotRange
<1> QED  BY <1>3, <1>7

\* The steps of buildCreatePlan before its AddSlots.
CreateBegins(making) ==
    \E pods \in Seq(Int) :
        /\ pods # <<>>
        /\ making = (Provision(pods) \o MeetAll(0, Tail(pods))) \o ReplicateGroups(0, spec.shards)

\* What buildCreatePlan makes: steps that make nodes, then the AddSlots of all
\* the slots, then the VerifyCluster.
LEMMA CreatePlanBuilt ==
  ASSUME RequestTypes
  PROVE  \E making \in Seq(MakingSteps), adds \in Seq(AddSteps) :
           /\ CreatePlan = Append(making \o adds, VerifySpec)
           /\ \A s \in Slots : \E i \in 1..Len(adds) : s \in adds[i].slots
           /\ Len(adds) = spec.shards
           /\ \A i \in 1..Len(adds) :
                adds[i].slots = SlotRange(i - 1, spec.shards, Cardinality(Slots))
           /\ CreateBegins(making)
           /\ \A i \in 1..Len(adds) : adds[i].pod = GroupMaster(0, i)
<1>1. PICK shards \in Nat \ {0} : shards = spec.shards
  BY PlannerAssumption DEF RequestTypes
<1>2. PICK count \in Nat : count = Cardinality(Slots) /\ Slots = 0..count - 1
  BY Numbers
<1>3. PICK size \in Nat \ {0} : size = shards * GroupSize
  <2>1. PICK g \in Nat \ {0} : g = GroupSize
    <3>1. spec.replicas \in Nat
      BY DEF RequestTypes
    <3> QED  BY <3>1 DEF GroupSize
  <2>2. shards * g >= 0 * g + g
    BY Products
  <2>3. 0 * g = 0 /\ shards * g \in Int
    BY SMT
  <2>4. shards * g \in Nat \ {0}
    BY <2>2, <2>3
  <2> QED  BY <2>1, <2>4
<1>4. PICK pods : pods = Ordinals(0, size)
  OBVIOUS
<1>5. pods \in Seq(Names) /\ pods # <<>> /\ pods \in Seq(Int)
  <2>1. Len(pods) = size /\ pods \in Seq(Int)
    BY <1>4, OrdinalsInSeq
  <2>2. pods \in Seq(Names)
    BY <1>4, OrdinalNames
  <2> QED  BY <2>1, <2>2, EmptySeq
<1>6. Tail(pods) \in Seq(Names)
  BY <1>5, HeadTailProperties
<1>7. 0 \in Names
  BY DEF Names
<1> DEFINE adds == [k \in DOMAIN Ordinals(1, shards) |->
                      Add(GroupMaster(0, Ordinals(1, shards)[k]),
                          SlotRange(Ordinals(1, shards)[k] - 1, shards, count))]
<1>8. PICK a, b, c : /\ a = Provision(pods) /\ b = MeetAll(0, Tail(pods))
                     /\ c = ReplicateGroups(0, shards)
  OBVIOUS
<1>9. a \in Seq(MakingSteps) /\ b \in Seq(MakingSteps) /\ c \in Seq(MakingSteps)
  <2>1. a \in Seq(MakingSteps)
    BY <1>5, <1>8, ProvisionMakes
  <2>2. b \in Seq(MakingSteps)
    BY <1>6, <1>7, <1>8, MeetAllMakes
  <2>3. c \in Seq(MakingSteps)
    BY <1>8, ReplicateGroupsMake
  <2> QED  BY <2>1, <2>2, <2>3
<1>10. (a \o b) \o c \in Seq(MakingSteps)
  BY <1>9, ConcatProperties
<1>11. DOMAIN Ordinals(1, shards) = 1..shards /\ \A i \in 1..shards : Ordinals(1, shards)[i] = i
  BY Counting
<1>12. \A i \in 1..shards : adds[i] = Add(GroupMaster(0, i), SlotRange(i - 1, shards, count))
  BY <1>11
<1>13. /\ adds \in Seq(AddSteps) /\ Len(adds) = shards
  <2>1. ASSUME NEW i \in 1..shards PROVE adds[i] \in AddSteps
    <3>1. GroupMaster(0, i) \in Names
      BY GroupMasters DEF Names
    <3>2. SlotRange(i - 1, shards, count) \in SUBSET Slots
      <4>1. i - 1 \in 0..shards - 1 /\ (i - 1) + 1 = i
        OBVIOUS
      <4>2. PICK j \in 0..shards - 1 : j = i - 1
        BY <4>1
      <4>3. /\ (j * count) \div shards \in Nat
            /\ ((j + 1) * count) \div shards <= count
        BY SlotRangesFit
      <4>4. ((j + 1) * count) \div shards \in Int
        <5>1. (j + 1) * count \in Nat
          BY Products
        <5> QED  BY <5>1, Division
      <4>5. SlotRange(j, shards, count) \subseteq 0..count - 1
        BY <4>3, <4>4 DEF SlotRange
      <4> QED  BY <1>2, <4>2, <4>5
    <3>3. Add(GroupMaster(0, i), SlotRange(i - 1, shards, count)) \in AddSteps
      BY <3>1, <3>2, StepTypes
    <3> HIDE DEF adds
    <3> QED  BY <1>12, <3>3
  <2>2. adds = [k \in DOMAIN Ordinals(1, shards) |-> adds[k]]
    OBVIOUS
  <2> HIDE DEF adds
  <2> QED  BY <1>11, <2>1, <2>2, MappedInSeq
<1>14. ASSUME NEW s \in Slots PROVE \E i \in 1..Len(adds) : s \in adds[i].slots
  <2>1. PICK j \in 0..shards - 1 : s \in SlotRange(j, shards, count)
    BY <1>2, SlotRangesCover
  <2>2. j + 1 \in 1..shards /\ (j + 1) - 1 = j
    OBVIOUS
  <2>3. adds[j + 1] = Add(GroupMaster(0, j + 1), SlotRange(j, shards, count))
    BY <1>12, <2>2
  <2>4. adds[j + 1].slots = SlotRange(j, shards, count)
    BY <2>3 DEF Add
  <2> HIDE DEF adds
  <2> QED  BY <1>13, <2>1, <2>2, <2>4
<1>15. CreatePlan = Verified(((a \o b) \o c) \o adds)
  BY <1>1, <1>2, <1>3, <1>4, <1>8 DEF CreatePlan, Each
<1>16. ((a \o b) \o c) \o adds # <<>>
  <2> HIDE DEF adds
  <2>1. Len(((a \o b) \o c) \o adds) = Len((a \o b) \o c) + Len(adds)
    <3>1. PICK m : m = (a \o b) \o c
      OBVIOUS
    <3>2. m \in Seq(MakingSteps \cup AddSteps) /\ adds \in Seq(MakingSteps \cup AddSteps)
      BY <1>10, <1>13, <3>1, SeqMonotonic
    <3> QED  BY <3>1, <3>2, ConcatProperties
  <2>2. Len((a \o b) \o c) \in Nat
    BY <1>10, LenProperties
  <2>3. Len(((a \o b) \o c) \o adds) # 0
    BY <1>13, <2>1, <2>2
  <2> QED  BY <2>3, EmptySeq
<1>17. CreatePlan = Append(((a \o b) \o c) \o adds, VerifySpec)
  BY <1>15, <1>16 DEF Verified
<1>18. ASSUME NEW i \in 1..Len(adds)
       PROVE  adds[i].slots = SlotRange(i - 1, spec.shards, Cardinality(Slots))
  <2>1. adds[i] = Add(GroupMaster(0, i), SlotRange(i - 1, shards, count))
    <3> HIDE DEF adds
    <3> QED  BY <1>12, <1>13
  <2>2. Add(GroupMaster(0, i), SlotRange(i - 1, shards, count)).slots
          = SlotRange(i - 1, shards, count)
    BY DEF Add
  <2> HIDE DEF adds
  <2> QED  BY <1>1, <1>2, <2>1, <2>2
<1>19. ASSUME NEW i \in 1..Len(adds) PROVE adds[i].pod = GroupMaster(0, i)
  <2>1. adds[i] = Add(GroupMaster(0, i), SlotRange(i - 1, shards, count))
    <3> HIDE DEF adds
    <3> QED  BY <1>12, <1>13
  <2>2. Add(GroupMaster(0, i), SlotRange(i - 1, shards, count)).pod = GroupMaster(0, i)
    BY DEF Add
  <2> HIDE DEF adds
  <2> QED  BY <2>1, <2>2
<1>20. CreateBegins((a \o b) \o c)
  BY <1>1, <1>5, <1>8 DEF CreateBegins
<1> HIDE DEF adds
<1>21. \A s \in Slots : \E i \in 1..Len(adds) : s \in adds[i].slots
  BY <1>14
<1>22. \A i \in 1..Len(adds) :
         /\ adds[i].slots = SlotRange(i - 1, spec.shards, Cardinality(Slots))
         /\ adds[i].pod = GroupMaster(0, i)
  BY <1>18, <1>19
<1> QED  BY <1>1, <1>10, <1>13, <1>17, <1>20, <1>21, <1>22

-----------------------------------------------------------------------------
(***************************************************************************)
(* A plan's steps, with the parameters that the validator's Next gives     *)
(* them.                                                                   *)
(***************************************************************************)
PlanSteps == ChangePlanSteps \cup AddSteps

PlannerInv ==
    /\ IInv
    /\ PodsExist
    /\ RequestTypes
    /\ plan \in Seq(PlanSteps)
    /\ EnsuredPods(plan) \subseteq Pods

\* No slots change hands with an empty list of slots.
LEMMA NoSlotsNoChange ==
  ASSUME TypeOK, NEW p \in Keys, NEW q \in Keys, p # q,
         AddSlots(p, {}) \/ MigrateSlots(p, q, {})
  PROVE  UNCHANGED <<podVars, ready, memberVars, roleVars, slotVars, forgetPods>>
<1>1. UNCHANGED <<podVars, ready, memberVars, roleVars, forgetPods>>
  BY DEF AddSlots, Assign, MigrateSlots, Transfer
<1>2. slotOwners' = slotOwners
  <2>1. slotOwners = [s \in Slots |-> slotOwners[s]]
    BY DEF TypeOK
  <2>2. slotOwners' = [s \in Slots |-> slotOwners[s]]
    BY DEF AddSlots, Assign, MigrateSlots, Transfer
  <2> QED  BY <2>1, <2>2
<1>3. slots' = slots
  <2>1. slots \in [Keys -> SUBSET Slots]
    BY DEF TypeOK
  <2>2. CASE AddSlots(p, {})
    BY <2>1, <2>2 DEF AddSlots, Assign
  <2>3. CASE MigrateSlots(p, q, {})
    <3>1. slots' = [slots EXCEPT ![p] = @ \ {}, ![q] = @ \cup {}]
      BY <2>3 DEF MigrateSlots, Transfer
    <3> QED  BY <2>1, <3>1
  <2> QED  BY <2>2, <2>3
<1> QED  BY <1>1, <1>2, <1>3 DEF slotVars

\* The simulator's guards admit only pods, so a step of a plan is a step that the
\* schema check lets through, or changes nothing (the DeleteNode of a ghost that
\* has no pod, an empty list of slots).
LEMMA PerformIsTopologyStep ==
  ASSUME PlannerInv, NEW step \in PlanSteps, Perform(step),
         step.action = "EnsureNode" => step.pod \in Pods
  PROVE  /\ \/ TopologyStep
            \/ UNCHANGED <<podVars, ready, memberVars, roleVars, slotVars, forgetPods>>
         /\ PodsExist'
<1>1. /\ TypeOK /\ exists \subseteq Pods /\ ready \subseteq Pods
      /\ \A k : k \in ReadyMembers => k \in Pods
  BY DEF PlannerInv, IInv, NodesInv, ReadyHasPod, PodsExist, ReadyMembers
<1>2. Pods \subseteq Keys /\ Pods \cap Ghosts = {}
  BY KeysAssumption DEF Keys
<1> USE DEF podVars, PodsExist
<1>3. CASE step.action = "EnsureNode" /\ EnsureNode(step.pod)
  <2>1. PICK p \in Pods : EnsureNode(p)
    BY <1>3
  <2> QED  BY <1>1, <2>1 DEF TopologyStep, EnsureNode
<1>4. CASE step.action = "WaitNodeReady" /\ WaitNodeReady(step.pod)
  <2>1. PICK p \in Pods : WaitNodeReady(p)
    BY <1>1, <1>4 DEF WaitNodeReady
  <2> QED  BY <1>1, <2>1 DEF TopologyStep, WaitNodeReady
<1>5. CASE step.action = "MeetNode" /\ MeetNode(step.source, step.target)
  <2>1. PICK p \in Pods, q \in Pods : MeetNode(p, q)
    BY <1>1, <1>5 DEF MeetNode
  <2> QED  BY <1>1, <2>1 DEF TopologyStep, MeetNode
<1>6. CASE step.action = "ReplicateNode" /\ ReplicateNode(step.master, step.replica)
  <2>1. PICK p \in Pods, q \in Pods : ReplicateNode(p, q)
    BY <1>1, <1>6 DEF ReplicateNode
  <2> QED  BY <1>1, <2>1 DEF TopologyStep, ReplicateNode
<1>7. CASE step.action = "AddSlots" /\ AddSlots(step.pod, step.slots)
  <2>1. step.slots \in SUBSET Slots
    BY <1>7 DEF PlanSteps, ChangePlanSteps, ChangingSteps, MakingSteps, PodSteps, MeetSteps,
                ReplicateSteps, AddSteps, MigrateSteps, ForgetSteps, VerifySteps
  <2>2. PICK p \in Pods, added \in SUBSET Slots : AddSlots(p, added)
    BY <1>1, <1>7, <2>1 DEF AddSlots, ReadyMaster
  <2>3. PodsExist'
    BY <1>1, <2>2 DEF AddSlots, Assign
  <2>4. CASE added = {}
    <3>1. NoKey \notin Keys
      BY KeysAssumption
    <3>2. ReplicasOf(p) # {} => \E q \in Keys : q # p
      <4>1. ReplicasOf(p) \subseteq exists
        BY DEF ReplicasOf
      <4>2. ReadyMaster(p) => role[p] = "master"
        BY DEF ReadyMaster
      <4>3. \A r \in ReplicasOf(p) : role[r] = "replica"
        BY DEF ReplicasOf
      <4>4. ReadyMaster(p)
        BY <2>2 DEF AddSlots
      <4> QED  BY <1>1, <1>2, <4>1, <4>2, <4>3, <4>4
    <3>3. PICK q \in Keys : q # p
      BY <2>2, <3>2 DEF AddSlots
    <3> QED  BY <1>1, <1>2, <2>2, <2>3, <2>4, <3>3, NoSlotsNoChange
  <2>5. CASE added # {}
    <3>1. added \in (SUBSET Slots) \ {{}}
      BY <2>5
    <3> QED  BY <2>2, <2>3, <3>1 DEF TopologyStep
  <2> QED  BY <2>4, <2>5
<1>8. CASE step.action = "MigrateSlots" /\ MigrateSlots(step.source, step.target, step.slots)
  <2>1. step.slots \in SUBSET Slots
    BY <1>8 DEF PlanSteps, ChangePlanSteps, ChangingSteps, MakingSteps, PodSteps, MeetSteps,
                ReplicateSteps, AddSteps, MigrateSteps, ForgetSteps, VerifySteps
  <2>2. PICK p \in Pods, q \in Pods, listed \in SUBSET Slots : MigrateSlots(p, q, listed)
    BY <1>1, <1>8, <2>1 DEF MigrateSlots, ReadyMaster
  <2>3. PodsExist'
    BY <1>1, <2>2 DEF MigrateSlots, Transfer
  <2>4. CASE listed = {}
    <3>1. p # q
      BY <2>2 DEF MigrateSlots
    <3> QED  BY <1>1, <1>2, <2>2, <2>3, <2>4, <3>1, NoSlotsNoChange
  <2>5. CASE listed # {}
    <3>1. listed \in (SUBSET Slots) \ {{}}
      BY <2>5
    <3> QED  BY <2>2, <2>3, <3>1 DEF TopologyStep
  <2> QED  BY <2>4, <2>5
<1>9. CASE step.action = "ForgetNode" /\ ForgetNode(step.key, step.pod)
  <2>1. step.pod \in Pods \cup {NoKey}
    BY <1>9 DEF PlanSteps, ChangePlanSteps, ChangingSteps, MakingSteps, PodSteps, MeetSteps,
                ReplicateSteps, AddSteps, MigrateSteps, ForgetSteps, VerifySteps
  <2>2. PICK k \in Keys, pod \in Pods \cup {NoKey} : ForgetNode(k, pod)
    BY <1>1, <1>9, <2>1 DEF ForgetNode, TypeOK
  <2> QED  BY <1>1, <2>2 DEF TopologyStep, ForgetNode, Forget
<1>10. CASE step.action = "DeleteNode" /\ DeleteNode(step.pod)
  <2>1. PICK k \in Keys : DeleteNode(k)
    BY <1>1, <1>2, <1>10 DEF DeleteNode, TypeOK
  <2>2. PodsExist'
    BY <1>1, <2>1 DEF DeleteNode
  <2>3. CASE k \in Pods
    BY <2>1, <2>2, <2>3 DEF TopologyStep
  <2>4. CASE k \notin Pods
    <3>1. exists' = exists /\ ready' = ready
      BY <1>1, <2>1, <2>4 DEF DeleteNode
    <3> QED  BY <2>1, <2>2, <3>1 DEF DeleteNode
  <2> QED  BY <2>3, <2>4
<1> QED  BY <1>3, <1>4, <1>5, <1>6, <1>7, <1>8, <1>9, <1>10 DEF Perform

\* The VerifyCluster that ends a plan is one that the validator's Verify admits:
\* a plan asks for at least one shard, so a live master has the replicas it names.
LEMMA AcceptPlanIsVerify ==
  ASSUME PlannerInv, AcceptPlan
  PROVE  Verify
<1>1. /\ VerifyCluster(spec.shards, spec.replicas)
      /\ MastersAsExpected(spec.shards, spec.replicas)
  BY DEF AcceptPlan, VerifyCluster, VerifyAccepts
<1>2. IsFiniteSet(Keys) /\ Cardinality(Keys) \in Nat
  BY KeysAssumption, FS_CardinalityType
<1>3. LiveMasters \in SUBSET Keys /\ \A k : ReplicasOf(k) \in SUBSET Keys
  BY DEF PlannerInv, IInv, TypeOK, LiveMasters, ReplicasOf
<1>4. spec.shards \in Nat \ {0} /\ spec.replicas \in Nat
  BY PlannerAssumption DEF PlannerInv, RequestTypes
<1>5. spec.shards = Cardinality(LiveMasters) /\ spec.shards <= Cardinality(Keys)
  BY <1>1, <1>2, <1>3, FS_Subset DEF MastersAsExpected
<1>6. PICK k : k \in LiveMasters
  BY <1>4, <1>5, FS_EmptySet
<1>7. spec.replicas <= Cardinality(Keys)
  <2>1. spec.replicas = Cardinality(ReplicasOf(k))
    BY <1>1, <1>6 DEF MastersAsExpected
  <2>2. Cardinality(ReplicasOf(k)) <= Cardinality(Keys)
    BY <1>2, <1>3, FS_Subset
  <2> QED  BY <2>1, <2>2
<1>8. spec.shards \in 0..Cardinality(Keys) /\ spec.replicas \in 0..Cardinality(Keys)
  BY <1>2, <1>4, <1>5, <1>7
<1> QED  BY <1>1, <1>8 DEF Verify

\* Every step of the planner's runs is a step of the validator's, or changes none
\* of its state.
LEMMA PlannerStepsSimulate ==
  ASSUME PlannerInv, [PlannerNext]_plannerVars
  PROVE  [Next]_vars /\ PodsExist'
<1> USE DEF vars, podVars, memberVars, roleVars, slotVars, planVars
<1>1. CASE BuildPlan
  BY <1>1 DEF BuildPlan, PlannerInv, PodsExist
<1>2. CASE SimulateStep
  <2>1. cursor \in DOMAIN plan /\ plan \in Seq(PlanSteps)
    BY <1>2 DEF SimulateStep, PlannerInv
  <2>2. PICK step : step = plan[cursor]
    OBVIOUS
  <2>3. step \in PlanSteps
    BY <2>1, <2>2, LenProperties, ElementOfSeq
  <2>4. step.action = "EnsureNode" => step.pod \in Pods
    BY <2>1, <2>2 DEF PlannerInv, EnsuredPods
  <2>5. Perform(step)
    BY <1>2, <2>2 DEF SimulateStep
  <2>6. /\ \/ TopologyStep
           \/ UNCHANGED <<podVars, ready, memberVars, roleVars, slotVars, forgetPods>>
        /\ PodsExist'
    BY <2>3, <2>4, <2>5, PerformIsTopologyStep
  <2>7. phase = "simulating" /\ InvariantsHold' /\ UNCHANGED planVars
    BY <1>2 DEF SimulateStep
  <2>8. CASE TopologyStep
    BY <2>6, <2>7, <2>8 DEF Next, Simulate
  <2>9. CASE UNCHANGED <<podVars, ready, memberVars, roleVars, slotVars, forgetPods>>
    BY <2>6, <2>7, <2>9
  <2> QED  BY <2>6, <2>8, <2>9
<1>3. CASE AcceptPlan
  BY <1>3, AcceptPlanIsVerify DEF Next, AcceptPlan, VerifyCluster, PlannerInv, PodsExist
<1>4. CASE UNCHANGED plannerVars
  BY <1>4 DEF plannerVars, PlannerInv, PodsExist
<1> QED  BY <1>1, <1>2, <1>3, <1>4 DEF PlannerNext

\* Whatever was observed, buildGoPlan makes a list of well-formed steps.
LEMMA NewPlansBuilt ==
  ASSUME TypeOK, PodsExist, RequestTypes, NEW lost
  PROVE  BuildGoPlan(lost) \in Seq(PlanSteps)
<1>1. CASE MasterSet # {}
  BY <1>1, ChangePlansBuilt, SeqMonotonic DEF PlanSteps
<1>2. CASE MasterSet = {}
  <2>1. PICK making \in Seq(MakingSteps), adds \in Seq(AddSteps) :
          CreatePlan = Append(making \o adds, VerifySpec)
    BY CreatePlanBuilt
  <2>2. making \in Seq(PlanSteps) /\ adds \in Seq(PlanSteps)
    BY <2>1, SeqMonotonic DEF PlanSteps, ChangePlanSteps, ChangingSteps
  <2>3. VerifySpec \in PlanSteps
    BY DEF PlanSteps, ChangePlanSteps, VerifySteps, VerifySpec
  <2>4. making \o adds \in Seq(PlanSteps)
    BY <2>2, ConcatProperties
  <2>5. Append(making \o adds, VerifySpec) \in Seq(PlanSteps)
    BY <2>3, <2>4
  <2> QED  BY <1>2, <2>1, <2>5 DEF BuildGoPlan
<1> QED  BY <1>1, <1>2

\* Before a plan is built the invariant holds.
LEMMA InitPlannerInv == PlannerInit => PlannerInv
<1> SUFFICES ASSUME PlannerInit PROVE PlannerInv
  OBVIOUS
<1>1. IInv
  BY InitIInv DEF PlannerInit
<1>2. PodsExist
  BY DEF PlannerInit, Init, Observation, PodsExist
<1>3. RequestTypes
  BY DEF PlannerInit, Request, RequestTypes
<1>4. plan = <<>>
  BY DEF PlannerInit, Request
<1>5. EnsuredPods(plan) = {}
  BY <1>4 DEF EnsuredPods
<1> QED  BY <1>1, <1>2, <1>3, <1>4, <1>5, EmptySeq DEF PlannerInv

\* The planner and the simulation of its plan keep the invariant.
LEMMA PlannerInvKept == PlannerInv /\ [PlannerNext]_plannerVars => PlannerInv'
<1> SUFFICES ASSUME PlannerInv, [PlannerNext]_plannerVars PROVE PlannerInv'
  OBVIOUS
<1>1. [Next]_vars /\ PodsExist'
  BY PlannerStepsSimulate
<1>2. IInv'
  BY <1>1, SimulateKeeps, VerifyKeeps, StutterKeeps DEF PlannerInv, Next
<1>3. RequestTypes'
  <2>1. UNCHANGED requestVars
    BY DEF PlannerNext, BuildPlan, SimulateStep, AcceptPlan, plannerVars
  <2> QED  BY <2>1 DEF requestVars, PlannerInv, RequestTypes
<1>4. plan' \in Seq(PlanSteps) /\ EnsuredPods(plan') \subseteq Pods
  <2>1. CASE BuildPlan
    <3>1. PICK lost : plan' = BuildGoPlan(lost)
      BY <2>1 DEF BuildPlan
    <3>2. EnsuredPods(plan') \subseteq Pods
      BY <2>1 DEF BuildPlan
    <3> QED  BY <3>1, <3>2, NewPlansBuilt DEF PlannerInv, IInv
  <2>2. CASE ~BuildPlan
    BY <2>2 DEF PlannerNext, SimulateStep, AcceptPlan, plannerVars, PlannerInv
  <2> QED  BY <2>1, <2>2
<1>5. EnsuredPods(plan)' = EnsuredPods(plan')
  BY DEF EnsuredPods
<1> QED  BY <1>1, <1>2, <1>3, <1>4, <1>5 DEF PlannerInv

\* The run of any plan of the Go planner's is a run of the validator VM, for any
\* numbers of pods, slots, shards and replicas: all that is proved of plans that
\* the VM accepts holds of the deterministic planner's.
THEOREM PlannerRunsAreValidatorRuns == PlannerSpec => Spec
<1>1. PlannerInit => Init
  BY DEF PlannerInit
<1>2. PlannerInv /\ [PlannerNext]_plannerVars => [Next]_vars
  BY PlannerStepsSimulate
<1> QED  BY <1>1, <1>2, InitPlannerInv, PlannerInvKept, PTL DEF PlannerSpec, Spec

\* In every state of the planner's runs the VM's inductive invariant holds, and the
\* plan is a list of steps that names pods and slots.
THEOREM PlannerInductive == PlannerSpec => []PlannerInv
BY InitPlannerInv, PlannerInvKept, PTL DEF PlannerSpec

-----------------------------------------------------------------------------
(***************************************************************************)
(* After an accepted plan there is nothing left to plan.                   *)
(***************************************************************************)
MembersHaveRole == \A k \in clusterMember : role[k] \in {"master", "replica"}

\* A node in the cluster is a master or a replica: MEET makes a new one a master.
LEMMA MembersHaveRoleKept ==
  TypeOK /\ MembersHaveRole /\ [Next]_vars => MembersHaveRole'
<1> SUFFICES ASSUME TypeOK, MembersHaveRole, [Next]_vars PROVE MembersHaveRole'
  OBVIOUS
<1> USE DEF MembersHaveRole, vars, podVars, memberVars, roleVars, slotVars, planVars
<1>1. ASSUME NEW p \in Pods, EnsureNode(p) \/ WaitNodeReady(p) \/ DeleteNode(p)
      PROVE  MembersHaveRole'
  BY <1>1 DEF EnsureNode, WaitNodeReady, DeleteNode
<1>2. ASSUME NEW p \in Pods, NEW q \in Pods, MeetNode(p, q) PROVE MembersHaveRole'
  <2>1. role \in [Keys -> {"", "master", "replica"}] /\ clusterMember' = clusterMember \cup {p, q}
    BY <1>2 DEF TypeOK, MeetNode
  <2>2. \A k \in Keys : role'[k] = IF k \in {p, q} /\ role[k] = "" THEN "master" ELSE role[k]
    BY <1>2 DEF MeetNode
  <2>3. \A k \in clusterMember' : k \in Keys
    BY <2>1 DEF TypeOK, Keys
  <2> QED  BY <2>1, <2>2, <2>3
<1>3. ASSUME NEW p \in Pods, NEW q \in Pods, ReplicateNode(p, q) PROVE MembersHaveRole'
  <2>1. role \in [Keys -> {"", "master", "replica"}] /\ clusterMember' = clusterMember
    BY <1>3 DEF TypeOK, ReplicateNode
  <2>2. role' = [role EXCEPT ![p] = "master", ![q] = "replica"]
    BY <1>3 DEF ReplicateNode
  <2>3. \A k \in Keys : role'[k] \in {"master", "replica", role[k]}
    BY <2>1, <2>2
  <2>4. clusterMember \subseteq Keys
    BY DEF TypeOK
  <2> QED  BY <2>1, <2>3, <2>4
<1>4. ASSUME NEW p \in Pods, NEW added, AddSlots(p, added) PROVE MembersHaveRole'
  BY <1>4 DEF AddSlots, Assign
<1>5. ASSUME NEW p \in Pods, NEW q \in Pods, NEW listed, MigrateSlots(p, q, listed)
      PROVE  MembersHaveRole'
  BY <1>5 DEF MigrateSlots, Transfer
<1>6. ASSUME NEW k \in Keys, NEW pod, ForgetNode(k, pod) PROVE MembersHaveRole'
  BY <1>6 DEF ForgetNode, Forget
<1>7. CASE Simulate
  BY <1>1, <1>2, <1>3, <1>4, <1>5, <1>6, <1>7 DEF Simulate, TopologyStep
<1>8. CASE Verify
  BY <1>8 DEF Verify, VerifyCluster
<1>9. CASE UNCHANGED vars
  BY <1>9
<1> QED  BY <1>7, <1>8, <1>9 DEF Next

SpecAccepted ==
    phase = "accepted" => expected.shards = spec.shards /\ expected.replicas = spec.replicas

FinishInv == PlannerInv /\ MembersHaveRole /\ SpecAccepted

\* It holds of the observation, in which members have roles.
LEMMA InitFinishInv == PlannerInit => FinishInv
<1> SUFFICES ASSUME PlannerInit PROVE FinishInv
  OBVIOUS
<1>1. PICK masterOf : ObservedRoles(clusterMember, masterOf) /\ phase = "simulating"
  BY DEF PlannerInit, Init, Observation
<1>2. clusterMember \subseteq Keys
  BY InitIInv DEF PlannerInit, IInv, TypeOK
<1>3. MembersHaveRole
  BY <1>1, <1>2 DEF ObservedRoles, MembersHaveRole
<1> QED  BY <1>1, <1>3, InitPlannerInv DEF FinishInv, SpecAccepted

\* It is kept: the plan is accepted for the numbers in the spec.
LEMMA FinishInvKept == FinishInv /\ [PlannerNext]_plannerVars => FinishInv'
<1> SUFFICES ASSUME FinishInv, [PlannerNext]_plannerVars PROVE FinishInv'
  OBVIOUS
<1>1. PlannerInv' /\ [Next]_vars
  BY PlannerInvKept, PlannerStepsSimulate DEF FinishInv
<1>2. MembersHaveRole'
  BY <1>1, MembersHaveRoleKept DEF FinishInv, PlannerInv, IInv
<1>3. SpecAccepted'
  <2>1. CASE AcceptPlan
    BY <2>1 DEF AcceptPlan, VerifyCluster, requestVars, SpecAccepted
  <2>2. CASE ~AcceptPlan
    <3>1. UNCHANGED <<phase, expected, spec>>
      BY <2>2 DEF PlannerNext, BuildPlan, SimulateStep, plannerVars, requestVars, vars, planVars
    <3> QED  BY <3>1 DEF FinishInv, SpecAccepted
  <2> QED  BY <2>1, <2>2
<1> QED  BY <1>1, <1>2, <1>3 DEF FinishInv

\* An accepted cluster: its slot owners are its live masters, with the replicas
\* that the spec asks for, and its members are ready pods.
LEMMA AcceptedTopology ==
  ASSUME FinishInv, phase = "accepted"
  PROVE  /\ exists \subseteq onSpecImage
         /\ clusterMember \subseteq exists \cap ready
         /\ MasterSet = LiveMasters /\ SlotOwners = MasterSet
         /\ MasterSet # {} /\ Cardinality(MasterSet) = spec.shards
         /\ \A m \in MasterSet : ReplicaCount(m) = spec.replicas
         /\ \A s \in Slots : slotOwners[s] \in SlotOwners
<1>1. VerifyAccepts(spec.shards, spec.replicas)
  BY DEF FinishInv, SpecAccepted, PlannerInv, IInv, AcceptedPassesVerify
<1>2. TypeOK /\ NodesInv
  BY DEF FinishInv, PlannerInv, IInv
<1>3. exists \subseteq onSpecImage
  BY <1>1 DEF VerifyAccepts, PodsAsExpected
<1>4. clusterMember \subseteq exists \cap ready
  BY <1>1, <1>2 DEF VerifyAccepts, NodesInv, RejoinedIsReady, ReadyHasPod
<1>5. /\ \A k \in LiveMasters : OwnsSlots(k) /\ Cardinality(ReplicasOf(k)) = spec.replicas
      /\ Cardinality(LiveMasters) = spec.shards
  BY <1>1 DEF VerifyAccepts, MastersAsExpected
<1>6. MasterSet = LiveMasters
  BY <1>5 DEF MasterSet, LiveMasters
<1>7. SlotOwners = MasterSet
  BY <1>4 DEF SlotOwners, MasterSet, ReadyMaster, ReadyMembers
<1>8. spec.shards # 0
  BY PlannerAssumption DEF FinishInv, PlannerInv, RequestTypes
<1>9. MasterSet # {}
  BY <1>5, <1>6, <1>8, FS_EmptySet
<1>10. \A m \in MasterSet : ReplicaCount(m) = spec.replicas
  BY <1>5, <1>6 DEF ReplicaCount
<1>11. ASSUME NEW s \in Slots PROVE slotOwners[s] \in SlotOwners
  <2>1. slotOwners[s] # NoKey /\ slotOwners[s] \in Keys \cup {NoKey}
    BY <1>1, <1>2 DEF VerifyAccepts, TypeOK
  <2>2. PICK k \in Keys : slotOwners[s] = k
    BY <2>1
  <2>3. OwnsSlots(k)
    BY <1>2, <2>2 DEF NodesInv, OwnerIndexExact, OwnsSlots
  <2>4. k \in clusterMember /\ role[k] = "master"
    BY <1>2, <2>3 DEF NodesInv, OwnersAreMemberMasters
  <2> QED  BY <1>4, <2>2, <2>3, <2>4 DEF SlotOwners
<1> QED  BY <1>3, <1>4, <1>5, <1>6, <1>7, <1>9, <1>10, <1>11

\* Each of the seven builders has nothing to do in an accepted cluster.
LEMMA NothingLeftToPlan ==
  ASSUME FinishInv, phase = "accepted"
  PROVE  BuildGoPlan({}) = <<>>
<1>1. TypeOK /\ PodsExist /\ RequestTypes
  BY DEF FinishInv, PlannerInv, IInv
<1>2. /\ exists \subseteq onSpecImage
      /\ clusterMember \subseteq exists \cap ready
      /\ MasterSet # {} /\ Cardinality(MasterSet) = spec.shards
      /\ \A m \in MasterSet : ReplicaCount(m) = spec.replicas
  BY AcceptedTopology
<1>3. spec.shards \in Nat /\ spec.replicas \in Nat
  BY <1>1, PlannerAssumption DEF RequestTypes
<1>4. RepairPlan({}) = <<>>
  <2>1. GhostNodes({}) = {}
    BY <1>2 DEF GhostNodes
  <2>2. InOrder({}) = <<>> /\ SetToSeq({}) = <<>>
    <3>1. IsFiniteSet({}) /\ Cardinality({}) = 0
      BY FS_EmptySet
    <3>2. InOrder({}) \in Seq({}) /\ Len(InOrder({})) = 0
      BY <3>1, InOrderLists
    <3>3. SetToSeq({}) \in Seq({})
      BY <3>1, SetToSeqInSeq
    <3>4. \A list \in Seq({}) : list = <<>>
      <4> SUFFICES ASSUME NEW list \in Seq({}), list # <<>> PROVE FALSE
        OBVIOUS
      <4>1. Head(list) \in {}
        BY HeadTailProperties
      <4> QED  BY <4>1
    <3> QED  BY <3>2, <3>3, <3>4
  <2>3. InOrder(GhostNodes({}) \cap Pods) \o SetToSeq(GhostNodes({}) \cap Ghosts) = <<>>
    <3>1. GhostNodes({}) \cap Pods = {} /\ GhostNodes({}) \cap Ghosts = {}
      BY <2>1
    <3>2. <<>> \o <<>> = <<>>
      OBVIOUS
    <3> QED  BY <2>2, <3>1, <3>2
  <2>4. UniformReplicaCount
    BY <1>2 DEF UniformReplicaCount
  <2> QED  BY <2>3, <2>4 DEF RepairPlan
<1>5. ImageDriftPlan = <<>>
  <2>1. MasterSet \subseteq exists /\ \A m : ReplicasOf(m) \subseteq exists
    BY DEF MasterSet, ReplicasOf
  <2>2. ~TopologyImageDrift
    BY <1>2, <2>1 DEF TopologyImageDrift
  <2> QED  BY <2>2 DEF ImageDriftPlan
<1>6. ReplicaScaleInPlan = <<>>
  BY <1>1, <1>2, ReplicaScaleInPlanChanges
<1>7. ~(spec.shards > Cardinality(MasterSet)) /\ ~(spec.shards < Cardinality(MasterSet))
  BY <1>2, <1>3
<1>8. ShardScaleOutPlan = <<>>
  BY <1>7, Zenon DEF ShardScaleOutPlan
<1>9. ShardScaleInPlan = <<>>
  BY <1>7, Zenon DEF ShardScaleInPlan
<1>10. ReplicaScaleOutPlan = <<>>
  <2>1. \A m \in MasterSet : ReplicaCount(m) >= spec.replicas
    BY <1>2, <1>3
  <2>2. Missing = <<>>
    BY <1>1, <2>1, MissingLists
  <2>3. ProvisionReplicas(Missing) = <<>>
    <3>1. <<>> \in Seq({})
      BY EmptySeq
    <3> QED  BY <1>1, <2>2, <3>1, ProvisionReplicasStay
  <2> QED  BY <2>3 DEF ReplicaScaleOutPlan, Verified
<1> QED  BY <1>2, <1>4, <1>5, <1>6, <1>8, <1>9, <1>10 DEF BuildGoPlan, OrElse

\* The reconciler takes an accepted cluster without leftovers for a finished one.
LEMMA AcceptedMatchesSpec ==
  ASSUME FinishInv, phase = "accepted"
  PROVE  ObservedNodesMatchSpec <=> \A p \in Pods : ~Leftover(p)
<1>1. /\ exists \subseteq onSpecImage
      /\ clusterMember \subseteq exists \cap ready
      /\ MasterSet = LiveMasters /\ SlotOwners = MasterSet
      /\ Cardinality(SlotOwners) = spec.shards
      /\ \A m \in SlotOwners : ReplicaCount(m) = spec.replicas
      /\ \A s \in Slots : slotOwners[s] \in SlotOwners
  BY AcceptedTopology, Zenon
<1>2. SlotOwners \subseteq ready /\ \A k \in exists : BelongsToShard(k) => k \in ready
  BY <1>1 DEF SlotOwners, BelongsToShard
<1>3. \A m \in SlotOwners :
        Cardinality({k \in exists : BelongsToShard(k) /\ replicaOf[k] = m}) = spec.replicas
  <2> SUFFICES ASSUME NEW m \in SlotOwners
               PROVE  Cardinality({k \in exists : BelongsToShard(k) /\ replicaOf[k] = m})
                        = spec.replicas
    OBVIOUS
  <2>1. {k \in exists : BelongsToShard(k) /\ replicaOf[k] = m} = ReplicasOf(m)
    BY <1>1 DEF BelongsToShard, ReplicasOf, ReadyMembers
  <2> QED  BY <1>1, <2>1 DEF ReplicaCount
<1>4. ObservedNodesMatchSpec
        <=> \A k \in exists \cup clusterMember : k \in SlotOwners \/ BelongsToShard(k)
  BY <1>1, <1>2, <1>3 DEF ObservedNodesMatchSpec
<1>5. exists \subseteq Pods /\ MembersHaveRole
  BY DEF FinishInv, PlannerInv, PodsExist
<1>6. ASSUME NEW k \in exists
      PROVE  (k \in SlotOwners \/ BelongsToShard(k)) <=> ~Leftover(k)
  <2>1. CASE k \notin clusterMember
    BY <2>1 DEF SlotOwners, BelongsToShard, Leftover
  <2>2. CASE k \in clusterMember /\ role[k] = "replica"
    BY <2>2 DEF SlotOwners, BelongsToShard, Leftover
  <2>3. CASE k \in clusterMember /\ role[k] = "master"
    <3>1. k \in LiveMasters
      BY <1>1, <2>3 DEF LiveMasters, ReadyMaster, ReadyMembers
    <3> QED  BY <1>1, <2>3, <3>1 DEF Leftover
  <2> QED  BY <1>5, <2>1, <2>2, <2>3 DEF MembersHaveRole
<1>7. \A p : Leftover(p) => p \in exists
  BY <1>1 DEF Leftover
<1> QED  BY <1>1, <1>4, <1>5, <1>6, <1>7

\* After any accepted plan of the planner's, for any numbers of pods, slots,
\* shards and replicas, the planner builds no other, and the reconciler finds that
\* the topology matches the spec unless a pod is left over.
THEOREM AcceptedPlansAreFinal == PlannerSpec => []AcceptedPlansFinish
<1>1. FinishInv => AcceptedPlansFinish
  BY NothingLeftToPlan, AcceptedTopology, AcceptedMatchesSpec, Zenon DEF AcceptedPlansFinish
<1> QED  BY <1>1, InitFinishInv, FinishInvKept, PTL DEF PlannerSpec

-----------------------------------------------------------------------------
(***************************************************************************)
(* A plan for a new cluster, if it is accepted, was built for no other.    *)
(***************************************************************************)
NewClusterPlan ==
    \E making \in Seq(MakingSteps), adds \in Seq(AddSteps) :
        /\ plan = Append(making \o adds, VerifySpec)
        /\ \A s \in Slots : \E i \in 1..Len(adds) : s \in adds[i].slots

PlanShape == plan \in Seq(ChangePlanSteps) \/ NewClusterPlan

\* No step of the VM's takes the owner of a slot without giving it another.
OwnedStayOwned == \A s \in Slots : observedOwner[s] # NoKey => slotOwners[s] # NoKey

\* The slots of the AddSlots steps before the cursor had no owner when observed.
AddedWereUnowned ==
    \A i \in DOMAIN plan :
        i < cursor /\ plan[i].action = "AddSlots"
            => \A s \in plan[i].slots \cap Slots : observedOwner[s] = NoKey

StopsAtVerify ==
    /\ cursor \in Nat
    /\ phase = "accepted" => cursor \in DOMAIN plan /\ plan[cursor].action = "VerifyCluster"

CreationInv ==
    PlannerInv /\ PlanShape /\ OwnedStayOwned /\ AddedWereUnowned /\ StopsAtVerify

\* AddSlots and MigrateSlots give slots to pods, and the other steps to nobody.
LEMMA OwnedStayOwnedKept ==
  TypeOK /\ OwnedStayOwned /\ [Next]_vars => OwnedStayOwned'
<1> SUFFICES ASSUME TypeOK, OwnedStayOwned, [Next]_vars PROVE OwnedStayOwned'
  OBVIOUS
<1> USE DEF OwnedStayOwned, vars, slotVars, planVars
<1>1. NoKey \notin Pods
  BY KeysAssumption DEF Keys
<1>2. CASE Simulate
  <2>1. observedOwner' = observedOwner
    BY <1>2 DEF Simulate
  <2>2. \A s \in Slots : slotOwners'[s] = slotOwners[s] \/ slotOwners'[s] \in Pods
    <3>1. ASSUME NEW p \in Pods, EnsureNode(p) \/ WaitNodeReady(p) \/ DeleteNode(p)
          PROVE  slotOwners' = slotOwners
      BY <3>1 DEF EnsureNode, WaitNodeReady, DeleteNode
    <3>2. ASSUME NEW p \in Pods, NEW q \in Pods, MeetNode(p, q) \/ ReplicateNode(p, q)
          PROVE  slotOwners' = slotOwners
      BY <3>2 DEF MeetNode, ReplicateNode
    <3>3. ASSUME NEW k \in Keys, NEW pod, ForgetNode(k, pod) PROVE slotOwners' = slotOwners
      BY <3>3 DEF ForgetNode, Forget
    <3>4. ASSUME NEW p \in Pods, NEW added, AddSlots(p, added)
          PROVE  \A s \in Slots : slotOwners'[s] = slotOwners[s] \/ slotOwners'[s] \in Pods
      BY <3>4 DEF AddSlots, Assign
    <3>5. ASSUME NEW p \in Pods, NEW q \in Pods, NEW listed, MigrateSlots(p, q, listed)
          PROVE  \A s \in Slots : slotOwners'[s] = slotOwners[s] \/ slotOwners'[s] \in Pods
      BY <3>5 DEF MigrateSlots, Transfer
    <3> QED  BY <1>2, <3>1, <3>2, <3>3, <3>4, <3>5 DEF Simulate, TopologyStep
  <2> QED  BY <1>1, <2>1, <2>2
<1>3. CASE Verify
  BY <1>3 DEF Verify, VerifyCluster
<1>4. CASE UNCHANGED vars
  BY <1>4
<1> QED  BY <1>2, <1>3, <1>4 DEF Next

\* It holds of the observation, without open slots.
LEMMA InitCreationInv == PlannerInit => CreationInv
<1> SUFFICES ASSUME PlannerInit PROVE CreationInv
  OBVIOUS
<1>1. PlannerInv
  BY InitPlannerInv
<1>2. plan = <<>> /\ cursor = 0 /\ phase = "simulating"
  BY DEF PlannerInit, Request, Init, Observation
<1>3. PlanShape
  BY <1>2, EmptySeq DEF PlanShape
<1>4. OwnedStayOwned
  <2>1. slotOwners = ReadableOwner(observedOwner, NoKey)
    BY PlannerAssumption DEF PlannerInit, Init, Observation, ObservedSlots
  <2> QED  BY <2>1 DEF ReadableOwner, OwnedStayOwned
<1>5. AddedWereUnowned
  BY <1>2 DEF AddedWereUnowned
<1> QED  BY <1>1, <1>2, <1>3, <1>4, <1>5 DEF CreationInv, StopsAtVerify

\* It is kept: AddSlots finds its slots without an owner.
LEMMA CreationInvKept == CreationInv /\ [PlannerNext]_plannerVars => CreationInv'
<1> SUFFICES ASSUME CreationInv, [PlannerNext]_plannerVars PROVE CreationInv'
  OBVIOUS
<1>1. PlannerInv' /\ [Next]_vars /\ TypeOK /\ PodsExist /\ RequestTypes
  BY PlannerInvKept, PlannerStepsSimulate DEF CreationInv, PlannerInv, IInv
<1>2. OwnedStayOwned'
  BY <1>1, OwnedStayOwnedKept DEF CreationInv
<1>3. plan \in Seq(PlanSteps) /\ plan' \in Seq(PlanSteps)
  BY <1>1 DEF CreationInv, PlannerInv
<1>4. DOMAIN plan \subseteq Nat \ {0} /\ DOMAIN plan' \subseteq Nat \ {0}
  BY <1>3, LenProperties
<1>5. CASE BuildPlan
  <2>1. PICK lost : plan' = BuildGoPlan(lost)
    BY <1>5 DEF BuildPlan
  <2>2. cursor = 0 /\ cursor' = 1 /\ UNCHANGED <<phase, observedOwner>>
    BY <1>5 DEF BuildPlan, vars, planVars
  <2>3. PlanShape'
    <3>1. CASE MasterSet # {}
      <4>1. plan' \in Seq(ChangePlanSteps)
        BY <1>1, <2>1, <3>1, ChangePlansBuilt
      <4> QED  BY <4>1 DEF PlanShape
    <3>2. CASE MasterSet = {}
      <4>1. plan' = CreatePlan
        BY <2>1, <3>2 DEF BuildGoPlan
      <4>2. NewClusterPlan'
        BY <1>1, <4>1, CreatePlanBuilt DEF NewClusterPlan
      <4> QED  BY <4>2 DEF PlanShape
    <3> QED  BY <3>1, <3>2
  <2>4. AddedWereUnowned'
    BY <1>4, <2>2 DEF AddedWereUnowned
  <2>5. StopsAtVerify'
    BY <1>4, <2>2 DEF StopsAtVerify, CreationInv
  <2> QED  BY <1>1, <1>2, <2>3, <2>4, <2>5 DEF CreationInv
<1>6. CASE SimulateStep
  <2>1. /\ cursor \in DOMAIN plan /\ Perform(plan[cursor]) /\ phase' = "simulating"
        /\ cursor' = cursor + 1 /\ UNCHANGED <<plan, observedOwner>>
    BY <1>6 DEF SimulateStep, planVars
  <2>2. PlanShape'
    BY <2>1 DEF CreationInv, PlanShape, NewClusterPlan
  <2>3. AddedWereUnowned'
    <3> SUFFICES ASSUME NEW i \in DOMAIN plan, i < cursor + 1, plan[i].action = "AddSlots",
                        NEW s \in plan[i].slots \cap Slots
                 PROVE  observedOwner[s] = NoKey
      BY <2>1 DEF AddedWereUnowned
    <3>1. CASE i < cursor
      BY <3>1 DEF CreationInv, AddedWereUnowned
    <3>2. CASE i = cursor
      <4>1. AddSlots(plan[i].pod, plan[i].slots)
        BY <2>1, <3>2 DEF Perform
      <4>2. slotOwners[s] = NoKey
        BY <4>1 DEF AddSlots
      <4> QED  BY <4>2 DEF CreationInv, OwnedStayOwned
    <3>3. i < cursor \/ i = cursor
      BY <1>4, <2>1 DEF CreationInv, StopsAtVerify
    <3> QED  BY <3>1, <3>2, <3>3
  <2>4. StopsAtVerify'
    BY <2>1 DEF CreationInv, StopsAtVerify
  <2> QED  BY <1>1, <1>2, <2>2, <2>3, <2>4 DEF CreationInv
<1>7. CASE AcceptPlan
  <2>1. /\ cursor \in DOMAIN plan /\ plan[cursor].action = "VerifyCluster"
        /\ UNCHANGED <<plan, cursor, observedOwner>>
    BY <1>7 DEF AcceptPlan, VerifyCluster
  <2> QED  BY <1>1, <1>2, <2>1
           DEF CreationInv, PlanShape, NewClusterPlan, AddedWereUnowned, StopsAtVerify
<1>8. CASE UNCHANGED plannerVars
  <2>1. UNCHANGED <<plan, cursor, observedOwner, phase>>
    BY <1>8 DEF plannerVars, vars, planVars
  <2> QED  BY <1>1, <1>2, <2>1
           DEF CreationInv, PlanShape, NewClusterPlan, AddedWereUnowned, StopsAtVerify
<1> QED  BY <1>5, <1>6, <1>7, <1>8 DEF PlannerNext

\* A plan for a new cluster stops only at its end, when every slot was added.
LEMMA CreationAddsUnowned ==
  ASSUME CreationInv, phase = "accepted", Creates, NEW s \in Slots
  PROVE  observedOwner[s] = NoKey
<1>1. NewClusterPlan
  <2> SUFFICES ASSUME plan \in Seq(ChangePlanSteps) PROVE FALSE
    BY DEF CreationInv, PlanShape
  <2>1. PICK i \in DOMAIN plan : plan[i].action = "AddSlots"
    BY DEF Creates
  <2>2. plan[i] \in ChangePlanSteps
    BY LenProperties, ElementOfSeq
  <2> QED  BY <2>1, <2>2 DEF ChangePlanSteps, ChangingSteps, MakingSteps, PodSteps, MeetSteps,
                ReplicateSteps, MigrateSteps, ForgetSteps, VerifySteps
<1>2. PICK making \in Seq(MakingSteps), adds \in Seq(AddSteps) :
        /\ plan = Append(making \o adds, VerifySpec)
        /\ \A x \in Slots : \E i \in 1..Len(adds) : x \in adds[i].slots
  BY <1>1 DEF NewClusterPlan
<1>3. making \in Seq(PlanSteps) /\ adds \in Seq(PlanSteps)
  BY <1>2, SeqMonotonic DEF PlanSteps, ChangePlanSteps, ChangingSteps
<1>4. PICK m \in Nat, n \in Nat : m = Len(making) /\ n = Len(adds)
  BY <1>3, LenProperties
<1>5. PICK both : both = making \o adds
  OBVIOUS
<1>6. /\ both \in Seq(PlanSteps) /\ Len(both) = m + n
      /\ \A i \in 1..m : both[i] = making[i]
      /\ \A i \in 1..n : both[m + i] = adds[i]
  <2>1. both \in Seq(PlanSteps) /\ Len(both) = m + n
    BY <1>3, <1>4, <1>5, ConcatProperties
  <2>2. \A i \in 1..m + n : both[i] = IF i <= m THEN making[i] ELSE adds[i - m]
    BY <1>3, <1>4, <1>5, ConcatProperties
  <2>3. \A i \in 1..m : both[i] = making[i]
    BY <2>2
  <2>4. ASSUME NEW i \in 1..n PROVE both[m + i] = adds[i]
    <3>1. m + i \in 1..m + n /\ ~(m + i <= m) /\ (m + i) - m = i
      OBVIOUS
    <3> QED  BY <2>2, <3>1
  <2> QED  BY <2>1, <2>3, <2>4
<1>7. /\ DOMAIN plan = 1..m + n + 1
      /\ \A i \in 1..m + n : plan[i] = both[i]
  <2>1. plan = Append(both, VerifySpec) /\ VerifySpec \in PlanSteps
    BY <1>2, <1>5 DEF PlanSteps, ChangePlanSteps, VerifySteps, VerifySpec
  <2>2. plan \in Seq(PlanSteps) /\ Len(plan) = m + n + 1
    BY <1>6, <2>1, AppendProperties
  <2>3. \A i \in 1..m + n : plan[i] = both[i]
    BY <1>6, <2>1, AppendProperties
  <2> QED  BY <2>2, <2>3, LenProperties
<1>8. cursor \in 1..m + n + 1 /\ plan[cursor].action = "VerifyCluster"
  BY <1>7 DEF CreationInv, StopsAtVerify
<1>9. \A i \in 1..m : plan[i].action # "VerifyCluster"
  <2>1. \A i \in 1..m : plan[i] \in MakingSteps
    BY <1>2, <1>4, <1>6, <1>7, ElementOfSeq
  <2> QED  BY <2>1 DEF MakingSteps, PodSteps, MeetSteps, ReplicateSteps
<1>10. \A i \in 1..n : plan[m + i].action = "AddSlots" /\ plan[m + i].slots = adds[i].slots
  <2>1. \A i \in 1..n : adds[i] \in AddSteps
    BY <1>2, <1>4, ElementOfSeq
  <2>2. \A i \in 1..n : plan[m + i] = adds[i]
    BY <1>6, <1>7
  <2> QED  BY <2>1, <2>2 DEF AddSteps
<1>11. cursor = m + n + 1
  <2>1. ASSUME cursor \in 1..m + n PROVE FALSE
    <3>1. CASE cursor <= m
      BY <1>8, <1>9, <2>1, <3>1
    <3>2. CASE cursor > m
      <4>1. PICK i \in 1..n : cursor = m + i
        <5>1. cursor - m \in 1..n /\ cursor = m + (cursor - m)
          BY <2>1, <3>2
        <5> QED  BY <5>1
      <4> QED  BY <1>8, <1>10, <4>1
    <3> QED  BY <2>1, <3>1, <3>2
  <2> QED  BY <1>8, <2>1
<1>12. PICK i \in 1..n : s \in adds[i].slots
  BY <1>2, <1>4
<1>13. m + i \in DOMAIN plan /\ m + i < cursor
  BY <1>7, <1>11
<1> QED  BY <1>10, <1>12, <1>13 DEF CreationInv, AddedWereUnowned

\* An accepted plan that creates a cluster was built when no slot had an owner, for
\* any numbers of pods, slots, shards and replicas: what is left of a cluster
\* without a healthy master is not overwritten.
THEOREM CreatedOnce == PlannerSpec => []NothingIsCreatedTwice
<1>1. CreationInv => NothingIsCreatedTwice
  BY CreationAddsUnowned DEF NothingIsCreatedTwice
<1> QED  BY <1>1, InitCreationInv, CreationInvKept, PTL DEF PlannerSpec

-----------------------------------------------------------------------------
(***************************************************************************)
(* An accepted plan that changed the number of shards leaves them even.    *)
(***************************************************************************)
\* The ranges of balancedSlotRange differ in size by one at most.
LEMMA BalancedSizes ==
  ASSUME NEW total \in Nat \ {0}, NEW count \in Nat,
         NEW i \in 0..total - 1, NEW j \in 0..total - 1
  PROVE  Cardinality(BalancedSlotRange(i, total, count))
           <= Cardinality(BalancedSlotRange(j, total, count)) + 1
<1>1. PICK base \in Nat : base = count \div total
  BY Division
<1>2. ASSUME NEW k \in 0..total - 1
      PROVE  Cardinality(BalancedSlotRange(k, total, count)) \in {base, base + 1}
  <2>1. PICK start \in Nat : start = RangeStart(k, total, count)
    BY RangesFit
  <2>2. PICK size \in {base, base + 1} : size = RangeSize(k, total, count)
    BY <1>1 DEF RangeSize
  <2>3. start \in Int /\ start + size - 1 \in Int
    BY <1>1, <2>1, <2>2
  <2>4. Cardinality(start .. start + size - 1)
          = IF start > start + size - 1 THEN 0 ELSE (start + size - 1) - start + 1
    BY <2>3, FS_Interval
  <2>5. Cardinality(start .. start + size - 1) = size
    BY <1>1, <2>1, <2>2, <2>4
  <2> QED  BY <2>1, <2>2, <2>5 DEF BalancedSlotRange
<1> QED  BY <1>1, <1>2

\* slotRange by its quotients: the number of slots is their difference, which the
\* division of the slots by the shards gives or exceeds by one.
LEMMA SlotRangeSize ==
  ASSUME NEW shards \in Nat \ {0}, NEW count \in Nat, NEW i \in 0..shards - 1
  PROVE  Cardinality(SlotRange(i, shards, count))
           \in {count \div shards, count \div shards + 1}
<1>1. i * count \in Nat /\ (i + 1) * count \in Nat /\ (i + 1) * count = i * count + count
  BY Products, SMT
<1>2. PICK q \in Nat, r \in 0..shards - 1 :
        q = (i * count) \div shards /\ i * count = shards * q + r
  BY <1>1, Division
<1>3. PICK q2 \in Nat, r2 \in 0..shards - 1 :
        q2 = ((i + 1) * count) \div shards /\ (i + 1) * count = shards * q2 + r2
  BY <1>1, Division
<1>4. PICK base \in Nat, rem \in 0..shards - 1 :
        base = count \div shards /\ count = shards * base + rem
  BY Division
<1>5. PICK a, b, c \in Int : a = shards * q /\ b = shards * q2 /\ c = shards * base
  BY SMT
<1>6. b + r2 = a + r + c + rem
  <2>1. PICK x \in Nat, y \in Nat : x = i * count /\ y = (i + 1) * count
    BY <1>1
  <2>2. y = x + count
    BY <1>1, <2>1
  <2>3. x = a + r /\ y = b + r2 /\ count = c + rem
    BY <1>2, <1>3, <1>4, <1>5, <2>1
  <2> QED  BY <1>5, <2>2, <2>3
<1>7. ASSUME q2 < q + base PROVE FALSE
  <2>1. (q + base) * shards >= q2 * shards + shards
    BY <1>7, Products
  <2>2. (q + base) * shards = a + c /\ q2 * shards = b
    BY <1>5, SMT
  <2> QED  BY <1>5, <1>6, <2>1, <2>2
<1>8. ASSUME q2 > q + base + 1 PROVE FALSE
  <2>1. q2 * shards >= (q + base + 1) * shards + shards
    BY <1>8, Products
  <2>2. (q + base + 1) * shards = a + c + shards /\ q2 * shards = b
    BY <1>5, SMT
  <2> QED  BY <1>5, <1>6, <2>1, <2>2
<1>9. q2 = q + base \/ q2 = q + base + 1
  BY <1>7, <1>8
<1>10. Cardinality(q .. q2 - 1) = IF q > q2 - 1 THEN 0 ELSE (q2 - 1) - q + 1
  <2>1. q \in Int /\ q2 - 1 \in Int
    OBVIOUS
  <2> QED  BY <2>1, FS_Interval
<1>11. Cardinality(q .. q2 - 1) = q2 - q
  BY <1>9, <1>10
<1>12. SlotRange(i, shards, count) = q .. q2 - 1
  BY <1>2, <1>3 DEF SlotRange
<1> QED  BY <1>4, <1>9, <1>11, <1>12

\* The ranges of different shards do not overlap: the quotients ascend.
LEMMA SlotRangesDisjoint ==
  ASSUME NEW shards \in Nat \ {0}, NEW count \in Nat,
         NEW i \in 0..shards - 1, NEW j \in 0..shards - 1, i < j
  PROVE  SlotRange(i, shards, count) \cap SlotRange(j, shards, count) = {}
<1>1. (i + 1) * count \in Nat /\ j * count \in Nat /\ (j + 1) * count \in Nat /\ i * count \in Nat
  BY Products
<1>2. (i + 1) * count <= j * count
  <2>1. CASE i + 1 = j
    BY <1>1, <2>1
  <2>2. CASE i + 1 < j
    <3>1. j * count >= (i + 1) * count + count
      BY <2>2, Products
    <3> QED  BY <1>1, <3>1
  <2> QED  BY <2>1, <2>2
<1>3. PICK q \in Nat, r \in 0..shards - 1 :
        q = ((i + 1) * count) \div shards /\ (i + 1) * count = shards * q + r
  BY <1>1, Division
<1>4. PICK p \in Nat, t \in 0..shards - 1 :
        p = (j * count) \div shards /\ j * count = shards * p + t
  BY <1>1, Division
<1>5. ASSUME p < q PROVE FALSE
  <2>1. q * shards >= p * shards + shards
    BY <1>5, Products
  <2>2. q * shards = shards * q /\ p * shards = shards * p
    BY SMT
  <2>3. shards * q \in Int /\ shards * p \in Int
    BY SMT
  <2> QED  BY <1>1, <1>2, <1>3, <1>4, <2>1, <2>2, <2>3
<1>6. SlotRange(i, shards, count) = ((i * count) \div shards) .. q - 1
  BY <1>3 DEF SlotRange
<1>7. SlotRange(j, shards, count) = p .. ((j + 1) * count) \div shards - 1
  BY <1>4 DEF SlotRange
<1>8. (i * count) \div shards \in Int /\ ((j + 1) * count) \div shards - 1 \in Int
  BY <1>1, Division
<1>9. PICK low \in Int, high \in Int :
        low = (i * count) \div shards /\ high = ((j + 1) * count) \div shards - 1
  BY <1>8
<1>10. (low .. q - 1) \cap (p .. high) = {}
  BY <1>5
<1> QED  BY <1>6, <1>7, <1>9, <1>10

\* The slots in as many parts as the spec has shards, each with a number that exceeds
\* no other's by more than one.
EvenParts(part) ==
    /\ part \in [1..spec.shards -> SUBSET Slots]
    /\ \A s \in Slots : \E i \in 1..spec.shards : s \in part[i]
    /\ \A i, j \in 1..spec.shards : i # j => part[i] \cap part[j] = {}
    /\ \A i, j \in 1..spec.shards : Cardinality(part[i]) <= Cardinality(part[j]) + 1

\* The parts that migrationSteps moves.
LEMMA BalancedParts ==
  ASSUME RequestTypes, NEW part,
         part = [i \in 1..spec.shards |->
                   BalancedSlotRange(i - 1, spec.shards, Cardinality(Slots))]
  PROVE  EvenParts(part)
<1>1. PICK n \in Nat \ {0} : n = spec.shards
  BY PlannerAssumption DEF RequestTypes
<1>2. PICK count \in Nat : count = Cardinality(Slots) /\ Slots = 0..count - 1
  BY Numbers
<1>3. \A i \in 1..n : i - 1 \in 0..n - 1 /\ part[i] = BalancedSlotRange(i - 1, n, count)
  BY <1>1, <1>2
<1>4. DOMAIN part = 1..n /\ part = [i \in 1..n |-> part[i]]
  BY <1>1
<1>5. ASSUME NEW i \in 1..n PROVE part[i] \in SUBSET Slots
  <2>1. PICK k \in 0..n - 1 : k = i - 1 /\ part[i] = BalancedSlotRange(k, n, count)
    BY <1>3
  <2>2. PICK start \in Nat, size \in Nat :
          /\ start = RangeStart(k, n, count) /\ size = RangeSize(k, n, count)
          /\ start + size <= count
    BY RangesFit
  <2>3. part[i] = start .. start + size - 1
    BY <2>1, <2>2 DEF BalancedSlotRange
  <2>4. start .. start + size - 1 \subseteq 0..count - 1
    BY <2>2
  <2> QED  BY <1>2, <2>3, <2>4
<1>6. ASSUME NEW s \in Slots PROVE \E i \in 1..n : s \in part[i]
  <2>1. PICK k \in 0..n - 1 : s \in BalancedSlotRange(k, n, count)
    BY <1>2, RangesCover
  <2>2. k + 1 \in 1..n /\ (k + 1) - 1 = k
    OBVIOUS
  <2> QED  BY <1>3, <2>1, <2>2
<1>7. ASSUME NEW i \in 1..n, NEW j \in 1..n, i # j PROVE part[i] \cap part[j] = {}
  <2>1. PICK a \in 0..n - 1, b \in 0..n - 1 : a = i - 1 /\ b = j - 1
    BY <1>3
  <2>2. a # b
    BY <1>7, <2>1
  <2>3. BalancedSlotRange(a, n, count) \cap BalancedSlotRange(b, n, count) = {}
    BY <2>2, RangesAreDisjoint
  <2> QED  BY <1>3, <2>1, <2>3
<1>8. ASSUME NEW i \in 1..n, NEW j \in 1..n
      PROVE  Cardinality(part[i]) <= Cardinality(part[j]) + 1
  BY <1>3, BalancedSizes
<1> QED  BY <1>1, <1>4, <1>5, <1>6, <1>7, <1>8 DEF EvenParts

\* The parts that the AddSlots of a new cluster list.
LEMMA CreatedParts ==
  ASSUME RequestTypes, NEW part,
         part = [i \in 1..spec.shards |->
                   SlotRange(i - 1, spec.shards, Cardinality(Slots))]
  PROVE  EvenParts(part)
<1>1. PICK n \in Nat \ {0} : n = spec.shards
  BY PlannerAssumption DEF RequestTypes
<1>2. PICK count \in Nat : count = Cardinality(Slots) /\ Slots = 0..count - 1
  BY Numbers
<1>3. \A i \in 1..n : i - 1 \in 0..n - 1 /\ part[i] = SlotRange(i - 1, n, count)
  BY <1>1, <1>2
<1>4. DOMAIN part = 1..n /\ part = [i \in 1..n |-> part[i]]
  BY <1>1
<1>5. ASSUME NEW i \in 1..n PROVE part[i] \in SUBSET Slots
  <2>1. PICK k \in 0..n - 1 : k = i - 1 /\ part[i] = SlotRange(k, n, count)
    BY <1>3
  <2>2. (k + 1) * count \in Nat
    BY Products
  <2>3. (k * count) \div n \in Nat /\ ((k + 1) * count) \div n <= count
    BY SlotRangesFit
  <2>4. ((k + 1) * count) \div n \in Nat
    BY <2>2, Division
  <2>5. PICK low \in Nat : low = (k * count) \div n
    BY <2>3
  <2>6. PICK high \in Nat : high = ((k + 1) * count) \div n /\ high <= count
    BY <2>3, <2>4
  <2>7. part[i] = low .. high - 1
    BY <2>1, <2>5, <2>6 DEF SlotRange
  <2>8. low .. high - 1 \subseteq 0..count - 1
    BY <2>6
  <2> QED  BY <1>2, <2>7, <2>8
<1>6. ASSUME NEW s \in Slots PROVE \E i \in 1..n : s \in part[i]
  <2>1. PICK k \in 0..n - 1 : s \in SlotRange(k, n, count)
    BY <1>2, SlotRangesCover
  <2>2. k + 1 \in 1..n /\ (k + 1) - 1 = k
    OBVIOUS
  <2> QED  BY <1>3, <2>1, <2>2
<1>7. ASSUME NEW i \in 1..n, NEW j \in 1..n, i # j PROVE part[i] \cap part[j] = {}
  <2>1. PICK a \in 0..n - 1, b \in 0..n - 1 : a = i - 1 /\ b = j - 1
    BY <1>3
  <2>2. a < b \/ b < a
    BY <1>7, <2>1
  <2>3. SlotRange(a, n, count) \cap SlotRange(b, n, count) = {}
    BY <2>2, SlotRangesDisjoint
  <2> QED  BY <1>3, <2>1, <2>3
<1>8. ASSUME NEW i \in 1..n, NEW j \in 1..n
      PROVE  Cardinality(part[i]) <= Cardinality(part[j]) + 1
  <2>1. PICK base \in Nat : base = count \div n
    BY Division
  <2>2. ASSUME NEW k \in 1..n PROVE Cardinality(part[k]) \in {base, base + 1}
    BY <1>3, <2>1, SlotRangeSize
  <2>3. PICK a \in {base, base + 1}, b \in {base, base + 1} :
          a = Cardinality(part[i]) /\ b = Cardinality(part[j])
    BY <2>2
  <2>4. a <= b + 1
    BY <2>1, <2>3
  <2> QED  BY <2>3, <2>4
<1> QED  BY <1>1, <1>4, <1>5, <1>6, <1>7, <1>8 DEF EvenParts

\* The step gives s to k, whether s had an owner or not.
Gives(step, s, k) ==
    /\ \/ step.action = "AddSlots" /\ step.pod = k
       \/ step.action = "MigrateSlots" /\ step.target = k
    /\ s \in step.slots

\* What the steps give are slots of a part, to its master; VerifyCluster is the last.
Directs(steps, part, dest) ==
    /\ \A j \in DOMAIN steps, s \in Slots : \A k :
         Gives(steps[j], s, k) => \E i \in 1..spec.shards : s \in part[i] /\ k = dest[i]
    /\ \A j \in DOMAIN steps : steps[j].action = "VerifyCluster" => j = Len(steps)

\* Every slot of a part is with the part's master or will be given to it.
Pending(part, dest) ==
    \A i \in 1..spec.shards : \A s \in part[i] :
        \/ slotOwners[s] = dest[i]
        \/ \E j \in DOMAIN plan : j >= cursor /\ Gives(plan[j], s, dest[i])

KeepsSlots == plan \in Seq(KeepPlanSteps) /\ slotOwners = observedOwner

KeepsShards == Cardinality({observedOwner[s] : s \in Slots} \ {NoKey}) = spec.shards

Allocates == \E part, dest : EvenParts(part) /\ Directs(plan, part, dest) /\ Pending(part, dest)

AllocationInv ==
    /\ FinishInv
    /\ CreationInv
    /\ cursor = 0 => slotOwners = observedOwner
    /\ cursor # 0 => KeepsSlots \/ KeepsShards \/ Allocates

\* After a step the slots that it gives are with their new owner and the others where
\* they were: AddSlots finds its slots without an owner, MigrateSlots with the source
\* or the target.
LEMMA PerformGives ==
  ASSUME TypeOK, NEW step, Perform(step), NEW s \in Slots
  PROVE  /\ \A k : Gives(step, s, k) => slotOwners'[s] = k
         /\ (\A k : ~Gives(step, s, k)) => slotOwners'[s] = slotOwners[s]
<1> USE DEF Gives, slotVars
<1>1. CASE step.action = "EnsureNode" /\ EnsureNode(step.pod)
  BY <1>1 DEF EnsureNode
<1>2. CASE step.action = "WaitNodeReady" /\ WaitNodeReady(step.pod)
  BY <1>2 DEF WaitNodeReady
<1>3. CASE step.action = "MeetNode" /\ MeetNode(step.source, step.target)
  BY <1>3 DEF MeetNode
<1>4. CASE step.action = "ReplicateNode" /\ ReplicateNode(step.master, step.replica)
  BY <1>4 DEF ReplicateNode
<1>5. CASE step.action = "AddSlots" /\ AddSlots(step.pod, step.slots)
  BY <1>5 DEF AddSlots, Assign
<1>6. CASE step.action = "MigrateSlots" /\ MigrateSlots(step.source, step.target, step.slots)
  BY <1>6 DEF MigrateSlots, Transfer
<1>7. CASE step.action = "ForgetNode" /\ ForgetNode(step.key, step.pod)
  BY <1>7 DEF ForgetNode, Forget
<1>8. CASE step.action = "DeleteNode" /\ DeleteNode(step.pod)
  BY <1>8 DEF DeleteNode
<1> QED  BY <1>1, <1>2, <1>3, <1>4, <1>5, <1>6, <1>7, <1>8 DEF Perform

\* The steps of a plan that moves no slots give none.
LEMMA KeepingGivesNothing ==
  ASSUME NEW step \in KeepPlanSteps, NEW s, NEW k
  PROVE  ~Gives(step, s, k)
BY DEF KeepPlanSteps, KeepingSteps, MakingSteps, PodSteps, MeetSteps, ReplicateSteps,
       ForgetSteps, VerifySteps, Gives

\* A step leaves each slot of a part where it is or gives it to the part's master.
LEMMA PendingKept ==
  ASSUME AllocationInv, SimulateStep, NEW part, NEW dest,
         EvenParts(part), Directs(plan, part, dest), Pending(part, dest)
  PROVE  Pending(part, dest)'
<1>1. /\ TypeOK /\ cursor \in DOMAIN plan /\ Perform(plan[cursor])
      /\ cursor' = cursor + 1 /\ plan' = plan /\ spec' = spec
  BY DEF SimulateStep, AllocationInv, FinishInv, PlannerInv, IInv, requestVars
<1>2. DOMAIN plan \subseteq Nat
  BY LenProperties DEF AllocationInv, FinishInv, PlannerInv
<1>3. ASSUME NEW i \in 1..spec.shards, NEW s \in part[i]
      PROVE  \/ slotOwners'[s] = dest[i]
             \/ \E j \in DOMAIN plan : j >= cursor + 1 /\ Gives(plan[j], s, dest[i])
  <2>1. s \in Slots
    BY <1>3 DEF EvenParts
  <2>2. CASE \E k : Gives(plan[cursor], s, k)
    <3>1. PICK k : Gives(plan[cursor], s, k)
      BY <2>2
    <3>2. PICK m \in 1..spec.shards : s \in part[m] /\ k = dest[m]
      BY <1>1, <2>1, <3>1 DEF Directs
    <3>3. m = i
      BY <1>3, <3>2 DEF EvenParts
    <3> QED  BY <1>1, <2>1, <3>1, <3>2, <3>3, PerformGives
  <2>3. CASE ~\E k : Gives(plan[cursor], s, k)
    <3>1. slotOwners'[s] = slotOwners[s]
      BY <1>1, <2>1, <2>3, PerformGives
    <3>2. CASE slotOwners[s] = dest[i]
      BY <3>1, <3>2
    <3>3. CASE slotOwners[s] # dest[i]
      <4>1. PICK j \in DOMAIN plan : j >= cursor /\ Gives(plan[j], s, dest[i])
        BY <1>3, <3>3 DEF Pending
      <4>2. j # cursor
        BY <2>3, <4>1
      <4>3. j >= cursor + 1
        BY <1>1, <1>2, <4>1, <4>2
      <4> QED  BY <4>1, <4>3
    <3> QED  BY <3>2, <3>3
  <2> QED  BY <2>2, <2>3
<1>4. \A j \in DOMAIN plan : \A s, k : Gives(plan[j], s, k)' <=> Gives(plan[j], s, k)
  BY <1>1 DEF Gives
<1> QED  BY <1>1, <1>3, <1>4 DEF Pending, Gives

\* Steps of a plan that creates or scales, before the VerifyCluster.
Direct(steps, part, dest) ==
    \A e \in steps :
        /\ e.action # "VerifyCluster"
        /\ \A s \in Slots : \A k :
             Gives(e, s, k) => \E i \in 1..spec.shards : s \in part[i] /\ k = dest[i]

\* A list has a step for every slot of a part that is not with the part's master.
Supplies(list, part, dest) ==
    \A i \in 1..spec.shards : \A s \in part[i] :
        slotOwners[s] # dest[i] => \E e : Has(list, e) /\ Gives(e, s, dest[i])

\* A list of steps with the final VerifyCluster directs the slots if each of its steps
\* does, and supplies the parts that the list does.
LEMMA BodyAllocates ==
  ASSUME NEW part, NEW dest, NEW S, NEW body \in Seq(S),
         Direct(S, part, dest), Supplies(body, part, dest),
         NEW steps, steps = Append(body, VerifySpec)
  PROVE  Directs(steps, part, dest) /\ Supplies(steps, part, dest)
<1>1. PICK n \in Nat : n = Len(body)
  BY LenProperties
<1>2. body \in Seq(S \cup {VerifySpec})
  BY SeqMonotonic
<1>3. /\ steps \in Seq(S \cup {VerifySpec}) /\ Len(steps) = n + 1
      /\ \A j \in 1..n : steps[j] = body[j]
      /\ steps[n + 1] = VerifySpec
  BY <1>1, <1>2, AppendProperties
<1>4. DOMAIN steps = 1..n + 1
  BY <1>3, LenProperties
<1>5. \A j \in 1..n : body[j] \in S
  BY <1>1, ElementOfSeq
<1>6. VerifySpec.action = "VerifyCluster" /\ \A s, k : ~Gives(VerifySpec, s, k)
  BY DEF VerifySpec, Gives
<1>7. ASSUME NEW j \in DOMAIN steps, NEW s \in Slots, NEW k, Gives(steps[j], s, k)
      PROVE  \E i \in 1..spec.shards : s \in part[i] /\ k = dest[i]
  <2>1. j # n + 1
    BY <1>3, <1>6, <1>7
  <2>2. j \in 1..n
    BY <1>4, <2>1
  <2>3. steps[j] \in S
    BY <1>3, <1>5, <2>2
  <2> QED  BY <1>7, <2>3 DEF Direct
<1>8. ASSUME NEW j \in DOMAIN steps, steps[j].action = "VerifyCluster"
      PROVE  j = Len(steps)
  <2>1. j \notin 1..n
    BY <1>3, <1>5, <1>8 DEF Direct
  <2> QED  BY <1>3, <1>4, <2>1
<1>9. \A e : Has(body, e) => Has(steps, e)
  <2> SUFFICES ASSUME NEW e, Has(body, e) PROVE Has(steps, e)
    OBVIOUS
  <2>1. PICK j \in 1..n : body[j] = e
    BY <1>1 DEF Has
  <2>2. j \in 1..Len(steps) /\ steps[j] = e
    BY <1>3, <2>1
  <2> QED  BY <2>2 DEF Has
<1>10. Supplies(steps, part, dest)
  BY <1>9 DEF Supplies
<1> QED  BY <1>7, <1>8, <1>10 DEF Directs

\* The plan of a change of the number of shards.
LEMMA ScalePlanAllocates ==
  ASSUME RequestTypes, NEW steps, NEW targets, ScalePlan(steps, targets, slotOwners)
  PROVE  \E part, dest :
           EvenParts(part) /\ Directs(steps, part, dest) /\ Supplies(steps, part, dest)
<1> DEFINE S == KeepingSteps \cup MovesTo(targets)
<1>1. PICK part : part = [i \in 1..spec.shards |->
                            BalancedSlotRange(i - 1, spec.shards, Cardinality(Slots))]
  OBVIOUS
<1>2. EvenParts(part)
  BY <1>1, BalancedParts
<1>3. PICK body \in Seq(S) :
        /\ steps = Append(body, VerifySpec)
        /\ \A i \in 1..Len(targets) :
             \A s \in BalancedSlotRange(i - 1, Len(targets), Cardinality(Slots)) :
               slotOwners[s] # targets[i] =>
                 \E step \in MovesTo(targets) :
                   Has(body, step) /\ step.target = targets[i] /\ s \in step.slots
  BY DEF ScalePlan
<1>4. Len(targets) = spec.shards
  BY DEF ScalePlan
<1>5. \A i \in 1..spec.shards :
        part[i] = BalancedSlotRange(i - 1, Len(targets), Cardinality(Slots))
  BY <1>1, <1>4
<1>6. ASSUME NEW e \in S PROVE e.action # "VerifyCluster"
  BY DEF KeepingSteps, MakingSteps, PodSteps, MeetSteps, ReplicateSteps, ForgetSteps,
         MovesTo, MigrateSteps
<1>7. ASSUME NEW e \in S, NEW s \in Slots, NEW k, Gives(e, s, k)
      PROVE  \E i \in 1..spec.shards : s \in part[i] /\ k = targets[i]
  <2>1. e \in MovesTo(targets)
    BY <1>7, KeepingGivesNothing DEF KeepPlanSteps
  <2>2. PICK i \in 1..spec.shards :
          /\ e.target = targets[i]
          /\ e.slots \subseteq BalancedSlotRange(i - 1, Len(targets), Cardinality(Slots))
    BY <1>4, <2>1 DEF MovesTo
  <2>3. e.action = "MigrateSlots"
    BY <2>1 DEF MovesTo, MigrateSteps
  <2>4. k = e.target /\ s \in e.slots
    BY <1>7, <2>3 DEF Gives
  <2> QED  BY <1>5, <2>2, <2>4
<1>8. ASSUME NEW i \in 1..spec.shards, NEW s \in part[i], slotOwners[s] # targets[i]
      PROVE  \E e : Has(body, e) /\ Gives(e, s, targets[i])
  <2>1. PICK e \in MovesTo(targets) :
          Has(body, e) /\ e.target = targets[i] /\ s \in e.slots
    BY <1>3, <1>4, <1>5, <1>8
  <2>2. e.action = "MigrateSlots"
    BY DEF MovesTo, MigrateSteps
  <2> QED  BY <2>1, <2>2 DEF Gives
<1>9. Direct(S, part, targets)
  <2> HIDE DEF S
  <2> QED  BY <1>6, <1>7 DEF Direct
<1>10. Supplies(body, part, targets)
  BY <1>8 DEF Supplies
<1> HIDE DEF S
<1>11. Directs(steps, part, targets) /\ Supplies(steps, part, targets)
  BY <1>3, <1>9, <1>10, BodyAllocates
<1> QED  BY <1>2, <1>11

\* The plan of a new cluster.
LEMMA CreatePlanAllocates ==
  ASSUME RequestTypes
  PROVE  \E part, dest :
           /\ EvenParts(part)
           /\ Directs(CreatePlan, part, dest) /\ Supplies(CreatePlan, part, dest)
<1>1. PICK making \in Seq(MakingSteps), adds \in Seq(AddSteps) :
        /\ CreatePlan = Append(making \o adds, VerifySpec)
        /\ Len(adds) = spec.shards
        /\ \A i \in 1..Len(adds) :
             adds[i].slots = SlotRange(i - 1, spec.shards, Cardinality(Slots))
  BY CreatePlanBuilt
<1>2. PICK part : part = [i \in 1..spec.shards |->
                            SlotRange(i - 1, spec.shards, Cardinality(Slots))]
  OBVIOUS
<1>3. PICK dest : dest = [i \in 1..spec.shards |-> adds[i].pod]
  OBVIOUS
<1>4. EvenParts(part)
  BY <1>2, CreatedParts
<1> DEFINE added == {adds[i] : i \in 1..spec.shards}
           S == MakingSteps \cup added
<1>5. \A i \in 1..spec.shards :
        /\ adds[i] \in AddSteps
        /\ adds[i].action = "AddSlots" /\ adds[i].slots = part[i] /\ adds[i].pod = dest[i]
  <2>1. \A i \in 1..spec.shards : adds[i] \in AddSteps
    BY <1>1, ElementOfSeq
  <2>2. \A e \in AddSteps : e.action = "AddSlots"
    BY DEF AddSteps
  <2> QED  BY <1>1, <1>2, <1>3, <2>1, <2>2
<1>6. making \in Seq(S) /\ adds \in Seq(S)
  <2>1. adds \in Seq(added)
    <3>1. adds \in [1..Len(adds) -> AddSteps]
      BY LenProperties, ElementOfSeq
    <3>2. adds \in [1..Len(adds) -> added] /\ Len(adds) \in Nat
      BY <1>1, <3>1, LenProperties
    <3> QED  BY <3>2, SeqDef
  <2> HIDE DEF added
  <2> QED  BY <2>1, SeqMonotonic
<1>7. ASSUME NEW e \in S PROVE e.action # "VerifyCluster"
  BY <1>5 DEF MakingSteps, PodSteps, MeetSteps, ReplicateSteps
<1>8. ASSUME NEW e \in S, NEW s \in Slots, NEW k, Gives(e, s, k)
      PROVE  \E i \in 1..spec.shards : s \in part[i] /\ k = dest[i]
  <2>1. e \in added
    BY <1>8, KeepingGivesNothing DEF KeepPlanSteps, KeepingSteps
  <2>2. PICK i \in 1..spec.shards : e = adds[i]
    BY <2>1
  <2> QED  BY <1>5, <1>8, <2>2 DEF Gives
<1>9. ASSUME NEW i \in 1..spec.shards, NEW s \in part[i]
      PROVE  \E e : Has(making \o adds, e) /\ Gives(e, s, dest[i])
  <2>1. Has(adds, adds[i])
    BY <1>1 DEF Has
  <2> HIDE DEF S
  <2>2. Has(making \o adds, adds[i])
    BY <1>6, <2>1, ConcatHas
  <2>3. Gives(adds[i], s, dest[i])
    BY <1>5, <1>9 DEF Gives
  <2> QED  BY <2>2, <2>3
<1>10. Direct(S, part, dest)
  <2> HIDE DEF S
  <2> QED  BY <1>7, <1>8 DEF Direct
<1>11. Supplies(making \o adds, part, dest)
  BY <1>9 DEF Supplies
<1> HIDE DEF S
<1>12. making \o adds \in Seq(S)
  BY <1>6, ConcatProperties
<1>13. Directs(CreatePlan, part, dest) /\ Supplies(CreatePlan, part, dest)
  BY <1>1, <1>10, <1>11, <1>12, BodyAllocates
<1> QED  BY <1>4, <1>13

\* Before a plan is built the owners are the observed ones, without open slots.
LEMMA InitAllocationInv == PlannerInit => AllocationInv
<1> SUFFICES ASSUME PlannerInit PROVE AllocationInv
  OBVIOUS
<1>1. FinishInv /\ CreationInv
  BY InitFinishInv, InitCreationInv
<1>2. cursor = 0
  BY DEF PlannerInit, Request
<1>3. slotOwners = ReadableOwner(observedOwner, NoKey)
  BY PlannerAssumption DEF PlannerInit, Init, Observation, ObservedSlots
<1>4. observedOwner \in [Slots -> Keys \cup {NoKey}]
  BY <1>1 DEF FinishInv, PlannerInv, IInv, TypeOK
<1>5. slotOwners = observedOwner
  BY <1>3, <1>4 DEF ReadableOwner
<1> QED  BY <1>1, <1>2, <1>5 DEF AllocationInv

\* When a plan is built it keeps the slots or the shards, or allocates every slot.
LEMMA PlanIsOfAKind ==
  ASSUME AllocationInv, BuildPlan
  PROVE  (KeepsSlots \/ KeepsShards \/ Allocates)'
<1>1. PICK lost : plan' = BuildGoPlan(lost)
  BY DEF BuildPlan
<1>2. /\ cursor = 0 /\ cursor' = 1 /\ slotOwners = observedOwner
      /\ UNCHANGED <<slotOwners, observedOwner, spec>>
  BY DEF BuildPlan, AllocationInv, vars, slotVars, planVars, requestVars
<1>3. TypeOK /\ PodsExist /\ RequestTypes
  BY DEF AllocationInv, FinishInv, PlannerInv, IInv
<1>4. ASSUME NEW part, NEW dest,
             EvenParts(part), Directs(plan', part, dest), Supplies(plan', part, dest)
      PROVE  Allocates'
  <2>1. EvenParts(part)' /\ Directs(plan, part, dest)'
    BY <1>2, <1>4 DEF EvenParts, Directs, Gives
  <2>2. ASSUME NEW i \in 1..spec.shards, NEW s \in part[i], slotOwners[s] # dest[i]
        PROVE  \E j \in DOMAIN plan' : j >= 1 /\ Gives(plan'[j], s, dest[i])
    <3>1. PICK e : Has(plan', e) /\ Gives(e, s, dest[i])
      BY <1>4, <2>2 DEF Supplies
    <3>2. plan' \in Seq(PlanSteps)
      BY <1>1, <1>3, NewPlansBuilt
    <3>3. PICK j \in 1..Len(plan') : plan'[j] = e
      BY <3>1 DEF Has
    <3>4. j \in DOMAIN plan' /\ j >= 1
      BY <3>2, <3>3, LenProperties
    <3> QED  BY <3>1, <3>3, <3>4
  <2>3. Pending(part, dest)'
    BY <1>2, <2>2 DEF Pending, Gives
  <2> QED  BY <2>1, <2>3 DEF Allocates
<1>5. CASE MasterSet = {}
  <2>1. plan' = CreatePlan
    BY <1>1, <1>5 DEF BuildGoPlan
  <2>2. PICK part, dest :
          /\ EvenParts(part)
          /\ Directs(CreatePlan, part, dest) /\ Supplies(CreatePlan, part, dest)
    BY <1>3, CreatePlanAllocates
  <2> QED  BY <1>4, <2>1, <2>2
<1>6. CASE MasterSet # {}
  <2>1. CASE plan' \in Seq(KeepPlanSteps)
    BY <1>2, <2>1 DEF KeepsSlots
  <2>2. CASE Cardinality(MasterSet) = spec.shards /\ SlotsCovered
    <3>1. NoKey \notin Keys /\ MasterSet \subseteq Keys
      BY <1>3, KeysAssumption DEF MasterSet, TypeOK
    <3>2. ASSUME NEW m \in MasterSet PROVE \E s \in Slots : slotOwners[s] = m
      <4>1. PICK s : s \in slots[m]
        BY DEF MasterSet, OwnsSlots
      <4>2. m \in Keys /\ s \in Slots
        BY <1>3, <3>1, <4>1 DEF TypeOK
      <4> QED  BY <4>1, <4>2 DEF AllocationInv, FinishInv, PlannerInv, IInv, NodesInv, OwnerIndexExact
    <3>3. {observedOwner[s] : s \in Slots} \ {NoKey} = MasterSet
      BY <1>2, <2>2, <3>1, <3>2 DEF SlotsCovered
    <3> QED  BY <1>2, <2>2, <3>3 DEF KeepsShards
  <2>3. CASE \E targets : ScalePlan(plan', targets, slotOwners)
    BY <1>3, <1>4, <2>3, ScalePlanAllocates
  <2> QED  BY <1>1, <1>3, <1>6, <2>1, <2>2, <2>3, PlansAllocate
<1> QED  BY <1>5, <1>6

\* Each step keeps the kind of the plan, and the plan of that kind its promise.
LEMMA AllocationInvKept == AllocationInv /\ [PlannerNext]_plannerVars => AllocationInv'
<1> SUFFICES ASSUME AllocationInv, [PlannerNext]_plannerVars PROVE AllocationInv'
  OBVIOUS
<1>1. FinishInv' /\ CreationInv'
  BY FinishInvKept, CreationInvKept DEF AllocationInv
<1>2. TypeOK /\ TypeOK' /\ plan \in Seq(PlanSteps) /\ cursor \in Nat
  BY <1>1 DEF AllocationInv, FinishInv, PlannerInv, IInv, CreationInv, StopsAtVerify
<1>3. CASE BuildPlan
  <2>1. cursor' # 0
    BY <1>3 DEF BuildPlan
  <2> QED  BY <1>1, <1>3, <2>1, PlanIsOfAKind DEF AllocationInv
<1>4. CASE SimulateStep
  <2>1. /\ cursor \in DOMAIN plan /\ Perform(plan[cursor]) /\ cursor' = cursor + 1
        /\ UNCHANGED <<plan, observedOwner, spec>>
    BY <1>4 DEF SimulateStep, planVars, requestVars
  <2>2. cursor # 0 /\ cursor' # 0
    BY <1>2, <2>1, LenProperties
  <2>3. CASE KeepsSlots
    <3>1. plan[cursor] \in KeepPlanSteps
      BY <2>1, <2>3, LenProperties, ElementOfSeq DEF KeepsSlots
    <3>2. \A s \in Slots : slotOwners'[s] = slotOwners[s]
      BY <1>2, <2>1, <3>1, PerformGives, KeepingGivesNothing
    <3>3. slotOwners' = slotOwners
      <4>1. /\ slotOwners = [s \in Slots |-> slotOwners[s]]
            /\ slotOwners' = [s \in Slots |-> slotOwners'[s]]
        BY <1>2 DEF TypeOK
      <4> QED  BY <3>2, <4>1
    <3>4. KeepsSlots'
      BY <2>1, <2>3, <3>3 DEF KeepsSlots
    <3> QED  BY <1>1, <2>2, <3>4 DEF AllocationInv
  <2>4. CASE KeepsShards
    <3>1. KeepsShards'
      BY <2>1, <2>4 DEF KeepsShards
    <3> QED  BY <1>1, <2>2, <3>1 DEF AllocationInv
  <2>5. CASE Allocates
    <3>1. PICK part, dest : EvenParts(part) /\ Directs(plan, part, dest) /\ Pending(part, dest)
      BY <2>5 DEF Allocates
    <3>2. Pending(part, dest)'
      BY <1>4, <3>1, PendingKept
    <3>3. EvenParts(part)' /\ Directs(plan, part, dest)'
      BY <2>1, <3>1 DEF EvenParts, Directs, Gives
    <3>4. Allocates'
      BY <3>2, <3>3 DEF Allocates
    <3> QED  BY <1>1, <2>2, <3>4 DEF AllocationInv
  <2> QED  BY <2>2, <2>3, <2>4, <2>5 DEF AllocationInv
<1>5. CASE AcceptPlan \/ UNCHANGED plannerVars
  <2>1. UNCHANGED <<plan, cursor, slotOwners, observedOwner, spec>>
    BY <1>5 DEF AcceptPlan, VerifyCluster, plannerVars, vars, slotVars, planVars, requestVars
  <2>2. KeepsSlots => KeepsSlots'
    BY <2>1 DEF KeepsSlots
  <2>3. KeepsShards => KeepsShards'
    BY <2>1 DEF KeepsShards
  <2>4. ASSUME Allocates PROVE Allocates'
    <3>1. PICK part, dest : EvenParts(part) /\ Directs(plan, part, dest) /\ Pending(part, dest)
      BY <2>4 DEF Allocates
    <3>2. EvenParts(part)'
      BY <2>1, <3>1 DEF EvenParts
    <3>3. Directs(plan, part, dest)'
      BY <2>1, <3>1 DEF Directs, Gives
    <3>4. Pending(part, dest)'
      BY <2>1, <3>1 DEF Pending, Gives
    <3> QED  BY <3>2, <3>3, <3>4 DEF Allocates
  <2> QED  BY <1>1, <2>1, <2>2, <2>3, <2>4 DEF AllocationInv
<1> QED  BY <1>3, <1>4, <1>5 DEF PlannerNext

\* When the plan is accepted each part is with its master: nothing is pending behind
\* the final VerifyCluster.
LEMMA PartsAreGiven ==
  ASSUME AllocationInv, phase = "accepted", NEW part, NEW dest,
         Directs(plan, part, dest), Pending(part, dest),
         NEW i \in 1..spec.shards, NEW s \in part[i]
  PROVE  slotOwners[s] = dest[i]
<1>1. plan \in Seq(PlanSteps)
  BY DEF AllocationInv, FinishInv, PlannerInv
<1>2. cursor \in DOMAIN plan /\ plan[cursor].action = "VerifyCluster"
  BY DEF AllocationInv, CreationInv, StopsAtVerify
<1>3. cursor = Len(plan)
  BY <1>2 DEF Directs
<1>4. SUFFICES ASSUME NEW j \in DOMAIN plan, j >= cursor, Gives(plan[j], s, dest[i])
               PROVE  FALSE
  BY DEF Pending
<1>5. j = cursor
  BY <1>1, <1>3, <1>4, LenProperties
<1> QED  BY <1>2, <1>4, <1>5 DEF Gives

\* As many owners as parts, each of which owns a part: no master has two of them.
LEMMA MastersDiffer ==
  ASSUME NEW n \in Nat, NEW dest, NEW owners,
         Cardinality(owners) = n, owners \subseteq {dest[i] : i \in 1..n},
         NEW i \in 1..n, NEW j \in 1..n, dest[i] = dest[j]
  PROVE  i = j
<1> DEFINE f == [k \in 1..n |-> dest[k]]
           T == {dest[k] : k \in 1..n}
<1>1. IsFiniteSet(1..n) /\ Cardinality(1..n) = n
  BY FS_Interval
<1>2. f \in Surjection(1..n, T)
  BY DEF Surjection
<1> HIDE DEF f, T
<1>3. /\ IsFiniteSet(T) /\ Cardinality(T) <= n
      /\ Cardinality(T) = n => f \in Injection(1..n, T)
  BY <1>1, <1>2, FS_Surjection
<1>4. n <= Cardinality(T)
  BY <1>3, FS_Subset DEF T
<1>5. Cardinality(T) \in Nat
  BY <1>3, FS_CardinalityType
<1>6. f \in Injection(1..n, T)
  BY <1>3, <1>4, <1>5
<1>7. f[i] = f[j]
  BY DEF f
<1>8. \A a, b \in 1..n : f[a] = f[b] => a = b
  BY <1>6 DEF Injection, IsInjective
<1> QED  BY <1>7, <1>8

\* An accepted plan that changed the number of slot owners leaves each with one part.
LEMMA AcceptedIsBalanced == AllocationInv => SlotsAreBalanced
<1> SUFFICES ASSUME AllocationInv, phase = "accepted",
                    Cardinality({observedOwner[s] : s \in Slots} \ {NoKey}) # spec.shards,
                    NEW m \in SlotOwners, NEW k \in SlotOwners
             PROVE  Cardinality(slots[m]) <= Cardinality(slots[k]) + 1
  BY DEF SlotsAreBalanced
<1>1. TypeOK /\ OwnerIndexExact /\ NoKey \notin Keys /\ RequestTypes /\ plan \in Seq(PlanSteps)
  BY KeysAssumption DEF AllocationInv, FinishInv, PlannerInv, IInv, NodesInv
<1>2. /\ SlotOwners = MasterSet /\ Cardinality(SlotOwners) = spec.shards
      /\ \A s \in Slots : slotOwners[s] \in SlotOwners
  BY AcceptedTopology, Zenon DEF AllocationInv
<1>3. SlotOwners \subseteq Keys
  BY <1>1 DEF SlotOwners, TypeOK
<1>4. \A o \in SlotOwners : slots[o] = {s \in Slots : slotOwners[s] = o} /\ slots[o] # {}
  <2> SUFFICES ASSUME NEW o \in SlotOwners
               PROVE  slots[o] = {s \in Slots : slotOwners[s] = o} /\ slots[o] # {}
    OBVIOUS
  <2>1. slots[o] # {}
    BY DEF SlotOwners, OwnsSlots
  <2>2. o \in Keys /\ slots[o] \subseteq Slots
    BY <1>1, <1>3 DEF TypeOK
  <2> QED  BY <1>1, <2>1, <2>2 DEF OwnerIndexExact
<1>5. Allocates
  <2>1. cursor # 0
    <3>1. cursor \in DOMAIN plan
      BY DEF AllocationInv, CreationInv, StopsAtVerify
    <3> QED  BY <1>1, <3>1, LenProperties
  <2>2. ASSUME KeepsSlots PROVE FALSE
    <3>1. {observedOwner[s] : s \in Slots} \ {NoKey} = SlotOwners
      BY <1>1, <1>2, <1>3, <1>4, <2>2 DEF KeepsSlots
    <3> QED  BY <1>2, <3>1
  <2>3. ~KeepsShards
    BY DEF KeepsShards
  <2> QED  BY <2>1, <2>2, <2>3 DEF AllocationInv
<1>6. PICK part, dest : EvenParts(part) /\ Directs(plan, part, dest) /\ Pending(part, dest)
  BY <1>5 DEF Allocates
<1>7. \A i \in 1..spec.shards : \A s \in part[i] : slotOwners[s] = dest[i]
  BY <1>6, PartsAreGiven
<1>8. PICK n \in Nat : n = spec.shards
  BY <1>1, PlannerAssumption DEF RequestTypes
<1>9. ASSUME NEW o \in SlotOwners PROVE \E i \in 1..n : o = dest[i]
  <2>1. PICK s \in Slots : slotOwners[s] = o
    BY <1>4
  <2>2. PICK i \in 1..n : s \in part[i]
    BY <1>6, <1>8 DEF EvenParts
  <2> QED  BY <1>7, <1>8, <2>1, <2>2
<1>10. SlotOwners \subseteq {dest[i] : i \in 1..n}
  BY <1>9
<1>11. \A i, j \in 1..n : dest[i] = dest[j] => i = j
  BY <1>2, <1>8, <1>10, MastersDiffer
<1>12. ASSUME NEW i \in 1..n, dest[i] \in SlotOwners PROVE slots[dest[i]] = part[i]
  <2>1. part[i] \subseteq Slots
    BY <1>6, <1>8 DEF EvenParts
  <2>2. ASSUME NEW s \in Slots, slotOwners[s] = dest[i] PROVE s \in part[i]
    <3>1. PICK j \in 1..n : s \in part[j]
      BY <1>6, <1>8 DEF EvenParts
    <3>2. dest[j] = dest[i]
      BY <1>7, <1>8, <2>2, <3>1
    <3> QED  BY <1>11, <3>1, <3>2
  <2>3. \A s \in part[i] : slotOwners[s] = dest[i]
    BY <1>7, <1>8
  <2>4. slots[dest[i]] = {s \in Slots : slotOwners[s] = dest[i]}
    BY <1>4, <1>12
  <2> QED  BY <2>1, <2>2, <2>3, <2>4
<1>13. PICK i \in 1..n, j \in 1..n : m = dest[i] /\ k = dest[j]
  BY <1>9
<1>14. slots[m] = part[i] /\ slots[k] = part[j]
  BY <1>12, <1>13
<1> QED  BY <1>6, <1>8, <1>14 DEF EvenParts

\* After an accepted plan that changed the number of slot owners (it creates a cluster,
\* or scales one out or in), the owners' numbers of slots differ by one at most, for
\* any numbers of pods, slots, shards and replicas.
THEOREM AllocationsAreBalanced == PlannerSpec => []SlotsAreBalanced
BY AcceptedIsBalanced, InitAllocationInv, AllocationInvKept, PTL DEF PlannerSpec

-----------------------------------------------------------------------------
(***************************************************************************)
(* At no time does more than one shard exist twice.                        *)
(***************************************************************************)
Owners == {observedOwner[s] : s \in Slots} \ {NoKey}

ReplicasFollow(M) == \A r \in Keys : role[r] = "replica" => replicaOf[r] \in M

\* A plan for a cluster whose number of shards is the spec's leaves the masters
\* alone, and every replica follows one of them.
OwnersStay == plan \in Seq(StayPlanSteps(Owners)) /\ ReplicasFollow(Owners)

\* The replicas of the groups before the i-th have no pod any more.
GoneBefore(groups, i) == \A h \in 1..i - 1 : groups[h] \cap exists = {}

\* Every replica follows the old master it was observed with, or the new one of a
\* shard before which all are replaced.
FollowsOldOrNew(olds, groups) ==
    \A r \in Keys : role[r] = "replica" => \E i \in DOMAIN groups :
        \/ replicaOf[r] = olds[i] /\ r \in groups[i]
        \/ replicaOf[r] = GroupMaster(nextPodOrdinal, i) /\ GoneBefore(groups, i)

\* No pod comes back after its DeleteNode.
DeletedStayAway ==
    \A j \in DOMAIN plan :
        j < cursor /\ plan[j].action = "DeleteNode" => plan[j].pod \notin exists

\* Or the plan replaces them one by one.
ShardsReplaced(olds, groups) ==
    /\ DOMAIN groups = 1..spec.shards
    /\ \A i \in DOMAIN groups : groups[i] \cap NewPods = {}
    /\ ReplacesOneByOne(plan, groups)
    /\ DeletedStayAway
    /\ FollowsOldOrNew(olds, groups)

KeepsTheNumber == Cardinality(Owners) = spec.shards

\* What is observed of an intact cluster: the planner's masters are the owners of the
\* slots, all replicas follow them, and the new pods get other ordinals.
OwnersObserved ==
    /\ MasterSet = Owners
    /\ \A r \in Keys :
         role[r] = "replica" => r \in ReplicasOf(replicaOf[r]) /\ replicaOf[r] \in MasterSet
    /\ exists \cap NewPods = {}

ShardsInv ==
    /\ CreationInv
    /\ exists \subseteq known
    /\ cursor = 0 /\ KeepsTheNumber => OwnersObserved
    /\ cursor # 0 /\ KeepsTheNumber => OwnersStay \/ \E olds, groups : ShardsReplaced(olds, groups)

\* So it is when the cluster is intact and its number of shards is the spec's.
LEMMA IntactOwners ==
  ASSUME PlannerInit, known = {} \/ Intact, KeepsTheNumber
  PROVE  OwnersObserved
<1>1. PICK masterOf :
        /\ ObservedRoles(clusterMember, masterOf)
        /\ ObservedSlots({k \in clusterMember : masterOf[k] = k})
        /\ known = exists \cup clusterMember /\ exists \subseteq Pods
  BY DEF PlannerInit, Init, Observation
<1>2. /\ observedOwner \in [Slots -> clusterMember \cup {NoKey}]
      /\ \A s \in Slots : slotOwners[s] = observedOwner[s]
  <2>1. slotOwners = ReadableOwner(observedOwner, NoKey)
    BY <1>1, PlannerAssumption DEF ObservedSlots
  <2> QED  BY <1>1, <2>1 DEF ReadableOwner, ObservedSlots
<1>3. IInv /\ RequestTypes
  BY InitPlannerInv DEF PlannerInv
<1>4. spec.shards \in Nat \ {0}
  BY <1>3, PlannerAssumption DEF RequestTypes
<1>5. Owners # {}
  BY <1>4, FS_EmptySet DEF KeepsTheNumber
<1>6. Intact
  <2>1. clusterMember # {}
    BY <1>2, <1>5 DEF Owners
  <2> QED  BY <1>1, <2>1
<1>7. MasterSet = Owners
  <2>1. Owners \subseteq MasterSet
    BY <1>2, <1>6 DEF Owners, Intact, SlotsCovered
  <2>2. ASSUME NEW m \in MasterSet PROVE m \in Owners
    <3>1. m \in Keys /\ m # NoKey /\ slots[m] # {} /\ slots[m] \subseteq Slots
      BY <1>3, KeysAssumption DEF MasterSet, OwnsSlots, IInv, TypeOK
    <3>2. PICK s \in Slots : s \in slots[m]
      BY <3>1
    <3>3. slotOwners[s] = m
      BY <1>3, <3>1, <3>2 DEF IInv, NodesInv, OwnerIndexExact
    <3> QED  BY <1>2, <3>1, <3>3 DEF Owners
  <2> QED  BY <2>1, <2>2
<1>8. ASSUME NEW r \in Keys, role[r] = "replica"
      PROVE  r \in ReplicasOf(replicaOf[r]) /\ replicaOf[r] \in MasterSet
  <2>1. r \in clusterMember
    BY <1>1, <1>8 DEF ObservedRoles
  <2>2. r \in exists /\ r \notin MasterSet
    BY <1>6, <1>8, <2>1 DEF Intact, MasterSet, ReadyMaster
  <2>3. PICK m \in MasterSet : r \in ReplicasOf(m)
    BY <1>6, <2>2 DEF Intact
  <2> QED  BY <2>3 DEF ReplicasOf
<1>9. exists \cap NewPods = {}
  BY <1>1, Numbers DEF PlannerInit, Request, NewPods
<1> QED  BY <1>7, <1>8, <1>9 DEF OwnersObserved

\* What a step does to roles and pods: a ReplicateNode step alone makes a replica,
\* which follows the master it names; an EnsureNode alone makes a pod.
LEMMA PerformRoles ==
  ASSUME TypeOK, exists \subseteq known, NEW step, Perform(step)
  PROVE  /\ \A r \in Keys : role'[r] = "replica" =>
              \/ role[r] = "replica" /\ replicaOf'[r] = replicaOf[r]
              \/ /\ step.action = "ReplicateNode"
                 /\ r = step.replica /\ replicaOf'[r] = step.master
         /\ \A p \in exists' : p \in exists \/ (step.action = "EnsureNode" /\ p = step.pod)
         /\ step.action = "DeleteNode" => step.pod \notin exists'
         /\ exists' \subseteq known'
<1> USE DEF podVars, memberVars, roleVars, slotVars
<1>1. CASE step.action = "EnsureNode" /\ EnsureNode(step.pod)
  BY <1>1 DEF EnsureNode
<1>2. CASE step.action = "WaitNodeReady" /\ WaitNodeReady(step.pod)
  BY <1>2 DEF WaitNodeReady
<1>3. CASE step.action = "MeetNode" /\ MeetNode(step.source, step.target)
  BY <1>3 DEF MeetNode
<1>4. CASE step.action = "ReplicateNode" /\ ReplicateNode(step.master, step.replica)
  <2>1. PICK p, q : p = step.master /\ q = step.replica
    OBVIOUS
  <2>2. /\ role' = [role EXCEPT ![p] = "master", ![q] = "replica"]
        /\ replicaOf' = [replicaOf EXCEPT ![q] = p]
        /\ UNCHANGED <<known, exists>>
    BY <1>4, <2>1 DEF ReplicateNode
  <2>3. DOMAIN role = Keys /\ DOMAIN replicaOf = Keys
    BY DEF TypeOK
  <2>4. ASSUME NEW r \in Keys, role'[r] = "replica"
        PROVE  \/ role[r] = "replica" /\ replicaOf'[r] = replicaOf[r]
               \/ r = q /\ replicaOf'[r] = p
    BY <2>2, <2>3, <2>4
  <2> QED  BY <1>4, <2>1, <2>2, <2>4
<1>5. CASE step.action = "AddSlots" /\ AddSlots(step.pod, step.slots)
  BY <1>5 DEF AddSlots, Assign
<1>6. CASE step.action = "MigrateSlots" /\ MigrateSlots(step.source, step.target, step.slots)
  BY <1>6 DEF MigrateSlots, Transfer
<1>7. CASE step.action = "ForgetNode" /\ ForgetNode(step.key, step.pod)
  BY <1>7 DEF ForgetNode, Forget
<1>8. CASE step.action = "DeleteNode" /\ DeleteNode(step.pod)
  BY <1>8 DEF DeleteNode
<1> QED  BY <1>1, <1>2, <1>3, <1>4, <1>5, <1>6, <1>7, <1>8 DEF Perform

\* The plan for a cluster of the spec's number of shards leaves the masters alone or
\* is that of an image change.
LEMMA NumberKeepingPlans ==
  ASSUME TypeOK, PodsExist, RequestTypes, MasterSet # {}, Cardinality(MasterSet) = spec.shards,
         NEW lost
  PROVE  \/ BuildGoPlan(lost) \in Seq(StayPlanSteps(MasterSet))
         \/ BuildGoPlan(lost) = ImageDriftPlan /\ ImageDriftPlan # <<>>
<1>1. ShardScaleOutPlan = <<>> /\ ShardScaleInPlan = <<>>
  <2>1. spec.shards \in Int
    BY DEF RequestTypes
  <2>2. ~(spec.shards > Cardinality(MasterSet)) /\ ~(spec.shards < Cardinality(MasterSet))
    BY <2>1
  <2> QED  BY <2>2, Zenon DEF ShardScaleOutPlan, ShardScaleInPlan
<1>2. /\ RepairPlan(lost) \in Seq(StayPlanSteps(MasterSet))
      /\ ReplicaScaleInPlan \in Seq(StayPlanSteps(MasterSet))
      /\ ReplicaScaleOutPlan \in Seq(StayPlanSteps(MasterSet))
  BY RepairPlanChanges, ReplicaScaleInPlanChanges, ReplicaScaleOutPlanChanges
<1> DEFINE repair == RepairPlan(lost)
<1>3. BuildGoPlan(lost) =
        OrElse(repair, OrElse(ImageDriftPlan, OrElse(ReplicaScaleInPlan,
        OrElse(ShardScaleOutPlan, OrElse(ShardScaleInPlan, ReplicaScaleOutPlan)))))
  BY DEF BuildGoPlan
<1> HIDE DEF repair
<1>4. \/ BuildGoPlan(lost) \in {repair, ReplicaScaleInPlan, ReplicaScaleOutPlan}
      \/ BuildGoPlan(lost) = ImageDriftPlan /\ ImageDriftPlan # <<>>
  BY <1>1, <1>3, SMT DEF OrElse
<1> QED  BY <1>2, <1>4 DEF repair

\* The invariant holds of an intact cluster, and of none.
LEMMA InitShardsInv ==
  PlannerInit /\ (known = {} \/ Intact) => ShardsInv
<1> SUFFICES ASSUME PlannerInit, known = {} \/ Intact PROVE ShardsInv
  OBVIOUS
<1>1. cursor = 0 /\ exists \subseteq known
  BY DEF PlannerInit, Request, Init, Observation
<1> QED  BY <1>1, InitCreationInv, IntactOwners DEF ShardsInv

\* It is established when the plan is built.
LEMMA BuildShards ==
  ASSUME ShardsInv, BuildPlan, KeepsTheNumber
  PROVE  (OwnersStay \/ \E olds, groups : ShardsReplaced(olds, groups))'
<1>1. TypeOK /\ PodsExist /\ RequestTypes
  BY DEF ShardsInv, CreationInv, PlannerInv, IInv
<1>2. /\ OwnersObserved /\ cursor' = 1
      /\ UNCHANGED <<exists, role, replicaOf, observedOwner, spec, nextPodOrdinal>>
  BY DEF ShardsInv, BuildPlan, vars, podVars, roleVars, planVars, requestVars
<1>3. PICK lost : plan' = BuildGoPlan(lost)
  BY DEF BuildPlan
<1>4. Owners' = Owners
  BY <1>2 DEF Owners
<1>5. Cardinality(MasterSet) = spec.shards /\ MasterSet # {}
  <2>1. spec.shards \in Nat \ {0}
    BY <1>1, PlannerAssumption DEF RequestTypes
  <2>2. Cardinality(MasterSet) = spec.shards
    BY <1>2 DEF OwnersObserved, KeepsTheNumber
  <2> QED  BY <2>1, <2>2, FS_EmptySet
<1>6. CASE BuildGoPlan(lost) \in Seq(StayPlanSteps(MasterSet))
  <2>1. plan' \in Seq(StayPlanSteps(Owners))
    BY <1>2, <1>3, <1>6 DEF OwnersObserved
  <2>2. ReplicasFollow(Owners)
    BY <1>2 DEF OwnersObserved, ReplicasFollow
  <2>3. OwnersStay'
    BY <1>2, <1>4, <2>1, <2>2 DEF OwnersStay, ReplicasFollow
  <2> QED  BY <2>3
<1>7. CASE BuildGoPlan(lost) = ImageDriftPlan /\ ImageDriftPlan # <<>>
  <2>1. PICK olds, groups : /\ olds = Masters
                            /\ groups = [i \in 1..Len(Masters) |-> ReplicasOf(Masters[i])]
    OBVIOUS
  <2>2. Len(Masters) = spec.shards
    BY <1>1, <1>5, Observed
  <2>3. DOMAIN groups = 1..spec.shards
    BY <2>1, <2>2
  <2>4. \A i \in DOMAIN groups : groups[i] \cap NewPods = {}
    BY <1>2, <2>1 DEF OwnersObserved, ReplicasOf
  <2>5. ReplacesOneByOne(plan', groups)
    <3>1. ReplacesOneByOne(ImageDriftPlan, groups)
      BY <1>1, <1>2, <1>7, <2>1, ImageDriftPlanOrder DEF OwnersObserved
    <3> QED  BY <1>3, <1>7, <3>1
  <2>6. ReplacesOneByOne(plan, groups)'
    BY <1>2, <2>5 DEF ReplacesOneByOne, FollowsInOrder, NamesItsPods, NewPods, GroupMaster,
                      GroupSize, HasBefore
  <2>7. DeletedStayAway'
    <3>1. DOMAIN plan' \subseteq Nat \ {0}
      <4>1. plan' \in Seq(PlanSteps)
        BY <1>1, <1>3, NewPlansBuilt
      <4> QED  BY <4>1, LenProperties
    <3> QED  BY <1>2, <3>1 DEF DeletedStayAway
  <2>8. ASSUME NEW r \in Keys, role[r] = "replica"
        PROVE  \E i \in DOMAIN groups : replicaOf[r] = olds[i] /\ r \in groups[i]
    <3>1. r \in ReplicasOf(replicaOf[r]) /\ replicaOf[r] \in MasterSet
      BY <1>2, <2>8 DEF OwnersObserved
    <3>2. PICK i \in 1..Len(Masters) : Masters[i] = replicaOf[r]
      <4>1. /\ MasterSet \subseteq Int /\ IsFiniteSet(MasterSet)
            /\ Len(Masters) = Cardinality(MasterSet)
        BY <1>1, Observed
      <4> QED  BY <3>1, <4>1, InOrderLists DEF Masters
    <3> QED  BY <2>1, <3>1, <3>2
  <2>9. FollowsOldOrNew(olds, groups)'
    BY <1>2, <2>8 DEF FollowsOldOrNew
  <2>10. ShardsReplaced(olds, groups)'
    <3>1. NewPods' = NewPods
      BY <1>2 DEF NewPods
    <3> QED  BY <1>2, <2>3, <2>4, <2>6, <2>7, <2>9, <3>1 DEF ShardsReplaced
  <2> QED  BY <2>10
<1> QED  BY <1>1, <1>5, <1>6, <1>7, NumberKeepingPlans

\* Each step keeps it.
LEMMA StepKeepsShards ==
  ASSUME ShardsInv, SimulateStep, KeepsTheNumber
  PROVE  (OwnersStay \/ \E olds, groups : ShardsReplaced(olds, groups))'
<1>1. /\ TypeOK /\ exists \subseteq known /\ cursor \in Nat
      /\ plan \in Seq(PlanSteps)
  BY DEF ShardsInv, CreationInv, PlannerInv, IInv, StopsAtVerify
<1>2. /\ cursor \in DOMAIN plan /\ Perform(plan[cursor]) /\ cursor' = cursor + 1
      /\ UNCHANGED <<plan, observedOwner, spec, nextPodOrdinal>>
  BY DEF SimulateStep, planVars, requestVars
<1>3. DOMAIN plan = 1..Len(plan) /\ Len(plan) \in Nat
  BY <1>1, LenProperties
<1>4. PICK step : step = plan[cursor]
  OBVIOUS
<1>5. /\ \A r \in Keys : role'[r] = "replica" =>
           \/ role[r] = "replica" /\ replicaOf'[r] = replicaOf[r]
           \/ step.action = "ReplicateNode" /\ replicaOf'[r] = step.master
      /\ \A p \in exists' : p \in exists \/ (step.action = "EnsureNode" /\ p = step.pod)
      /\ step.action = "DeleteNode" => step.pod \notin exists'
  BY <1>1, <1>2, <1>4, PerformRoles
<1>6. Owners' = Owners /\ NewPods' = NewPods
  BY <1>2 DEF Owners, NewPods
<1>7. CASE OwnersStay
  <2>1. step \in StayPlanSteps(Owners)
    BY <1>2, <1>3, <1>4, <1>7, ElementOfSeq DEF OwnersStay
  <2>2. step.action = "ReplicateNode" => step.master \in Owners
    BY <2>1 DEF StayPlanSteps, StayingSteps, EnsureSteps, FollowSteps, RetireSteps, PodSteps,
                MeetSteps, ReplicateSteps, ForgetSteps, VerifySteps
  <2>3. \A r \in Keys : role'[r] = "replica" => replicaOf'[r] \in Owners
    BY <1>5, <1>7, <2>2 DEF OwnersStay, ReplicasFollow
  <2>4. OwnersStay'
    BY <1>2, <1>6, <1>7, <2>3 DEF OwnersStay, ReplicasFollow
  <2> QED  BY <2>4
<1>8. CASE \E olds, groups : ShardsReplaced(olds, groups)
  <2>1. PICK olds, groups : ShardsReplaced(olds, groups)
    BY <1>8
  <2>2. \A j \in DOMAIN plan : FollowsInOrder(plan, groups, j) /\ NamesItsPods(plan[j])
    BY <2>1 DEF ShardsReplaced, ReplacesOneByOne
  <2>3. \A p \in exists' : p \in exists \/ p \in NewPods
    BY <1>2, <1>4, <1>5, <2>2 DEF NamesItsPods
  <2>4. DeletedStayAway'
    <3> SUFFICES ASSUME NEW j \in DOMAIN plan, j < cursor + 1, plan[j].action = "DeleteNode"
                 PROVE  plan[j].pod \notin exists'
      BY <1>2 DEF DeletedStayAway
    <3>1. CASE j < cursor
      <4>1. plan[j].pod \notin exists
        BY <2>1, <3>1 DEF ShardsReplaced, DeletedStayAway
      <4>2. plan[j].pod \notin NewPods
        BY <2>2 DEF NamesItsPods
      <4> QED  BY <2>3, <4>1, <4>2
    <3>2. CASE j = cursor
      BY <1>4, <1>5, <3>2
    <3>3. j < cursor \/ j = cursor
      BY <1>1, <1>3
    <3> QED  BY <3>1, <3>2, <3>3
  <2>5. ASSUME NEW i \in DOMAIN groups, GoneBefore(groups, i)
        PROVE  \A h \in 1..i - 1 : groups[h] \cap exists' = {}
    <3>1. \A h \in 1..i - 1 : groups[h] \cap exists = {}
      BY <2>5 DEF GoneBefore
    <3>2. \A h \in 1..i - 1 : groups[h] \cap NewPods = {}
      BY <2>1, <1>1 DEF ShardsReplaced, ShardsInv, CreationInv, PlannerInv, RequestTypes
    <3> QED  BY <2>3, <3>1, <3>2
  <2>6. ASSUME NEW r \in Keys, role'[r] = "replica"
        PROVE  \E i \in DOMAIN groups :
                 \/ replicaOf'[r] = olds[i] /\ r \in groups[i]
                 \/ /\ replicaOf'[r] = GroupMaster(nextPodOrdinal, i)
                    /\ \A h \in 1..i - 1 : groups[h] \cap exists' = {}
    <3>1. CASE role[r] = "replica" /\ replicaOf'[r] = replicaOf[r]
      <4>1. PICK i \in DOMAIN groups :
               \/ replicaOf[r] = olds[i] /\ r \in groups[i]
               \/ replicaOf[r] = GroupMaster(nextPodOrdinal, i) /\ GoneBefore(groups, i)
        BY <2>1, <3>1 DEF ShardsReplaced, FollowsOldOrNew
      <4> QED  BY <2>5, <3>1, <4>1
    <3>2. CASE step.action = "ReplicateNode" /\ replicaOf'[r] = step.master
      <4>1. PICK i \in DOMAIN groups :
               /\ step.master = GroupMaster(nextPodOrdinal, i)
               /\ \A h \in 1..i - 1 : \A x \in groups[h] : HasBefore(plan, cursor, Delete(x))
        BY <1>2, <1>4, <2>2, <3>2 DEF FollowsInOrder
      <4>2. ASSUME NEW h \in 1..i - 1, NEW x \in groups[h] PROVE x \notin exists
        <5>1. HasBefore(plan, cursor, Delete(x))
          BY <4>1
        <5>2. PICK g \in 1..cursor - 1 : plan[g] = Delete(x)
          BY <5>1 DEF HasBefore
        <5>3. g \in DOMAIN plan /\ g < cursor
          BY <1>1, <1>2, <1>3
        <5>4. plan[g].action = "DeleteNode" /\ plan[g].pod = x
          BY <5>2 DEF Delete
        <5> QED  BY <2>1, <5>3, <5>4 DEF ShardsReplaced, DeletedStayAway
      <4>3. GoneBefore(groups, i)
        BY <4>2 DEF GoneBefore
      <4> QED  BY <2>5, <3>2, <4>1, <4>3
    <3> QED  BY <1>5, <2>6, <3>1, <3>2
  <2>7. FollowsOldOrNew(olds, groups)'
    BY <1>2, <2>6 DEF FollowsOldOrNew, GoneBefore, GroupMaster, GroupSize
  <2>8. ReplacesOneByOne(plan, groups)'
    BY <1>2, <2>1 DEF ShardsReplaced, ReplacesOneByOne, FollowsInOrder, NamesItsPods, NewPods,
                      GroupMaster, GroupSize, HasBefore
  <2>9. ShardsReplaced(olds, groups)'
    BY <1>2, <1>6, <2>1, <2>4, <2>7, <2>8 DEF ShardsReplaced
  <2> QED  BY <2>9
<1>9. cursor # 0
  BY <1>2, <1>3
<1> QED  BY <1>7, <1>8, <1>9 DEF ShardsInv

\* So does every step of the planner's runs.
LEMMA ShardsInvKept == ShardsInv /\ [PlannerNext]_plannerVars => ShardsInv'
<1> SUFFICES ASSUME ShardsInv, [PlannerNext]_plannerVars PROVE ShardsInv'
  OBVIOUS
<1>1. CreationInv'
  BY CreationInvKept DEF ShardsInv
<1>2. TypeOK /\ exists \subseteq known /\ cursor \in Nat /\ plan \in Seq(PlanSteps)
  BY DEF ShardsInv, CreationInv, PlannerInv, IInv, StopsAtVerify
<1>3. CASE BuildPlan
  <2>1. /\ UNCHANGED <<exists, known, observedOwner, spec>> /\ cursor' = 1
    BY <1>3 DEF BuildPlan, vars, podVars, planVars, requestVars
  <2>2. KeepsTheNumber' <=> KeepsTheNumber
    BY <2>1 DEF KeepsTheNumber, Owners
  <2>3. KeepsTheNumber => (OwnersStay \/ \E olds, groups : ShardsReplaced(olds, groups))'
    BY <1>3, BuildShards
  <2> QED  BY <1>1, <1>2, <2>1, <2>2, <2>3 DEF ShardsInv
<1>4. CASE SimulateStep
  <2>1. /\ UNCHANGED <<observedOwner, spec>> /\ cursor' = cursor + 1 /\ Perform(plan[cursor])
    BY <1>4 DEF SimulateStep, planVars, requestVars
  <2>2. KeepsTheNumber' <=> KeepsTheNumber
    BY <2>1 DEF KeepsTheNumber, Owners
  <2>3. KeepsTheNumber => (OwnersStay \/ \E olds, groups : ShardsReplaced(olds, groups))'
    BY <1>4, StepKeepsShards
  <2>4. exists' \subseteq known' /\ cursor' # 0
    BY <1>2, <2>1, PerformRoles
  <2> QED  BY <1>1, <2>2, <2>3, <2>4 DEF ShardsInv
<1>5. CASE AcceptPlan \/ UNCHANGED plannerVars
  <2>1. UNCHANGED <<exists, known, ready, clusterMember, role, replicaOf, slots, observedOwner,
                    spec, nextPodOrdinal, plan, cursor>>
    BY <1>5 DEF AcceptPlan, VerifyCluster, plannerVars, vars, podVars, memberVars, roleVars,
                slotVars, planVars, requestVars
  <2>2. KeepsTheNumber' <=> KeepsTheNumber
    BY <2>1 DEF KeepsTheNumber, Owners
  <2>3. OwnersObserved => OwnersObserved'
    BY <2>1 DEF OwnersObserved, MasterSet, Owners, ReplicasOf, ReadyMaster, ReadyMembers,
                OwnsSlots, NewPods
  <2>4. OwnersStay => OwnersStay'
    BY <2>1 DEF OwnersStay, Owners, ReplicasFollow
  <2>5. ASSUME NEW olds, NEW groups, ShardsReplaced(olds, groups)
        PROVE  ShardsReplaced(olds, groups)'
    BY <2>1, <2>5 DEF ShardsReplaced, ReplacesOneByOne, FollowsInOrder, NamesItsPods, NewPods,
                      GroupMaster, GroupSize, HasBefore, DeletedStayAway, FollowsOldOrNew,
                      GoneBefore
  <2>6. \/ cursor = 0 /\ (KeepsTheNumber => OwnersObserved)
        \/ cursor # 0 /\ (KeepsTheNumber => OwnersStay \/ \E olds, groups : ShardsReplaced(olds, groups))
    BY DEF ShardsInv
  <2> QED  BY <1>1, <1>2, <2>1, <2>2, <2>3, <2>4, <2>5, <2>6 DEF ShardsInv
<1> QED  BY <1>3, <1>4, <1>5 DEF PlannerNext

Replicated == {k \in exists : ReplicasOf(k) # {}}

\* The replicated nodes are old masters from the m-th on and new ones up to it.
LEMMA OneShardTwice ==
  ASSUME TypeOK, RequestTypes, NEW olds, NEW groups, ShardsReplaced(olds, groups)
  PROVE  Cardinality(Replicated) <= spec.shards + 1
<1>1. PICK n \in Nat \ {0} : n = spec.shards
  BY PlannerAssumption DEF RequestTypes
<1> DEFINE A == {i \in 1..n : GoneBefore(groups, i)}
<1>2. PICK m \in A : \A i \in A : i <= m
  <2>1. 1 \in A
    BY DEF GoneBefore
  <2>2. IsFiniteSet(A) /\ A \subseteq Int
    <3>1. IsFiniteSet(1..n)
      BY FS_Interval
    <3> QED  BY <3>1, FS_Subset
  <2> HIDE DEF A
  <2> QED  BY <2>1, <2>2, GreatestExists
<1>3. m \in 1..n /\ \A h \in 1..m - 1 : groups[h] \cap exists = {}
  BY <1>2 DEF GoneBefore
<1> DEFINE place == [x \in 1..n + 1 |-> IF x <= m THEN GroupMaster(nextPodOrdinal, x) ELSE olds[x - 1]]
           T == {place[x] : x \in 1..n + 1}
<1>4. ASSUME NEW k \in Replicated PROVE k \in T
  <2>1. PICK r \in exists : role[r] = "replica" /\ replicaOf[r] = k
    BY DEF Replicated, ReplicasOf
  <2>2. r \in Keys
    BY DEF TypeOK
  <2>3. PICK i \in 1..n : \/ k = olds[i] /\ r \in groups[i]
                          \/ k = GroupMaster(nextPodOrdinal, i) /\ GoneBefore(groups, i)
    BY <1>1, <2>1, <2>2 DEF ShardsReplaced, FollowsOldOrNew
  <2>4. CASE k = olds[i] /\ r \in groups[i]
    <3>1. ~(i \in 1..m - 1)
      BY <1>3, <2>1, <2>4
    <3>2. i + 1 \in 1..n + 1 /\ ~(i + 1 <= m) /\ (i + 1) - 1 = i
      BY <1>3, <3>1
    <3>3. place[i + 1] = k
      BY <2>4, <3>2
    <3> QED  BY <3>2, <3>3
  <2>5. CASE k = GroupMaster(nextPodOrdinal, i) /\ GoneBefore(groups, i)
    <3>1. i \in 1..n + 1 /\ i <= m
      BY <1>2, <2>5
    <3>2. place[i] = k
      BY <2>5, <3>1
    <3> QED  BY <3>1, <3>2
  <2> QED  BY <2>3, <2>4, <2>5
<1>5. place \in Surjection(1..n + 1, T)
  BY DEF Surjection
<1> HIDE DEF place, T, A
<1>6. IsFiniteSet(1..n + 1) /\ Cardinality(1..n + 1) = n + 1
  BY FS_Interval
<1>7. IsFiniteSet(T) /\ Cardinality(T) <= n + 1
  BY <1>5, <1>6, FS_Surjection
<1>8. Cardinality(Replicated) <= Cardinality(T) /\ Cardinality(Replicated) \in Nat
  <2>1. Replicated \in SUBSET T
    BY <1>4
  <2> QED  BY <1>7, <2>1, FS_Subset, FS_CardinalityType
<1>9. Cardinality(T) \in Nat
  BY <1>7, FS_CardinalityType
<1> QED  BY <1>1, <1>7, <1>8, <1>9

\* The invariant says so, before a plan is built and while it runs.
LEMMA ShardsInvBounds == ShardsInv => OneShardReplacedAtATime
<1> SUFFICES ASSUME ShardsInv, KeepsTheNumber
             PROVE  Cardinality(Replicated) <= spec.shards + 1
  BY DEF OneShardReplacedAtATime, KeepsTheNumber, Owners, Replicated
<1>1. TypeOK /\ RequestTypes
  BY DEF ShardsInv, CreationInv, PlannerInv, IInv
<1>2. ASSUME ReplicasFollow(Owners) PROVE Cardinality(Replicated) <= spec.shards + 1
  <2>1. Replicated \in SUBSET Owners
    <3>1. ASSUME NEW k \in Replicated PROVE k \in Owners
      <4>1. PICK r \in exists : role[r] = "replica" /\ replicaOf[r] = k
        BY DEF Replicated, ReplicasOf
      <4>2. r \in Keys
        BY <1>1 DEF TypeOK
      <4> QED  BY <1>2, <4>1, <4>2 DEF ReplicasFollow
    <3> QED  BY <3>1
  <2>2. IsFiniteSet(Owners)
    <3>1. Owners \in SUBSET Keys
      <4>1. \A s \in Slots : observedOwner[s] \in Keys \cup {NoKey}
        BY <1>1 DEF TypeOK
      <4> QED  BY <4>1 DEF Owners
    <3> QED  BY <3>1, KeysAssumption, FS_Subset
  <2>3. /\ Cardinality(Replicated) <= Cardinality(Owners)
        /\ Cardinality(Replicated) \in Nat /\ Cardinality(Owners) \in Nat
    BY <2>1, <2>2, FS_Subset, FS_CardinalityType
  <2> QED  BY <2>3 DEF KeepsTheNumber
<1>3. CASE cursor = 0
  <2>1. ReplicasFollow(Owners)
    BY <1>3 DEF ShardsInv, OwnersObserved, ReplicasFollow
  <2> QED  BY <1>2, <2>1
<1>4. CASE OwnersStay
  BY <1>2, <1>4 DEF OwnersStay
<1>5. CASE \E olds, groups : ShardsReplaced(olds, groups)
  BY <1>1, <1>5, OneShardTwice
<1> QED  BY <1>3, <1>4, <1>5 DEF ShardsInv

IntactPlannerSpec ==
    /\ PlannerInit /\ (known = {} \/ Intact)
    /\ [][PlannerNext]_plannerVars

\* From an intact cluster, or none, of any size: while the planner's plan keeps the
\* number of shards, the replicated masters are at no step more than one above it,
\* so an image change needs room for one more group of pods.
THEOREM ShardsReplacedOneByOne == IntactPlannerSpec => []OneShardReplacedAtATime
BY InitShardsInv, ShardsInvKept, ShardsInvBounds, PTL DEF IntactPlannerSpec

-----------------------------------------------------------------------------
(***************************************************************************)
(* No step of a plan takes a replica that is not to spare.                 *)
(***************************************************************************)
\* A step of B makes r a replica of m.
Following(B, m, r) ==
    \E e \in B : e.action = "ReplicateNode" /\ e.master = m /\ e.replica = r

\* The steps of B take every slot that m was observed with.
Drained(B, m) ==
    \A s \in Slots : observedOwner[s] = m =>
        \E e \in B : e.action = "MigrateSlots" /\ e.source = m /\ s \in e.slots

\* What a plan starts from and does: f.reps are the observed replicas of each node,
\* f.gone the nodes that it may forget, f.fixed nodes that it gives no slots, f.fresh
\* the pods that it may make replicas, and f.home the master that each of them gets.
\* After the steps of B, k has the replicas that the spec asks for, and keeps them.
Backed(f, B, k) ==
    \E R : /\ IsFiniteSet(R) /\ Cardinality(R) = spec.replicas
           /\ \A r \in R : r \notin f.gone /\ (r \in f.reps[k] \/ Following(B, k, r))

\* The step e may come after the steps of B.
Fits(f, e, B) ==
    /\ e.action = "ReplicateNode" => e.replica \in f.fresh /\ e.master = f.home[e.replica]
    /\ e.action = "WaitNodeReady" => e.pod \in f.fresh
    /\ \A s, k : Gives(e, s, k) => k \notin f.fixed /\ Backed(f, B, k)
    /\ e.action = "ForgetNode" =>
         /\ e.key \in f.gone
         /\ \A m \in Keys : e.key \in f.reps[m] =>
              Backed(f, B, m) \/ (m \in f.fixed /\ Drained(B, m))

\* The steps of B are some that may come at some time.
MayCome(f, B) == \A e \in B : \E C : Fits(f, e, C)

Earlier(list, j) == {list[g] : g \in 1..j - 1}

StepsOf(list) == {list[g] : g \in 1..Len(list)}

\* The lists whose steps may come one after the other after those of B.
FitLists(f, B) ==
    {list \in Seq(PlanSteps) :
        \A j \in 1..Len(list) : Fits(f, list[j], B \cup Earlier(list, j))}

\* A step may come later.
LEMMA FitsLater ==
  ASSUME NEW f, NEW e, NEW B, NEW C, B \subseteq C, Fits(f, e, B)
  PROVE  Fits(f, e, C)
<1>1. \A m, r : Following(B, m, r) => Following(C, m, r)
  BY DEF Following
<1>2. \A k : Backed(f, B, k) => Backed(f, C, k)
  BY <1>1 DEF Backed
<1>3. \A m : Drained(B, m) => Drained(C, m)
  BY DEF Drained
<1> QED  BY <1>2, <1>3 DEF Fits

\* So may a list.
LEMMA ListsLater ==
  ASSUME NEW f, NEW B, NEW C, B \subseteq C
  PROVE  FitLists(f, B) \subseteq FitLists(f, C)
<1> SUFFICES ASSUME NEW list \in FitLists(f, B), NEW j \in 1..Len(list)
             PROVE  Fits(f, list[j], C \cup Earlier(list, j))
  BY DEF FitLists
<1>1. Fits(f, list[j], B \cup Earlier(list, j))
  BY DEF FitLists
<1>2. B \cup Earlier(list, j) \subseteq C \cup Earlier(list, j)
  OBVIOUS
<1> QED  BY <1>1, <1>2, FitsLater

\* A list of steps each of which may come now.
LEMMA FitEach ==
  ASSUME NEW f, NEW B, NEW S, S \subseteq PlanSteps, \A e \in S : Fits(f, e, B),
         NEW list \in Seq(S)
  PROVE  list \in FitLists(f, B)
<1>1. list \in Seq(PlanSteps)
  BY SeqMonotonic
<1>2. ASSUME NEW j \in 1..Len(list) PROVE Fits(f, list[j], B \cup Earlier(list, j))
  <2>1. Fits(f, list[j], B)
    BY ElementOfSeq
  <2>2. B \subseteq B \cup Earlier(list, j)
    OBVIOUS
  <2> QED  BY <2>1, <2>2, FitsLater
<1> QED  BY <1>1, <1>2 DEF FitLists

\* One list after another.
LEMMA FitConcat ==
  ASSUME NEW f, NEW B, NEW a \in FitLists(f, B), NEW b \in FitLists(f, B \cup StepsOf(a))
  PROVE  /\ a \o b \in FitLists(f, B)
         /\ StepsOf(a \o b) = StepsOf(a) \cup StepsOf(b)
<1>1. a \in Seq(PlanSteps) /\ b \in Seq(PlanSteps)
  BY DEF FitLists
<1>2. PICK m \in Nat, n \in Nat : m = Len(a) /\ n = Len(b)
  BY <1>1, LenProperties
<1>3. PICK c : c = a \o b
  OBVIOUS
<1>4. /\ c \in Seq(PlanSteps) /\ Len(c) = m + n
      /\ \A i \in 1..m + n : c[i] = IF i <= m THEN a[i] ELSE b[i - m]
  BY <1>1, <1>2, <1>3, ConcatProperties
<1>5. \A i \in 1..m : i \in 1..m + n /\ c[i] = a[i]
  BY <1>4
<1>6. \A i \in 1..n : m + i \in 1..m + n /\ c[m + i] = b[i]
  <2> SUFFICES ASSUME NEW i \in 1..n PROVE m + i \in 1..m + n /\ c[m + i] = b[i]
    OBVIOUS
  <2>1. m + i \in 1..m + n /\ ~(m + i <= m) /\ (m + i) - m = i
    OBVIOUS
  <2> QED  BY <1>4, <2>1
<1>7. ASSUME NEW j \in 1..m + n PROVE j \in 1..m \/ \E i \in 1..n : j = m + i
  <2>1. CASE j <= m
    BY <2>1
  <2>2. CASE ~(j <= m)
    <3>1. j - m \in 1..n /\ j = m + (j - m)
      BY <2>2
    <3> QED  BY <3>1
  <2> QED  BY <2>1, <2>2
<1>8. ASSUME NEW j \in 1..m + n PROVE Fits(f, c[j], B \cup Earlier(c, j))
  <2>1. CASE j \in 1..m
    <3>1. Fits(f, a[j], B \cup Earlier(a, j))
      BY <1>2, <2>1 DEF FitLists
    <3>2. B \cup Earlier(a, j) \subseteq B \cup Earlier(c, j)
      <4>1. \A g \in 1..j - 1 : a[g] = c[g]
        BY <1>5, <2>1
      <4> QED  BY <4>1 DEF Earlier
    <3> QED  BY <1>5, <2>1, <3>1, <3>2, FitsLater
  <2>2. CASE \E i \in 1..n : j = m + i
    <3>1. PICK i \in 1..n : j = m + i
      BY <2>2
    <3>2. Fits(f, b[i], (B \cup StepsOf(a)) \cup Earlier(b, i))
      BY <1>2 DEF FitLists
    <3>3. \A g \in 1..m : g \in 1..j - 1 /\ a[g] = c[g]
      BY <1>5, <3>1
    <3>4. \A g \in 1..i - 1 : m + g \in 1..j - 1 /\ b[g] = c[m + g]
      BY <1>6, <3>1
    <3>5. (B \cup StepsOf(a)) \cup Earlier(b, i) \subseteq B \cup Earlier(c, j)
      BY <1>2, <3>3, <3>4 DEF Earlier, StepsOf
    <3> QED  BY <1>6, <3>1, <3>2, <3>5, FitsLater
  <2> QED  BY <1>7, <2>1, <2>2
<1>9. StepsOf(c) = StepsOf(a) \cup StepsOf(b)
  <2>1. ASSUME NEW e \in StepsOf(c) PROVE e \in StepsOf(a) \cup StepsOf(b)
    <3>1. PICK j \in 1..m + n : c[j] = e
      BY <1>4 DEF StepsOf
    <3>2. CASE j \in 1..m
      <4>1. e = a[j]
        BY <1>5, <3>1, <3>2
      <4> QED  BY <1>2, <3>2, <4>1 DEF StepsOf
    <3>3. CASE \E i \in 1..n : j = m + i
      <4>1. PICK i \in 1..n : e = b[i]
        BY <1>6, <3>1, <3>3
      <4> QED  BY <1>2, <4>1 DEF StepsOf
    <3> QED  BY <1>7, <3>2, <3>3
  <2>2. \A j \in 1..m : a[j] \in StepsOf(c)
    BY <1>4, <1>5 DEF StepsOf
  <2>3. \A j \in 1..n : b[j] \in StepsOf(c)
    BY <1>4, <1>6 DEF StepsOf
  <2>4. StepsOf(a) \subseteq StepsOf(c) /\ StepsOf(b) \subseteq StepsOf(c)
    BY <1>2, <2>2, <2>3 DEF StepsOf
  <2>5. StepsOf(c) \subseteq StepsOf(a) \cup StepsOf(b)
    BY <2>1
  <2> QED  BY <2>4, <2>5
<1> QED  BY <1>3, <1>4, <1>8, <1>9 DEF FitLists

\* Any number of lists, each of which needs none of the others.
LEMMA FitJoined ==
  ASSUME NEW f, NEW B, NEW count \in Nat, NEW parts,
         \A i \in 1..count : parts[i] \in FitLists(f, B)
  PROVE  Joined(count, parts) \in FitLists(f, B)
<1>1. PICK joined :
        /\ joined = [n \in 0..count |-> IF n = 0 THEN <<>> ELSE joined[n - 1] \o parts[n]]
        /\ Joined(count, parts) = joined[count]
  BY JoinedUnrolls
<1> DEFINE T == {n \in Nat : n <= count => joined[n] \in FitLists(f, B)}
<1>2. 0 \in T
  <2>1. joined[0] = <<>>
    BY <1>1
  <2>2. <<>> \in FitLists(f, B)
    <3>1. \A j \in 1..Len(<<>>) : FALSE
      BY EmptySeq
    <3> QED  BY <3>1, EmptySeq DEF FitLists
  <2> QED  BY <2>1, <2>2
<1>3. ASSUME NEW n \in Nat, n \in T PROVE n + 1 \in T
  <2>1. SUFFICES ASSUME n + 1 <= count PROVE joined[n + 1] \in FitLists(f, B)
    OBVIOUS
  <2>2. PICK a, b : a = joined[n] /\ b = parts[n + 1]
    OBVIOUS
  <2>3. a \in FitLists(f, B) /\ b \in FitLists(f, B)
    BY <1>3, <2>1, <2>2
  <2>4. b \in FitLists(f, B \cup StepsOf(a))
    BY <2>3, ListsLater
  <2>5. joined[n + 1] = a \o b
    <3>1. n + 1 \in 0..count /\ n + 1 # 0 /\ (n + 1) - 1 = n
      BY <2>1
    <3> QED  BY <1>1, <2>2, <3>1
  <2> QED  BY <2>3, <2>4, <2>5, FitConcat
<1>4. count \in T
  <2> HIDE DEF T
  <2> QED  BY <1>2, <1>3, NaturalInduction
<1> QED  BY <1>1, <1>4

\* A builder's steps with the final VerifyCluster.
LEMMA FitVerified ==
  ASSUME NEW f, NEW steps \in FitLists(f, {})
  PROVE  Verified(steps) \in FitLists(f, {})
<1>1. CASE steps = <<>>
  BY <1>1 DEF Verified
<1>2. CASE steps # <<>>
  <2>1. Verified(steps) = steps \o <<VerifySpec>>
    <3>1. steps \in Seq(PlanSteps) /\ VerifySpec \in PlanSteps
      BY DEF FitLists, PlanSteps, ChangePlanSteps, VerifySteps, VerifySpec
    <3> QED  BY <1>2, <3>1, AppendIsConcat DEF Verified
  <2>2. Fits(f, VerifySpec, {})
    BY DEF Fits, VerifySpec, Gives
  <2>3. <<VerifySpec>> \in Seq({VerifySpec}) /\ {VerifySpec} \subseteq PlanSteps
    BY DEF PlanSteps, ChangePlanSteps, VerifySteps, VerifySpec
  <2>4. <<VerifySpec>> \in FitLists(f, {} \cup StepsOf(steps))
    <3>1. <<VerifySpec>> \in FitLists(f, {})
      BY <2>2, <2>3, FitEach
    <3>2. {} \subseteq {} \cup StepsOf(steps)
      OBVIOUS
    <3> QED  BY <3>1, <3>2, ListsLater
  <2> QED  BY <2>1, <2>4, FitConcat
<1> QED  BY <1>1, <1>2

\* The steps that were simulated.
Passed == Earlier(plan, cursor)

\* An observed or made replica that is never to go is one of its master's now.
ReplicasStay(f) ==
    \A m \in Keys : \A r :
        r \notin f.gone /\ (r \in f.reps[m] \/ Following(Passed, m, r)) => r \in ReplicasOf(m)

\* There are no others.
ReplicasKnown(f) ==
    \A m, r \in Keys :
        /\ role[r] = "replica" /\ replicaOf[r] = m
        /\ r \in ready \/ r \in f.fresh \cap Pods
        => r \in f.reps[m] \/ Following(Passed, m, r)

\* What the fixed nodes still own was observed of them, and no step took it.
FixedLose(f) ==
    \A m \in f.fixed : \A s \in Slots : slotOwners[s] = m =>
        /\ observedOwner[s] = m
        /\ ~\E e \in Passed : e.action = "MigrateSlots" /\ e.source = m /\ s \in e.slots

Guarded(f) ==
    /\ plan \in FitLists(f, {})
    /\ \A m \in Keys : f.reps[m] \cap f.fresh = {}
    /\ f.gone \cap f.fresh \cap Pods = {}
    /\ ReplicasStay(f)
    /\ FixedLose(f)
    /\ Creates \/ ReplicasKnown(f)

\* Of the observation: only members are ready, and no pod has the ordinal of a new one.
OnlyMembersReady ==
    /\ ready \subseteq clusterMember /\ clusterMember \subseteq known
    /\ known \cap Pods \cap NewPods = {}
    /\ \A r \in Keys : role[r] = "replica" => r \in known

RedundancyInv ==
    /\ AllocationInv
    /\ exists \subseteq known
    /\ cursor = 0 => OnlyMembersReady
    /\ cursor # 0 => \E f : Guarded(f)

\* A node loses a replica when that is forgotten, or becomes another's.
LEMMA ReplicasLost ==
  ASSUME TypeOK, exists \subseteq known, ready \subseteq exists, NEW step, Perform(step),
         NEW m, NEW r \in ReplicasOf(m), r \notin ReplicasOf(m)'
  PROVE  \/ step.action = "ForgetNode" /\ step.key = r /\ slots' = slots
         \/ step.action = "ReplicateNode" /\ step.replica = r /\ step.master # m
<1> USE DEF podVars, memberVars, roleVars, slotVars
<1>1. r \in exists /\ r \in ready /\ r \in clusterMember /\ role[r] = "replica" /\ replicaOf[r] = m
  BY DEF ReplicasOf, ReadyMembers
<1>2. ~(r \in exists' /\ r \in ready' /\ r \in clusterMember' /\ role'[r] = "replica" /\ replicaOf'[r] = m)
  BY DEF ReplicasOf, ReadyMembers
<1>3. r \in known /\ r \in Keys
  BY <1>1 DEF TypeOK
<1>4. DOMAIN role = Keys /\ DOMAIN replicaOf = Keys
  BY DEF TypeOK
<1>5. CASE step.action = "EnsureNode" /\ EnsureNode(step.pod)
  BY <1>1, <1>2, <1>5 DEF EnsureNode
<1>6. CASE step.action = "WaitNodeReady" /\ WaitNodeReady(step.pod)
  BY <1>1, <1>2, <1>6 DEF WaitNodeReady
<1>7. CASE step.action = "MeetNode" /\ MeetNode(step.source, step.target)
  BY <1>1, <1>2, <1>3, <1>7 DEF MeetNode
<1>8. CASE step.action = "ReplicateNode" /\ ReplicateNode(step.master, step.replica)
  <2>1. PICK p, q : p = step.master /\ q = step.replica
    OBVIOUS
  <2>2. /\ role' = [role EXCEPT ![p] = "master", ![q] = "replica"]
        /\ replicaOf' = [replicaOf EXCEPT ![q] = p]
        /\ UNCHANGED <<exists, ready, clusterMember>>
        /\ role[p] # "replica"
    BY <1>8, <2>1 DEF ReplicateNode
  <2>3. r # p
    BY <1>1, <2>2
  <2>4. q = r /\ p # m
    BY <1>1, <1>2, <1>3, <1>4, <2>2, <2>3
  <2> QED  BY <1>8, <2>1, <2>4
<1>9. CASE step.action = "AddSlots" /\ AddSlots(step.pod, step.slots)
  BY <1>1, <1>2, <1>9 DEF AddSlots, Assign
<1>10. CASE step.action = "MigrateSlots" /\ MigrateSlots(step.source, step.target, step.slots)
  BY <1>1, <1>2, <1>10 DEF MigrateSlots, Transfer
<1>11. CASE step.action = "ForgetNode" /\ ForgetNode(step.key, step.pod)
  BY <1>1, <1>2, <1>11 DEF ForgetNode, Forget
<1>12. CASE step.action = "DeleteNode" /\ DeleteNode(step.pod)
  BY <1>1, <1>2, <1>3, <1>12 DEF DeleteNode
<1> QED  BY <1>5, <1>6, <1>7, <1>8, <1>9, <1>10, <1>11, <1>12 DEF Perform

\* A ReplicateNode step makes a replica.
LEMMA ReplicaMade ==
  ASSUME TypeOK, ready \subseteq exists, NEW step, Perform(step), step.action = "ReplicateNode"
  PROVE  step.replica \in ReplicasOf(step.master)'
<1>1. PICK p, q : p = step.master /\ q = step.replica
  OBVIOUS
<1>2. ReplicateNode(p, q)
  BY <1>1 DEF Perform
<1>3. /\ role' = [role EXCEPT ![p] = "master", ![q] = "replica"]
      /\ replicaOf' = [replicaOf EXCEPT ![q] = p]
      /\ UNCHANGED <<exists, ready, clusterMember>>
      /\ q \in ready /\ q \in clusterMember
  BY <1>2 DEF ReplicateNode, ReadyMembers, podVars, memberVars
<1>4. q \in Keys /\ q \in exists
  BY <1>3 DEF TypeOK
<1>5. role'[q] = "replica" /\ replicaOf'[q] = p
  BY <1>3, <1>4 DEF TypeOK
<1> QED  BY <1>1, <1>3, <1>4, <1>5 DEF ReplicasOf, ReadyMembers

\* Only a WaitNodeReady step makes a pod ready.
LEMMA ReadyMade ==
  ASSUME NEW step, Perform(step), NEW p \in ready', p \notin ready
  PROVE  step.action = "WaitNodeReady" /\ p = step.pod /\ p \in exists
BY DEF Perform, EnsureNode, WaitNodeReady, MeetNode, ReplicateNode, AddSlots, Assign,
       MigrateSlots, Transfer, ForgetNode, Forget, DeleteNode

\* What a simulated step of a guarded plan may be.
LEMMA GuardedStep ==
  ASSUME RedundancyInv, SimulateStep, NEW f, Guarded(f), NEW step, step = plan[cursor]
  PROVE  /\ TypeOK /\ TypeOK' /\ OwnerIndexExact /\ OwnerIndexExact'
         /\ PodsExist /\ exists \subseteq known /\ ready \subseteq exists
         /\ Perform(step) /\ step \in PlanSteps
         /\ UNCHANGED <<plan, observedOwner, spec, nextPodOrdinal>>
         /\ Fits(f, step, Passed)
         /\ Passed' = Passed \cup {step}
         /\ MayCome(f, Passed)
         /\ cursor # 0 /\ cursor' = cursor + 1
<1>1. PlannerInv /\ PlannerInv' /\ exists \subseteq known /\ cursor \in Nat
  <2>1. PlannerInv /\ cursor \in Nat /\ exists \subseteq known
    BY DEF RedundancyInv, AllocationInv, FinishInv, CreationInv, StopsAtVerify
  <2> QED  BY <2>1, PlannerInvKept DEF PlannerNext
<1>2. /\ TypeOK /\ TypeOK' /\ OwnerIndexExact /\ OwnerIndexExact'
      /\ PodsExist /\ ready \subseteq exists
  BY <1>1 DEF PlannerInv, IInv, NodesInv, ReadyHasPod
<1>3. /\ cursor \in DOMAIN plan /\ Perform(step) /\ cursor' = cursor + 1
      /\ UNCHANGED <<plan, observedOwner, spec, nextPodOrdinal>>
  BY DEF SimulateStep, planVars, requestVars
<1>4. plan \in Seq(PlanSteps) /\ DOMAIN plan = 1..Len(plan) /\ Len(plan) \in Nat
  BY <1>1, LenProperties DEF PlannerInv
<1>5. cursor \in 1..Len(plan) /\ step \in PlanSteps
  BY <1>3, <1>4, ElementOfSeq
<1>6. \A j \in 1..Len(plan) : Fits(f, plan[j], {} \cup Earlier(plan, j))
  BY DEF Guarded, FitLists
<1>7. Fits(f, step, Passed)
  <2>1. {} \cup Earlier(plan, cursor) = Passed
    BY DEF Passed
  <2> QED  BY <1>5, <1>6, <2>1
<1>8. Passed' = Passed \cup {step}
  <2>1. Passed' = {plan[g] : g \in 1..(cursor + 1) - 1}
    BY <1>3 DEF Passed, Earlier
  <2>2. 1..(cursor + 1) - 1 = (1..cursor - 1) \cup {cursor}
    BY <1>5
  <2> QED  BY <2>1, <2>2 DEF Passed, Earlier
<1>9. ASSUME NEW e \in Passed PROVE \E B : Fits(f, e, B)
  <2>1. PICK g \in 1..cursor - 1 : e = plan[g]
    BY DEF Passed, Earlier
  <2>2. g \in 1..Len(plan)
    BY <1>4, <1>5
  <2> QED  BY <1>6, <2>1, <2>2
<1>10. cursor # 0
  BY <1>5
<1> QED  BY <1>1, <1>2, <1>3, <1>5, <1>7, <1>8, <1>9, <1>10 DEF MayCome

\* A pod that a step of the plan made a replica has the master that the plan gives it.
LEMMA FollowsHome ==
  ASSUME NEW f, NEW B, MayCome(f, B), NEW m, NEW r, Following(B, m, r)
  PROVE  m = f.home[r] /\ r \in f.fresh
BY DEF MayCome, Following, Fits

\* It stays one.
LEMMA GuardedReplicasStay ==
  ASSUME RedundancyInv, SimulateStep, NEW f, Guarded(f)
  PROVE  ReplicasStay(f)'
<1>1. PICK step : step = plan[cursor]
  OBVIOUS
<1>2. /\ TypeOK /\ exists \subseteq known /\ ready \subseteq exists /\ Perform(step)
      /\ Fits(f, step, Passed) /\ Passed' = Passed \cup {step}
      /\ MayCome(f, Passed)
  BY <1>1, GuardedStep
<1>3. ASSUME NEW m \in Keys, NEW r, r \notin f.gone,
             r \in f.reps[m] \/ Following(Passed \cup {step}, m, r)
      PROVE  r \in ReplicasOf(m)'
  <2>1. CASE r \in f.reps[m] \/ Following(Passed, m, r)
    <3>1. r \in ReplicasOf(m)
      BY <1>3, <2>1 DEF Guarded, ReplicasStay
    <3>2. ~(step.action = "ForgetNode" /\ step.key = r)
      BY <1>2, <1>3 DEF Fits
    <3>3. ~(step.action = "ReplicateNode" /\ step.replica = r /\ step.master # m)
      <4> SUFFICES ASSUME step.action = "ReplicateNode", step.replica = r PROVE step.master = m
        OBVIOUS
      <4>1. r \in f.fresh /\ step.master = f.home[r]
        BY <1>2 DEF Fits
      <4>2. r \notin f.reps[m]
        BY <4>1 DEF Guarded
      <4>3. Following(Passed, m, r)
        BY <2>1, <4>2
      <4>4. m = f.home[r]
        BY <1>2, <4>3, FollowsHome
      <4> QED  BY <4>1, <4>4
    <3> QED  BY <1>2, <3>1, <3>2, <3>3, ReplicasLost
  <2>2. CASE ~(r \in f.reps[m] \/ Following(Passed, m, r))
    <3>1. step.action = "ReplicateNode" /\ step.master = m /\ step.replica = r
      BY <1>3, <2>2 DEF Following
    <3> QED  BY <1>2, <3>1, ReplicaMade
  <2> QED  BY <2>1, <2>2
<1> QED  BY <1>2, <1>3 DEF ReplicasStay

\* No other becomes one.
LEMMA GuardedReplicasKnown ==
  ASSUME RedundancyInv, SimulateStep, NEW f, Guarded(f), ReplicasKnown(f)
  PROVE  ReplicasKnown(f)'
<1>1. PICK step : step = plan[cursor]
  OBVIOUS
<1>2. /\ TypeOK /\ exists \subseteq known /\ Perform(step) /\ PodsExist
      /\ Fits(f, step, Passed) /\ Passed' = Passed \cup {step}
  BY <1>1, GuardedStep
<1>3. ASSUME NEW m \in Keys, NEW r \in Keys, role'[r] = "replica", replicaOf'[r] = m,
             r \in ready' \/ r \in f.fresh \cap Pods
      PROVE  r \in f.reps[m] \/ Following(Passed', m, r)
  <2>1. \/ role[r] = "replica" /\ replicaOf'[r] = replicaOf[r]
        \/ step.action = "ReplicateNode" /\ r = step.replica /\ replicaOf'[r] = step.master
    BY <1>2, <1>3, PerformRoles
  <2>2. CASE role[r] = "replica" /\ replicaOf'[r] = replicaOf[r]
    <3>1. r \in ready \/ r \in f.fresh \cap Pods
      <4>1. CASE r \in ready' /\ r \notin ready
        <5>1. step.action = "WaitNodeReady" /\ r = step.pod /\ r \in exists
          BY <1>2, <4>1, ReadyMade
        <5> QED  BY <1>2, <5>1 DEF Fits, PodsExist
      <4> QED  BY <1>3, <4>1
    <3>2. r \in f.reps[m] \/ Following(Passed, m, r)
      BY <1>3, <2>2, <3>1 DEF ReplicasKnown
    <3> QED  BY <1>2, <3>2 DEF Following
  <2>3. CASE step.action = "ReplicateNode" /\ r = step.replica /\ replicaOf'[r] = step.master
    BY <1>2, <1>3, <2>3 DEF Following
  <2> QED  BY <2>1, <2>2, <2>3
<1> QED  BY <1>3 DEF ReplicasKnown

\* The fixed nodes get no slots.
LEMMA GuardedFixedLose ==
  ASSUME RedundancyInv, SimulateStep, NEW f, Guarded(f)
  PROVE  FixedLose(f)'
<1>1. PICK step : step = plan[cursor]
  OBVIOUS
<1>2. /\ TypeOK /\ Perform(step) /\ Fits(f, step, Passed) /\ Passed' = Passed \cup {step}
      /\ observedOwner' = observedOwner
  BY <1>1, GuardedStep
<1>3. ASSUME NEW m \in f.fixed, NEW s \in Slots, slotOwners'[s] = m
      PROVE  /\ observedOwner[s] = m
             /\ ~\E e \in Passed \cup {step} :
                  e.action = "MigrateSlots" /\ e.source = m /\ s \in e.slots
  <2>1. \A k : Gives(step, s, k) => k # m
    BY <1>2, <1>3 DEF Fits
  <2>2. \A k : ~Gives(step, s, k)
    BY <1>2, <1>3, <2>1, PerformGives
  <2>3. slotOwners[s] = m
    BY <1>2, <1>3, <2>2, PerformGives
  <2>4. ~(step.action = "MigrateSlots" /\ step.source = m /\ s \in step.slots)
    BY <2>2 DEF Gives
  <2>5. /\ observedOwner[s] = m
        /\ ~\E e \in Passed : e.action = "MigrateSlots" /\ e.source = m /\ s \in e.slots
    BY <1>3, <2>3 DEF Guarded, FixedLose
  <2> QED  BY <2>4, <2>5
<1> QED  BY <1>2, <1>3 DEF FixedLose

\* What is asked of a list does not change with the plan's run.
LEMMA FitListsKept ==
  ASSUME UNCHANGED <<observedOwner, spec>>, NEW f, NEW list \in FitLists(f, {})
  PROVE  (list \in FitLists(f, {}))'
<1>1. ASSUME NEW e, NEW B, Fits(f, e, B) PROVE Fits(f, e, B)'
  BY <1>1 DEF Fits, Backed, Drained, Gives, Following
<1>2. list \in Seq(PlanSteps) /\ \A j \in 1..Len(list) : Fits(f, list[j], {} \cup Earlier(list, j))
  BY DEF FitLists
<1>3. ASSUME NEW j \in 1..Len(list) PROVE Fits(f, list[j], {} \cup Earlier(list, j))'
  <2>1. PICK e, B : e = list[j] /\ B = {} \cup Earlier(list, j)
    OBVIOUS
  <2>2. Fits(f, e, B)
    BY <1>2, <2>1
  <2>3. Fits(f, e, B)'
    BY <1>1, <2>2
  <2> QED  BY <2>1, <2>3 DEF Earlier
<1> QED  BY <1>2, <1>3 DEF FitLists

\* Each step keeps all of it.
LEMMA GuardedKept ==
  ASSUME RedundancyInv, SimulateStep, NEW f, Guarded(f)
  PROVE  Guarded(f)'
<1>1. UNCHANGED <<plan, observedOwner, spec>>
  BY GuardedStep
<1>2. (plan \in FitLists(f, {}))'
  <2>1. PICK p : p = plan
    OBVIOUS
  <2>2. p \in FitLists(f, {})
    BY <2>1 DEF Guarded
  <2>3. (p \in FitLists(f, {}))'
    BY <1>1, <2>2, FitListsKept
  <2> QED  BY <1>1, <2>1, <2>3
<1>3. Creates' <=> Creates
  BY <1>1 DEF Creates
<1>4. (Creates \/ ReplicasKnown(f))'
  BY <1>3, GuardedReplicasKnown DEF Guarded
<1> QED  BY <1>2, <1>4, GuardedReplicasStay, GuardedFixedLose DEF Guarded

\* The nodes that have slots and have only a replica taken that is not the plan's to
\* take, or are given slots without their replicas.
KeepsRedundancy ==
    /\ \A m \in MasterSet :
         Creates \/ ~OwnsSlots(m)' \/ ReplicaCount(m)' >= ReplicaCount(m)
             \/ ReplicaCount(m)' >= spec.replicas
    /\ \A k \in Keys : slots'[k] \ slots[k] # {} => ReplicaCount(k) >= spec.replicas

\* A node that is backed has the replicas that the spec asks for.
LEMMA BackedHasReplicas ==
  ASSUME TypeOK, NEW f, ReplicasStay(f), NEW k \in Keys, Backed(f, Passed, k)
  PROVE  ReplicaCount(k) >= spec.replicas
<1>1. PICK R : /\ IsFiniteSet(R) /\ Cardinality(R) = spec.replicas
               /\ \A r \in R : r \notin f.gone /\ (r \in f.reps[k] \/ Following(Passed, k, r))
  BY DEF Backed
<1>2. R \subseteq ReplicasOf(k)
  BY <1>1 DEF ReplicasStay
<1>3. IsFiniteSet(ReplicasOf(k))
  BY KeysAssumption, FS_Subset DEF TypeOK, ReplicasOf
<1>4. Cardinality(R) \in Nat /\ Cardinality(ReplicasOf(k)) \in Nat
  BY <1>1, <1>3, FS_CardinalityType
<1>5. Cardinality(R) <= Cardinality(ReplicasOf(k))
  BY <1>2, <1>3, FS_Subset
<1> QED  BY <1>1, <1>4, <1>5 DEF ReplicaCount

\* A master with slots whose replica goes is backed.
LEMMA LosersAreBacked ==
  ASSUME RedundancyInv, SimulateStep, NEW f, Guarded(f), ~Creates,
         NEW m \in MasterSet, OwnsSlots(m)', NEW r \in ReplicasOf(m), r \notin ReplicasOf(m)'
  PROVE  Backed(f, Passed, m)
<1>1. PICK step : step = plan[cursor]
  OBVIOUS
<1>2. /\ TypeOK /\ PodsExist /\ exists \subseteq known /\ ready \subseteq exists /\ Perform(step)
      /\ OwnerIndexExact /\ Fits(f, step, Passed) /\ MayCome(f, Passed)
  BY <1>1, GuardedStep
<1>3. m \in Keys /\ r \in Keys
  BY <1>2 DEF TypeOK, MasterSet, ReplicasOf
<1>4. r \in ready /\ role[r] = "replica" /\ replicaOf[r] = m /\ r \in exists
  BY DEF ReplicasOf, ReadyMembers
<1>5. r \in f.reps[m] \/ Following(Passed, m, r)
  BY <1>3, <1>4 DEF Guarded, ReplicasKnown
<1>6. ~(step.action = "ReplicateNode" /\ step.replica = r /\ step.master # m)
  <2> SUFFICES ASSUME step.action = "ReplicateNode", step.replica = r PROVE step.master = m
    OBVIOUS
  <2>1. r \in f.fresh /\ step.master = f.home[r]
    BY <1>2 DEF Fits
  <2>2. r \notin f.reps[m]
    BY <1>3, <2>1 DEF Guarded
  <2>3. Following(Passed, m, r)
    BY <1>5, <2>2
  <2>4. m = f.home[r]
    BY <1>2, <2>3, FollowsHome
  <2> QED  BY <2>1, <2>4
<1>7. step.action = "ForgetNode" /\ step.key = r /\ slots' = slots
  <2>1. \/ step.action = "ForgetNode" /\ step.key = r /\ slots' = slots
        \/ step.action = "ReplicateNode" /\ step.replica = r /\ step.master # m
    BY <1>2, ReplicasLost
  <2> QED  BY <1>6, <2>1
<1>8. r \in f.gone /\ \A k \in Keys : r \in f.reps[k] =>
        Backed(f, Passed, k) \/ (k \in f.fixed /\ Drained(Passed, k))
  BY <1>2, <1>7 DEF Fits
<1>9. r \in f.reps[m]
  <2>1. ASSUME Following(Passed, m, r) PROVE FALSE
    <3>1. r \in f.fresh
      BY <1>2, <2>1, FollowsHome
    <3> QED  BY <1>2, <1>4, <1>8, <3>1 DEF Guarded, PodsExist
  <2> QED  BY <1>5, <2>1
<1>10. ~(m \in f.fixed /\ Drained(Passed, m))
  <2> SUFFICES ASSUME m \in f.fixed, Drained(Passed, m) PROVE FALSE
    OBVIOUS
  <2>1. PICK s \in Slots : s \in slots[m]
    BY <1>2, <1>3, <1>7 DEF OwnsSlots, TypeOK
  <2>2. slotOwners[s] = m
    BY <1>2, <1>3, <2>1 DEF OwnerIndexExact
  <2>3. /\ observedOwner[s] = m
        /\ ~\E e \in Passed : e.action = "MigrateSlots" /\ e.source = m /\ s \in e.slots
    BY <2>2 DEF Guarded, FixedLose
  <2> QED  BY <2>3 DEF Drained
<1> QED  BY <1>3, <1>8, <1>9, <1>10

\* What a step of a guarded plan does to the replicas of the slot owners.
LEMMA GuardedKeepsRedundancy ==
  ASSUME RedundancyInv, SimulateStep, NEW f, Guarded(f)
  PROVE  KeepsRedundancy
<1>1. PICK step : step = plan[cursor]
  OBVIOUS
<1>2. /\ TypeOK /\ TypeOK' /\ OwnerIndexExact /\ OwnerIndexExact' /\ Perform(step)
      /\ spec' = spec /\ Fits(f, step, Passed) /\ Passed' = Passed \cup {step}
  BY <1>1, GuardedStep
<1>3. ASSUME NEW m \in MasterSet, ~Creates, OwnsSlots(m)'
      PROVE  ReplicaCount(m)' >= ReplicaCount(m) \/ ReplicaCount(m)' >= spec.replicas
  <2>1. m \in Keys
    BY <1>2 DEF TypeOK, MasterSet
  <2>2. IsFiniteSet(ReplicasOf(m)')
    BY <1>2, KeysAssumption, FS_Subset DEF TypeOK, ReplicasOf
  <2>3. CASE ReplicasOf(m) \subseteq ReplicasOf(m)'
    <3>1. IsFiniteSet(ReplicasOf(m)) /\ Cardinality(ReplicasOf(m)) <= Cardinality(ReplicasOf(m)')
      BY <2>2, <2>3, FS_Subset
    <3>2. Cardinality(ReplicasOf(m)) \in Nat /\ Cardinality(ReplicasOf(m)') \in Nat
      BY <2>2, <3>1, FS_CardinalityType
    <3> QED  BY <3>1, <3>2 DEF ReplicaCount
  <2>4. CASE ~(ReplicasOf(m) \subseteq ReplicasOf(m)')
    <3>1. Backed(f, Passed, m)
      BY <1>3, <2>4, LosersAreBacked
    <3>2. PICK R : /\ IsFiniteSet(R) /\ Cardinality(R) = spec.replicas
                   /\ \A r \in R : r \notin f.gone /\ (r \in f.reps[m] \/ Following(Passed, m, r))
      BY <3>1 DEF Backed
    <3>3. \A r : Following(Passed, m, r) => Following(Passed', m, r)
      BY <1>2 DEF Following
    <3>4. ReplicasStay(f)'
      BY GuardedReplicasStay
    <3>5. \A r \in R : r \in ReplicasOf(m)'
      BY <2>1, <3>2, <3>3, <3>4 DEF ReplicasStay
    <3>6. Cardinality(R) <= Cardinality(ReplicasOf(m)')
      BY <2>2, <3>5, FS_Subset
    <3>7. Cardinality(R) \in Nat /\ Cardinality(ReplicasOf(m)') \in Nat
      BY <2>2, <3>2, FS_CardinalityType
    <3> QED  BY <3>2, <3>6, <3>7 DEF ReplicaCount
  <2> QED  BY <2>3, <2>4
<1>4. ASSUME NEW k \in Keys, slots'[k] \ slots[k] # {} PROVE ReplicaCount(k) >= spec.replicas
  <2>1. PICK s \in Slots : s \in slots'[k] /\ s \notin slots[k]
    BY <1>2, <1>4 DEF TypeOK
  <2>2. slotOwners'[s] = k /\ slotOwners[s] # k
    BY <1>2, <2>1 DEF OwnerIndexExact
  <2>3. \E g : Gives(step, s, g)
    BY <1>2, <2>2, PerformGives
  <2>4. Gives(step, s, k)
    BY <1>2, <2>2, <2>3, PerformGives
  <2>5. Backed(f, Passed, k)
    BY <1>2, <2>4 DEF Fits
  <2>6. ReplicasStay(f)
    BY DEF Guarded
  <2> QED  BY <1>2, <2>5, <2>6, BackedHasReplicas
<1> QED  BY <1>3, <1>4 DEF KeepsRedundancy

\* The steps that may come at any time.
FreeSteps(f) == {e \in PlanSteps : Fits(f, e, {})}

\* They make nodes ready and members, and give a new replica its master.
LEMMA FreeKinds ==
  ASSUME NEW f
  PROVE  /\ EnsureSteps(f.fresh) \subseteq FreeSteps(f)
         /\ MeetSteps \subseteq FreeSteps(f)
         /\ \A r \in Names, m \in Names :
              r \in f.fresh /\ m = f.home[r] => Replicate(m, r) \in FreeSteps(f)
         /\ FreeSteps(f) \subseteq PlanSteps
<1>1. MakingSteps \subseteq PlanSteps
  BY DEF PlanSteps, ChangePlanSteps, ChangingSteps
<1>2. ASSUME NEW e \in EnsureSteps(f.fresh) PROVE e \in FreeSteps(f)
  <2>1. e \in PlanSteps
    BY <1>1, KindsAreSteps
  <2>2. e.action \in {"EnsureNode", "WaitNodeReady"} /\ e.pod \in f.fresh
    BY DEF EnsureSteps
  <2> QED  BY <2>1, <2>2 DEF FreeSteps, Fits, Gives
<1>3. ASSUME NEW e \in MeetSteps PROVE e \in FreeSteps(f)
  <2>1. e \in PlanSteps
    BY <1>1 DEF MakingSteps
  <2>2. e.action = "MeetNode"
    BY DEF MeetSteps
  <2> QED  BY <2>1, <2>2 DEF FreeSteps, Fits, Gives
<1>4. ASSUME NEW r \in Names, NEW m \in Names, r \in f.fresh, m = f.home[r]
      PROVE  Replicate(m, r) \in FreeSteps(f)
  <2>1. PICK e : e = Replicate(m, r)
    OBVIOUS
  <2>2. e \in MakingSteps
    BY <2>1, StepTypes
  <2>3. e.action = "ReplicateNode" /\ e.master = m /\ e.replica = r
    BY <2>1 DEF Replicate
  <2>4. Fits(f, e, {})
    BY <1>4, <2>3 DEF Fits, Gives
  <2> QED  BY <1>1, <2>1, <2>2, <2>4 DEF FreeSteps
<1>5. EnsureSteps(f.fresh) \subseteq FreeSteps(f) /\ MeetSteps \subseteq FreeSteps(f)
  BY <1>2, <1>3
<1>6. \A r \in Names, m \in Names :
        r \in f.fresh /\ m = f.home[r] => Replicate(m, r) \in FreeSteps(f)
  BY <1>4
<1> QED  BY <1>5, <1>6 DEF FreeSteps

\* A list of them may come at any time.
LEMMA FreeListsFit ==
  ASSUME NEW f, NEW B, NEW list \in Seq(FreeSteps(f))
  PROVE  list \in FitLists(f, B)
<1>1. FreeSteps(f) \subseteq PlanSteps /\ \A e \in FreeSteps(f) : Fits(f, e, {})
  BY DEF FreeSteps
<1>2. list \in FitLists(f, {})
  BY <1>1, FitEach
<1>3. {} \subseteq B
  OBVIOUS
<1> QED  BY <1>2, <1>3, ListsLater

\* A node that may be forgotten after the steps of B.
Goes(f, B, p) ==
    /\ p \in Names /\ p \in f.gone
    /\ \A m \in Keys : p \in f.reps[m] => Backed(f, B, m) \/ (m \in f.fixed /\ Drained(B, m))

\* It is forgotten, and its pod may be deleted.
LEMMA ForgetFits ==
  ASSUME NEW f, NEW B, NEW p, Goes(f, B, p)
  PROVE  <<ForgetKey(p)>> \in FitLists(f, B) /\ RetirePod(p) \in FitLists(f, B)
<1>1. p \in Names
  BY DEF Goes
<1>2. ForgetKey(p) \in PlanSteps /\ Delete(p) \in PlanSteps
  <2>1. KeepingSteps \subseteq PlanSteps
    BY DEF PlanSteps, ChangePlanSteps, KeepingSteps, ChangingSteps
  <2> QED  BY <1>1, <2>1, StepTypes
<1>3. PICK e, d : e = ForgetKey(p) /\ d = Delete(p)
  OBVIOUS
<1>4. e.action = "ForgetNode" /\ e.key = p /\ d.action = "DeleteNode"
  BY <1>3 DEF ForgetKey, Delete
<1>5. Fits(f, e, B)
  BY <1>4 DEF Fits, Goes, Gives
<1>6. Fits(f, d, B)
  BY <1>4 DEF Fits, Gives
<1>7. \A C : Fits(f, e, B \cup C) /\ Fits(f, d, B \cup C)
  <2> SUFFICES ASSUME NEW C PROVE Fits(f, e, B \cup C) /\ Fits(f, d, B \cup C)
    OBVIOUS
  <2>1. B \subseteq B \cup C
    OBVIOUS
  <2> QED  BY <1>5, <1>6, <2>1, FitsLater
<1>8. <<e>> \in FitLists(f, B)
  BY <1>2, <1>3, <1>7 DEF FitLists
<1>9. <<e, d>> \in FitLists(f, B)
  BY <1>2, <1>3, <1>7 DEF FitLists
<1> QED  BY <1>3, <1>8, <1>9 DEF RetirePod

\* So are those of a list.
LEMMA RetireFits ==
  ASSUME NEW f, NEW B, NEW S, NEW list \in Seq(S), \A p \in S : Goes(f, B, p)
  PROVE  Chain(RetirePod, list) \in FitLists(f, B)
<1> DEFINE parts == [i \in DOMAIN list |-> RetirePod(list[i])]
<1>1. Len(list) \in Nat /\ DOMAIN list = 1..Len(list) /\ \A i \in DOMAIN list : list[i] \in S
  BY LenProperties
<1>2. \A i \in 1..Len(list) : parts[i] \in FitLists(f, B)
  BY <1>1, ForgetFits
<1>3. Chain(RetirePod, list) = Joined(Len(list), parts)
  BY DEF Chain, Each
<1> HIDE DEF parts
<1> QED  BY <1>1, <1>2, <1>3, FitJoined

-----------------------------------------------------------------------------
\* r is one of the replicas of a group of pods, of which m is the first.
InGroup(first, m, r) ==
    \E i \in Nat \ {0} : m = GroupMaster(first, i) /\ r \in m + 1 .. m + spec.replicas

\* The master that the plan gives a new pod.
GroupHome(first) == [r \in Int |-> CHOOSE m : InGroup(first, m, r)]

\* It is in one group only.
LEMMA GroupsApart ==
  ASSUME RequestTypes, NEW first \in Int, NEW m, NEW r, InGroup(first, m, r)
  PROVE  /\ m \in Int /\ r \in Int
         /\ GroupHome(first)[r] = m
<1>1. PICK n \in Nat : n = spec.replicas /\ GroupSize = 1 + n
  BY GroupMasters DEF GroupSize
<1>2. ASSUME NEW k, InGroup(first, k, r)
      PROVE  \E i \in Nat : k = first + i * (1 + n) /\ r \in k + 1 .. k + n /\ k \in Int
  <2>1. PICK i \in Nat \ {0} : k = GroupMaster(first, i) /\ r \in k + 1 .. k + n
    BY <1>1, <1>2 DEF InGroup
  <2>2. i - 1 \in Nat /\ k = first + (i - 1) * (1 + n)
    BY <1>1, <2>1 DEF GroupMaster
  <2>3. k \in Int
    BY <2>1, GroupMasters
  <2> QED  BY <2>1, <2>2, <2>3
<1>3. PICK i \in Nat : m = first + i * (1 + n) /\ r \in m + 1 .. m + n /\ m \in Int
  BY <1>2
<1>4. ASSUME NEW k, InGroup(first, k, r) PROVE k = m
  <2>1. PICK j \in Nat : k = first + j * (1 + n) /\ r \in k + 1 .. k + n /\ k \in Int
    BY <1>2, <1>4
  <2>2. PICK g \in Nat : g = 1 + n
    OBVIOUS
  <2>3. m = first + i * g /\ k = first + j * g
    BY <1>3, <2>1, <2>2
  <2>4. PICK x \in Nat, y \in Nat : x = i * g /\ y = j * g
    <3>1. i * g \in Nat /\ j * g \in Nat
      BY SMT
    <3> QED  BY <3>1
  <2>5. ~(i < j)
    <3>1. i < j => y >= x + g
      BY <2>4, Products
    <3> QED  BY <1>3, <2>1, <2>2, <2>3, <2>4, <3>1
  <2>6. ~(j < i)
    <3>1. j < i => x >= y + g
      BY <2>4, Products
    <3> QED  BY <1>3, <2>1, <2>2, <2>3, <2>4, <3>1
  <2>7. i = j
    BY <2>5, <2>6
  <2> QED  BY <2>3, <2>7
<1>5. r \in Int
  BY <1>3
<1>6. (CHOOSE k : InGroup(first, k, r)) = m
  BY <1>4
<1> QED  BY <1>3, <1>5, <1>6 DEF GroupHome

\* The plan makes the pods of count groups replicas of the first of their group.
Houses(f, first, count) ==
    \A i \in 1..count : \A r \in GroupMaster(first, i) + 1 .. GroupMaster(first, i) + spec.replicas :
        r \in f.fresh /\ GroupMaster(first, i) = f.home[r]

\* The ReplicateNode steps of new groups may come at any time, and give each new
\* master its replicas.
LEMMA GroupsFit ==
  ASSUME RequestTypes, NEW f, NEW first \in Int, NEW count \in Nat, Houses(f, first, count)
  PROVE  /\ ReplicateGroups(first, count) \in Seq(FreeSteps(f))
         /\ \A i \in 1..count :
              \A r \in GroupMaster(first, i) + 1 .. GroupMaster(first, i) + spec.replicas :
                Following(StepsOf(ReplicateGroups(first, count)), GroupMaster(first, i), r)
<1> DEFINE S == FreeSteps(f)
           group(i) == Ordinals(GroupMaster(first, i) + 1, spec.replicas)
           parts == [i \in DOMAIN Ordinals(1, count) |->
                       [k \in DOMAIN group(Ordinals(1, count)[i]) |->
                          Replicate(GroupMaster(first, Ordinals(1, count)[i]),
                                    group(Ordinals(1, count)[i])[k])]]
<1>1. /\ Len(Ordinals(1, count)) = count /\ DOMAIN Ordinals(1, count) = 1..count
      /\ \A i \in 1..count : Ordinals(1, count)[i] = i
  BY Counting
<1>2. PICK n \in Nat : n = spec.replicas
  BY GroupMasters
<1>3. ASSUME NEW i \in 1..count
      PROVE  /\ parts[i] \in Seq(S)
             /\ \A r \in GroupMaster(first, i) + 1 .. GroupMaster(first, i) + n :
                  Has(parts[i], Replicate(GroupMaster(first, i), r))
  <2>1. PICK m \in Int : m = GroupMaster(first, i)
    BY GroupMasters
  <2>2. /\ DOMAIN Ordinals(m + 1, n) = 1..n
        /\ \A k \in 1..n : Ordinals(m + 1, n)[k] = m + k
    <3>1. PICK h \in Int : h = m + 1
      OBVIOUS
    <3>2. DOMAIN Ordinals(h, n) = 1..n /\ \A k \in 1..n : Ordinals(h, n)[k] = h + k - 1
      BY OrdinalsInSeq
    <3> QED  BY <3>1, <3>2
  <2>3. PICK list : list = Ordinals(m + 1, n)
    OBVIOUS
  <2> DEFINE mapped == [k \in DOMAIN list |-> Replicate(m, list[k])]
  <2>4. ASSUME NEW k \in 1..n PROVE mapped[k] = Replicate(m, m + k) /\ mapped[k] \in S
    <3>1. m + k \in m + 1 .. m + n
      OBVIOUS
    <3>2. m + k \in f.fresh /\ m = f.home[m + k]
      BY <1>2, <2>1, <3>1 DEF Houses
    <3>3. m + k \in Names /\ m \in Names
      BY DEF Names
    <3>4. Replicate(m, m + k) \in S
      BY <3>2, <3>3, FreeKinds
    <3> HIDE DEF S
    <3> QED  BY <2>2, <2>3, <3>4
  <2>5. parts[i] = mapped
    BY <1>1, <1>2, <2>1, <2>3
  <2>6. mapped = [k \in DOMAIN list |-> mapped[k]] /\ DOMAIN list = 1..n
    BY <2>2, <2>3
  <2> HIDE DEF mapped, group, S, parts
  <2>7. mapped \in Seq(S) /\ Len(mapped) = n
    BY <2>4, <2>6, MappedInSeq
  <2>8. ASSUME NEW r \in m + 1 .. m + n PROVE Has(mapped, Replicate(m, r))
    <3>1. r - m \in 1..n /\ m + (r - m) = r
      OBVIOUS
    <3> QED  BY <2>4, <2>7, <3>1 DEF Has
  <2> QED  BY <2>1, <2>5, <2>7, <2>8
<1>4. ReplicateGroups(first, count) = Joined(count, parts)
  BY <1>1 DEF ReplicateGroups, Chain, Each
<1> HIDE DEF parts, S
<1>5. ReplicateGroups(first, count) \in Seq(S)
  BY <1>3, <1>4, JoinedInSeq
<1>6. ASSUME NEW i \in 1..count,
             NEW r \in GroupMaster(first, i) + 1 .. GroupMaster(first, i) + n
      PROVE  Following(StepsOf(ReplicateGroups(first, count)), GroupMaster(first, i), r)
  <2>1. PICK e : e = Replicate(GroupMaster(first, i), r)
    OBVIOUS
  <2>2. Has(parts[i], e)
    BY <1>3, <2>1
  <2>3. Has(Joined(count, parts), e)
    BY <1>3, <2>2, JoinedHas
  <2>4. e \in StepsOf(ReplicateGroups(first, count))
    BY <1>4, <2>3 DEF Has, StepsOf
  <2>5. e.action = "ReplicateNode" /\ e.master = GroupMaster(first, i) /\ e.replica = r
    BY <2>1 DEF Replicate
  <2> QED  BY <2>4, <2>5 DEF Following
<1> QED  BY <1>2, <1>5, <1>6 DEF S

\* A new master is backed once its group follows it.
LEMMA GroupBacked ==
  ASSUME RequestTypes, NEW f, NEW B, NEW m \in Int,
         \A r \in m + 1 .. m + spec.replicas : r \notin f.gone /\ Following(B, m, r)
  PROVE  Backed(f, B, m)
<1>1. PICK n \in Nat : n = spec.replicas
  BY GroupMasters
<1>2. PICK a \in Int, b \in Int : a = m + 1 /\ b = m + n
  OBVIOUS
<1>3. IsFiniteSet(a..b) /\ Cardinality(a..b) = IF a > b THEN 0 ELSE b - a + 1
  BY FS_Interval
<1>4. Cardinality(a..b) = n
  BY <1>2, <1>3
<1> QED  BY <1>1, <1>2, <1>3, <1>4 DEF Backed

\* A plan whose new pods are in groups gives those of each group their master.
LEMMA GroupsHouse ==
  ASSUME RequestTypes, NEW f, NEW first \in Int, f.home = GroupHome(first),
         \A r \in Int : r >= first => r \in f.fresh
  PROVE  /\ \A count \in Nat : Houses(f, first, count)
         /\ \A i \in Nat \ {0} : Houses(f, GroupMaster(first, i), 1)
<1>1. PICK n \in Nat : n = spec.replicas /\ GroupSize = 1 + n
  BY GroupMasters DEF GroupSize
<1>2. ASSUME NEW i \in Nat \ {0}, NEW m, m = GroupMaster(first, i), NEW r \in m + 1 .. m + n
      PROVE  r \in f.fresh /\ m = f.home[r]
  <2>1. InGroup(first, m, r)
    BY <1>1, <1>2 DEF InGroup
  <2>2. m \in Int /\ r \in Int /\ GroupHome(first)[r] = m
    BY <2>1, GroupsApart
  <2>3. (i - 1) * (1 + n) \in Nat
    <3>1. i - 1 \in Nat /\ 1 + n \in Nat
      OBVIOUS
    <3>2. \A x, y \in Nat : x * y \in Nat
      BY SMT
    <3> QED  BY <3>1, <3>2
  <2>4. PICK x \in Nat : x = (i - 1) * (1 + n) /\ m = first + x
    BY <1>1, <1>2, <2>3 DEF GroupMaster
  <2>5. r >= first
    BY <1>2, <2>2, <2>4
  <2> QED  BY <2>2, <2>5
<1>3. ASSUME NEW count \in Nat PROVE Houses(f, first, count)
  <2>1. \A i \in 1..count : i \in Nat \ {0}
    OBVIOUS
  <2> QED  BY <1>1, <1>2, <2>1 DEF Houses
<1>4. ASSUME NEW i \in Nat \ {0} PROVE Houses(f, GroupMaster(first, i), 1)
  <2>1. PICK m \in Int : m = GroupMaster(first, i)
    BY GroupMasters
  <2>2. GroupMaster(m, 1) = m
    <3>1. 0 * GroupSize = 0
      BY <1>1, SMT
    <3>2. 1 - 1 = 0
      OBVIOUS
    <3> QED  BY <3>1, <3>2 DEF GroupMaster
  <2>3. \A r \in m + 1 .. m + n : r \in f.fresh /\ m = f.home[r]
    BY <1>2, <2>1
  <2>4. ASSUME NEW k \in 1..1 PROVE GroupMaster(m, k) = m
    BY <2>2
  <2> QED  BY <1>1, <2>1, <2>3, <2>4 DEF Houses
<1> QED  BY <1>3, <1>4

\* The masters of the pods that replicaProvisionSteps makes.
ListHome(masters) == [r \in Int |-> masters[r - nextPodOrdinal + 1]]

\* replicaProvisionSteps' steps may come at any time.
LEMMA ProvisionReplicasFit ==
  ASSUME RequestTypes, NEW masters \in Seq(Names), NEW f, f.home = ListHome(masters),
         f.fresh = NewPods
  PROVE  ProvisionReplicas(masters) \in Seq(FreeSteps(f))
<1>1. PICK n \in Nat : n = Len(masters)
  BY LenProperties
<1>2. DOMAIN masters = 1..n /\ \A i \in 1..n : masters[i] \in Names
  BY <1>1, LenProperties
<1>3. PICK pods : pods = Ordinals(nextPodOrdinal, n)
  OBVIOUS
<1>4. PICK base \in Int : base = nextPodOrdinal
  BY DEF RequestTypes
<1>5. DOMAIN pods = 1..n /\ \A i \in 1..n : pods[i] = base + i - 1
  BY <1>3, <1>4, OrdinalsInSeq
<1>6. \A i \in 1..n : pods[i] \in NewPods /\ pods[i] \in Names /\ ListHome(masters)[pods[i]] = masters[i]
  <2> SUFFICES ASSUME NEW i \in 1..n
               PROVE  /\ pods[i] \in NewPods /\ pods[i] \in Names
                      /\ ListHome(masters)[pods[i]] = masters[i]
    OBVIOUS
  <2>1. PICK r \in Int : r = base + i - 1 /\ r >= base /\ r - base + 1 = i
    OBVIOUS
  <2>2. r = pods[i]
    BY <1>5, <2>1
  <2> QED  BY <1>4, <2>1, <2>2 DEF NewPods, Names, ListHome
<1> DEFINE meets == [i \in DOMAIN masters |-> Meet(masters[i], pods[i])]
           follows == [i \in DOMAIN masters |-> Replicate(masters[i], pods[i])]
           S == FreeSteps(f)
<1>7. Provision(pods) \in Seq(S)
  <2>1. NewPods \in SUBSET Names
    BY DEF NewPods, Names
  <2>2. pods \in Seq(NewPods)
    <3>1. pods = [i \in DOMAIN pods |-> pods[i]]
      BY <1>3 DEF Ordinals
    <3> QED  BY <1>5, <1>6, <3>1, MappedInSeq
  <2>3. Provision(pods) \in Seq(EnsureSteps(NewPods))
    BY <2>1, <2>2, ProvisionEnsures
  <2> QED  BY <2>3, FreeKinds, SeqMonotonic
<1>8. meets \in Seq(S)
  <2>1. meets = [i \in DOMAIN masters |-> meets[i]] /\ \A i \in 1..n : meets[i] \in S
    BY <1>2, <1>6, FreeKinds, StepKinds
  <2> HIDE DEF meets
  <2> QED  BY <1>2, <2>1, MappedInSeq
<1>9. follows \in Seq(S)
  <2>1. ASSUME NEW i \in 1..n PROVE Replicate(masters[i], pods[i]) \in S
    BY <1>2, <1>6, FreeKinds
  <2>2. follows = [i \in DOMAIN masters |-> follows[i]] /\ \A i \in 1..n : follows[i] \in S
    BY <1>2, <2>1
  <2> HIDE DEF follows
  <2> QED  BY <1>2, <2>2, MappedInSeq
<1>10. ProvisionReplicas(masters) = (Provision(pods) \o meets) \o follows
  BY <1>1, <1>3 DEF ProvisionReplicas
<1> HIDE DEF meets, follows, S
<1>11. Provision(pods) \o meets \in Seq(S)
  BY <1>7, <1>8, ConcatProperties
<1> QED  BY <1>9, <1>10, <1>11, ConcatProperties DEF S

-----------------------------------------------------------------------------
\* The topology as the planner reads it.
AsObserved ==
    /\ TypeOK /\ PodsExist /\ RequestTypes /\ OwnerIndexExact
    /\ slotOwners = observedOwner
    /\ exists \subseteq known /\ ready \subseteq exists
    /\ OnlyMembersReady

NoneIsNew(set) == set \cap NewPods \cap Pods = {}

\* What is known of the observed replicas and of the new pods when a plan is made.
Frames(f) ==
    /\ f.reps = [m \in Keys |-> ReplicasOf(m)]
    /\ f.fresh = NewPods
    /\ NoneIsNew(f.gone)

FrameOf(f, gone, fixed, home) ==
    Frames(f) /\ f.gone = gone /\ f.fixed = fixed /\ f.home = home

\* A plan of such a frame.
Framed(list) == \E f : Frames(f) /\ list \in FitLists(f, {})

\* There is one for every set of nodes that may go, and so on.
LEMMA FrameFields ==
  ASSUME NEW gone, NEW fixed, NEW home, NoneIsNew(gone)
  PROVE  \E f : FrameOf(f, gone, fixed, home)
<1>1. PICK f : f = [reps |-> [m \in Keys |-> ReplicasOf(m)], gone |-> gone, fixed |-> fixed,
                    home |-> home, fresh |-> NewPods]
  OBVIOUS
<1>2. FrameOf(f, gone, fixed, home)
  BY <1>1 DEF Frames, FrameOf
<1> QED  BY <1>2

\* No plan at all.
LEMMA EmptyFramed == Framed(<<>>)
<1>1. PICK f : Frames(f)
  <2>1. NoneIsNew({})
    BY DEF NoneIsNew
  <2>2. PICK f : FrameOf(f, {}, {}, {})
    BY <2>1, FrameFields
  <2> QED  BY <2>2 DEF FrameOf
<1>2. <<>> \in FitLists(f, {})
  <2>1. \A j \in 1..Len(<<>>) : FALSE
    BY EmptySeq
  <2> QED  BY <2>1, EmptySeq DEF FitLists
<1> QED  BY <1>1, <1>2 DEF Framed

\* An observed replica has one master.
LEMMA FrameReplicas ==
  ASSUME NEW f, Frames(f), NEW m, NEW k \in Keys, NEW r \in ReplicasOf(m), r \in f.reps[k]
  PROVE  k = m
<1>1. f.reps[k] = ReplicasOf(k)
  BY DEF Frames
<1> QED  BY <1>1 DEF ReplicasOf

\* The pods that a plan makes are made, and meet, by steps that may come at any time.
LEMMA ProvisionFits ==
  ASSUME NEW f, f.fresh = NewPods, NEW pods \in Seq(NewPods)
  PROVE  Provision(pods) \in Seq(FreeSteps(f)) /\ pods \in Seq(Names)
<1>1. NewPods \in SUBSET Names
  BY DEF NewPods, Names
<1>2. Provision(pods) \in Seq(EnsureSteps(NewPods))
  BY <1>1, ProvisionEnsures
<1>3. pods \in Seq(Names)
  BY <1>1, SeqMonotonic
<1> QED  BY <1>2, <1>3, FreeKinds, SeqMonotonic

\* So do the nodes that meet a seed.
LEMMA MeetAllFits ==
  ASSUME NEW f, NEW pods \in Seq(Names), NEW seed \in Names
  PROVE  MeetAll(seed, pods) \in Seq(FreeSteps(f))
BY MeetAllMeets, FreeKinds, SeqMonotonic

\* Ordinals from that of the first new pod are those of new pods.
LEMMA OrdinalsAreNew ==
  ASSUME RequestTypes, NEW count \in Nat
  PROVE  Ordinals(nextPodOrdinal, count) \in Seq(NewPods)
<1>1. PICK base \in Int : base = nextPodOrdinal
  BY DEF RequestTypes
<1>2. Ordinals(base, count) \in [1..count -> NewPods]
  BY <1>1 DEF Ordinals, NewPods
<1> QED  BY <1>1, <1>2, SeqDef

\* buildRepairPlan forgets nodes that are no observed replicas.
LEMMA RepairPlanFramed ==
  ASSUME AsObserved, NEW lost, lost \cap ready = {}
  PROVE  /\ Framed(RepairPlan(lost))
         /\ Framed(Verified(ProvisionReplicas(Missing)))
<1> DEFINE ghosts == InOrder(GhostNodes(lost) \cap Pods) \o SetToSeq(GhostNodes(lost) \cap Ghosts)
           forget(k) == IF k \in Pods \ exists THEN RetirePod(k) ELSE <<ForgetKey(k)>>
           parts == [i \in DOMAIN ghosts |-> forget(ghosts[i])]
<1>1. TypeOK /\ PodsExist /\ RequestTypes
  BY DEF AsObserved
<1>2. NoneIsNew(GhostNodes(lost))
  BY DEF AsObserved, OnlyMembersReady, GhostNodes, NoneIsNew
<1>3. PICK f : Frames(f) /\ f.gone = GhostNodes(lost) /\ f.fixed = {} /\ f.home = ListHome(Missing)
  <2>1. PICK f : FrameOf(f, GhostNodes(lost), {}, ListHome(Missing))
    BY <1>2, FrameFields
  <2> QED  BY <2>1 DEF FrameOf
<1>4. ASSUME NEW p \in GhostNodes(lost) PROVE Goes(f, {}, p)
  <2>1. p \in Names
    BY <1>1 DEF GhostNodes, TypeOK, Names
  <2>2. \A m : p \notin ReplicasOf(m)
    BY DEF GhostNodes, ReplicasOf, ReadyMembers
  <2>3. \A m \in Keys : p \notin f.reps[m]
    BY <1>3, <2>2 DEF Frames
  <2> QED  BY <1>3, <2>1, <2>3 DEF Goes
<1>5. ghosts \in Seq(GhostNodes(lost))
  <2>1. PICK a, b : /\ a = InOrder(GhostNodes(lost) \cap Pods)
                    /\ b = SetToSeq(GhostNodes(lost) \cap Ghosts)
    OBVIOUS
  <2>2. a \in Seq(GhostNodes(lost)) /\ b \in Seq(GhostNodes(lost))
    BY <1>1, <2>1, GhostsListed
  <2> QED  BY <2>1, <2>2, ConcatProperties
<1> HIDE DEF ghosts
<1>6. Len(ghosts) \in Nat /\ DOMAIN ghosts = 1..Len(ghosts)
      /\ \A i \in DOMAIN ghosts : ghosts[i] \in GhostNodes(lost)
  BY <1>5, LenProperties
<1>7. \A i \in 1..Len(ghosts) : parts[i] \in FitLists(f, {})
  BY <1>4, <1>6, ForgetFits
<1>8. PICK a, b : a = Joined(Len(ghosts), parts) /\ b = ProvisionReplicas(Missing)
  OBVIOUS
<1>9. a \in FitLists(f, {})
  <2> HIDE DEF parts
  <2> QED  BY <1>6, <1>7, <1>8, FitJoined
<1>10. b \in Seq(FreeSteps(f))
  <2>1. Missing \in Seq(MasterSet) /\ MasterSet \subseteq Names
    BY <1>1, MissingLists, NamesHold
  <2>2. Missing \in Seq(Names)
    BY <2>1, SeqMonotonic
  <2>3. f.fresh = NewPods /\ f.home = ListHome(Missing)
    BY <1>3 DEF Frames
  <2> QED  BY <1>1, <1>8, <2>2, <2>3, ProvisionReplicasFit
<1>11. b \in FitLists(f, {} \cup StepsOf(a)) /\ b \in FitLists(f, {})
  BY <1>10, FreeListsFit
<1>12. a \o b \in FitLists(f, {})
  BY <1>9, <1>11, FitConcat
<1>13. Verified(a \o b) \in FitLists(f, {}) /\ Verified(b) \in FitLists(f, {})
  BY <1>11, <1>12, FitVerified
<1>14. RepairPlan(lost) = Verified(a \o b) \/ RepairPlan(lost) = <<>>
  BY <1>8 DEF RepairPlan, Chain, Each, ghosts
<1> HIDE DEF parts
<1> QED  BY <1>3, <1>8, <1>13, <1>14, EmptyFramed DEF Framed

\* The first replicas of an ordered list are as many as the spec asks for, and not the
\* spare ones.
LEMMA FirstReplicas ==
  ASSUME TypeOK, PodsExist, RequestTypes, NEW m, ReplicaCount(m) >= spec.replicas
  PROVE  \E R : /\ IsFiniteSet(R) /\ Cardinality(R) = spec.replicas
                /\ R \subseteq ReplicasOf(m) /\ R \cap Spare(m) = {}
<1>1. PICK list : list = ReplicaList(m)
  OBVIOUS
<1>2. /\ ReplicasOf(m) \subseteq Int /\ IsFiniteSet(ReplicasOf(m))
      /\ list \in Seq(ReplicasOf(m))
  BY <1>1, Observed
<1>3. PICK n \in Nat : n = Len(list) /\ n = ReplicaCount(m)
  BY <1>1, Observed
<1>4. PICK c \in Nat : c = spec.replicas /\ c <= n
  <2>1. spec.replicas \in Nat
    BY GroupMasters
  <2> QED  BY <1>3, <2>1
<1>5. Ascends(list) /\ DOMAIN list = 1..n /\ \A i \in 1..n : list[i] \in Int /\ list[i] \in ReplicasOf(m)
  <2>1. Ascends(list)
    BY <1>1, <1>2, InOrderLists DEF ReplicaList
  <2> QED  BY <1>2, <1>3, <2>1, LenProperties, ElementOfSeq
<1>6. \A i, j \in 1..n : list[i] = list[j] => i = j
  <2> SUFFICES ASSUME NEW i \in 1..n, NEW j \in 1..n, list[i] = list[j] PROVE i = j
    OBVIOUS
  <2>1. list[i] \in Int /\ list[j] \in Int /\ (i < j => list[i] < list[j]) /\ (j < i => list[j] < list[i])
    BY <1>5 DEF Ascends
  <2>2. ~(i < j) /\ ~(j < i)
    BY <2>1
  <2> QED  BY <2>2
<1>7. PICK R : R = {list[i] : i \in 1..c}
  OBVIOUS
<1>8. \A i \in 1..c : i \in 1..n
  BY <1>4
<1>9. PICK g : g = [i \in 1..c |-> list[i]]
  OBVIOUS
<1>10. g \in Bijection(1..c, R)
  <2>1. g \in [1..c -> R]
    BY <1>7, <1>9
  <2>2. \A i, j \in 1..c : g[i] = g[j] => i = j
    BY <1>6, <1>8, <1>9
  <2>3. \A r \in R : \E i \in 1..c : g[i] = r
    BY <1>7, <1>9
  <2> QED  BY <2>1, <2>2, <2>3 DEF Bijection, Injection, Surjection, IsInjective
<1>11. IsFiniteSet(R) /\ Cardinality(R) = c
  <2>1. ExistsBijection(1..c, R)
    BY <1>10 DEF ExistsBijection
  <2>2. IsFiniteSet(1..c) /\ Cardinality(1..c) = c
    <3>1. IsFiniteSet(1..c) /\ Cardinality(1..c) = IF 1 > c THEN 0 ELSE c - 1 + 1
      BY FS_Interval
    <3> QED  BY <3>1
  <2> QED  BY <2>1, <2>2, FS_Bijection
<1>12. R \subseteq ReplicasOf(m)
  BY <1>5, <1>7, <1>8
<1>13. R \cap Spare(m) = {}
  <2> SUFFICES ASSUME NEW r \in R, r \in Spare(m) PROVE FALSE
    OBVIOUS
  <2>1. PICK i \in 1..c : r = list[i]
    BY <1>7
  <2>2. PICK j \in c + 1 .. n : r = list[j]
    BY <1>1, <1>3, <1>4 DEF Spare
  <2>3. i \in 1..n /\ j \in 1..n /\ i # j
    BY <1>4
  <2> QED  BY <1>6, <2>1, <2>2, <2>3
<1> QED  BY <1>4, <1>11, <1>12, <1>13

\* buildReplicaScaleInPlan leaves each master the replicas that the spec asks for.
LEMMA ReplicaScaleInFramed ==
  ASSUME AsObserved
  PROVE  Framed(ReplicaScaleInPlan)
<1>1. TypeOK /\ PodsExist /\ RequestTypes /\ exists \subseteq known
      /\ known \cap Pods \cap NewPods = {}
  BY DEF AsObserved, OnlyMembersReady
<1>2. CASE \A m \in MasterSet : ReplicaCount(m) >= spec.replicas
  <2>1. PICK gone : gone = {r \in exists : \E m \in MasterSet : r \in Spare(m)}
    OBVIOUS
  <2>2. NoneIsNew(gone)
    BY <1>1, <2>1 DEF NoneIsNew
  <2>3. PICK f : Frames(f) /\ f.gone = gone
    <3>1. PICK f : FrameOf(f, gone, {}, {})
      BY <2>2, FrameFields
    <3> QED  BY <3>1 DEF FrameOf
  <2>4. ASSUME NEW m \in MasterSet
        PROVE  /\ Surplus(m) \in Seq(Spare(m)) /\ Spare(m) \subseteq ReplicasOf(m)
               /\ m \in Keys /\ f.reps[m] = ReplicasOf(m)
    <3>1. Surplus(m) \in Seq(Spare(m)) /\ Spare(m) \subseteq ReplicasOf(m)
      BY <1>1, <1>2, SurplusListed
    <3>2. m \in Keys
      BY <1>1 DEF MasterSet, TypeOK
    <3> QED  BY <2>3, <3>1, <3>2 DEF Frames
  <2>5. ASSUME NEW m \in MasterSet PROVE Backed(f, {}, m)
    <3>1. PICK R : /\ IsFiniteSet(R) /\ Cardinality(R) = spec.replicas
                   /\ R \subseteq ReplicasOf(m) /\ R \cap Spare(m) = {}
      BY <1>1, <1>2, FirstReplicas
    <3>2. ASSUME NEW r \in R PROVE r \notin f.gone /\ r \in f.reps[m]
      <4>1. ASSUME NEW k \in MasterSet, r \in Spare(k) PROVE FALSE
        <5>1. r \in ReplicasOf(k) /\ r \in ReplicasOf(m)
          BY <2>4, <3>1, <4>1
        <5>2. k = m
          BY <5>1 DEF ReplicasOf
        <5> QED  BY <3>1, <4>1, <5>2
      <4> QED  BY <2>1, <2>3, <2>4, <3>1, <4>1
    <3> QED  BY <3>1, <3>2 DEF Backed
  <2>6. ASSUME NEW m \in MasterSet, NEW p \in Spare(m) PROVE Goes(f, {}, p)
    <3>1. p \in ReplicasOf(m)
      BY <2>4
    <3>2. p \in Names
      BY <1>1, <3>1, NamesHold
    <3>3. p \in f.gone
      BY <2>1, <2>3, <3>1 DEF ReplicasOf
    <3>4. ASSUME NEW k \in Keys, p \in f.reps[k] PROVE Backed(f, {}, k)
      <4>1. k = m
        BY <2>3, <3>1, <3>4, FrameReplicas
      <4> QED  BY <2>5, <4>1
    <3> QED  BY <3>2, <3>3, <3>4 DEF Goes
  <2>7. ASSUME NEW m \in MasterSet PROVE Chain(RetirePod, Surplus(m)) \in FitLists(f, {})
    <3>1. Surplus(m) \in Seq(Spare(m)) /\ \A p \in Spare(m) : Goes(f, {}, p)
      BY <2>4, <2>6
    <3> QED  BY <3>1, RetireFits
  <2> DEFINE retire(m) == Chain(RetirePod, Surplus(m))
             parts == [k \in DOMAIN Masters |-> retire(Masters[k])]
  <2>8. Len(Masters) \in Nat /\ DOMAIN Masters = 1..Len(Masters)
        /\ \A k \in 1..Len(Masters) : Masters[k] \in MasterSet
    BY <1>1, Observed, LenProperties
  <2>9. \A k \in 1..Len(Masters) : parts[k] \in FitLists(f, {})
    BY <2>7, <2>8
  <2>10. \/ ReplicaScaleInPlan = Verified(Joined(Len(Masters), parts))
         \/ ReplicaScaleInPlan = <<>>
    BY DEF ReplicaScaleInPlan, Chain, Each
  <2> HIDE DEF parts, retire
  <2>11. Joined(Len(Masters), parts) \in FitLists(f, {})
    BY <2>8, <2>9, FitJoined
  <2>12. Verified(Joined(Len(Masters), parts)) \in FitLists(f, {})
    BY <2>11, FitVerified
  <2> QED  BY <2>3, <2>10, <2>12, EmptyFramed DEF Framed
<1>3. CASE ~\A m \in MasterSet : ReplicaCount(m) >= spec.replicas
  <2>1. ReplicaScaleInPlan = <<>>
    BY <1>3 DEF ReplicaScaleInPlan
  <2> QED  BY <2>1, EmptyFramed
<1> QED  BY <1>2, <1>3

\* migrationSteps' steps give slots to masters that have their replicas.
LEMMA MigrationsFit ==
  ASSUME TypeOK, NEW f, NEW B, NEW targets \in Seq(Names),
         \A i \in 1..Len(targets) : targets[i] \notin f.fixed /\ Backed(f, B, targets[i])
  PROVE  Migrations(targets) \in FitLists(f, B)
<1>1. MovesTo(targets) \subseteq PlanSteps
  BY DEF MovesTo, PlanSteps, ChangePlanSteps, ChangingSteps
<1>2. ASSUME NEW e \in MovesTo(targets) PROVE Fits(f, e, B)
  <2>1. PICK i \in 1..Len(targets) : e.target = targets[i]
    BY DEF MovesTo
  <2>2. e.action = "MigrateSlots"
    BY DEF MovesTo, MigrateSteps
  <2> QED  BY <2>1, <2>2 DEF Fits, Gives
<1> QED  BY <1>1, <1>2, MigrationsMove, FitEach

\* They take every slot of a master that is no target.
LEMMA MigrationsDrain ==
  ASSUME TypeOK, slotOwners = observedOwner, NEW targets \in Seq(Names), targets # <<>>,
         NEW m, \A i \in 1..Len(targets) : targets[i] # m
  PROVE  Drained(StepsOf(Migrations(targets)), m)
<1>1. PICK total \in Nat \ {0} : total = Len(targets)
  BY LenProperties, EmptySeq
<1>2. PICK count \in Nat : count = Cardinality(Slots) /\ Slots = 0..count - 1
  BY Numbers
<1>3. ASSUME NEW s \in Slots, observedOwner[s] = m
      PROVE  \E e \in StepsOf(Migrations(targets)) :
               e.action = "MigrateSlots" /\ e.source = m /\ s \in e.slots
  <2>1. PICK i \in 0..total - 1 : s \in BalancedSlotRange(i, total, count)
    BY <1>2, RangesCover
  <2>2. i + 1 \in 1..total /\ (i + 1) - 1 = i
    OBVIOUS
  <2>3. PICK h \in 1..total : h = i + 1 /\ h - 1 = i
    BY <2>2
  <2>4. s \in BalancedSlotRange(h - 1, Len(targets), Cardinality(Slots))
    BY <1>1, <1>2, <2>1, <2>3
  <2>5. slotOwners[s] = m /\ slotOwners[s] # targets[h]
    BY <1>1, <1>3
  <2>6. PICK step \in MovesTo(targets) :
          /\ Has(Migrations(targets), step)
          /\ step.source = slotOwners[s] /\ s \in step.slots
    <3>1. \A x \in BalancedSlotRange(h - 1, Len(targets), Cardinality(Slots)) :
            slotOwners[x] # targets[h] =>
              \E step \in MovesTo(targets) :
                /\ Has(Migrations(targets), step)
                /\ step.source = slotOwners[x] /\ step.target = targets[h]
                /\ x \in step.slots
      BY <1>1, MigrationsMove
    <3> QED  BY <2>4, <2>5, <3>1
  <2>7. step.action = "MigrateSlots" /\ step \in StepsOf(Migrations(targets))
    BY <2>6 DEF MovesTo, MigrateSteps, Has, StepsOf
  <2> QED  BY <2>5, <2>6, <2>7
<1> QED  BY <1>3 DEF Drained

\* What is joined of the steps that may come at any time, the steps of new groups the
\* last of them, has these groups backed.
LEMMA GroupsReady ==
  ASSUME RequestTypes, NEW f, NEW a \in Seq(FreeSteps(f)), NEW first \in Int, NEW count \in Nat,
         Houses(f, first, count), f.fresh \cap f.gone = {},
         NEW made, made = a \o ReplicateGroups(first, count)
  PROVE  /\ made \in FitLists(f, {})
         /\ \A i \in 1..count : Backed(f, StepsOf(made), GroupMaster(first, i))
<1>1. PICK d : d = ReplicateGroups(first, count)
  OBVIOUS
<1>2. d \in Seq(FreeSteps(f))
  BY <1>1, GroupsFit
<1>3. a \in FitLists(f, {}) /\ d \in FitLists(f, {} \cup StepsOf(a))
  BY <1>2, FreeListsFit
<1>4. made \in FitLists(f, {}) /\ StepsOf(made) = StepsOf(a) \cup StepsOf(d)
  BY <1>1, <1>3, FitConcat
<1>5. ASSUME NEW i \in 1..count PROVE Backed(f, StepsOf(made), GroupMaster(first, i))
  <2>1. i \in Int
    OBVIOUS
  <2>2. PICK m \in Int : m = GroupMaster(first, i)
    BY <2>1, GroupMasters
  <2>3. ASSUME NEW r \in m + 1 .. m + spec.replicas
        PROVE  r \notin f.gone /\ Following(StepsOf(made), m, r)
    <3>1. Following(StepsOf(d), m, r)
      BY <1>1, <2>2, GroupsFit
    <3>2. Following(StepsOf(made), m, r)
      BY <1>4, <3>1 DEF Following
    <3>3. r \in f.fresh
      BY <2>2 DEF Houses
    <3> QED  BY <3>2, <3>3
  <2>4. Backed(f, StepsOf(made), m)
    BY <2>3, GroupBacked
  <2> QED  BY <2>2, <2>4
<1> QED  BY <1>4, <1>5

\* buildShardScaleOutPlan gives slots only to masters that have their replicas.
LEMMA ShardScaleOutFramed ==
  ASSUME AsObserved
  PROVE  Framed(ShardScaleOutPlan)
<1>1. TypeOK /\ PodsExist /\ RequestTypes
  BY DEF AsObserved
<1>2. CASE ScaleReady /\ spec.shards > Cardinality(MasterSet)
  <2>1. PICK count \in Nat : count = spec.shards - Cardinality(MasterSet)
    <3>1. spec.shards \in Nat
      BY <1>1, PlannerAssumption DEF RequestTypes
    <3>2. Cardinality(MasterSet) \in Nat
      BY <1>1, Observed
    <3> QED  BY <1>2, <3>1, <3>2
  <2>2. PICK base \in Int : base = nextPodOrdinal
    BY <1>1 DEF RequestTypes
  <2>3. GroupSize \in Nat /\ spec.replicas \in Nat
    BY <1>1, <2>2, GroupMasters
  <2>4. PICK size \in Nat : size = count * GroupSize
    <3>1. \A a, b \in Nat : a * b \in Nat
      OBVIOUS
    <3> QED  BY <2>3, <3>1
  <2>5. PICK pods : pods = Ordinals(nextPodOrdinal, size) /\ pods \in Seq(NewPods)
    BY <1>1, OrdinalsAreNew
  <2>6. PICK newMasters : newMasters = Each(LAMBDA i : GroupMaster(nextPodOrdinal, i), Ordinals(1, count))
    OBVIOUS
  <2>7. /\ newMasters \in Seq(Names) /\ Len(newMasters) = count
        /\ \A i \in 1..count : newMasters[i] = GroupMaster(base, i) /\ newMasters[i] \in Int
    <3>1. nextPodOrdinal \in Int
      BY <2>2
    <3>2. newMasters \in Seq(Int) /\ Len(newMasters) = count /\ DOMAIN newMasters = 1..count
      BY <1>1, <2>6, <3>1, NewMastersListed
    <3>3. AreMasters(newMasters, nextPodOrdinal, count)
      BY <1>1, <2>6, <3>1, NewMastersListed
    <3> QED  BY <2>2, <3>2, <3>3, SeqMonotonic, ElementOfSeq DEF Names, AreMasters
  <2> DEFINE parts == [i \in DOMAIN newMasters |-> Ordinals(newMasters[i] + 1, spec.replicas)]
  <2>8. PICK newReplicas : newReplicas = Joined(Len(newMasters), parts)
    OBVIOUS
  <2>9. newReplicas \in Seq(Names)
    <3>1. ASSUME NEW i \in 1..count PROVE parts[i] \in Seq(Names)
      <4>1. PICK h \in Int : h = newMasters[i] + 1
        BY <2>7
      <4>2. parts[i] = Ordinals(h, spec.replicas)
        BY <2>7, <4>1, LenProperties
      <4> QED  BY <2>3, <4>2, OrdinalNames
    <3> HIDE DEF parts
    <3> QED  BY <2>7, <2>8, <3>1, JoinedInSeq
  <2>10. PICK seed \in Names : seed = Masters[1]
    <3>1. MasterSet # {}
      BY <1>2 DEF ScaleReady
    <3>2. 1 \in 1..Len(Masters)
      BY <1>1, <3>1, Observed, FS_EmptySet
    <3> QED  BY <1>1, <3>2, Observed, NamesHold
  <2>11. PICK f : Frames(f) /\ f.gone = {} /\ f.fixed = {} /\ f.home = GroupHome(base)
    <3>1. NoneIsNew({})
      BY DEF NoneIsNew
    <3>2. PICK f : FrameOf(f, {}, {}, GroupHome(base))
      BY <3>1, FrameFields
    <3> QED  BY <3>2 DEF FrameOf
  <2>12. f.fresh = NewPods
    BY <2>11 DEF Frames
  <2>13. PICK a, b, c, d :
           /\ a = Provision(pods) /\ b = MeetAll(seed, newMasters)
           /\ c = MeetAll(seed, newReplicas) /\ d = ReplicateGroups(base, count)
    OBVIOUS
  <2>14. a \in Seq(FreeSteps(f)) /\ b \in Seq(FreeSteps(f)) /\ c \in Seq(FreeSteps(f))
    BY <2>5, <2>7, <2>9, <2>12, <2>13, ProvisionFits, MeetAllFits
  <2>15. PICK abc : abc = (a \o b) \o c /\ abc \in Seq(FreeSteps(f))
    BY <2>14, ConcatProperties
  <2>16. Houses(f, base, count)
    <3>1. \A r \in Int : r >= base => r \in f.fresh
      BY <2>2, <2>12 DEF NewPods
    <3> QED  BY <1>1, <2>11, <3>1, GroupsHouse
  <2>17. PICK before : before = abc \o ReplicateGroups(base, count)
    OBVIOUS
  <2>18. /\ before \in FitLists(f, {})
         /\ \A i \in 1..count : Backed(f, StepsOf(before), GroupMaster(base, i))
    <3>1. f.fresh \cap f.gone = {}
      BY <2>11
    <3> QED  BY <1>1, <2>15, <2>16, <2>17, <3>1, GroupsReady
  <2>19. PICK targets : targets = Masters \o newMasters
    OBVIOUS
  <2>20. PICK n \in Nat : n = Len(Masters)
    BY <1>1, Observed
  <2>21. /\ targets \in Seq(Names) /\ Len(targets) = n + count
         /\ \A i \in 1..n + count : targets[i] = IF i <= n THEN Masters[i] ELSE newMasters[i - n]
    <3>1. Masters \in Seq(Names)
      BY <1>1, Observed, NamesHold, SeqMonotonic
    <3> QED  BY <2>7, <2>19, <2>20, <3>1, ConcatProperties
  <2>22. ASSUME NEW i \in 1..Len(targets) PROVE Backed(f, StepsOf(before), targets[i])
    <3>1. CASE i <= n
      <4>1. PICK m \in MasterSet : m = targets[i]
        BY <1>1, <2>20, <2>21, <3>1, Observed
      <4>2. IsFiniteSet(ReplicasOf(m)) /\ Cardinality(ReplicasOf(m)) = spec.replicas
        BY <1>1, <1>2, Observed DEF ScaleReady, ReplicaCount
      <4>3. m \in Keys
        BY <1>1 DEF MasterSet, TypeOK
      <4>4. f.reps[m] = ReplicasOf(m)
        BY <2>11, <4>3 DEF Frames
      <4> QED  BY <2>11, <4>1, <4>2, <4>4 DEF Backed
    <3>2. CASE ~(i <= n)
      <4>1. PICK j \in 1..count : j = i - n
        BY <2>21, <3>2
      <4>2. targets[i] = GroupMaster(base, j)
        BY <2>7, <2>21, <3>2, <4>1
      <4> QED  BY <2>18, <4>2
    <3> QED  BY <3>1, <3>2
  <2>23. PICK e : e = Migrations(targets)
    OBVIOUS
  <2>24. e \in FitLists(f, {} \cup StepsOf(before))
    <3>1. PICK B : B = StepsOf(before) /\ B = {} \cup StepsOf(before)
      OBVIOUS
    <3>2. \A i \in 1..Len(targets) : targets[i] \notin f.fixed /\ Backed(f, B, targets[i])
      BY <2>11, <2>22, <3>1
    <3>3. Migrations(targets) \in FitLists(f, B)
      BY <1>1, <2>21, <3>2, MigrationsFit
    <3> QED  BY <2>23, <3>1, <3>3
  <2>25. before \o e \in FitLists(f, {})
    BY <2>18, <2>24, FitConcat
  <2>26. Verified(before \o e) \in FitLists(f, {})
    BY <2>25, FitVerified
  <2>27. \/ ShardScaleOutPlan = Verified(before \o e)
         \/ ShardScaleOutPlan = <<>>
    <3>1. newReplicas = Chain(LAMBDA m : Ordinals(m + 1, spec.replicas), newMasters)
      BY <2>8 DEF Chain, Each
    <3> HIDE DEF parts
    <3>2. before = ((a \o b) \o c) \o d
      BY <2>13, <2>15, <2>17
    <3> QED  BY <2>1, <2>2, <2>4, <2>5, <2>6, <2>10, <2>13, <2>19, <2>23, <3>1, <3>2 DEF ShardScaleOutPlan
  <2> HIDE DEF parts
  <2> QED  BY <2>11, <2>26, <2>27, EmptyFramed DEF Framed
<1>3. CASE ~(ScaleReady /\ spec.shards > Cardinality(MasterSet))
  <2>1. ShardScaleOutPlan = <<>>
    BY <1>3, Zenon DEF ShardScaleOutPlan
  <2> QED  BY <2>1, EmptyFramed
<1> QED  BY <1>2, <1>3

\* A master and its replicas may go once its slots are taken.
LEMMA ShardGoes ==
  ASSUME AsObserved, NEW f, Frames(f), f.gone = exists, f.fixed = MasterSet,
         NEW B, NEW m \in MasterSet, Drained(B, m), NEW p \in {m} \cup ReplicasOf(m)
  PROVE  Goes(f, B, p)
<1>1. TypeOK /\ PodsExist
  BY DEF AsObserved
<1>2. m \in Names /\ m \in exists /\ role[m] = "master"
  BY <1>1, NamesHold DEF MasterSet, ReadyMaster
<1>3. p \in Names /\ p \in exists
  BY <1>1, <1>2, NamesHold DEF ReplicasOf
<1>4. ASSUME NEW k \in Keys, p \in f.reps[k] PROVE k = m
  <2>1. p \in ReplicasOf(k)
    BY <1>4 DEF Frames
  <2>2. p \in ReplicasOf(m)
    BY <1>2, <2>1 DEF ReplicasOf
  <2> QED  BY <1>4, <2>2, FrameReplicas
<1> QED  BY <1>3, <1>4 DEF Goes

\* They are retired.
LEMMA RetireShardFits ==
  ASSUME AsObserved, NEW f, Frames(f), f.gone = exists, f.fixed = MasterSet,
         NEW B, NEW m \in MasterSet, Drained(B, m)
  PROVE  /\ RetireShard(m) \in FitLists(f, B)
         /\ Chain(RetirePod, ReplicaList(m)) \in FitLists(f, B)
         /\ RetirePod(m) \in FitLists(f, B)
<1>1. PICK S : S = {m} \cup ReplicasOf(m)
  OBVIOUS
<1>2. \A p \in S : Goes(f, B, p)
  BY <1>1, ShardGoes
<1>3. ReplicaList(m) \in Seq(S)
  <2>1. TypeOK /\ PodsExist
    BY DEF AsObserved
  <2> QED  BY <1>1, <2>1, Observed, SeqMonotonic
<1>4. <<m>> \o ReplicaList(m) \in Seq(S)
  <2>1. <<m>> \in Seq(S)
    BY <1>1
  <2> QED  BY <1>3, <2>1, ConcatProperties
<1>5. Chain(RetirePod, <<m>> \o ReplicaList(m)) \in FitLists(f, B)
  BY <1>2, <1>4, RetireFits
<1>6. Chain(RetirePod, ReplicaList(m)) \in FitLists(f, B)
  BY <1>2, <1>3, RetireFits
<1>7. RetirePod(m) \in FitLists(f, B)
  BY <1>1, <1>2, ForgetFits
<1> QED  BY <1>5, <1>6, <1>7 DEF RetireShard

\* buildShardScaleInPlan has the old masters drained before it takes their replicas.
LEMMA ShardScaleInFramed ==
  ASSUME AsObserved
  PROVE  Framed(ShardScaleInPlan)
<1>1. /\ TypeOK /\ PodsExist /\ RequestTypes /\ exists \subseteq known
      /\ slotOwners = observedOwner /\ known \cap Pods \cap NewPods = {}
  BY DEF AsObserved, OnlyMembersReady
<1>2. CASE ScaleReady
  <2>1. PICK count \in Nat \ {0} : count = spec.shards
    BY <1>1, PlannerAssumption DEF RequestTypes
  <2>2. PICK base \in Int : base = nextPodOrdinal
    BY <1>1 DEF RequestTypes
  <2>3. GroupSize \in Nat /\ spec.replicas \in Nat
    BY <1>1, <2>2, GroupMasters
  <2>4. PICK size \in Nat : size = count * GroupSize
    <3>1. \A a, b \in Nat : a * b \in Nat
      OBVIOUS
    <3> QED  BY <2>3, <3>1
  <2>5. PICK pods : pods = Ordinals(nextPodOrdinal, size) /\ pods \in Seq(NewPods)
    BY <1>1, OrdinalsAreNew
  <2>6. PICK newMasters : newMasters = Each(LAMBDA i : GroupMaster(nextPodOrdinal, i), Ordinals(1, count))
    OBVIOUS
  <2>7. /\ newMasters \in Seq(Names) /\ Len(newMasters) = count
        /\ \A i \in 1..count : newMasters[i] = GroupMaster(base, i) /\ newMasters[i] \in NewPods
    <3>1. nextPodOrdinal \in Int /\ count \in Nat
      BY <2>2
    <3>2. newMasters \in Seq(Int) /\ Len(newMasters) = count /\ DOMAIN newMasters = 1..count
      BY <1>1, <2>6, <3>1, NewMastersListed
    <3>3. AreMasters(newMasters, nextPodOrdinal, count)
      BY <1>1, <2>6, <3>1, NewMastersListed
    <3>4. \A i \in 1..count : i \in Nat \ {0}
      OBVIOUS
    <3>5. \A i \in 1..count : GroupMaster(nextPodOrdinal, i) \in NewPods
      BY <1>1, <3>4, GroupsAreNew
    <3> QED  BY <2>2, <3>2, <3>3, <3>5, SeqMonotonic DEF Names, AreMasters
  <2>8. PICK seed \in Names : seed = Masters[1]
    <3>1. MasterSet # {}
      BY <1>2 DEF ScaleReady
    <3>2. 1 \in 1..Len(Masters)
      BY <1>1, <3>1, Observed, FS_EmptySet
    <3> QED  BY <1>1, <3>2, Observed, NamesHold
  <2>9. exists \cap NewPods = {}
    BY <1>1 DEF PodsExist
  <2>10. PICK f : Frames(f) /\ f.gone = exists /\ f.fixed = MasterSet /\ f.home = GroupHome(base)
    <3>1. NoneIsNew(exists)
      BY <2>9 DEF NoneIsNew
    <3>2. PICK f : FrameOf(f, exists, MasterSet, GroupHome(base))
      BY <3>1, FrameFields
    <3> QED  BY <3>2 DEF FrameOf
  <2>11. f.fresh = NewPods
    BY <2>10 DEF Frames
  <2>12. PICK a, b : a = Provision(pods) /\ b = MeetAll(seed, pods)
    OBVIOUS
  <2>13. a \in Seq(FreeSteps(f)) /\ b \in Seq(FreeSteps(f))
    BY <2>5, <2>11, <2>12, ProvisionFits, MeetAllFits
  <2>14. PICK ab : ab = a \o b /\ ab \in Seq(FreeSteps(f))
    BY <2>13, ConcatProperties
  <2>15. Houses(f, base, count)
    <3>1. \A r \in Int : r >= base => r \in f.fresh
      BY <2>2, <2>11 DEF NewPods
    <3> QED  BY <1>1, <2>10, <3>1, GroupsHouse
  <2>16. PICK before : before = ab \o ReplicateGroups(base, count)
    OBVIOUS
  <2>17. /\ before \in FitLists(f, {})
         /\ \A i \in 1..count : Backed(f, StepsOf(before), GroupMaster(base, i))
    <3>1. f.fresh \cap f.gone = {}
      BY <2>9, <2>10, <2>11
    <3> QED  BY <1>1, <2>14, <2>15, <2>16, <3>1, GroupsReady
  <2>18. PICK moves : moves = Migrations(newMasters)
    OBVIOUS
  <2>19. moves \in FitLists(f, {} \cup StepsOf(before))
    <3>1. PICK B : B = StepsOf(before) /\ B = {} \cup StepsOf(before)
      OBVIOUS
    <3>2. MasterSet \subseteq exists
      BY DEF MasterSet
    <3>3. \A i \in 1..Len(newMasters) : newMasters[i] \notin f.fixed /\ Backed(f, B, newMasters[i])
      BY <2>7, <2>9, <2>10, <2>17, <3>1, <3>2
    <3>4. Migrations(newMasters) \in FitLists(f, B)
      BY <1>1, <2>7, <3>3, MigrationsFit
    <3> QED  BY <2>18, <3>1, <3>4
  <2>20. PICK made : made = before \o moves
    OBVIOUS
  <2>21. made \in FitLists(f, {}) /\ StepsOf(made) = StepsOf(before) \cup StepsOf(moves)
    BY <2>17, <2>19, <2>20, FitConcat
  <2>22. PICK B : B = StepsOf(made) /\ B = {} \cup StepsOf(made)
    OBVIOUS
  <2>23. ASSUME NEW m \in MasterSet PROVE Drained(B, m)
    <3>1. m \in exists
      BY DEF MasterSet
    <3>2. newMasters # <<>> /\ \A i \in 1..Len(newMasters) : newMasters[i] # m
      BY <2>1, <2>7, <2>9, <3>1, EmptySeq
    <3>3. Drained(StepsOf(moves), m)
      BY <1>1, <2>7, <2>18, <3>2, MigrationsDrain
    <3>4. StepsOf(moves) \subseteq B
      BY <2>21, <2>22
    <3> QED  BY <3>3, <3>4 DEF Drained
  <2> DEFINE parts == [k \in DOMAIN Masters |-> RetireShard(Masters[k])]
  <2>24. /\ Len(Masters) \in Nat /\ DOMAIN Masters = 1..Len(Masters)
         /\ \A k \in 1..Len(Masters) : Masters[k] \in MasterSet
    BY <1>1, Observed, LenProperties
  <2>25. \A k \in 1..Len(Masters) : parts[k] \in FitLists(f, B)
    <3>1. \A m \in MasterSet : RetireShard(m) \in FitLists(f, B)
      BY <2>10, <2>23, RetireShardFits
    <3> QED  BY <2>24, <3>1
  <2>26. PICK e : e = Joined(Len(Masters), parts)
    OBVIOUS
  <2>27. e \in FitLists(f, {} \cup StepsOf(made))
    <3> HIDE DEF parts
    <3>1. Joined(Len(Masters), parts) \in FitLists(f, B)
      BY <2>24, <2>25, FitJoined
    <3> QED  BY <2>22, <2>26, <3>1
  <2>28. made \o e \in FitLists(f, {})
    BY <2>21, <2>27, FitConcat
  <2>29. Verified(made \o e) \in FitLists(f, {})
    BY <2>28, FitVerified
  <2>30. \/ ShardScaleInPlan = Verified(made \o e)
         \/ ShardScaleInPlan = <<>>
    <3>1. e = Chain(RetireShard, Masters)
      BY <2>26 DEF Chain, Each
    <3> HIDE DEF parts
    <3>2. made = ((a \o b) \o ReplicateGroups(base, count)) \o moves
      BY <2>14, <2>16, <2>20
    <3> QED  BY <2>1, <2>2, <2>4, <2>5, <2>6, <2>8, <2>12, <2>18, <3>1, <3>2 DEF ShardScaleInPlan
  <2> HIDE DEF parts
  <2> QED  BY <2>10, <2>29, <2>30, EmptyFramed DEF Framed
<1>3. CASE ~ScaleReady
  <2>1. ShardScaleInPlan = <<>>
    BY <1>3, Zenon DEF ShardScaleInPlan
  <2> QED  BY <2>1, EmptyFramed
<1> QED  BY <1>2, <1>3

\* The steps that replace the i-th shard have its slots moved to a master with its
\* replicas before the old master and its replicas are retired.
LEMMA ReplaceShardFits ==
  ASSUME AsObserved, NEW f, Frames(f), f.gone = exists, f.fixed = MasterSet,
         f.home = GroupHome(nextPodOrdinal), NEW i \in 1..Len(Masters)
  PROVE  ReplaceShard(i) \in FitLists(f, {})
<1> DEFINE seed == IF i = 1 THEN Masters[1] ELSE nextPodOrdinal
<1>1. /\ TypeOK /\ PodsExist /\ RequestTypes /\ exists \subseteq known /\ OwnerIndexExact
      /\ slotOwners = observedOwner /\ known \cap Pods \cap NewPods = {}
  BY DEF AsObserved, OnlyMembersReady
<1>2. PICK base \in Int : base = nextPodOrdinal
  BY <1>1 DEF RequestTypes
<1>3. i \in Nat \ {0}
  BY <1>1, Observed
<1>4. PICK first \in NewPods : first = GroupMaster(nextPodOrdinal, i)
  BY <1>1, <1>3, GroupsAreNew
<1>5. PICK pods : pods = Ordinals(first, GroupSize) /\ pods \in Seq(NewPods)
  BY <1>1, <1>3, <1>4, GroupsAreNew
<1>6. PICK old \in MasterSet : old = Masters[i] /\ old \in exists
  BY <1>1, Observed DEF MasterSet
<1>7. f.fresh = NewPods /\ exists \cap NewPods = {}
  BY <1>1 DEF Frames, PodsExist
<1>8. seed \in Names
  <2>1. Masters[i] \in Names
    BY <1>1, <1>6, NamesHold
  <2>2. i = 1 => Masters[1] \in Names
    BY <2>1
  <2> QED  BY <1>1, <2>2 DEF RequestTypes, Names
<1>9. PICK a, b : a = Provision(pods) /\ b = MeetAll(seed, pods)
  OBVIOUS
<1>10. a \in Seq(FreeSteps(f)) /\ b \in Seq(FreeSteps(f))
  <2> HIDE DEF seed
  <2> QED  BY <1>5, <1>7, <1>8, <1>9, ProvisionFits, MeetAllFits
<1>11. PICK ab : ab = a \o b /\ ab \in Seq(FreeSteps(f))
  BY <1>10, ConcatProperties
<1>12. first \in Int /\ GroupMaster(first, 1) = first
  <2>1. first \in Int
    BY <1>4 DEF NewPods
  <2>2. GroupSize \in Int
    BY <1>1, <2>1, GroupMasters
  <2> QED  BY <2>1, <2>2 DEF GroupMaster
<1>13. Houses(f, first, 1)
  <2>1. \A r \in Int : r >= base => r \in f.fresh
    BY <1>2, <1>7 DEF NewPods
  <2>2. f.home = GroupHome(base)
    BY <1>2
  <2>3. \A j \in Nat \ {0} : Houses(f, GroupMaster(base, j), 1)
    BY <1>1, <2>1, <2>2, GroupsHouse
  <2> QED  BY <1>2, <1>3, <1>4, <2>3
<1>14. PICK before : before = ab \o ReplicateGroups(first, 1)
  OBVIOUS
<1>15. before \in FitLists(f, {}) /\ Backed(f, StepsOf(before), first)
  <2>1. f.fresh \cap f.gone = {}
    BY <1>7
  <2>2. before \in FitLists(f, {}) /\ \A j \in 1..1 : Backed(f, StepsOf(before), GroupMaster(first, j))
    BY <1>1, <1>11, <1>12, <1>13, <1>14, <2>1, GroupsReady
  <2>3. 1 \in 1..1
    OBVIOUS
  <2>4. Backed(f, StepsOf(before), GroupMaster(first, 1))
    BY <2>2, <2>3
  <2> QED  BY <1>12, <2>2, <2>4
<1>16. PICK move : move = Migrate(old, first, slots[old])
  OBVIOUS
<1>17. /\ move.action = "MigrateSlots" /\ move.source = old /\ move.target = first
       /\ move.slots = slots[old]
  BY <1>16 DEF Migrate
<1>18. move \in PlanSteps
  <2>1. slots[old] \in SUBSET Slots
    BY <1>1 DEF MasterSet, TypeOK
  <2>2. old \in Names /\ first \in Names
    BY <1>1, <1>12, NamesHold DEF Names
  <2>3. move \in MigrateSteps
    BY <1>16, <2>1, <2>2, StepTypes
  <2> QED  BY <2>3 DEF PlanSteps, ChangePlanSteps, ChangingSteps
<1>19. <<move>> \in FitLists(f, {} \cup StepsOf(before))
  <2>1. first \notin f.fixed
    BY <1>7 DEF MasterSet
  <2>2. Fits(f, move, StepsOf(before))
    BY <1>15, <1>17, <2>1 DEF Fits, Gives
  <2>3. PICK B : B = StepsOf(before) /\ B = {} \cup StepsOf(before)
    OBVIOUS
  <2>4. <<move>> \in Seq({move}) /\ {move} \subseteq PlanSteps
    BY <1>18
  <2>5. <<move>> \in FitLists(f, B)
    BY <2>2, <2>3, <2>4, FitEach
  <2> QED  BY <2>3, <2>5
<1>20. PICK made : made = before \o <<move>>
  OBVIOUS
<1>21. made \in FitLists(f, {}) /\ StepsOf(made) = StepsOf(before) \cup StepsOf(<<move>>)
  BY <1>15, <1>19, <1>20, FitConcat
<1>22. PICK B : B = StepsOf(made) /\ B = {} \cup StepsOf(made)
  OBVIOUS
<1>23. Drained(B, old)
  <2>1. move \in StepsOf(<<move>>)
    <3>1. <<move>>[1] = move /\ 1 \in 1..Len(<<move>>)
      OBVIOUS
    <3> QED  BY <3>1 DEF StepsOf
  <2>2. move \in B
    BY <1>21, <1>22, <2>1
  <2>3. ASSUME NEW s \in Slots, observedOwner[s] = old PROVE s \in move.slots
    <3>1. old \in Keys
      BY <1>1 DEF MasterSet, TypeOK
    <3> QED  BY <1>1, <1>17, <2>3, <3>1 DEF OwnerIndexExact
  <2> QED  BY <1>17, <2>2, <2>3 DEF Drained
<1>24. PICK e, d : e = Chain(RetirePod, ReplicaList(old)) /\ d = RetirePod(old)
  OBVIOUS
<1>25. e \in FitLists(f, B) /\ d \in FitLists(f, B)
  BY <1>23, <1>24, RetireShardFits
<1>26. PICK most : most = made \o e
  OBVIOUS
<1>27. most \in FitLists(f, {}) /\ StepsOf(most) = B \cup StepsOf(e)
  <2>1. e \in FitLists(f, {} \cup StepsOf(made))
    BY <1>22, <1>25
  <2> QED  BY <1>21, <1>22, <1>26, <2>1, FitConcat
<1>28. d \in FitLists(f, {} \cup StepsOf(most))
  <2>1. B \subseteq {} \cup StepsOf(most)
    BY <1>27
  <2> QED  BY <1>25, <2>1, ListsLater
<1>29. most \o d \in FitLists(f, {})
  BY <1>27, <1>28, FitConcat
<1>30. ReplaceShard(i) = most \o d
  <2>1. most = (((a \o b) \o ReplicateGroups(first, 1)) \o <<Migrate(old, first, slots[old])>>) \o e
    BY <1>11, <1>14, <1>16, <1>20, <1>26
  <2> QED  BY <1>4, <1>5, <1>6, <1>9, <1>24, <2>1 DEF ReplaceShard
<1> QED  BY <1>29, <1>30

\* buildImageDriftPlan replaces the shards so, one after the other.
LEMMA ImageDriftFramed ==
  ASSUME AsObserved
  PROVE  Framed(ImageDriftPlan)
<1>1. /\ TypeOK /\ PodsExist /\ RequestTypes /\ exists \subseteq known
      /\ known \cap Pods \cap NewPods = {}
  BY DEF AsObserved, OnlyMembersReady
<1>2. PICK f : /\ Frames(f) /\ f.gone = exists /\ f.fixed = MasterSet
               /\ f.home = GroupHome(nextPodOrdinal)
  <2>1. NoneIsNew(exists)
    BY <1>1 DEF NoneIsNew
  <2>2. PICK f : FrameOf(f, exists, MasterSet, GroupHome(nextPodOrdinal))
    BY <2>1, FrameFields
  <2> QED  BY <2>2 DEF FrameOf
<1>3. PICK n \in Nat : n = Len(Masters)
  BY <1>1, Observed
<1> DEFINE parts == [k \in DOMAIN Ordinals(1, n) |-> ReplaceShard(Ordinals(1, n)[k])]
<1>4. /\ Len(Ordinals(1, n)) = n /\ DOMAIN Ordinals(1, n) = 1..n
      /\ \A i \in 1..n : Ordinals(1, n)[i] = i
  BY Counting
<1>5. \A i \in 1..n : parts[i] \in FitLists(f, {})
  <2>1. \A i \in 1..n : ReplaceShard(i) \in FitLists(f, {})
    BY <1>2, <1>3, ReplaceShardFits
  <2> QED  BY <1>4, <2>1
<1>6. ImageDriftPlan = Verified(Joined(n, parts)) \/ ImageDriftPlan = <<>>
  BY <1>3, <1>4 DEF ImageDriftPlan, Chain, Each
<1> HIDE DEF parts
<1>7. Joined(n, parts) \in FitLists(f, {})
  BY <1>5, FitJoined
<1>8. Verified(Joined(n, parts)) \in FitLists(f, {})
  BY <1>7, FitVerified
<1> QED  BY <1>2, <1>6, <1>8, EmptyFramed DEF Framed

\* buildReplicaScaleOutPlan only adds replicas.
LEMMA ReplicaScaleOutFramed ==
  ASSUME AsObserved
  PROVE  Framed(ReplicaScaleOutPlan)
<1>1. Framed(Verified(ProvisionReplicas(Missing)))
  <2>1. {} \cap ready = {}
    OBVIOUS
  <2> QED  BY <2>1, RepairPlanFramed
<1> QED  BY <1>1, EmptyFramed DEF ReplicaScaleOutPlan

\* The frame of a plan that creates a cluster: whatever was observed counts for nothing.
NewFrame(f) ==
    /\ f.reps = [m \in Keys |-> {}] /\ f.gone = {} /\ f.fixed = {}
    /\ f.home = GroupHome(0) /\ f.fresh = Int

\* buildCreatePlan gives slots to masters that have their replicas.
LEMMA CreatePlanFits ==
  ASSUME RequestTypes, NEW f, NewFrame(f)
  PROVE  /\ CreatePlan \in FitLists(f, {})
         /\ \E i \in DOMAIN CreatePlan : CreatePlan[i].action = "AddSlots"
<1>1. PICK making \in Seq(MakingSteps), adds \in Seq(AddSteps) :
        /\ CreatePlan = Append(making \o adds, VerifySpec)
        /\ Len(adds) = spec.shards
        /\ CreateBegins(making)
        /\ \A i \in 1..Len(adds) : adds[i].pod = GroupMaster(0, i)
  BY CreatePlanBuilt
<1>2. PICK shards \in Nat \ {0} : shards = spec.shards
  BY PlannerAssumption DEF RequestTypes
<1>3. PICK pods \in Seq(Int) :
        /\ pods # <<>>
        /\ making = (Provision(pods) \o MeetAll(0, Tail(pods))) \o ReplicateGroups(0, shards)
  BY <1>1, <1>2 DEF CreateBegins
<1>4. PICK a, b : a = Provision(pods) /\ b = MeetAll(0, Tail(pods))
  OBVIOUS
<1>5. a \in Seq(FreeSteps(f))
  <2>1. Int \in SUBSET Names
    BY DEF Names
  <2>2. a \in Seq(EnsureSteps(Int))
    BY <1>4, <2>1, ProvisionEnsures
  <2>3. EnsureSteps(Int) \subseteq FreeSteps(f)
    BY FreeKinds DEF NewFrame
  <2> QED  BY <2>2, <2>3, SeqMonotonic
<1>6. b \in Seq(FreeSteps(f))
  <2>1. Tail(pods) \in Seq(Int)
    BY <1>3, HeadTailProperties
  <2>2. Tail(pods) \in Seq(Names) /\ 0 \in Names
    BY <2>1, SeqMonotonic DEF Names
  <2> QED  BY <1>4, <2>2, MeetAllFits
<1>7. PICK ab : ab = a \o b /\ ab \in Seq(FreeSteps(f))
  BY <1>5, <1>6, ConcatProperties
<1>8. PICK base \in Int : base = 0
  OBVIOUS
<1>9. Houses(f, base, shards)
  <2>1. f.home = GroupHome(base) /\ \A r \in Int : r >= base => r \in f.fresh
    BY <1>8 DEF NewFrame
  <2> QED  BY <2>1, GroupsHouse
<1>10. /\ making \in FitLists(f, {})
       /\ \A i \in 1..shards : Backed(f, StepsOf(making), GroupMaster(base, i))
  <2>1. making = ab \o ReplicateGroups(base, shards)
    BY <1>3, <1>4, <1>7, <1>8
  <2>2. f.fresh \cap f.gone = {}
    BY DEF NewFrame
  <2> QED  BY <1>7, <1>9, <2>1, <2>2, GroupsReady
<1>11. adds \in FitLists(f, {} \cup StepsOf(making))
  <2>1. adds \in Seq(PlanSteps)
    BY SeqMonotonic DEF PlanSteps
  <2>2. ASSUME NEW j \in 1..Len(adds)
        PROVE  Fits(f, adds[j], ({} \cup StepsOf(making)) \cup Earlier(adds, j))
    <3>1. PICK e : e = adds[j]
      OBVIOUS
    <3>2. e \in AddSteps
      BY <3>1, ElementOfSeq
    <3>3. e.action = "AddSlots" /\ e.pod = GroupMaster(base, j)
      BY <1>1, <1>8, <3>1, <3>2 DEF AddSteps
    <3>4. Backed(f, StepsOf(making), e.pod)
      BY <1>1, <1>2, <1>10, <3>3
    <3>5. Fits(f, e, StepsOf(making))
      BY <3>3, <3>4 DEF Fits, Gives, NewFrame
    <3>6. StepsOf(making) \subseteq ({} \cup StepsOf(making)) \cup Earlier(adds, j)
      OBVIOUS
    <3> QED  BY <3>1, <3>5, <3>6, FitsLater
  <2> QED  BY <2>1, <2>2 DEF FitLists
<1>12. PICK body : body = making \o adds
  OBVIOUS
<1>13. body \in FitLists(f, {})
  BY <1>10, <1>11, <1>12, FitConcat
<1>14. PICK add \in AddSteps : add = adds[1] /\ Has(adds, add)
  BY <1>1, <1>2, ElementOfSeq DEF Has
<1>15. making \in Seq(PlanSteps) /\ adds \in Seq(PlanSteps) /\ body \in Seq(PlanSteps)
  BY <1>10, <1>11, <1>13 DEF FitLists
<1>16. Has(body, add)
  BY <1>12, <1>14, <1>15, ConcatHas
<1>17. body # <<>>
  BY <1>16, EmptySeq DEF Has
<1>18. CreatePlan \in FitLists(f, {})
  <2>1. CreatePlan = Verified(body)
    BY <1>1, <1>12, <1>17 DEF Verified
  <2> QED  BY <1>13, <2>1, FitVerified
<1>19. Has(CreatePlan, add)
  <2>1. VerifySpec \in PlanSteps
    BY DEF PlanSteps, ChangePlanSteps, VerifySteps, VerifySpec
  <2>2. CreatePlan = body \o <<VerifySpec>> /\ <<VerifySpec>> \in Seq(PlanSteps)
    BY <1>1, <1>12, <1>15, <2>1, AppendIsConcat
  <2> QED  BY <1>15, <1>16, <2>2, ConcatHas
<1>20. \E i \in DOMAIN CreatePlan : CreatePlan[i].action = "AddSlots"
  <2>1. PICK i \in 1..Len(CreatePlan) : CreatePlan[i] = add
    BY <1>19 DEF Has
  <2>2. CreatePlan \in Seq(PlanSteps)
    BY <1>18 DEF FitLists
  <2>3. i \in DOMAIN CreatePlan
    BY <2>1, <2>2, LenProperties
  <2>4. add.action = "AddSlots"
    BY DEF AddSteps
  <2> QED  BY <2>1, <2>3, <2>4
<1> QED  BY <1>18, <1>20

\* Each of the other builders makes a framed plan.
LEMMA BuildGoPlanFramed ==
  ASSUME AsObserved, MasterSet # {}, NEW lost, lost \cap ready = {}
  PROVE  Framed(BuildGoPlan(lost))
<1>1. \A steps, others : OrElse(steps, others) \in {steps, others}
  BY DEF OrElse
<1>2. PICK a, b, c, d, e, g :
        /\ a = RepairPlan(lost) /\ b = ImageDriftPlan /\ c = ReplicaScaleInPlan
        /\ d = ShardScaleOutPlan /\ e = ShardScaleInPlan /\ g = ReplicaScaleOutPlan
  OBVIOUS
<1>3. Framed(a) /\ Framed(b) /\ Framed(c) /\ Framed(d) /\ Framed(e) /\ Framed(g)
  BY <1>2, RepairPlanFramed, ImageDriftFramed, ReplicaScaleInFramed, ShardScaleOutFramed,
     ShardScaleInFramed, ReplicaScaleOutFramed
<1>4. BuildGoPlan(lost) = OrElse(a, OrElse(b, OrElse(c, OrElse(d, OrElse(e, g)))))
  BY <1>2 DEF BuildGoPlan
<1>5. BuildGoPlan(lost) \in {a, b, c, d, e, g}
  BY <1>1, <1>4
<1> QED  BY <1>3, <1>5

\* Before a plan is built only members are ready, and replicas.
LEMMA InitRedundancyInv == PlannerInit => RedundancyInv
<1> SUFFICES ASSUME PlannerInit PROVE RedundancyInv
  OBVIOUS
<1>1. AllocationInv
  BY InitAllocationInv
<1>2. cursor = 0 /\ \A p \in known \cap Pods : p < nextPodOrdinal
  BY DEF PlannerInit, Request
<1>3. PICK seen, masterOf : Observation(seen, masterOf)
  BY DEF PlannerInit, Init
<1>4. known = exists \cup clusterMember /\ clusterMember = seen /\ ready \subseteq clusterMember
  BY <1>3 DEF Observation
<1>5. known \cap Pods \cap NewPods = {}
  <2> SUFFICES ASSUME NEW p \in known \cap Pods, p \in NewPods PROVE FALSE
    OBVIOUS
  <2>1. nextPodOrdinal \in Int /\ p \in Int
    BY <1>1 DEF NewPods, AllocationInv, FinishInv, PlannerInv, RequestTypes
  <2> QED  BY <1>2, <2>1 DEF NewPods
<1>6. ASSUME NEW r \in Keys, role[r] = "replica" PROVE r \in known
  <2>1. r \in seen
    BY <1>3, <1>6 DEF Observation, ObservedRoles
  <2> QED  BY <1>4, <2>1
<1>7. OnlyMembersReady
  BY <1>4, <1>5, <1>6 DEF OnlyMembersReady
<1>8. exists \subseteq known
  BY <1>4
<1> QED  BY <1>1, <1>2, <1>7, <1>8 DEF RedundancyInv

\* A plan is built of what was observed.
LEMMA BuiltOfObserved ==
  ASSUME RedundancyInv, cursor = 0
  PROVE  AsObserved
<1>1. PlannerInv /\ slotOwners = observedOwner /\ exists \subseteq known /\ OnlyMembersReady
  BY DEF RedundancyInv, AllocationInv, FinishInv
<1> QED  BY <1>1 DEF AsObserved, PlannerInv, IInv, NodesInv, ReadyHasPod

\* Nothing was simulated when a plan is built.
LEMMA BuildPlanStarts ==
  ASSUME BuildPlan
  PROVE  /\ Passed' = {} /\ cursor' = 1
         /\ UNCHANGED <<vars, spec, nextPodOrdinal>>
         /\ UNCHANGED <<known, exists, ready, clusterMember, role, replicaOf, slots, slotOwners, observedOwner>>
         /\ \A m : ReplicasOf(m)' = ReplicasOf(m)
<1>1. cursor' = 1 /\ UNCHANGED <<vars, requestVars>>
  BY DEF BuildPlan
<1>2. Passed' = {}
  <2>1. Passed' = {plan'[g] : g \in 1..1 - 1}
    BY <1>1 DEF Passed, Earlier
  <2>2. 1..1 - 1 = {}
    OBVIOUS
  <2> QED  BY <2>1, <2>2
<1>3. UNCHANGED <<known, exists, ready, clusterMember, role, replicaOf, slots, slotOwners, observedOwner>>
  BY <1>1 DEF vars, podVars, memberVars, roleVars, slotVars, planVars
<1> QED  BY <1>1, <1>2, <1>3 DEF requestVars, ReplicasOf, ReadyMembers

\* A built plan is guarded.
LEMMA BuildGuards ==
  ASSUME RedundancyInv, BuildPlan
  PROVE  (\E f : Guarded(f))'
<1>1. cursor = 0
  BY DEF BuildPlan
<1>2. AsObserved
  BY <1>1, BuiltOfObserved
<1>3. /\ TypeOK /\ PodsExist /\ RequestTypes /\ slotOwners = observedOwner
      /\ exists \subseteq known /\ ready \subseteq exists
      /\ ready \subseteq clusterMember /\ known \cap Pods \cap NewPods = {}
      /\ \A r \in Keys : role[r] = "replica" => r \in known
  BY <1>2 DEF AsObserved, OnlyMembersReady
<1>4. /\ Passed' = {} /\ cursor' = 1
      /\ UNCHANGED <<spec, ready, role, replicaOf, slotOwners, observedOwner>>
      /\ \A m : ReplicasOf(m)' = ReplicasOf(m)
  BY BuildPlanStarts
<1>5. PICK lost : plan' = BuildGoPlan(lost) /\ lost \cap ready = {}
  BY DEF BuildPlan
<1>6. PICK p : p = plan'
  OBVIOUS
<1>7. ASSUME NEW f, p \in FitLists(f, {}),
             \A m \in Keys : f.reps[m] \cap f.fresh = {},
             f.gone \cap f.fresh \cap Pods = {},
             \A m \in Keys : \A r \in f.reps[m] : r \notin f.gone => r \in ReplicasOf(m),
             \A m \in f.fixed : \A s \in Slots : slotOwners[s] = m => observedOwner[s] = m,
             Creates' \/ \A m, r \in Keys :
               /\ role[r] = "replica" /\ replicaOf[r] = m
               /\ r \in ready \/ r \in f.fresh \cap Pods
               => r \in f.reps[m]
      PROVE  Guarded(f)'
  <2>1. (plan \in FitLists(f, {}))'
    <3>1. (p \in FitLists(f, {}))'
      BY <1>4, <1>7, FitListsKept
    <3> QED  BY <1>6, <3>1
  <2>2. ReplicasStay(f)'
    BY <1>4, <1>7 DEF ReplicasStay, Following
  <2>3. FixedLose(f)'
    BY <1>4, <1>7 DEF FixedLose
  <2>4. (Creates \/ ReplicasKnown(f))'
    BY <1>4, <1>7 DEF ReplicasKnown
  <2> QED  BY <1>7, <2>1, <2>2, <2>3, <2>4 DEF Guarded
<1>8. CASE MasterSet # {}
  <2>1. PICK f : Frames(f) /\ p \in FitLists(f, {})
    BY <1>2, <1>5, <1>6, <1>8, BuildGoPlanFramed DEF Framed
  <2>2. \A m \in Keys : f.reps[m] = ReplicasOf(m)
    BY <2>1 DEF Frames
  <2>3. f.fresh = NewPods /\ f.gone \cap f.fresh \cap Pods = {}
    BY <2>1 DEF Frames, NoneIsNew
  <2>4. \A m \in Keys : f.reps[m] \cap f.fresh = {}
    BY <1>3, <2>2, <2>3 DEF ReplicasOf, PodsExist
  <2>5. ASSUME NEW m \in Keys, NEW r \in Keys, role[r] = "replica", replicaOf[r] = m,
               r \in ready \/ r \in f.fresh \cap Pods
        PROVE  r \in f.reps[m]
    <3>1. r \in ready
      BY <1>3, <2>3, <2>5
    <3> QED  BY <1>3, <2>2, <2>5, <3>1 DEF ReplicasOf, ReadyMembers
  <2>6. Guarded(f)'
    BY <1>3, <1>7, <2>1, <2>2, <2>3, <2>4, <2>5
  <2> QED  BY <2>6
<1>9. CASE MasterSet = {}
  <2>1. PICK f : f = [reps |-> [m \in Keys |-> {}], gone |-> {}, fixed |-> {},
                      home |-> GroupHome(0), fresh |-> Int]
    OBVIOUS
  <2>2. NewFrame(f)
    BY <2>1 DEF NewFrame
  <2>3. p = CreatePlan
    BY <1>5, <1>6, <1>9 DEF BuildGoPlan
  <2>4. p \in FitLists(f, {}) /\ Creates'
    BY <1>3, <1>6, <2>2, <2>3, CreatePlanFits DEF Creates
  <2>5. /\ \A m \in Keys : f.reps[m] = {}
        /\ f.gone = {} /\ f.fixed = {}
    BY <2>2 DEF NewFrame
  <2>6. Guarded(f)'
    BY <1>7, <2>4, <2>5
  <2> QED  BY <2>6
<1> QED  BY <1>8, <1>9

\* Every step keeps the invariant.
LEMMA RedundancyInvKept == RedundancyInv /\ [PlannerNext]_plannerVars => RedundancyInv'
<1> SUFFICES ASSUME RedundancyInv, [PlannerNext]_plannerVars PROVE RedundancyInv'
  OBVIOUS
<1>1. AllocationInv'
  BY AllocationInvKept DEF RedundancyInv
<1>2. exists \subseteq known
  BY DEF RedundancyInv
<1>3. CASE BuildPlan
  <2>1. exists' \subseteq known' /\ cursor' # 0
    BY <1>2, <1>3, BuildPlanStarts
  <2> QED  BY <1>1, <1>3, <2>1, BuildGuards DEF RedundancyInv
<1>4. CASE SimulateStep
  <2>1. cursor \in DOMAIN plan /\ Perform(plan[cursor]) /\ cursor' = cursor + 1
    BY <1>4 DEF SimulateStep
  <2>2. TypeOK /\ plan \in Seq(PlanSteps)
    BY DEF RedundancyInv, AllocationInv, FinishInv, PlannerInv, IInv
  <2>3. cursor # 0 /\ cursor' # 0
    <3>1. cursor \in 1..Len(plan) /\ Len(plan) \in Nat
      BY <2>1, <2>2, LenProperties
    <3> QED  BY <2>1, <3>1
  <2>4. PICK f : Guarded(f)
    BY <2>3 DEF RedundancyInv
  <2>5. Guarded(f)'
    BY <1>4, <2>4, GuardedKept
  <2>6. exists' \subseteq known'
    BY <1>2, <2>1, <2>2, PerformRoles
  <2> QED  BY <1>1, <2>3, <2>5, <2>6 DEF RedundancyInv
<1>5. CASE AcceptPlan \/ UNCHANGED plannerVars
  <2>1. UNCHANGED <<plan, cursor, spec, nextPodOrdinal, observedOwner, slotOwners,
                    known, exists, ready, clusterMember, role, replicaOf>>
    BY <1>5 DEF AcceptPlan, VerifyCluster, plannerVars, vars, podVars, memberVars, roleVars,
                slotVars, planVars, requestVars
  <2>2. Passed' = Passed
    BY <2>1 DEF Passed, Earlier
  <2>3. OnlyMembersReady => OnlyMembersReady'
    BY <2>1 DEF OnlyMembersReady, NewPods
  <2>4. ASSUME NEW f, Guarded(f) PROVE Guarded(f)'
    <3>1. (plan \in FitLists(f, {}))'
      <4>1. PICK p : p = plan
        OBVIOUS
      <4>2. p \in FitLists(f, {})
        BY <2>4, <4>1 DEF Guarded
      <4>3. (p \in FitLists(f, {}))'
        BY <2>1, <4>2, FitListsKept
      <4> QED  BY <2>1, <4>1, <4>3
    <3>2. ReplicasStay(f)'
      <4>1. \A m : ReplicasOf(m)' = ReplicasOf(m)
        BY <2>1 DEF ReplicasOf, ReadyMembers
      <4> QED  BY <2>2, <2>4, <4>1 DEF Guarded, ReplicasStay, Following
    <3>3. FixedLose(f)'
      BY <2>1, <2>2, <2>4 DEF Guarded, FixedLose
    <3>4. (Creates \/ ReplicasKnown(f))'
      BY <2>1, <2>2, <2>4 DEF Guarded, ReplicasKnown, Following, Creates
    <3> QED  BY <2>4, <3>1, <3>2, <3>3, <3>4 DEF Guarded
  <2> QED  BY <1>1, <2>1, <2>3, <2>4 DEF RedundancyInv
<1> QED  BY <1>3, <1>4, <1>5 DEF PlannerNext

\* It keeps the redundancy: the steps that are not simulated change no node.
LEMMA StepsKeepRedundancy ==
  RedundancyInv /\ [PlannerNext]_plannerVars => KeepsRedundancy \/ UNCHANGED plannerVars
<1> SUFFICES ASSUME RedundancyInv, PlannerNext PROVE KeepsRedundancy
  OBVIOUS
<1>1. CASE SimulateStep
  <2>1. cursor \in DOMAIN plan /\ plan \in Seq(PlanSteps)
    BY <1>1 DEF SimulateStep, RedundancyInv, AllocationInv, FinishInv, PlannerInv
  <2>2. cursor # 0
    <3>1. cursor \in 1..Len(plan) /\ Len(plan) \in Nat
      BY <2>1, LenProperties
    <3> QED  BY <3>1
  <2>3. PICK f : Guarded(f)
    BY <2>2 DEF RedundancyInv
  <2> QED  BY <1>1, <2>3, GuardedKeepsRedundancy
<1>2. CASE BuildPlan \/ AcceptPlan
  <2>1. UNCHANGED <<exists, ready, clusterMember, role, replicaOf, slots>>
    BY <1>2 DEF BuildPlan, AcceptPlan, VerifyCluster, vars, podVars, memberVars, roleVars,
                slotVars
  <2>2. \A m : ReplicasOf(m)' = ReplicasOf(m)
    BY <2>1 DEF ReplicasOf, ReadyMembers
  <2>3. \A m : ReplicaCount(m)' = ReplicaCount(m)
    BY <2>2 DEF ReplicaCount
  <2>4. ASSUME NEW m \in MasterSet PROVE ReplicaCount(m)' >= ReplicaCount(m)
    <3>1. TypeOK
      BY DEF RedundancyInv, AllocationInv, FinishInv, PlannerInv, IInv
    <3>2. IsFiniteSet(ReplicasOf(m))
      BY <3>1, KeysAssumption, FS_Subset DEF TypeOK, ReplicasOf
    <3>3. ReplicaCount(m) \in Nat
      BY <3>2, FS_CardinalityType DEF ReplicaCount
    <3> QED  BY <2>3, <3>3
  <2>5. \A k : slots'[k] \ slots[k] = {}
    BY <2>1
  <2> QED  BY <2>4, <2>5 DEF KeepsRedundancy
<1> QED  BY <1>1, <1>2 DEF PlannerNext

\* For any numbers of pods, slots, shards and replicas: no step of a plan takes from a
\* slot owner a replica that the spec asks for, and none gives slots to a node without
\* its replicas.
THEOREM PlansKeepRedundancy == PlannerSpec => RedundancyKept
<1>1. RedundancyInv /\ [PlannerNext]_plannerVars => [KeepsRedundancy]_plannerVars
  BY StepsKeepRedundancy
<1>2. PlannerSpec => []RedundancyInv
  BY InitRedundancyInv, RedundancyInvKept, PTL DEF PlannerSpec
<1>3. PlannerSpec => [][KeepsRedundancy]_plannerVars
  BY <1>1, <1>2, PTL DEF PlannerSpec
<1> QED  BY <1>3 DEF RedundancyKept, KeepsRedundancy
=============================================================================
