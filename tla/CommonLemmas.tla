----------------------------- MODULE CommonLemmas -----------------------------
(***************************************************************************)
(* Lemmas that the proofs of several components rest on: about SumOf for     *)
(* every finite set of rows whose amounts are bounded, as the amounts of a   *)
(* payment's refunds are by what was paid, about sequences of rows, about    *)
(* sets of handlers that are counted, about the newest of some rows, and     *)
(* about the places a finite set of numbers has and its pages.               *)
(***************************************************************************)
EXTENDS Money, SequenceTheorems, FiniteSetTheorems, WellFoundedInduction, TLAPS

-----------------------------------------------------------------------------
(* Sums.                                                                   *)

\* The units of one row are as many as its amount.
LEMMA UnitsOfOneRow ==
    \A n \in Nat : IsFiniteSet(1 .. n) /\ Cardinality(1 .. n) = n
<1>1. TAKE n \in Nat
<1>2. /\ IsFiniteSet(1 .. n)
      /\ Cardinality(1 .. n) = IF 1 > n THEN 0 ELSE n - 1 + 1
  BY FS_Interval
<1> QED
  BY <1>2

\* Finitely many rows of bounded amounts hold finitely many units.
LEMMA UnitsFinite ==
    ASSUME NEW S, IsFiniteSet(S), NEW M \in Nat, NEW amount,
           \A k \in S : amount[k] \in 0 .. M
    PROVE  IsFiniteSet(Units(amount, S))
<1>1. IsFiniteSet(1 .. M)
  BY FS_Interval
<1>2. IsFiniteSet(S \X (1 .. M))
  BY <1>1, FS_Product
<1>3. Units(amount, S) \subseteq S \X (1 .. M)
  BY DEF Units
<1> QED
  BY <1>2, <1>3, FS_Subset

\* A sum of bounded amounts is a natural number.
LEMMA SumOfType ==
    ASSUME NEW S, IsFiniteSet(S), NEW M \in Nat, NEW amount,
           \A k \in S : amount[k] \in 0 .. M
    PROVE  SumOf(amount, S) \in Nat
  BY UnitsFinite, FS_CardinalityType DEF SumOf

\* The sum over no rows is zero.
LEMMA SumOfEmpty == \A amount : SumOf(amount, {}) = 0
<1>1. \A amount : Units(amount, {}) = {}
  BY DEF Units
<1> QED
  BY <1>1, FS_EmptySet DEF SumOf

\* A sum depends only on the amounts of its own rows.
LEMMA SumOfExtensional ==
    ASSUME NEW S, NEW a, NEW b, \A k \in S : a[k] = b[k]
    PROVE  SumOf(a, S) = SumOf(b, S)
<1>1. Units(a, S) = Units(b, S)
  BY DEF Units
<1> QED
  BY <1>1 DEF SumOf

\* A new row adds its amount to the sum.
LEMMA SumOfAdd ==
    ASSUME NEW S, IsFiniteSet(S), NEW r, r \notin S, NEW M \in Nat, NEW amount,
           \A k \in S \cup {r} : amount[k] \in 0 .. M
    PROVE  SumOf(amount, S \cup {r}) = SumOf(amount, S) + amount[r]
<1> DEFINE old == Units(amount, S)
           new == {r} \X (1 .. amount[r])
<1>1. IsFiniteSet(old)
  BY UnitsFinite
<1>2. /\ IsFiniteSet(1 .. amount[r])
      /\ Cardinality(1 .. amount[r]) = amount[r]
  BY UnitsOfOneRow, amount[r] \in Nat
<1>3. IsFiniteSet({r}) /\ Cardinality({r}) = 1
  BY FS_Singleton
<1>4. IsFiniteSet(new) /\ Cardinality(new) = amount[r]
  BY <1>2, <1>3, FS_Product
<1>5. old \cap new = {}
  BY DEF Units
<1>6. Units(amount, S \cup {r}) = old \cup new
  BY DEF Units
<1>7. Cardinality(old \cup new) = Cardinality(old) + Cardinality(new) - Cardinality(old \cap new)
  BY <1>1, <1>4, FS_Union
<1>8. Cardinality(old \cap new) = 0
  BY <1>5, FS_EmptySet
<1>9. Cardinality(old) \in Nat
  BY <1>1, FS_CardinalityType
<1>10. amount[r] \in Nat
  OBVIOUS
<1>11. Cardinality(old \cup new) = Cardinality(old) + amount[r]
  <2> HIDE DEF old, new
  <2> QED
    BY <1>4, <1>7, <1>8, <1>9, <1>10
<1> QED
  BY <1>6, <1>11 DEF SumOf

\* Fewer rows never sum to more.
LEMMA SumOfMonotone ==
    ASSUME NEW S, IsFiniteSet(S), NEW T \in SUBSET S, NEW M \in Nat, NEW amount,
           \A k \in S : amount[k] \in 0 .. M
    PROVE  SumOf(amount, T) <= SumOf(amount, S)
<1>1. Units(amount, T) \subseteq Units(amount, S)
  BY DEF Units
<1> QED
  BY <1>1, UnitsFinite, FS_Subset DEF SumOf

\* A sum depends only on the rows with an amount, and grows with them.
LEMMA SumOfCovers ==
    ASSUME NEW S, IsFiniteSet(S), NEW T, NEW M \in Nat, NEW amount,
           \A k \in S : amount[k] \in 0 .. M, \A k \in T : amount[k] \in 0 .. M,
           \A k \in T : amount[k] > 0 => k \in S
    PROVE  SumOf(amount, T) <= SumOf(amount, S)
<1>1. Units(amount, T) \subseteq Units(amount, S)
  <2> SUFFICES ASSUME NEW k \in T, NEW i \in 1 .. amount[k]
               PROVE  <<k, i>> \in Units(amount, S)
    BY DEF Units
  <2>1. amount[k] \in 0 .. M
    OBVIOUS
  <2>2. amount[k] > 0
    BY <2>1
  <2> QED
    BY <2>2 DEF Units
<1> QED
  BY <1>1, UnitsFinite, FS_Subset DEF SumOf

\* The sum over rows that are in one of two sets is at most the sum over both.
LEMMA SumOfSplit ==
    ASSUME NEW S, IsFiniteSet(S), NEW T, IsFiniteSet(T), NEW U, IsFiniteSet(U),
           NEW M \in Nat, NEW amount,
           \A k \in S \cup T \cup U : amount[k] \in 0 .. M,
           \A k \in U : amount[k] > 0 => k \in S \cup T
    PROVE  SumOf(amount, U) <= SumOf(amount, S) + SumOf(amount, T)
<1>1. IsFiniteSet(Units(amount, S)) /\ IsFiniteSet(Units(amount, T))
  BY UnitsFinite
<1>2. Units(amount, U) \subseteq Units(amount, S) \cup Units(amount, T)
  <2> SUFFICES ASSUME NEW k \in U, NEW i \in 1 .. amount[k]
               PROVE  <<k, i>> \in Units(amount, S) \cup Units(amount, T)
    BY DEF Units
  <2>1. amount[k] \in 0 .. M
    OBVIOUS
  <2>2. amount[k] > 0
    BY <2>1
  <2> QED
    BY <2>2 DEF Units
<1>3. /\ IsFiniteSet(Units(amount, S) \cup Units(amount, T))
      /\ Cardinality(Units(amount, S) \cup Units(amount, T))
            = SumOf(amount, S) + SumOf(amount, T)
              - Cardinality(Units(amount, S) \cap Units(amount, T))
  BY <1>1, FS_Union DEF SumOf
<1>4. Cardinality(Units(amount, S) \cap Units(amount, T)) \in Nat
  <2>1. IsFiniteSet(Units(amount, S) \cap Units(amount, T))
    BY <1>1, FS_Subset
  <2> QED
    BY <2>1, FS_CardinalityType
<1>5. SumOf(amount, U) <= Cardinality(Units(amount, S) \cup Units(amount, T))
  BY <1>2, <1>3, FS_Subset DEF SumOf
<1>6. SumOf(amount, S) \in Nat /\ SumOf(amount, T) \in Nat /\ SumOf(amount, U) \in Nat
  BY SumOfType
<1>7. Cardinality(Units(amount, S) \cup Units(amount, T)) <= SumOf(amount, S) + SumOf(amount, T)
  BY <1>3, <1>4, <1>6
<1> QED
  BY <1>3, <1>5, <1>6, <1>7, FS_CardinalityType

\* Rows without an amount add up to nothing.
LEMMA SumOfNothing ==
    ASSUME NEW S, NEW amount, \A k \in S : amount[k] = 0
    PROVE  SumOf(amount, S) = 0
<1>1. Units(amount, S) = {}
  BY DEF Units
<1> QED
  BY <1>1, FS_EmptySet DEF SumOf

\* A row is part of the sum over rows it belongs to, and counts once more when it grows.
LEMMA SumOfElement ==
    ASSUME NEW S, IsFiniteSet(S), NEW r \in S, NEW M \in Nat, NEW amount,
           \A k \in S : amount[k] \in 0 .. M
    PROVE  /\ SumOf(amount, S) = SumOf(amount, S \ {r}) + amount[r]
           /\ SumOf(amount, S \ {r}) \in Nat /\ IsFiniteSet(S \ {r})
<1>1. IsFiniteSet(S \ {r}) /\ (S \ {r}) \cup {r} = S
  BY FS_RemoveElement
<1> QED
  BY <1>1, SumOfAdd, SumOfType

LEMMA SumOfIncrement ==
    ASSUME NEW S, IsFiniteSet(S), NEW r \in S, NEW M \in Nat, NEW old, NEW new,
           \A k \in S : old[k] \in 0 .. M,
           \A k \in S \ {r} : new[k] = old[k], new[r] = old[r] + 1
    PROVE  SumOf(new, S) = SumOf(old, S) + 1
<1>1. \A k \in S : new[k] \in 0 .. M + 1
  OBVIOUS
<1>2. SumOf(old, S) = SumOf(old, S \ {r}) + old[r] /\ SumOf(old, S \ {r}) \in Nat
  BY ZenonT(30), SumOfElement
<1>3. SumOf(new, S) = SumOf(new, S \ {r}) + new[r]
  BY <1>1, SumOfElement
<1>4. SumOf(new, S \ {r}) = SumOf(old, S \ {r})
  BY SumOfExtensional
<1> QED
  BY <1>2, <1>3, <1>4

\* The sum over one row is its amount.
LEMMA SumOfOne ==
    ASSUME NEW r, NEW amount, amount[r] \in Nat
    PROVE  SumOf(amount, {r}) = amount[r]
<1>1. \A k \in {r} : amount[k] \in 0 .. amount[r]
  OBVIOUS
<1>2. SumOf(amount, {r}) = SumOf(amount, {r} \ {r}) + amount[r]
  BY <1>1, FS_Singleton, SumOfElement
<1>3. SumOf(amount, {r} \ {r}) = 0
  BY SumOfEmpty
<1> QED
  BY <1>2, <1>3

\* Rows that stand for the rows of another set, one for one, add up to the same.
LEMMA SumOfMatching ==
    ASSUME NEW S, IsFiniteSet(S), NEW T, NEW f \in [S -> T], NEW M \in Nat, NEW a, NEW b,
           \A x, y \in S : f[x] = f[y] => x = y,
           \A t \in T : \E x \in S : f[x] = t,
           \A x \in S : a[x] \in 0 .. M /\ b[f[x]] = a[x]
    PROVE  SumOf(a, S) = SumOf(b, T)
<1> DEFINE g == [u \in Units(a, S) |-> <<f[u[1]], u[2]>>]
<1>1. IsFiniteSet(Units(a, S))
  BY UnitsFinite
<1>2. \A u \in Units(a, S) : u = <<u[1], u[2]>> /\ u[1] \in S /\ u[2] \in 1 .. a[u[1]]
  BY DEF Units
<1>3. g \in [Units(a, S) -> Units(b, T)]
  BY <1>2 DEF Units
<1>4. \A u, v \in Units(a, S) : g[u] = g[v] => u = v
  BY <1>2
<1>5. ASSUME NEW w \in Units(b, T) PROVE \E u \in Units(a, S) : g[u] = w
  <2>1. PICK t \in T : w \in {t} \X (1 .. b[t])
    BY DEF Units
  <2>2. PICK x \in S : f[x] = t
    OBVIOUS
  <2>3. <<x, w[2]>> \in Units(a, S)
    BY <2>1, <2>2 DEF Units
  <2>4. g[<<x, w[2]>>] = w
    BY <2>1, <2>2, <2>3
  <2> QED
    BY <2>3, <2>4
<1> HIDE DEF g
<1>6. ExistsBijection(Units(a, S), Units(b, T))
  BY <1>3, <1>4, <1>5
     DEF ExistsBijection, Bijection, Injection, Surjection, IsInjective
<1> QED
  BY <1>1, <1>6, FS_Bijection DEF SumOf

-----------------------------------------------------------------------------
(* Sequences, counts and numbers.                                          *)

\* A function on the first n numbers is a sequence of length n.
LEMMA SequenceOf ==
    ASSUME NEW S, NEW n \in Nat, NEW f \in [1 .. n -> S]
    PROVE  f \in Seq(S) /\ Len(f) = n /\ DOMAIN f = 1 .. n
<1>1. f \in Seq(S)
  BY SeqDef
<1> QED
  BY <1>1, LenProperties

\* A sequence to which one element is appended.
LEMMA Appended ==
    ASSUME NEW S, NEW s \in Seq(S), NEW e \in S
    PROVE  /\ Append(s, e) \in Seq(S) /\ Len(Append(s, e)) = Len(s) + 1
           /\ Len(s) \in Nat /\ DOMAIN s = 1 .. Len(s)
           /\ DOMAIN Append(s, e) = 1 .. Len(s) + 1
           /\ Append(s, e)[Len(s) + 1] = e
           /\ \A i \in 1 .. Len(s) : Append(s, e)[i] = s[i]
  OBVIOUS

\* A sequence of which one element is replaced.
LEMMA Replaced ==
    ASSUME NEW S, NEW s \in Seq(S), NEW i \in DOMAIN s, NEW e \in S
    PROVE  /\ [s EXCEPT ![i] = e] \in Seq(S) /\ Len([s EXCEPT ![i] = e]) = Len(s)
           /\ Len(s) \in Nat /\ DOMAIN s = 1 .. Len(s)
           /\ DOMAIN [s EXCEPT ![i] = e] = 1 .. Len(s)
           /\ \A j \in 1 .. Len(s) : [s EXCEPT ![i] = e][j] = IF j = i THEN e ELSE s[j]
  BY ExceptSeq, LenProperties

\* Of a finite set a part is as large at most, and smaller by one without one element.
LEMMA PartsCounted ==
    ASSUME NEW U, IsFiniteSet(U)
    PROVE  \A S \in SUBSET U : /\ IsFiniteSet(S) /\ Cardinality(S) \in Nat
                               /\ Cardinality(U) \in Nat /\ Cardinality(S) <= Cardinality(U)
                               /\ \A T \in SUBSET S : Cardinality(T) <= Cardinality(S)
                               /\ \A p \in S : Cardinality(S \ {p}) = Cardinality(S) - 1
<1> SUFFICES ASSUME NEW S \in SUBSET U
             PROVE  /\ IsFiniteSet(S) /\ Cardinality(S) \in Nat
                    /\ Cardinality(U) \in Nat /\ Cardinality(S) <= Cardinality(U)
                    /\ \A T \in SUBSET S : Cardinality(T) <= Cardinality(S)
                    /\ \A p \in S : Cardinality(S \ {p}) = Cardinality(S) - 1
  OBVIOUS
<1>1. IsFiniteSet(S) /\ Cardinality(S) <= Cardinality(U)
  BY FS_Subset
<1> QED
  BY <1>1, FS_Subset, FS_CardinalityType, FS_RemoveElement

\* A finite set has parts of every size up to its own.
LEMMA PartOfSize ==
    ASSUME NEW S, IsFiniteSet(S), NEW n \in Nat, n <= Cardinality(S)
    PROVE  \E T \in SUBSET S : IsFiniteSet(T) /\ Cardinality(T) = n
<1>1. Cardinality(S) \in Nat /\ ExistsBijection(1 .. Cardinality(S), S)
  BY FS_CardinalityType
<1>2. PICK f \in Bijection(1 .. Cardinality(S), S) : TRUE
  BY <1>1 DEF ExistsBijection
<1>3. /\ f \in [1 .. Cardinality(S) -> S]
      /\ \A i, j \in 1 .. Cardinality(S) : f[i] = f[j] => i = j
  BY <1>2 DEF Bijection, Injection, IsInjective
<1> DEFINE T == {f[i] : i \in 1 .. n}
           g == [i \in 1 .. n |-> f[i]]
<1>4. T \in SUBSET S
  BY <1>1, <1>3
<1>5. /\ g \in [1 .. n -> T] /\ \A t \in T : \E i \in 1 .. n : g[i] = t
      /\ \A i, j \in 1 .. n : g[i] = g[j] => i = j
  BY <1>1, <1>3
<1> HIDE DEF T, g
<1>6. ExistsBijection(1 .. n, T)
  BY <1>5 DEF ExistsBijection, Bijection, Injection, Surjection, IsInjective
<1>7. IsFiniteSet(T) /\ Cardinality(T) = n
  BY <1>6, UnitsOfOneRow, FS_Bijection
<1> QED
  BY <1>4, <1>7

\* Finitely many finite sets have finitely many elements together.
LEMMA FiniteTogether ==
    ASSUME NEW S, IsFiniteSet(S), NEW f, \A x \in S : IsFiniteSet(f[x])
    PROVE  IsFiniteSet(UNION {f[x] : x \in S})
<1> DEFINE T == {f[x] : x \in S}
           g == [x \in S |-> f[x]]
<1>1. g \in [S -> T] /\ \A t \in T : \E x \in S : g[x] = t
  OBVIOUS
<1>2. \A t \in T : IsFiniteSet(t)
  OBVIOUS
<1> HIDE DEF T, g
<1>3. IsFiniteSet(T)
  BY <1>1, FS_Surjection DEF Surjection
<1>4. IsFiniteSet(UNION T)
  BY <1>2, <1>3, FS_UNION
<1> QED
  BY <1>4 DEF T

\* A set of natural numbers that is not empty has a least element.
LEMMA LeastElement ==
    ASSUME NEW S \in SUBSET Nat, S # {}
    PROVE  \E x \in S : \A y \in S : x <= y
<1> DEFINE less == {ss \in Nat \X Nat : ss[1] < ss[2]}
<1>1. IsWellFoundedOn(less, Nat)
  BY NatLessThanWellFounded DEF OpToRel
<1>2. \A x, y \in Nat : y < x => <<y, x>> \in less
  OBVIOUS
<1> HIDE DEF less
<1>3. PICK x \in S : \A y \in S : <<y, x>> \notin less
  BY <1>1, WFMin
<1>4. \A y \in S : ~(y < x)
  BY <1>2, <1>3
<1>5. x \in Nat /\ \A y \in S : y \in Nat
  OBVIOUS
<1> QED
  BY <1>4, <1>5

\* One with a bound has a greatest element.
LEMMA GreatestElement ==
    ASSUME NEW n \in Nat, NEW S \in SUBSET (0 .. n), S # {}
    PROVE  \E x \in S : \A y \in S : y <= x
<1> DEFINE T == {n - i : i \in S}
<1>1. T \in SUBSET Nat /\ T # {}
  <2>1. \A i \in S : n - i \in Nat
    OBVIOUS
  <2> QED
    BY <2>1
<1> HIDE DEF T
<1>2. PICK t \in T : \A u \in T : t <= u
  BY <1>1, LeastElement
<1>3. PICK x \in S : t = n - x
  BY DEF T
<1>4. ASSUME NEW y \in S PROVE y <= x
  <2>1. n - y \in T
    BY DEF T
  <2>2. n - x <= n - y
    BY <1>2, <1>3, <2>1
  <2> QED
    BY <2>2
<1> QED
  BY <1>4

-----------------------------------------------------------------------------
(* Places: how many of a finite set of numbers come before one of them.      *)

\* Of two elements of a finite set of numbers the later has more of the set before it.
LEMMA LaterHasMoreBefore ==
    ASSUME NEW S, IsFiniteSet(S), S \subseteq Nat, NEW i \in S, NEW j \in S, i < j
    PROVE  Cardinality({k \in S : k < i}) < Cardinality({k \in S : k < j})
<1> DEFINE before(x) == {k \in S : k < x}
<1>1. before(i) \in SUBSET S /\ before(j) \in SUBSET S
  OBVIOUS
<1>2. before(i) \in SUBSET (before(j) \ {i}) /\ i \in before(j)
  <2>1. i \in Nat /\ j \in Nat /\ \A k \in S : k \in Nat
    OBVIOUS
  <2>2. \A k \in S : k < i => k < j /\ k # i
    BY <2>1
  <2> QED
    BY <2>2
<1>3. before(j) \ {i} \in SUBSET before(j) /\ before(j) \ {i} \in SUBSET S
  OBVIOUS
<1>4. /\ Cardinality(before(i)) \in Nat /\ Cardinality(before(j)) \in Nat
      /\ Cardinality(before(j) \ {i}) = Cardinality(before(j)) - 1
      /\ Cardinality(before(i)) <= Cardinality(before(j) \ {i})
  <2> HIDE DEF before
  <2> QED
    BY <1>1, <1>2, <1>3, PartsCounted
<1> QED
  BY <1>4

\* Every number up to how many there are is the place of one element.
LEMMA EveryPlaceIsTaken ==
    ASSUME NEW M \in Nat, NEW S \in SUBSET (1 .. M), NEW n \in 1 .. Cardinality(S)
    PROVE  \E x \in S : Cardinality({k \in S : k < x}) = n - 1
<1> DEFINE before(x) == {k \in S : k < x}
           T == {x \in 1 .. M + 1 : Cardinality(before(x)) >= n}
<1>1. IsFiniteSet(S)
  BY UnitsOfOneRow, FS_Subset
<1>2. Cardinality(S) \in Nat /\ n \in Nat /\ n >= 1 /\ n <= Cardinality(S)
  BY <1>1, FS_CardinalityType
<1>3. \A x : before(x) \in SUBSET S
  OBVIOUS
<1>4. before(M + 1) = S /\ before(1) = {}
  <2>1. \A k \in S : k < M + 1 /\ ~(k < 1)
    OBVIOUS
  <2> QED
    BY <2>1
<1>5. T \in SUBSET Nat /\ T # {}
  <2>1. M + 1 \in T
    BY <1>2, <1>4
  <2>2. 1 .. M + 1 \subseteq Nat
    OBVIOUS
  <2> QED
    BY <2>1, <2>2
<1>6. PICK x \in T : \A y \in T : x <= y
  BY <1>5, LeastElement
<1>7. x # 1
  <2>1. Cardinality(before(1)) = 0
    BY <1>4, FS_EmptySet
  <2> HIDE DEF before
  <2> QED
    BY <1>2, <2>1
<1>8. x - 1 \in 1 .. M /\ x \in Nat
  BY <1>7
<1>9. /\ Cardinality(before(x)) \in Nat /\ Cardinality(before(x - 1)) \in Nat
      /\ Cardinality(before(x)) >= n
  BY <1>1, <1>3, PartsCounted
<1>10. Cardinality(before(x - 1)) < n
  <2>1. x - 1 \notin T
    BY <1>6, <1>8
  <2> QED
    BY <1>2, <1>8, <1>9, <2>1
<1>11. before(x - 1) = before(x) \ {x - 1}
  <2>1. \A k \in S : k < x - 1 <=> k < x /\ k # x - 1
    BY <1>8
  <2> QED
    BY <2>1
<1>12. x - 1 \in S
  <2> SUFFICES ASSUME x - 1 \notin S PROVE FALSE
    OBVIOUS
  <2>1. before(x - 1) = before(x)
    BY <1>11
  <2> HIDE DEF before
  <2> QED
    BY <1>2, <1>9, <1>10, <2>1
<1>13. x - 1 \in before(x)
  BY <1>8, <1>12
<1>14. Cardinality(before(x - 1)) = Cardinality(before(x)) - 1
  <2> HIDE DEF before
  <2> QED
    BY <1>1, <1>3, <1>11, <1>13, PartsCounted
<1>15. Cardinality(before(x - 1)) = n - 1
  <2> HIDE DEF before
  <2> QED
    BY <1>2, <1>9, <1>10, <1>14
<1> QED
  BY <1>12, <1>15

\* The places of a page, counted from the newest row.
LEMMA PlacesOfPage ==
    ASSUME NEW total \in Nat, NEW limit \in {1, 2}, NEW i \in Nat, 1 <= i
    PROVE  \E len \in 0 .. limit :
               {m \in 1 .. limit : (i - 1) * limit + m <= total} = 1 .. len
<1>1. CASE limit = 1
  <2>1. (i - 1) * limit = i - 1
    BY <1>1
  <2>2. CASE i <= total
    <3>1. {m \in 1 .. limit : (i - 1) * limit + m <= total} = 1 .. 1
      BY <1>1, <2>1, <2>2
    <3> QED
      BY <1>1, <3>1
  <2>3. CASE ~(i <= total)
    <3>1. {m \in 1 .. limit : (i - 1) * limit + m <= total} = 1 .. 0
      BY <1>1, <2>1, <2>3
    <3> QED
      BY <1>1, <3>1
  <2> QED
    BY <2>2, <2>3
<1>2. CASE limit = 2
  <2>1. (i - 1) * limit = 2 * i - 2
    BY <1>2
  <2>2. CASE 2 * i <= total
    <3>1. {m \in 1 .. limit : (i - 1) * limit + m <= total} = 1 .. 2
      BY <1>2, <2>1, <2>2
    <3> QED
      BY <1>2, <3>1
  <2>3. CASE 2 * i = total + 1
    <3>1. {m \in 1 .. limit : (i - 1) * limit + m <= total} = 1 .. 1
      BY <1>2, <2>1, <2>3
    <3> QED
      BY <1>2, <3>1
  <2>4. CASE 2 * i > total + 1
    <3>1. {m \in 1 .. limit : (i - 1) * limit + m <= total} = 1 .. 0
      BY <1>2, <2>1, <2>4
    <3> QED
      BY <1>2, <3>1
  <2> QED
    BY <2>2, <2>3, <2>4
<1> QED
  BY <1>1, <1>2

\* A place on an earlier page, or earlier on one, is an earlier place.
LEMMA PlacesInOrder ==
    ASSUME NEW limit \in {1, 2}, NEW i \in Nat, NEW j \in Nat, NEW m \in 1 .. limit,
           NEW n \in 1 .. limit, 1 <= i, 1 <= j, i < j \/ (i = j /\ m < n)
    PROVE  (i - 1) * limit + m < (j - 1) * limit + n
<1>1. CASE limit = 1
  BY <1>1
<1>2. CASE limit = 2
  BY <1>2
<1> QED
  BY <1>1, <1>2

\* Comparing crosswise the products of two fractions p/q, r/s and t/u is a strict order, in
\* which those that are neither less nor greater are alike.
LEMMA CrossProductsAreOrdered ==
    ASSUME NEW p \in Nat, NEW q \in Nat, NEW r \in Nat, NEW s \in Nat,
           NEW t \in Nat, NEW u \in Nat, q > 0, s > 0, u > 0
    PROVE  /\ ~(p * s < r * q /\ r * q < p * s)
           /\ p * s < r * q /\ r * u < t * s => p * u < t * q
           /\ ~(p * s < r * q) /\ ~(r * u < t * s) => ~(p * u < t * q)
<1>0. /\ p * s \in Nat /\ r * q \in Nat /\ r * u \in Nat /\ t * s \in Nat
      /\ p * u \in Nat /\ t * q \in Nat
  OBVIOUS
<1>1. \A x, y, z \in Nat : z > 0 /\ x < y => x * z < y * z
  OBVIOUS
<1>2. \A x, y, z \in Nat : x <= y => x * z <= y * z
  OBVIOUS
<1>3. \A x, y, z \in Nat : z > 0 /\ x * z < y * z => x < y
  BY <1>2
<1>4. /\ (p * s) * u = (p * u) * s /\ (r * q) * u = (r * u) * q
      /\ (t * s) * q = (t * q) * s
  OBVIOUS
<1>5. ASSUME p * s < r * q, r * u < t * s PROVE p * u < t * q
  <2>1. (p * s) * u < (r * q) * u /\ (r * u) * q < (t * s) * q
    BY <1>0, <1>1, <1>5
  <2>2. /\ (p * u) * s \in Nat /\ (r * u) * q \in Nat /\ (t * q) * s \in Nat
    BY <1>0
  <2>3. (p * u) * s < (t * q) * s
    BY <1>4, <2>1, <2>2
  <2> QED
    BY <1>0, <1>3, <2>3
<1>6. ASSUME ~(p * s < r * q), ~(r * u < t * s) PROVE ~(p * u < t * q)
  <2>1. (r * q) * u <= (p * s) * u /\ (t * s) * q <= (r * u) * q
    BY <1>0, <1>2, <1>6
  <2>2. /\ (p * u) * s \in Nat /\ (r * u) * q \in Nat /\ (t * q) * s \in Nat
    BY <1>0
  <2>3. (t * q) * s <= (p * u) * s
    BY <1>4, <2>1, <2>2
  <2>4. ~(p * u < t * q)
    <3> SUFFICES ASSUME p * u < t * q PROVE FALSE
      OBVIOUS
    <3>1. (p * u) * s < (t * q) * s
      BY <1>0, <1>1
    <3> QED
      BY <2>2, <2>3, <3>1
  <2> QED
    BY <2>4
<1>7. ~(p * s < r * q /\ r * q < p * s)
  BY <1>0
<1> QED
  BY <1>5, <1>6, <1>7

\* A finite set of numbers has a greatest.
LEMMA FiniteHasGreatest ==
    \A n \in Nat : \A v : (\A k \in 1 .. n : v[k] \in Nat) =>
        \A J \in SUBSET (1 .. n) : J # {} => \E i \in J : \A j \in J : v[j] <= v[i]
<1> DEFINE P(n) == \A v : (\A k \in 1 .. n : v[k] \in Nat) =>
        \A J \in SUBSET (1 .. n) : J # {} => \E i \in J : \A j \in J : v[j] <= v[i]
<1>1. P(0)
  <2>1. 1 .. 0 = {}
    OBVIOUS
  <2>2. \A J \in SUBSET (1 .. 0) : ~(J # {})
    BY <2>1
  <2> QED
    BY <2>2
<1>2. ASSUME NEW n \in Nat, P(n) PROVE P(n + 1)
  <2> SUFFICES ASSUME NEW v, \A k \in 1 .. n + 1 : v[k] \in Nat,
                      NEW J \in SUBSET (1 .. n + 1), J # {}
               PROVE  \E i \in J : \A j \in J : v[j] <= v[i]
    OBVIOUS
  <2> DEFINE K == J \ {n + 1}
  <2>1. K \in SUBSET (1 .. n) /\ (\A k \in 1 .. n : v[k] \in Nat)
    OBVIOUS
  <2>2. CASE K = {}
    <3>1. J = {n + 1}
      BY <2>2
    <3> QED
      BY <3>1
  <2>3. CASE K # {}
    <3>1. PICK i \in K : \A j \in K : v[j] <= v[i]
      BY <1>2, <2>1, <2>3
    <3>2. v[i] \in Nat /\ i \in J
      BY <2>1
    <3>3. CASE n + 1 \notin J
      BY <3>1, <3>2, <3>3
    <3>4. CASE n + 1 \in J /\ v[n + 1] <= v[i]
      BY <3>1, <3>2, <3>4
    <3>5. CASE n + 1 \in J /\ ~(v[n + 1] <= v[i])
      <4>1. \A j \in J : v[j] <= v[n + 1]
        BY <2>1, <3>1, <3>2, <3>5
      <4> QED
        BY <3>5, <4>1
    <3> QED
      BY <3>3, <3>4, <3>5
  <2> QED
    BY <2>2, <2>3
<1> HIDE DEF P
<1>3. \A n \in Nat : P(n)
  <2> SUFFICES ASSUME {n \in Nat : ~P(n)} # {} PROVE FALSE
    OBVIOUS
  <2>1. PICK x \in {n \in Nat : ~P(n)} : \A y \in {n \in Nat : ~P(n)} : x <= y
    BY LeastElement
  <2>2. x \in Nat /\ ~P(x) /\ x # 0
    BY <1>1, <2>1
  <2>3. x - 1 \in Nat /\ P(x - 1) /\ (x - 1) + 1 = x
    BY <2>1, <2>2
  <2>4. P((x - 1) + 1)
    BY <1>2, <2>3
  <2> QED
    BY <2>2, <2>3, <2>4
<1> QED
  BY <1>3 DEF P
=============================================================================
