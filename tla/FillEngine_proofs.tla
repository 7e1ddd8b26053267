-------------------------- MODULE FillEngine_proofs --------------------------
(***************************************************************************)
(* Proofs about FillEngine, for every set of references, stocks, prices    *)
(* and quantities and any number of own orders: under a clean feed every   *)
(* queue position is exact, so that own orders are filled by price and     *)
(* time, first in, first out, and share what was executed; and a           *)
(* marketable order sweeps the displayed levels best first.                *)
(***************************************************************************)
EXTENDS FillEngine, BookEngine_proofs, FunctionTheorems, SequenceTheorems

-----------------------------------------------------------------------------
(* Sums, as the number of the units they add up. *)

\* A finite set without one of its elements.
LEMMA DropOne ==
  ASSUME NEW S, IsFiniteSet(S), NEW x \in S
  PROVE  /\ IsFiniteSet(S \ {x}) /\ Cardinality(S \ {x}) = Cardinality(S) - 1
         /\ Cardinality(S \ {x}) \in Nat /\ Cardinality(S) \in Nat
<1>1. IsFiniteSet(S \ {x}) /\ Cardinality(S \ {x}) = Cardinality(S) - 1
  BY FS_RemoveElement
<1> QED
  BY <1>1, FS_CardinalityType

\* The size of a union of two finite sets that share nothing.
LEMMA DisjointUnion ==
  ASSUME NEW A, NEW B, IsFiniteSet(A), IsFiniteSet(B), A \cap B = {}
  PROVE  /\ IsFiniteSet(A \cup B)
         /\ Cardinality(A \cup B) = Cardinality(A) + Cardinality(B)
<1>1. /\ IsFiniteSet(A \cup B)
      /\ Cardinality(A \cup B) = Cardinality(A) + Cardinality(B) - Cardinality(A \cap B)
  BY FS_Union
<1>2. Cardinality(A) \in Nat /\ Cardinality(B) \in Nat
  BY FS_CardinalityType
<1>3. Cardinality(A \cap B) = 0
  BY FS_EmptySet, Zenon
<1> QED
  BY <1>1, <1>2, <1>3

Units(f, S) == UNION {{x} \X (1 .. f[x]) : x \in S}
Total(f, S) == Cardinality(Units(f, S))

\* The k-th unit of an element.
LEMMA UnitOfSum ==
  ASSUME NEW f, NEW S, NEW u
  PROVE  u \in Units(f, S) <=> \E x \in S : \E k \in 1 .. f[x] : u = <<x, k>>
BY DEF Units

\* A sum over a finite set is finite.
LEMMA UnitsFinite ==
  ASSUME NEW f, NEW S, IsFiniteSet(S), \A x \in S : f[x] \in Nat
  PROVE  IsFiniteSet(Units(f, S)) /\ Total(f, S) \in Nat
<1> DEFINE Wrong == {n \in Nat : \E s \in SUBSET S : Cardinality(s) = n
                                                /\ ~IsFiniteSet(Units(f, s))}
<1>1. SUFFICES ASSUME Wrong # {} PROVE FALSE
  <2>1. Cardinality(S) \in Nat /\ S \in SUBSET S
    BY FS_CardinalityType
  <2>2. IsFiniteSet(Units(f, S))
    BY <2>1
  <2> HIDE DEF Wrong
  <2> QED
    BY <2>2, FS_CardinalityType DEF Total
<1>2. PICK n \in Wrong : \A k \in Wrong : n <= k
  BY <1>1, LeastExists
<1>3. PICK s \in SUBSET S : Cardinality(s) = n /\ ~IsFiniteSet(Units(f, s))
  BY <1>2
<1>4. s # {}
  <2>1. Units(f, {}) = {}
    BY DEF Units
  <2> QED
    BY <1>3, <2>1, FS_EmptySet
<1>5. PICK x \in s : TRUE
  BY <1>4
<1>6. IsFiniteSet(s)
  BY FS_Subset
<1>7. IsFiniteSet(s \ {x}) /\ Cardinality(s \ {x}) = n - 1 /\ n - 1 \in Nat
  BY <1>3, <1>5, <1>6, DropOne
<1>8. IsFiniteSet(Units(f, s \ {x}))
  <2>1. n - 1 \notin Wrong
    BY <1>2, <1>7
  <2> QED
    BY <1>7, <2>1
<1>9. IsFiniteSet({x} \X (1 .. f[x]))
  BY <1>5, OneOrdersShares
<1>10. Units(f, s) = Units(f, s \ {x}) \cup ({x} \X (1 .. f[x]))
  BY <1>5 DEF Units
<1>11. IsFiniteSet(Units(f, s \ {x}) \cup ({x} \X (1 .. f[x])))
  BY <1>8, <1>9, FS_Union
<1> QED
  BY <1>3, <1>10, <1>11

\* The sum over nothing.
LEMMA TotalEmpty ==
  ASSUME NEW f
  PROVE  Total(f, {}) = 0
<1>1. Units(f, {}) = {}
  BY DEF Units
<1> QED
  BY <1>1, FS_EmptySet DEF Total

\* What a sum is more with one element than without it.
LEMMA TotalWith ==
  ASSUME NEW f, NEW S, IsFiniteSet(S), \A x \in S : f[x] \in Nat, NEW x \in S
  PROVE  /\ Total(f, S) = Total(f, S \ {x}) + f[x]
         /\ IsFiniteSet(S \ {x}) /\ Total(f, S \ {x}) \in Nat
<1>1. IsFiniteSet(S \ {x})
  BY FS_RemoveElement
<1>2. IsFiniteSet(Units(f, S \ {x})) /\ Total(f, S \ {x}) \in Nat
  BY <1>1, UnitsFinite
<1>3. IsFiniteSet({x} \X (1 .. f[x])) /\ Cardinality({x} \X (1 .. f[x])) = f[x]
  BY OneOrdersShares
<1>4. Units(f, S) = Units(f, S \ {x}) \cup ({x} \X (1 .. f[x]))
  BY DEF Units
<1>5. Units(f, S \ {x}) \cap ({x} \X (1 .. f[x])) = {}
  BY DEF Units
<1>6. Cardinality(Units(f, S \ {x}) \cup ({x} \X (1 .. f[x])))
        = Cardinality(Units(f, S \ {x})) + Cardinality({x} \X (1 .. f[x]))
  BY <1>2, <1>3, <1>5, DisjointUnion
<1> QED
  BY <1>1, <1>2, <1>3, <1>4, <1>6 DEF Total

\* A sum of the model is the number of the units.
LEMMA SumIsTotal ==
  ASSUME NEW f, NEW S, IsFiniteSet(S), \A x \in S : f[x] \in Nat
  PROVE  SumOver(f, S) = Total(f, S)
<1> DEFINE of(h) == [s \in SUBSET S |->
                       IF s = {} THEN 0
                       ELSE f[CHOOSE x \in s : TRUE] + h[s \ {CHOOSE x \in s : TRUE}]]
           sum == [s \in SUBSET S |-> Total(f, s)]
<1>1. ASSUME NEW s \in SUBSET S, s # {}
      PROVE  LET x == CHOOSE y \in s : TRUE
             IN  /\ Total(f, s) = f[x] + Total(f, s \ {x})
                 /\ s \ {x} \in SUBSET S /\ IsFiniteSet(s \ {x})
                 /\ Cardinality(s \ {x}) = Cardinality(s) - 1
                 /\ f[x] \in Nat
  <2>1. PICK x : x = CHOOSE y \in s : TRUE
    OBVIOUS
  <2>2. x \in s /\ f[x] \in Nat
    BY <1>1, <2>1
  <2>3. IsFiniteSet(s)
    BY FS_Subset
  <2>4. Total(f, s) = Total(f, s \ {x}) + f[x] /\ Total(f, s \ {x}) \in Nat
    BY <2>2, <2>3, TotalWith
  <2>5. IsFiniteSet(s \ {x}) /\ Cardinality(s \ {x}) = Cardinality(s) - 1
    BY <2>2, <2>3, FS_RemoveElement
  <2> QED
    BY <2>1, <2>2, <2>4, <2>5
<1>2. sum = of(sum)
  <2>1. ASSUME NEW s \in SUBSET S PROVE sum[s] = of(sum)[s]
    BY <1>1, TotalEmpty
  <2> QED
    BY <2>1
<1>3. ASSUME NEW h, h = of(h) PROVE h[S] = Total(f, S)
  <2> DEFINE wrong == {n \in Nat : \E s \in SUBSET S : Cardinality(s) = n /\ h[s] # Total(f, s)}
  <2>1. SUFFICES ASSUME wrong # {} PROVE FALSE
    <3>1. S \in SUBSET S /\ Cardinality(S) \in Nat
      BY FS_CardinalityType
    <3> QED
      BY <3>1
  <2>2. PICK n \in wrong : \A k \in wrong : n <= k
    BY <2>1, LeastExists
  <2>3. PICK s \in SUBSET S : Cardinality(s) = n /\ h[s] # Total(f, s)
    BY <2>2
  <2>4. h[s] = IF s = {} THEN 0
               ELSE f[CHOOSE x \in s : TRUE] + h[s \ {CHOOSE x \in s : TRUE}]
    BY <1>3
  <2>5. s # {}
    BY <2>3, <2>4, TotalEmpty
  <2>6. PICK x : x = CHOOSE y \in s : TRUE
    OBVIOUS
  <2>7. /\ Total(f, s) = f[x] + Total(f, s \ {x}) /\ s \ {x} \in SUBSET S
        /\ Cardinality(s \ {x}) = n - 1 /\ IsFiniteSet(s \ {x})
    BY <1>1, <2>3, <2>5, <2>6
  <2>8. n - 1 \in Nat
    BY <2>7, FS_CardinalityType
  <2>9. h[s \ {x}] = Total(f, s \ {x})
    <3>1. n - 1 \notin wrong
      BY <2>2, <2>8
    <3> QED
      BY <2>7, <2>8, <3>1
  <2> QED
    BY <2>3, <2>4, <2>5, <2>6, <2>7, <2>9
<1>4. PICK total : total = Total(f, S)
  OBVIOUS
<1>5. \A h : h = of(h) => h[S] = total
  BY <1>3, <1>4
<1>6. \E g : g = of(g)
  BY <1>2
<1> HIDE DEF sum
<1>7. MapThenSumSet(LAMBDA x : f[x], S) = total
  BY <1>5, <1>6 DEF MapThenSumSet, MapThenFoldSet
<1> QED
  BY <1>4, <1>7 DEF SumOver

-----------------------------------------------------------------------------
(* What the proofs need to know of sums. *)

\* SumOver of natural numbers is one.
LEMMA SumType ==
  ASSUME NEW f, NEW S, IsFiniteSet(S), \A x \in S : f[x] \in Nat
  PROVE  SumOver(f, S) \in Nat
BY SumIsTotal, UnitsFinite

\* SumOver of nothing is 0.
LEMMA SumEmpty ==
  ASSUME NEW f
  PROVE  SumOver(f, {}) = 0
BY SumIsTotal, TotalEmpty, FS_EmptySet

\* SumOver with and without one element.
LEMMA SumWith ==
  ASSUME NEW f, NEW S, IsFiniteSet(S), \A x \in S : f[x] \in Nat, NEW x \in S
  PROVE  /\ SumOver(f, S) = SumOver(f, S \ {x}) + f[x]
         /\ IsFiniteSet(S \ {x}) /\ SumOver(f, S \ {x}) \in Nat
<1>1. IsFiniteSet(S \ {x}) /\ \A y \in S \ {x} : f[y] \in Nat
  BY FS_RemoveElement
<1> QED
  BY <1>1, TotalWith, SumIsTotal

\* Two functions that are equal on the elements have equal sums.
LEMMA SumSame ==
  ASSUME NEW f, NEW g, NEW S, IsFiniteSet(S), \A x \in S : f[x] \in Nat,
         \A x \in S : g[x] = f[x]
  PROVE  SumOver(g, S) = SumOver(f, S)
<1>1. Units(g, S) = Units(f, S)
  BY DEF Units
<1> QED
  BY <1>1, SumIsTotal DEF Total

\* A sum taken apart element by element.
LEMMA SumPlus ==
  ASSUME NEW f, NEW g, NEW h, NEW S, IsFiniteSet(S),
         \A x \in S : f[x] \in Nat /\ g[x] \in Nat /\ h[x] = f[x] + g[x]
  PROVE  SumOver(h, S) = SumOver(f, S) + SumOver(g, S)
<1> DEFINE Wrong == {n \in Nat : \E s \in SUBSET S :
                       Cardinality(s) = n
                       /\ SumOver(h, s) # SumOver(f, s) + SumOver(g, s)}
<1>1. SUFFICES ASSUME Wrong # {} PROVE FALSE
  <2>1. Cardinality(S) \in Nat /\ S \in SUBSET S
    BY FS_CardinalityType
  <2> QED
    BY <2>1
<1>2. PICK n \in Wrong : \A k \in Wrong : n <= k
  BY <1>1, LeastExists
<1>3. PICK s \in SUBSET S : /\ Cardinality(s) = n
                            /\ SumOver(h, s) # SumOver(f, s) + SumOver(g, s)
  BY <1>2
<1>4. s # {}
  <2>1. SumOver(h, {}) = SumOver(f, {}) + SumOver(g, {})
    BY SumEmpty
  <2> QED
    BY <1>3, <2>1, Zenon
<1>5. PICK x \in s : TRUE
  BY <1>4
<1>6. /\ IsFiniteSet(s) /\ \A y \in s : h[y] \in Nat /\ f[y] \in Nat /\ g[y] \in Nat
      /\ h[x] = f[x] + g[x]
  BY FS_Subset
<1>7. /\ SumOver(h, s) = SumOver(h, s \ {x}) + h[x]
      /\ SumOver(f, s) = SumOver(f, s \ {x}) + f[x]
      /\ SumOver(g, s) = SumOver(g, s \ {x}) + g[x]
      /\ SumOver(f, s \ {x}) \in Nat /\ SumOver(g, s \ {x}) \in Nat
      /\ SumOver(h, s \ {x}) \in Nat
  BY <1>6, SumWith
<1>8. IsFiniteSet(s \ {x}) /\ Cardinality(s \ {x}) = n - 1 /\ n - 1 \in Nat
  BY <1>3, <1>5, <1>6, DropOne
<1>9. SumOver(h, s \ {x}) = SumOver(f, s \ {x}) + SumOver(g, s \ {x})
  <2>1. n - 1 \notin Wrong
    BY <1>2, <1>8
  <2> QED
    BY <1>8, <2>1
<1> QED
  BY <1>3, <1>6, <1>7, <1>9

\* A sum over two disjoint sets.
LEMMA SumUnion ==
  ASSUME NEW f, NEW S, NEW T, IsFiniteSet(S), IsFiniteSet(T), S \cap T = {},
         \A x \in S \cup T : f[x] \in Nat
  PROVE  SumOver(f, S \cup T) = SumOver(f, S) + SumOver(f, T)
<1>1. Units(f, S \cup T) = Units(f, S) \cup Units(f, T)
  BY DEF Units
<1>2. Units(f, S) \cap Units(f, T) = {}
  BY DEF Units
<1>3. IsFiniteSet(Units(f, S)) /\ IsFiniteSet(Units(f, T))
  BY UnitsFinite
<1>4. Cardinality(Units(f, S) \cup Units(f, T))
        = Cardinality(Units(f, S)) + Cardinality(Units(f, T))
  BY <1>2, <1>3, DisjointUnion
<1>5. IsFiniteSet(S \cup T)
  BY FS_Union
<1>6. Total(f, S \cup T) = Total(f, S) + Total(f, T)
  BY <1>1, <1>4 DEF Total
<1>7. /\ SumOver(f, S) = Total(f, S) /\ SumOver(f, T) = Total(f, T)
      /\ SumOver(f, S \cup T) = Total(f, S \cup T)
  BY <1>5, SumIsTotal
<1> QED
  BY <1>6, <1>7

\* A part of a sum is no more than the whole.
LEMMA SumMonotone ==
  ASSUME NEW f, NEW S, NEW T, IsFiniteSet(T), S \subseteq T,
         \A x \in T : f[x] \in Nat
  PROVE  IsFiniteSet(S) /\ SumOver(f, S) <= SumOver(f, T)
<1>1. IsFiniteSet(S) /\ IsFiniteSet(T \ S) /\ S \cup (T \ S) = T /\ S \cap (T \ S) = {}
  BY FS_Subset, FS_Difference
<1>2. SumOver(f, S \cup (T \ S)) = SumOver(f, S) + SumOver(f, T \ S)
  <2>1. PICK R : R = T \ S
    OBVIOUS
  <2>2. SumOver(f, S \cup R) = SumOver(f, S) + SumOver(f, R)
    BY <1>1, <2>1, SumUnion
  <2> QED
    BY <2>1, <2>2
<1>3. SumOver(f, S) \in Nat /\ SumOver(f, T \ S) \in Nat
  BY <1>1, SumType
<1>4. SumOver(f, T) = SumOver(f, S) + SumOver(f, T \ S)
  BY <1>1, <1>2
<1> QED
  BY <1>1, <1>3, <1>4

\* Elements without a value do not count.
LEMMA SumSkip ==
  ASSUME NEW f, NEW S, NEW T, IsFiniteSet(T), S \subseteq T,
         \A x \in T : f[x] \in Nat, \A x \in T \ S : f[x] = 0
  PROVE  SumOver(f, S) = SumOver(f, T)
<1>1. Units(f, S) = Units(f, T)
  BY DEF Units
<1>2. IsFiniteSet(S)
  BY FS_Subset
<1> QED
  BY <1>1, <1>2, SumIsTotal DEF Total

\* A sum does not depend on how its elements are named.
LEMMA SumRenamed ==
  ASSUME NEW f, NEW g, NEW S, NEW T, NEW pos \in [T -> S], IsFiniteSet(S),
         \A x \in S : f[x] \in Nat, \A t \in T : g[t] = f[pos[t]],
         \A t, u \in T : pos[t] = pos[u] => t = u,
         \A x \in S : \E t \in T : pos[t] = x
  PROVE  IsFiniteSet(T) /\ SumOver(g, T) = SumOver(f, S)
<1>1. ExistsBijection(T, S)
  <2>1. pos \in Injection(T, S)
    BY DEF Injection, IsInjective
  <2>2. pos \in Surjection(T, S)
    BY DEF Surjection
  <2> QED
    BY <2>1, <2>2 DEF ExistsBijection, Bijection
<1>2. IsFiniteSet(T)
  BY <1>1, FS_Bijection, Fun_ExistsBijSymmetric
<1> DEFINE m == [u \in Units(g, T) |-> <<pos[u[1]], u[2]>>]
<1>3. m \in [Units(g, T) -> Units(f, S)]
  <2>1. ASSUME NEW u \in Units(g, T) PROVE <<pos[u[1]], u[2]>> \in Units(f, S)
    <3>1. PICK t \in T : \E k \in 1 .. g[t] : u = <<t, k>>
      BY UnitOfSum
    <3>2. PICK k \in 1 .. g[t] : u = <<t, k>>
      BY <3>1
    <3>3. pos[t] \in S /\ k \in 1 .. f[pos[t]]
      BY <3>2
    <3> QED
      BY <3>2, <3>3, UnitOfSum
  <2> QED
    BY <2>1
<1>4. ASSUME NEW u \in Units(g, T), NEW v \in Units(g, T), m[u] = m[v] PROVE u = v
  <2>1. PICK t \in T : \E k \in 1 .. g[t] : u = <<t, k>>
    BY UnitOfSum
  <2>2. PICK k : u = <<t, k>>
    BY <2>1
  <2>3. PICK s \in T : \E j \in 1 .. g[s] : v = <<s, j>>
    BY UnitOfSum
  <2>4. PICK j : v = <<s, j>>
    BY <2>3
  <2>5. <<pos[t], k>> = <<pos[s], j>>
    BY <1>4, <2>2, <2>4
  <2> QED
    BY <2>2, <2>4, <2>5
<1>5. ASSUME NEW w \in Units(f, S) PROVE \E u \in Units(g, T) : m[u] = w
  <2>1. PICK x \in S : \E k \in 1 .. f[x] : w = <<x, k>>
    BY UnitOfSum
  <2>2. PICK k \in 1 .. f[x] : w = <<x, k>>
    BY <2>1
  <2>3. PICK t \in T : pos[t] = x
    OBVIOUS
  <2>4. <<t, k>> \in Units(g, T)
    BY <2>2, <2>3, UnitOfSum
  <2>5. m[<<t, k>>] = w
    BY <2>2, <2>3, <2>4
  <2> QED
    BY <2>4, <2>5
<1> HIDE DEF m
<1>6. ExistsBijection(Units(g, T), Units(f, S))
  <2>1. m \in Injection(Units(g, T), Units(f, S))
    BY <1>3, <1>4 DEF Injection, IsInjective
  <2>2. m \in Surjection(Units(g, T), Units(f, S))
    BY <1>3, <1>5 DEF Surjection
  <2> QED
    BY <2>1, <2>2 DEF ExistsBijection, Bijection
<1>7. \A t \in T : g[t] \in Nat
  OBVIOUS
<1>8. IsFiniteSet(Units(g, T))
  BY <1>2, <1>7, UnitsFinite
<1>9. Total(g, T) = Total(f, S)
  BY <1>6, <1>8, FS_Bijection DEF Total
<1> QED
  BY <1>2, <1>7, <1>9, SumIsTotal

-----------------------------------------------------------------------------
(* The elements kept of a sequence.                                         *)

\* t has the elements of s at the positions I, in the order of their positions:
\* its k-th element is the one at pos[k].
Lists(t, s, I, pos) ==
  /\ pos \in [1 .. Len(t) -> I]
  /\ \A j, k \in 1 .. Len(t) : j < k => pos[j] < pos[k]
  /\ \A i \in I : \E k \in 1 .. Len(t) : pos[k] = i
  /\ \A k \in 1 .. Len(t) : t[k] = s[pos[k]]

IsKept(t, s, I) == t \in Seq({s[i] : i \in I}) /\ \E pos : Lists(t, s, I, pos)

\* The greatest of some positions.
LEMMA MaxOf ==
  ASSUME NEW n \in Nat, NEW J \in SUBSET (1 .. n), J # {}
  PROVE  Max(J) \in J /\ \A j \in J : j <= Max(J)
<1>1. PICK x \in J : \A y \in J : y <= x
  BY GreatestExists
<1>2. \A y \in J : x >= y
  BY <1>1
<1>3. Max(J) \in J /\ \A y \in J : Max(J) >= y
  BY <1>2 DEF Max
<1> QED
  BY <1>3

\* A sequence over a set is one over any larger set.
LEMMA WiderSeq ==
  ASSUME NEW R, NEW T, R \subseteq T, NEW t \in Seq(R)
  PROVE  t \in Seq(T)
OBVIOUS

\* Appending the element at a later position goes on listing.
LEMMA KeepStep ==
  ASSUME NEW s, NEW b \in Nat, NEW I \in SUBSET (1 .. b), NEW m \in I, \A i \in I : i <= m,
         NEW t, IsKept(t, s, I \ {m})
  PROVE  IsKept(Append(t, s[m]), s, I)
<1>1. PICK pos : Lists(t, s, I \ {m}, pos)
  BY DEF IsKept
<1> DEFINE u == Append(t, s[m])
           n == Len(t)
           next == [k \in 1 .. n + 1 |-> IF k = n + 1 THEN m ELSE pos[k]]
<1>2. t \in Seq({s[i] : i \in I}) /\ s[m] \in {s[i] : i \in I}
  <2>1. t \in Seq({s[i] : i \in I \ {m}})
    BY DEF IsKept
  <2>2. {s[i] : i \in I \ {m}} \subseteq {s[i] : i \in I}
    OBVIOUS
  <2>3. t \in Seq({s[i] : i \in I})
    BY <2>1, <2>2, WiderSeq, Zenon
  <2> QED
    BY <2>3
<1>3. n \in Nat /\ u \in Seq({s[i] : i \in I}) /\ Len(u) = n + 1
      /\ \A k \in 1 .. n + 1 : u[k] = IF k = n + 1 THEN s[m] ELSE t[k]
  BY <1>2
<1> HIDE DEF u, n
<1>4. next \in [1 .. n + 1 -> I]
  BY <1>1, <1>3 DEF Lists, n
<1>5. ASSUME NEW j \in 1 .. n + 1, NEW k \in 1 .. n + 1, j < k PROVE next[j] < next[k]
  <2>1. j \in 1 .. n /\ next[j] = pos[j] /\ pos[j] \in I \ {m}
    BY <1>1, <1>3, <1>5 DEF Lists, n
  <2>2. CASE k = n + 1
    <3>1. next[k] = m
      BY <2>2
    <3>2. pos[j] \in Nat /\ m \in Nat
      <4>1. \A i \in I : i \in Nat
        OBVIOUS
      <4>2. pos[j] \in I
        BY <2>1
      <4> QED
        BY <4>1, <4>2
    <3>3. pos[j] <= m /\ pos[j] # m
      BY <2>1
    <3> HIDE DEF next
    <3> QED
      BY <2>1, <3>1, <3>2, <3>3
  <2>3. CASE k # n + 1
    <3>1. k \in 1 .. n
      BY <1>3, <2>3
    <3> QED
      BY <1>1, <1>5, <2>1, <3>1, <2>3 DEF Lists, n
  <2> QED
    BY <2>2, <2>3
<1>6. ASSUME NEW i \in I PROVE \E k \in 1 .. n + 1 : next[k] = i
  <2>1. CASE i = m
    BY <2>1, <1>3
  <2>2. CASE i # m
    <3>1. PICK k \in 1 .. n : pos[k] = i
      BY <2>2, <1>1 DEF Lists, n
    <3>2. k \in 1 .. n + 1 /\ next[k] = i
      BY <1>3, <3>1
    <3> QED
      BY <3>2
  <2> QED
    BY <2>1, <2>2
<1>7. ASSUME NEW k \in 1 .. n + 1 PROVE u[k] = s[next[k]]
  BY <1>1, <1>3 DEF Lists, n
<1>8. Lists(u, s, I, next)
  <2> HIDE DEF next
  <2> QED
    BY <1>3, <1>4, <1>5, <1>6, <1>7 DEF Lists
<1> HIDE DEF next
<1> QED
  BY <1>3, <1>8 DEF IsKept, u

\* Keep lists the elements at the positions it is given, in their order.
LEMMA KeepLists ==
  ASSUME NEW s, NEW b \in Nat, NEW I \in SUBSET (1 .. b)
  PROVE  IsKept(Keep(s, I), s, I)
<1>0. IsFiniteSet(I)
  <2>1. IsFiniteSet(1 .. b)
    BY FS_Interval
  <2> QED
    BY <2>1, FS_Subset
<1> DEFINE of(h) == [J \in SUBSET I |->
                       IF J = {} THEN <<>>
                       ELSE Append(h[J \ {Max(J)}], s[Max(J)])]
<1>1. ASSUME NEW J \in SUBSET I, J # {}
      PROVE  /\ Max(J) \in J /\ \A j \in J : j <= Max(J)
             /\ J \ {Max(J)} \in SUBSET I /\ Cardinality(J) \in Nat
             /\ Cardinality(J \ {Max(J)}) = Cardinality(J) - 1
             /\ Cardinality(J \ {Max(J)}) \in Nat
  <2>1. IsFiniteSet(J) /\ J \in SUBSET (1 .. b)
    BY <1>0, FS_Subset
  <2>2. Max(J) \in J /\ \A j \in J : j <= Max(J)
    BY <1>1, <2>1, MaxOf
  <2> QED
    BY <2>1, <2>2, DropOne
<1>2. \E h : h = of(h)
  <2> DEFINE Fits(h, n) ==
               \A J \in SUBSET I : Cardinality(J) <= n => h[J] = of(h)[J]
             wrong == {n \in Nat : ~\E h : Fits(h, n)}
  <2>1. ASSUME wrong # {} PROVE FALSE
    <3>1. PICK n \in wrong : \A k \in wrong : n <= k
      BY <2>1, LeastExists
    <3>2. n # 0
      <4> DEFINE h0 == [J \in SUBSET I |-> <<>>]
      <4>1. ASSUME NEW J \in SUBSET I, Cardinality(J) <= 0 PROVE h0[J] = of(h0)[J]
        <5>1. J = {}
          <6>1. SUFFICES ASSUME J # {} PROVE FALSE
            OBVIOUS
          <6>2. PICK c, d \in Nat : c = Cardinality(J) /\ d = c - 1
            BY <1>1, <6>1
          <6> QED
            BY <4>1, <6>2
        <5> QED
          BY <5>1
      <4>2. Fits(h0, 0)
        BY <4>1
      <4> HIDE DEF h0, Fits
      <4> QED
        BY <4>2, <3>1
    <3> HIDE DEF Fits
    <3>3. n - 1 \in Nat /\ n - 1 \notin wrong
      <4>1. n \in Nat
        BY <3>1
      <4> HIDE DEF wrong
      <4> QED
        BY <4>1, <3>1, <3>2
    <3>4. PICK h : Fits(h, n - 1)
      BY <3>3
    <3> DEFINE g == of(h)
    <3>5. ASSUME NEW J \in SUBSET I, Cardinality(J) <= n PROVE g[J] = of(g)[J]
      <4>1. CASE J = {}
        BY <4>1
      <4>2. CASE J # {}
        <5>1. PICK K : K = J \ {Max(J)}
          OBVIOUS
        <5>2. K \in SUBSET I /\ Cardinality(K) <= n - 1
          BY <1>1, <4>2, <5>1, <3>5, <3>1
        <5>3. h[K] = of(h)[K]
          BY <3>4, <5>2 DEF Fits
        <5>4. g[J] = Append(h[K], s[Max(J)])
          BY <4>2, <5>1
        <5>5. of(g)[J] = Append(g[K], s[Max(J)])
          BY <4>2, <5>1
        <5> QED
          BY <5>3, <5>4, <5>5
      <4> QED
        BY <4>1, <4>2
    <3> HIDE DEF g
    <3>6. Fits(g, n)
      BY <3>5 DEF Fits
    <3> QED
      BY <3>1, <3>6
  <2>2. Cardinality(I) \in Nat /\ \A J \in SUBSET I : Cardinality(J) <= Cardinality(I)
    BY <1>0, FS_CardinalityType, FS_Subset
  <2>3. \E h : Fits(h, Cardinality(I))
    <3> HIDE DEF Fits
    <3> QED
      BY <2>1, <2>2
  <2>4. PICK h : Fits(h, Cardinality(I))
    BY <2>3
  <2> DEFINE f == [J \in SUBSET I |-> h[J]]
  <2>5. ASSUME NEW J \in SUBSET I PROVE f[J] = of(f)[J]
    <3>1. h[J] = of(h)[J]
      BY <2>2, <2>4
    <3>2. CASE J = {}
      BY <3>1, <3>2
    <3>3. CASE J # {}
      <4>1. PICK K : K = J \ {Max(J)}
        OBVIOUS
      <4>2. K \in SUBSET I /\ f[K] = h[K]
        BY <1>1, <3>3, <4>1
      <4> QED
        BY <3>1, <3>3, <4>1, <4>2
    <3> QED
      BY <3>2, <3>3
  <2>6. f = of(f)
    BY <2>5
  <2> QED
    BY <2>6
<1>3. ASSUME NEW h, h = of(h) PROVE IsKept(h[I], s, I)
  <2> DEFINE wrong == {n \in Nat : \E J \in SUBSET I : Cardinality(J) = n /\ ~IsKept(h[J], s, J)}
  <2>1. SUFFICES ASSUME wrong # {} PROVE FALSE
    <3>1. I \in SUBSET I /\ Cardinality(I) \in Nat
      BY <1>0, FS_CardinalityType
    <3> QED
      BY <3>1
  <2>2. PICK n \in wrong : \A k \in wrong : n <= k
    BY <2>1, LeastExists
  <2>3. PICK J \in SUBSET I : Cardinality(J) = n /\ ~IsKept(h[J], s, J)
    BY <2>2
  <2>4. h[J] = IF J = {} THEN <<>> ELSE Append(h[J \ {Max(J)}], s[Max(J)])
    BY <1>3
  <2>5. J # {}
    <3>1. ASSUME J = {} PROVE FALSE
      <4>1. h[J] = <<>>
        BY <2>4, <3>1
      <4>2. Lists(<<>>, s, {}, <<>>)
        BY DEF Lists
      <4>3. IsKept(<<>>, s, {})
        BY <4>2 DEF IsKept
      <4> QED
        BY <2>3, <3>1, <4>1, <4>3
    <3> QED
      BY <3>1
  <2>6. PICK K : K = J \ {Max(J)}
    OBVIOUS
  <2>7. /\ K \in SUBSET I /\ Cardinality(K) = n - 1 /\ n - 1 \in Nat
        /\ Max(J) \in J /\ \A j \in J : j <= Max(J)
    BY <1>1, <2>3, <2>5, <2>6
  <2>8. IsKept(h[K], s, J \ {Max(J)})
    <3>1. n - 1 \notin wrong
      BY <2>2, <2>7
    <3> QED
      BY <2>6, <2>7, <3>1
  <2>9. IsKept(Append(h[K], s[Max(J)]), s, J)
    BY <2>7, <2>8, KeepStep
  <2> QED
    BY <2>3, <2>4, <2>5, <2>6, <2>9
<1>4. \A h : h = of(h) => IsKept(h[I], s, I)
  BY <1>3
<1>5. IsKept(MapThenFoldSet(LAMBDA e, kept : Append(kept, e), <<>>, LAMBDA i : s[i],
                            LAMBDA J : Max(J), I), s, I)
  <2> HIDE DEF of
  <2> QED
    BY <1>2, <1>4 DEF MapThenFoldSet, of
<1> QED
  BY <1>5 DEF Keep

\* What Keep returns, with the positions of its elements.
LEMMA KeepNames ==
  ASSUME NEW s, NEW b \in Nat, NEW I \in SUBSET (1 .. b)
  PROVE  /\ Keep(s, I) \in Seq({s[i] : i \in I})
         /\ \E pos : Lists(Keep(s, I), s, I, pos)
BY KeepLists DEF IsKept

\* The elements of u are those of s at the positions I, each once.
Names(u, s, I, pos) ==
  /\ pos \in [DOMAIN u -> I]
  /\ \A j, k \in DOMAIN u : pos[j] = pos[k] => j = k
  /\ \A i \in I : \E k \in DOMAIN u : pos[k] = i
  /\ \A k \in DOMAIN u : u[k] = s[pos[k]]

\* Listing in order names each position once.
LEMMA ListsNames ==
  ASSUME NEW R, NEW u \in Seq(R), NEW s, NEW b \in Nat, NEW I \in SUBSET (1 .. b),
         NEW pos, Lists(u, s, I, pos)
  PROVE  Names(u, s, I, pos)
<1>1. DOMAIN u = 1 .. Len(u) /\ Len(u) \in Nat
  OBVIOUS
<1>2. ASSUME NEW j \in DOMAIN u, NEW k \in DOMAIN u, pos[j] = pos[k] PROVE j = k
  <2>1. /\ \A i \in I : i \in Nat
        /\ pos[j] \in I /\ pos[k] \in I
    BY <1>1 DEF Lists
  <2>2. pos[j] \in Nat /\ pos[k] \in Nat
    BY <2>1
  <2>3. \A g, h \in 1 .. Len(u) : g < h => pos[g] < pos[h]
    BY DEF Lists
  <2>4. ~(j < k)
    BY <1>1, <1>2, <2>2, <2>3
  <2>5. ~(k < j)
    BY <1>1, <1>2, <2>2, <2>3
  <2> QED
    BY <1>1, <2>4, <2>5
<1> QED
  BY <1>1, <1>2 DEF Lists, Names

\* The elements of two lists one after the other.
LEMMA NamesConcat ==
  ASSUME NEW R, NEW u \in Seq(R), NEW v \in Seq(R), NEW s, NEW I, NEW J,
         I \cap J = {}, NEW p, NEW q, Names(u, s, I, p), Names(v, s, J, q)
  PROVE  \E pos : Names(u \o v, s, I \cup J, pos)
<1> DEFINE n == Len(u)
           w == u \o v
           pos == [k \in DOMAIN w |-> IF k \in DOMAIN u THEN p[k] ELSE q[k - n]]
<1>1. /\ n \in Nat /\ Len(v) \in Nat /\ DOMAIN u = 1 .. n /\ DOMAIN v = 1 .. Len(v)
      /\ DOMAIN w = 1 .. n + Len(v)
      /\ \A k \in DOMAIN w : w[k] = IF k \in DOMAIN u THEN u[k] ELSE v[k - n]
  OBVIOUS
<1> HIDE DEF n, w
<1>2. \A k \in DOMAIN w : k \notin DOMAIN u => k - n \in DOMAIN v
  BY <1>1
<1>3. ASSUME NEW k \in DOMAIN w
      PROVE  /\ pos[k] \in I \cup J
             /\ k \in DOMAIN u => pos[k] = p[k] /\ pos[k] \in I
             /\ k \notin DOMAIN u => pos[k] = q[k - n] /\ pos[k] \in J
             /\ w[k] = s[pos[k]]
  BY <1>1, <1>2 DEF Names
<1>4. ASSUME NEW j \in DOMAIN w, NEW k \in DOMAIN w, pos[j] = pos[k] PROVE j = k
  <2> HIDE DEF pos
  <2>1. CASE j \in DOMAIN u /\ k \in DOMAIN u
    BY <1>3, <1>4, <2>1 DEF Names
  <2>2. CASE j \notin DOMAIN u /\ k \notin DOMAIN u
    <3>1. q[j - n] = q[k - n] /\ j - n \in DOMAIN v /\ k - n \in DOMAIN v
      BY <1>2, <1>3, <1>4, <2>2
    <3>2. j - n = k - n
      BY <3>1 DEF Names
    <3> QED
      BY <3>2, <1>1
  <2>3. CASE (j \in DOMAIN u /\ k \notin DOMAIN u) \/ (j \notin DOMAIN u /\ k \in DOMAIN u)
    BY <1>3, <1>4, <2>3
  <2> QED
    BY <2>1, <2>2, <2>3
<1>5. ASSUME NEW i \in I \cup J PROVE \E k \in DOMAIN w : pos[k] = i
  <2>1. CASE i \in I
    <3>1. PICK k \in DOMAIN u : p[k] = i
      BY <2>1 DEF Names
    <3>2. k \in DOMAIN w
      BY <1>1
    <3> QED
      BY <1>3, <3>1, <3>2
  <2>2. CASE i \in J
    <3>1. PICK k \in DOMAIN v : q[k] = i
      BY <2>2 DEF Names
    <3>2. k + n \in DOMAIN w /\ k + n \notin DOMAIN u /\ (k + n) - n = k
      BY <1>1
    <3>3. pos[k + n] = q[(k + n) - n]
      BY <3>2
    <3> QED
      BY <3>1, <3>2, <3>3
  <2> QED
    BY <2>1, <2>2
<1>6. pos \in [DOMAIN w -> I \cup J]
  BY <1>3
<1>7. Names(w, s, I \cup J, pos)
  <2> HIDE DEF pos
  <2> QED
    BY <1>3, <1>4, <1>5, <1>6 DEF Names
<1> QED
  BY <1>7 DEF w

\* g has for the elements of u the values that f has for the positions they come
\* from, and K are the elements that come from T.
SameValues(u, I, pos, f, g) ==
  /\ \A i \in I : f[i] \in Nat
  /\ \A k \in DOMAIN u : g[k] = f[pos[k]]
SamePart(u, I, pos, K, T) ==
  /\ K \subseteq DOMAIN u /\ T \subseteq I
  /\ \A k \in DOMAIN u : k \in K <=> pos[k] \in T

\* A sum over some of the elements of u is one over the positions they come from.
LEMMA NamesSum ==
  ASSUME NEW u, NEW s, NEW I, IsFiniteSet(I), NEW pos, Names(u, s, I, pos),
         NEW f, NEW g, SameValues(u, I, pos, f, g),
         NEW K, NEW T, SamePart(u, I, pos, K, T)
  PROVE  SumOver(g, K) = SumOver(f, T)
<1> DEFINE p == [k \in K |-> pos[k]]
<1>1. p \in [K -> T]
  BY DEF SamePart
<1>2. IsFiniteSet(T) /\ \A x \in T : f[x] \in Nat
  BY FS_Subset DEF SamePart, SameValues
<1>3. /\ \A k \in K : g[k] = f[p[k]]
      /\ \A j, k \in K : p[j] = p[k] => j = k
      /\ \A x \in T : \E k \in K : p[k] = x
  BY DEF Names, SameValues, SamePart
<1> HIDE DEF p
<1> QED
  BY <1>1, <1>2, <1>3, SumRenamed

-----------------------------------------------------------------------------
(* A quantity that is handed out in order.                                  *)

\* What the bounded differences and minima of shares are.
LEMMA ArithmeticFacts ==
  /\ \A a, b \in Nat : /\ Least(a, b) \in Nat /\ Least(a, b) <= a /\ Least(a, b) <= b
                       /\ LessAtMost(a, b) \in Nat /\ LessAtMost(a, b) <= a
BY DEF Least, LessAtMost

\* What those up to i ask for.
LEMMA AsksUpTo ==
  ASSUME NEW n \in Nat, NEW asks \in [1 .. n -> Nat], NEW i \in 1 .. n
  PROVE  SumOver(asks, 1 .. i) = SumOver(asks, 1 .. i - 1) + asks[i]
<1>1. IsFiniteSet(1 .. i)
  BY FS_Interval
<1>2. (1 .. i) \ {i} = 1 .. i - 1 /\ i \in 1 .. i /\ \A x \in 1 .. i : asks[x] \in Nat
  OBVIOUS
<1>3. SumOver(asks, 1 .. i) = SumOver(asks, (1 .. i) \ {i}) + asks[i]
  BY <1>1, <1>2, SumWith
<1> QED
  BY <1>2, <1>3, Zenon

\* What those before i ask for.
LEMMA AsksBefore ==
  ASSUME NEW n \in Nat, NEW asks \in [1 .. n -> Nat], NEW i \in 1 .. n
  PROVE  /\ {j \in DOMAIN asks : j < i} = 1 .. i - 1
         /\ IsFiniteSet(1 .. i - 1)
         /\ SumOver(asks, 1 .. i - 1) \in Nat
<1>1. {j \in DOMAIN asks : j < i} = 1 .. i - 1
  OBVIOUS
<1>2. IsFiniteSet(1 .. i - 1) /\ IsFiniteSet(1 .. i)
  BY FS_Interval
<1>3. \A x \in 1 .. i - 1 : asks[x] \in Nat
  OBVIOUS
<1> QED
  BY <1>1, <1>2, <1>3, SumType

\* A share is at most what is asked for and at most what there is.
LEMMA InTurnType ==
  ASSUME NEW n \in Nat, NEW asks \in [1 .. n -> Nat], NEW q \in Nat, NEW i \in 1 .. n
  PROVE  /\ InTurn(q, asks, i) = Least(LessAtMost(q, SumOver(asks, 1 .. i - 1)), asks[i])
         /\ InTurn(q, asks, i) \in Nat
         /\ InTurn(q, asks, i) <= asks[i] /\ InTurn(q, asks, i) <= q
<1>1. SumOver(asks, 1 .. i - 1) \in Nat /\ {j \in DOMAIN asks : j < i} = 1 .. i - 1
  BY AsksBefore
<1>2. InTurn(q, asks, i) = Least(LessAtMost(q, SumOver(asks, 1 .. i - 1)), asks[i])
  BY <1>1, Zenon DEF InTurn
<1>3. PICK a \in Nat : a = SumOver(asks, 1 .. i - 1)
  BY <1>1
<1>4. asks[i] \in Nat
  OBVIOUS
<1> QED
  BY <1>2, <1>3, <1>4 DEF Least, LessAtMost

\* First in, first out: who gets something leaves nobody before him short.
LEMMA InTurnFifo ==
  ASSUME NEW n \in Nat, NEW asks \in [1 .. n -> Nat], NEW q \in Nat,
         NEW i \in 1 .. n, NEW j \in 1 .. n, j < i, InTurn(q, asks, i) # 0
  PROVE  InTurn(q, asks, j) = asks[j]
<1>1. PICK a \in Nat : a = SumOver(asks, 1 .. i - 1)
  BY AsksBefore
<1>2. PICK b \in Nat : b = SumOver(asks, 1 .. j - 1)
  BY AsksBefore
<1>3. b + asks[j] = SumOver(asks, 1 .. j)
  <2>1. SumOver(asks, 1 .. j) = SumOver(asks, 1 .. j - 1) + asks[j]
    BY AsksUpTo
  <2> QED
    BY <1>2, <2>1
<1>4. SumOver(asks, 1 .. j) <= SumOver(asks, 1 .. i - 1)
  <2>1. 1 .. j \subseteq 1 .. i - 1 /\ \A x \in 1 .. i - 1 : asks[x] \in Nat
    OBVIOUS
  <2>2. IsFiniteSet(1 .. i - 1)
    BY AsksBefore
  <2> QED
    BY <2>1, <2>2, SumMonotone
<1>5. b + asks[j] <= a
  BY <1>1, <1>3, <1>4
<1>6. InTurn(q, asks, i) = Least(LessAtMost(q, a), asks[i]) /\ asks[i] \in Nat
  BY <1>1, InTurnType
<1>7. InTurn(q, asks, j) = Least(LessAtMost(q, b), asks[j]) /\ asks[j] \in Nat
  BY <1>2, InTurnType
<1> QED
  BY <1>5, <1>6, <1>7 DEF Least, LessAtMost

\* All that there is is handed out, as far as it is asked for.
LEMMA InTurnTotal ==
  ASSUME NEW n \in Nat, NEW asks \in [1 .. n -> Nat], NEW q \in Nat, NEW f,
         \A i \in 1 .. n : f[i] = InTurn(q, asks, i)
  PROVE  /\ SumOver(f, 1 .. n) = Least(q, SumOver(asks, 1 .. n))
         /\ SumOver(asks, 1 .. n) \in Nat
<1>0. \A i \in 1 .. n : f[i] \in Nat
  <2>1. SUFFICES ASSUME NEW i \in 1 .. n PROVE f[i] \in Nat
    OBVIOUS
  <2>2. InTurn(q, asks, i) \in Nat
    BY InTurnType
  <2> QED
    BY <2>2
<1> DEFINE wrong == {k \in Nat : k <= n /\ SumOver(f, 1 .. k)
                                            # Least(q, SumOver(asks, 1 .. k))}
<1>1. wrong = {}
  <2>1. SUFFICES ASSUME wrong # {} PROVE FALSE
    OBVIOUS
  <2>2. PICK k \in wrong : \A j \in wrong : k <= j
    BY <2>1, LeastExists
  <2>3. k # 0
    <3>1. SumOver(f, 1 .. 0) = 0 /\ SumOver(asks, 1 .. 0) = 0
      <4>1. 1 .. 0 = {}
        OBVIOUS
      <4> QED
        BY <4>1, SumEmpty, Zenon
    <3>2. SumOver(f, 1 .. 0) = Least(q, SumOver(asks, 1 .. 0))
      BY <3>1 DEF Least
    <3> QED
      BY <2>2, <3>2
  <2>4. k \in 1 .. n /\ k - 1 \in Nat /\ k - 1 \notin wrong /\ k - 1 <= n
    <3>1. k \in Nat /\ k <= n
      BY <2>2
    <3> HIDE DEF wrong
    <3> QED
      BY <2>2, <2>3, <3>1
  <2>5. PICK a \in Nat : a = SumOver(asks, 1 .. k - 1)
    BY <2>4, AsksBefore
  <2> HIDE DEF wrong
  <2>6. SumOver(asks, 1 .. k) = a + asks[k] /\ asks[k] \in Nat
    <3>1. k \in 1 .. n
      BY <2>4
    <3>2. SumOver(asks, 1 .. k) = SumOver(asks, 1 .. k - 1) + asks[k]
      BY <3>1, AsksUpTo
    <3> QED
      BY <2>5, <3>1, <3>2
  <2>7. SumOver(f, 1 .. k - 1) = Least(q, a)
    BY <2>4, <2>5 DEF wrong
  <2>8. SumOver(f, 1 .. k) = SumOver(f, 1 .. k - 1) + f[k]
    <3> DEFINE g == [i \in 1 .. n |-> f[i]]
    <3>1. g \in [1 .. n -> Nat]
      BY <1>0
    <3>2. SumOver(g, 1 .. k) = SumOver(g, 1 .. k - 1) + g[k]
      <4>1. k \in 1 .. n
        BY <2>4
      <4> HIDE DEF g
      <4> QED
        BY <3>1, <4>1, AsksUpTo
    <3>3. ASSUME NEW m \in Nat, m <= n PROVE SumOver(g, 1 .. m) = SumOver(f, 1 .. m)
      <4>1. IsFiniteSet(1 .. m)
        BY <3>3, FS_Interval
      <4>2. \A x \in 1 .. m : f[x] \in Nat /\ g[x] = f[x]
        BY <1>0, <3>3
      <4> HIDE DEF g
      <4> QED
        BY <4>1, <4>2, SumSame
    <3>4. SumOver(g, 1 .. k) = SumOver(f, 1 .. k) /\ SumOver(g, 1 .. k - 1) = SumOver(f, 1 .. k - 1)
      BY <2>4, <3>3
    <3>5. g[k] = f[k]
      BY <2>4
    <3> HIDE DEF g
    <3> QED
      BY <3>2, <3>4, <3>5
  <2>9. f[k] = Least(LessAtMost(q, a), asks[k])
    BY <2>4, <2>5, InTurnType
  <2>10. SumOver(f, 1 .. k) = Least(q, SumOver(asks, 1 .. k))
    BY <2>6, <2>7, <2>8, <2>9 DEF Least, LessAtMost
  <2> QED
    BY <2>2, <2>10 DEF wrong
<1>2. n \notin wrong
  BY <1>1
<1>3. SumOver(asks, 1 .. n) \in Nat
  <2>1. IsFiniteSet(1 .. n)
    BY FS_Interval
  <2> QED
    BY <2>1, SumType
<1> QED
  BY <1>2, <1>3

\* No more is handed out than there is.
LEMMA InTurnSum ==
  ASSUME NEW n \in Nat, NEW asks \in [1 .. n -> Nat], NEW q \in Nat, NEW f,
         \A i \in 1 .. n : f[i] = InTurn(q, asks, i)
  PROVE  SumOver(f, 1 .. n) <= q
BY InTurnTotal DEF Least

\* When something is left, everybody got what he asked for.
LEMMA InTurnAll ==
  ASSUME NEW n \in Nat, NEW asks \in [1 .. n -> Nat], NEW q \in Nat, NEW f,
         \A i \in 1 .. n : f[i] = InTurn(q, asks, i),
         SumOver(f, 1 .. n) < q, NEW i \in 1 .. n
  PROVE  f[i] = asks[i]
<1>1. PICK all \in Nat : all = SumOver(asks, 1 .. n)
  BY InTurnTotal
<1>2. all < q
  <2>1. SumOver(f, 1 .. n) = Least(q, all)
    BY <1>1, InTurnTotal
  <2> QED
    BY <2>1 DEF Least
<1>3. PICK a \in Nat : a = SumOver(asks, 1 .. i - 1)
  BY AsksBefore
<1>4. a + asks[i] = SumOver(asks, 1 .. i)
  BY <1>3, AsksUpTo
<1>5. SumOver(asks, 1 .. i) <= all
  <2>1. 1 .. i \subseteq 1 .. n /\ \A x \in 1 .. n : asks[x] \in Nat
    OBVIOUS
  <2>2. IsFiniteSet(1 .. n)
    BY FS_Interval
  <2> QED
    BY <1>1, <2>1, <2>2, SumMonotone
<1>6. InTurn(q, asks, i) = Least(LessAtMost(q, a), asks[i]) /\ asks[i] \in Nat
  BY <1>3, InTurnType
<1>7. f[i] = Least(LessAtMost(q, a), asks[i])
  BY <1>6
<1>8. a + asks[i] < q
  BY <1>2, <1>4, <1>5, <1>6
<1> QED
  BY <1>6, <1>7, <1>8 DEF Least, LessAtMost

-----------------------------------------------------------------------------
(* The market orders ahead of an own order. *)

\* The table as far as the references up to w.
Upto(t, w) == [r \in RefIds |-> IF r <= w THEN t[r] ELSE NoOrder]

\* The shares at a level of the orders of table t up to the reference w.
MarketAhead(t, side, price, w) ==
  Cardinality(SharesOf(t, {r \in LiveIn(t) : /\ RestsAt(t[r], Locate, side, price)
                                             /\ r <= w}))

\* The part of a table up to a reference is a table.
LEMMA UptoType ==
  ASSUME NEW t \in Table, NEW w
  PROVE  /\ Upto(t, w) \in Table
         /\ \A r : r \in LiveIn(Upto(t, w)) <=> r \in LiveIn(t) /\ r <= w
         /\ \A r \in LiveIn(Upto(t, w)) : Upto(t, w)[r] = t[r]
BY AbsentAssumption DEF Upto, Table, LiveIn

\* It is a level total of that part of the table.
LEMMA AheadIsTotal ==
  ASSUME NEW t \in Table, NEW side, NEW price, NEW w
  PROVE  /\ MarketAhead(t, side, price, w) = ShareTotal(Upto(t, w), Locate, side, price)
         /\ MarketAhead(t, side, price, w) \in Nat
<1> DEFINE A == {r \in LiveIn(t) : RestsAt(t[r], Locate, side, price) /\ r <= w}
           B == OrdersAt(Upto(t, w), Locate, side, price)
<1>1. A = B
  BY UptoType DEF OrdersAt
<1>2. \A r \in B : Upto(t, w)[r] = t[r]
  BY UptoType DEF OrdersAt
<1>3. SharesOf(t, A) = SharesOf(Upto(t, w), B)
  <2> HIDE DEF A, B
  <2> QED
    BY <1>1, <1>2 DEF SharesOf
<1>4. ShareTotal(Upto(t, w), Locate, side, price) \in Nat
  BY UptoType, TotalsNat
<1> QED
  BY <1>3, <1>4 DEF MarketAhead, ShareTotal

\* When no live order is above w, it is all there is at the level.
LEMMA AheadIsAll ==
  ASSUME NEW t \in Table, NEW side, NEW price, NEW w, \A r \in LiveIn(t) : r <= w
  PROVE  MarketAhead(t, side, price, w) = ShareTotal(t, Locate, side, price)
<1>1. {r \in LiveIn(t) : RestsAt(t[r], Locate, side, price) /\ r <= w}
        = OrdersAt(t, Locate, side, price)
  BY DEF OrdersAt
<1> QED
  BY <1>1 DEF MarketAhead, ShareTotal

\* What an order up to w loses is gone from what is ahead at its level.
LEMMA AheadTake ==
  ASSUME NEW t \in Table, NEW r \in LiveIn(t), NEW qty \in U32,
         qty # 0, qty <= t[r].shares, NEW side, NEW price, NEW w
  PROVE  MarketAhead(t, side, price, w)
           = MarketAhead(After(t, r, qty), side, price, w)
             + (IF RestsAt(t[r], Locate, side, price) /\ r <= w THEN qty ELSE 0)
<1> DEFINE u == Upto(t, w)
           a == After(t, r, qty)
<1>1. r \in RefIds /\ t[r] \in Order /\ a \in Table
  BY EraseType, TakeTotals
<1>2. CASE r <= w
  <2>1. u \in Table /\ r \in LiveIn(u) /\ u[r] = t[r]
    BY <1>2, UptoType
  <2>2. Upto(a, w) = After(u, r, qty)
    <3>1. CASE t[r].shares = qty
      <4>1. Upto(Erase(t, r), w) = Erase(Upto(t, w), r)
        BY <1>1, <1>2 DEF Upto, Erase, Table
      <4> QED
        BY <2>1, <3>1, <4>1 DEF After
    <3>2. CASE t[r].shares # qty
      <4>1. Upto([t EXCEPT ![r].shares = @ - qty], w)
              = [Upto(t, w) EXCEPT ![r].shares = @ - qty]
        BY <1>1, <1>2 DEF Upto, Table
      <4> QED
        BY <2>1, <3>2, <4>1 DEF After
    <3> QED
      BY <3>1, <3>2
  <2>3. ShareTotal(u, Locate, side, price)
          = ShareTotal(After(u, r, qty), Locate, side, price)
            + Counted(u[r], Locate, side, price, qty)
    <3> HIDE DEF u
    <3> QED
      BY <2>1, TakeTotals
  <2>4. Counted(u[r], Locate, side, price, qty)
          = IF RestsAt(t[r], Locate, side, price) /\ r <= w THEN qty ELSE 0
    BY <1>2, <2>1 DEF Counted
  <2>5. /\ MarketAhead(t, side, price, w) = ShareTotal(u, Locate, side, price)
        /\ MarketAhead(a, side, price, w) = ShareTotal(Upto(a, w), Locate, side, price)
    <3> HIDE DEF a
    <3> QED
      BY <1>1, AheadIsTotal
  <2> HIDE DEF u, a
  <2> QED
    BY <2>2, <2>3, <2>4, <2>5 DEF a
<1>3. CASE ~(r <= w)
  <2>1. Upto(a, w) = u
    <3>1. \A q \in RefIds : q <= w => a[q] = t[q]
      BY <1>1, <1>3 DEF After, Erase, Table
    <3> QED
      BY <3>1 DEF Upto
  <2>2. /\ MarketAhead(t, side, price, w) = ShareTotal(u, Locate, side, price)
        /\ MarketAhead(t, side, price, w) \in Nat
        /\ MarketAhead(a, side, price, w) = ShareTotal(Upto(a, w), Locate, side, price)
    <3> HIDE DEF a
    <3> QED
      BY <1>1, AheadIsTotal
  <2> HIDE DEF u, a
  <2> QED
    BY <1>3, <2>1, <2>2 DEF a
<1> QED
  BY <1>2, <1>3

\* An order above w is ahead of nothing.
LEMMA AheadInsert ==
  ASSUME NEW t \in Table, NEW r \in RefIds, NEW o \in Order,
         NEW side, NEW price, NEW w, ~(r <= w)
  PROVE  MarketAhead(Insert(t, r, o), side, price, w) = MarketAhead(t, side, price, w)
<1>1. Insert(t, r, o) \in Table
  BY InsertType
<1>2. Upto(Insert(t, r, o), w) = Upto(t, w)
  <2>1. \A q \in RefIds : q <= w => Insert(t, r, o)[q] = t[q]
    BY InsertType
  <2> QED
    BY <2>1 DEF Upto
<1> QED
  BY <1>1, <1>2, AheadIsTotal

\* What an order has that is ahead is part of what is ahead.
LEMMA AheadHolds ==
  ASSUME NEW t \in Table, NEW r \in LiveIn(t), NEW w, r <= w, t[r].locate = Locate
  PROVE  t[r].shares <= MarketAhead(t, t[r].side, t[r].price, w)
<1>1. t[r] \in Order /\ t[r].shares \in U32 /\ t[r].shares # 0 /\ t[r].shares \in Nat
  BY EraseType, MaxU32Assumption DEF Order, U32
<1>2. MarketAhead(t, t[r].side, t[r].price, w)
        = MarketAhead(After(t, r, t[r].shares), t[r].side, t[r].price, w)
          + (IF RestsAt(t[r], Locate, t[r].side, t[r].price) /\ r <= w
             THEN t[r].shares ELSE 0)
  BY <1>1, AheadTake
<1>3. MarketAhead(After(t, r, t[r].shares), t[r].side, t[r].price, w) \in Nat
  BY <1>1, TakeTotals, AheadIsTotal
<1>4. RestsAt(t[r], Locate, t[r].side, t[r].price)
  BY DEF RestsAt
<1> QED
  BY <1>1, <1>2, <1>3, <1>4

-----------------------------------------------------------------------------
(* Own orders in sequences of them, before and after some of them are gone. *)

LaterIn(s, i, j) == i > j /\ SameLevel(s[i], s[j].side, s[j].price)

\* The queue position of every order of os is what it should be with table t.
Exact(os, t) ==
  \A i \in DOMAIN os :
    os[i].queue_ahead
      = MarketAhead(t, os[i].side, os[i].price, os[i].watermark)
        + SumOver(Remaining(os), {j \in DOMAIN os : LaterIn(os, i, j)})

\* References and watermarks increase from order to order.
Ordered(os) ==
  \A i, j \in DOMAIN os :
    j < i => os[j].ref < os[i].ref /\ os[j].watermark <= os[i].watermark

\* The orders I of s, 1 .. n, have exact queue positions when rem remains of them
\* and nothing of the others.
Accounted(s, n, I, rem, t) ==
  /\ \A i \in I : s[i].remaining = rem[i]
  /\ \A i \in (1 .. n) \ I : rem[i] = 0
  /\ \A i \in I :
       s[i].queue_ahead
         = MarketAhead(t, s[i].side, s[i].price, s[i].watermark)
           + SumOver(rem, {j \in 1 .. n : LaterIn(s, i, j)})

\* Orders of which nothing remains may go: nobody counted them.
LEMMA KeepExact ==
  ASSUME NEW n \in Nat, NEW s, DOMAIN s = 1 .. n, NEW I \in SUBSET (1 .. n),
         NEW rem \in [1 .. n -> Nat], NEW t, Accounted(s, n, I, rem, t)
  PROVE  Exact(Keep(s, I), t)
<1> DEFINE u == Keep(s, I)
<1>1. PICK pos : Lists(u, s, I, pos) /\ u \in Seq({s[i] : i \in I})
  BY KeepNames
<1>2. DOMAIN u = 1 .. Len(u) /\ Len(u) \in Nat
  BY <1>1
<1>3. Names(u, s, I, pos)
  BY <1>1, ListsNames
<1>4. IsFiniteSet(1 .. n) /\ IsFiniteSet(I)
  <2>1. IsFiniteSet(1 .. n)
    BY FS_Interval
  <2> QED
    BY <2>1, FS_Subset
<1>0. \A i \in I : i \in Nat /\ i \in 1 .. n
  OBVIOUS
<1> HIDE DEF u
<1> SUFFICES ASSUME NEW k \in DOMAIN u
             PROVE  u[k].queue_ahead
                      = MarketAhead(t, u[k].side, u[k].price, u[k].watermark)
                        + SumOver(Remaining(u), {h \in DOMAIN u : LaterIn(u, k, h)})
  BY DEF Exact, u
<1>5. /\ pos[k] \in I /\ u[k] = s[pos[k]]
      /\ \A h \in DOMAIN u : pos[h] \in I /\ u[h] = s[pos[h]]
  BY <1>3 DEF Names
<1> DEFINE K == {h \in DOMAIN u : LaterIn(u, k, h)}
           All == {j \in 1 .. n : LaterIn(s, pos[k], j)}
           T == All \cap I
<1>6. \A h \in DOMAIN u : h < k <=> pos[h] < pos[k]
  <2>1. \A g, h \in 1 .. Len(u) : g < h => pos[g] < pos[h]
    BY <1>1 DEF Lists
  <2> SUFFICES ASSUME NEW h \in DOMAIN u PROVE h < k <=> pos[h] < pos[k]
    OBVIOUS
  <2>2. h \in 1 .. Len(u) /\ k \in 1 .. Len(u) /\ h \in Nat /\ k \in Nat
    BY <1>2
  <2>3. pos[h] \in Nat /\ pos[k] \in Nat
    BY <1>0, <1>5
  <2>4. h < k => pos[h] < pos[k]
    BY <2>1, <2>2
  <2>5. k < h => pos[k] < pos[h]
    BY <2>1, <2>2
  <2>6. h = k \/ h < k \/ k < h
    BY <2>2
  <2> QED
    BY <2>3, <2>4, <2>5, <2>6
<1>7. \A h \in DOMAIN u : h \in K <=> pos[h] \in T
  <2> SUFFICES ASSUME NEW h \in DOMAIN u PROVE h \in K <=> pos[h] \in T
    OBVIOUS
  <2>1. h \in Nat /\ k \in Nat /\ pos[h] \in Nat /\ pos[k] \in Nat /\ pos[h] \in 1 .. n
    <3> HIDE DEF K, T, All
    <3>1. pos[h] \in I /\ pos[k] \in I
      BY <1>5
    <3>2. h \in Nat /\ k \in Nat
      BY <1>2
    <3> QED
      BY <1>0, <3>1, <3>2
  <2>2. k > h <=> pos[k] > pos[h]
    BY <1>6, <2>1
  <2> QED
    BY <1>5, <2>1, <2>2 DEF LaterIn
<1>8. SumOver(Remaining(u), K) = SumOver(rem, T)
  <2>1. SameValues(u, I, pos, rem, Remaining(u))
    BY <1>5 DEF Remaining, Accounted, SameValues
  <2>2. SamePart(u, I, pos, K, T)
    BY <1>7 DEF SamePart
  <2> HIDE DEF K, T, All
  <2> QED
    BY <1>3, <1>4, <2>1, <2>2, NamesSum
<1>9. SumOver(rem, T) = SumOver(rem, All)
  <2>1. T \subseteq All /\ All \subseteq 1 .. n
    OBVIOUS
  <2>2. IsFiniteSet(All)
    BY <1>4, <2>1, FS_Subset
  <2>3. \A x \in All : rem[x] \in Nat
    BY <2>1
  <2>4. \A x \in All \ T : rem[x] = 0
    BY DEF Accounted
  <2> HIDE DEF T, All
  <2> QED
    BY <2>1, <2>2, <2>3, <2>4, SumSkip
<1>10. s[pos[k]].queue_ahead
         = MarketAhead(t, s[pos[k]].side, s[pos[k]].price, s[pos[k]].watermark)
           + SumOver(rem, All)
  BY <1>5 DEF Accounted
<1> HIDE DEF K, T, All
<1>11. SumOver(Remaining(u), K) = SumOver(rem, All)
  BY <1>8, <1>9
<1> QED
  BY <1>5, <1>10, <1>11 DEF K

\* They stay in order.
LEMMA KeepOrdered ==
  ASSUME NEW n \in Nat, NEW s, DOMAIN s = 1 .. n, Ordered(s),
         NEW I \in SUBSET (1 .. n)
  PROVE  Ordered(Keep(s, I))
<1> DEFINE u == Keep(s, I)
<1>1. PICK pos : Lists(u, s, I, pos) /\ u \in Seq({s[i] : i \in I})
  BY KeepNames
<1> HIDE DEF u
<1>2. DOMAIN u = 1 .. Len(u)
  BY <1>1
<1> SUFFICES ASSUME NEW k \in DOMAIN u, NEW h \in DOMAIN u, h < k
             PROVE  u[h].ref < u[k].ref /\ u[h].watermark <= u[k].watermark
  BY DEF Ordered, u
<1>3. /\ pos[h] \in 1 .. n /\ pos[k] \in 1 .. n /\ pos[h] < pos[k]
      /\ u[h] = s[pos[h]] /\ u[k] = s[pos[k]]
  BY <1>1, <1>2 DEF Lists
<1> QED
  BY <1>3 DEF Ordered

\* What is kept has the type it had, and came from there.
LEMMA KeepType ==
  ASSUME NEW b \in Nat, NEW s, NEW I \in SUBSET (1 .. b), NEW S, \A i \in I : s[i] \in S
  PROVE  Keep(s, I) \in Seq(S)
<1>1. Keep(s, I) \in Seq({s[i] : i \in I})
  BY KeepNames
<1>2. {s[i] : i \in I} \subseteq S
  OBVIOUS
<1> QED
  BY <1>1, <1>2, WiderSeq, Zenon

\* What is kept are elements of the sequence.
LEMMA KeptMembers ==
  ASSUME NEW t, NEW s, NEW I, IsKept(t, s, I)
  PROVE  \A k \in DOMAIN t : \E i \in I : t[k] = s[i]
<1>1. PICK pos : Lists(t, s, I, pos) /\ t \in Seq({s[i] : i \in I})
  BY DEF IsKept
<1>2. DOMAIN t = 1 .. Len(t)
  BY <1>1
<1> QED
  BY <1>1, <1>2 DEF Lists

-----------------------------------------------------------------------------
(* The inductive invariant. *)

\* The references of own orders increase, below the next one, and so do their
\* watermarks, up to the highest market reference seen.
OwnSound ==
  /\ Ordered(open)
  /\ \A i \in DOMAIN open :
       open[i].ref < next_ref /\ open[i].watermark <= max_market_ref

\* Under a clean feed no order in the table is above it.
RefsSeen == CleanFeed => \A r \in LiveRefs : r <= max_market_ref

Fill == [ref : Nat \ {0}, side : Sides, price : U32, shares : U32 \ {0},
         maker : BOOLEAN]

FInv == IInv /\ FillTypeOK /\ OwnSound /\ RefsSeen /\ QueueIsExact

\* QueueIsExact in terms of Exact.
LEMMA QueueIsExactHere == QueueIsExact <=> (CleanFeed => Exact(open, refs))
<1>1. \A i \in DOMAIN open :
        {j \in DOMAIN open : Later(i, j)} = {j \in DOMAIN open : LaterIn(open, i, j)}
  BY DEF Later, LaterIn
<1> QED
  BY <1>1 DEF QueueIsExact, Exact, MarketAhead, LiveRefs

\* What the type invariant says of each own order.
LEMMA OwnType ==
  ASSUME FillTypeOK
  PROVE  /\ Len(open) \in Nat /\ DOMAIN open = 1 .. Len(open)
         /\ open \in [1 .. Len(open) -> OwnOrder]
         /\ IsFiniteSet(1 .. Len(open))
         /\ \A i \in DOMAIN open :
              /\ open[i] \in OwnOrder /\ open[i].ref \in Nat \ {0}
              /\ open[i].side \in Sides /\ open[i].price \in U32
              /\ open[i].remaining \in U32 \ {0} /\ open[i].remaining \in Nat
              /\ open[i].queue_ahead \in Nat /\ open[i].watermark \in Nat
<1>1. /\ Len(open) \in Nat /\ DOMAIN open = 1 .. Len(open)
      /\ open \in [1 .. Len(open) -> OwnOrder]
  BY DEF FillTypeOK
<1>2. IsFiniteSet(1 .. Len(open))
  BY <1>1, FS_Interval
<1>3. ASSUME NEW i \in DOMAIN open
      PROVE  /\ open[i] \in OwnOrder /\ open[i].ref \in Nat \ {0}
             /\ open[i].side \in Sides /\ open[i].price \in U32
             /\ open[i].remaining \in U32 \ {0} /\ open[i].remaining \in Nat
             /\ open[i].queue_ahead \in Nat /\ open[i].watermark \in Nat
  <2>1. open[i] \in OwnOrder
    BY <1>1
  <2>2. /\ open[i].ref \in Nat \ {0} /\ open[i].side \in Sides
        /\ open[i].price \in U32 /\ open[i].remaining \in U32 \ {0}
        /\ open[i].queue_ahead \in Nat /\ open[i].watermark \in RefIds \cup {0}
    BY <2>1 DEF OwnOrder
  <2>3. open[i].remaining \in Nat
    BY <2>2, MaxU32Assumption DEF U32
  <2>4. open[i].watermark \in Nat
    <3>1. RefIds \cup {0} \subseteq Nat
      BY FillAssumption
    <3> QED
      BY <2>2, <3>1
  <2> QED
    BY <2>1, <2>2, <2>3, <2>4
<1> QED
  BY <1>1, <1>2, <1>3

\* References tell own orders apart.
LEMMA RefsApart ==
  ASSUME FillTypeOK, OwnSound, NEW i \in DOMAIN open, NEW j \in DOMAIN open,
         open[i].ref = open[j].ref
  PROVE  i = j
<1>1. i \in Nat /\ j \in Nat /\ open[i].ref \in Nat /\ open[j].ref \in Nat
  BY OwnType
<1>2. ~(i < j) /\ ~(j < i)
  BY <1>1 DEF OwnSound, Ordered
<1> QED
  BY <1>1, <1>2

\* s is open_ with other quantities and queue positions.
SameOrders(s) ==
  /\ DOMAIN s = DOMAIN open
  /\ \A i \in DOMAIN open :
       /\ s[i].ref = open[i].ref /\ s[i].side = open[i].side
       /\ s[i].price = open[i].price /\ s[i].watermark = open[i].watermark

\* What open_ becomes when only the orders I stay of s.
LEMMA KeepOwn ==
  ASSUME FillTypeOK, OwnSound, NEW s, SameOrders(s), NEW I \in SUBSET DOMAIN open,
         \A i \in I : s[i] \in OwnOrder
  PROVE  /\ Keep(s, I) \in Seq(OwnOrder) /\ Ordered(Keep(s, I))
         /\ \A k \in DOMAIN Keep(s, I) :
              /\ Keep(s, I)[k].ref < next_ref
              /\ Keep(s, I)[k].watermark <= max_market_ref
<1>1. Len(open) \in Nat /\ DOMAIN open = 1 .. Len(open) /\ DOMAIN s = 1 .. Len(open)
  BY OwnType DEF SameOrders
<1>2. Ordered(s)
  BY DEF SameOrders, OwnSound, Ordered
<1>3. I \in SUBSET (1 .. Len(open))
  BY <1>1
<1>4. Ordered(Keep(s, I))
  BY <1>1, <1>2, <1>3, KeepOrdered
<1>5. Keep(s, I) \in Seq(OwnOrder)
  BY <1>1, <1>3, KeepType
<1>6. \A k \in DOMAIN Keep(s, I) : \E i \in I : Keep(s, I)[k] = s[i]
  <2>1. IsKept(Keep(s, I), s, I)
    BY <1>1, <1>3, KeepLists
  <2> QED
    BY <2>1, KeptMembers
<1>7. \A i \in I : s[i].ref < next_ref /\ s[i].watermark <= max_market_ref
  BY DEF SameOrders, OwnSound
<1> QED
  BY <1>4, <1>5, <1>6, <1>7

\* Queue positions are exact in it when they were with the later orders, whatever
\* remains of them.
LEMMA KeepOwnExact ==
  ASSUME FillTypeOK, NEW s, SameOrders(s), NEW I \in SUBSET DOMAIN open,
         NEW rem \in [DOMAIN open -> Nat], NEW t,
         \A i \in I : s[i].remaining = rem[i],
         \A i \in DOMAIN open \ I : rem[i] = 0,
         \A i \in I :
           s[i].queue_ahead
             = MarketAhead(t, open[i].side, open[i].price, open[i].watermark)
               + SumOver(rem, {j \in DOMAIN open : Later(i, j)})
  PROVE  Exact(Keep(s, I), t)
<1> DEFINE n == Len(open)
<1>1. n \in Nat /\ DOMAIN open = 1 .. n
  BY OwnType
<1>2. \A i \in I : {j \in 1 .. n : LaterIn(s, i, j)} = {j \in DOMAIN open : Later(i, j)}
  <2>1. \A i, j \in 1 .. n : LaterIn(s, i, j) <=> Later(i, j)
    BY <1>1 DEF LaterIn, Later, SameOrders, SameLevel
  <2> QED
    BY <1>1, <2>1
<1> HIDE DEF n
<1>3. \A i \in I :
        s[i].queue_ahead
          = MarketAhead(t, s[i].side, s[i].price, s[i].watermark)
            + SumOver(rem, {j \in 1 .. n : LaterIn(s, i, j)})
  BY <1>2 DEF SameOrders
<1>4. Accounted(s, n, I, rem, t)
  BY <1>1, <1>3 DEF Accounted
<1>5. DOMAIN s = 1 .. n /\ I \in SUBSET (1 .. n) /\ rem \in [1 .. n -> Nat]
  BY <1>1 DEF SameOrders
<1> QED
  BY <1>1, <1>4, <1>5, KeepExact

-----------------------------------------------------------------------------
(* Market orders that lose shares. *)

\* With table u, x shares of the order r are no longer ahead at a level, and
\* nothing else changed, as far as own orders have seen the market.
Drops(u, r, side, price, x) ==
  \A s, p : \A w \in Nat : w <= max_market_ref =>
    MarketAhead(refs, s, p, w)
      = MarketAhead(u, s, p, w) + (IF s = side /\ p = price /\ r <= w THEN x ELSE 0)

SameAhead(t, u) ==
  \A s, p : \A w \in Nat :
    w <= max_market_ref => MarketAhead(u, s, p, w) = MarketAhead(t, s, p, w)

\* An execution or a partial cancel takes its shares off what is ahead at the
\* level of its order, and off nothing else.
LEMMA TakeDrops ==
  ASSUME IInv, NEW r \in LiveRefs, NEW x \in U32, x # 0, x <= refs[r].shares
  PROVE  /\ After(refs, r, x) \in Table
         /\ refs[r].locate = Locate =>
              Drops(After(refs, r, x), r, refs[r].side, refs[r].price, x)
         /\ refs[r].locate # Locate => SameAhead(refs, After(refs, r, x))
<1>1. refs \in Table /\ r \in LiveIn(refs)
  BY DEF IInv, TypeOK, Table, LiveRefs
<1>2. After(refs, r, x) \in Table
  BY <1>1, TakeTotals
<1> DEFINE u == After(refs, r, x)
<1> HIDE DEF u
<1>3. ASSUME NEW s, NEW p, NEW w
      PROVE  /\ MarketAhead(refs, s, p, w)
                  = MarketAhead(u, s, p, w)
                    + (IF RestsAt(refs[r], Locate, s, p) /\ r <= w THEN x ELSE 0)
             /\ MarketAhead(u, s, p, w) \in Nat
  BY <1>1, <1>2, AheadTake, AheadIsTotal DEF u
<1>4. refs[r].locate = Locate => Drops(u, r, refs[r].side, refs[r].price, x)
  BY <1>3 DEF Drops, RestsAt
<1>5. refs[r].locate # Locate => SameAhead(refs, u)
  BY <1>3 DEF SameAhead, RestsAt
<1> QED
  BY <1>2, <1>4, <1>5 DEF u

\* A new order above all references seen is behind all own orders.
LEMMA InsertSameAhead ==
  ASSUME NEW t \in Table, NEW r \in RefIds, NEW o \in Order, r > max_market_ref,
         max_market_ref \in Nat
  PROVE  SameAhead(t, Insert(t, r, o)) /\ Insert(t, r, o) \in Table
<1>1. r \in Nat
  BY FillAssumption
<1>2. ASSUME NEW s, NEW p, NEW w \in Nat, w <= max_market_ref
      PROVE  MarketAhead(Insert(t, r, o), s, p, w) = MarketAhead(t, s, p, w)
  <2>1. ~(r <= w)
    BY <1>1, <1>2
  <2> QED
    BY <2>1, AheadInsert
<1> QED
  BY <1>2, InsertType DEF SameAhead

\* The queue that handle_remove takes off.
LEMMA RemovedStep ==
  ASSUME FillTypeOK, OwnSound, NEW r, NEW side, NEW price, NEW x \in Nat,
         RemovedFrom(r, side, price, x)
  PROVE  /\ open' \in Seq(OwnOrder) /\ SameOrders(open') /\ Ordered(open')
         /\ fills' = <<>> /\ Remaining(open') = Remaining(open)
         /\ \A i \in DOMAIN open :
              open'[i].queue_ahead
                = IF /\ open[i].side = side /\ open[i].price = price
                     /\ r <= open[i].watermark
                  THEN LessAtMost(open[i].queue_ahead, x) ELSE open[i].queue_ahead
<1>1. /\ Len(open) \in Nat /\ DOMAIN open = 1 .. Len(open)
      /\ DOMAIN open' = DOMAIN open
      /\ open' = [i \in DOMAIN open |->
                    IF SameLevel(open[i], side, price) /\ IsAhead(open[i], r)
                    THEN [open[i] EXCEPT !.queue_ahead = LessAtMost(@, x)]
                    ELSE open[i]]
  BY OwnType DEF RemovedFrom
<1>2. ASSUME NEW i \in DOMAIN open
      PROVE  /\ open'[i] \in OwnOrder
             /\ open'[i].ref = open[i].ref /\ open'[i].side = open[i].side
             /\ open'[i].price = open[i].price
             /\ open'[i].watermark = open[i].watermark
             /\ open'[i].remaining = open[i].remaining
             /\ open'[i].queue_ahead
                  = IF /\ open[i].side = side /\ open[i].price = price
                       /\ r <= open[i].watermark
                    THEN LessAtMost(open[i].queue_ahead, x) ELSE open[i].queue_ahead
  <2>1. open[i] \in OwnOrder /\ open[i].queue_ahead \in Nat
    BY OwnType
  <2>2. LessAtMost(open[i].queue_ahead, x) \in Nat
    BY <2>1, ArithmeticFacts
  <2>3. open'[i] = IF SameLevel(open[i], side, price) /\ IsAhead(open[i], r)
                   THEN [open[i] EXCEPT !.queue_ahead = LessAtMost(@, x)]
                   ELSE open[i]
    BY <1>1
  <2> QED
    BY <2>1, <2>2, <2>3 DEF OwnOrder, SameLevel, IsAhead
<1>3. open' \in Seq(OwnOrder)
  <2>1. open' \in [1 .. Len(open) -> OwnOrder]
    BY <1>1, <1>2
  <2> QED
    BY <1>1, <2>1
<1>4. SameOrders(open') /\ Remaining(open') = Remaining(open)
  BY <1>1, <1>2 DEF SameOrders, Remaining
<1>5. Ordered(open')
  BY <1>4 DEF SameOrders, Ordered, OwnSound
<1> QED
  BY <1>2, <1>3, <1>4, <1>5 DEF RemovedFrom

\* handle_remove keeps queue positions exact when the table loses as much.
LEMMA RemovedExact ==
  ASSUME FillTypeOK, OwnSound, NEW r, NEW side, NEW price, NEW x \in Nat,
         RemovedFrom(r, side, price, x), refs \in Table, NEW u \in Table,
         Drops(u, r, side, price, x), Exact(open, refs)
  PROVE  Exact(open', u)
<1>1. /\ SameOrders(open') /\ Remaining(open') = Remaining(open)
      /\ \A i \in DOMAIN open :
           open'[i].queue_ahead
             = IF /\ open[i].side = side /\ open[i].price = price
                  /\ r <= open[i].watermark
               THEN LessAtMost(open[i].queue_ahead, x) ELSE open[i].queue_ahead
  BY RemovedStep
<1>2. PICK now : now = open'
  OBVIOUS
<1> SUFFICES ASSUME NEW i \in DOMAIN open
             PROVE  now[i].queue_ahead
                      = MarketAhead(u, now[i].side, now[i].price, now[i].watermark)
                        + SumOver(Remaining(now),
                                  {j \in DOMAIN now : LaterIn(now, i, j)})
  BY <1>1, <1>2 DEF Exact, SameOrders
<1> DEFINE M == MarketAhead(u, open[i].side, open[i].price, open[i].watermark)
           own == SumOver(Remaining(open), {j \in DOMAIN open : LaterIn(open, i, j)})
<1>3. {j \in DOMAIN now : LaterIn(now, i, j)} = {j \in DOMAIN open : LaterIn(open, i, j)}
  BY <1>1, <1>2 DEF SameOrders, LaterIn, SameLevel
<1>4. open[i].watermark <= max_market_ref /\ open[i].watermark \in Nat
  BY OwnType DEF OwnSound
<1>5. MarketAhead(refs, open[i].side, open[i].price, open[i].watermark)
        = M + (IF open[i].side = side /\ open[i].price = price /\ r <= open[i].watermark
               THEN x ELSE 0)
  BY <1>4 DEF Drops
<1>6. M \in Nat
  BY AheadIsTotal
<1>7. open[i].queue_ahead
        = MarketAhead(refs, open[i].side, open[i].price, open[i].watermark) + own
  BY DEF Exact
<1>8. own \in Nat
  <2>1. IsFiniteSet({j \in DOMAIN open : LaterIn(open, i, j)})
    <3>1. {j \in DOMAIN open : LaterIn(open, i, j)} \subseteq 1 .. Len(open)
      BY OwnType
    <3> QED
      BY <3>1, OwnType, FS_Subset
  <2>2. \A j \in {j \in DOMAIN open : LaterIn(open, i, j)} : Remaining(open)[j] \in Nat
    BY OwnType DEF Remaining
  <2> QED
    BY <2>1, <2>2, SumType
<1> HIDE DEF M, own
<1>9. now[i].queue_ahead = M + own
  BY <1>1, <1>2, <1>5, <1>6, <1>7, <1>8 DEF LessAtMost
<1> QED
  BY <1>1, <1>2, <1>3, <1>9 DEF M, own, SameOrders

-----------------------------------------------------------------------------
(* A market order that is executed: the parts of handle_exec. *)

LevelOnes(side, price) == {i \in DOMAIN open : SameLevel(open[i], side, price)}
AheadOnes(r, side, price) == {i \in LevelOnes(side, price) : IsAhead(open[i], r)}
BehindOnes(r, side, price) == LevelOnes(side, price) \ AheadOnes(r, side, price)
SuperiorOnes(side, price) ==
  {i \in DOMAIN open : open[i].side = side /\ Superior(side, open[i].price, price)}

Through(r, side, price, q) ==
  [i \in DOMAIN open |->
     CASE i \in SuperiorOnes(side, price)  -> FifoShare(q, SuperiorOnes(side, price), i)
       [] i \in BehindOnes(r, side, price) -> FifoShare(q, BehindOnes(r, side, price), i)
       [] OTHER                            -> 0]

QueueThen(r, side, price, q, i) ==
  LessAtMost(open[i].queue_ahead,
             SumOver(Through(r, side, price, q), {j \in DOMAIN open : Later(i, j)}))

Got(r, side, price, q, i) ==
  IF i \in AheadOnes(r, side, price)
  THEN Least(LessAtMost(q, QueueThen(r, side, price, q, i)), open[i].remaining)
  ELSE Through(r, side, price, q)[i]

AfterExec(r, side, price, q) ==
  [i \in DOMAIN open |->
     [open[i] EXCEPT
        !.remaining = @ - Got(r, side, price, q, i),
        !.queue_ahead = IF i \in AheadOnes(r, side, price)
                        THEN LessAtMost(QueueThen(r, side, price, q, i), q)
                        ELSE QueueThen(r, side, price, q, i)]]

Staying(r, side, price, q) ==
  {i \in DOMAIN open : AfterExec(r, side, price, q)[i].remaining # 0}

FillRecords(r, side, price, q) ==
  [i \in DOMAIN open |->
     FillRec(open[i].ref, side, open[i].price, Got(r, side, price, q, i), TRUE)]

Served(r, side, price, q, S) == {i \in S : Got(r, side, price, q, i) # 0}

\* handle_exec in terms of the operators above.
LEMMA ExecutedIs ==
  ASSUME NEW r, NEW side, NEW price, NEW q, Executed(r, side, price, q)
  PROVE  /\ open' = Keep(AfterExec(r, side, price, q), Staying(r, side, price, q))
         /\ fills' = Keep(FillRecords(r, side, price, q),
                          Served(r, side, price, q, SuperiorOnes(side, price)))
                     \o Keep(FillRecords(r, side, price, q),
                             Served(r, side, price, q, LevelOnes(side, price)))
BY DEF Executed, LevelOnes, AheadOnes, BehindOnes, SuperiorOnes, Through, QueueThen, Got,
       AfterExec, Staying, FillRecords, Served

\* What the orders S ask for.
Asks(S) == [j \in DOMAIN open |-> IF j \in S THEN open[j].remaining ELSE 0]

\* A share of an own order is at most what remains of it.
LEMMA FifoShareType ==
  ASSUME FillTypeOK, NEW S \in SUBSET DOMAIN open, NEW q \in Nat, NEW i \in DOMAIN open
  PROVE  /\ Asks(S) \in [1 .. Len(open) -> Nat]
         /\ FifoShare(q, S, i) = InTurn(q, Asks(S), i)
         /\ FifoShare(q, S, i) \in Nat
         /\ FifoShare(q, S, i) <= open[i].remaining
<1>1. Len(open) \in Nat /\ DOMAIN open = 1 .. Len(open) /\ i \in 1 .. Len(open)
  BY OwnType
<1>2. Asks(S) \in [1 .. Len(open) -> Nat] /\ Asks(S)[i] \in Nat
      /\ Asks(S)[i] <= open[i].remaining
  BY OwnType DEF Asks
<1>3. FifoShare(q, S, i) = InTurn(q, Asks(S), i)
  BY DEF FifoShare, Asks
<1>4. InTurn(q, Asks(S), i) \in Nat /\ InTurn(q, Asks(S), i) <= Asks(S)[i]
  BY <1>1, <1>2, InTurnType
<1> QED
  BY <1>2, <1>3, <1>4, OwnType

\* The orders S together get at most q.
LEMMA FifoShareSum ==
  ASSUME FillTypeOK, NEW S \in SUBSET DOMAIN open, NEW q \in Nat, NEW f,
         \A i \in S : f[i] = FifoShare(q, S, i)
  PROVE  IsFiniteSet(S) /\ SumOver(f, S) <= q /\ SumOver(f, S) \in Nat
<1> DEFINE n == Len(open)
           g == [i \in 1 .. n |-> InTurn(q, Asks(S), i)]
<1>1. n \in Nat /\ DOMAIN open = 1 .. n /\ S \subseteq 1 .. n /\ IsFiniteSet(1 .. n)
  BY OwnType
<1>2. \A i \in 1 .. n : /\ Asks(S) \in [1 .. n -> Nat]
                        /\ FifoShare(q, S, i) = InTurn(q, Asks(S), i)
                        /\ InTurn(q, Asks(S), i) \in Nat
  BY <1>1, FifoShareType
<1>3. Asks(S) \in [1 .. n -> Nat]
  BY <1>1, OwnType DEF Asks
<1>4. \A i \in 1 .. n : g[i] = InTurn(q, Asks(S), i) /\ g[i] \in Nat
  BY <1>2
<1> HIDE DEF n, g
<1>5. SumOver(g, 1 .. n) <= q
  BY <1>1, <1>3, <1>4, InTurnSum
<1>6. IsFiniteSet(S) /\ SumOver(g, S) <= SumOver(g, 1 .. n)
  BY <1>1, <1>4, SumMonotone
<1>7. \A i \in S : g[i] \in Nat /\ f[i] = g[i]
  BY <1>1, <1>2, <1>4
<1>8. SumOver(f, S) = SumOver(g, S)
  BY <1>6, <1>7, SumSame
<1>9. SumOver(g, S) \in Nat /\ SumOver(g, 1 .. n) \in Nat
  BY <1>1, <1>4, <1>6, <1>7, SumType
<1> QED
  BY <1>5, <1>6, <1>8, <1>9

\* Who gets something leaves nobody before him short.
LEMMA FifoShareFirst ==
  ASSUME FillTypeOK, NEW S \in SUBSET DOMAIN open, NEW q \in Nat,
         NEW i \in S, NEW j \in S, j < i, FifoShare(q, S, i) # 0
  PROVE  FifoShare(q, S, j) = open[j].remaining
<1>1. Len(open) \in Nat /\ i \in 1 .. Len(open) /\ j \in 1 .. Len(open)
  BY OwnType
<1>2. /\ Asks(S) \in [1 .. Len(open) -> Nat]
      /\ InTurn(q, Asks(S), i) # 0 /\ FifoShare(q, S, j) = InTurn(q, Asks(S), j)
  BY FifoShareType
<1>3. InTurn(q, Asks(S), j) = Asks(S)[j]
  BY <1>1, <1>2, InTurnFifo
<1> QED
  BY <1>2, <1>3 DEF Asks

\* Each order gets at most what remains of it, before and after the queue is
\* looked at.
LEMMA ThroughType ==
  ASSUME FillTypeOK, NEW r, NEW side, NEW price, NEW q \in Nat
  PROVE  /\ Through(r, side, price, q) \in [DOMAIN open -> Nat]
         /\ \A i \in DOMAIN open :
              /\ Through(r, side, price, q)[i] \in Nat
              /\ Through(r, side, price, q)[i] <= open[i].remaining
<1> DEFINE A == SuperiorOnes(side, price)
           B == BehindOnes(r, side, price)
<1>1. A \in SUBSET DOMAIN open /\ B \in SUBSET DOMAIN open
  BY DEF SuperiorOnes, BehindOnes, LevelOnes
<1> HIDE DEF A, B
<1>2. \A i \in DOMAIN open :
        /\ FifoShare(q, A, i) \in Nat /\ FifoShare(q, A, i) <= open[i].remaining
        /\ FifoShare(q, B, i) \in Nat /\ FifoShare(q, B, i) <= open[i].remaining
        /\ open[i].remaining \in Nat
  BY <1>1, FifoShareType, OwnType
<1>3. \A i \in DOMAIN open :
        Through(r, side, price, q)[i] = CASE i \in A -> FifoShare(q, A, i)
                                          [] i \in B -> FifoShare(q, B, i)
                                          [] OTHER   -> 0
  BY DEF Through, A, B
<1>4. \A i \in DOMAIN open :
        /\ Through(r, side, price, q)[i] \in Nat
        /\ Through(r, side, price, q)[i] <= open[i].remaining
  BY <1>2, <1>3
<1>5. Through(r, side, price, q) = [i \in DOMAIN open |-> Through(r, side, price, q)[i]]
  BY DEF Through
<1> QED
  BY <1>4, <1>5

\* The orders that i came after are finitely many.
LEMMA LaterFinite ==
  ASSUME FillTypeOK, NEW i
  PROVE  /\ IsFiniteSet({j \in DOMAIN open : Later(i, j)})
         /\ {j \in DOMAIN open : Later(i, j)} \subseteq DOMAIN open
<1>1. {j \in DOMAIN open : Later(i, j)} \subseteq 1 .. Len(open)
  BY OwnType
<1> QED
  BY <1>1, OwnType, FS_Subset

\* An own order gets at most what remains of it.
LEMMA GotType ==
  ASSUME FillTypeOK, NEW r, NEW side, NEW price, NEW q \in Nat, NEW i \in DOMAIN open
  PROVE  /\ QueueThen(r, side, price, q, i) \in Nat
         /\ Got(r, side, price, q, i) \in Nat
         /\ Got(r, side, price, q, i) <= open[i].remaining
<1> DEFINE own == SumOver(Through(r, side, price, q), {j \in DOMAIN open : Later(i, j)})
<1>1. own \in Nat
  <2>1. \A j \in {j \in DOMAIN open : Later(i, j)} : Through(r, side, price, q)[j] \in Nat
    BY ThroughType
  <2> QED
    BY <2>1, LaterFinite, SumType
<1> HIDE DEF own
<1>2. open[i].queue_ahead \in Nat /\ open[i].remaining \in Nat
  BY OwnType
<1>3. QueueThen(r, side, price, q, i) = LessAtMost(open[i].queue_ahead, own)
  BY DEF QueueThen, own
<1>4. QueueThen(r, side, price, q, i) \in Nat
  BY <1>1, <1>2, <1>3, ArithmeticFacts
<1>5. LET least == Least(LessAtMost(q, QueueThen(r, side, price, q, i)), open[i].remaining)
      IN  least \in Nat /\ least <= open[i].remaining
  BY <1>2, <1>4, ArithmeticFacts
<1> QED
  BY <1>4, <1>5, ThroughType DEF Got

\* What handle_exec leaves of each order.
LEMMA AfterExecType ==
  ASSUME FillTypeOK, NEW r, NEW side, NEW price, NEW q \in Nat
  PROVE  /\ SameOrders(AfterExec(r, side, price, q))
         /\ \A i \in DOMAIN open :
              /\ AfterExec(r, side, price, q)[i].remaining
                   = open[i].remaining - Got(r, side, price, q, i)
              /\ AfterExec(r, side, price, q)[i].queue_ahead
                   = IF i \in AheadOnes(r, side, price)
                     THEN LessAtMost(QueueThen(r, side, price, q, i), q)
                     ELSE QueueThen(r, side, price, q, i)
         /\ Staying(r, side, price, q) \in SUBSET DOMAIN open
         /\ \A i \in Staying(r, side, price, q) :
              AfterExec(r, side, price, q)[i] \in OwnOrder
<1> DEFINE a == AfterExec(r, side, price, q)
<1>1. ASSUME NEW i \in DOMAIN open
      PROVE  /\ a[i].ref = open[i].ref /\ a[i].side = open[i].side
             /\ a[i].price = open[i].price /\ a[i].watermark = open[i].watermark
             /\ a[i].remaining = open[i].remaining - Got(r, side, price, q, i)
             /\ a[i].queue_ahead = IF i \in AheadOnes(r, side, price)
                                   THEN LessAtMost(QueueThen(r, side, price, q, i), q)
                                   ELSE QueueThen(r, side, price, q, i)
             /\ a[i].remaining # 0 => a[i] \in OwnOrder
  <2>1. open[i] \in OwnOrder /\ open[i].remaining \in U32 /\ open[i].remaining \in Nat
    BY OwnType
  <2>2. Got(r, side, price, q, i) \in Nat /\ Got(r, side, price, q, i) <= open[i].remaining
    BY GotType
  <2>3. PICK got \in Nat : got = Got(r, side, price, q, i)
    BY <2>2
  <2>4. open[i].remaining - got \in U32
    BY <2>1, <2>2, <2>3, MaxU32Assumption DEF U32
  <2> DEFINE queue == IF i \in AheadOnes(r, side, price)
                      THEN LessAtMost(QueueThen(r, side, price, q, i), q)
                      ELSE QueueThen(r, side, price, q, i)
  <2>5. queue \in Nat
    BY GotType, ArithmeticFacts
  <2>6. a[i] = [open[i] EXCEPT !.remaining = open[i].remaining - got,
                               !.queue_ahead = queue]
    BY <2>3 DEF AfterExec
  <2> HIDE DEF queue, a
  <2>7. /\ a[i].ref = open[i].ref /\ a[i].side = open[i].side
        /\ a[i].price = open[i].price /\ a[i].watermark = open[i].watermark
        /\ a[i].remaining = open[i].remaining - got
        /\ a[i].queue_ahead = queue
        /\ a[i].remaining # 0 => a[i] \in OwnOrder
    BY <2>1, <2>4, <2>5, <2>6 DEF OwnOrder
  <2> QED
    BY <2>3, <2>7 DEF queue
<1>2. DOMAIN a = DOMAIN open
  BY DEF AfterExec
<1> HIDE DEF a
<1> QED
  BY <1>1, <1>2 DEF SameOrders, Staying, a

\* What handle_exec reports of each order.
LEMMA FillRecordsType ==
  ASSUME FillTypeOK, NEW r, NEW side \in Sides, NEW price, NEW q \in Nat,
         NEW S \in SUBSET DOMAIN open
  PROVE  /\ Served(r, side, price, q, S) \in SUBSET (1 .. Len(open))
         /\ \A i \in Served(r, side, price, q, S) :
              FillRecords(r, side, price, q)[i] \in Fill
         /\ \A i \in DOMAIN open :
              /\ FillRecords(r, side, price, q)[i].ref = open[i].ref
              /\ FillRecords(r, side, price, q)[i].side = side
              /\ FillRecords(r, side, price, q)[i].price = open[i].price
              /\ FillRecords(r, side, price, q)[i].shares = Got(r, side, price, q, i)
<1>1. DOMAIN open = 1 .. Len(open)
  BY OwnType
<1>2. ASSUME NEW i \in DOMAIN open
      PROVE  /\ FillRecords(r, side, price, q)[i].ref = open[i].ref
             /\ FillRecords(r, side, price, q)[i].side = side
             /\ FillRecords(r, side, price, q)[i].price = open[i].price
             /\ FillRecords(r, side, price, q)[i].shares = Got(r, side, price, q, i)
             /\ Got(r, side, price, q, i) # 0 => FillRecords(r, side, price, q)[i] \in Fill
  <2>1. /\ open[i].ref \in Nat \ {0} /\ open[i].price \in U32
        /\ open[i].remaining \in U32
    BY OwnType
  <2>2. Got(r, side, price, q, i) \in Nat /\ Got(r, side, price, q, i) <= open[i].remaining
    BY GotType
  <2>3. PICK got \in U32 : got = Got(r, side, price, q, i)
    BY <2>1, <2>2, MaxU32Assumption DEF U32
  <2>4. PICK f : f = FillRecords(r, side, price, q)[i]
    OBVIOUS
  <2>5. f = [ref |-> open[i].ref, side |-> side, price |-> open[i].price,
             shares |-> got, maker |-> TRUE]
    BY <2>3, <2>4 DEF FillRecords, FillRec
  <2>6. /\ f.ref = open[i].ref /\ f.side = side /\ f.price = open[i].price
        /\ f.shares = got
    BY <2>5
  <2>7. got # 0 => f \in Fill
    BY <2>1, <2>5 DEF Fill
  <2> QED
    BY <2>3, <2>4, <2>6, <2>7
<1>3. Served(r, side, price, q, S) \in SUBSET (1 .. Len(open))
  BY <1>1 DEF Served
<1>4. \A i \in Served(r, side, price, q, S) :
        i \in DOMAIN open /\ Got(r, side, price, q, i) # 0
  BY DEF Served
<1> QED
  BY <1>2, <1>3, <1>4

\* The types after an execution, clean feed or not.
LEMMA ExecutedStep ==
  ASSUME FillTypeOK, OwnSound, NEW r, NEW side \in Sides, NEW price, NEW q \in Nat,
         Executed(r, side, price, q)
  PROVE  /\ open' \in Seq(OwnOrder) /\ Ordered(open')
         /\ \A k \in DOMAIN open' :
              open'[k].ref < next_ref /\ open'[k].watermark <= max_market_ref
         /\ fills' \in Seq(Fill)
<1> DEFINE rec == FillRecords(r, side, price, q)
           A == Served(r, side, price, q, SuperiorOnes(side, price))
           B == Served(r, side, price, q, LevelOnes(side, price))
<1>1. /\ open' = Keep(AfterExec(r, side, price, q), Staying(r, side, price, q))
      /\ fills' = Keep(rec, A) \o Keep(rec, B)
  BY ExecutedIs
<1>2. /\ Keep(AfterExec(r, side, price, q), Staying(r, side, price, q)) \in Seq(OwnOrder)
      /\ Ordered(Keep(AfterExec(r, side, price, q), Staying(r, side, price, q)))
      /\ \A k \in DOMAIN Keep(AfterExec(r, side, price, q), Staying(r, side, price, q)) :
           /\ Keep(AfterExec(r, side, price, q), Staying(r, side, price, q))[k].ref < next_ref
           /\ Keep(AfterExec(r, side, price, q), Staying(r, side, price, q))[k].watermark
                <= max_market_ref
  <2>1. PICK s, I : s = AfterExec(r, side, price, q) /\ I = Staying(r, side, price, q)
    OBVIOUS
  <2>2. SameOrders(s) /\ I \in SUBSET DOMAIN open /\ \A i \in I : s[i] \in OwnOrder
    BY <2>1, AfterExecType
  <2> QED
    BY <2>1, <2>2, KeepOwn
<1>3. /\ A \in SUBSET (1 .. Len(open)) /\ \A i \in A : rec[i] \in Fill
      /\ B \in SUBSET (1 .. Len(open)) /\ \A i \in B : rec[i] \in Fill
  <2>1. SuperiorOnes(side, price) \in SUBSET DOMAIN open
    BY DEF SuperiorOnes
  <2>2. LevelOnes(side, price) \in SUBSET DOMAIN open
    BY DEF LevelOnes
  <2> QED
    BY <2>1, <2>2, FillRecordsType
<1>4. Len(open) \in Nat
  BY OwnType
<1> HIDE DEF rec, A, B
<1>5. Keep(rec, A) \in Seq(Fill) /\ Keep(rec, B) \in Seq(Fill)
  BY <1>3, <1>4, KeepType
<1>6. Keep(rec, A) \o Keep(rec, B) \in Seq(Fill)
  BY <1>5
<1> QED
  BY <1>1, <1>2, <1>6

\* What remains of each order when all that is handed out in order is.
LeftOver(r, side, price, q) ==
  [i \in DOMAIN open |-> open[i].remaining - Through(r, side, price, q)[i]]

\* Under exact queue positions, the queue that is left of an order.
LEMMA QueueThenIs ==
  ASSUME FillTypeOK, refs \in Table, Exact(open, refs),
         NEW r, NEW side, NEW price, NEW q \in Nat, NEW i \in DOMAIN open
  PROVE  /\ LeftOver(r, side, price, q) \in [DOMAIN open -> Nat]
         /\ SumOver(LeftOver(r, side, price, q), {j \in DOMAIN open : Later(i, j)}) \in Nat
         /\ QueueThen(r, side, price, q, i)
              = MarketAhead(refs, open[i].side, open[i].price, open[i].watermark)
                + SumOver(LeftOver(r, side, price, q), {j \in DOMAIN open : Later(i, j)})
<1> DEFINE L == {j \in DOMAIN open : Later(i, j)}
           f == Through(r, side, price, q)
           g == LeftOver(r, side, price, q)
           h == Remaining(open)
           M == MarketAhead(refs, open[i].side, open[i].price, open[i].watermark)
<1>1. IsFiniteSet(L) /\ L \subseteq DOMAIN open
  BY LaterFinite
<1>2. ASSUME NEW j \in DOMAIN open
      PROVE  f[j] \in Nat /\ g[j] \in Nat /\ h[j] = f[j] + g[j]
  <2>1. f[j] \in Nat /\ f[j] <= open[j].remaining /\ open[j].remaining \in Nat
    BY ThroughType, OwnType
  <2>2. g[j] = open[j].remaining - f[j]
    BY DEF LeftOver
  <2>3. h[j] = open[j].remaining
    BY DEF Remaining
  <2> QED
    BY <2>1, <2>2, <2>3
<1>3. g \in [DOMAIN open -> Nat]
  <2>1. g = [j \in DOMAIN open |-> g[j]]
    BY DEF LeftOver
  <2> QED
    BY <1>2, <2>1
<1>4. open[i].queue_ahead = M + SumOver(h, L)
  <2>1. L = {j \in DOMAIN open : LaterIn(open, i, j)}
    BY DEF Later, LaterIn
  <2> HIDE DEF L
  <2> QED
    BY <2>1 DEF Exact
<1>5. M \in Nat
  BY AheadIsTotal
<1>6. QueueThen(r, side, price, q, i) = LessAtMost(open[i].queue_ahead, SumOver(f, L))
  BY DEF QueueThen
<1> HIDE DEF L, f, g, h, M
<1>7. /\ SumOver(h, L) = SumOver(f, L) + SumOver(g, L)
      /\ SumOver(f, L) \in Nat /\ SumOver(g, L) \in Nat
  <2>1. \A j \in L : f[j] \in Nat /\ g[j] \in Nat /\ h[j] = f[j] + g[j]
    BY <1>1, <1>2
  <2> QED
    BY <1>1, <2>1, SumPlus, SumType
<1>8. QueueThen(r, side, price, q, i) = M + SumOver(g, L)
  BY <1>4, <1>5, <1>6, <1>7 DEF LessAtMost
<1> QED
  BY <1>3, <1>7, <1>8 DEF L, g, M

\* The own orders at the level, and those that the executed order was ahead of.
LEMMA AheadOnesAre ==
  ASSUME FillTypeOK, NEW r, NEW side \in Sides, NEW price \in Nat, NEW i \in DOMAIN open
  PROVE  /\ i \in AheadOnes(r, side, price) <=>
              /\ open[i].side = side /\ open[i].price = price /\ r <= open[i].watermark
         /\ i \in LevelOnes(side, price) => i \notin SuperiorOnes(side, price)
         /\ i \in LevelOnes(side, price) <=> open[i].side = side /\ open[i].price = price
<1>1. i \in LevelOnes(side, price) <=> open[i].side = side /\ open[i].price = price
  BY DEF LevelOnes, SameLevel
<1>2. i \in SuperiorOnes(side, price) => open[i].price # price
  BY DEF SuperiorOnes, Superior
<1> QED
  BY <1>1, <1>2 DEF AheadOnes, IsAhead

\* With exact queue positions, no order gets anything of an execution that it is
\* behind.
LEMMA NobodyJumps ==
  ASSUME FillTypeOK, refs \in Table, Exact(open, refs), NEW r \in LiveIn(refs),
         refs[r].locate = Locate, NEW q \in Nat, q <= refs[r].shares,
         NEW i \in DOMAIN open
  PROVE  /\ Got(r, refs[r].side, refs[r].price, q, i)
              = Through(r, refs[r].side, refs[r].price, q)[i]
         /\ i \in AheadOnes(r, refs[r].side, refs[r].price) =>
              Got(r, refs[r].side, refs[r].price, q, i) = 0
<1>1. PICK side, price : side = refs[r].side /\ price = refs[r].price
  OBVIOUS
<1>2. side \in Sides /\ price \in Nat /\ refs[r].shares \in Nat
  BY <1>1, LiveIsOrder, PricesType, MaxU32Assumption DEF Order, U32
<1>3. CASE i \notin AheadOnes(r, side, price)
  BY <1>1, <1>3 DEF Got
<1>4. CASE i \in AheadOnes(r, side, price)
  <2>1. /\ open[i].side = side /\ open[i].price = price /\ r <= open[i].watermark
        /\ i \notin SuperiorOnes(side, price) /\ i \notin BehindOnes(r, side, price)
    BY <1>2, <1>4, AheadOnesAre DEF BehindOnes, AheadOnes
  <2>2. PICK M : M = MarketAhead(refs, open[i].side, open[i].price, open[i].watermark)
    OBVIOUS
  <2>3. M \in Nat
    BY <2>2, AheadIsTotal
  <2>4. refs[r].shares <= M
    BY <1>1, <2>1, <2>2, AheadHolds
  <2>5. PICK R \in Nat : QueueThen(r, side, price, q, i) = M + R
    <3>1. PICK R : R = SumOver(LeftOver(r, side, price, q), {j \in DOMAIN open : Later(i, j)})
      OBVIOUS
    <3>2. R \in Nat /\ QueueThen(r, side, price, q, i) = M + R
      BY <2>2, <3>1, QueueThenIs
    <3> QED
      BY <3>2
  <2>6. Through(r, side, price, q)[i] = 0
    BY <2>1 DEF Through
  <2>7. open[i].remaining \in Nat
    BY OwnType
  <2>8. Got(r, side, price, q, i) = Least(LessAtMost(q, M + R), open[i].remaining)
    BY <1>4, <2>5 DEF Got
  <2>9. Got(r, side, price, q, i) = 0
    BY <1>2, <2>3, <2>4, <2>5, <2>7, <2>8 DEF Least, LessAtMost
  <2> QED
    BY <1>1, <2>6, <2>9
<1> QED
  BY <1>1, <1>3, <1>4

\* Queue positions stay exact.
LEMMA ExecutedExact ==
  ASSUME FillTypeOK, OwnSound, refs \in Table, Exact(open, refs), NEW r \in LiveIn(refs),
         refs[r].locate = Locate, NEW q \in Nat, q <= refs[r].shares,
         Executed(r, refs[r].side, refs[r].price, q), NEW u \in Table,
         Drops(u, r, refs[r].side, refs[r].price, q)
  PROVE  Exact(open', u)
<1>1. PICK side, price : side = refs[r].side /\ price = refs[r].price
  OBVIOUS
<1>2. side \in Sides /\ price \in Nat
  BY <1>1, LiveIsOrder, PricesType DEF Order
<1> DEFINE s == AfterExec(r, side, price, q)
           I == Staying(r, side, price, q)
           rem == LeftOver(r, side, price, q)
<1>3. open' = Keep(s, I)
  BY <1>1, ExecutedIs
<1>4. SameOrders(s) /\ I \in SUBSET DOMAIN open
  BY AfterExecType
<1>5. ASSUME NEW i \in DOMAIN open
      PROVE  s[i].remaining = rem[i] /\ rem \in [DOMAIN open -> Nat]
  <2>1. s[i].remaining = open[i].remaining - Got(r, side, price, q, i)
    BY AfterExecType
  <2>2. Got(r, side, price, q, i) = Through(r, side, price, q)[i]
    BY <1>1, NobodyJumps
  <2>3. rem[i] = open[i].remaining - Through(r, side, price, q)[i]
    BY DEF LeftOver
  <2>4. rem \in [DOMAIN open -> Nat]
    BY QueueThenIs
  <2> QED
    BY <2>1, <2>2, <2>3, <2>4
<1>6. \A i \in DOMAIN open \ I : rem[i] = 0
  BY <1>5 DEF Staying
<1>7. ASSUME NEW i \in DOMAIN open
      PROVE  s[i].queue_ahead
               = MarketAhead(u, open[i].side, open[i].price, open[i].watermark)
                 + SumOver(rem, {j \in DOMAIN open : Later(i, j)})
  <2> DEFINE M == MarketAhead(refs, open[i].side, open[i].price, open[i].watermark)
             N == MarketAhead(u, open[i].side, open[i].price, open[i].watermark)
             R == SumOver(rem, {j \in DOMAIN open : Later(i, j)})
  <2>1. R \in Nat /\ QueueThen(r, side, price, q, i) = M + R
    BY QueueThenIs
  <2>2. M \in Nat /\ N \in Nat
    BY AheadIsTotal
  <2>3. open[i].watermark <= max_market_ref /\ open[i].watermark \in Nat
    BY OwnType DEF OwnSound
  <2>4. M = N + (IF /\ open[i].side = side /\ open[i].price = price
                    /\ r <= open[i].watermark
                 THEN q ELSE 0)
    BY <1>1, <2>3 DEF Drops
  <2>5. s[i].queue_ahead = IF i \in AheadOnes(r, side, price)
                           THEN LessAtMost(QueueThen(r, side, price, q, i), q)
                           ELSE QueueThen(r, side, price, q, i)
    BY AfterExecType
  <2>6. i \in AheadOnes(r, side, price) <=>
          open[i].side = side /\ open[i].price = price /\ r <= open[i].watermark
    BY <1>2, AheadOnesAre
  <2> HIDE DEF M, N, R, s
  <2>7. s[i].queue_ahead = N + R
    BY <2>1, <2>2, <2>4, <2>5, <2>6 DEF LessAtMost
  <2> QED
    BY <2>7 DEF N, R
<1>8. rem \in [DOMAIN open -> Nat]
  <2>1. CASE DOMAIN open = {}
    BY <2>1 DEF LeftOver
  <2>2. CASE DOMAIN open # {}
    BY <1>5, <2>2
  <2> QED
    BY <2>1, <2>2
<1> HIDE DEF s, I, rem
<1>9. /\ \A i \in I : s[i].remaining = rem[i]
      /\ \A i \in I : s[i].queue_ahead
           = MarketAhead(u, open[i].side, open[i].price, open[i].watermark)
             + SumOver(rem, {j \in DOMAIN open : Later(i, j)})
  BY <1>4, <1>5, <1>7
<1>10. Exact(Keep(s, I), u)
  BY <1>4, <1>6, <1>8, <1>9, KeepOwnExact
<1> QED
  BY <1>3, <1>10

-----------------------------------------------------------------------------
(* Own orders that are cancelled and submitted. *)

MovedUp(j) ==
  [i \in DOMAIN open |->
     IF Later(i, j)
     THEN [open[i] EXCEPT !.queue_ahead = LessAtMost(@, open[j].remaining)]
     ELSE open[i]]

\* What a cancel changes in the other orders.
LEMMA MovedUpType ==
  ASSUME FillTypeOK, NEW j \in DOMAIN open
  PROVE  /\ SameOrders(MovedUp(j))
         /\ \A i \in DOMAIN open :
              /\ MovedUp(j)[i] \in OwnOrder
              /\ MovedUp(j)[i].remaining = open[i].remaining
              /\ MovedUp(j)[i].queue_ahead
                   = IF Later(i, j)
                     THEN LessAtMost(open[i].queue_ahead, open[j].remaining)
                     ELSE open[i].queue_ahead
<1>1. ASSUME NEW i \in DOMAIN open
      PROVE  /\ MovedUp(j)[i] \in OwnOrder
             /\ MovedUp(j)[i].ref = open[i].ref /\ MovedUp(j)[i].side = open[i].side
             /\ MovedUp(j)[i].price = open[i].price
             /\ MovedUp(j)[i].watermark = open[i].watermark
             /\ MovedUp(j)[i].remaining = open[i].remaining
             /\ MovedUp(j)[i].queue_ahead
                  = IF Later(i, j)
                    THEN LessAtMost(open[i].queue_ahead, open[j].remaining)
                    ELSE open[i].queue_ahead
  <2>1. open[i] \in OwnOrder /\ open[i].queue_ahead \in Nat /\ open[j].remaining \in Nat
    BY OwnType
  <2>2. PICK queue \in Nat : queue = LessAtMost(open[i].queue_ahead, open[j].remaining)
    BY <2>1, ArithmeticFacts
  <2>3. MovedUp(j)[i] = IF Later(i, j) THEN [open[i] EXCEPT !.queue_ahead = queue]
                        ELSE open[i]
    BY <2>2 DEF MovedUp
  <2> QED
    BY <2>1, <2>2, <2>3 DEF OwnOrder
<1>2. DOMAIN MovedUp(j) = DOMAIN open
  BY DEF MovedUp
<1> QED
  BY <1>1, <1>2 DEF SameOrders

\* The types after a cancel.
LEMMA CancelStep ==
  ASSUME FillTypeOK, OwnSound, NEW j \in DOMAIN open, Cancel(j)
  PROVE  /\ open' \in Seq(OwnOrder) /\ Ordered(open')
         /\ \A k \in DOMAIN open' :
              open'[k].ref < next_ref /\ open'[k].watermark <= max_market_ref
<1>1. PICK s, I : s = MovedUp(j) /\ I = DOMAIN open \ {j}
  OBVIOUS
<1>2. open' = Keep(s, I)
  BY <1>1 DEF Cancel, Without, MovedUp
<1>3. SameOrders(s) /\ I \in SUBSET DOMAIN open /\ \A i \in I : s[i] \in OwnOrder
  BY <1>1, MovedUpType
<1> QED
  BY <1>2, <1>3, KeepOwn

\* A cancel keeps queue positions exact.
LEMMA CancelExact ==
  ASSUME FillTypeOK, refs \in Table, Exact(open, refs), NEW j \in DOMAIN open, Cancel(j)
  PROVE  Exact(open', refs)
<1> DEFINE s == MovedUp(j)
           I == DOMAIN open \ {j}
           rem == [i \in DOMAIN open |-> IF i = j THEN 0 ELSE open[i].remaining]
           h == Remaining(open)
<1>1. open' = Keep(s, I)
  BY DEF Cancel, Without, MovedUp
<1>2. SameOrders(s) /\ I \in SUBSET DOMAIN open
  BY MovedUpType
<1>3. /\ rem \in [DOMAIN open -> Nat] /\ rem[j] = 0
      /\ \A i \in DOMAIN open : rem[i] \in Nat /\ h[i] \in Nat
      /\ \A i \in I : rem[i] = h[i] /\ s[i].remaining = rem[i]
      /\ \A i \in DOMAIN open \ I : rem[i] = 0
      /\ h[j] = open[j].remaining
  BY OwnType, MovedUpType DEF Remaining
<1>4. ASSUME NEW i \in I
      PROVE  s[i].queue_ahead
               = MarketAhead(refs, open[i].side, open[i].price, open[i].watermark)
                 + SumOver(rem, {k \in DOMAIN open : Later(i, k)})
  <2> DEFINE L == {k \in DOMAIN open : Later(i, k)}
             M == MarketAhead(refs, open[i].side, open[i].price, open[i].watermark)
  <2>1. IsFiniteSet(L) /\ L \subseteq DOMAIN open
    BY LaterFinite
  <2>2. open[i].queue_ahead = M + SumOver(h, L)
    <3>1. L = {k \in DOMAIN open : LaterIn(open, i, k)}
      BY DEF Later, LaterIn
    <3> HIDE DEF L
    <3> QED
      BY <3>1 DEF Exact
  <2>3. M \in Nat
    BY AheadIsTotal
  <2>4. s[i].queue_ahead = IF Later(i, j)
                           THEN LessAtMost(open[i].queue_ahead, open[j].remaining)
                           ELSE open[i].queue_ahead
    BY MovedUpType
  <2>5. j \in L <=> Later(i, j)
    OBVIOUS
  <2>6. open[j].remaining \in Nat
    BY OwnType
  <2> HIDE DEF s, rem, h, L, M, I
  <2>7. \A k \in L : rem[k] \in Nat /\ h[k] \in Nat
    BY <1>3, <2>1
  <2>8. CASE Later(i, j)
    <3>1. /\ SumOver(h, L) = SumOver(h, L \ {j}) + h[j]
          /\ IsFiniteSet(L \ {j}) /\ SumOver(h, L \ {j}) \in Nat
      BY <2>1, <2>5, <2>7, <2>8, SumWith
    <3>2. SumOver(rem, L) = SumOver(rem, L \ {j}) + rem[j]
      BY <2>1, <2>5, <2>7, <2>8, SumWith
    <3>3. \A k \in L \ {j} : h[k] \in Nat /\ rem[k] = h[k]
      BY <1>3, <2>1 DEF I
    <3>4. SumOver(rem, L \ {j}) = SumOver(h, L \ {j})
      BY <3>1, <3>3, SumSame
    <3>5. SumOver(h, L) = SumOver(rem, L) + open[j].remaining /\ SumOver(rem, L) \in Nat
      BY <1>3, <2>6, <3>1, <3>2, <3>4
    <3>6. s[i].queue_ahead = M + SumOver(rem, L)
      BY <2>2, <2>3, <2>4, <2>6, <2>8, <3>5 DEF LessAtMost
    <3> QED
      BY <3>6 DEF M, L
  <2>9. CASE ~Later(i, j)
    <3>1. \A k \in L : h[k] \in Nat /\ rem[k] = h[k]
      BY <1>3, <2>1, <2>5, <2>9 DEF I
    <3>2. SumOver(rem, L) = SumOver(h, L)
      BY <2>1, <3>1, SumSame
    <3> QED
      BY <2>2, <2>4, <2>9, <3>2 DEF M, L
  <2> QED
    BY <2>8, <2>9
<1> HIDE DEF s, rem, h
<1>5. Exact(Keep(s, I), refs)
  <2> HIDE DEF I
  <2> QED
    BY <1>2, <1>3, <1>4, KeepOwnExact
<1> QED
  BY <1>1, <1>5

SweepRecords(side, price, shares) ==
  [i \in Prices |-> FillRec(next_ref, side, WalkPrice(side, i),
                            InTurn(shares, Marketable(side, price), i), FALSE)]

Taken(side, price, shares) ==
  {i \in Prices : SweepRecords(side, price, shares)[i].shares # 0}

\* SweepFills in terms of the operators above.
LEMMA SweepIs ==
  ASSUME NEW side, NEW price, NEW shares
  PROVE  SweepFills(side, price, shares)
           = Keep(SweepRecords(side, price, shares), Taken(side, price, shares))
BY DEF SweepFills, SweepRecords, Taken

\* The walk stays within the prices of the book.
LEMMA WalkType ==
  ASSUME NEW side, NEW i \in Prices
  PROVE  WalkPrice(side, i) \in Prices /\ WalkPrice(side, i) \in U32
BY PriceLevelsAssumption, MaxU32Assumption DEF WalkPrice, Prices, MaxPrice, U32

\* What is displayed at a level fits an unsigned.
LEMMA DisplayedType ==
  ASSUME IInv, NEW side \in Sides, NEW p
  PROVE  Displayed(side, p) \in U32 /\ Displayed(side, p) \in Nat
<1>1. BookOf(Locate) \in Book
  BY FillAssumption, BookOfType DEF IInv
<1> QED
  BY <1>1, MaxU32Assumption DEF Displayed, Book, U32

\* What can be traded with at each price of the walk.
LEMMA MarketableType ==
  ASSUME IInv, NEW side \in Sides, NEW price
  PROVE  Marketable(side, price) \in [1 .. MaxPrice -> Nat]
<1>1. Opposite(side) \in Sides
  BY DEF Opposite, Sides
<1>2. \A i \in Prices : Displayed(Opposite(side), WalkPrice(side, i)) \in Nat
  BY <1>1, DisplayedType
<1> QED
  BY <1>2, PricesType DEF Marketable

\* What the sweep takes at each step of its walk.
LEMMA SweepRecordsType ==
  ASSUME IInv, NEW side \in Sides, NEW price, NEW shares \in U32, NEW i \in Prices
  PROVE  /\ InTurn(shares, Marketable(side, price), i) \in U32
         /\ InTurn(shares, Marketable(side, price), i) \in Nat
         /\ InTurn(shares, Marketable(side, price), i) <= Marketable(side, price)[i]
         /\ SweepRecords(side, price, shares)[i].ref = next_ref
         /\ SweepRecords(side, price, shares)[i].side = side
         /\ SweepRecords(side, price, shares)[i].price = WalkPrice(side, i)
         /\ SweepRecords(side, price, shares)[i].shares
              = InTurn(shares, Marketable(side, price), i)
         /\ next_ref \in Nat \ {0} /\ i \in Taken(side, price, shares) =>
              SweepRecords(side, price, shares)[i] \in Fill
<1>1. shares \in Nat /\ i \in 1 .. MaxPrice /\ MaxPrice \in Nat
  BY PricesType, MaxU32Assumption DEF U32
<1>2. /\ InTurn(shares, Marketable(side, price), i) \in Nat
      /\ InTurn(shares, Marketable(side, price), i) <= shares
      /\ InTurn(shares, Marketable(side, price), i) <= Marketable(side, price)[i]
  BY <1>1, MarketableType, InTurnType
<1>3. PICK got \in Nat : got = InTurn(shares, Marketable(side, price), i)
  BY <1>2
<1>4. got \in U32
  BY <1>2, <1>3, MaxU32Assumption DEF U32
<1>5. PICK f : f = SweepRecords(side, price, shares)[i]
  OBVIOUS
<1>6. f = [ref |-> next_ref, side |-> side, price |-> WalkPrice(side, i),
           shares |-> got, maker |-> FALSE]
  BY <1>3, <1>5 DEF SweepRecords, FillRec
<1>7. f.ref = next_ref /\ f.side = side /\ f.price = WalkPrice(side, i) /\ f.shares = got
  BY <1>6
<1>8. i \in Taken(side, price, shares) => got # 0
  BY <1>5, <1>7 DEF Taken
<1>9. next_ref \in Nat \ {0} /\ got # 0 => f \in Fill
  BY <1>4, <1>6, WalkType DEF Fill
<1> QED
  BY <1>2, <1>3, <1>4, <1>5, <1>7, <1>8, <1>9

\* The fills of the sweep are one for each price at which it takes something.
LEMMA SweepNames ==
  ASSUME IInv, NEW side \in Sides, NEW price, NEW shares \in U32,
         next_ref \in Nat \ {0}
  PROVE  /\ Taken(side, price, shares) \in SUBSET (1 .. MaxPrice)
         /\ SweepFills(side, price, shares) \in Seq(Fill)
         /\ \E pos : Names(SweepFills(side, price, shares),
                           SweepRecords(side, price, shares),
                           Taken(side, price, shares), pos)
<1> DEFINE all == SweepRecords(side, price, shares)
           I == Taken(side, price, shares)
<1>1. Prices = 1 .. MaxPrice /\ MaxPrice \in Nat
  BY PricesType
<1>2. I \in SUBSET (1 .. MaxPrice)
  BY <1>1 DEF Taken
<1>3. \A i \in I : all[i] \in Fill
  BY <1>1, <1>2, SweepRecordsType
<1>4. SweepFills(side, price, shares) = Keep(all, I)
  BY SweepIs
<1> HIDE DEF all, I
<1>5. Keep(all, I) \in Seq(Fill)
  BY <1>1, <1>2, <1>3, KeepType
<1>6. PICK pos : Lists(Keep(all, I), all, I, pos)
  BY <1>1, <1>2, KeepNames
<1>7. Names(Keep(all, I), all, I, pos)
  BY <1>1, <1>2, <1>5, <1>6, ListsNames
<1> QED
  BY <1>2, <1>4, <1>5, <1>7 DEF all, I

\* What the sweep takes at each step of its walk, taken or not.
Takings(side, price, shares) ==
  [i \in Prices |-> InTurn(shares, Marketable(side, price), i)]

\* It is a number of shares, and something where a fill is reported.
LEMMA TakingsType ==
  ASSUME IInv, NEW side \in Sides, NEW price, NEW shares \in U32
  PROVE  /\ Takings(side, price, shares) \in [1 .. MaxPrice -> Nat]
         /\ \A i \in 1 .. MaxPrice :
              /\ Takings(side, price, shares)[i]
                   = InTurn(shares, Marketable(side, price), i)
              /\ i \in Taken(side, price, shares)
                   <=> Takings(side, price, shares)[i] # 0
<1>1. Prices = 1 .. MaxPrice
  BY PricesType
<1>2. \A i \in 1 .. MaxPrice :
        /\ InTurn(shares, Marketable(side, price), i) \in Nat
        /\ SweepRecords(side, price, shares)[i].shares
             = InTurn(shares, Marketable(side, price), i)
  BY <1>1, SweepRecordsType
<1> QED
  BY <1>1, <1>2 DEF Takings, Taken

\* What the fills report at some prices is what the sweep took there.
LEMMA SweepSum ==
  ASSUME IInv, NEW side \in Sides, NEW price, NEW shares \in U32,
         next_ref \in Nat \ {0},
         NEW pos, Names(SweepFills(side, price, shares),
                        SweepRecords(side, price, shares),
                        Taken(side, price, shares), pos),
         NEW K, NEW T,
         SamePart(SweepFills(side, price, shares), Taken(side, price, shares),
                  pos, K, T)
  PROVE  SumOver(Shares(SweepFills(side, price, shares)), K)
           = SumOver(Takings(side, price, shares), T)
<1> DEFINE taken == SweepFills(side, price, shares)
           all == SweepRecords(side, price, shares)
           I == Taken(side, price, shares)
           f == Takings(side, price, shares)
<1>1. Prices = 1 .. MaxPrice /\ I \in SUBSET (1 .. MaxPrice) /\ MaxPrice \in Nat
  BY SweepNames, PricesType
<1>2. IsFiniteSet(I)
  BY <1>1, FS_Interval, FS_Subset
<1>3. \A i \in I : f[i] \in Nat /\ all[i].shares = f[i]
  BY <1>1, SweepRecordsType, TakingsType
<1>4. \A k \in DOMAIN taken : pos[k] \in I /\ taken[k] = all[pos[k]]
  BY DEF Names
<1> HIDE DEF taken, all, I, f
<1>5. SameValues(taken, I, pos, f, Shares(taken))
  BY <1>3, <1>4 DEF SameValues, Shares
<1> QED
  BY <1>2, <1>5, NamesSum DEF taken, all, I, f

\* The sweep takes no more than was submitted; when something is left of that, it
\* took at every price what it could.
LEMMA SweepType ==
  ASSUME IInv, NEW side \in Sides, NEW price, NEW shares \in U32,
         next_ref \in Nat \ {0}
  PROVE  LET taken == SweepFills(side, price, shares)
             sum == SumOver(Shares(taken), DOMAIN taken)
         IN  /\ taken \in Seq(Fill)
             /\ sum \in Nat /\ sum <= shares
             /\ sum # shares =>
                  \A i \in 1 .. MaxPrice :
                    Takings(side, price, shares)[i] = Marketable(side, price)[i]
<1> DEFINE taken == SweepFills(side, price, shares)
           I == Taken(side, price, shares)
           f == Takings(side, price, shares)
           asks == Marketable(side, price)
           sum == SumOver(Shares(taken), DOMAIN taken)
<1>1. MaxPrice \in Nat /\ shares \in Nat
  BY PricesType, MaxU32Assumption DEF U32
<1>2. I \in SUBSET (1 .. MaxPrice) /\ taken \in Seq(Fill)
  BY SweepNames
<1>3. asks \in [1 .. MaxPrice -> Nat]
  BY MarketableType
<1>4. /\ f \in [1 .. MaxPrice -> Nat]
      /\ \A i \in 1 .. MaxPrice : f[i] = InTurn(shares, asks, i)
      /\ \A i \in 1 .. MaxPrice : i \in I <=> f[i] # 0
  BY TakingsType
<1>5. sum = SumOver(f, I)
  <2>1. PICK pos : Names(taken, SweepRecords(side, price, shares), I, pos)
    BY SweepNames
  <2>2. SamePart(taken, I, pos, DOMAIN taken, I)
    BY <2>1 DEF SamePart, Names
  <2> QED
    BY <2>1, <2>2, SweepSum
<1> HIDE DEF taken, I, f, asks
<1>6. IsFiniteSet(1 .. MaxPrice)
  BY <1>1, FS_Interval
<1>7. SumOver(f, I) = SumOver(f, 1 .. MaxPrice)
  BY <1>2, <1>4, <1>6, SumSkip
<1>8. SumOver(f, 1 .. MaxPrice) \in Nat
  BY <1>4, <1>6, SumType
<1>9. SumOver(f, 1 .. MaxPrice) <= shares
  BY <1>1, <1>3, <1>4, InTurnSum
<1>10. SumOver(f, 1 .. MaxPrice) < shares => \A i \in 1 .. MaxPrice : f[i] = asks[i]
  <2>1. SUFFICES ASSUME SumOver(f, 1 .. MaxPrice) < shares, NEW i \in 1 .. MaxPrice
        PROVE  f[i] = asks[i]
    OBVIOUS
  <2>2. PICK n \in Nat, q \in Nat : n = MaxPrice /\ q = shares
    BY <1>1
  <2>3. /\ asks \in [1 .. n -> Nat] /\ (\A k \in 1 .. n : f[k] = InTurn(q, asks, k))
        /\ SumOver(f, 1 .. n) < q /\ i \in 1 .. n
    BY <1>3, <1>4, <2>1, <2>2
  <2> QED
    BY <2>3, InTurnAll
<1> HIDE DEF sum
<1>11. sum \in Nat /\ sum <= shares
  BY <1>5, <1>7, <1>8, <1>9
<1>12. sum # shares => \A i \in 1 .. MaxPrice : f[i] = asks[i]
  BY <1>1, <1>5, <1>7, <1>8, <1>9, <1>10
<1> QED
  BY <1>2, <1>11, <1>12 DEF taken, sum, f, asks

\* The order that rests when left shares are not taken by the sweep.
Rested(side, price, left) ==
  [ref |-> next_ref, side |-> side, price |-> price, remaining |-> left,
   queue_ahead |-> QueueAtEntry(open, side, price), watermark |-> max_market_ref]

\* A sequence with one element more.
LEMMA AppendIs ==
  ASSUME NEW S, NEW os \in Seq(S), NEW x, NEW u, u = Append(os, x)
  PROVE  /\ Len(u) = Len(os) + 1 /\ Len(os) \in Nat
         /\ DOMAIN u = 1 .. Len(os) + 1 /\ DOMAIN os = 1 .. Len(os)
         /\ u[Len(os) + 1] = x /\ \A i \in 1 .. Len(os) : u[i] = os[i]
OBVIOUS

\* The queue at entry is a number of shares.
LEMMA EntryQueueType ==
  ASSUME IInv, FillTypeOK, NEW side \in Sides, NEW price
  PROVE  /\ SumOver(Remaining(open),
                    {i \in DOMAIN open : SameLevel(open[i], side, price)}) \in Nat
         /\ QueueAtEntry(open, side, price) \in Nat
<1> DEFINE L == {i \in DOMAIN open : SameLevel(open[i], side, price)}
<1>1. IsFiniteSet(L)
  <2>1. L \subseteq 1 .. Len(open)
    BY OwnType
  <2> HIDE DEF L
  <2> QED
    BY <2>1, OwnType, FS_Subset
<1>2. \A i \in L : Remaining(open)[i] \in Nat
  BY OwnType DEF Remaining
<1> HIDE DEF L
<1>3. SumOver(Remaining(open), L) \in Nat
  BY <1>1, <1>2, SumType
<1>4. QueueAtEntry(open, side, price) = Displayed(side, price) + SumOver(Remaining(open), L)
  BY DEF QueueAtEntry, L
<1> QED
  BY <1>3, <1>4, DisplayedType DEF L

\* The two ways a submission can end.
LEMMA SubmitCases ==
  ASSUME IInv, FillTypeOK, NEW side \in Sides, NEW price \in U32, NEW shares \in U32,
         next_ref \in Nat \ {0}, SubmitLimit(side, price, shares)
  PROVE  /\ fills' \in Seq(Fill) /\ fills' = SweepFills(side, price, shares)
         /\ \/ open' = open
            \/ \E left \in U32 \ {0} :
                 /\ open' = Append(open, Rested(side, price, left))
                 /\ Rested(side, price, left) \in OwnOrder
                 /\ left = shares - SumOver(Shares(fills'), DOMAIN fills')
<1> DEFINE sum == SumOver(Shares(fills'), DOMAIN fills')
           left == shares - sum
<1>1. /\ fills' = SweepFills(side, price, shares)
      /\ open' = IF left = 0 THEN open ELSE Append(open, Rested(side, price, left))
  BY DEF SubmitLimit, SubmitTo, Rested
<1>2. fills' \in Seq(Fill) /\ sum \in Nat /\ sum <= shares
  BY <1>1, SweepType
<1> HIDE DEF sum
<1>3. left \in U32
  BY <1>2, MaxU32Assumption DEF U32
<1> HIDE DEF left
<1>4. left # 0 => Rested(side, price, left) \in OwnOrder
  <2>1. QueueAtEntry(open, side, price) \in Nat
    BY EntryQueueType
  <2>2. max_market_ref \in RefIds \cup {0}
    BY DEF FillTypeOK
  <2> QED
    BY <1>3, <2>1, <2>2 DEF Rested, OwnOrder
<1> QED
  BY <1>1, <1>2, <1>3, <1>4 DEF left, sum

\* The types after a submission.
LEMMA SubmitStep ==
  ASSUME IInv, FillTypeOK, OwnSound,
         NEW side \in Sides, NEW price \in U32, NEW shares \in U32,
         next_ref \in Nat \ {0}, SubmitLimit(side, price, shares)
  PROVE  /\ open' \in Seq(OwnOrder) /\ Ordered(open')
         /\ \A k \in DOMAIN open' :
              open'[k].ref < next_ref' /\ open'[k].watermark <= max_market_ref'
<1>1. next_ref' = next_ref + 1 /\ max_market_ref' = max_market_ref /\ next_ref \in Nat
  BY DEF SubmitLimit, SubmitTo
<1>2. \A i \in DOMAIN open : /\ open[i].ref < next_ref /\ open[i].ref \in Nat
                             /\ open[i].watermark <= max_market_ref
                             /\ open[i].ref < next_ref + 1
  BY <1>1, OwnType DEF OwnSound
<1>3. CASE open' = open
  BY <1>1, <1>2, <1>3 DEF FillTypeOK, OwnSound
<1>4. CASE \E left \in U32 \ {0} :
             /\ open' = Append(open, Rested(side, price, left))
             /\ Rested(side, price, left) \in OwnOrder
  <2>1. PICK left : /\ open' = Append(open, Rested(side, price, left))
                    /\ Rested(side, price, left) \in OwnOrder
    BY <1>4
  <2>2. PICK new : new = Rested(side, price, left)
    OBVIOUS
  <2>3. /\ new.ref = next_ref /\ new.watermark = max_market_ref /\ new \in OwnOrder
        /\ max_market_ref <= max_market_ref
    <3>1. max_market_ref \in Nat
      <4>1. RefIds \cup {0} \subseteq Nat
        BY FillAssumption
      <4> QED
        BY <4>1 DEF FillTypeOK
    <3> QED
      BY <2>1, <2>2, <3>1 DEF Rested
  <2>4. open \in Seq(OwnOrder)
    BY DEF FillTypeOK
  <2>5. PICK now : now = open'
    OBVIOUS
  <2>6. /\ now \in Seq(OwnOrder) /\ DOMAIN now = 1 .. Len(open) + 1
        /\ DOMAIN open = 1 .. Len(open) /\ Len(open) \in Nat
        /\ now[Len(open) + 1] = new /\ \A i \in 1 .. Len(open) : now[i] = open[i]
    BY <2>1, <2>2, <2>3, <2>4, <2>5, AppendIs
  <2>7. \A k \in DOMAIN now : now[k].ref < next_ref' /\ now[k].watermark <= max_market_ref'
    BY <1>1, <1>2, <2>3, <2>6
  <2>8. Ordered(now)
    <3> SUFFICES ASSUME NEW i \in DOMAIN now, NEW j \in DOMAIN now, j < i
                 PROVE  now[j].ref < now[i].ref /\ now[j].watermark <= now[i].watermark
      BY DEF Ordered
    <3>1. j \in DOMAIN open /\ now[j] = open[j]
      BY <2>6
    <3>2. CASE i = Len(open) + 1
      BY <1>2, <2>3, <2>6, <3>1, <3>2
    <3>3. CASE i # Len(open) + 1
      BY <2>6, <3>1, <3>3 DEF OwnSound, Ordered
    <3> QED
      BY <3>2, <3>3
  <2> QED
    BY <2>5, <2>6, <2>7, <2>8
<1> QED
  BY <1>3, <1>4, SubmitCases

\* All that is displayed at a level is ahead of an order that comes now.
LEMMA DisplayedIsAhead ==
  ASSUME IInv, \A r \in LiveRefs : r <= max_market_ref, NEW side \in Sides, NEW price
  PROVE  Displayed(side, price) = MarketAhead(refs, side, price, max_market_ref)
<1>1. refs \in Table
  BY DEF IInv, TypeOK, Table
<1>2. MarketAhead(refs, side, price, max_market_ref)
        = ShareTotal(refs, Locate, side, price)
  BY <1>1, AheadIsAll DEF LiveRefs
<1>3. CASE price \in Prices
  BY <1>2, <1>3, FillAssumption DEF IInv, LevelsMatchRefs, Displayed
<1>4. CASE price \notin Prices
  <2>1. OrdersAt(refs, Locate, side, price) = {}
    BY <1>1, <1>4, LiveIsOrder DEF OrdersAt, RestsAt, Order
  <2>2. SharesOf(refs, {}) = {}
    BY DEF SharesOf
  <2>3. ShareTotal(refs, Locate, side, price) = 0
    BY <2>1, <2>2, FS_EmptySet DEF ShareTotal
  <2> QED
    BY <1>2, <1>4, <2>3 DEF Displayed
<1> QED
  BY <1>3, <1>4

\* A submission gives its order an exact queue position and keeps the others'.
LEMMA SubmitExact ==
  ASSUME IInv, FillTypeOK, OwnSound, Exact(open, refs),
         \A r \in LiveRefs : r <= max_market_ref,
         NEW side \in Sides, NEW price \in U32, NEW shares \in U32,
         next_ref \in Nat \ {0}, SubmitLimit(side, price, shares)
  PROVE  Exact(open', refs)
<1>1. CASE open' = open
  BY <1>1
<1>2. CASE \E left \in U32 \ {0} :
             /\ open' = Append(open, Rested(side, price, left))
             /\ Rested(side, price, left) \in OwnOrder
  <2>1. PICK left : /\ open' = Append(open, Rested(side, price, left))
                    /\ Rested(side, price, left) \in OwnOrder
    BY <1>2
  <2>2. PICK new, now, n : new = Rested(side, price, left) /\ now = open' /\ n = Len(open)
    OBVIOUS
  <2>3. /\ now \in Seq(OwnOrder) /\ DOMAIN now = 1 .. n + 1 /\ DOMAIN open = 1 .. n
        /\ n \in Nat /\ now[n + 1] = new /\ \A i \in 1 .. n : now[i] = open[i]
    <3>1. open \in Seq(OwnOrder)
      BY DEF FillTypeOK
    <3> QED
      BY <2>1, <2>2, <3>1, AppendIs
  <2>4. /\ new.side = side /\ new.price = price /\ new.watermark = max_market_ref
        /\ new.queue_ahead = QueueAtEntry(open, side, price)
    BY <2>2 DEF Rested
  <2>5. \A i \in DOMAIN open : /\ Remaining(open)[i] \in Nat
                               /\ Remaining(now)[i] = Remaining(open)[i]
    BY <2>3, OwnType DEF Remaining
  <2>6. ASSUME NEW L \in SUBSET DOMAIN open
        PROVE  SumOver(Remaining(now), L) = SumOver(Remaining(open), L)
    <3>1. IsFiniteSet(L)
      BY <2>3, OwnType, FS_Subset
    <3>2. \A i \in L : /\ Remaining(open)[i] \in Nat
                       /\ Remaining(now)[i] = Remaining(open)[i]
      BY <2>5
    <3> QED
      BY <3>1, <3>2, SumSame
  <2> SUFFICES ASSUME NEW i \in DOMAIN now
               PROVE  now[i].queue_ahead
                        = MarketAhead(refs, now[i].side, now[i].price, now[i].watermark)
                          + SumOver(Remaining(now),
                                    {j \in DOMAIN now : LaterIn(now, i, j)})
    BY <2>2 DEF Exact
  <2>7. CASE i \in 1 .. n
    <3>1. {j \in DOMAIN now : LaterIn(now, i, j)} = {j \in DOMAIN open : LaterIn(open, i, j)}
      BY <2>3, <2>7 DEF LaterIn
    <3>2. SumOver(Remaining(now), {j \in DOMAIN open : LaterIn(open, i, j)})
            = SumOver(Remaining(open), {j \in DOMAIN open : LaterIn(open, i, j)})
      <4>1. PICK L : L = {j \in DOMAIN open : LaterIn(open, i, j)}
        OBVIOUS
      <4> QED
        BY <2>6, <4>1
    <3>3. i \in DOMAIN open /\ now[i] = open[i]
      BY <2>3, <2>7
    <3> QED
      BY <3>1, <3>2, <3>3 DEF Exact
  <2>8. CASE i = n + 1
    <3> DEFINE L == {j \in DOMAIN open : SameLevel(open[j], side, price)}
    <3>1. {j \in DOMAIN now : LaterIn(now, i, j)} = L
      BY <2>3, <2>4, <2>8 DEF LaterIn, SameLevel
    <3>2. SumOver(Remaining(now), L) = SumOver(Remaining(open), L)
      <4>1. L \in SUBSET DOMAIN open
        OBVIOUS
      <4> HIDE DEF L
      <4> QED
        BY <2>6, <4>1
    <3>3. QueueAtEntry(open, side, price)
            = Displayed(side, price) + SumOver(Remaining(open), L)
      BY DEF QueueAtEntry
    <3>4. Displayed(side, price) = MarketAhead(refs, side, price, max_market_ref)
      BY DisplayedIsAhead
    <3> HIDE DEF L
    <3> QED
      BY <2>3, <2>4, <2>8, <3>1, <3>2, <3>3, <3>4
  <2> QED
    BY <2>3, <2>7, <2>8
<1> QED
  BY <1>1, <1>2, SubmitCases

-----------------------------------------------------------------------------
(* The steps of the specification. *)

\* The type invariant with its type of fills named.
LEMMA TypeIs ==
  FillTypeOK <=> /\ open \in Seq(OwnOrder)
                 /\ max_market_ref \in RefIds \cup {0}
                 /\ next_ref \in Nat \ {0}
                 /\ fills \in Seq(Fill)
                 /\ increasing \in BOOLEAN
BY DEF FillTypeOK, Fill

\* What a step has to establish.
LEMMA Assembled ==
  ASSUME IInv', open' \in Seq(OwnOrder), fills' \in Seq(Fill),
         max_market_ref' \in RefIds \cup {0}, next_ref' \in Nat \ {0},
         increasing' \in BOOLEAN, Ordered(open'),
         \A k \in DOMAIN open' : /\ open'[k].ref < next_ref'
                                /\ open'[k].watermark <= max_market_ref',
         CleanFeed' => Exact(open', refs'),
         CleanFeed' => \A r \in LiveIn(refs') : r <= max_market_ref'
  PROVE  FInv'
<1>1. FillTypeOK'
  BY DEF FillTypeOK, Fill
<1>2. OwnSound'
  BY DEF OwnSound
<1>3. RefsSeen'
  BY DEF RefsSeen, LiveRefs
<1>4. QueueIsExact'
  <2>1. \A i \in DOMAIN open' :
          {j \in DOMAIN open' : Later(i, j)'} = {j \in DOMAIN open' : LaterIn(open', i, j)}
    BY DEF Later, LaterIn
  <2> QED
    BY <2>1 DEF QueueIsExact, Exact, MarketAhead, LiveRefs
<1> QED
  BY <1>1, <1>2, <1>3, <1>4 DEF FInv

\* The inductive invariant holds at the start.
LEMMA FillInitInv == FillInit => FInv
<1> SUFFICES ASSUME FillInit PROVE FInv
  OBVIOUS
<1>1. IInv
  BY InitInv DEF FillInit
<1>2. /\ open = <<>> /\ fills = <<>> /\ max_market_ref = 0 /\ next_ref = 1
      /\ increasing = TRUE
  BY DEF FillInit
<1>3. open \in Seq(OwnOrder) /\ fills \in Seq(Fill) /\ DOMAIN open = {}
  BY <1>2
<1>4. next_ref \in Nat \ {0}
  BY <1>2, FillAssumption
<1>5. FillTypeOK
  BY <1>2, <1>3, <1>4, TypeIs
<1>6. OwnSound
  BY <1>3 DEF OwnSound, Ordered
<1>7. RefsSeen
  <2>1. LiveRefs = {}
    BY DEF FillInit, Init, LiveRefs, LiveIn
  <2> QED
    BY <2>1 DEF RefsSeen
<1>8. QueueIsExact
  BY <1>3 DEF QueueIsExact
<1> QED
  BY <1>1, <1>5, <1>6, <1>7, <1>8 DEF FInv

\* What a submission and a cancel do to the invariant.
LEMMA OwnStepInv ==
  ASSUME FInv, UNCHANGED vars,
         \/ /\ next_ref <= MaxSubmits
            /\ \E side \in Sides, price \in OwnPrices, shares \in OwnQtys :
                 SubmitLimit(side, price, shares)
         \/ \E j \in DOMAIN open : Cancel(j)
  PROVE  FInv'
<1>1. /\ IInv /\ FillTypeOK /\ OwnSound /\ refs' = refs
      /\ (CleanFeed => Exact(open, refs)) /\ (CleanFeed => \A r \in LiveRefs : r <= max_market_ref)
      /\ refs \in Table
  BY QueueIsExactHere DEF FInv, RefsSeen, vars, IInv, TypeOK, Table
<1>2. IInv'
  BY <1>1, NextInv
<1>3. /\ open' \in Seq(OwnOrder) /\ fills' \in Seq(Fill)
      /\ next_ref' \in Nat \ {0}
      /\ Ordered(open') /\ \A k \in DOMAIN open' : /\ open'[k].ref < next_ref'
                                                   /\ open'[k].watermark <= max_market_ref'
      /\ max_market_ref' = max_market_ref /\ increasing' = increasing
      /\ (CleanFeed => Exact(open', refs))
  <2>1. ASSUME NEW side \in Sides, NEW price \in OwnPrices, NEW shares \in OwnQtys,
               next_ref <= MaxSubmits, SubmitLimit(side, price, shares)
        PROVE  <1>3
    <3>1. price \in U32 /\ shares \in U32
      BY FillAssumption
    <3>2. next_ref \in Nat \ {0} /\ next_ref + 1 \in Nat \ {0}
      BY <1>1, <2>1, FillAssumption, TypeIs
    <3>3. /\ max_market_ref' = max_market_ref /\ increasing' = increasing
          /\ next_ref' = next_ref + 1
      BY <2>1 DEF SubmitLimit, SubmitTo
    <3> QED
      BY <1>1, <2>1, <3>1, <3>2, <3>3, SubmitCases, SubmitStep, SubmitExact
  <2>2. ASSUME NEW j \in DOMAIN open, Cancel(j)
        PROVE  <1>3
    <3>1. /\ max_market_ref' = max_market_ref /\ increasing' = increasing
          /\ next_ref' = next_ref /\ fills' = <<>>
      BY <2>2 DEF Cancel
    <3>2. <<>> \in Seq(Fill)
      OBVIOUS
    <3>3. next_ref \in Nat \ {0}
      BY <1>1, TypeIs
    <3> QED
      BY <1>1, <2>2, <3>1, <3>2, <3>3, CancelStep, CancelExact
  <2> QED
    BY <2>1, <2>2
<1>4. /\ max_market_ref \in RefIds \cup {0} /\ increasing \in BOOLEAN
      /\ (CleanFeed' <=> CleanFeed) /\ LiveIn(refs') = LiveRefs
  BY <1>1, <1>3, TypeIs DEF CleanFeed, vars, LiveRefs
<1> QED
  BY <1>1, <1>2, <1>3, <1>4, Assembled

\* Own orders after a message: of their types, in order, with sound marks.
OwnSoundNext ==
  /\ open' \in Seq(OwnOrder) /\ fills' \in Seq(Fill) /\ Ordered(open')
  /\ \A k \in DOMAIN open' :
       open'[k].ref < next_ref /\ open'[k].watermark <= max_market_ref

\* A message that concerns the traded stock is about a live order of it.
LEMMA ConcernsType ==
  ASSUME IInv, NEW r, Concerns(r)
  PROVE  /\ refs \in Table /\ r \in LiveIn(refs) /\ r \in LiveRefs /\ refs[r].locate = Locate
         /\ refs[r].side \in Sides /\ refs[r].price \in Nat
         /\ refs[r].shares \in Nat /\ refs[r].shares \in U32 /\ refs[r].shares # 0
<1>1. refs \in Table /\ r \in LiveIn(refs)
  BY DEF IInv, TypeOK, Table, LiveRefs, Concerns
<1>2. refs[r] \in Order
  BY <1>1, LiveIsOrder
<1> QED
  BY <1>1, <1>2, PricesType, MaxU32Assumption DEF Order, U32, Concerns, LiveRefs

\* Nothing happened to own orders.
LEMMA NoEffectSound ==
  ASSUME FillTypeOK, OwnSound, NoEffect
  PROVE  OwnSoundNext
<1>1. <<>> \in Seq(Fill)
  OBVIOUS
<1> QED
  BY <1>1, TypeIs DEF NoEffect, OwnSoundNext, OwnSound

\* handle_remove keeps own orders sound.
LEMMA RemovedSound ==
  ASSUME FillTypeOK, OwnSound, NEW r, NEW side, NEW price, NEW x \in Nat,
         RemovedFrom(r, side, price, x)
  PROVE  OwnSoundNext
<1>1. /\ open' \in Seq(OwnOrder) /\ SameOrders(open') /\ Ordered(open') /\ fills' = <<>>
  BY RemovedStep
<1>2. <<>> \in Seq(Fill)
  OBVIOUS
<1> QED
  BY <1>1, <1>2 DEF SameOrders, OwnSound, OwnSoundNext

\* So does an order that leaves the table.
LEMMA LeavesSound ==
  ASSUME IInv, FillTypeOK, OwnSound, NEW r, Leaves(r)
  PROVE  OwnSoundNext
<1>1. CASE ~Concerns(r)
  BY <1>1, NoEffectSound DEF Leaves
<1>2. CASE Concerns(r)
  BY <1>2, ConcernsType, RemovedSound DEF Leaves
<1> QED
  BY <1>1, <1>2

\* So does an execution or a partial cancel.
LEMMA ReductionSound ==
  ASSUME IInv, FillTypeOK, OwnSound, NEW m \in FeedReductions, SeesReduction(m)
  PROVE  OwnSoundNext
<1>1. CASE ~Concerns(m.ref)
  BY <1>1, NoEffectSound DEF SeesReduction
<1>2. CASE Concerns(m.ref)
  <2> DEFINE o == refs[m.ref]
             q == Least(m.shares, o.shares)
  <2>1. m.shares \in Nat
    BY MsgType, MaxU32Assumption DEF FeedReductions, ReduceFields, U32
  <2>2. q \in Nat /\ o.side \in Sides
    BY <1>2, <2>1, ConcernsType, ArithmeticFacts
  <2>3. CASE m.type = "Cancel"
    <3>1. RemovedFrom(m.ref, o.side, o.price, q)
      BY <1>2, <2>3 DEF SeesReduction
    <3> QED
      BY <2>2, <3>1, RemovedSound
  <2>4. CASE m.type # "Cancel"
    <3>1. Executed(m.ref, o.side, o.price, q)
      BY <1>2, <2>4 DEF SeesReduction
    <3> QED
      BY <2>2, <3>1, ExecutedStep DEF OwnSoundNext
  <2> QED
    BY <2>3, <2>4
<1> QED
  BY <1>1, <1>2

\* Seeing a reference.
LEMMA NewRefType ==
  ASSUME FillTypeOK, NEW r \in RefIds, SeesNewRef(r)
  PROVE  /\ max_market_ref' \in RefIds \cup {0} /\ increasing' \in BOOLEAN
         /\ max_market_ref \in Nat /\ max_market_ref' \in Nat /\ r \in Nat
         /\ max_market_ref <= max_market_ref' /\ r <= max_market_ref'
         /\ increasing' => increasing /\ r > max_market_ref
<1>1. RefIds \cup {0} \subseteq Nat
  BY FillAssumption
<1>2. max_market_ref \in RefIds \cup {0} /\ increasing \in BOOLEAN
  BY TypeIs
<1>3. max_market_ref' = Greatest(max_market_ref, r)
      /\ increasing' = (increasing /\ r > max_market_ref)
  BY DEF SeesNewRef
<1>4. max_market_ref \in Nat /\ r \in Nat
  BY <1>1, <1>2
<1>5. /\ max_market_ref' \in RefIds \cup {0}
      /\ max_market_ref <= max_market_ref' /\ r <= max_market_ref'
  BY <1>2, <1>3, <1>4 DEF Greatest
<1> QED
  BY <1>1, <1>2, <1>3, <1>4, <1>5

\* Raising the highest reference keeps marks below it.
LEMMA MarksStay ==
  ASSUME IInv, FillTypeOK, NEW r \in RefIds, SeesNewRef(r), OwnSoundNext
  PROVE  \A k \in DOMAIN open' : open'[k].watermark <= max_market_ref'
<1>1. max_market_ref \in Nat /\ max_market_ref' \in Nat /\ max_market_ref <= max_market_ref'
  BY NewRefType
<1>2. RefIds \cup {0} \subseteq Nat
  BY FillAssumption
<1> SUFFICES ASSUME NEW k \in DOMAIN open' PROVE open'[k].watermark <= max_market_ref'
  OBVIOUS
<1>3. open'[k] \in OwnOrder /\ open'[k].watermark <= max_market_ref
  BY DEF OwnSoundNext
<1>4. open'[k].watermark \in Nat
  BY <1>2, <1>3 DEF OwnOrder
<1> QED
  BY <1>1, <1>3, <1>4

\* Nothing ahead of the orders os changed.
LEMMA SameAheadExactOf ==
  ASSUME NEW os \in Seq(OwnOrder), \A k \in DOMAIN os : os[k].watermark <= max_market_ref,
         NEW t, NEW u, SameAhead(t, u), Exact(os, t)
  PROVE  Exact(os, u)
<1> SUFFICES ASSUME NEW i \in DOMAIN os
             PROVE  os[i].queue_ahead
                      = MarketAhead(u, os[i].side, os[i].price, os[i].watermark)
                        + SumOver(Remaining(os), {j \in DOMAIN os : LaterIn(os, i, j)})
  BY DEF Exact
<1>1. os[i].watermark <= max_market_ref /\ os[i].watermark \in Nat
  <2>1. RefIds \cup {0} \subseteq Nat
    BY FillAssumption
  <2>2. os[i] \in OwnOrder
    OBVIOUS
  <2> QED
    BY <2>1, <2>2 DEF OwnOrder
<1>2. MarketAhead(u, os[i].side, os[i].price, os[i].watermark)
        = MarketAhead(t, os[i].side, os[i].price, os[i].watermark)
  BY <1>1 DEF SameAhead
<1> QED
  BY <1>2 DEF Exact

\* What each message leaves when the feed is clean: the table with one order more,
\* less or smaller, exact queue positions and all live references seen.
CleanResult ==
  /\ Exact(open', refs')
  /\ \A r \in LiveIn(refs') : r <= max_market_ref'

CleanBefore ==
  /\ IInv /\ FillTypeOK /\ OwnSound /\ Exact(open, refs)
  /\ \A r \in LiveIn(refs) : r <= max_market_ref
  /\ refs \in Table

\* What the inductive invariant says while the feed is clean.
LEMMA CleanBeforeIs ==
  ASSUME FInv, CleanFeed
  PROVE  CleanBefore
BY QueueIsExactHere DEF FInv, RefsSeen, LiveRefs, CleanBefore, IInv, TypeOK, Table

\* An Add that the book accepted is behind all own orders.
LEMMA AddClean ==
  ASSUME CleanBefore, NEW m \in FeedAdds, SeesAdd(m), OnAdd(m), CleanFeed'
  PROVE  CleanResult
<1>1. IInv /\ FillTypeOK /\ OwnSound /\ Exact(open, refs) /\ refs \in Table
  BY DEF CleanBefore
<1>2. AddStatus(m) = "Applied"
  BY DEF CleanFeed, OnAdd, Report, AddStatus
<1>3. ValidAdd(m) /\ CanInsert(refs, m.ref) /\ refs' = Insert(refs, m.ref, OrderOf(m))
  BY <1>2 DEF OnAdd, AddStatus
<1>4. m \in AddMsgs /\ m.ref \in RefIds
  BY <1>3 DEF FeedAdds, CanInsert
<1>5. OrderOf(m) \in Order
  <2>1. m.locate \in Locates /\ m.side \in Sides /\ m.price \in Prices
        /\ m.shares \in U32 /\ m.shares # 0
    BY <1>3, <1>4, MsgType DEF AddFields, ValidAdd, MsgLocates
  <2> QED
    BY <2>1 DEF OrderOf, Order
<1>6. /\ max_market_ref \in Nat /\ max_market_ref' \in Nat /\ m.ref \in Nat
      /\ max_market_ref <= max_market_ref' /\ m.ref <= max_market_ref'
      /\ m.ref > max_market_ref
  BY <1>1, <1>4, NewRefType DEF SeesAdd, CleanFeed
<1>7. SameAhead(refs, refs')
  BY <1>1, <1>3, <1>4, <1>5, <1>6, InsertSameAhead
<1>8. open' = open
  BY DEF SeesAdd, NoEffect
<1>9. open \in Seq(OwnOrder) /\ \A k \in DOMAIN open : open[k].watermark <= max_market_ref
  BY <1>1, TypeIs DEF OwnSound
<1>10. Exact(open, refs')
  BY <1>1, <1>7, <1>9, SameAheadExactOf
<1>11. LiveIn(refs') = LiveIn(refs) \cup {m.ref}
  BY <1>1, <1>3, <1>4, <1>5, InsertType
<1>12. \A r \in LiveIn(refs) : r \in Nat /\ r <= max_market_ref
  BY FillAssumption DEF CleanBefore, LiveIn
<1>13. \A r \in LiveIn(refs') : r <= max_market_ref'
  BY <1>6, <1>11, <1>12
<1> QED
  BY <1>8, <1>10, <1>13 DEF CleanResult

\* A reduction of the order r by x that the book applied.
LEMMA AppliedReduction ==
  ASSUME IInv, NEW m \in FeedReductions, OnReduce(m), clean'
  PROVE  /\ m.ref \in LiveRefs /\ m.shares \in U32 /\ m.shares # 0 /\ m.shares \in Nat
         /\ refs[m.ref].shares \in Nat /\ m.shares <= refs[m.ref].shares
         /\ refs' = After(refs, m.ref, m.shares)
         /\ Least(m.shares, refs[m.ref].shares) = m.shares
         /\ m.type # "Cancel" => exec'.shares = m.shares
         /\ m.type = "Cancel" => exec' = NoExec
<1>1. ReduceStatus(m) = "Applied"
  BY DEF OnReduce, Report, ReduceStatus
<1>2. /\ m.ref \in LiveRefs /\ m.shares # 0 /\ m.shares \in U32
      /\ ~(m.shares > refs[m.ref].shares)
  BY <1>1, MsgType DEF FeedReductions, ReduceFields, ReduceStatus
<1>3. m.shares \in Nat /\ refs[m.ref].shares \in Nat
  BY <1>2, LiveLocate, MaxU32Assumption DEF U32, IInv
<1>4. m.shares <= refs[m.ref].shares
  BY <1>2, <1>3
<1>5. refs' = After(refs, m.ref, m.shares)
  BY <1>1 DEF OnReduce, RefsAfterReduce, After
<1>6. /\ m.type # "Cancel" => exec'.shares = m.shares
      /\ m.type = "Cancel" => exec' = NoExec
  BY <1>1 DEF OnReduce, ExecOf
<1> QED
  BY <1>2, <1>3, <1>4, <1>5, <1>6 DEF Least

\* Fewer live references are still all seen.
LEMMA TakeSeen ==
  ASSUME CleanBefore, NEW r \in LiveRefs, NEW x \in U32, x # 0, x <= refs[r].shares
  PROVE  \A q \in LiveIn(After(refs, r, x)) : q <= max_market_ref
BY TakeTotals DEF CleanBefore, LiveRefs

\* An accepted execution or partial cancel takes off the queue what it takes off
\* the table.
LEMMA ReductionClean ==
  ASSUME CleanBefore, NEW m \in FeedReductions, SeesReduction(m), OnReduce(m), CleanFeed'
  PROVE  CleanResult
<1>1. IInv /\ FillTypeOK /\ OwnSound /\ Exact(open, refs) /\ refs \in Table
  BY DEF CleanBefore
<1> DEFINE r == m.ref
           x == m.shares
<1>2. /\ r \in LiveRefs /\ x \in U32 /\ x # 0 /\ x \in Nat
      /\ x <= refs[r].shares /\ refs' = After(refs, r, x)
      /\ Least(x, refs[r].shares) = x
  BY <1>1, AppliedReduction DEF CleanFeed
<1>3. /\ refs' \in Table
      /\ refs[r].locate = Locate => Drops(refs', r, refs[r].side, refs[r].price, x)
      /\ refs[r].locate # Locate => SameAhead(refs, refs')
  BY <1>1, <1>2, TakeDrops
<1>4. \A q \in LiveIn(refs') : q <= max_market_ref
  BY <1>2, TakeSeen
<1>5. max_market_ref' = max_market_ref
  BY DEF SeesReduction
<1>6. Exact(open', refs')
  <2>1. CASE ~Concerns(r)
    <3>1. open' = open /\ SameAhead(refs, refs')
      BY <1>2, <1>3, <2>1 DEF SeesReduction, NoEffect, Concerns
    <3>2. open \in Seq(OwnOrder)
          /\ \A k \in DOMAIN open : open[k].watermark <= max_market_ref
      BY <1>1, TypeIs DEF OwnSound
    <3> QED
      BY <1>1, <3>1, <3>2, SameAheadExactOf
  <2>2. CASE Concerns(r) /\ m.type = "Cancel"
    <3>1. RemovedFrom(r, refs[r].side, refs[r].price, x)
      BY <1>2, <2>2 DEF SeesReduction
    <3>2. Drops(refs', r, refs[r].side, refs[r].price, x)
      BY <1>3, <2>2 DEF Concerns
    <3> HIDE DEF r, x
    <3> QED
      BY <1>1, <1>2, <1>3, <3>1, <3>2, RemovedExact
  <2>3. CASE Concerns(r) /\ m.type # "Cancel"
    <3>1. Executed(r, refs[r].side, refs[r].price, x)
      BY <1>2, <2>3 DEF SeesReduction
    <3>2. Drops(refs', r, refs[r].side, refs[r].price, x) /\ refs[r].locate = Locate
      BY <1>3, <2>3 DEF Concerns
    <3> HIDE DEF r, x
    <3> QED
      BY <1>1, <1>2, <1>3, <3>1, <3>2, ExecutedExact DEF LiveRefs
  <2> QED
    BY <2>1, <2>2, <2>3
<1> QED
  BY <1>4, <1>5, <1>6 DEF CleanResult

\* An order that leaves the table as a whole.
LEMMA LeavesClean ==
  ASSUME CleanBefore, NEW r \in LiveRefs, Leaves(r)
  PROVE  /\ Erase(refs, r) \in Table /\ Exact(open', Erase(refs, r))
         /\ \A q \in LiveIn(Erase(refs, r)) : q <= max_market_ref
<1>1. IInv /\ FillTypeOK /\ OwnSound /\ Exact(open, refs) /\ refs \in Table
  BY DEF CleanBefore
<1> DEFINE x == refs[r].shares
           u == Erase(refs, r)
<1>2. x \in U32 /\ x # 0 /\ x \in Nat /\ x <= x
  <2>1. refs[r] \in Order
    BY <1>1, LiveLocate DEF IInv
  <2> QED
    BY <2>1, MaxU32Assumption DEF Order, U32
<1>3. After(refs, r, x) = u
  BY DEF After
<1>4. /\ u \in Table
      /\ refs[r].locate = Locate => Drops(u, r, refs[r].side, refs[r].price, x)
      /\ refs[r].locate # Locate => SameAhead(refs, u)
  <2> HIDE DEF u
  <2> QED
    BY <1>1, <1>2, <1>3, TakeDrops
<1>5. \A q \in LiveIn(u) : q <= max_market_ref
  <2> HIDE DEF u
  <2> QED
    BY <1>2, <1>3, TakeSeen
<1>6. Exact(open', u)
  <2>1. CASE ~Concerns(r)
    <3>1. open' = open /\ SameAhead(refs, u)
      BY <1>4, <2>1 DEF Leaves, NoEffect, Concerns
    <3>2. open \in Seq(OwnOrder)
          /\ \A k \in DOMAIN open : open[k].watermark <= max_market_ref
      BY <1>1, TypeIs DEF OwnSound
    <3> HIDE DEF u
    <3> QED
      BY <1>1, <3>1, <3>2, SameAheadExactOf
  <2>2. CASE Concerns(r)
    <3>1. RemovedFrom(r, refs[r].side, refs[r].price, x)
      BY <2>2 DEF Leaves
    <3>2. Drops(u, r, refs[r].side, refs[r].price, x)
      BY <1>4, <2>2 DEF Concerns
    <3> HIDE DEF u, x
    <3> QED
      BY <1>1, <1>2, <1>4, <3>1, <3>2, RemovedExact
  <2> QED
    BY <2>1, <2>2
<1> QED
  BY <1>4, <1>5, <1>6

\* So does an accepted Delete.
LEMMA DeleteClean ==
  ASSUME CleanBefore, NEW m, SeesDelete(m), OnDelete(m), CleanFeed'
  PROVE  CleanResult
<1>1. DeleteStatus(m) = "Applied"
  BY DEF CleanFeed, OnDelete, Report, DeleteStatus
<1>2. m.ref \in LiveRefs /\ refs' = Erase(refs, m.ref)
  BY <1>1 DEF DeleteStatus, OnDelete
<1>3. Leaves(m.ref) /\ max_market_ref' = max_market_ref
  BY DEF SeesDelete
<1> QED
  BY <1>2, <1>3, LeavesClean DEF CleanResult

\* An accepted Replace is a Delete followed by an Add of a new reference.
LEMMA ReplaceClean ==
  ASSUME CleanBefore, NEW m \in FeedReplaces, SeesReplace(m), OnReplace(m), CleanFeed'
  PROVE  CleanResult
<1> DEFINE u == Erase(refs, m.ref)
           o == [refs[m.ref] EXCEPT !.price = m.price, !.shares = m.shares]
<1>1. IInv /\ FillTypeOK /\ OwnSound /\ refs \in Table
  BY DEF CleanBefore
<1>2. ReplaceStatus(m) = "Applied"
  BY DEF CleanFeed, OnReplace, Report, ReplaceStatus
<1>3. /\ m.ref \in LiveRefs /\ ValidReplace(m) /\ m.new_ref \notin LiveRefs
      /\ CanInsert(u, m.new_ref) /\ refs' = Insert(u, m.new_ref, o)
  BY <1>2 DEF ReplaceStatus, OnReplace
<1>4. m.new_ref \in RefIds /\ m.shares \in U32 /\ m.shares # 0 /\ m.price \in Prices
  BY <1>3, MsgType DEF FeedReplaces, ReplaceFields, ValidReplace, CanInsert
<1>5. o \in Order
  <2>1. refs[m.ref] \in Order
    BY <1>1, <1>3, LiveLocate DEF IInv
  <2> QED
    BY <1>4, <2>1 DEF Order
<1>6. Leaves(m.ref) /\ SeesNewRef(m.new_ref)
  BY DEF SeesReplace
<1>7. /\ u \in Table /\ Exact(open', u)
      /\ \A q \in LiveIn(u) : q <= max_market_ref
  BY <1>3, <1>6, LeavesClean
<1>8. /\ max_market_ref \in Nat /\ max_market_ref' \in Nat /\ m.new_ref \in Nat
      /\ max_market_ref <= max_market_ref' /\ m.new_ref <= max_market_ref'
      /\ m.new_ref > max_market_ref
  BY <1>1, <1>4, <1>6, NewRefType DEF CleanFeed
<1> HIDE DEF u, o
<1>9. SameAhead(u, refs')
  BY <1>3, <1>4, <1>5, <1>7, <1>8, InsertSameAhead
<1>10. open' \in Seq(OwnOrder) /\ \A k \in DOMAIN open' : open'[k].watermark <= max_market_ref
  BY <1>1, <1>6, LeavesSound DEF OwnSoundNext
<1>11. Exact(open', refs')
  BY <1>7, <1>9, <1>10, SameAheadExactOf
<1>12. LiveIn(refs') = LiveIn(u) \cup {m.new_ref}
  BY <1>3, <1>4, <1>5, <1>7, InsertType
<1>13. \A q \in LiveIn(u) : q \in Nat /\ q <= max_market_ref
  BY <1>7, FillAssumption DEF LiveIn
<1>14. \A q \in LiveIn(refs') : q <= max_market_ref'
  BY <1>8, <1>12, <1>13
<1> QED
  BY <1>11, <1>14 DEF CleanResult

\* A message that only the book or nobody changes for.
LEMMA SameTableClean ==
  ASSUME CleanBefore, SeesOther, refs' = refs
  PROVE  CleanResult
BY DEF CleanBefore, CleanResult, SeesOther, NoEffect

\* Every message is handled by the book.
LEMMA FeedHandles ==
  ASSUME FeedMessage
  PROVE  Next
BY DEF FeedMessage, FeedAdds, FeedReductions, FeedReplaces, Next

\* What a message does to the counters and own orders, clean feed or not.
FeedResult ==
  /\ OwnSoundNext /\ next_ref' = next_ref
  /\ max_market_ref' \in RefIds \cup {0} /\ increasing' \in BOOLEAN
  /\ \A k \in DOMAIN open' : open'[k].watermark <= max_market_ref'
  /\ CleanFeed' => CleanFeed

\* The same for a message that brings no new reference.
SteadyResult ==
  /\ OwnSoundNext
  /\ clean' => clean
  /\ UNCHANGED <<max_market_ref, next_ref, increasing>>

\* A message without a new reference leaves the counters alone.
LEMMA SteadyFeed ==
  ASSUME FillTypeOK, SteadyResult
  PROVE  FeedResult
<1>1. /\ max_market_ref \in RefIds \cup {0} /\ increasing \in BOOLEAN
      /\ max_market_ref' = max_market_ref /\ increasing' = increasing
      /\ next_ref' = next_ref /\ OwnSoundNext
  BY TypeIs DEF SteadyResult
<1>2. CleanFeed' => CleanFeed
  BY DEF CleanFeed, SteadyResult
<1>3. \A k \in DOMAIN open' : open'[k].watermark <= max_market_ref'
  BY <1>1 DEF OwnSoundNext
<1> QED
  BY <1>1, <1>2, <1>3 DEF FeedResult

\* Every message keeps own orders sound.
LEMMA FeedSound ==
  ASSUME IInv, FillTypeOK, OwnSound, FeedMessage
  PROVE  FeedResult
<1>1. \A status : Report(status) => (clean' => clean)
  BY DEF Report
<1>2. ASSUME NEW m \in FeedAdds, SeesAdd(m), OnAdd(m)
      PROVE  FeedResult
  <2>1. m.ref \in RefIds /\ SeesNewRef(m.ref) /\ NoEffect /\ next_ref' = next_ref
    BY <1>2, MsgType DEF FeedAdds, AddFields, MsgRefs, SeesAdd
  <2>2. OwnSoundNext
    BY <2>1, NoEffectSound
  <2>3. clean' => clean
    BY <1>1, <1>2 DEF OnAdd
  <2> QED
    BY <2>1, <2>2, <2>3, NewRefType, MarksStay DEF CleanFeed, FeedResult
<1>3. ASSUME NEW m \in FeedReductions, SeesReduction(m), OnReduce(m)
      PROVE  FeedResult
  <2>1. SteadyResult
    BY <1>1, <1>3, ReductionSound DEF SeesReduction, OnReduce, SteadyResult
  <2> QED
    BY <2>1, SteadyFeed
<1>4. ASSUME NEW m \in DeleteMsgs, SeesDelete(m), OnDelete(m)
      PROVE  FeedResult
  <2>1. SteadyResult
    BY <1>1, <1>4, LeavesSound DEF SeesDelete, OnDelete, SteadyResult
  <2> QED
    BY <2>1, SteadyFeed
<1>5. ASSUME NEW m \in FeedReplaces, SeesReplace(m), OnReplace(m)
      PROVE  FeedResult
  <2>1. /\ m.new_ref \in RefIds /\ SeesNewRef(m.new_ref) /\ Leaves(m.ref)
        /\ next_ref' = next_ref
    BY <1>5, MsgType DEF FeedReplaces, ReplaceFields, MsgRefs, SeesReplace
  <2>2. OwnSoundNext
    BY <2>1, LeavesSound
  <2>3. clean' => clean
    BY <1>1, <1>5 DEF OnReplace
  <2> QED
    BY <2>1, <2>2, <2>3, NewRefType, MarksStay DEF CleanFeed, FeedResult
<1>6. ASSUME NEW m, SeesOther, OnTrade(m) \/ OnOther(m)
      PROVE  FeedResult
  <2>1. SteadyResult
    BY <1>1, <1>6, NoEffectSound DEF SeesOther, OnTrade, OnOther, SteadyResult
  <2> QED
    BY <2>1, SteadyFeed
<1> QED
  BY <1>2, <1>3, <1>4, <1>5, <1>6 DEF FeedMessage

\* Every message that the book accepted keeps queue positions exact.
LEMMA FeedClean ==
  ASSUME CleanBefore, FeedMessage, CleanFeed'
  PROVE  CleanResult
<1>1. ASSUME NEW m, SeesOther, OnTrade(m) \/ OnOther(m)
      PROVE  CleanResult
  BY <1>1, SameTableClean DEF OnTrade, OnOther
<1> QED
  BY <1>1, AddClean, ReductionClean, DeleteClean, ReplaceClean DEF FeedMessage

\* Every step keeps the inductive invariant.
LEMMA FillNextInv == FInv /\ [FillNext]_fillVars => FInv'
<1> SUFFICES ASSUME FInv, [FillNext]_fillVars PROVE FInv'
  OBVIOUS
<1>1. IInv /\ FillTypeOK /\ OwnSound /\ next_ref \in Nat \ {0}
  BY TypeIs DEF FInv
<1>2. CASE FeedMessage
  <2>1. IInv'
    BY <1>1, <1>2, FeedHandles, NextInv
  <2>2. /\ OwnSoundNext /\ next_ref' = next_ref
        /\ max_market_ref' \in RefIds \cup {0} /\ increasing' \in BOOLEAN
        /\ \A k \in DOMAIN open' : open'[k].watermark <= max_market_ref'
        /\ CleanFeed' => CleanFeed
    BY <1>1, <1>2, FeedSound DEF FeedResult
  <2>3. CleanFeed' => CleanResult
    BY <1>2, <2>2, CleanBeforeIs, FeedClean
  <2> QED
    BY <1>1, <2>1, <2>2, <2>3, Assembled DEF OwnSoundNext, CleanResult
<1>3. CASE \/ /\ next_ref <= MaxSubmits
              /\ \E side \in Sides, price \in OwnPrices, shares \in OwnQtys :
                   SubmitLimit(side, price, shares)
           \/ \E j \in DOMAIN open : Cancel(j)
  <2>1. UNCHANGED vars
    BY <1>3 DEF SubmitLimit, Cancel, vars
  <2> QED
    BY <1>3, <2>1, OwnStepInv
<1>4. CASE UNCHANGED fillVars
  <2>1. /\ UNCHANGED vars /\ open' = open /\ max_market_ref' = max_market_ref
        /\ next_ref' = next_ref /\ fills' = fills /\ increasing' = increasing
        /\ refs' = refs /\ clean' = clean
    BY <1>4 DEF fillVars, ownVars, vars
  <2>2. IInv'
    BY <1>1, <2>1, NextInv
  <2>3. CleanFeed' => CleanBefore
    BY <2>1, CleanBeforeIs DEF CleanFeed
  <2> QED
    BY <1>1, <2>1, <2>2, <2>3, TypeIs, Assembled DEF CleanBefore, OwnSound
<1> QED
  BY <1>2, <1>3, <1>4 DEF FillNext

-----------------------------------------------------------------------------
\* Own orders, their queue positions and the counters keep the inductive
\* invariant from the start on.
THEOREM FillInductive == FillSpec => []FInv
BY FillInitInv, FillNextInv, PTL DEF FillSpec

\* Under a clean feed the queue position the simulation keeps for each own order
\* by increments is the number of shares really ahead of it: the market orders
\* that were there before it and what remains of earlier own orders.
THEOREM QueuePositionsExact == FillSpec => []FillInv
<1>1. FInv => FillInv
  BY DEF FInv, FillInv
<1> QED
  BY <1>1, FillInductive, PTL

-----------------------------------------------------------------------------
(* What an execution hands out. *)

\* In this step q shares of the market order r of the traded stock, at a level,
\* are executed, and the feed has been clean.
Trades(r, side, price, q) ==
  /\ CleanBefore /\ r \in LiveRefs /\ refs[r].locate = Locate
  /\ side = refs[r].side /\ price = refs[r].price
  /\ q \in Nat /\ q <= refs[r].shares
  /\ Executed(r, side, price, q)

\* What each own order gets.
Gains(r, side, price, q) == [i \in DOMAIN open |-> Got(r, side, price, q, i)]

Winners(r, side, price, q) ==
  Served(r, side, price, q, SuperiorOnes(side, price))
    \cup Served(r, side, price, q, LevelOnes(side, price))

\* The types of the parts of an execution.
LEMMA TradeTypes ==
  ASSUME NEW r, NEW side, NEW price, NEW q, Trades(r, side, price, q)
  PROVE  /\ IInv /\ FillTypeOK /\ OwnSound
         /\ side \in Sides /\ price \in Nat /\ r \in Nat /\ q \in Nat
BY ConcernsType, FillAssumption DEF Trades, CleanBefore, Concerns, LiveRefs, LiveIn

\* It gets what is handed out in order among its equals, and nothing when the
\* executed order was ahead of it.
LEMMA GainsAre ==
  ASSUME NEW r, NEW side, NEW price, NEW q, Trades(r, side, price, q),
         NEW i \in DOMAIN open
  PROVE  /\ Gains(r, side, price, q)[i] = Got(r, side, price, q, i)
         /\ Gains(r, side, price, q)[i] \in Nat
         /\ Gains(r, side, price, q)[i] <= open[i].remaining
         /\ i \in SuperiorOnes(side, price) =>
              Gains(r, side, price, q)[i] = FifoShare(q, SuperiorOnes(side, price), i)
         /\ i \in BehindOnes(r, side, price) =>
              Gains(r, side, price, q)[i] = FifoShare(q, BehindOnes(r, side, price), i)
         /\ i \in AheadOnes(r, side, price) => Gains(r, side, price, q)[i] = 0
<1>1. /\ FillTypeOK /\ side \in Sides /\ price \in Nat /\ q \in Nat
      /\ refs \in Table /\ Exact(open, refs) /\ r \in LiveIn(refs)
      /\ refs[r].locate = Locate /\ q <= refs[r].shares
      /\ side = refs[r].side /\ price = refs[r].price
  BY TradeTypes DEF Trades, CleanBefore, LiveRefs
<1>2. Gains(r, side, price, q)[i] = Got(r, side, price, q, i)
  BY DEF Gains
<1>3. Got(r, side, price, q, i) \in Nat /\ Got(r, side, price, q, i) <= open[i].remaining
  BY <1>1, GotType
<1>4. /\ Got(r, side, price, q, i) = Through(r, side, price, q)[i]
      /\ i \in AheadOnes(r, side, price) => Got(r, side, price, q, i) = 0
  BY <1>1, NobodyJumps
<1>5. i \in LevelOnes(side, price) => i \notin SuperiorOnes(side, price)
  BY <1>1, AheadOnesAre
<1>6. i \in BehindOnes(r, side, price) => i \notin SuperiorOnes(side, price)
  BY <1>5 DEF BehindOnes
<1>7. i \in SuperiorOnes(side, price) =>
        Through(r, side, price, q)[i] = FifoShare(q, SuperiorOnes(side, price), i)
  BY <1>6 DEF Through
<1>8. i \in BehindOnes(r, side, price) =>
        Through(r, side, price, q)[i] = FifoShare(q, BehindOnes(r, side, price), i)
  BY <1>6 DEF Through
<1> QED
  BY <1>2, <1>3, <1>4, <1>7, <1>8

\* Who gets something had priority over the executed order.
LEMMA WinnersHadPriority ==
  ASSUME NEW r, NEW side, NEW price, NEW q, Trades(r, side, price, q),
         NEW i \in Winners(r, side, price, q)
  PROVE  /\ i \in DOMAIN open /\ open[i].side = side
         /\ \/ i \in SuperiorOnes(side, price) /\ Superior(side, open[i].price, price)
            \/ /\ i \in BehindOnes(r, side, price) /\ open[i].price = price
               /\ r > open[i].watermark
<1>1. i \in DOMAIN open /\ Got(r, side, price, q, i) # 0
  BY DEF Winners, Served, SuperiorOnes, LevelOnes
<1>2. CASE i \in SuperiorOnes(side, price)
  BY <1>1, <1>2 DEF SuperiorOnes
<1>3. CASE i \notin SuperiorOnes(side, price)
  <2>1. i \in LevelOnes(side, price)
    BY <1>3 DEF Winners, Served
  <2>2. i \notin AheadOnes(r, side, price)
    BY <1>1, GainsAre
  <2>3. /\ open[i].side = side /\ open[i].price = price
        /\ ~(r <= open[i].watermark)
    BY <1>1, <2>1, <2>2, TradeTypes, AheadOnesAre
  <2>4. r \in Nat /\ open[i].watermark \in Nat
    BY <1>1, TradeTypes, OwnType
  <2>5. r > open[i].watermark
    BY <2>3, <2>4
  <2> QED
    BY <1>1, <2>1, <2>2, <2>3, <2>5 DEF BehindOnes
<1> QED
  BY <1>2, <1>3

\* The fills are one for each winner, of what he got.
LEMMA FillsAre ==
  ASSUME NEW r, NEW side, NEW price, NEW q, Trades(r, side, price, q)
  PROVE  /\ \E pos : Names(fills', FillRecords(r, side, price, q),
                           Winners(r, side, price, q), pos)
         /\ Winners(r, side, price, q) \subseteq DOMAIN open
         /\ IsFiniteSet(Winners(r, side, price, q))
         /\ \A i \in DOMAIN open :
              /\ FillRecords(r, side, price, q)[i].ref = open[i].ref
              /\ FillRecords(r, side, price, q)[i].price = open[i].price
              /\ FillRecords(r, side, price, q)[i].shares = Gains(r, side, price, q)[i]
<1> DEFINE A == Served(r, side, price, q, SuperiorOnes(side, price))
           B == Served(r, side, price, q, LevelOnes(side, price))
           rec == FillRecords(r, side, price, q)
<1>1. /\ FillTypeOK /\ side \in Sides /\ price \in Nat /\ q \in Nat
      /\ Executed(r, side, price, q)
  BY TradeTypes DEF Trades
<1>2. fills' = Keep(rec, A) \o Keep(rec, B)
  BY <1>1, ExecutedIs
<1>3. SuperiorOnes(side, price) \in SUBSET DOMAIN open
      /\ LevelOnes(side, price) \in SUBSET DOMAIN open
  BY DEF SuperiorOnes, LevelOnes
<1>4. /\ A \in SUBSET (1 .. Len(open)) /\ B \in SUBSET (1 .. Len(open))
      /\ \A i \in DOMAIN open : /\ rec[i].ref = open[i].ref
                                /\ rec[i].price = open[i].price
                                /\ rec[i].shares = Got(r, side, price, q, i)
  <2>1. A \in SUBSET (1 .. Len(open))
    BY <1>1, <1>3, FillRecordsType
  <2>2. B \in SUBSET (1 .. Len(open))
    BY <1>1, <1>3, FillRecordsType
  <2>3. \A i \in DOMAIN open : /\ rec[i].ref = open[i].ref
                               /\ rec[i].price = open[i].price
                               /\ rec[i].shares = Got(r, side, price, q, i)
    BY <1>1, <1>3, <2>1, FillRecordsType
  <2> QED
    BY <2>1, <2>2, <2>3
<1>5. A \cap B = {}
  BY <1>1, <1>3, AheadOnesAre DEF Served
<1>6. Winners(r, side, price, q) = A \cup B
  BY DEF Winners
<1>7. /\ Len(open) \in Nat /\ DOMAIN open = 1 .. Len(open) /\ IsFiniteSet(1 .. Len(open))
  BY <1>1, OwnType
<1>8. A \cup B \subseteq 1 .. Len(open)
  BY <1>4
<1>9. IsFiniteSet(A \cup B)
  BY <1>7, <1>8, FS_Subset
<1> DEFINE R == {rec[i] : i \in DOMAIN open}
<1> HIDE DEF A, B, rec
<1>10. \E p : Keep(rec, A) \in Seq(R) /\ Names(Keep(rec, A), rec, A, p)
  <2>1. PICK p : Lists(Keep(rec, A), rec, A, p)
    BY <1>4, <1>7, KeepNames
  <2>2. Keep(rec, A) \in Seq({rec[i] : i \in A})
    BY <1>4, <1>7, KeepNames
  <2>3. {rec[i] : i \in A} \subseteq R
    BY <1>4, <1>7
  <2>4. Keep(rec, A) \in Seq(R)
    BY <2>2, <2>3, WiderSeq
  <2> QED
    BY <1>4, <1>7, <2>1, <2>4, ListsNames
<1>11. \E p : Keep(rec, B) \in Seq(R) /\ Names(Keep(rec, B), rec, B, p)
  <2>1. PICK p : Lists(Keep(rec, B), rec, B, p)
    BY <1>4, <1>7, KeepNames
  <2>2. Keep(rec, B) \in Seq({rec[i] : i \in B})
    BY <1>4, <1>7, KeepNames
  <2>3. {rec[i] : i \in B} \subseteq R
    BY <1>4, <1>7
  <2>4. Keep(rec, B) \in Seq(R)
    BY <2>2, <2>3, WiderSeq
  <2> QED
    BY <1>4, <1>7, <2>1, <2>4, ListsNames
<1>12. \E pos : Names(Keep(rec, A) \o Keep(rec, B), rec, A \cup B, pos)
  BY <1>5, <1>10, <1>11, NamesConcat
<1>13. \A i \in DOMAIN open : Gains(r, side, price, q)[i] = Got(r, side, price, q, i)
  BY DEF Gains
<1> QED
  BY <1>2, <1>4, <1>6, <1>7, <1>8, <1>9, <1>12, <1>13 DEF rec

\* What the fills report of some of them is what those orders got.
LEMMA FillsSum ==
  ASSUME NEW r, NEW side, NEW price, NEW q, Trades(r, side, price, q),
         NEW pos, Names(fills', FillRecords(r, side, price, q),
                        Winners(r, side, price, q), pos),
         NEW K, NEW T, SamePart(fills', Winners(r, side, price, q), pos, K, T)
  PROVE  SumOver(Shares(fills'), K) = SumOver(Gains(r, side, price, q), T)
<1> DEFINE g == Shares(fills')
           f == Gains(r, side, price, q)
           W == Winners(r, side, price, q)
           rec == FillRecords(r, side, price, q)
<1>1. /\ W \subseteq DOMAIN open /\ IsFiniteSet(W)
      /\ \A i \in DOMAIN open : rec[i].shares = f[i]
  BY FillsAre
<1>2. \A i \in W : f[i] \in Nat
  BY <1>1, GainsAre
<1>3. \A k \in DOMAIN fills' : pos[k] \in W /\ fills'[k] = rec[pos[k]]
  BY DEF Names
<1>4. \A k \in DOMAIN fills' : g[k] = f[pos[k]]
  BY <1>1, <1>3 DEF Shares
<1>5. SameValues(fills', W, pos, f, g)
  BY <1>2, <1>4 DEF SameValues
<1> QED
  BY <1>1, <1>5, NamesSum

-----------------------------------------------------------------------------
(* The steps in which shares are executed. *)

ExecutionResult ==
  \E r, q :
    /\ Touched = {r} /\ exec'.shares = q /\ q \in Nat
    /\ \/ \E side, price : Trades(r, side, price, q)
       \/ fills' = <<>> /\ open' = open

\* A reduction touches only its own order.
LEMMA TouchedIs ==
  ASSUME IInv, NEW r \in LiveRefs, NEW x \in U32, x # 0, x <= refs[r].shares,
         refs' = After(refs, r, x)
  PROVE  Touched = {r}
<1>1. refs \in Table /\ refs[r] \in Order /\ refs[r].shares \in Nat
  BY LiveLocate, MaxU32Assumption DEF IInv, TypeOK, Table, U32
<1>2. \A s \in RefIds : s # r => refs'[s] = refs[s]
  BY <1>1 DEF After, Erase, Table
<1>3. refs'[r] # refs[r]
  <2>1. CASE refs[r].shares = x
    <3>1. refs'[r] = NoOrder
      BY <1>1, <2>1 DEF After, Erase, Table, LiveRefs, LiveIn
    <3> QED
      BY <3>1 DEF LiveRefs, LiveIn
  <2>2. CASE refs[r].shares # x
    <3>1. refs'[r].shares = refs[r].shares - x
      BY <1>1, <2>2 DEF After, Table, LiveRefs, LiveIn, Order
    <3>2. x \in Nat
      BY MaxU32Assumption DEF U32
    <3> QED
      BY <1>1, <3>1, <3>2
  <2> QED
    BY <2>1, <2>2
<1> QED
  BY <1>2, <1>3 DEF Touched, LiveRefs, LiveIn

\* A reduction that publishes an execution hands out the executed shares.
LEMMA ReductionExecutes ==
  ASSUME CleanBefore, NEW m \in FeedReductions, SeesReduction(m), OnReduce(m),
         CleanFeed', exec' # NoExec
  PROVE  ExecutionResult
<1>1. IInv /\ clean'
  BY DEF CleanBefore, CleanFeed
<1>2. /\ m.ref \in LiveRefs /\ m.shares \in U32 /\ m.shares # 0 /\ m.shares \in Nat
      /\ m.shares <= refs[m.ref].shares
      /\ refs' = After(refs, m.ref, m.shares)
      /\ Least(m.shares, refs[m.ref].shares) = m.shares
      /\ m.type # "Cancel" => exec'.shares = m.shares
      /\ m.type = "Cancel" => exec' = NoExec
  BY <1>1, AppliedReduction
<1>3. Touched = {m.ref}
  BY <1>1, <1>2, TouchedIs
<1>4. m.type # "Cancel" /\ exec'.shares = m.shares
  BY <1>2
<1>5. CASE ~Concerns(m.ref)
  <2>1. fills' = <<>> /\ open' = open
    BY <1>5 DEF SeesReduction, NoEffect
  <2> QED
    BY <1>2, <1>3, <1>4, <2>1 DEF ExecutionResult
<1>6. CASE Concerns(m.ref)
  <2>1. PICK side, price : side = refs[m.ref].side /\ price = refs[m.ref].price
    OBVIOUS
  <2>2. Executed(m.ref, side, price, m.shares)
    BY <1>2, <1>4, <1>6, <2>1 DEF SeesReduction
  <2>3. Trades(m.ref, side, price, m.shares)
    BY <1>2, <1>6, <2>1, <2>2 DEF Trades, Concerns
  <2> QED
    BY <1>2, <1>3, <1>4, <2>3 DEF ExecutionResult
<1> QED
  BY <1>5, <1>6

\* No other step publishes an execution and changes an order.
LEMMA ExecutionCases ==
  ASSUME FInv, FillNext, CleanFeed', ExecutionStep
  PROVE  ExecutionResult
<1>1. exec' # NoExec /\ refs' # refs
  BY DEF ExecutionStep, Touched
<1>2. FeedMessage
  <2>1. refs' # refs => ~ UNCHANGED vars
    BY DEF vars
  <2> QED
    BY <1>1, <2>1 DEF FillNext, SubmitLimit, Cancel
<1>3. CleanBefore
  BY <1>2, FeedSound, CleanBeforeIs DEF FeedResult, FInv
<1>4. PICK m \in FeedReductions : SeesReduction(m) /\ OnReduce(m)
  BY <1>1, <1>2 DEF FeedMessage, OnAdd, OnDelete, OnReplace, OnTrade, OnOther
<1> QED
  BY <1>1, <1>3, <1>4, ReductionExecutes

-----------------------------------------------------------------------------
\* An own order is filled by an execution only if it had priority over the
\* executed market order.
LEMMA PriorityStep ==
  ASSUME FInv, FillNext, CleanFeed'
  PROVE  FilledByPriority
<1> SUFFICES ASSUME ExecutionStep,
                    NEW t \in Touched, NEW i \in DOMAIN open, NEW k \in DOMAIN fills',
                    fills'[k].ref = open[i].ref
             PROVE  /\ open[i].side = refs[t].side
                    /\ \/ Superior(open[i].side, open[i].price, refs[t].price)
                       \/ open[i].price = refs[t].price /\ t > open[i].watermark
  BY DEF FilledByPriority
<1>1. PICK r, q : /\ Touched = {r}
                  /\ \/ \E side, price : Trades(r, side, price, q)
                     \/ fills' = <<>> /\ open' = open
  BY ExecutionCases DEF ExecutionResult
<1>2. fills' # <<>>
  OBVIOUS
<1>3. PICK side, price : Trades(r, side, price, q)
  BY <1>1, <1>2
<1>4. PICK pos : Names(fills', FillRecords(r, side, price, q),
                       Winners(r, side, price, q), pos)
  BY <1>3, FillsAre
<1>5. /\ pos[k] \in Winners(r, side, price, q)
      /\ fills'[k] = FillRecords(r, side, price, q)[pos[k]]
  BY <1>4 DEF Names
<1>6. pos[k] \in DOMAIN open /\ fills'[k].ref = open[pos[k]].ref
  BY <1>3, <1>5, FillsAre
<1>7. pos[k] = i
  BY <1>6, RefsApart DEF FInv
<1>8. t = r /\ side = refs[r].side /\ price = refs[r].price
  BY <1>1, <1>3 DEF Trades
<1> QED
  BY <1>3, <1>5, <1>7, <1>8, WinnersHadPriority

\* Under a clean feed no fill jumps the queue: an own order is filled by an
\* execution only if its price is better, or at the same price if it came before
\* the executed market order.
THEOREM FillsKeepPriority == FillSpec => PriceTimePriority
<1>1. FInv /\ [FillNext]_fillVars => [CleanFeed' => FilledByPriority]_fillVars
  BY PriorityStep
<1> QED
  BY <1>1, FillInductive, PTL DEF FillSpec, PriceTimePriority

-----------------------------------------------------------------------------
(* The executed shares are shared. *)

\* The fills at the level are those of the winners there, the others those of the
\* superior ones, and each of the two groups gets at most what was executed.
LEMMA TradeIsShared ==
  ASSUME NEW r, NEW side, NEW price, NEW q, Trades(r, side, price, q)
  PROVE  LET level == {k \in DOMAIN fills' : fills'[k].price = price}
         IN  /\ SumOver(Shares(fills'), level) <= q
             /\ SumOver(Shares(fills'), DOMAIN fills' \ level) <= q
<1> DEFINE level == {k \in DOMAIN fills' : fills'[k].price = price}
           f == Gains(r, side, price, q)
           S == SuperiorOnes(side, price)
           L == BehindOnes(r, side, price)
           W == Winners(r, side, price, q)
           rec == FillRecords(r, side, price, q)
<1>1. /\ FillTypeOK /\ side \in Sides /\ price \in Nat /\ q \in Nat
  BY TradeTypes
<1>2. PICK pos : Names(fills', rec, W, pos)
  BY FillsAre
<1>3. \A k \in DOMAIN fills' : /\ pos[k] \in W /\ fills'[k].price = open[pos[k]].price
  <2>1. \A k \in DOMAIN fills' : pos[k] \in W /\ fills'[k] = rec[pos[k]]
    BY <1>2 DEF Names
  <2> QED
    BY <2>1, FillsAre
<1>4. \A i \in W : /\ i \in DOMAIN open /\ open[i].price \in Nat
                   /\ i \in S => i \notin L /\ open[i].price # price
                   /\ i \in L => open[i].price = price
                   /\ i \in S \cup L
  <2> TAKE i \in W
  <2>1. i \in DOMAIN open
    BY WinnersHadPriority
  <2>2. i \in S \cup L
    BY WinnersHadPriority
  <2>3. open[i].price \in Nat
    BY <1>1, <2>1, OwnType, MaxU32Assumption DEF U32
  <2>4. i \in L => open[i].price = price /\ i \notin S
    BY <1>1, <2>1, AheadOnesAre DEF BehindOnes
  <2>5. i \in S => open[i].price # price
    BY <1>1, <2>3 DEF SuperiorOnes, Superior
  <2> QED
    BY <2>1, <2>2, <2>3, <2>4, <2>5
<1>5. S \in SUBSET DOMAIN open /\ L \in SUBSET DOMAIN open
  BY DEF SuperiorOnes, BehindOnes, LevelOnes
<1>6. \A i \in S : f[i] = FifoShare(q, S, i)
  BY <1>5, GainsAre
<1>7. \A i \in L : f[i] = FifoShare(q, L, i)
  BY <1>5, GainsAre
<1>8. /\ IsFiniteSet(S) /\ SumOver(f, S) <= q
      /\ IsFiniteSet(L) /\ SumOver(f, L) <= q
  BY <1>1, <1>5, <1>6, <1>7, FifoShareSum
<1>9. \A i \in DOMAIN open : f[i] \in Nat
  BY GainsAre
<1>10. \A i \in S \cup L : i \notin W => f[i] = 0
  <2> TAKE i \in S \cup L
  <2>1. i \in S \/ i \in LevelOnes(side, price)
    BY DEF BehindOnes
  <2>2. i \in DOMAIN open /\ f[i] = Got(r, side, price, q, i)
    BY <1>5, GainsAre
  <2> QED
    BY <2>1, <2>2 DEF Winners, Served
<1> HIDE DEF f, S, L, W, rec
<1>11. SamePart(fills', W, pos, level, W \cap L)
  BY <1>3, <1>4 DEF SamePart
<1>12. SamePart(fills', W, pos, DOMAIN fills' \ level, W \cap S)
  BY <1>3, <1>4 DEF SamePart
<1>13. SumOver(Shares(fills'), level) = SumOver(f, W \cap L)
  BY <1>2, <1>11, FillsSum DEF f, W, rec
<1>14. SumOver(Shares(fills'), DOMAIN fills' \ level) = SumOver(f, W \cap S)
  BY <1>2, <1>12, FillsSum DEF f, W, rec
<1>15. SumOver(f, W \cap L) = SumOver(f, L)
  BY <1>5, <1>8, <1>9, <1>10, SumSkip
<1>16. SumOver(f, W \cap S) = SumOver(f, S)
  BY <1>5, <1>8, <1>9, <1>10, SumSkip
<1> QED
  BY <1>8, <1>13, <1>14, <1>15, <1>16

\* In every step that executes shares, each group shares them.
LEMMA ShareStep ==
  ASSUME FInv, FillNext, CleanFeed', ExecutionStep, NEW t \in Touched
  PROVE  LET level == {k \in DOMAIN fills' : fills'[k].price = refs[t].price}
         IN  /\ SumOver(Shares(fills'), level) <= exec'.shares
             /\ SumOver(Shares(fills'), DOMAIN fills' \ level) <= exec'.shares
<1>1. PICK r, q : /\ Touched = {r} /\ exec'.shares = q /\ q \in Nat
                  /\ \/ \E side, price : Trades(r, side, price, q)
                     \/ fills' = <<>> /\ open' = open
  BY ExecutionCases DEF ExecutionResult
<1>2. t = r
  BY <1>1
<1>3. CASE \E side, price : Trades(r, side, price, q)
  <2>1. PICK side, price : Trades(r, side, price, q)
    BY <1>3
  <2>2. price = refs[t].price
    BY <1>2, <2>1 DEF Trades
  <2> QED
    BY <1>1, <2>1, <2>2, TradeIsShared
<1>4. CASE fills' = <<>>
  <2>1. /\ {k \in DOMAIN fills' : fills'[k].price = refs[t].price} = {}
        /\ DOMAIN fills' \ {} = {}
    BY <1>4
  <2>2. SumOver(Shares(fills'), {}) = 0
    BY SumEmpty
  <2> QED
    BY <1>1, <2>1, <2>2
<1> QED
  BY <1>1, <1>3, <1>4

\* Under a clean feed the own orders at one level share the executed quantity, and
\* so do those at superior prices: nobody is filled for shares another one got.
THEOREM ExecutionIsShared == FillSpec => FillsShareExecution
<1>1. FInv /\ [FillNext]_fillVars =>
        [CleanFeed' /\ ExecutionStep =>
           \A r \in Touched :
             LET level == {k \in DOMAIN fills' : fills'[k].price = refs[r].price}
             IN  /\ SumOver(Shares(fills'), level) <= exec'.shares
                 /\ SumOver(Shares(fills'), DOMAIN fills' \ level) <= exec'.shares
        ]_fillVars
  BY ShareStep
<1> QED
  BY <1>1, FillInductive, PTL DEF FillSpec, FillsShareExecution

-----------------------------------------------------------------------------
(* First in, first out. *)

\* The orders that stay are the open ones that did not get all they asked for.
LEMMA StayersAre ==
  ASSUME NEW r, NEW side, NEW price, NEW q, Trades(r, side, price, q)
  PROVE  \E pos :
    /\ \A k \in DOMAIN open' :
         /\ pos[k] \in DOMAIN open /\ open'[k].ref = open[pos[k]].ref
         /\ open'[k].remaining = open[pos[k]].remaining
                                 - Gains(r, side, price, q)[pos[k]]
         /\ open[pos[k]].remaining # Gains(r, side, price, q)[pos[k]]
    /\ \A i \in DOMAIN open :
         open[i].remaining # Gains(r, side, price, q)[i] =>
           \E k \in DOMAIN open' : pos[k] = i
<1> DEFINE s == AfterExec(r, side, price, q)
           I == Staying(r, side, price, q)
           f == Gains(r, side, price, q)
<1>1. /\ FillTypeOK /\ side \in Sides /\ price \in Nat /\ q \in Nat
      /\ Executed(r, side, price, q)
  BY TradeTypes DEF Trades
<1>2. open' = Keep(s, I)
  BY <1>1, ExecutedIs
<1>3. I \in SUBSET DOMAIN open /\ SameOrders(s)
  BY <1>1, AfterExecType
<1>4. \A i \in DOMAIN open : s[i].remaining = open[i].remaining - f[i]
  <2>1. \A i \in DOMAIN open :
          s[i].remaining = open[i].remaining - Got(r, side, price, q, i)
    BY <1>1, AfterExecType
  <2> QED
    BY <2>1, GainsAre
<1>5. \A i \in DOMAIN open : i \in I <=> s[i].remaining # 0
  BY DEF Staying
<1>6. /\ Len(open) \in Nat /\ DOMAIN open = 1 .. Len(open)
      /\ \A i \in DOMAIN open : open[i].remaining \in Nat
  BY <1>1, OwnType
<1>7. \A i \in DOMAIN open : f[i] \in Nat
  BY GainsAre
<1> HIDE DEF s, I, f
<1>8. I \in SUBSET (1 .. Len(open))
  BY <1>3, <1>6
<1>9. PICK pos : Lists(Keep(s, I), s, I, pos)
  BY <1>6, <1>8, KeepNames
<1>10. Keep(s, I) \in Seq({s[i] : i \in I})
  BY <1>6, <1>8, KeepNames
<1>11. Names(open', s, I, pos)
  BY <1>2, <1>6, <1>8, <1>9, <1>10, ListsNames
<1>12. \A i \in DOMAIN open : i \in I <=> open[i].remaining # f[i]
  BY <1>4, <1>5, <1>6, <1>7
<1>13. \A k \in DOMAIN open' : pos[k] \in I /\ open'[k] = s[pos[k]]
  BY <1>11 DEF Names
<1>14. \A k \in DOMAIN open' :
         /\ pos[k] \in DOMAIN open /\ open'[k].ref = open[pos[k]].ref
         /\ open'[k].remaining = open[pos[k]].remaining - f[pos[k]]
         /\ open[pos[k]].remaining # f[pos[k]]
  BY <1>3, <1>4, <1>12, <1>13 DEF SameOrders
<1>15. \A i \in DOMAIN open :
         open[i].remaining # f[i] => \E k \in DOMAIN open' : pos[k] = i
  BY <1>11, <1>12 DEF Names
<1> QED
  BY <1>14, <1>15 DEF f

\* An order that wins leaves nothing of an earlier order at its level.
LEMMA EarlierGetAll ==
  ASSUME NEW r, NEW side, NEW price, NEW q, Trades(r, side, price, q),
         NEW i \in Winners(r, side, price, q), NEW j \in DOMAIN open, Later(i, j)
  PROVE  Gains(r, side, price, q)[j] = open[j].remaining
<1>1. /\ FillTypeOK /\ OwnSound /\ side \in Sides /\ price \in Nat /\ r \in Nat
      /\ q \in Nat
  BY TradeTypes
<1>2. /\ j < i /\ open[i].side = open[j].side /\ open[i].price = open[j].price
      /\ i \in DOMAIN open
  <2>1. i \in DOMAIN open /\ i \in Nat /\ j \in Nat
    BY <1>1, WinnersHadPriority, OwnType
  <2> QED
    BY <2>1 DEF Later, SameLevel
<1>3. open[i].watermark \in Nat /\ open[j].watermark \in Nat
      /\ open[j].watermark <= open[i].watermark
  BY <1>1, <1>2, OwnType DEF OwnSound, Ordered
<1>4. Gains(r, side, price, q)[i] # 0
  BY <1>2, GainsAre DEF Winners, Served
<1>5. SuperiorOnes(side, price) \in SUBSET DOMAIN open
      /\ BehindOnes(r, side, price) \in SUBSET DOMAIN open
  BY DEF SuperiorOnes, BehindOnes, LevelOnes
<1>6. CASE i \in SuperiorOnes(side, price)
  <2>1. j \in SuperiorOnes(side, price)
    BY <1>2, <1>6 DEF SuperiorOnes
  <2>2. FifoShare(q, SuperiorOnes(side, price), i) # 0
    BY <1>2, <1>4, <1>6, GainsAre
  <2>3. FifoShare(q, SuperiorOnes(side, price), j) = open[j].remaining
    BY <1>1, <1>2, <1>5, <1>6, <2>1, <2>2, FifoShareFirst
  <2> QED
    BY <2>1, <2>3, GainsAre
<1>7. CASE i \in BehindOnes(r, side, price) /\ r > open[i].watermark
  <2>1. open[j].side = side /\ open[j].price = price /\ ~(r <= open[j].watermark)
    <3>1. open[i].side = side /\ open[i].price = price
      BY <1>7 DEF BehindOnes, LevelOnes, SameLevel
    <3> QED
      BY <1>1, <1>2, <1>3, <1>7, <3>1
  <2>2. j \in BehindOnes(r, side, price)
    BY <1>1, <2>1, AheadOnesAre DEF BehindOnes
  <2>3. FifoShare(q, BehindOnes(r, side, price), i) # 0
    BY <1>2, <1>4, <1>7, GainsAre
  <2>4. FifoShare(q, BehindOnes(r, side, price), j) = open[j].remaining
    BY <1>1, <1>2, <1>5, <1>7, <2>2, <2>3, FifoShareFirst
  <2> QED
    BY <2>2, <2>4, GainsAre
<1> QED
  BY <1>6, <1>7, WinnersHadPriority

\* What the fills and the orders that stay say of order i.
GetsItsShare(i) ==
  LET mine == {k \in DOMAIN fills' : fills'[k].ref = open[i].ref}
      got == SumOver(Shares(fills'), mine)
      left == {k \in DOMAIN open' : open'[k].ref = open[i].ref}
  IN  /\ mine # {} =>
           \A j \in DOMAIN open : Later(i, j) =>
             \A k \in DOMAIN open' : open'[k].ref # open[j].ref
      /\ IF left = {} THEN got = open[i].remaining
         ELSE \A k \in left : open'[k].remaining = open[i].remaining - got

\* An execution fills own orders first in, first out.
LEMMA TradeIsFifo ==
  ASSUME NEW r, NEW side, NEW price, NEW q, Trades(r, side, price, q),
         NEW i \in DOMAIN open
  PROVE  GetsItsShare(i)
<1> DEFINE mine == {k \in DOMAIN fills' : fills'[k].ref = open[i].ref}
           got == SumOver(Shares(fills'), mine)
           left == {k \in DOMAIN open' : open'[k].ref = open[i].ref}
           f == Gains(r, side, price, q)
           W == Winners(r, side, price, q)
           rec == FillRecords(r, side, price, q)
<1>1. FillTypeOK /\ OwnSound
  BY TradeTypes
<1>2. PICK pos : Names(fills', rec, W, pos)
  BY FillsAre
<1>3. /\ W \subseteq DOMAIN open /\ IsFiniteSet(W)
      /\ \A j \in DOMAIN open : rec[j].ref = open[j].ref
  BY FillsAre
<1>4. \A k \in DOMAIN fills' : pos[k] \in W /\ fills'[k] = rec[pos[k]]
  BY <1>2 DEF Names
<1>5. \A k \in DOMAIN fills' : k \in mine <=> pos[k] = i
  <2> TAKE k \in DOMAIN fills'
  <2>1. pos[k] \in DOMAIN open /\ fills'[k].ref = open[pos[k]].ref
    BY <1>3, <1>4
  <2> QED
    BY <1>1, <2>1, RefsApart
<1>6. SamePart(fills', W, pos, mine, W \cap {i})
  BY <1>4, <1>5 DEF SamePart
<1>7. got = SumOver(f, W \cap {i})
  BY <1>2, <1>6, FillsSum
<1>8. f[i] \in Nat /\ open[i].remaining \in Nat
  BY <1>1, GainsAre, OwnType
<1>9. got = f[i]
  <2>1. CASE i \in W
    <3>1. W \cap {i} = {i} /\ {i} \ {i} = {}
      BY <2>1
    <3>2. IsFiniteSet({i})
      BY FS_Singleton
    <3>3. SumOver(f, {i}) = SumOver(f, {i} \ {i}) + f[i]
      BY <1>8, <3>2, SumWith
    <3>4. SumOver(f, {}) = 0
      BY SumEmpty
    <3>5. SumOver(f, {i} \ {i}) = SumOver(f, {})
      BY <3>1
    <3> HIDE DEF f
    <3>6. SumOver(f, {i}) = f[i]
      BY <1>8, <3>3, <3>4, <3>5
    <3>7. SumOver(f, W \cap {i}) = SumOver(f, {i})
      BY <3>1
    <3> HIDE DEF got
    <3> QED
      BY <1>7, <3>6, <3>7
  <2>2. CASE i \notin W
    <3>1. W \cap {i} = {}
      BY <2>2
    <3>2. SumOver(f, {}) = 0
      BY SumEmpty
    <3>3. f[i] = 0
      <4>1. i \in SuperiorOnes(side, price) \/ i \in LevelOnes(side, price) => f[i] = 0
        BY <2>2, GainsAre DEF Winners, Served
      <4>2. i \notin SuperiorOnes(side, price) /\ i \notin LevelOnes(side, price) =>
              f[i] = 0
        BY DEF Gains, Got, Through, AheadOnes, BehindOnes
      <4> QED
        BY <4>1, <4>2
    <3> QED
      BY <1>7, <3>1, <3>2, <3>3
  <2> QED
    BY <2>1, <2>2
<1>10. PICK at :
    /\ \A k \in DOMAIN open' :
         /\ at[k] \in DOMAIN open /\ open'[k].ref = open[at[k]].ref
         /\ open'[k].remaining = open[at[k]].remaining - f[at[k]]
         /\ open[at[k]].remaining # f[at[k]]
    /\ \A j \in DOMAIN open :
         open[j].remaining # f[j] => \E k \in DOMAIN open' : at[k] = j
  BY StayersAre
<1> HIDE DEF f, W, rec
<1>11. \A j \in DOMAIN open : \A k \in DOMAIN open' :
         open'[k].ref = open[j].ref <=> at[k] = j
  BY <1>1, <1>10, RefsApart
<1>12. mine # {} => i \in W
  BY <1>4, <1>5
<1>13. ASSUME mine # {}, NEW j \in DOMAIN open, Later(i, j), NEW k \in DOMAIN open'
       PROVE  open'[k].ref # open[j].ref
  <2>1. f[j] = open[j].remaining
    BY <1>12, <1>13, EarlierGetAll DEF f, W
  <2> QED
    BY <1>10, <1>11, <2>1
<1>14. left = {} => got = open[i].remaining
  BY <1>9, <1>10, <1>11
<1>15. \A k \in left : open'[k].remaining = open[i].remaining - got
  BY <1>9, <1>10, <1>11
<1> HIDE DEF got
<1> QED
  BY <1>13, <1>14, <1>15 DEF GetsItsShare, got

\* Nothing traded: nobody got anything.
LEMMA IdleIsFifo ==
  ASSUME FillTypeOK, OwnSound, fills' = <<>>, open' = open, NEW i \in DOMAIN open
  PROVE  GetsItsShare(i)
<1> DEFINE mine == {k \in DOMAIN fills' : fills'[k].ref = open[i].ref}
           left == {k \in DOMAIN open' : open'[k].ref = open[i].ref}
<1>1. mine = {}
  OBVIOUS
<1>2. SumOver(Shares(fills'), {}) = 0
  BY SumEmpty
<1>3. \A k \in left : k = i
  BY RefsApart
<1>4. i \in left /\ open[i].remaining \in Nat
  BY OwnType
<1>5. \A k \in left : open'[k].remaining = open[i].remaining - 0
  BY <1>3, <1>4
<1>6. left # {}
  BY <1>4
<1> HIDE DEF mine, left
<1>7. \A k \in left : open'[k].remaining = open[i].remaining - SumOver(Shares(fills'), mine)
  BY <1>1, <1>2, <1>5
<1> QED
  BY <1>1, <1>6, <1>7 DEF GetsItsShare, mine, left

\* So does every step that executes shares.
LEMMA FifoStep ==
  ASSUME FInv, FillNext, CleanFeed', ExecutionStep, NEW i \in DOMAIN open
  PROVE  GetsItsShare(i)
BY ExecutionCases, TradeIsFifo, IdleIsFifo DEF ExecutionResult, FInv

\* Under a clean feed own orders at one level are filled first in, first out, and
\* an order gives up exactly the shares its fills report.
THEOREM OwnOrdersFifo == FillSpec => OwnFifo
<1>1. FInv /\ [FillNext]_fillVars =>
        [CleanFeed' /\ ExecutionStep =>
           \A i \in DOMAIN open :
             LET mine == {k \in DOMAIN fills' : fills'[k].ref = open[i].ref}
                 got == SumOver(Shares(fills'), mine)
                 left == {k \in DOMAIN open' : open'[k].ref = open[i].ref}
             IN  /\ mine # {} =>
                      \A j \in DOMAIN open : Later(i, j) =>
                        \A k \in DOMAIN open' : open'[k].ref # open[j].ref
                 /\ IF left = {} THEN got = open[i].remaining
                    ELSE \A k \in left :
                           open'[k].remaining = open[i].remaining - got
        ]_fillVars
  BY FifoStep DEF GetsItsShare
<1> QED
  BY <1>1, FillInductive, PTL DEF FillSpec, OwnFifo

-----------------------------------------------------------------------------
(* An own order that trades at once. *)

\* Nothing is displayed beyond the cached best price.
LEMMA BestBounds ==
  ASSUME IInv, BestIsExtreme, NEW side \in Sides, NEW p \in Prices,
         Displayed(side, p) # 0
  PROVE  /\ BookOf(Locate).best[side] # 0
         /\ ~Superior(side, p, BookOf(Locate).best[side])
<1> DEFINE sh == BookOf(Locate).shares[side]
           N == NonEmpty(sh)
           best == BookOf(Locate).best[side]
<1>1. best = BestPrice(side, sh)
  BY FillAssumption DEF BestIsExtreme
<1>2. p \in N /\ N \in SUBSET Prices
  BY DEF Displayed, NonEmpty
<1>3. \A q \in Prices : q \in Nat /\ q # 0
  BY PricesType
<1> HIDE DEF N, best, sh
<1>4. CASE side = BUY
  <2>1. best = Highest(N)
    BY <1>1, <1>4 DEF BestPrice, N
  <2>2. best \in N /\ p <= best
    BY <1>2, <2>1, HighestExtreme
  <2> QED
    BY <1>2, <1>3, <1>4, <2>2 DEF Superior, best
<1>5. CASE side # BUY
  <2>1. best = Lowest(N)
    BY <1>1, <1>5 DEF BestPrice, N
  <2>2. best \in N /\ best <= p
    BY <1>2, <2>1, LowestExtreme
  <2> QED
    BY <1>2, <1>3, <1>5, <2>2 DEF Superior, best
<1> QED
  BY <1>4, <1>5

\* So what an own order can trade with is all that is displayed up to its limit.
LEMMA MarketableIs ==
  ASSUME IInv, BestIsExtreme, NEW side \in Sides, NEW price, NEW i \in Prices
  PROVE  Marketable(side, price)[i]
           = IF Superior(side, WalkPrice(side, i), price) THEN 0
             ELSE Displayed(Opposite(side), WalkPrice(side, i))
<1>1. Opposite(side) \in Sides /\ WalkPrice(side, i) \in Prices
  BY WalkType DEF Opposite, Sides
<1>2. PICK p \in Prices : p = WalkPrice(side, i)
  BY <1>1
<1>3. Displayed(Opposite(side), p) # 0 =>
        /\ BookOf(Locate).best[Opposite(side)] # 0
        /\ ~Superior(Opposite(side), p, BookOf(Locate).best[Opposite(side)])
  BY <1>1, BestBounds
<1> QED
  BY <1>2, <1>3 DEF Marketable

\* The walk meets every price once, and better ones earlier.
LEMMA WalkOrder ==
  ASSUME NEW side \in Sides, NEW i \in Prices, NEW p \in Prices
  PROVE  /\ WalkPrice(side, WalkPrice(side, p)) = p
         /\ WalkPrice(side, i) = p <=> i = WalkPrice(side, p)
         /\ Superior(Opposite(side), p, WalkPrice(side, i)) =>
              /\ WalkPrice(side, p) < i
              /\ \A price \in Nat :
                   Superior(side, p, price) => Superior(side, WalkPrice(side, i), price)
BY PriceLevelsAssumption, PricesType, BuyIsNotSell
   DEF WalkPrice, Superior, Opposite, Prices, MaxPrice, Sides

SweepContext(side, price, shares) ==
  /\ IInv /\ FillTypeOK /\ BestIsExtreme
  /\ side \in Sides /\ price \in U32 /\ shares \in U32
  /\ next_ref \in Nat \ {0}
  /\ SubmitLimit(side, price, shares)

FillsAt(p) == {k \in DOMAIN fills' : fills'[k].price = p}

\* What the fills report at price p is what the sweep took there.
LEMMA SweptAt ==
  ASSUME NEW side, NEW price, NEW shares, SweepContext(side, price, shares),
         NEW p \in Prices
  PROVE  SumOver(Shares(fills'), FillsAt(p))
           = Takings(side, price, shares)[WalkPrice(side, p)]
<1> DEFINE I == Taken(side, price, shares)
           f == Takings(side, price, shares)
           all == SweepRecords(side, price, shares)
           j == WalkPrice(side, p)
<1>1. /\ IInv /\ FillTypeOK /\ side \in Sides /\ price \in U32 /\ shares \in U32
      /\ next_ref \in Nat \ {0} /\ fills' = SweepFills(side, price, shares)
  BY SubmitCases DEF SweepContext
<1>2. PICK pos : Names(fills', all, I, pos)
  BY <1>1, SweepNames
<1>3. I \in SUBSET (1 .. MaxPrice) /\ Prices = 1 .. MaxPrice
  BY <1>1, SweepNames, PricesType
<1>4. \A i \in Prices : all[i].price = WalkPrice(side, i)
  BY <1>1, SweepRecordsType
<1>5. \A k \in DOMAIN fills' : pos[k] \in I /\ fills'[k] = all[pos[k]]
  BY <1>2 DEF Names
<1>6. \A k \in DOMAIN fills' : fills'[k].price = WalkPrice(side, pos[k])
  BY <1>3, <1>4, <1>5
<1>7. \A k \in DOMAIN fills' : k \in FillsAt(p) <=> pos[k] = j
  BY <1>1, <1>3, <1>5, <1>6, WalkOrder DEF FillsAt
<1>8. j \in 1 .. MaxPrice
  BY <1>3, WalkType
<1>0. f \in [1 .. MaxPrice -> Nat] /\ \A i \in 1 .. MaxPrice : i \in I <=> f[i] # 0
  BY <1>1, TakingsType
<1> HIDE DEF I, f, all, j
<1>9. f[j] \in Nat /\ (j \in I <=> f[j] # 0)
  BY <1>0, <1>8
<1>10. SamePart(fills', I, pos, FillsAt(p), I \cap {j})
  BY <1>5, <1>7 DEF SamePart, FillsAt
<1>11. SumOver(Shares(fills'), FillsAt(p)) = SumOver(f, I \cap {j})
  BY <1>1, <1>2, <1>10, SweepSum DEF I, f, all
<1>12. SumOver(f, {}) = 0
  BY SumEmpty
<1>13. CASE j \in I
  <2>1. IsFiniteSet({j})
    BY FS_Singleton
  <2>2. SumOver(f, {j}) = SumOver(f, {j} \ {j}) + f[j]
    BY <1>9, <2>1, SumWith
  <2>3. SumOver(f, {j} \ {j}) = SumOver(f, {}) /\ I \cap {j} = {j}
    BY <1>13
  <2>4. SumOver(f, {j}) = f[j]
    BY <1>9, <1>12, <2>2, <2>3
  <2> QED
    BY <1>11, <2>3, <2>4 DEF f, j
<1>14. CASE j \notin I
  <2>1. I \cap {j} = {}
    BY <1>14
  <2> QED
    BY <1>9, <1>11, <1>12, <1>14, <2>1 DEF f, j
<1> QED
  BY <1>13, <1>14

\* Everything displayed at p was taken.
TakesAll(side, p) ==
  SumOver(Shares(fills'), FillsAt(p)) = Displayed(Opposite(side), p)

\* A fill takes no more than is displayed, and leaves nothing at a better price.
LEMMA SweepTakesBestFirst ==
  ASSUME NEW side, NEW price, NEW shares, SweepContext(side, price, shares),
         NEW k \in DOMAIN fills'
  PROVE  /\ fills'[k].side = side
         /\ fills'[k].shares <= Displayed(Opposite(side), fills'[k].price)
         /\ \A p \in Prices :
              Superior(Opposite(side), p, fills'[k].price) => TakesAll(side, p)
<1> DEFINE I == Taken(side, price, shares)
           f == Takings(side, price, shares)
           all == SweepRecords(side, price, shares)
           asks == Marketable(side, price)
<1>1. /\ IInv /\ FillTypeOK /\ side \in Sides /\ price \in U32 /\ shares \in U32
      /\ next_ref \in Nat \ {0} /\ fills' = SweepFills(side, price, shares)
      /\ BestIsExtreme
  BY SubmitCases DEF SweepContext
<1>2. PICK pos : Names(fills', all, I, pos)
  BY <1>1, SweepNames
<1>3. I \in SUBSET (1 .. MaxPrice) /\ Prices = 1 .. MaxPrice /\ MaxPrice \in Nat
  BY <1>1, SweepNames, PricesType
<1>4. PICK i \in I : i = pos[k] /\ fills'[k] = all[i]
  BY <1>2 DEF Names
<1>5. i \in Prices /\ i \in 1 .. MaxPrice
  BY <1>3
<1>6. /\ fills'[k].side = side /\ fills'[k].price = WalkPrice(side, i)
      /\ fills'[k].shares = InTurn(shares, asks, i)
      /\ InTurn(shares, asks, i) \in Nat /\ InTurn(shares, asks, i) <= asks[i]
  BY <1>1, <1>4, <1>5, SweepRecordsType
<1>7. f[i] = InTurn(shares, asks, i) /\ f[i] # 0
  BY <1>1, <1>5, TakingsType
<1>8. asks \in [1 .. MaxPrice -> Nat] /\ shares \in Nat /\ price \in Nat
  BY <1>1, MarketableType, MaxU32Assumption DEF U32
<1>9. asks[i] # 0
  BY <1>5, <1>6, <1>7, <1>8
<1>10. /\ ~Superior(side, WalkPrice(side, i), price)
       /\ asks[i] = Displayed(Opposite(side), WalkPrice(side, i))
  BY <1>1, <1>5, <1>9, MarketableIs
<1>11. ASSUME NEW p \in Prices, Superior(Opposite(side), p, fills'[k].price)
       PROVE  TakesAll(side, p)
  <2>1. PICK j : j = WalkPrice(side, p)
    OBVIOUS
  <2>2. j \in Prices /\ j \in 1 .. MaxPrice
    BY <1>3, <2>1, WalkType
  <2>3. j < i /\ ~Superior(side, p, price) /\ WalkPrice(side, j) = p
    BY <1>1, <1>5, <1>6, <1>8, <1>10, <1>11, <2>1, WalkOrder
  <2>4. InTurn(shares, asks, i) # 0
    BY <1>7
  <2> HIDE DEF asks
  <2>5. InTurn(shares, asks, j) = asks[j]
    BY <1>3, <1>5, <1>8, <2>2, <2>3, <2>4, InTurnFifo
  <2>6. asks[j] = Displayed(Opposite(side), p)
    BY <1>1, <2>2, <2>3, MarketableIs DEF asks
  <2>7. f[j] = InTurn(shares, asks, j)
    BY <1>1, <2>2, TakingsType DEF asks
  <2>8. SumOver(Shares(fills'), FillsAt(p)) = f[j]
    BY <2>1, SweptAt
  <2> QED
    BY <2>5, <2>6, <2>7, <2>8 DEF TakesAll
<1> QED
  BY <1>6, <1>10, <1>11

\* An order rests only when nothing is left that it could trade with.
LEMMA RestsAfterAll ==
  ASSUME NEW side, NEW price, NEW shares, SweepContext(side, price, shares),
         Len(open') > Len(open)
  PROVE  /\ open'[Len(open')].side = side /\ open'[Len(open')].price = price
         /\ \A p \in Prices : Superior(side, p, price) \/ TakesAll(side, p)
<1>1. /\ IInv /\ FillTypeOK /\ side \in Sides /\ price \in U32 /\ shares \in U32
      /\ next_ref \in Nat \ {0} /\ BestIsExtreme
      /\ SubmitLimit(side, price, shares)
  BY DEF SweepContext
<1>2. fills' = SweepFills(side, price, shares)
  BY <1>1, SubmitCases
<1>3. Len(open) \in Nat /\ open \in Seq(OwnOrder)
  BY <1>1, OwnType DEF FillTypeOK
<1>4. open' # open
  BY <1>3
<1>5. PICK left \in U32 \ {0} :
        /\ open' = Append(open, Rested(side, price, left))
        /\ left = shares - SumOver(Shares(fills'), DOMAIN fills')
  BY <1>1, <1>4, SubmitCases
<1>6. open'[Len(open')] = Rested(side, price, left)
  BY <1>3, <1>5, AppendIs
<1>7. /\ Rested(side, price, left).side = side
      /\ Rested(side, price, left).price = price
  BY DEF Rested
<1>8. PICK sum : sum = SumOver(Shares(fills'), DOMAIN fills')
  OBVIOUS
<1>9. /\ sum \in Nat
      /\ sum # shares =>
           \A i \in 1 .. MaxPrice :
             Takings(side, price, shares)[i] = Marketable(side, price)[i]
  BY <1>1, <1>2, <1>8, SweepType
<1>10. sum # shares
  BY <1>1, <1>5, <1>8, <1>9, MaxU32Assumption DEF U32
<1>11. ASSUME NEW p \in Prices, ~Superior(side, p, price) PROVE TakesAll(side, p)
  <2>1. PICK j : j = WalkPrice(side, p)
    OBVIOUS
  <2>2. j \in Prices /\ j \in 1 .. MaxPrice /\ WalkPrice(side, j) = p
    BY <1>1, <2>1, WalkType, WalkOrder, PricesType
  <2>3. Takings(side, price, shares)[j] = Marketable(side, price)[j]
    BY <1>9, <1>10, <2>2
  <2>4. Marketable(side, price)[j] = Displayed(Opposite(side), p)
    BY <1>1, <1>11, <2>2, MarketableIs
  <2>5. SumOver(Shares(fills'), FillsAt(p)) = Takings(side, price, shares)[j]
    BY <2>1, SweptAt
  <2> QED
    BY <2>3, <2>4, <2>5 DEF TakesAll
<1> QED
  BY <1>6, <1>7, <1>11

\* The step of the property, with its LET names spelt out.
SweepStep ==
  /\ \A k \in DOMAIN fills' :
       /\ fills'[k].shares <= Displayed(Opposite(fills'[k].side), fills'[k].price)
       /\ \A p \in Prices :
            Superior(Opposite(fills'[k].side), p, fills'[k].price) =>
              TakesAll(fills'[k].side, p)
  /\ Len(open') > Len(open) =>
       \A p \in Prices :
         \/ Superior(open'[Len(open')].side, p, open'[Len(open')].price)
         \/ TakesAll(open'[Len(open')].side, p)

\* Every step that takes a new own reference sweeps best first.
LEMMA SubmissionSweeps ==
  ASSUME FInv, BestIsExtreme, FillNext, next_ref' # next_ref
  PROVE  SweepStep
<1>1. ~FeedMessage
  BY FeedSound DEF FInv, FeedResult
<1>2. PICK side \in Sides, price \in OwnPrices, shares \in OwnQtys :
        next_ref <= MaxSubmits /\ SubmitLimit(side, price, shares)
  BY <1>1 DEF FillNext, Cancel
<1>3. next_ref \in Nat \ {0}
  BY <1>2, TypeIs, FillAssumption DEF FInv
<1>4. SweepContext(side, price, shares)
  BY <1>2, <1>3, FillAssumption DEF SweepContext, FInv
<1> QED
  BY <1>4, SweepTakesBestFirst, RestsAfterAll DEF SweepStep

\* A step of the simulation is one of the book or leaves it alone.
LEMMA FillNextHandles == [FillNext]_fillVars => [Handles]_vars
<1>1. FeedMessage => [Handles]_vars
  BY FeedHandles, NextHandles
<1>2. FillNext => FeedMessage \/ UNCHANGED vars
  BY DEF FillNext, SubmitLimit, Cancel
<1>3. UNCHANGED fillVars => UNCHANGED vars
  BY DEF fillVars
<1> QED
  BY <1>1, <1>2, <1>3

\* As long as no level's total has its top bit set, a vectorised build sweeps the
\* displayed levels best first.
THEOREM VectorSweepsBestFirst == FillSpec /\ []TotalsFitVector => SweepIsBestFirst
<1>1. FillInit => BestIsExtreme
  BY BestInit DEF FillInit
<1>2. FInv /\ BestIsExtreme /\ TotalsFitVector /\ [FillNext]_fillVars => BestIsExtreme'
  BY FillNextHandles, BestStep DEF FInv
<1>3. FInv /\ BestIsExtreme /\ [FillNext]_fillVars =>
        [next_ref' # next_ref =>
           LET At(p) == {k \in DOMAIN fills' : fills'[k].price = p}
               Takes(side, p) ==
                 SumOver(Shares(fills'), At(p)) = Displayed(Opposite(side), p)
               rests == Len(open') > Len(open)
               rest == open'[Len(open')]
           IN  /\ \A k \in DOMAIN fills' :
                    LET f == fills'[k]
                    IN  /\ f.shares <= Displayed(Opposite(f.side), f.price)
                        /\ \A p \in Prices :
                             Superior(Opposite(f.side), p, f.price) => Takes(f.side, p)
               /\ rests => \A p \in Prices :
                             Superior(rest.side, p, rest.price) \/ Takes(rest.side, p)
        ]_fillVars
  BY SubmissionSweeps DEF SweepStep, TakesAll, FillsAt
<1> QED
  BY <1>1, <1>2, <1>3, FillInductive, PTL DEF FillSpec, SweepIsBestFirst

\* The scalar build always does: a marketable own order takes a level only after
\* all that is displayed at every better one, never more than there is, and rests
\* only when nothing is left that it could trade with.
THEOREM SweepsBestFirst ==
  ASSUME ~Simd
  PROVE  FillSpec => SweepIsBestFirst
<1>1. TotalsFitVector
  BY DEF TotalsFitVector, VectorSafe
<1> QED
  BY <1>1, VectorSweepsBestFirst, PTL
=============================================================================
