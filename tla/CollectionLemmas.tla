-------------------------- MODULE CollectionLemmas --------------------------
(***************************************************************************)
(* Facts about numbers and sequences that the proofs about the components  *)
(* rest on and the library does not state: least elements and induction    *)
(* for a set of numbers or of finite sets; what appending to, taking from  *)
(* and removing from a sequence does to its elements and their places; how *)
(* the sum of the values of a function changes with the function; and what *)
(* a loop keeps.                                                           *)
(***************************************************************************)
EXTENDS Integers, SequencesExt, SequenceTheorems, FiniteSetTheorems,
        WellFoundedInduction, TLAPS

(* A set of naturals that is not empty has a least element.                *)
LEMMA LeastElement ==
    ASSUME NEW T \in SUBSET Nat, T # {}
    PROVE  \E x \in T : \A y \in T : x <= y
<1> DEFINE R == {ss \in Nat \X Nat : ss[1] < ss[2]}
<1>1. R = OpToRel(<, Nat)
  BY Zenon DEF OpToRel
<1>2. IsWellFoundedOn(R, Nat)
  BY <1>1, NatLessThanWellFounded, Zenon
<1>3. PICK x \in T : \A y \in T : <<y, x>> \notin R
  BY <1>2, WFMin
<1>4. \A y \in Nat : y < x => <<y, x>> \in R
  BY <1>3
<1>5. ASSUME NEW y \in T PROVE ~(y < x)
  BY <1>3, <1>4
<1> QED
  BY <1>5

(* Induction over the naturals, for the set of those that have a property. *)
LEMMA SetInduction ==
    ASSUME NEW T, 0 \in T, \A n \in Nat : n \in T => n + 1 \in T
    PROVE  Nat \subseteq T
<1> SUFFICES ASSUME Nat \ T # {} PROVE FALSE
  OBVIOUS
<1>1. PICK x \in Nat \ T : \A y \in Nat \ T : x <= y
  BY LeastElement
<1>2. x - 1 \in Nat /\ x - 1 \notin Nat \ T
  BY <1>1
<1> QED
  BY <1>1, <1>2

-----------------------------------------------------------------------------
(* The elements of a sequence, by their places.                            *)
LEMMA ElementOf ==
    ASSUME NEW S, NEW s \in Seq(S), NEW e
    PROVE  /\ e \in ToSet(s) <=> \E i \in 1..Len(s) : s[i] = e
           /\ Contains(s, e) <=> e \in ToSet(s)
           /\ ToSet(s) \subseteq S
  BY DEF ToSet, Contains

LEMMA AppendElements ==
    ASSUME NEW S, NEW s \in Seq(S), NEW e \in S
    PROVE  /\ Append(s, e) \in Seq(S)
           /\ DOMAIN Append(s, e) = 1..(Len(s) + 1)
           /\ \A i \in DOMAIN s : Append(s, e)[i] = s[i]
           /\ Append(s, e)[Len(s) + 1] = e
           /\ ToSet(Append(s, e)) = ToSet(s) \union {e}
           /\ Append(s, e) # <<>>
           /\ s # <<>> => Head(Append(s, e)) = Head(s)
<1>1. /\ Append(s, e) \in Seq(S)
      /\ DOMAIN Append(s, e) = 1..(Len(s) + 1)
      /\ \A i \in 1..Len(s) : Append(s, e)[i] = s[i]
      /\ Append(s, e)[Len(s) + 1] = e
      /\ Append(s, e) # <<>>
      /\ s # <<>> => Head(Append(s, e)) = Head(s)
  BY AppendProperties, HeadTailAppend
<1>2. ToSet(Append(s, e)) = ToSet(s) \union {e}
  <2>1. ASSUME NEW x \in ToSet(Append(s, e)) PROVE x \in ToSet(s) \union {e}
    BY <1>1, <2>1 DEF ToSet
  <2>2. ASSUME NEW x \in ToSet(s) PROVE x \in ToSet(Append(s, e))
    BY <1>1, <2>2 DEF ToSet
  <2>3. e \in ToSet(Append(s, e))
    BY <1>1 DEF ToSet
  <2> QED
    BY <2>1, <2>2, <2>3
<1> QED
  BY <1>1, <1>2

(* Adding to the keys of a Map one that is not there repeats none.         *)
LEMMA AppendNew ==
    ASSUME NEW S, NEW s \in Seq(S), NEW e \in S, IsInjective(s), e \notin ToSet(s)
    PROVE  IsInjective(Append(s, e))
<1>1. /\ DOMAIN s = 1..Len(s) /\ Len(s) \in Nat
      /\ \A i \in DOMAIN s : s[i] # e
      /\ \A i, j \in DOMAIN s : s[i] = s[j] => i = j
  BY DEF ToSet, IsInjective
<1>2. /\ DOMAIN Append(s, e) = 1..(Len(s) + 1)
      /\ \A i \in DOMAIN s : Append(s, e)[i] = s[i]
      /\ Append(s, e)[Len(s) + 1] = e
  BY AppendElements
<1>3. ASSUME NEW i \in 1..(Len(s) + 1), NEW j \in 1..(Len(s) + 1),
             Append(s, e)[i] = Append(s, e)[j]
      PROVE  i = j
  <2>1. CASE i \in DOMAIN s /\ j \in DOMAIN s
    BY <1>1, <1>2, <1>3, <2>1
  <2>2. CASE i = Len(s) + 1 \/ j = Len(s) + 1
    BY <1>1, <1>2, <1>3, <2>2
  <2> QED
    BY <1>1, <2>1, <2>2
<1> QED
  BY <1>2, <1>3 DEF IsInjective

LEMMA TailElements ==
    ASSUME NEW S, NEW s \in Seq(S), s # <<>>
    PROVE  /\ Tail(s) \in Seq(S)
           /\ Head(s) \in S
           /\ Head(s) = s[1]
           /\ Len(s) \in Nat \ {0}
           /\ DOMAIN Tail(s) = 1..(Len(s) - 1)
           /\ \A i \in DOMAIN Tail(s) : Tail(s)[i] = s[i + 1]
           /\ ToSet(s) = {Head(s)} \union ToSet(Tail(s))
<1>1. /\ Tail(s) \in Seq(S)
      /\ Head(s) \in S
      /\ Head(s) = s[1]
      /\ Len(s) \in Nat \ {0}
      /\ DOMAIN Tail(s) = 1..(Len(s) - 1)
      /\ \A i \in DOMAIN Tail(s) : Tail(s)[i] = s[i + 1]
  OBVIOUS
<1>2. ToSet(s) = {Head(s)} \union ToSet(Tail(s))
  <2>1. ASSUME NEW i \in 1..Len(s) PROVE s[i] \in {Head(s)} \union ToSet(Tail(s))
    <3>1. i # 1 => i - 1 \in DOMAIN Tail(s) /\ Tail(s)[i - 1] = s[i]
      BY <1>1
    <3> QED
      BY <1>1, <3>1 DEF ToSet
  <2>2. ASSUME NEW i \in DOMAIN Tail(s) PROVE Tail(s)[i] \in ToSet(s)
    BY <1>1 DEF ToSet
  <2>3. Head(s) \in ToSet(s)
    BY <1>1 DEF ToSet
  <2>4. ToSet(s) \subseteq {Head(s)} \union ToSet(Tail(s))
    BY <2>1 DEF ToSet
  <2>5. ToSet(Tail(s)) \subseteq ToSet(s)
    BY <2>2 DEF ToSet
  <2> QED
    BY <2>3, <2>4, <2>5
<1> QED
  BY <1>1, <1>2

(* Taking one element out moves those behind it one place ahead.           *)
LEMMA RemoveAtPlaces ==
    ASSUME NEW S, NEW s \in Seq(S), NEW i \in 1..Len(s)
    PROVE  /\ RemoveAt(s, i) \in Seq(S)
           /\ DOMAIN RemoveAt(s, i) = 1..(Len(s) - 1)
           /\ \A k \in 1..(Len(s) - 1) :
                RemoveAt(s, i)[k] = IF k < i THEN s[k] ELSE s[k + 1]
<1> DEFINE l == SubSeq(s, 1, i - 1)
           r == SubSeq(s, i + 1, Len(s))
<1>1. /\ l \in Seq(S)
      /\ Len(l) = i - 1
      /\ \A k \in 1..(i - 1) : l[k] = s[k]
  OBVIOUS
<1>2. /\ r \in Seq(S)
      /\ Len(r) = Len(s) - i
      /\ \A k \in 1..(Len(s) - i) : r[k] = s[k + i]
  OBVIOUS
<1>3. RemoveAt(s, i) = l \o r
  BY DEF RemoveAt
<1> HIDE DEF l, r
<1>4. /\ l \o r \in Seq(S)
      /\ Len(l \o r) = Len(l) + Len(r)
      /\ \A k \in 1..(Len(l) + Len(r)) :
           (l \o r)[k] = IF k <= Len(l) THEN l[k] ELSE r[k - Len(l)]
  BY <1>1, <1>2, ConcatProperties
<1>5. Len(l) + Len(r) = Len(s) - 1
  BY <1>1, <1>2
<1>6. DOMAIN (l \o r) = 1..(Len(s) - 1)
  BY <1>4, <1>5
<1>7. ASSUME NEW k \in 1..(Len(s) - 1)
      PROVE  (l \o r)[k] = IF k < i THEN s[k] ELSE s[k + 1]
  <2>1. (l \o r)[k] = IF k <= Len(l) THEN l[k] ELSE r[k - Len(l)]
    BY <1>4, <1>5
  <2>2. CASE k < i
    BY <1>1, <2>1, <2>2
  <2>3. CASE ~(k < i)
    BY <1>1, <1>2, <2>1, <2>3
  <2> QED
    BY <2>2, <2>3
<1> QED
  BY <1>3, <1>4, <1>6, <1>7

(* Of a sequence without repetitions, such as the keys of a Map, deleting  *)
(* an element leaves all the others, and no repetitions.                   *)
LEMMA RemoveFirstElements ==
    ASSUME NEW S, NEW s \in Seq(S), IsInjective(s), NEW e
    PROVE  /\ RemoveFirst(s, e) \in Seq(S)
           /\ IsInjective(RemoveFirst(s, e))
           /\ ToSet(RemoveFirst(s, e)) = ToSet(s) \ {e}
<1>1. CASE ~\E i \in 1..Len(s) : s[i] = e
  <2>1. RemoveFirst(s, e) = s
    BY <1>1 DEF RemoveFirst
  <2>2. e \notin ToSet(s)
    BY <1>1, ElementOf
  <2> QED
    BY <2>1, <2>2
<1>2. CASE \E i \in 1..Len(s) : s[i] = e
  <2> DEFINE I == {i \in 1..Len(s) : s[i] = e}
             n == CHOOSE x \in I : \A y \in I : x <= y
  <2>1. RemoveFirst(s, e) = RemoveAt(s, n)
    BY <1>2 DEF RemoveFirst, SelectInSeq, Min
  <2>2. n \in I
    <3>1. I \in SUBSET Nat /\ I # {}
      BY <1>2
    <3> HIDE DEF I
    <3> QED
      BY <3>1, LeastElement
  <2> DEFINE r == RemoveAt(s, n)
  <2> HIDE DEF n
  <2>3. /\ r \in Seq(S)
        /\ DOMAIN r = 1..(Len(s) - 1)
        /\ \A k \in 1..(Len(s) - 1) : r[k] = IF k < n THEN s[k] ELSE s[k + 1]
    BY <2>2, RemoveAtPlaces
  <2> HIDE DEF r
  <2>4. /\ n \in 1..Len(s)
        /\ \A k \in 1..Len(s) : s[k] = e <=> k = n
        /\ \A j, k \in 1..Len(s) : s[j] = s[k] => j = k
    BY <2>2 DEF IsInjective
  <2>5. IsInjective(r)
    <3>1. ASSUME NEW j \in DOMAIN r, NEW k \in DOMAIN r, r[j] = r[k]
          PROVE  j = k
      <4> DEFINE place(x) == IF x < n THEN x ELSE x + 1
      <4>1. place(j) \in 1..Len(s) /\ place(k) \in 1..Len(s)
        BY <2>3, <2>4
      <4>2. s[place(j)] = s[place(k)]
        BY <2>3, <3>1
      <4>3. place(j) = place(k)
        BY <2>4, <4>1, <4>2
      <4> QED
        BY <2>3, <2>4, <4>3
    <3> QED
      BY <3>1 DEF IsInjective
  <2>6. ASSUME NEW k \in DOMAIN r PROVE r[k] \in ToSet(s) \ {e}
    BY <2>3, <2>4 DEF ToSet
  <2>7. ASSUME NEW k \in 1..Len(s), s[k] # e PROVE \E j \in DOMAIN r : r[j] = s[k]
    <3>1. CASE k < n
      <4>1. k \in DOMAIN r /\ r[k] = s[k]
        BY <2>3, <2>4, <3>1
      <4> QED
        BY <4>1
    <3>2. CASE k > n
      <4>1. k - 1 \in DOMAIN r /\ r[k - 1] = s[k]
        BY <2>3, <2>4, <3>2
      <4> QED
        BY <4>1
    <3> QED
      BY <2>4, <2>7, <3>1, <3>2
  <2>8. ToSet(r) \subseteq ToSet(s) \ {e}
    BY <2>6 DEF ToSet
  <2>9. ToSet(s) \ {e} \subseteq ToSet(r)
    BY <2>7 DEF ToSet
  <2> QED
    BY <2>1, <2>3, <2>5, <2>8, <2>9 DEF r
<1> QED
  BY <1>1, <1>2

-----------------------------------------------------------------------------
(* Induction over a finite set, for the set of the subsets that have a     *)
(* property.                                                               *)
LEMMA FiniteInduction ==
    ASSUME NEW D, IsFiniteSet(D), NEW P \in SUBSET (SUBSET D), {} \in P,
           \A s \in P : \A x \in D \ s : s \union {x} \in P
    PROVE  D \in P
<1> DEFINE T == {n \in Nat : \A s \in SUBSET D : Cardinality(s) = n => s \in P}
<1>1. \A s \in SUBSET D : IsFiniteSet(s) /\ Cardinality(s) \in Nat
  BY FS_Subset, FS_CardinalityType
<1>2. 0 \in T
  BY <1>1, FS_EmptySet
<1>3. ASSUME NEW n \in Nat, n \in T PROVE n + 1 \in T
  <2> SUFFICES ASSUME NEW s \in SUBSET D, Cardinality(s) = n + 1 PROVE s \in P
    OBVIOUS
  <2>1. PICK x : x \in s
    BY <1>1, FS_EmptySet
  <2>2. Cardinality(s \ {x}) = n
    BY <1>1, <2>1, FS_RemoveElement
  <2>3. s \ {x} \in P
    BY <1>3, <2>2
  <2>4. (s \ {x}) \union {x} = s
    BY <2>1
  <2> QED
    BY <2>1, <2>3, <2>4
<1> HIDE DEF T
<1>4. Nat \subseteq T
  BY <1>2, <1>3, SetInduction
<1>5. Cardinality(D) \in T
  BY <1>1, <1>4
<1> QED
  BY <1>5 DEF T

(* The sum is a recursive function of the index set; it exists, and takes  *)
(* any index first, not only the one that is chosen.                       *)
SumStep(f, g, s) == IF s = {} THEN 0
                  ELSE f[CHOOSE x \in s : TRUE] + g[s \ {CHOOSE x \in s : TRUE}]

LEMMA SumExists ==
    ASSUME NEW D, IsFiniteSet(D), NEW f \in [D -> Int]
    PROVE  \E g \in [SUBSET D -> Int] : g = [s \in SUBSET D |-> SumStep(f, g, s)]
<1> DEFINE T == {n \in Nat : \E g \in [SUBSET D -> Int] :
                   \A s \in SUBSET D : Cardinality(s) <= n => g[s] = SumStep(f, g, s)}
<1>1. \A s \in SUBSET D : IsFiniteSet(s) /\ Cardinality(s) \in Nat
  BY FS_Subset, FS_CardinalityType
<1>2. ASSUME NEW s \in SUBSET D, s # {}
      PROVE  /\ (CHOOSE x \in s : TRUE) \in s
             /\ s \ {CHOOSE x \in s : TRUE} \in SUBSET D
             /\ Cardinality(s \ {CHOOSE x \in s : TRUE}) = Cardinality(s) - 1
  <2>1. (CHOOSE x \in s : TRUE) \in s
    BY <1>2
  <2> QED
    BY <1>1, <2>1, FS_RemoveElement
<1>3. \A g \in [SUBSET D -> Int], s \in SUBSET D : SumStep(f, g, s) \in Int
  BY <1>2 DEF SumStep
<1>4. 0 \in T
  <2> DEFINE g == [s \in SUBSET D |-> 0]
  <2>1. \A s \in SUBSET D : Cardinality(s) <= 0 => g[s] = SumStep(f, g, s)
    BY <1>1, FS_EmptySet DEF SumStep
  <2>2. g \in [SUBSET D -> Int]
    OBVIOUS
  <2> HIDE DEF g
  <2> QED
    BY <2>1, <2>2
<1>5. ASSUME NEW n \in Nat, n \in T PROVE n + 1 \in T
  <2>1. PICK g \in [SUBSET D -> Int] :
          \A s \in SUBSET D : Cardinality(s) <= n => g[s] = SumStep(f, g, s)
    BY <1>5
  <2> DEFINE h == [s \in SUBSET D |-> IF Cardinality(s) <= n THEN g[s] ELSE SumStep(f, g, s)]
  <2>2. h \in [SUBSET D -> Int]
    BY <1>3
  <2>3. \A s \in SUBSET D : h[s] = IF Cardinality(s) <= n THEN g[s] ELSE SumStep(f, g, s)
    OBVIOUS
  <2> HIDE DEF h
  <2>4. ASSUME NEW s \in SUBSET D, Cardinality(s) <= n + 1 PROVE h[s] = SumStep(f, h, s)
    <3>1. h[s] = SumStep(f, g, s)
      BY <2>1, <2>3
    <3>2. CASE s = {}
      BY <3>1, <3>2 DEF SumStep
    <3>3. CASE s # {}
      <4> DEFINE r == s \ {CHOOSE x \in s : TRUE}
      <4>1. r \in SUBSET D /\ Cardinality(r) <= n
        BY <1>1, <1>2, <2>4, <3>3
      <4>2. h[r] = g[r]
        BY <2>3, <4>1
      <4> QED
        BY <3>1, <3>3, <4>2 DEF SumStep
    <3> QED
      BY <3>2, <3>3
  <2> QED
    BY <2>2, <2>4
<1>6. Cardinality(D) \in T
  <2> HIDE DEF T
  <2>1. Nat \subseteq T
    BY <1>4, <1>5, SetInduction
  <2> QED
    BY <1>1, <2>1
<1>7. PICK g \in [SUBSET D -> Int] :
        \A s \in SUBSET D : Cardinality(s) <= Cardinality(D) => g[s] = SumStep(f, g, s)
  BY <1>6
<1>8. \A s \in SUBSET D : Cardinality(s) <= Cardinality(D)
  BY FS_Subset
<1>9. \A s \in SUBSET D : g[s] = SumStep(f, g, s)
  BY <1>7, <1>8
<1>10. g = [s \in SUBSET D |-> SumStep(f, g, s)]
  BY <1>9
<1> QED
  BY <1>10

LEMMA SumIsRecursive ==
    ASSUME NEW D, IsFiniteSet(D), NEW f \in [D -> Int]
    PROVE  \E g : /\ g = [s \in SUBSET D |-> SumStep(f, g, s)]
                 /\ SumFunction(f) = g[D]
<1> DEFINE iter[s \in SUBSET D] == IF s = {} THEN 0
                                  ELSE LET x == CHOOSE x \in s : TRUE
                                       IN  f[x] + iter[s \ {x}]
<1>1. SumFunction(f) = iter[D]
  BY Zenon DEF SumFunction, SumFunctionOnSet, FoldFunctionOnSet, MapThenFoldSet
<1>2. iter = CHOOSE g : g = [s \in SUBSET D |-> SumStep(f, g, s)]
  BY Zenon DEF SumStep
<1>3. \E g : g = [s \in SUBSET D |-> SumStep(f, g, s)]
  BY SumExists
<1> HIDE DEF iter
<1>4. iter = [s \in SUBSET D |-> SumStep(f, iter, s)]
  BY <1>2, <1>3, Zenon
<1> QED
  BY <1>1, <1>4

LEMMA SumTakesAny ==
    ASSUME NEW D, IsFiniteSet(D), NEW f \in [D -> Int]
    PROVE  \E g \in [SUBSET D -> Int] :
             /\ g[{}] = 0
             /\ \A s \in SUBSET D : \A x \in s : g[s] = f[x] + g[s \ {x}]
             /\ SumFunction(f) = g[D]
<1>1. PICK g : g = [s \in SUBSET D |-> SumStep(f, g, s)] /\ SumFunction(f) = g[D]
  BY SumIsRecursive
<1> DEFINE c(s) == CHOOSE x \in s : TRUE
<1>2. \A s \in SUBSET D : IsFiniteSet(s) /\ Cardinality(s) \in Nat
  BY FS_Subset, FS_CardinalityType
<1>3. \A s \in SUBSET D : \A x \in s : Cardinality(s \ {x}) = Cardinality(s) - 1
  BY <1>2, FS_RemoveElement
<1>4. \A s \in SUBSET D : g[s] = IF s = {} THEN 0 ELSE f[c(s)] + g[s \ {c(s)}]
  BY <1>1 DEF SumStep
<1>5. \A s \in SUBSET D : s # {} => c(s) \in s
  OBVIOUS
<1> HIDE DEF c
<1>6. g[{}] = 0
  BY <1>4
<1> DEFINE T == {n \in Nat : \A s \in SUBSET D : Cardinality(s) <= n =>
                   g[s] \in Int /\ \A x \in s : g[s] = f[x] + g[s \ {x}]}
<1>7. 0 \in T
  <2>1. \A s \in SUBSET D : Cardinality(s) <= 0 => s = {}
    BY <1>2, FS_EmptySet
  <2> QED
    BY <1>6, <2>1
<1>8. ASSUME NEW n \in Nat, n \in T PROVE n + 1 \in T
  <2> SUFFICES ASSUME NEW s \in SUBSET D, Cardinality(s) <= n + 1, s # {}
               PROVE  g[s] \in Int /\ \A x \in s : g[s] = f[x] + g[s \ {x}]
    BY <1>6
  <2> DEFINE y == c(s)
  <2>1. y \in s
    BY <1>5
  <2>2. g[s] = f[y] + g[s \ {y}]
    BY <1>4
  <2> HIDE DEF y
  <2>3. \A x \in s : s \ {x} \in SUBSET D /\ Cardinality(s \ {x}) <= n
    BY <1>2, <1>3
  <2>4. \A x \in s : f[x] \in Int /\ g[s \ {x}] \in Int
    BY <1>8, <2>3
  <2>5. ASSUME NEW x \in s PROVE g[s] = f[x] + g[s \ {x}]
    <3>1. CASE x = y
      BY <2>2, <3>1
    <3>2. CASE x # y
      <4>1. g[s \ {y}] = f[x] + g[(s \ {y}) \ {x}]
        <5>1. s \ {y} \in SUBSET D /\ Cardinality(s \ {y}) <= n /\ x \in s \ {y}
          BY <2>1, <2>3, <3>2
        <5> QED
          BY <1>8, <5>1
      <4>2. g[s \ {x}] = f[y] + g[(s \ {x}) \ {y}]
        <5>1. s \ {x} \in SUBSET D /\ Cardinality(s \ {x}) <= n /\ y \in s \ {x}
          BY <2>1, <2>3, <3>2
        <5> QED
          BY <1>8, <5>1
      <4>3. (s \ {x}) \ {y} = (s \ {y}) \ {x}
        OBVIOUS
      <4>4. g[(s \ {y}) \ {x}] \in Int
        <5>1. (s \ {y}) \ {x} \in SUBSET D /\ Cardinality((s \ {y}) \ {x}) <= n
          <6>1. /\ s \ {y} \in SUBSET D
                /\ Cardinality(s \ {y}) <= n
                /\ x \in s \ {y}
                /\ Cardinality(s \ {y}) \in Nat
            BY <1>2, <2>1, <2>3, <3>2
          <6>2. Cardinality((s \ {y}) \ {x}) = Cardinality(s \ {y}) - 1
            BY <1>3, <6>1
          <6> QED
            BY <6>1, <6>2
        <5> QED
          BY <1>8, <5>1
      <4>5. g[s \ {x}] = f[y] + g[(s \ {y}) \ {x}]
        BY <4>2, <4>3
      <4>6. f[x] \in Int /\ f[y] \in Int
        BY <2>1, <2>4
      <4> QED
        BY <2>2, <4>1, <4>4, <4>5, <4>6
    <3> QED
      BY <3>1, <3>2
  <2>6. g[s] \in Int
    BY <2>1, <2>2, <2>4
  <2> QED
    BY <2>5, <2>6
<1>9. \A s \in SUBSET D : g[s] \in Int /\ \A x \in s : g[s] = f[x] + g[s \ {x}]
  <2> HIDE DEF T
  <2>1. Nat \subseteq T
    BY <1>7, <1>8, SetInduction
  <2> SUFFICES ASSUME NEW s \in SUBSET D
               PROVE  g[s] \in Int /\ \A x \in s : g[s] = f[x] + g[s \ {x}]
    OBVIOUS
  <2>2. Cardinality(s) \in T /\ Cardinality(s) <= Cardinality(s)
    BY <1>2, <2>1
  <2> QED
    BY <2>2 DEF T
<1>10. g \in [SUBSET D -> Int]
  BY <1>1, <1>9
<1> QED
  BY <1>1, <1>6, <1>9, <1>10

(* The first facts about sums: the sum of nothing, and of what is left     *)
(* when any one index is taken out.                                        *)
LEMMA SumOfNothing ==
    ASSUME NEW f, DOMAIN f = {}, f = [x \in {} |-> f[x]] PROVE SumFunction(f) = 0
<1>1. f \in [{} -> Int] /\ IsFiniteSet({})
  BY FS_EmptySet
<1>2. PICK D : D = {}
  OBVIOUS
<1>3. IsFiniteSet(D) /\ f \in [D -> Int]
  BY <1>1, <1>2
<1>4. \E g \in [SUBSET D -> Int] :
        /\ g[{}] = 0
        /\ \A s \in SUBSET D : \A x \in s : g[s] = f[x] + g[s \ {x}]
        /\ SumFunction(f) = g[D]
  BY <1>3, SumTakesAny, Zenon
<1> QED
  BY <1>2, <1>4, Zenon

LEMMA SumTakesOut ==
    ASSUME NEW D, IsFiniteSet(D), NEW f \in [D -> Int], NEW x \in D
    PROVE  /\ SumFunction(f) \in Int
           /\ SumFunction([y \in D \ {x} |-> f[y]]) \in Int
           /\ SumFunction(f) = f[x] + SumFunction([y \in D \ {x} |-> f[y]])
<1> DEFINE E == D \ {x}
           e == [y \in E |-> f[y]]
<1>1. IsFiniteSet(E) /\ e \in [E -> Int]
  BY FS_RemoveElement
<1>2. \A y \in E : e[y] = f[y] /\ y \in D
  OBVIOUS
<1>3. D \in SUBSET D /\ E \in SUBSET D /\ E \in SUBSET E /\ x \notin E
  OBVIOUS
<1>4. PICK g \in [SUBSET D -> Int] :
        /\ g[{}] = 0
        /\ \A s \in SUBSET D : \A y \in s : g[s] = f[y] + g[s \ {y}]
        /\ SumFunction(f) = g[D]
  BY SumTakesAny
<1>10. g[D] = f[x] + g[E]
  BY <1>4
<1> HIDE DEF E, e
<1>5. PICK h \in [SUBSET E -> Int] :
        /\ h[{}] = 0
        /\ \A s \in SUBSET E : \A y \in s : h[s] = e[y] + h[s \ {y}]
        /\ SumFunction(e) = h[E]
  BY <1>1, SumTakesAny
<1> DEFINE P == {s \in SUBSET E : h[s] = g[s]}
<1>6. {} \in P
  BY <1>4, <1>5
<1>7. ASSUME NEW s \in P, NEW y \in E \ s PROVE s \union {y} \in P
  <2>1. /\ s \union {y} \in SUBSET E
        /\ s \union {y} \in SUBSET D
        /\ (s \union {y}) \ {y} = s
        /\ y \in s \union {y}
    BY <1>2
  <2>2. h[s \union {y}] = e[y] + h[s]
    BY <1>5, <2>1
  <2>3. g[s \union {y}] = f[y] + g[s]
    BY <1>4, <2>1
  <2> QED
    BY <1>2, <2>1, <2>2, <2>3
<1>8. E \in P
  <2> HIDE DEF P
  <2>1. P \in SUBSET (SUBSET E)
    BY DEF P
  <2> QED
    BY <1>1, <1>6, <1>7, <2>1, FiniteInduction
<1>9. SumFunction(e) = g[E]
  BY <1>5, <1>8
<1> QED
  BY <1>3, <1>4, <1>9, <1>10 DEF E, e

LEMMA SumIsInt ==
    ASSUME NEW D, IsFiniteSet(D), NEW f \in [D -> Int]
    PROVE  SumFunction(f) \in Int
<1>1. CASE D = {}
  BY <1>1, SumOfNothing
<1>2. CASE D # {}
  BY <1>2, SumTakesOut
<1> QED
  BY <1>1, <1>2

LEMMA SumExtends ==
    ASSUME NEW D, IsFiniteSet(D), NEW f \in [D -> Int], NEW s \in SUBSET D, NEW x \in D \ s
    PROVE  /\ SumFunction(Restrict(f, s \union {x})) = f[x] + SumFunction(Restrict(f, s))
           /\ SumFunction(Restrict(f, s)) \in Int
<1> DEFINE E == s \union {x}
<1>1. IsFiniteSet(E) /\ x \in E /\ E \ {x} = s /\ E \in SUBSET D
  BY FS_Subset, FS_AddElement
<1>2. PICK e : e = Restrict(f, E)
  OBVIOUS
<1>3. e \in [E -> Int] /\ e[x] = f[x]
  BY <1>1, <1>2 DEF Restrict
<1>4. [y \in E \ {x} |-> e[y]] = Restrict(f, s)
  BY <1>1, <1>2 DEF Restrict
<1> HIDE DEF E
<1>5. SumFunction(e) = e[x] + SumFunction([y \in E \ {x} |-> e[y]])
  BY <1>1, <1>3, SumTakesOut
<1>6. SumFunction([y \in E \ {x} |-> e[y]]) \in Int
  BY <1>1, <1>3, SumTakesOut
<1>7. SumFunction(e) = e[x] + SumFunction(Restrict(f, s)) /\ SumFunction(Restrict(f, s)) \in Int
  BY <1>4, <1>5, <1>6, Zenon
<1> QED
  BY <1>2, <1>3, <1>7 DEF E

LEMMA SumOfAll ==
    ASSUME NEW D, NEW R, NEW f \in [D -> R] PROVE Restrict(f, D) = f
BY DEF Restrict

LEMMA SumOfNone ==
    ASSUME NEW f PROVE SumFunction(Restrict(f, {})) = 0
<1>1. PICK e : e = Restrict(f, {})
  OBVIOUS
<1>2. DOMAIN e = {} /\ e = [x \in {} |-> e[x]]
  BY <1>1 DEF Restrict
<1>3. SumFunction(e) = 0
  BY <1>2, SumOfNothing
<1> QED
  BY <1>1, <1>3

(* Sums are compared by adding the same indices one after another: the sum *)
(* of sums, sums of naturals, and sums that are the same.                  *)
AddsPointwise(h, f, g, D) ==
    /\ IsFiniteSet(D) /\ f \in [D -> Int] /\ g \in [D -> Int] /\ h \in [D -> Int]
    /\ \A x \in D : h[x] = f[x] + g[x]

LEMMA SumAdds ==
    ASSUME NEW D, NEW f, NEW g, NEW h, AddsPointwise(h, f, g, D)
    PROVE  SumFunction(h) = SumFunction(f) + SumFunction(g)
<1> USE DEF AddsPointwise
<1> DEFINE P == {s \in SUBSET D : SumFunction(Restrict(h, s)) =
                    SumFunction(Restrict(f, s)) + SumFunction(Restrict(g, s))}
<1>1. {} \in P
  BY SumOfNone
<1>2. ASSUME NEW s \in P, NEW x \in D \ s PROVE s \union {x} \in P
  <2>1. s \in SUBSET D /\ s \union {x} \in SUBSET D
    OBVIOUS
  <2>2. SumFunction(Restrict(h, s)) = SumFunction(Restrict(f, s)) + SumFunction(Restrict(g, s))
    OBVIOUS
  <2>3. f[x] \in Int /\ g[x] \in Int /\ h[x] = f[x] + g[x]
    OBVIOUS
  <2> HIDE DEF P
  <2>4. /\ SumFunction(Restrict(f, s \union {x})) = f[x] + SumFunction(Restrict(f, s))
        /\ SumFunction(Restrict(f, s)) \in Int
    BY <2>1, SumExtends
  <2>5. /\ SumFunction(Restrict(g, s \union {x})) = g[x] + SumFunction(Restrict(g, s))
        /\ SumFunction(Restrict(g, s)) \in Int
    BY <2>1, SumExtends
  <2>6. SumFunction(Restrict(h, s \union {x})) = h[x] + SumFunction(Restrict(h, s))
    BY <2>1, SumExtends
  <2>7. SumFunction(Restrict(h, s \union {x})) =
            SumFunction(Restrict(f, s \union {x})) + SumFunction(Restrict(g, s \union {x}))
    BY <2>2, <2>3, <2>4, <2>5, <2>6
  <2> QED
    BY <2>1, <2>7 DEF P
<1>3. D \in P
  <2> HIDE DEF P
  <2>1. P \in SUBSET (SUBSET D)
    BY DEF P
  <2> QED
    BY <1>1, <1>2, <2>1, FiniteInduction
<1>4. Restrict(f, D) = f /\ Restrict(g, D) = g /\ Restrict(h, D) = h
  BY SumOfAll
<1> QED
  BY <1>3, <1>4

LEMMA SumIsNat ==
    ASSUME NEW D, IsFiniteSet(D), NEW f \in [D -> Nat]
    PROVE  SumFunction(f) \in Nat
<1> DEFINE P == {s \in SUBSET D : SumFunction(Restrict(f, s)) \in Nat}
<1>1. {} \in P
  BY SumOfNone
<1>2. ASSUME NEW s \in P, NEW x \in D \ s PROVE s \union {x} \in P
  <2>1. s \in SUBSET D /\ s \union {x} \in SUBSET D /\ f \in [D -> Int] /\ f[x] \in Nat
    OBVIOUS
  <2>2. SumFunction(Restrict(f, s)) \in Nat
    OBVIOUS
  <2> HIDE DEF P
  <2>3. SumFunction(Restrict(f, s \union {x})) = f[x] + SumFunction(Restrict(f, s))
    BY <2>1, SumExtends
  <2>4. SumFunction(Restrict(f, s \union {x})) \in Nat
    BY <2>1, <2>2, <2>3
  <2> QED
    BY <2>1, <2>4 DEF P
<1>3. D \in P
  <2> HIDE DEF P
  <2>1. P \in SUBSET (SUBSET D)
    BY DEF P
  <2> QED
    BY <1>1, <1>2, <2>1, FiniteInduction
<1>4. Restrict(f, D) = f
  BY SumOfAll
<1> QED
  BY <1>3, <1>4

LEMMA SumSplits ==
    ASSUME NEW D, IsFiniteSet(D), NEW f \in [D -> Int],
           NEW A \in SUBSET D, NEW B \in SUBSET D, A \cap B = {}
    PROVE  SumFunction(Restrict(f, A \union B)) =
               SumFunction(Restrict(f, A)) + SumFunction(Restrict(f, B))
<1> DEFINE P == {s \in SUBSET B : SumFunction(Restrict(f, A \union s)) =
                    SumFunction(Restrict(f, A)) + SumFunction(Restrict(f, s))}
<1>0. \A s \in SUBSET D : SumFunction(Restrict(f, s)) \in Int
  <2> SUFFICES ASSUME NEW s \in SUBSET D PROVE SumFunction(Restrict(f, s)) \in Int
    OBVIOUS
  <2>1. PICK e : e = Restrict(f, s)
    OBVIOUS
  <2>2. e \in [s -> Int] /\ IsFiniteSet(s)
    BY <2>1, FS_Subset DEF Restrict
  <2> QED
    BY <2>1, <2>2, SumIsInt
<1>1. {} \in P
  <2>1. A \union {} = A
    OBVIOUS
  <2> QED
    BY <1>0, <2>1, SumOfNone
<1>2. ASSUME NEW s \in P, NEW x \in B \ s PROVE s \union {x} \in P
  <2>1. /\ s \in SUBSET D /\ s \in SUBSET B /\ s \union {x} \in SUBSET B
        /\ A \union s \in SUBSET D /\ x \in D \ s /\ x \in D \ (A \union s)
        /\ A \union (s \union {x}) = (A \union s) \union {x}
    OBVIOUS
  <2>2. SumFunction(Restrict(f, A \union s)) = SumFunction(Restrict(f, A)) + SumFunction(Restrict(f, s))
    OBVIOUS
  <2>3. f[x] \in Int
    OBVIOUS
  <2> HIDE DEF P
  <2>4. SumFunction(Restrict(f, s \union {x})) = f[x] + SumFunction(Restrict(f, s))
    BY <2>1, SumExtends
  <2>5. SumFunction(Restrict(f, (A \union s) \union {x})) = f[x] + SumFunction(Restrict(f, A \union s))
    BY <2>1, SumExtends
  <2>6. SumFunction(Restrict(f, A)) \in Int /\ SumFunction(Restrict(f, s)) \in Int
    BY <1>0, <2>1
  <2>7. SumFunction(Restrict(f, A \union (s \union {x}))) =
            SumFunction(Restrict(f, A)) + SumFunction(Restrict(f, s \union {x}))
    <3>1. SumFunction(Restrict(f, A \union (s \union {x}))) = f[x] + SumFunction(Restrict(f, A \union s))
      BY <2>1, <2>5, Zenon
    <3> QED
      BY <3>1, <2>2, <2>3, <2>4, <2>6
  <2> QED
    BY <2>1, <2>7 DEF P
<1>3. B \in P
  <2> HIDE DEF P
  <2>1. P \in SUBSET (SUBSET B) /\ IsFiniteSet(B)
    BY FS_Subset DEF P
  <2> QED
    BY <1>1, <1>2, <2>1, FiniteInduction
<1> QED
  BY <1>3

(* The sum of the values on 1 .. n, one value after another.               *)
LEMMA SumOfPrefix ==
    ASSUME NEW n \in Nat, NEW f \in [1 .. n + 1 -> Int], NEW g \in [1 .. n -> Int],
           \A k \in 1 .. n : g[k] = f[k]
    PROVE  SumFunction(f) = f[n + 1] + SumFunction(g)
<1>1. PICK D : D = 1 .. n + 1
  OBVIOUS
<1>2. PICK s : s = 1 .. n
  OBVIOUS
<1>3. PICK x : x = n + 1
  OBVIOUS
<1>4. IsFiniteSet(1 .. n + 1)
  BY FS_Interval
<1>5. IsFiniteSet(D) /\ s \in SUBSET D /\ x \in D \ s /\ s \union {x} = D
  BY <1>1, <1>2, <1>3, <1>4
<1>6. f \in [D -> Int] /\ Restrict(f, D) = f
  BY <1>1, SumOfAll
<1>7. Restrict(f, s) = g
  BY <1>2 DEF Restrict
<1>8. SumFunction(Restrict(f, s \union {x})) = f[x] + SumFunction(Restrict(f, s))
  BY <1>5, <1>6, SumExtends
<1> QED
  BY <1>3, <1>5, <1>6, <1>7, <1>8, Zenon

\* A sum of zeros.
LEMMA SumOfZeros ==
    ASSUME NEW D, IsFiniteSet(D), NEW f \in [D -> Int], \A x \in D : f[x] = 0
    PROVE  SumFunction(f) = 0
<1>1. PICK n \in Int : n = SumFunction(f)
  BY SumIsInt
<1>2. SumFunction(f) = SumFunction(f) + SumFunction(f)
  <2>1. \A x \in D : f[x] = f[x] + f[x]
    OBVIOUS
  <2> QED
    BY <2>1, SumAdds DEF AddsPointwise
<1>3. n = n + n
  BY <1>1, <1>2
<1>4. n = 0
  BY <1>3
<1> QED
  BY <1>1, <1>4

\* A sum does not depend on the names of what is summed.
Renames(h, D, E) ==
    /\ h \in [D -> E]
    /\ \A x, y \in D : h[x] = h[y] => x = y
    /\ \A e \in E : \E x \in D : h[x] = e

LEMMA SumRenames ==
    ASSUME NEW D, IsFiniteSet(D), NEW E, IsFiniteSet(E),
           NEW g \in [D -> Int], NEW f \in [E -> Int], NEW h, Renames(h, D, E),
           \A x \in D : g[x] = f[h[x]]
    PROVE  SumFunction(g) = SumFunction(f)
<1> USE DEF Renames
<1> DEFINE im(s) == {e \in E : \E x \in s : h[x] = e}
           P == {s \in SUBSET D : SumFunction(Restrict(g, s)) = SumFunction(Restrict(f, im(s)))}
<1>1. {} \in P
  <2>1. im({}) = {}
    OBVIOUS
  <2>2. SumFunction(Restrict(f, im({}))) = 0
    BY <2>1, SumOfNone, Zenon
  <2> QED
    BY <2>2, SumOfNone
<1>2. ASSUME NEW s \in P, NEW x \in D \ s PROVE s \union {x} \in P
  <2>1. s \in SUBSET D /\ s \union {x} \in SUBSET D
    OBVIOUS
  <2>2. SumFunction(Restrict(g, s)) = SumFunction(Restrict(f, im(s)))
    OBVIOUS
  <2>3. im(s) \in SUBSET E /\ h[x] \in E \ im(s) /\ im(s \union {x}) = im(s) \union {h[x]}
    BY <2>1
  <2> HIDE DEF im, P
  <2>4. SumFunction(Restrict(g, s \union {x})) = g[x] + SumFunction(Restrict(g, s))
    BY <2>1, SumExtends
  <2>5. SumFunction(Restrict(f, im(s) \union {h[x]})) = f[h[x]] + SumFunction(Restrict(f, im(s)))
    BY <2>3, SumExtends
  <2>6. SumFunction(Restrict(g, s \union {x})) = SumFunction(Restrict(f, im(s) \union {h[x]}))
    BY <2>2, <2>4, <2>5
  <2>7. SumFunction(Restrict(g, s \union {x})) = SumFunction(Restrict(f, im(s \union {x})))
    BY <2>3, <2>6, Zenon
  <2> QED
    BY <2>1, <2>7 DEF P
<1>3. D \in P
  <2> HIDE DEF P
  <2>1. P \in SUBSET (SUBSET D)
    BY DEF P
  <2> QED
    BY <1>1, <1>2, <2>1, FiniteInduction
<1>4. Restrict(g, D) = g /\ im(D) = E
  BY SumOfAll
<1>5. Restrict(f, E) = f
  BY SumOfAll
<1> QED
  BY <1>3, <1>4, <1>5, Zenon

LEMMA SumsAgree ==
    ASSUME NEW D, IsFiniteSet(D), NEW f \in [D -> Int], NEW g \in [D -> Int],
           NEW h \in [D -> Int], NEW k \in [D -> Int], \A x \in D : f[x] + g[x] = h[x] + k[x]
    PROVE  SumFunction(f) + SumFunction(g) = SumFunction(h) + SumFunction(k)
<1>1. PICK s : s = [x \in D |-> f[x] + g[x]]
  OBVIOUS
<1>2. AddsPointwise(s, f, g, D)
  BY <1>1 DEF AddsPointwise
<1>3. AddsPointwise(s, h, k, D)
  BY <1>1 DEF AddsPointwise
<1>4. SumFunction(s) = SumFunction(f) + SumFunction(g)
  BY <1>2, SumAdds
<1>5. SumFunction(s) = SumFunction(h) + SumFunction(k)
  BY <1>3, SumAdds
<1> QED
  BY <1>4, <1>5

(* A function on two sets that do not meet, and its restrictions to them.  *)
InTwoParts(f, X, Y) ==
    X \cap Y = {} /\ IsFiniteSet(X \union Y) /\ f \in [X \union Y -> Int]

LEMMA SumOfTwoParts ==
    ASSUME NEW X, NEW Y, NEW f, InTwoParts(f, X, Y)
    PROVE  SumFunction(f) = SumFunction(Restrict(f, X)) + SumFunction(Restrict(f, Y))
<1>1. PICK D : D = X \union Y
  OBVIOUS
<1>2. IsFiniteSet(D) /\ f \in [D -> Int] /\ X \in SUBSET D /\ Y \in SUBSET D /\ X \cap Y = {}
  BY <1>1 DEF InTwoParts
<1>3. SumFunction(Restrict(f, X \union Y)) = SumFunction(Restrict(f, X)) + SumFunction(Restrict(f, Y))
  BY <1>2, SumSplits
<1>4. Restrict(f, X \union Y) = f
  BY <1>1, <1>2, SumOfAll
<1> QED
  BY <1>3, <1>4, Zenon

\* What adds nothing may be left out of a sum.
LEMMA SumLeavesOutZeros ==
    ASSUME NEW D, IsFiniteSet(D), NEW f \in [D -> Int], NEW S \in SUBSET D,
           \A x \in D \ S : f[x] = 0
    PROVE  SumFunction(f) = SumFunction(Restrict(f, S))
<1>1. PICK Z : Z = D \ S
  OBVIOUS
<1>2. Z \in SUBSET D /\ S \cap Z = {} /\ S \union Z = D /\ IsFiniteSet(Z) /\ IsFiniteSet(S)
  BY <1>1, FS_Subset
<1>3. PICK z : z = Restrict(f, Z)
  OBVIOUS
<1>4. PICK r : r = Restrict(f, S)
  OBVIOUS
<1>5. z \in [Z -> Int] /\ (\A x \in Z : z[x] = 0) /\ r \in [S -> Int]
  BY <1>1, <1>2, <1>3, <1>4 DEF Restrict
<1>6. SumFunction(z) = 0 /\ SumFunction(r) \in Int
  BY <1>2, <1>5, SumOfZeros, SumIsInt
<1>7. SumFunction(Restrict(f, S \union Z)) = SumFunction(r) + SumFunction(z)
  BY <1>2, <1>3, <1>4, SumSplits
<1>8. Restrict(f, S \union Z) = f
  BY <1>2, SumOfAll
<1>9. SumFunction(f) = SumFunction(r) + SumFunction(z)
  BY <1>7, <1>8, Zenon
<1>10. SumFunction(f) = SumFunction(r)
  BY <1>6, <1>9
<1> QED
  BY <1>4, <1>10

\* A sum of naturals over more is not less.
LEMMA SumGrows ==
    ASSUME NEW D, IsFiniteSet(D), NEW f \in [D -> Nat], NEW S \in SUBSET D, NEW T \in SUBSET S
    PROVE  SumFunction(Restrict(f, T)) <= SumFunction(Restrict(f, S))
<1>1. PICK Z : Z = S \ T
  OBVIOUS
<1>2. Z \in SUBSET D /\ T \in SUBSET D /\ T \cap Z = {} /\ T \union Z = S
      /\ IsFiniteSet(Z) /\ IsFiniteSet(T)
  BY <1>1, FS_Subset
<1>3. PICK z \in [Z -> Nat], t \in [T -> Nat] : z = Restrict(f, Z) /\ t = Restrict(f, T)
  BY <1>2 DEF Restrict
<1>4. SumFunction(z) \in Nat /\ SumFunction(t) \in Nat
  BY <1>2, SumIsNat
<1>5. f \in [D -> Int]
  OBVIOUS
<1>6. SumFunction(Restrict(f, T \union Z)) = SumFunction(t) + SumFunction(z)
  BY <1>2, <1>3, <1>5, SumSplits
<1>7. SumFunction(Restrict(f, S)) = SumFunction(t) + SumFunction(z)
  BY <1>2, <1>6
<1>8. SumFunction(t) <= SumFunction(Restrict(f, S))
  BY <1>4, <1>7
<1> QED
  BY <1>3, <1>8

(* A sum taken group by group: the fiber of y is what h groups under y.    *)
Fiber(h, D, y) == {x \in D : h[x] = y}
FiberSums(f, h, D, E) == [y \in E |-> SumFunction(Restrict(f, Fiber(h, D, y)))]

LEMMA FiberSumsAreInt ==
    ASSUME NEW D, IsFiniteSet(D), NEW f \in [D -> Int], NEW E, NEW h
    PROVE  FiberSums(f, h, D, E) \in [E -> Int]
<1>1. ASSUME NEW y \in E PROVE SumFunction(Restrict(f, Fiber(h, D, y))) \in Int
  <2>1. PICK F : F = Fiber(h, D, y)
    OBVIOUS
  <2>2. F \subseteq D /\ IsFiniteSet(F)
    BY <2>1, FS_Subset DEF Fiber
  <2>3. PICK r \in [F -> Int] : r = Restrict(f, F)
    BY <2>2 DEF Restrict
  <2>4. SumFunction(r) \in Int
    BY <2>2, SumIsInt
  <2> QED
    BY <2>1, <2>3, <2>4
<1> QED
  BY <1>1 DEF FiberSums

LEMMA SumOfFibers ==
    ASSUME NEW D, IsFiniteSet(D), NEW f \in [D -> Int],
           NEW E, IsFiniteSet(E), NEW h \in [D -> E]
    PROVE  SumFunction(f) = SumFunction(FiberSums(f, h, D, E))
<1>1. PICK g \in [E -> Int] : g = FiberSums(f, h, D, E)
  BY FiberSumsAreInt
<1> DEFINE over(s) == {x \in D : h[x] \in s}
           P == {s \in SUBSET E : SumFunction(Restrict(f, over(s))) = SumFunction(Restrict(g, s))}
<1>2. {} \in P
  <2>1. over({}) = {}
    OBVIOUS
  <2> QED
    BY <2>1, SumOfNone
<1>3. ASSUME NEW s \in P, NEW y \in E \ s PROVE s \union {y} \in P
  <2>1. PICK A : A = over(s)
    OBVIOUS
  <2>2. PICK B : B = Fiber(h, D, y)
    OBVIOUS
  <2>3. A \in SUBSET D /\ B \in SUBSET D /\ A \cap B = {} /\ over(s \union {y}) = A \union B
    BY <2>1, <2>2 DEF Fiber
  <2>4. SumFunction(Restrict(f, A \union B)) = SumFunction(Restrict(f, A)) + SumFunction(Restrict(f, B))
    BY <2>3, SumSplits
  <2>5. g[y] = SumFunction(Restrict(f, B))
    BY <1>1, <2>2 DEF FiberSums
  <2>6. s \in SUBSET E /\ SumFunction(Restrict(f, A)) = SumFunction(Restrict(g, s))
    BY <2>1
  <2>7. /\ SumFunction(Restrict(g, s \union {y})) = g[y] + SumFunction(Restrict(g, s))
        /\ SumFunction(Restrict(g, s)) \in Int
    BY <2>6, SumExtends
  <2>8. g[y] \in Int
    OBVIOUS
  <2>9. SumFunction(Restrict(f, A \union B)) = SumFunction(Restrict(g, s \union {y}))
    BY <2>4, <2>5, <2>6, <2>7, <2>8
  <2> QED
    BY <2>3, <2>6, <2>9
<1>4. E \in P
  <2>1. P \in SUBSET (SUBSET E) /\ \A s \in P : \A y \in E \ s : s \union {y} \in P
    BY <1>3
  <2> HIDE DEF P
  <2> QED
    BY <1>2, <2>1, FiniteInduction
<1>5. over(E) = D
  OBVIOUS
<1>6. Restrict(f, D) = f /\ Restrict(g, E) = g
  BY SumOfAll
<1> QED
  BY <1>1, <1>4, <1>5, <1>6

\* One index more.
LEMMA SumOfOneMore ==
    ASSUME NEW D, IsFiniteSet(D), NEW x, x \notin D, NEW f, f \in [D \union {x} -> Int]
    PROVE  SumFunction(f) = f[x] + SumFunction(Restrict(f, D))
<1>1. PICK E : E = D \union {x}
  OBVIOUS
<1>2. IsFiniteSet(E) /\ f \in [E -> Int] /\ D \in SUBSET E /\ x \in E \ D
  BY <1>1, FS_AddElement
<1>3. SumFunction(Restrict(f, D \union {x})) = f[x] + SumFunction(Restrict(f, D))
  BY <1>2, SumExtends
<1>4. Restrict(f, D \union {x}) = f
  BY <1>1, <1>2, SumOfAll
<1> QED
  BY <1>3, <1>4

\* The sum of two and of three numbers.
LEMMA SumOfTwo ==
    ASSUME NEW f \in [1 .. 2 -> Int] PROVE SumFunction(f) = f[1] + f[2]
<1>1. PICK g : g = [k \in 1 .. 1 |-> f[k]]
  OBVIOUS
<1>2. PICK z : z = [k \in 1 .. 0 |-> f[k]]
  OBVIOUS
<1>3. g \in [1 .. 1 -> Int] /\ z \in [1 .. 0 -> Int] /\ g[1] = f[1]
      /\ (\A k \in 1 .. 1 : g[k] = f[k]) /\ (\A k \in 1 .. 0 : z[k] = g[k])
      /\ DOMAIN z = {} /\ z = [k \in {} |-> z[k]]
  BY <1>1, <1>2
<1>4. SumFunction(z) = 0
  BY <1>3, SumOfNothing
<1>5. SumFunction(g) = g[1] + SumFunction(z)
  <2>1. PICK n \in Nat : n = 0
    OBVIOUS
  <2>2. g \in [1 .. n + 1 -> Int] /\ z \in [1 .. n -> Int] /\ \A k \in 1 .. n : z[k] = g[k]
    BY <1>3, <2>1
  <2>3. SumFunction(g) = g[n + 1] + SumFunction(z)
    BY <2>2, SumOfPrefix
  <2> QED
    BY <2>1, <2>3
<1>6. SumFunction(f) = f[2] + SumFunction(g)
  <2>1. PICK n \in Nat : n = 1
    OBVIOUS
  <2>2. f \in [1 .. n + 1 -> Int] /\ g \in [1 .. n -> Int] /\ \A k \in 1 .. n : g[k] = f[k]
    BY <1>3, <2>1
  <2>3. SumFunction(f) = f[n + 1] + SumFunction(g)
    BY <2>2, SumOfPrefix
  <2> QED
    BY <2>1, <2>3
<1>7. f[1] \in Int /\ f[2] \in Int
  OBVIOUS
<1> QED
  BY <1>3, <1>4, <1>5, <1>6, <1>7

LEMMA SumOfThree ==
    ASSUME NEW f \in [1 .. 3 -> Int] PROVE SumFunction(f) = f[1] + f[2] + f[3]
<1>1. PICK g : g = [k \in 1 .. 2 |-> f[k]]
  OBVIOUS
<1>2. g \in [1 .. 2 -> Int] /\ g[1] = f[1] /\ g[2] = f[2] /\ \A k \in 1 .. 2 : g[k] = f[k]
  BY <1>1
<1>3. SumFunction(f) = f[3] + SumFunction(g)
  <2>1. PICK n \in Nat : n = 2
    OBVIOUS
  <2>2. f \in [1 .. n + 1 -> Int] /\ g \in [1 .. n -> Int] /\ \A k \in 1 .. n : g[k] = f[k]
    BY <1>2, <2>1
  <2>3. SumFunction(f) = f[n + 1] + SumFunction(g)
    BY <2>2, SumOfPrefix
  <2> QED
    BY <2>1, <2>3
<1>4. SumFunction(g) = g[1] + g[2]
  BY <1>2, SumOfTwo
<1>5. f[1] \in Int /\ f[2] \in Int /\ f[3] \in Int
  OBVIOUS
<1> QED
  BY <1>2, <1>3, <1>4, <1>5

\* Short tuples join as they read.
LEMMA JoinedTuples ==
    ASSUME NEW a, NEW b, NEW c
    PROVE  /\ << a >> \o <<>> = << a >>
           /\ << a >> \o << b >> = << a, b >>
           /\ << a, b >> \o << c >> = << a, b, c >>
<1>1. PICK S : S = {a, b, c}
  OBVIOUS
<1>2. a \in S /\ b \in S /\ c \in S
  BY <1>1
<1>3. << a >> \in Seq(S) /\ << a, b >> \in Seq(S)
  BY <1>2
<1>4. << a >> \o <<>> = << a >>
  BY <1>3, ConcatEmptySeq
<1>5. << a >> \o << b >> = Append(<< a >>, b) /\ << a, b >> \o << c >> = Append(<< a, b >>, c)
  BY <1>2, <1>3, AppendIsConcat
<1>6. Append(<< a >>, b) = << a, b >>
  <2>1. PICK s \in Seq(S), t \in Seq(S) : s = Append(<< a >>, b) /\ t = << a, b >>
    BY <1>2, <1>3, AppendElements
  <2>2. Len(s) = 2 /\ Len(t) = 2 /\ s[1] = a /\ t[1] = a /\ s[2] = b /\ t[2] = b
    BY <1>2, <1>3, <2>1, AppendElements
  <2>3. \A i \in 1 .. Len(s) : s[i] = t[i]
    BY <2>2
  <2> QED
    BY <2>1, <2>2, <2>3, SeqEqual
<1>7. Append(<< a, b >>, c) = << a, b, c >>
  <2>0. Append(<< a, b >>, c) \in Seq(S) /\ << a, b, c >> \in Seq(S)
    <3>1. << a, b, c >> \in Seq(S)
      BY <1>2
    <3>2. Append(<< a, b >>, c) \in Seq(S)
      BY <1>2, <1>3, AppendElements
    <3> QED
      BY <3>1, <3>2
  <2>1. PICK s \in Seq(S), t \in Seq(S) : s = Append(<< a, b >>, c) /\ t = << a, b, c >>
    BY <2>0
  <2>2. /\ Len(s) = 3 /\ Len(t) = 3 /\ s[1] = a /\ t[1] = a
        /\ s[2] = b /\ t[2] = b /\ s[3] = c /\ t[3] = c
    BY <1>2, <1>3, <2>1, AppendElements
  <2>3. \A i \in 1 .. Len(s) : s[i] = t[i]
    BY <2>2
  <2> QED
    BY <2>1, <2>2, <2>3, SeqEqual
<1> QED
  BY <1>4, <1>5, <1>6, <1>7

\* Two sets that do not meet have as many elements together as each.
LEMMA SizeOfParts ==
    ASSUME NEW S, IsFiniteSet(S), NEW T, IsFiniteSet(T), S \cap T = {}
    PROVE  /\ IsFiniteSet(S \union T)
           /\ Cardinality(S \union T) = Cardinality(S) + Cardinality(T)
<1>1. Cardinality(S \cap T) = 0
  BY FS_EmptySet
<1>2. Cardinality(S \union T) = Cardinality(S) + Cardinality(T) - Cardinality(S \cap T)
      /\ IsFiniteSet(S \union T)
  BY FS_Union, Zenon
<1>3. Cardinality(S) \in Nat /\ Cardinality(T) \in Nat
  BY FS_CardinalityType
<1> QED
  BY <1>1, <1>2, <1>3

\* A finite set of numbers that is not empty has a greatest element.
LEMMA GreatestElement ==
    ASSUME NEW S \in SUBSET Nat, IsFiniteSet(S), S # {}
    PROVE  \E x \in S : \A y \in S : y <= x
<1> DEFINE P == {s \in SUBSET S : s = {} \/ \E x \in s : \A y \in s : y <= x}
<1>1. {} \in P
  OBVIOUS
<1>2. ASSUME NEW s \in P, NEW x \in S \ s PROVE s \union {x} \in P
  <2>1. CASE s = {}
    BY <2>1
  <2>2. CASE s # {}
    <3>1. PICK z \in s : \A y \in s : y <= z
      BY <2>2
    <3>2. CASE x <= z
      BY <3>1, <3>2
    <3>3. CASE ~(x <= z)
      <4>1. x \in Nat /\ \A y \in s : y \in Nat /\ y <= x
        BY <3>1, <3>3
      <4> QED
        BY <4>1
    <3> QED
      BY <3>2, <3>3
  <2> QED
    BY <2>1, <2>2
<1>3. S \in P
  <2> HIDE DEF P
  <2>1. P \in SUBSET (SUBSET S)
    BY DEF P
  <2> QED
    BY <1>1, <1>2, <2>1, FiniteInduction
<1> QED
  BY <1>3

-----------------------------------------------------------------------------
(* A fold over a finite index set: a recursive function of the sets of     *)
(* indices not yet taken exists, whatever picks the next index.            *)
IsFold(g, D, base, F, pick) ==
    \A s \in SUBSET D : g[s] = IF s = {} THEN base ELSE F[<<pick[s], g[s \ {pick[s]}]>>]

LEMMA FoldExists ==
    ASSUME NEW D, IsFiniteSet(D), NEW T, NEW base \in T, NEW F \in [D \X T -> T],
           NEW pick, \A s \in SUBSET D : s # {} => pick[s] \in s
    PROVE  \E g \in [SUBSET D -> T] : IsFold(g, D, base, F, pick)
<1> DEFINE Step(g, s) == IF s = {} THEN base ELSE F[<<pick[s], g[s \ {pick[s]}]>>]
           U == {n \in Nat : \E g \in [SUBSET D -> T] :
                   \A s \in SUBSET D : Cardinality(s) <= n => g[s] = Step(g, s)}
<1>1. \A s \in SUBSET D : IsFiniteSet(s) /\ Cardinality(s) \in Nat
  BY FS_Subset, FS_CardinalityType
<1>2. ASSUME NEW s \in SUBSET D, s # {}
      PROVE  s \ {pick[s]} \in SUBSET D /\ Cardinality(s \ {pick[s]}) = Cardinality(s) - 1
  BY <1>1, <1>2, FS_RemoveElement
<1>3. \A g \in [SUBSET D -> T], s \in SUBSET D : Step(g, s) \in T
  OBVIOUS
<1>4. 0 \in U
  <2> DEFINE g == [s \in SUBSET D |-> base]
  <2>1. \A s \in SUBSET D : Cardinality(s) <= 0 => g[s] = Step(g, s)
    BY <1>1, FS_EmptySet
  <2>2. g \in [SUBSET D -> T]
    OBVIOUS
  <2> HIDE DEF g, Step
  <2> QED
    BY <2>1, <2>2
<1>5. ASSUME NEW n \in Nat, n \in U PROVE n + 1 \in U
  <2>1. PICK g \in [SUBSET D -> T] :
          \A s \in SUBSET D : Cardinality(s) <= n => g[s] = Step(g, s)
    BY <1>5
  <2> DEFINE h == [s \in SUBSET D |-> IF Cardinality(s) <= n THEN g[s] ELSE Step(g, s)]
  <2>2. h \in [SUBSET D -> T]
    BY <1>3
  <2>3. \A s \in SUBSET D : h[s] = IF Cardinality(s) <= n THEN g[s] ELSE Step(g, s)
    OBVIOUS
  <2> HIDE DEF h
  <2>4. ASSUME NEW s \in SUBSET D, Cardinality(s) <= n + 1 PROVE h[s] = Step(h, s)
    <3>1. h[s] = Step(g, s)
      BY <2>1, <2>3
    <3>2. CASE s = {}
      BY <3>1, <3>2
    <3>3. CASE s # {}
      <4>1. s \ {pick[s]} \in SUBSET D /\ Cardinality(s \ {pick[s]}) <= n
        BY <1>1, <1>2, <2>4, <3>3
      <4>2. h[s \ {pick[s]}] = g[s \ {pick[s]}]
        BY <2>3, <4>1
      <4> QED
        BY <3>1, <3>3, <4>2
    <3> QED
      BY <3>2, <3>3
  <2> HIDE DEF Step
  <2> QED
    BY <2>2, <2>4
<1>6. Cardinality(D) \in U
  <2> HIDE DEF U
  <2>1. Nat \subseteq U
    BY <1>4, <1>5, SetInduction
  <2> QED
    BY <1>1, <2>1
<1>7. PICK g \in [SUBSET D -> T] :
        \A s \in SUBSET D : Cardinality(s) <= Cardinality(D) => g[s] = Step(g, s)
  BY <1>6
<1>8. \A s \in SUBSET D : Cardinality(s) <= Cardinality(D)
  BY FS_Subset
<1> QED
  BY <1>7, <1>8 DEF IsFold

(* A finite set of numbers can be listed in their order.                   *)
LEMMA SortedListing ==
    ASSUME NEW S \in SUBSET Nat, IsFiniteSet(S)
    PROVE  \E q \in [1 .. Cardinality(S) -> S] : \A m, n \in DOMAIN q : m < n => q[m] < q[n]
<1> DEFINE Listed(s) == \E q \in [1 .. Cardinality(s) -> s] :
                          \A m, n \in DOMAIN q : m < n => q[m] < q[n]
           T == {k \in Nat : \A s \in SUBSET S : Cardinality(s) = k => Listed(s)}
<1>1. \A s \in SUBSET S : IsFiniteSet(s) /\ Cardinality(s) \in Nat
  BY FS_Subset, FS_CardinalityType
<1>2. 0 \in T
  <2> SUFFICES ASSUME NEW s \in SUBSET S, Cardinality(s) = 0 PROVE Listed(s)
    OBVIOUS
  <2>1. PICK q : q = [n \in 1 .. 0 |-> n]
    OBVIOUS
  <2>2. DOMAIN q = {} /\ q \in [1 .. Cardinality(s) -> s]
    BY <2>1
  <2> QED
    BY <2>2
<1>3. ASSUME NEW k \in Nat, k \in T PROVE k + 1 \in T
  <2> SUFFICES ASSUME NEW s \in SUBSET S, Cardinality(s) = k + 1 PROVE Listed(s)
    OBVIOUS
  <2>1. PICK x \in s : \A y \in s : y <= x
    <3>1. IsFiniteSet(s) /\ s \in SUBSET Nat /\ s # {}
      BY <1>1, FS_EmptySet
    <3> QED
      BY <3>1, GreatestElement
  <2>2. Cardinality(s \ {x}) = k /\ s \ {x} \in SUBSET S
    BY <1>1, FS_RemoveElement
  <2>3. PICK q \in [1 .. k -> s \ {x}] : \A m, n \in DOMAIN q : m < n => q[m] < q[n]
    BY <1>3, <2>2
  <2>4. PICK r : r = [n \in 1 .. k + 1 |-> IF n = k + 1 THEN x ELSE q[n]]
    OBVIOUS
  <2>5. r \in [1 .. Cardinality(s) -> s]
    BY <2>3, <2>4
  <2>6. ASSUME NEW m \in 1 .. k + 1, NEW n \in 1 .. k + 1, m < n PROVE r[m] < r[n]
    <3>1. m \in 1 .. k /\ r[m] = q[m]
      BY <2>4, <2>6
    <3>2. CASE n = k + 1
      <4>1. q[m] \in s \ {x} /\ r[n] = x
        BY <2>3, <2>4, <3>1, <3>2
      <4>2. q[m] \in Nat /\ x \in Nat /\ q[m] <= x /\ q[m] # x
        BY <2>1, <4>1
      <4>3. q[m] < x
        BY <4>2
      <4> QED
        BY <3>1, <4>1, <4>3
    <3>3. CASE n # k + 1
      BY <2>3, <2>4, <2>6, <3>1, <3>3
    <3> QED
      BY <3>2, <3>3
  <2> QED
    BY <2>5, <2>6
<1>4. Cardinality(S) \in T
  <2> HIDE DEF T
  <2>1. Nat \subseteq T
    BY <1>2, <1>3, SetInduction
  <2> QED
    BY <1>1, <2>1
<1> QED
  BY <1>4

-----------------------------------------------------------------------------
(***************************************************************************)
(* A function defined by a loop: there is one, and what each round keeps   *)
(* it keeps.                                                               *)
(***************************************************************************)
Loops(g, n, x, F) == g[0] = x /\ \A k \in 1 .. n : g[k] = F[<<k, g[k - 1]>>]

LEMMA RoundsExist ==
    ASSUME NEW n \in Nat, NEW S, NEW x \in S, NEW F \in [(1 .. n) \X S -> S]
    PROVE  \E g \in [0 .. n -> S] : Loops(g, n, x, F)
<1> DEFINE T == {m \in Nat : \E g \in [0 .. n -> S] :
                   g[0] = x /\ \A k \in 1 .. n : k <= m => g[k] = F[<<k, g[k - 1]>>]}
<1>1. 0 \in T
  <2>1. PICK g : g = [k \in 0 .. n |-> x]
    OBVIOUS
  <2> QED
    BY <2>1
<1>2. ASSUME NEW m \in Nat, m \in T PROVE m + 1 \in T
  <2>1. PICK g \in [0 .. n -> S] : g[0] = x /\ \A k \in 1 .. n : k <= m => g[k] = F[<<k, g[k - 1]>>]
    BY <1>2
  <2>2. CASE m + 1 \in 1 .. n
    <3>1. PICK y \in S : y = F[<<m + 1, g[m]>>]
      <4>1. m \in 0 .. n
        BY <2>2
      <4> QED
        BY <2>2, <4>1
    <3>2. PICK h \in [0 .. n -> S] : h = [k \in 0 .. n |-> IF k = m + 1 THEN y ELSE g[k]]
      OBVIOUS
    <3>3. h[0] = x
      BY <2>1, <3>2
    <3>4. ASSUME NEW k \in 1 .. n, k <= m + 1 PROVE h[k] = F[<<k, h[k - 1]>>]
      <4>1. CASE k = m + 1
        <5>1. h[k] = y /\ h[k - 1] = g[m]
          BY <2>2, <3>2, <4>1
        <5> QED
          BY <3>1, <4>1, <5>1
      <4>2. CASE k # m + 1
        <5>1. k <= m /\ h[k] = g[k] /\ h[k - 1] = g[k - 1]
          BY <3>2, <3>4, <4>2
        <5> QED
          BY <2>1, <5>1
      <4> QED
        BY <4>1, <4>2
    <3> QED
      BY <3>3, <3>4
  <2>3. CASE m + 1 \notin 1 .. n
    <3>1. \A k \in 1 .. n : k <= m
      BY <2>3
    <3> QED
      BY <2>1, <3>1
  <2> QED
    BY <2>2, <2>3
<1>3. n \in T
  <2> HIDE DEF T
  <2>1. Nat \subseteq T
    BY <1>1, <1>2, SetInduction
  <2> QED
    BY <2>1
<1> QED
  BY <1>3 DEF Loops

LEMMA RoundsKeep ==
    ASSUME NEW n \in Nat, NEW S, NEW g, g[0] \in S[0],
           \A k \in 1 .. n : g[k - 1] \in S[k - 1] => g[k] \in S[k]
    PROVE  \A k \in 0 .. n : g[k] \in S[k]
<1> DEFINE T == {k \in Nat : k <= n => g[k] \in S[k]}
<1>1. 0 \in T
  OBVIOUS
<1>2. ASSUME NEW k \in Nat, k \in T PROVE k + 1 \in T
  <2> SUFFICES ASSUME k + 1 <= n PROVE g[k + 1] \in S[k + 1]
    OBVIOUS
  <2>1. PICK j \in 1 .. n : j = k + 1
    OBVIOUS
  <2>2. j - 1 = k /\ g[k] \in S[k]
    BY <1>2, <2>1
  <2> QED
    BY <2>1, <2>2
<1>3. Nat \subseteq T
  <2> HIDE DEF T
  <2> QED
    BY <1>1, <1>2, SetInduction
<1> QED
  BY <1>3
=============================================================================
