-------------------------- MODULE AccountingProofs --------------------------
(***************************************************************************)
(* The table of the Reassembler, for any number of peers, any sizes, any   *)
(* budget and any TTL: each entry counts the bytes of its slices, #bytes   *)
(* is the sum over the table, the sum fits the budget, the table is a Map  *)
(* in the order its keys were set, and an entry that goes before its time  *)
(* goes for a reason.                                                      *)
(*                                                                         *)
(* The first part is about finite sums of natural numbers and the greatest *)
(* of finitely many: what SumFunctionOnSet and Max compute, for every      *)
(* function and every finite set.  Each induction there is over the        *)
(* subsets of a finite set, and is done by looking at a smallest subset of *)
(* which the claim would be false.                                         *)
(***************************************************************************)
EXTENDS ReassemblyProofs

-----------------------------------------------------------------------------
(* Finite sums.                                                            *)

Pick(s) == CHOOSE x \in s : TRUE

\* g is the function that the fold defines on the subsets of S.
IsSum(g, f, S) ==
  g = [s \in SUBSET S |->
         IF s = {} THEN 0 ELSE f[Pick(s)] + g[s \ {Pick(s)}]]

LEMMA SumUnfold ==
  ASSUME NEW f, NEW S
  PROVE SumFunctionOnSet(f, S) = (CHOOSE g : IsSum(g, f, S))[S]
BY DEF SumFunctionOnSet, FoldFunctionOnSet, MapThenFoldSet, IsSum, Pick

LEMMA PickIn == ASSUME NEW s, s # {} PROVE Pick(s) \in s
BY DEF Pick

\* A set of subsets of a finite set has a smallest member.
LEMMA Smallest ==
  ASSUME NEW S, IsFiniteSet(S), NEW F \in SUBSET (SUBSET S), F # {}
  PROVE  \E T \in F : \A U \in F : U \subseteq T => U = T
<1>1. IsWellFoundedOn(StrictSubsetOrdering(S), SUBSET S)
  BY FS_StrictSubsetOrderingWellFounded, FS_FiniteSubsetsOfFinite
<1>2. PICK T \in F : \A U \in F : ~ (<<U, T>> \in StrictSubsetOrdering(S))
  BY <1>1, WFMin
<1>3. \A U \in F : U \subseteq T => U = T
  BY <1>2 DEF StrictSubsetOrdering
<1> QED
  BY <1>3

LEMMA SumUnique ==
  ASSUME NEW S, IsFiniteSet(S), NEW f, NEW g, NEW h, IsSum(g, f, S), IsSum(h, f, S)
  PROVE  g = h
<1> DEFINE F == {s \in SUBSET S : g[s] # h[s]}
<1>1. CASE F = {}
  BY <1>1 DEF IsSum
<1>2. CASE F # {}
  <2>1. PICK T \in F : \A U \in F : U \subseteq T => U = T
    <3>1. F \in SUBSET (SUBSET S)
      OBVIOUS
    <3> HIDE DEF F
    <3> QED
      BY <1>2, <3>1, Smallest
  <2>2. CASE T = {}
    BY <2>2 DEF IsSum
  <2>3. CASE T # {}
    <3> DEFINE U == T \ {Pick(T)}
    <3>1. U \in SUBSET S /\ U \subseteq T /\ U # T
      BY <2>1, <2>3, PickIn
    <3>2. g[U] = h[U]
      BY <2>1, <3>1
    <3>3. g[T] = f[Pick(T)] + g[U] /\ h[T] = f[Pick(T)] + h[U]
      BY <2>1, <2>3 DEF IsSum
    <3> QED
      BY <3>2, <3>3
  <2> QED
    BY <2>2, <2>3
<1> QED
  BY <1>1, <1>2

LEMMA SumRestrict ==
  ASSUME NEW S, NEW f, NEW g, IsSum(g, f, S), NEW T \in SUBSET S
  PROVE  IsSum([s \in SUBSET T |-> g[s]], f, T)
<1> DEFINE h == [s \in SUBSET T |-> g[s]]
<1>1. ASSUME NEW s \in SUBSET T
      PROVE  h[s] = IF s = {} THEN 0 ELSE f[Pick(s)] + h[s \ {Pick(s)}]
  <2>1. s \in SUBSET S /\ s \ {Pick(s)} \in SUBSET T
    OBVIOUS
  <2>2. g[s] = IF s = {} THEN 0 ELSE f[Pick(s)] + g[s \ {Pick(s)}]
    BY <2>1 DEF IsSum
  <2> QED
    BY <2>1, <2>2
<1>2. h = [s \in SUBSET T |->
             IF s = {} THEN 0 ELSE f[Pick(s)] + h[s \ {Pick(s)}]]
  BY <1>1
<1> QED
  BY <1>2 DEF IsSum

LEMMA SumExists ==
  ASSUME NEW S, IsFiniteSet(S), NEW f
  PROVE  \E g : IsSum(g, f, S)
<1> DEFINE F == {s \in SUBSET S : ~ \E g : IsSum(g, f, s)}
<1> SUFFICES ASSUME F # {} PROVE FALSE
  OBVIOUS
<1>1. PICK T \in F : \A U \in F : U \subseteq T => U = T
  <2>1. F \in SUBSET (SUBSET S)
    OBVIOUS
  <2> HIDE DEF F
  <2> QED
    BY <2>1, Smallest
<1>2. \A U \in SUBSET T : U # T => \E g : IsSum(g, f, U)
  BY <1>1
<1> DEFINE H(U) == CHOOSE g : IsSum(g, f, U)
           g == [s \in SUBSET T |->
                  IF s = {} THEN 0
                  ELSE f[Pick(s)] + H(s \ {Pick(s)})[s \ {Pick(s)}]]
<1>3. \A U \in SUBSET T : U # T => IsSum(H(U), f, U)
  BY <1>2
<1>4. ASSUME NEW s \in SUBSET T, s # T PROVE g[s] = H(s)[s]
  <2>1. IsSum(H(s), f, s)
    BY <1>3, <1>4
  <2>2. CASE s = {}
    <3>1. H(s)[s] = 0
      BY <2>1, <2>2 DEF IsSum
    <3> QED
      BY <2>2, <3>1
  <2>3. CASE s # {}
    <3> DEFINE u == s \ {Pick(s)}
    <3>1. u \in SUBSET s /\ u \in SUBSET T /\ u # T
      BY <1>4
    <3>2. H(s)[s] = f[Pick(s)] + H(s)[u]
      BY <2>1, <2>3 DEF IsSum
    <3>3. IsSum([v \in SUBSET u |-> H(s)[v]], f, u)
      BY <2>1, <3>1, SumRestrict
    <3>4. IsSum(H(u), f, u)
      BY <1>3, <3>1
    <3>5. IsFiniteSet(u)
      BY <3>1, FS_Subset
    <3>6. H(u) = [v \in SUBSET u |-> H(s)[v]]
      BY <3>3, <3>4, <3>5, SumUnique
    <3>7. H(u)[u] = H(s)[u]
      BY <3>6
    <3> QED
      BY <2>3, <3>2, <3>7
  <2> QED
    BY <2>2, <2>3
<1>5. ASSUME NEW s \in SUBSET T, s # {}
      PROVE  g[s] = f[Pick(s)] + g[s \ {Pick(s)}]
  <2> DEFINE u == s \ {Pick(s)}
  <2>1. u \in SUBSET T /\ u # T
    BY <1>5, PickIn
  <2>2. g[u] = H(u)[u]
    BY <1>4, <2>1
  <2>3. g[s] = f[Pick(s)] + H(u)[u]
    BY <1>5
  <2> QED
    BY <2>2, <2>3
<1>6. g = [s \in SUBSET T |->
             IF s = {} THEN 0 ELSE f[Pick(s)] + g[s \ {Pick(s)}]]
  <2> HIDE DEF H
  <2>1. g[{}] = 0
    OBVIOUS
  <2>2. DOMAIN g = SUBSET T /\ g = [s \in SUBSET T |-> g[s]]
    OBVIOUS
  <2> HIDE DEF g
  <2> QED
    BY <1>5, <2>1, <2>2
<1> HIDE DEF g
<1>7. IsSum(g, f, T)
  BY <1>6 DEF IsSum
<1> QED
  BY <1>1, <1>7

Sum(f, S) == SumFunctionOnSet(f, S)

LEMMA SumIsSum ==
  ASSUME NEW S, IsFiniteSet(S), NEW f, NEW g, IsSum(g, f, S)
  PROVE  Sum(f, S) = g[S]
<1>1. IsSum(CHOOSE h : IsSum(h, f, S), f, S)
  OBVIOUS
<1>2. (CHOOSE h : IsSum(h, f, S)) = g
  BY <1>1, SumUnique
<1> QED
  BY <1>2, SumUnfold DEF Sum

LEMMA SumEmpty == ASSUME NEW f PROVE Sum(f, {}) = 0
<1>1. IsFiniteSet({})
  BY FS_EmptySet
<1>2. PICK g : IsSum(g, f, {})
  BY <1>1, SumExists
<1>3. g[{}] = 0
  BY <1>2 DEF IsSum
<1> QED
  BY <1>1, <1>2, <1>3, SumIsSum

LEMMA SumStep ==
  ASSUME NEW S, IsFiniteSet(S), S # {}, NEW f
  PROVE  Sum(f, S) = f[Pick(S)] + Sum(f, S \ {Pick(S)})
<1> DEFINE T == S \ {Pick(S)}
<1>1. PICK g : IsSum(g, f, S)
  BY SumExists
<1>2. IsFiniteSet(T) /\ T \in SUBSET S
  BY FS_Subset
<1>3. IsSum([s \in SUBSET T |-> g[s]], f, T)
  BY <1>1, <1>2, SumRestrict
<1> DEFINE h == [s \in SUBSET T |-> g[s]]
<1>4. h[T] = g[T]
  OBVIOUS
<1>5. Sum(f, T) = h[T]
  <2> HIDE DEF T, h
  <2> QED
    BY <1>2, <1>3, SumIsSum DEF h
<1>6. Sum(f, S) = g[S]
  BY <1>1, SumIsSum
<1>7. g[S] = f[Pick(S)] + g[T]
  BY <1>1 DEF IsSum
<1> QED
  BY <1>4, <1>5, <1>6, <1>7

LEMMA SumType ==
  ASSUME NEW S, IsFiniteSet(S), NEW f, \A x \in S : f[x] \in Nat
  PROVE  Sum(f, S) \in Nat
<1> DEFINE F == {s \in SUBSET S : Sum(f, s) \notin Nat}
<1> SUFFICES ASSUME F # {} PROVE FALSE
  OBVIOUS
<1>1. PICK T \in F : \A U \in F : U \subseteq T => U = T
  <2>1. F \in SUBSET (SUBSET S)
    OBVIOUS
  <2> HIDE DEF F
  <2> QED
    BY <2>1, Smallest
<1>2. T # {}
  <2>1. Sum(f, {}) \in Nat
    BY SumEmpty
  <2> QED
    BY <1>1, <2>1
<1>3. Pick(T) \in T /\ IsFiniteSet(T)
  BY <1>1, <1>2, PickIn, FS_Subset
<1>4. Sum(f, T \ {Pick(T)}) \in Nat
  BY <1>1, <1>3
<1>5. Sum(f, T) = f[Pick(T)] + Sum(f, T \ {Pick(T)})
  BY <1>2, <1>3, SumStep
<1> QED
  BY <1>1, <1>3, <1>4, <1>5

\* Whichever element the fold takes first, the sum is the same.
LEMMA SumRemove ==
  ASSUME NEW S, IsFiniteSet(S), NEW f, \A x \in S : f[x] \in Nat,
         NEW a \in S
  PROVE  Sum(f, S) = f[a] + Sum(f, S \ {a})
<1> DEFINE F == {s \in SUBSET S :
                   \E x \in s : Sum(f, s) # f[x] + Sum(f, s \ {x})}
<1> SUFFICES ASSUME F # {} PROVE FALSE
  OBVIOUS
<1>1. PICK T \in F : \A U \in F : U \subseteq T => U = T
  <2>1. F \in SUBSET (SUBSET S)
    OBVIOUS
  <2> HIDE DEF F
  <2> QED
    BY <2>1, Smallest
<1>2. PICK x \in T : Sum(f, T) # f[x] + Sum(f, T \ {x})
  BY <1>1
<1> DEFINE c == Pick(T)
<1>3. c \in T /\ IsFiniteSet(T) /\ T \in SUBSET S
  BY <1>1, <1>2, PickIn, FS_Subset
<1> HIDE DEF c
<1>4. Sum(f, T) = f[c] + Sum(f, T \ {c})
  BY <1>2, <1>3, SumStep DEF c
<1>5. c # x
  BY <1>2, <1>4
<1>6. \A U \in SUBSET T : U # T =>
        \A y \in U : Sum(f, U) = f[y] + Sum(f, U \ {y})
  BY <1>1, <1>3
<1>7. /\ Sum(f, T \ {c}) = f[x] + Sum(f, (T \ {c}) \ {x})
      /\ Sum(f, T \ {x}) = f[c] + Sum(f, (T \ {x}) \ {c})
  <2>1. /\ T \ {c} \in SUBSET T /\ T \ {c} # T /\ x \in T \ {c}
        /\ T \ {x} \in SUBSET T /\ T \ {x} # T /\ c \in T \ {x}
    BY <1>3, <1>5
  <2> QED
    BY <1>6, <2>1
<1>8. (T \ {x}) \ {c} = (T \ {c}) \ {x}
  OBVIOUS
<1>9. Sum(f, (T \ {c}) \ {x}) \in Nat
  <2>1. IsFiniteSet((T \ {c}) \ {x})
    BY <1>3, FS_Subset
  <2> QED
    BY <1>3, <2>1, SumType
<1>10. f[x] \in Nat /\ f[c] \in Nat
  BY <1>3
<1> QED
  BY <1>2, <1>4, <1>7, <1>8, <1>9, <1>10

LEMMA SumAdd ==
  ASSUME NEW S, IsFiniteSet(S), NEW a, a \notin S, NEW f,
         \A x \in S \cup {a} : f[x] \in Nat
  PROVE  Sum(f, S \cup {a}) = f[a] + Sum(f, S)
<1>1. IsFiniteSet(S \cup {a})
  BY FS_AddElement
<1>2. (S \cup {a}) \ {a} = S
  OBVIOUS
<1> QED
  BY <1>1, <1>2, SumRemove

\* Only the values on the set matter.
LEMMA SumSame ==
  ASSUME NEW S, IsFiniteSet(S), NEW f, NEW g, \A x \in S : f[x] = g[x]
  PROVE  Sum(f, S) = Sum(g, S)
<1> DEFINE F == {s \in SUBSET S : Sum(f, s) # Sum(g, s)}
<1> SUFFICES ASSUME F # {} PROVE FALSE
  OBVIOUS
<1>1. PICK T \in F : \A U \in F : U \subseteq T => U = T
  <2>1. F \in SUBSET (SUBSET S)
    OBVIOUS
  <2> HIDE DEF F
  <2> QED
    BY <2>1, Smallest
<1>2. T # {}
  BY <1>1, SumEmpty
<1>3. Pick(T) \in T /\ IsFiniteSet(T)
  BY <1>1, <1>2, PickIn, FS_Subset
<1>4. Sum(f, T \ {Pick(T)}) = Sum(g, T \ {Pick(T)})
  BY <1>1, <1>3
<1>5. /\ Sum(f, T) = f[Pick(T)] + Sum(f, T \ {Pick(T)})
      /\ Sum(g, T) = g[Pick(T)] + Sum(g, T \ {Pick(T)})
  BY <1>2, <1>3, SumStep
<1> QED
  BY <1>1, <1>3, <1>4, <1>5

LEMMA SumDifference ==
  ASSUME NEW S, IsFiniteSet(S), NEW f, \A x \in S : f[x] \in Nat,
         NEW D \in SUBSET S
  PROVE  Sum(f, S) = Sum(f, D) + Sum(f, S \ D)
<1> DEFINE F == {s \in SUBSET D : Sum(f, S) # Sum(f, s) + Sum(f, S \ s)}
<1> SUFFICES ASSUME F # {} PROVE FALSE
  OBVIOUS
<1>1. IsFiniteSet(D)
  BY FS_Subset
<1>2. PICK T \in F : \A U \in F : U \subseteq T => U = T
  <2>1. F \in SUBSET (SUBSET D)
    OBVIOUS
  <2> HIDE DEF F
  <2> QED
    BY <1>1, <2>1, Smallest
<1>3. T # {}
  <2>1. S \ {} = S /\ Sum(f, S) \in Nat /\ Sum(f, {}) = 0
    BY SumType, SumEmpty
  <2>2. Sum(f, S) = Sum(f, {}) + Sum(f, S \ {})
    BY <2>1
  <2> QED
    BY <1>2, <2>2
<1>4. PICK a : a \in T
  BY <1>3
<1>5. IsFiniteSet(T) /\ IsFiniteSet(T \ {a}) /\ IsFiniteSet(S \ T)
  BY <1>1, <1>2, FS_Subset
<1>6. Sum(f, S) = Sum(f, T \ {a}) + Sum(f, S \ (T \ {a}))
  BY <1>2, <1>4
<1>7. Sum(f, T) = f[a] + Sum(f, T \ {a})
  BY <1>2, <1>4, <1>5, SumRemove
<1>8. S \ (T \ {a}) = (S \ T) \cup {a} /\ a \notin S \ T
  BY <1>2, <1>4
<1>9. Sum(f, (S \ T) \cup {a}) = f[a] + Sum(f, S \ T)
  BY <1>2, <1>4, <1>5, SumAdd
<1>10. Sum(f, T \ {a}) \in Nat /\ Sum(f, S \ T) \in Nat /\ f[a] \in Nat
  BY <1>2, <1>4, <1>5, SumType
<1>11. Sum(f, S) = Sum(f, T) + Sum(f, S \ T)
  <2>1. Sum(f, T \ {a}) \in Nat
    BY <1>2, <1>5, SumType
  <2>2. Sum(f, S \ (T \ {a})) = f[a] + Sum(f, S \ T)
    BY <1>8, <1>9
  <2> HIDE DEF F
  <2> QED
    BY <1>6, <1>7, <1>10, <2>1, <2>2
<1> QED
  BY <1>2, <1>11

LEMMA ImageFinite ==
  ASSUME NEW S, IsFiniteSet(S), NEW m
  PROVE  IsFiniteSet({m[x] : x \in S})
<1> DEFINE T == {m[x] : x \in S}
           h == [x \in S |-> m[x]]
<1>1. h \in Surjection(S, T)
  BY DEF Surjection
<1> HIDE DEF T, h
<1>2. IsFiniteSet(T)
  BY <1>1, FS_Surjection
<1> QED
  BY <1>2 DEF T

\* Renaming the elements one to one leaves the sum.
LEMMA SumImage ==
  ASSUME NEW S, IsFiniteSet(S), NEW f, NEW m, NEW g,
         \A x \in S : f[x] \in Nat /\ g[m[x]] = f[x],
         \A x, y \in S : m[x] = m[y] => x = y
  PROVE  Sum(g, {m[x] : x \in S}) = Sum(f, S)
<1> DEFINE I(s) == {m[x] : x \in s}
           F == {s \in SUBSET S : Sum(g, I(s)) # Sum(f, s)}
<1> SUFFICES ASSUME F # {} PROVE FALSE
  OBVIOUS
<1>1. PICK T \in F : \A U \in F : U \subseteq T => U = T
  <2>1. F \in SUBSET (SUBSET S)
    OBVIOUS
  <2> HIDE DEF F
  <2> QED
    BY <2>1, Smallest
<1>2. T # {}
  <2>1. I({}) = {}
    OBVIOUS
  <2> QED
    BY <1>1, <2>1, SumEmpty
<1>3. PICK a : a \in T
  BY <1>2
<1>4. IsFiniteSet(T \ {a}) /\ IsFiniteSet(T)
  BY <1>1, FS_Subset
<1>5. Sum(g, I(T \ {a})) = Sum(f, T \ {a})
  BY <1>1, <1>3
<1>6. I(T) = I(T \ {a}) \cup {m[a]} /\ m[a] \notin I(T \ {a})
  BY <1>1, <1>3
<1>7. IsFiniteSet(I(T \ {a}))
  BY <1>4, ImageFinite
<1>8. Sum(g, I(T \ {a}) \cup {m[a]}) = g[m[a]] + Sum(g, I(T \ {a}))
  <2>1. \A y \in I(T \ {a}) \cup {m[a]} : g[y] \in Nat
    BY <1>1, <1>3
  <2> HIDE DEF I
  <2> QED
    BY <1>6, <1>7, <2>1, SumAdd
<1>9. Sum(f, T) = f[a] + Sum(f, T \ {a})
  BY <1>1, <1>3, <1>4, SumRemove
<1> QED
  BY <1>1, <1>3, <1>5, <1>6, <1>8, <1>9

-----------------------------------------------------------------------------
(* The greatest and the least.                                             *)

LEMMA HasGreatest ==
  ASSUME NEW S, IsFiniteSet(S), S # {}, NEW f, \A x \in S : f[x] \in Nat
  PROVE  \E x \in S : \A y \in S : f[y] <= f[x]
<1> DEFINE F == {s \in SUBSET S : s # {} /\ ~ \E x \in s : \A y \in s : f[y] <= f[x]}
<1> SUFFICES ASSUME F # {} PROVE FALSE
  OBVIOUS
<1>1. PICK T \in F : \A U \in F : U \subseteq T => U = T
  <2>1. F \in SUBSET (SUBSET S)
    OBVIOUS
  <2> HIDE DEF F
  <2> QED
    BY <2>1, Smallest
<1>2. PICK a : a \in T
  BY <1>1
<1>3. CASE T = {a}
  BY <1>1, <1>3
<1>4. CASE T # {a}
  <2>1. T \ {a} # {} /\ T \ {a} \notin F
    BY <1>1, <1>2, <1>4
  <2>2. PICK x \in T \ {a} : \A y \in T \ {a} : f[y] <= f[x]
    BY <1>1, <2>1
  <2>3. f[a] \in Nat /\ f[x] \in Nat /\ \A y \in T : f[y] \in Nat
    BY <1>1, <1>2
  <2>4. CASE f[a] <= f[x]
    BY <1>1, <2>2, <2>4
  <2>5. CASE ~(f[a] <= f[x])
    <3>1. \A y \in T : f[y] <= f[a]
      BY <2>2, <2>3, <2>5
    <3> QED
      BY <1>1, <1>2, <3>1
  <2> QED
    BY <2>4, <2>5
<1> QED
  BY <1>3, <1>4

LEMMA HasLeast ==
  ASSUME NEW S, IsFiniteSet(S), S # {}, NEW f, \A x \in S : f[x] \in Nat
  PROVE  \E x \in S : \A y \in S : f[x] <= f[y]
<1> DEFINE F == {s \in SUBSET S : s # {} /\ ~ \E x \in s : \A y \in s : f[x] <= f[y]}
<1> SUFFICES ASSUME F # {} PROVE FALSE
  OBVIOUS
<1>1. PICK T \in F : \A U \in F : U \subseteq T => U = T
  <2>1. F \in SUBSET (SUBSET S)
    OBVIOUS
  <2> HIDE DEF F
  <2> QED
    BY <2>1, Smallest
<1>2. PICK a : a \in T
  BY <1>1
<1>3. CASE T = {a}
  BY <1>1, <1>3
<1>4. CASE T # {a}
  <2>1. T \ {a} # {} /\ T \ {a} \notin F
    BY <1>1, <1>2, <1>4
  <2>2. PICK x \in T \ {a} : \A y \in T \ {a} : f[x] <= f[y]
    BY <1>1, <2>1
  <2>3. f[a] \in Nat /\ f[x] \in Nat /\ \A y \in T : f[y] \in Nat
    BY <1>1, <1>2
  <2>4. CASE f[x] <= f[a]
    BY <1>1, <2>2, <2>4
  <2>5. CASE ~(f[x] <= f[a])
    <3>1. \A y \in T : f[a] <= f[y]
      BY <2>2, <2>3, <2>5
    <3> QED
      BY <1>1, <1>2, <3>1
  <2> QED
    BY <2>4, <2>5
<1> QED
  BY <1>3, <1>4

LEMMA MaxIsGreatest ==
  ASSUME NEW S \in SUBSET Nat, IsFiniteSet(S), S # {}
  PROVE  Max(S) \in S /\ \A y \in S : y <= Max(S)
<1> DEFINE f == [x \in S |-> x]
<1>1. PICK x \in S : \A y \in S : f[y] <= f[x]
  <2>1. \A y \in S : f[y] \in Nat
    OBVIOUS
  <2> HIDE DEF f
  <2> QED
    BY <2>1, HasGreatest
<1>2. \A y \in S : x >= y
  BY <1>1
<1> QED
  BY <1>2 DEF Max

-----------------------------------------------------------------------------
(* Sums of bytes.                                                          *)

\* A set of entries whose bytes can be added up.
HasBytes(entries) ==
  IsFiniteSet(entries) /\ \A e \in entries : e.bytes \in Nat

LEMMA SumOfPart ==
  ASSUME NEW entries, HasBytes(entries), NEW part \in SUBSET entries
  PROVE  /\ HasBytes(part)
         /\ SumBytes(part) = Sum([e \in entries |-> e.bytes], part)
<1>1. HasBytes(part)
  BY FS_Subset DEF HasBytes
<1> DEFINE f == [e \in part |-> e.bytes]
           g == [e \in entries |-> e.bytes]
<1>2. SumBytes(part) = Sum(f, part)
  <2>1. DOMAIN f = part
    OBVIOUS
  <2>2. SumBytes(part) = SumFunctionOnSet(f, DOMAIN f)
    BY DEF SumBytes, SumFunction
  <2> HIDE DEF f
  <2> QED
    BY <2>1, <2>2 DEF Sum
<1>3. \A e \in part : f[e] = g[e]
  OBVIOUS
<1> HIDE DEF f, g
<1>4. SumBytes(part) = Sum(g, part)
  BY <1>1, <1>2, <1>3, SumSame DEF HasBytes
<1> QED
  BY <1>1, <1>4 DEF g

LEMMA NoBytes == SumBytes({}) = 0
<1> DEFINE f == [e \in {} |-> e.bytes]
<1>1. DOMAIN f = {} /\ SumBytes({}) = SumFunctionOnSet(f, DOMAIN f)
  BY DEF SumBytes, SumFunction
<1> HIDE DEF f
<1> QED
  BY <1>1, SumEmpty DEF Sum

\* The sum of a table is that of any part of it and that of the rest.
LEMMA BytesSplit ==
  ASSUME NEW entries, HasBytes(entries), NEW part \in SUBSET entries
  PROVE  /\ SumBytes(entries) \in Nat /\ SumBytes(part) \in Nat
         /\ SumBytes(entries \ part) \in Nat
         /\ SumBytes(entries) = SumBytes(part) + SumBytes(entries \ part)
<1> DEFINE f == [e \in entries |-> e.bytes]
<1>1. \A e \in entries : f[e] \in Nat
  BY DEF HasBytes
<1>2. /\ SumBytes(entries) = Sum(f, entries)
      /\ SumBytes(part) = Sum(f, part)
      /\ SumBytes(entries \ part) = Sum(f, entries \ part)
  BY SumOfPart
<1>3. IsFiniteSet(entries) /\ IsFiniteSet(part) /\ IsFiniteSet(entries \ part)
  BY FS_Subset DEF HasBytes
<1> HIDE DEF f
<1>4. Sum(f, entries) = Sum(f, part) + Sum(f, entries \ part)
  BY <1>1, <1>3, SumDifference
<1>5. /\ Sum(f, entries) \in Nat /\ Sum(f, part) \in Nat
      /\ Sum(f, entries \ part) \in Nat
  BY <1>1, <1>3, SumType
<1> QED
  BY <1>2, <1>4, <1>5

LEMMA BytesAdd ==
  ASSUME NEW entries, HasBytes(entries), NEW e, e \notin entries, e.bytes \in Nat
  PROVE  /\ HasBytes(entries \cup {e})
         /\ SumBytes(entries \cup {e}) = SumBytes(entries) + e.bytes
<1> DEFINE all == entries \cup {e}
           f == [d \in all |-> d.bytes]
<1>1. HasBytes(all)
  BY FS_AddElement DEF HasBytes
<1>2. SumBytes(all) = Sum(f, all) /\ SumBytes(entries) = Sum(f, entries)
  BY <1>1, SumOfPart
<1>3. (\A d \in all : f[d] \in Nat) /\ f[e] = e.bytes
  BY <1>1 DEF HasBytes
<1>4. Sum(f, entries \cup {e}) = f[e] + Sum(f, entries)
  <2> HIDE DEF f
  <2> QED
    BY <1>3, SumAdd DEF HasBytes
<1>5. Sum(f, entries) \in Nat
  <2>1. \A d \in entries : f[d] \in Nat
    BY <1>3
  <2> HIDE DEF f
  <2> QED
    BY <2>1, SumType DEF HasBytes
<1> QED
  BY <1>1, <1>2, <1>3, <1>4, <1>5

\* More entries hold no fewer bytes.
LEMMA BytesMonotonic ==
  ASSUME NEW entries, HasBytes(entries), NEW part \in SUBSET entries
  PROVE  SumBytes(part) <= SumBytes(entries)
<1>1. /\ SumBytes(part) \in Nat /\ SumBytes(entries \ part) \in Nat
      /\ SumBytes(entries) = SumBytes(part) + SumBytes(entries \ part)
  BY BytesSplit
<1> QED
  BY <1>1

LEMMA BytesOfSum ==
  ASSUME NEW chunks
  PROVE  BytesOf(chunks)
           = Sum([i \in Filled(chunks) |-> chunks[i].length], Filled(chunks))
<1> DEFINE f == [i \in Filled(chunks) |-> chunks[i].length]
<1>1. DOMAIN f = Filled(chunks)
  OBVIOUS
<1>2. BytesOf(chunks) = SumFunctionOnSet(f, DOMAIN f)
  BY DEF BytesOf, SumFunction
<1> HIDE DEF f
<1> QED
  BY <1>1, <1>2 DEF Sum, f

\* A chunks array whose slices have lengths.
HasLengths(chunks) ==
  IsFiniteSet(Filled(chunks)) /\ \A i \in Filled(chunks) : chunks[i].length \in Nat

LEMMA BytesOfIsNat ==
  ASSUME NEW chunks, HasLengths(chunks)
  PROVE  BytesOf(chunks) \in Nat
<1> DEFINE f == [i \in Filled(chunks) |-> chunks[i].length]
<1>1. \A i \in Filled(chunks) : f[i] \in Nat
  BY DEF HasLengths
<1>2. BytesOf(chunks) = Sum(f, Filled(chunks))
  BY BytesOfSum
<1> HIDE DEF f
<1> QED
  BY <1>1, <1>2, SumType DEF HasLengths

LEMMA BytesOfNone ==
  ASSUME NEW chunks, Filled(chunks) = {}
  PROVE  BytesOf(chunks) = 0 /\ HasLengths(chunks)
<1>1. HasLengths(chunks)
  BY FS_EmptySet DEF HasLengths
<1> DEFINE f == [i \in Filled(chunks) |-> chunks[i].length]
<1>2. BytesOf(chunks) = Sum(f, {})
  BY BytesOfSum
<1> HIDE DEF f
<1> QED
  BY <1>1, <1>2, SumEmpty

\* A free place is filled: the bytes of its slice are added.
LEMMA BytesOfFill ==
  ASSUME NEW chunks, NEW index \in DOMAIN chunks, chunks[index] = Hole,
         HasLengths(chunks), NEW body, body # Hole, body.length \in Nat,
         chunks = [i \in DOMAIN chunks |-> chunks[i]]
  PROVE  LET more == [chunks EXCEPT ![index] = body]
         IN  /\ HasLengths(more)
             /\ BytesOf(more) = BytesOf(chunks) + body.length
<1> DEFINE more == [chunks EXCEPT ![index] = body]
           old == Filled(chunks)
           f == [i \in old |-> chunks[i].length]
           g == [i \in Filled(more) |-> more[i].length]
<1>1. /\ DOMAIN more = DOMAIN chunks /\ more[index] = body
      /\ \A i \in DOMAIN chunks : i # index => more[i] = chunks[i]
  OBVIOUS
<1> HIDE DEF more
<1>2. Filled(more) = old \cup {index} /\ index \notin old
  BY <1>1 DEF Filled
<1>3. HasLengths(more)
  <2>1. IsFiniteSet(Filled(more))
    BY <1>2, FS_AddElement DEF HasLengths
  <2>2. \A i \in Filled(more) : more[i].length \in Nat
    BY <1>1, <1>2 DEF HasLengths, Filled
  <2> QED
    BY <2>1, <2>2 DEF HasLengths
<1>4. BytesOf(chunks) = Sum(f, old) /\ BytesOf(more) = Sum(g, Filled(more))
  BY BytesOfSum
<1>5. /\ \A i \in old : f[i] = g[i] /\ f[i] \in Nat
      /\ \A i \in old \cup {index} : g[i] \in Nat
      /\ g[index] = body.length
  BY <1>1, <1>2, <1>3 DEF HasLengths, Filled
<1> HIDE DEF f, g, old
<1>6. IsFiniteSet(old)
  BY DEF HasLengths, old
<1>7. Sum(g, old \cup {index}) = g[index] + Sum(g, old)
  BY <1>2, <1>5, <1>6, SumAdd
<1>8. Sum(f, old) = Sum(g, old) /\ Sum(f, old) \in Nat
  BY <1>5, <1>6, SumSame, SumType
<1>9. BytesOf(more) = BytesOf(chunks) + body.length
  BY <1>2, <1>4, <1>5, <1>7, <1>8
<1> QED
  BY <1>3, <1>9 DEF more

-----------------------------------------------------------------------------
(* The invariant of the table.                                             *)

BoundsInv ==
  /\ \A p \in Peers : /\ Len(sent[p]) <= MaxSends
                      /\ \A k \in DOMAIN sent[p] : sent[p][k].size \in Sizes
  /\ faults \in 0..MaxFaults

\* An entry waits for at least one fragment and has at least one, and its count
\* of bytes is that of its slices.
EntryInv(e) ==
  /\ e.total >= 2
  /\ e.received \in 1..(e.total - 1)
  /\ e.age \in 0..(TtlMs + 1)
  /\ e.born \in Nat \ {0}
  /\ e.bytes = BytesOf(e.chunks)

AccountInv ==
  /\ BoundsInv
  /\ IsFiniteSet(pending)
  /\ \A e \in pending : EntryInv(e)
  /\ TableIsMap
  /\ bytes = SumBytes(pending)
  /\ bytes <= MaxPendingBytes

\* A slice has at most as many bytes as fit in a fragment.
LEMMA SliceLength ==
  ASSUME NEW p, NEW k, NEW size \in Nat, NEW index \in 0..(Total(size) - 1)
  PROVE  Slice(p, k, size, index).length \in 0..MaxPayload
<1>1. MaxPayload \in Nat \ {0} /\ index \in Nat
  BY TotalIsNat, ReassemblyAssumption
<1>2. CASE index + 1 < Total(size)
  BY <1>1, <1>2 DEF Slice
<1>3. CASE ~(index + 1 < Total(size))
  <2>1. index + 1 = Total(size)
    BY <1>1, <1>3, TotalIsNat
  <2>2. Slice(p, k, size, index).length = size - index * MaxPayload
    BY <1>3 DEF Slice
  <2>3. CASE size = 0
    <3>1. index = 0
      BY <1>1, <2>1, <2>3 DEF Total
    <3> QED
      BY <1>1, <2>2, <2>3, <3>1
  <2>4. CASE size # 0
    <3>1. PICK n \in Nat : n = size + MaxPayload - 1
      BY <1>1
    <3>2. index + 1 = n \div MaxPayload
      BY <2>1, <2>4, <3>1 DEF Total
    <3>3. /\ (index + 1) * MaxPayload <= n
          /\ n < (index + 1) * MaxPayload + MaxPayload
      BY <1>1, <3>1, <3>2
    <3>4. (index + 1) * MaxPayload = index * MaxPayload + MaxPayload
      BY <1>1
    <3>5. index * MaxPayload \in Nat
      BY <1>1
    <3> QED
      BY <1>1, <2>2, <3>1, <3>3, <3>4, <3>5
  <2> QED
    BY <2>3, <2>4
<1> QED
  BY <1>2, <1>3

\* A slice that stands under its header is one that fragment() made.
LEMMA StandingIsSlice ==
  ASSUME ReassemblyInv, BoundsInv, NEW p \in Peers, NEW slice, NEW id,
         NEW total \in 1..MaxFragments, NEW i \in 0..(total - 1),
         StandsAt(p, sent[p], slice, id, total, i)
  PROVE  slice \in Slices /\ slice # Hole
<1> DEFINE k == slice.of
           size == sent[p][k].size
<1>1. /\ slice # Hole /\ k \in DOMAIN sent[p] /\ Total(size) = total
      /\ slice = Slice(p, k, size, i)
  BY DEF StandsAt
<1>2. sent[p] \in Seq(SentType)
  BY DEF ReassemblyInv, SendersInv
<1>3. size \in Nat /\ k \in 1..Len(sent[p]) /\ Len(sent[p]) <= MaxSends
  <2>1. k \in 1..Len(sent[p]) /\ sent[p][k] \in SentType
    BY <1>1, <1>2
  <2>2. sent[p][k].size \in Nat
    BY <2>1 DEF SentType
  <2> QED
    BY <2>1, <2>2 DEF BoundsInv
<1>4. k \in 1..MaxSends
  BY <1>2, <1>3, ReassemblyAssumption
<1> HIDE DEF k, size
<1>5. Slice(p, k, size, i).length \in 0..MaxPayload
  BY <1>1, <1>3, SliceLength
<1>6. Slice(p, k, size, i) \in Slices
  <2>1. Slice(p, k, size, i)
          = [from |-> p, of |-> k, index |-> i,
             length |-> Slice(p, k, size, i).length]
    BY DEF Slice
  <2>2. i \in Nat
    OBVIOUS
  <2> QED
    BY <1>4, <1>5, <2>1, <2>2 DEF Slices
<1> QED
  BY <1>1, <1>6

LEMMA EntryHasLengths ==
  ASSUME ReassemblyInv, BoundsInv, NEW p \in Peers, NEW e,
         GenuineEntry(p, sent[p], e)
  PROVE  /\ HasLengths(e.chunks)
         /\ \A i \in Filled(e.chunks) : e.chunks[i] \in Slices
<1>1. e.total \in 1..MaxFragments /\ e.chunks \in [0..(e.total - 1) -> Bodies]
  BY DEF GenuineEntry
<1>2. IsFiniteSet(Filled(e.chunks))
  BY <1>1, FilledIsFinite
<1>3. ASSUME NEW i \in Filled(e.chunks) PROVE e.chunks[i] \in Slices
  <2>1. i \in 0..(e.total - 1) /\ e.chunks[i] # Hole
    BY <1>1 DEF Filled
  <2>2. StandsAt(p, sent[p], e.chunks[i], e.id, e.total, i)
    BY <2>1 DEF GenuineEntry
  <2> QED
    BY <1>1, <2>1, <2>2, StandingIsSlice
<1>4. \A i \in Filled(e.chunks) : e.chunks[i].length \in Nat
  BY <1>3, ReassemblyAssumption DEF Slices
<1> QED
  BY <1>2, <1>3, <1>4 DEF HasLengths

LEMMA PendingHasBytes ==
  ASSUME ReassemblyInv, BoundsInv, IsFiniteSet(pending),
         \A e \in pending : EntryInv(e)
  PROVE  HasBytes(pending)
<1>1. ASSUME NEW e \in pending PROVE e.bytes \in Nat
  <2>1. e.peer \in Peers /\ GenuineEntry(e.peer, sent[e.peer], e)
    BY DEF ReassemblyInv, PendingInv
  <2>2. e.bytes = BytesOf(e.chunks)
    BY DEF EntryInv
  <2> QED
    BY <2>1, <2>2, EntryHasLengths, BytesOfIsNat
<1> QED
  BY <1>1 DEF HasBytes

\* What the two invariants say of a state, as the type invariant states it.
LEMMA InvImpliesTypeOK ==
  ASSUME ReassemblyInv, AccountInv PROVE TypeOK
<1>1. nextMessageId \in [Peers -> 1..MaxMessageId]
  BY DEF ReassemblyInv, SendersInv
<1>2. sent \in [Peers -> Seq([id : 1..MaxMessageId, size : Sizes,
                              whole : BOOLEAN])]
  <2>1. sent \in [Peers -> Seq(SentType)]
    BY DEF ReassemblyInv, SendersInv
  <2>2. ASSUME NEW p \in Peers
        PROVE  sent[p] \in Seq([id : 1..MaxMessageId, size : Sizes,
                                whole : BOOLEAN])
    <3>1. sent[p] \in Seq(SentType)
      BY <2>1
    <3>2. \A k \in 1..Len(sent[p]) : /\ sent[p][k] \in SentType
                                     /\ sent[p][k].size \in Sizes
      BY <3>1 DEF AccountInv, BoundsInv
    <3> DEFINE T == [id : 1..MaxMessageId, size : Sizes, whole : BOOLEAN]
    <3>3. \A m \in SentType : m.size \in Sizes => m \in T
      BY DEF SentType
    <3> HIDE DEF T
    <3>4. sent[p] \in [1..Len(sent[p]) -> T] /\ Len(sent[p]) \in Nat
      BY <3>1, <3>2, <3>3
    <3>5. sent[p] \in Seq(T)
      BY <3>4
    <3> QED
      BY <3>5 DEF T
  <2> QED
    BY <2>1, <2>2
<1>3. ASSUME NEW p \in Peers, NEW i \in DOMAIN network[p]
      PROVE  \/ network[p][i] = ForeignPacket
             \/ /\ network[p][i].total \in 1..MaxFragments
                /\ network[p][i].index \in 0..(network[p][i].total - 1)
                /\ network[p][i].body \in Slices
  <2>1. CASE GenuinePacket(p, sent[p], network[p][i])
    BY <2>1, StandingIsSlice DEF GenuinePacket, AccountInv
  <2> QED
    BY <2>1 DEF ReassemblyInv, NetworkInv
<1>4. ASSUME NEW e \in pending
      PROVE  e.total \in 2..MaxFragments /\ e \in Entries(e.total)
  <2>1. e.peer \in Peers /\ GenuineEntry(e.peer, sent[e.peer], e)
    BY DEF ReassemblyInv, PendingInv
  <2>2. EntryInv(e)
    BY DEF AccountInv
  <2>3. e.total \in 2..MaxFragments /\ e.id \in 1..MaxMessageId
    BY <2>1, <2>2, ReassemblyAssumption DEF GenuineEntry, EntryInv
  <2>4. e.chunks \in [0..(e.total - 1) -> Slices \cup {Hole}]
    <3>1. \A i \in Filled(e.chunks) : e.chunks[i] \in Slices
      BY <2>1, EntryHasLengths DEF AccountInv
    <3>2. e.chunks \in [0..(e.total - 1) -> Bodies]
      BY <2>1 DEF GenuineEntry
    <3> QED
      BY <3>1, <3>2 DEF Filled
  <2>5. e.bytes \in Nat
    BY PendingHasBytes DEF AccountInv, HasBytes
  <2>6. e = [peer |-> e.peer, id |-> e.id, total |-> e.total,
             chunks |-> e.chunks, received |-> e.received, bytes |-> e.bytes,
             age |-> e.age, born |-> e.born]
    BY <2>1 DEF GenuineEntry
  <2>7. /\ e.received \in 1..(e.total - 1) /\ e.age \in 0..(TtlMs + 1)
        /\ e.born \in Nat \ {0}
    BY <2>2 DEF EntryInv
  <2> QED
    BY <2>1, <2>3, <2>4, <2>5, <2>6, <2>7 DEF Entries
<1>5. bytes \in Nat
  <2>1. HasBytes(pending) /\ bytes = SumBytes(pending)
    BY PendingHasBytes DEF AccountInv
  <2> QED
    BY <2>1, BytesSplit
<1>6. TableIsMap /\ faults \in 0..MaxFaults
  BY DEF AccountInv, BoundsInv
<1> QED
  BY <1>1, <1>2, <1>3, <1>4, <1>5, <1>6 DEF TypeOK

-----------------------------------------------------------------------------
(* The budget.                                                             *)

\* A table whose bytes have been added up, before or after #enforceBudget.
Balanced(entries, held) == HasBytes(entries) /\ held = SumBytes(entries)

\* #enforceBudget takes the oldest entries and leaves a balanced table that
\* fits.
LEMMA EnforceBudgetFits ==
  ASSUME NEW entries, NEW held, Balanced(entries, held),
         \A e \in entries : e.born \in Nat,
         EnforceBudget(entries, held)
  PROVE  /\ pending' \subseteq entries
         /\ (Balanced(pending, bytes))'
         /\ bytes' <= MaxPendingBytes
<1> DEFINE Older(e) == {f \in entries : f.born < e.born}
           dropped == {e \in entries : held - Freed(Older(e)) > MaxPendingBytes}
<1>1. pending' = entries \ dropped /\ bytes' = held - SumBytes(dropped)
  BY DEF EnforceBudget, Freed
<1>2. dropped \in SUBSET entries /\ pending' \in SUBSET entries
  BY <1>1
<1>3. HasBytes(entries) /\ held = SumBytes(entries)
  BY DEF Balanced
<1>4. HasBytes(pending') /\ HasBytes(dropped)
  BY <1>2, <1>3, SumOfPart
<1>5. /\ held \in Nat /\ SumBytes(dropped) \in Nat /\ bytes' \in Nat
      /\ bytes' = SumBytes(pending')
  <2>1. /\ SumBytes(entries) \in Nat /\ SumBytes(dropped) \in Nat
        /\ SumBytes(entries \ dropped) \in Nat
        /\ SumBytes(entries) = SumBytes(dropped) + SumBytes(entries \ dropped)
    BY <1>2, <1>3, BytesSplit
  <2>2. SumBytes(pending') = SumBytes(entries \ dropped)
    BY <1>1
  <2> HIDE DEF dropped
  <2> QED
    BY <1>1, <1>3, <2>1, <2>2
<1>6. CASE pending' = {}
  <2>1. SumBytes(pending') = 0
    BY <1>6, NoBytes
  <2> QED
    BY <1>2, <1>4, <1>5, <2>1, ReassemblyAssumption DEF Balanced
<1>7. CASE pending' # {}
  <2> DEFINE born == [e \in pending' |-> e.born]
  <2>1. \A e \in pending' : born[e] \in Nat
    BY <1>2
  <2>2. IsFiniteSet(pending')
    BY <1>4 DEF HasBytes
  <2>3. PICK e \in pending' : \A f \in pending' : born[e] <= born[f]
    <3> HIDE DEF born
    <3> QED
      BY <1>7, <2>1, <2>2, HasLeast
  <2>4. Older(e) \in SUBSET dropped
    BY <1>1, <1>2, <2>1, <2>3
  <2>5. ~(held - Freed(Older(e)) > MaxPendingBytes)
    BY <1>1, <2>3
  <2> HIDE DEF dropped
  <2>6. SumBytes(Older(e)) <= SumBytes(dropped)
    BY <1>4, <2>4, BytesMonotonic
  <2>7. SumBytes(Older(e)) \in Nat
    BY <1>4, <2>4, BytesSplit
  <2>8. ~(held - SumBytes(Older(e)) > MaxPendingBytes)
    BY <2>5 DEF Freed
  <2> HIDE DEF Older
  <2>9. bytes' <= MaxPendingBytes
    BY <1>1, <1>5, <2>6, <2>7, <2>8, ReassemblyAssumption
  <2> QED
    BY <1>2, <1>4, <1>5, <2>9 DEF Balanced
<1> QED
  BY <1>2, <1>4, <1>5, <1>6, <1>7 DEF Balanced

-----------------------------------------------------------------------------
(* A packet of a message of several fragments.                             *)

\* What TableIsMap says of the table, said of any set of entries.
Keyed(entries) ==
  \A e, f \in entries :
    e # f => <<e.peer, e.id>> # <<f.peer, f.id>> /\ e.born # f.born

\* A table as AccountInv wants it.
GoodTable(entries) ==
  IsFiniteSet(entries) /\ Keyed(entries) /\ \A e \in entries : EntryInv(e)

LEMMA GoodPart ==
  ASSUME NEW entries, GoodTable(entries), NEW part \in SUBSET entries
  PROVE  GoodTable(part)
BY FS_Subset DEF GoodTable, Keyed

LEMMA AccountParts ==
  /\ AccountInv <=> /\ BoundsInv /\ GoodTable(pending)
                    /\ bytes = SumBytes(pending) /\ bytes <= MaxPendingBytes
  /\ BoundsInv /\ UNCHANGED <<sent, faults>> => BoundsInv'
BY DEF AccountInv, GoodTable, Keyed, TableIsMap, BoundsInv

\* Where a new entry stands in the order of the Map.
NextBorn(others) == 1 + Max({0} \cup {e.born : e \in others})

\* A new entry is the last.
LEMMA NewBornIsLast ==
  ASSUME NEW others, IsFiniteSet(others),
         \A e \in others : e.born \in Nat,
         NEW last, last = NextBorn(others)
  PROVE  last \in Nat \ {0} /\ \A e \in others : e.born < last
<1> DEFINE births == {e.born : e \in others}
           f == [e \in others |-> e.born]
           all == {0} \cup births
<1>1. IsFiniteSet(births)
  <2>1. births = {f[e] : e \in others}
    OBVIOUS
  <2> HIDE DEF births, f
  <2> QED
    BY <2>1, ImageFinite
<1>2. all \in SUBSET Nat /\ all # {} /\ \A e \in others : e.born \in all
  OBVIOUS
<1>3. IsFiniteSet(all)
  <2>1. all = births \cup {0}
    OBVIOUS
  <2> HIDE DEF births, all
  <2> QED
    BY <1>1, <2>1, FS_AddElement
<1>4. last = 1 + Max(all)
  BY DEF NextBorn
<1> HIDE DEF all
<1>5. PICK m : m = Max(all)
  OBVIOUS
<1>6. m \in all /\ \A y \in all : y <= m
  BY <1>2, <1>3, <1>5, MaxIsGreatest
<1>7. last = 1 + m /\ m \in Nat /\ \A e \in others : e.born <= m
  BY <1>2, <1>4, <1>5, <1>6
<1> QED
  BY <1>7

LEMMA NewEntryFields ==
  ASSUME NEW p, NEW packet, NEW others
  PROVE  /\ NewEntry(p, packet, others).received = 0
         /\ NewEntry(p, packet, others).bytes = 0
         /\ NewEntry(p, packet, others).born = NextBorn(others)
         /\ Filled(NewEntry(p, packet, others).chunks) = {}
<1>1. PICK last : last = NextBorn(others)
  OBVIOUS
<1>2. PICK chunks : chunks = [i \in 0..(packet.total - 1) |-> Hole]
  OBVIOUS
<1>3. NewEntry(p, packet, others)
        = [peer |-> p, id |-> packet.id, total |-> packet.total,
           chunks |-> chunks, received |-> 0, bytes |-> 0, age |-> 0,
           born |-> last]
  BY <1>1, <1>2 DEF NewEntry, NextBorn
<1>4. Filled(chunks) = {}
  BY <1>2 DEF Filled
<1> QED
  BY <1>1, <1>3, <1>4

\* The parts of Store: the live entries of the packet's key, those it belongs
\* to, the others, the bytes left after the drops, and the packet's entry with
\* its place filled.
MineOf(p, packet) == {e \in Live : HasKey(e, p, packet.id)}
SameOf(p, packet) == {e \in MineOf(p, packet) : Continues(e, packet)}
OthersOf(p, packet) == Live \ MineOf(p, packet)
HeldOf(p, packet) ==
  bytes - Freed(pending \ Live) - Freed(MineOf(p, packet) \ SameOf(p, packet))
EntryOf(p, packet) ==
  IF SameOf(p, packet) # {} THEN CHOOSE e \in SameOf(p, packet) : TRUE
  ELSE NewEntry(p, packet, OthersOf(p, packet))
FilledOf(p, packet) ==
  Fill(EntryOf(p, packet), packet.index, packet.body, packet.body.length)

LEMMA StoreByParts ==
  ASSUME NEW p, NEW packet, Store(p, packet)
  PROVE  \/ /\ ~IsFree(EntryOf(p, packet), packet.index)
            /\ pending' = Live /\ bytes' = HeldOf(p, packet)
            /\ UNCHANGED delivered
         \/ /\ IsFree(EntryOf(p, packet), packet.index)
            /\ FilledOf(p, packet).received = FilledOf(p, packet).total
            /\ pending' = OthersOf(p, packet)
            /\ bytes' = HeldOf(p, packet) + packet.body.length
                           - FilledOf(p, packet).bytes
            /\ Deliver(p, FilledOf(p, packet).chunks)
         \/ /\ IsFree(EntryOf(p, packet), packet.index)
            /\ FilledOf(p, packet).received # FilledOf(p, packet).total
            /\ EnforceBudget(OthersOf(p, packet) \cup {FilledOf(p, packet)},
                             HeldOf(p, packet) + packet.body.length)
            /\ UNCHANGED delivered
BY DEF Store, MineOf, SameOf, OthersOf, HeldOf, EntryOf, FilledOf, Fill

\* What Store starts from once it has swept the table and dropped an entry of
\* another total: the packet's own entry, which may be a new one, and the
\* others, with their bytes.
Swept(p, packet, entry, others, held) ==
  /\ GenuineEntry(p, sent[p], entry)
  /\ entry.peer = p /\ entry.id = packet.id /\ entry.total = packet.total
  /\ entry.received \in 0..(entry.total - 1)
  /\ entry.born \in Nat \ {0}
  /\ entry.bytes = BytesOf(entry.chunks) /\ entry.bytes \in Nat
  /\ others \in SUBSET pending
  /\ \A f \in others : /\ <<f.peer, f.id>> # <<entry.peer, entry.id>>
                       /\ f.born # entry.born
  /\ held = SumBytes(others) + entry.bytes

LEMMA StoreSweeps ==
  ASSUME ReassemblyInv, AccountInv, NEW p \in Peers, NEW packet \in PacketType,
         GenuinePacket(p, sent[p], packet), packet.total > 1
  PROVE  /\ Swept(p, packet, EntryOf(p, packet), OthersOf(p, packet),
                  HeldOf(p, packet))
         /\ SameOf(p, packet) # {} =>
              /\ Live = OthersOf(p, packet) \cup {EntryOf(p, packet)}
              /\ EntryOf(p, packet) \in pending
         /\ SameOf(p, packet) = {} =>
              EntryOf(p, packet) = NewEntry(p, packet, OthersOf(p, packet))
<1> DEFINE mine == MineOf(p, packet)
           same == SameOf(p, packet)
           others == OthersOf(p, packet)
           held == HeldOf(p, packet)
           entry == EntryOf(p, packet)
<1> USE DEF MineOf, SameOf, OthersOf, HeldOf, EntryOf
<1>0. /\ mine = {e \in Live : HasKey(e, p, packet.id)}
      /\ same = {e \in mine : Continues(e, packet)}
      /\ others = Live \ mine
      /\ held = bytes - Freed(pending \ Live) - Freed(mine \ same)
      /\ same # {} => entry = CHOOSE e \in same : TRUE
      /\ same = {} => entry = NewEntry(p, packet, others)
  OBVIOUS
<1> SUFFICES /\ Swept(p, packet, entry, others, held)
             /\ same # {} => Live = others \cup {entry} /\ entry \in pending
             /\ same = {} => entry = NewEntry(p, packet, others)
  OBVIOUS
<1> HIDE DEF MineOf, SameOf, OthersOf, HeldOf, EntryOf, mine, same, others,
             held, entry
<1> USE <1>0
<1>1. /\ Live \in SUBSET pending /\ mine \in SUBSET Live
      /\ others \in SUBSET pending /\ same \in SUBSET mine
  BY DEF Live
<1>2. GoodTable(pending) /\ BoundsInv /\ bytes = SumBytes(pending)
  BY AccountParts
<1>3. HasBytes(pending) /\ HasBytes(Live)
  BY <1>1, <1>2, PendingHasBytes, SumOfPart DEF GoodTable
<1>4. IsFiniteSet(others) /\ \A f \in others : f.born \in Nat
  BY <1>1, <1>2, GoodPart DEF GoodTable, EntryInv
<1>5. /\ SumBytes(others) \in Nat /\ SumBytes(mine) \in Nat
      /\ held = SumBytes(others) + SumBytes(mine) - SumBytes(mine \ same)
  <2>1. /\ SumBytes(Live) \in Nat /\ SumBytes(pending \ Live) \in Nat
        /\ SumBytes(pending) = SumBytes(Live) + SumBytes(pending \ Live)
    BY <1>1, <1>3, BytesSplit
  <2>2. /\ SumBytes(mine) \in Nat /\ SumBytes(others) \in Nat
        /\ SumBytes(Live) = SumBytes(mine) + SumBytes(others)
    BY <1>1, <1>3, BytesSplit
  <2>3. HasBytes(mine)
    BY <1>1, <1>3, SumOfPart
  <2>4. SumBytes(mine \ same) \in Nat
    BY <1>1, <2>3, BytesSplit
  <2>5. held = bytes - SumBytes(pending \ Live) - SumBytes(mine \ same)
    BY DEF Freed
  <2> QED
    BY <1>2, <2>1, <2>2, <2>4, <2>5
<1>6. CASE same # {}
  <2>1. entry \in same
    BY <1>6
  <2>2. entry \in pending /\ entry.peer = p /\ entry.id = packet.id
        /\ entry.total = packet.total
    BY <1>1, <2>1 DEF HasKey, Continues
  <2>3. \A e \in mine : e = entry
    BY <1>1, <1>2, <2>1, <2>2 DEF HasKey, GoodTable, Keyed
  <2>4. mine = {entry} /\ mine \ same = {} /\ Live = others \cup {entry}
    BY <1>1, <2>1, <2>3
  <2>5. \A f \in others : /\ <<f.peer, f.id>> # <<entry.peer, entry.id>>
                          /\ f.born # entry.born
    BY <1>1, <1>2, <2>1, <2>2 DEF GoodTable, Keyed
  <2>6. entry.bytes \in Nat
    BY <1>3, <2>2 DEF HasBytes
  <2>7. SumBytes(mine) = entry.bytes /\ SumBytes(mine \ same) = 0
    <3>1. HasBytes({})
      BY FS_EmptySet DEF HasBytes
    <3>2. SumBytes({} \cup {entry}) = SumBytes({}) + entry.bytes
      BY <2>6, <3>1, BytesAdd
    <3>3. SumBytes(mine) = SumBytes({} \cup {entry})
      BY <2>4
    <3>4. SumBytes(mine \ same) = 0
      BY <2>4, NoBytes
    <3> QED
      BY <2>6, <3>2, <3>3, <3>4, NoBytes
  <2>8. held = SumBytes(others) + entry.bytes
    BY <1>5, <2>6, <2>7
  <2>9. EntryInv(entry) /\ GenuineEntry(p, sent[p], entry)
    BY <1>2, <2>2 DEF GoodTable, ReassemblyInv, PendingInv
  <2>10. entry.received \in 0..(entry.total - 1)
    BY <2>9 DEF EntryInv
  <2> QED
    BY <1>1, <1>6, <2>2, <2>4, <2>5, <2>6, <2>8, <2>9, <2>10 DEF Swept, EntryInv
<1>7. CASE same = {}
  <2>1. entry = NewEntry(p, packet, others)
    BY <1>7
  <2>2. /\ GenuineEntry(p, sent[p], entry)
        /\ entry.peer = p /\ entry.id = packet.id /\ entry.total = packet.total
    BY <2>1, NewEntryIsGenuine
  <2>3. /\ entry.received = 0 /\ entry.bytes = 0
        /\ entry.born = NextBorn(others)
        /\ Filled(entry.chunks) = {}
    BY <2>1, NewEntryFields
  <2>4. entry.bytes = BytesOf(entry.chunks)
    BY <2>3, BytesOfNone
  <2>5. entry.born \in Nat \ {0} /\ \A f \in others : f.born < entry.born
    BY <1>4, <2>3, NewBornIsLast
  <2>6. \A f \in others : /\ <<f.peer, f.id>> # <<entry.peer, entry.id>>
                          /\ f.born # entry.born
    BY <1>1, <1>4, <2>2, <2>5 DEF HasKey
  <2>7. SumBytes(mine \ same) = SumBytes(mine)
    <3>1. mine \ same = mine
      BY <1>7
    <3> QED
      BY <3>1
  <2>8. held = SumBytes(others) + entry.bytes
    BY <1>5, <2>3, <2>7
  <2>9. entry.received \in 0..(entry.total - 1)
    <3>1. packet.total \in Nat
      BY DEF PacketType
    <3> QED
      BY <2>2, <2>3, <3>1
  <2> QED
    BY <1>1, <1>7, <2>1, <2>2, <2>3, <2>4, <2>5, <2>6, <2>8, <2>9 DEF Swept
<1> QED
  BY <1>6, <1>7

\* What the free place of an entry takes.
LEMMA FillAccounts ==
  ASSUME ReassemblyInv, BoundsInv, NEW p \in Peers, NEW packet \in PacketType,
         GenuinePacket(p, sent[p], packet), packet.total > 1,
         NEW entry, NEW others, NEW held, Swept(p, packet, entry, others, held),
         IsFree(entry, packet.index),
         NEW filled,
         filled = Fill(entry, packet.index, packet.body, packet.body.length)
  PROVE  /\ GenuineEntry(p, sent[p], filled)
         /\ filled.peer = p /\ filled.id = packet.id /\ filled.total = packet.total
         /\ filled.born = entry.born
         /\ filled.bytes \in Nat
         /\ filled.bytes = entry.bytes + packet.body.length
         /\ packet.body.length \in 0..MaxPayload
         /\ filled.received # filled.total => EntryInv(filled)
<1> DEFINE index == packet.index
           body == packet.body
<1>1. /\ index \in 0..(entry.total - 1) /\ body \in Bodies
      /\ StandsAt(p, sent[p], body, entry.id, entry.total, index)
      /\ entry.chunks[index] = Hole /\ entry.total \in 1..MaxFragments
  BY DEF GenuinePacket, PacketType, Swept, IsFree
<1>2. GenuineEntry(p, sent[p], entry) /\ entry.peer = p
  BY DEF Swept
<1>3. GenuineEntry(p, sent[p], filled) /\ filled.peer = p
  BY <1>1, <1>2, FillKeepsGenuine
<1>4. body # Hole /\ body \in Slices
  BY <1>1, StandingIsSlice
<1>5. body.length \in 0..MaxPayload /\ body.length \in Nat
  BY <1>4, ReassemblyAssumption DEF Slices
<1>6. filled = [peer |-> entry.peer, id |-> entry.id, total |-> entry.total,
                chunks |-> [entry.chunks EXCEPT ![index] = body],
                received |-> entry.received + 1,
                bytes |-> entry.bytes + body.length,
                age |-> 0, born |-> entry.born]
  <2>1. entry = [peer |-> entry.peer, id |-> entry.id, total |-> entry.total,
                 chunks |-> entry.chunks, received |-> entry.received,
                 bytes |-> entry.bytes, age |-> entry.age, born |-> entry.born]
    BY <1>2 DEF GenuineEntry
  <2>2. filled = [entry EXCEPT !.chunks[index] = body, !.received = @ + 1,
                               !.bytes = @ + body.length, !.age = 0]
    BY DEF Fill
  <2> HIDE DEF index, body
  <2> QED
    BY <2>1, <2>2
<1> HIDE DEF index, body
<1>7. /\ filled.id = entry.id /\ filled.total = entry.total
      /\ filled.chunks = [entry.chunks EXCEPT ![index] = body]
      /\ filled.received = entry.received + 1
      /\ filled.bytes = entry.bytes + body.length
      /\ filled.age = 0 /\ filled.born = entry.born
  BY <1>6
<1>8. filled.bytes = BytesOf(filled.chunks)
  <2>1. entry.chunks \in [0..(entry.total - 1) -> Bodies]
    BY <1>2 DEF GenuineEntry
  <2>2. /\ entry.chunks = [i \in DOMAIN entry.chunks |-> entry.chunks[i]]
        /\ index \in DOMAIN entry.chunks
    BY <1>1, <2>1
  <2>3. HasLengths(entry.chunks)
    BY <1>2, EntryHasLengths
  <2>4. BytesOf([entry.chunks EXCEPT ![index] = body])
          = BytesOf(entry.chunks) + body.length
    BY <1>1, <1>4, <1>5, <2>2, <2>3, BytesOfFill
  <2>5. entry.bytes = BytesOf(entry.chunks)
    BY DEF Swept
  <2> QED
    BY <1>7, <2>4, <2>5
<1>9. /\ entry.bytes \in Nat /\ entry.born \in Nat \ {0}
      /\ entry.received \in 0..(entry.total - 1)
      /\ entry.id = packet.id /\ entry.total = packet.total
  BY DEF Swept
<1>10. filled.received # filled.total => EntryInv(filled)
  <2>1. /\ filled.total >= 2 /\ filled.born \in Nat \ {0}
        /\ filled.age \in 0..(TtlMs + 1)
    BY <1>1, <1>7, <1>9, ReassemblyAssumption
  <2>2. filled.received # filled.total => filled.received \in 1..(filled.total - 1)
    BY <1>1, <1>7, <1>9
  <2> QED
    BY <1>8, <2>1, <2>2 DEF EntryInv
<1> QED
  BY <1>3, <1>5, <1>7, <1>9, <1>10 DEF body

\* What Store gives #enforceBudget when it filled a place of an entry that is
\* not complete yet: a table with its bytes added up.
LEMMA StoreGathers ==
  ASSUME ReassemblyInv, AccountInv, NEW p \in Peers, NEW packet \in PacketType,
         GenuinePacket(p, sent[p], packet), packet.total > 1,
         IsFree(EntryOf(p, packet), packet.index)
  PROVE  LET entry == EntryOf(p, packet)
             others == OthersOf(p, packet)
             filled == FilledOf(p, packet)
             length == packet.body.length
         IN  /\ filled.peer = p /\ filled.id = packet.id
             /\ filled.total = packet.total /\ filled.born = entry.born
             /\ filled.bytes = entry.bytes + length /\ filled.bytes \in Nat
             /\ entry.bytes \in Nat /\ length \in 0..MaxPayload
             /\ filled \notin others
             /\ filled.received # filled.total =>
                  /\ GoodTable(others \cup {filled})
                  /\ Balanced(others \cup {filled}, HeldOf(p, packet) + length)
<1> DEFINE others == OthersOf(p, packet)
           held == HeldOf(p, packet)
           entry == EntryOf(p, packet)
           length == packet.body.length
           filled == FilledOf(p, packet)
           entries == others \cup {filled}
<1>1. Swept(p, packet, entry, others, held)
  BY StoreSweeps
<1>2. filled = Fill(entry, packet.index, packet.body, length)
  BY DEF FilledOf
<1>3. IsFree(entry, packet.index)
  OBVIOUS
<1> SUFFICES
      /\ filled.peer = p /\ filled.id = packet.id
      /\ filled.total = packet.total /\ filled.born = entry.born
      /\ filled.bytes = entry.bytes + length /\ filled.bytes \in Nat
      /\ entry.bytes \in Nat /\ length \in 0..MaxPayload
      /\ filled \notin others
      /\ filled.received # filled.total =>
           GoodTable(entries) /\ Balanced(entries, held + length)
  OBVIOUS
<1> HIDE DEF others, held, entry, filled
<1>4. BoundsInv /\ GoodTable(pending)
  BY AccountParts
<1>5. /\ others \in SUBSET pending
      /\ \A f \in others : /\ <<f.peer, f.id>> # <<entry.peer, entry.id>>
                           /\ f.born # entry.born
      /\ held = SumBytes(others) + entry.bytes /\ entry.bytes \in Nat
      /\ entry.peer = p /\ entry.id = packet.id
  BY <1>1 DEF Swept
<1>6. HasBytes(others) /\ SumBytes(others) \in Nat /\ GoodTable(others)
  BY <1>4, <1>5, PendingHasBytes, SumOfPart, BytesSplit, GoodPart DEF GoodTable
<1>7. /\ filled.peer = p /\ filled.id = packet.id
      /\ filled.total = packet.total /\ filled.born = entry.born
      /\ filled.bytes = entry.bytes + length /\ filled.bytes \in Nat
      /\ length \in 0..MaxPayload
      /\ filled.received # filled.total => EntryInv(filled)
  BY <1>1, <1>2, <1>3, <1>4, FillAccounts
<1>8. filled \notin others
  BY <1>5, <1>7
<1>9. Balanced(entries, held + length)
  <2>1. HasBytes(entries) /\ SumBytes(entries) = SumBytes(others) + filled.bytes
    BY <1>6, <1>7, <1>8, BytesAdd
  <2>2. length \in Nat
    BY <1>7, ReassemblyAssumption
  <2>3. held + length = SumBytes(entries)
    BY <1>5, <1>6, <1>7, <2>1, <2>2
  <2> QED
    BY <2>1, <2>3 DEF Balanced
<1>10. ASSUME filled.received # filled.total PROVE GoodTable(entries)
  <2>1. Keyed(entries)
    BY <1>5, <1>6, <1>7 DEF GoodTable, Keyed
  <2>2. \A e \in entries : EntryInv(e)
    BY <1>6, <1>7, <1>10 DEF GoodTable
  <2> QED
    BY <1>9, <2>1, <2>2 DEF GoodTable, Balanced, HasBytes
<1> QED
  BY <1>5, <1>7, <1>8, <1>9, <1>10

LEMMA StoreAccounts ==
  ASSUME ReassemblyInv, AccountInv, UNCHANGED <<sent, faults>>,
         NEW p \in Peers, NEW packet \in PacketType,
         GenuinePacket(p, sent[p], packet), packet.total > 1,
         Store(p, packet)
  PROVE  AccountInv'
<1> DEFINE same == SameOf(p, packet)
           others == OthersOf(p, packet)
           held == HeldOf(p, packet)
           entry == EntryOf(p, packet)
           length == packet.body.length
           filled == FilledOf(p, packet)
<1>1. \/ /\ ~IsFree(entry, packet.index)
         /\ pending' = Live /\ bytes' = held
      \/ /\ IsFree(entry, packet.index)
         /\ filled.received = filled.total
         /\ pending' = others /\ bytes' = held + length - filled.bytes
      \/ /\ IsFree(entry, packet.index)
         /\ filled.received # filled.total
         /\ EnforceBudget(others \cup {filled}, held + length)
  BY StoreByParts
<1>2. /\ Swept(p, packet, entry, others, held)
      /\ same # {} => Live = others \cup {entry} /\ entry \in pending
      /\ same = {} => entry = NewEntry(p, packet, others)
  BY StoreSweeps
<1> HIDE DEF same, others, held, entry, filled
<1>3. BoundsInv /\ GoodTable(pending) /\ BoundsInv'
      /\ bytes = SumBytes(pending) /\ bytes <= MaxPendingBytes
  BY AccountParts
<1>4. /\ others \in SUBSET pending
      /\ \A f \in others : /\ <<f.peer, f.id>> # <<entry.peer, entry.id>>
                           /\ f.born # entry.born
      /\ held = SumBytes(others) + entry.bytes /\ entry.bytes \in Nat
      /\ entry.peer = p /\ entry.id = packet.id
  BY <1>2 DEF Swept
<1>5. HasBytes(pending) /\ HasBytes(others) /\ SumBytes(others) \in Nat
  BY <1>3, <1>4, PendingHasBytes, SumOfPart, BytesSplit DEF GoodTable
<1>6. ASSUME NEW part \in SUBSET pending, pending' = part,
             bytes' = SumBytes(part)
      PROVE  AccountInv'
  <2>1. GoodTable(pending')
    BY <1>3, <1>6, GoodPart
  <2>2. bytes' <= MaxPendingBytes
    <3>1. SumBytes(part) <= SumBytes(pending)
      BY <1>5, BytesMonotonic
    <3>2. SumBytes(part) \in Nat /\ SumBytes(pending) \in Nat
      BY <1>5, BytesSplit
    <3> QED
      BY <1>3, <1>6, <3>1, <3>2, ReassemblyAssumption
  <2> QED
    BY <1>3, <1>6, <2>1, <2>2 DEF AccountInv, GoodTable, Keyed, TableIsMap
<1>7. CASE /\ ~IsFree(entry, packet.index)
           /\ pending' = Live /\ bytes' = held
  <2>1. same # {}
    <3>1. SUFFICES ASSUME same = {} PROVE FALSE
      OBVIOUS
    <3>2. entry.chunks = [i \in 0..(packet.total - 1) |-> Hole]
      BY <1>2, <3>1 DEF NewEntry
    <3>3. packet.index \in 0..(packet.total - 1)
      BY DEF GenuinePacket
    <3> QED
      BY <1>7, <3>2, <3>3 DEF IsFree
  <2>2. Live = others \cup {entry} /\ entry \notin others
    BY <1>2, <1>4, <2>1
  <2>3. SumBytes(Live) = held
    <3>1. SumBytes(others \cup {entry}) = SumBytes(others) + entry.bytes
      <4>1. HasBytes(others) /\ entry \notin others /\ entry.bytes \in Nat
        BY <1>4, <1>5, <2>2
      <4> QED
        BY <4>1, BytesAdd
    <3>2. SumBytes(Live) = SumBytes(others \cup {entry})
      BY <2>2
    <3>3. /\ held = SumBytes(others) + entry.bytes
          /\ SumBytes(others) \in Nat /\ entry.bytes \in Nat
      BY <1>4, <1>5
    <3> QED
      BY <3>1, <3>2, <3>3
  <2>4. Live \in SUBSET pending
    BY DEF Live
  <2> QED
    BY <1>6, <1>7, <2>3, <2>4
<1>8. ASSUME IsFree(entry, packet.index)
      PROVE  /\ filled.bytes = entry.bytes + length /\ length \in Nat
             /\ filled.received # filled.total =>
                  /\ GoodTable(others \cup {filled})
                  /\ Balanced(others \cup {filled}, held + length)
  <2> USE DEF others, held, entry, filled
  <2> QED
    BY <1>8, StoreGathers, ReassemblyAssumption
<1>9. CASE /\ IsFree(entry, packet.index)
           /\ pending' = others /\ bytes' = held + length - filled.bytes
  <2>1. filled.bytes = entry.bytes + length /\ length \in Nat
    BY <1>8, <1>9
  <2>2. bytes' = SumBytes(others)
    BY <1>4, <1>5, <1>9, <2>1
  <2> QED
    BY <1>4, <1>6, <1>9, <2>2
<1>10. CASE /\ IsFree(entry, packet.index)
            /\ filled.received # filled.total
            /\ EnforceBudget(others \cup {filled}, held + length)
  <2> DEFINE entries == others \cup {filled}
  <2>1. GoodTable(entries) /\ Balanced(entries, held + length)
    BY <1>8, <1>10
  <2>2. EnforceBudget(entries, held + length)
    BY <1>10
  <2> HIDE DEF entries
  <2>3. \A e \in entries : e.born \in Nat
    BY <2>1 DEF GoodTable, EntryInv
  <2>4. /\ pending' \in SUBSET entries /\ (Balanced(pending, bytes))'
        /\ bytes' <= MaxPendingBytes
    BY <2>1, <2>2, <2>3, EnforceBudgetFits
  <2>5. GoodTable(pending')
    BY <2>1, <2>4, GoodPart
  <2> QED
    BY <1>3, <2>4, <2>5 DEF AccountInv, GoodTable, Keyed, TableIsMap, Balanced
<1> QED
  BY <1>1, <1>7, <1>9, <1>10

-----------------------------------------------------------------------------
(* Every step keeps the accounts.                                          *)

LEMMA InitAccounts == Init => AccountInv
<1> SUFFICES ASSUME Init PROVE AccountInv
  OBVIOUS
<1>1. BoundsInv
  BY ReassemblyAssumption DEF Init, BoundsInv
<1>2. SumBytes(pending) = 0
  BY NoBytes DEF Init
<1> QED
  BY <1>1, <1>2, FS_EmptySet, ReassemblyAssumption DEF Init, AccountInv, TableIsMap

\* A step that leaves the table alone.
LEMMA TableUnchanged ==
  ASSUME AccountInv, UNCHANGED <<pending, bytes>>, BoundsInv'
  PROVE  AccountInv'
BY DEF AccountInv, TableIsMap

LEMMA SendLargeAccounts ==
  ASSUME ReassemblyInv, AccountInv, NEW p \in Peers, NEW size \in Sizes, NEW n,
         SendLarge(p, size, n)
  PROVE  AccountInv'
<1> DEFINE message == [id |-> nextMessageId[p], size |-> size,
                       whole |-> n = Total(size)]
<1>1. UNCHANGED <<pending, bytes, faults>>
  BY DEF SendLarge, receiverVars
<1>2. CASE UNCHANGED sent
  <2>1. BoundsInv'
    BY <1>1, <1>2 DEF AccountInv, BoundsInv
  <2> QED
    BY <1>1, <2>1, TableUnchanged
<1>3. CASE sent' = [sent EXCEPT ![p] = Append(@, message)]
  <2>1. sent \in [Peers -> Seq(SentType)] /\ sent[p] \in Seq(SentType)
    BY DEF ReassemblyInv, SendersInv
  <2>2. sent'[p] = Append(sent[p], message)
        /\ \A q \in Peers : q # p => sent'[q] = sent[q]
    BY <1>3, <2>1
  <2>3. message.size \in Sizes
    OBVIOUS
  <2> HIDE DEF message
  <2>4. Len(sent[p]) < MaxSends /\ Len(sent[p]) \in Nat
    BY <2>1 DEF SendLarge
  <2>5. /\ Len(sent'[p]) = Len(sent[p]) + 1
        /\ \A k \in DOMAIN sent'[p] :
             sent'[p][k] = IF k \in DOMAIN sent[p] THEN sent[p][k] ELSE message
    BY <2>1, <2>2
  <2>6. \A k \in DOMAIN sent[p] : sent[p][k].size \in Sizes
    BY DEF AccountInv, BoundsInv
  <2>7. /\ Len(sent'[p]) <= MaxSends
        /\ \A k \in DOMAIN sent'[p] : sent'[p][k].size \in Sizes
    BY <2>3, <2>4, <2>5, <2>6, ReassemblyAssumption
  <2>8. ASSUME NEW q \in Peers
        PROVE  /\ Len(sent'[q]) <= MaxSends
               /\ \A k \in DOMAIN sent'[q] : sent'[q][k].size \in Sizes
    <3>1. CASE q = p
      BY <2>7, <3>1
    <3>2. CASE q # p
      BY <2>2, <3>2 DEF AccountInv, BoundsInv
    <3> QED
      BY <3>1, <3>2
  <2>9. BoundsInv'
    BY <1>1, <2>8 DEF AccountInv, BoundsInv
  <2> QED
    BY <1>1, <2>9, TableUnchanged
<1> QED
  BY <1>2, <1>3 DEF SendLarge

LEMMA ReceiveAccounts ==
  ASSUME ReassemblyInv, AccountInv, NEW p \in Peers, Receive(p)
  PROVE  AccountInv'
<1>1. PICK i \in Deliverable(p) : Accept(p, network[p][i])
  BY DEF Receive
<1>2. UNCHANGED <<sent, faults>>
  BY DEF Receive
<1>3. BoundsInv'
  BY <1>2, AccountParts
<1>4. CASE UNCHANGED <<pending, bytes>>
  BY <1>3, <1>4, TableUnchanged
<1>5. CASE /\ IsFragment(network[p][i]) /\ network[p][i].total > 1
           /\ Store(p, network[p][i])
  <2> DEFINE packet == network[p][i]
  <2>1. i \in DOMAIN network[p]
    BY DEF Deliverable
  <2>2. packet = ForeignPacket \/ GenuinePacket(p, sent[p], packet)
    BY <2>1 DEF ReassemblyInv, NetworkInv
  <2>3. packet \in PacketType
    BY <2>1 DEF ReassemblyInv, NetworkInv
  <2>4. packet # ForeignPacket
    BY <1>5 DEF ForeignPacket, IsFragment
  <2>5. packet.total > 1 /\ Store(p, packet)
    BY <1>5
  <2> HIDE DEF packet
  <2> QED
    BY <1>2, <2>2, <2>3, <2>4, <2>5, StoreAccounts
<1> QED
  BY <1>1, <1>4, <1>5 DEF Accept, receiverVars

LEMMA FaultAccounts ==
  ASSUME ReassemblyInv, AccountInv, Fault, UNCHANGED sent
  PROVE  BoundsInv'
BY ReassemblyAssumption DEF AccountInv, BoundsInv, Fault

LEMMA ReceiverRestartAccounts ==
  ASSUME ReassemblyInv, AccountInv, ReceiverRestart PROVE AccountInv'
<1>1. Fault /\ pending' = {} /\ bytes' = 0 /\ UNCHANGED sent
  BY DEF ReceiverRestart
<1>2. BoundsInv'
  BY <1>1, FaultAccounts
<1>3. SumBytes(pending') = 0
  BY <1>1, NoBytes
<1> QED
  BY <1>1, <1>2, <1>3, FS_EmptySet, ReassemblyAssumption DEF AccountInv, TableIsMap

\* A tick changes nothing of an entry but its age, and no two entries become one.
LEMMA TimePassesAccounts ==
  ASSUME ReassemblyInv, AccountInv, TimePasses PROVE AccountInv'
<1> DEFINE Aged(e) == [e EXCEPT !.age = IF @ > TtlMs THEN @ ELSE @ + 1]
           aged == [e \in pending |-> Aged(e)]
<1>1. /\ BoundsInv /\ GoodTable(pending) /\ bytes = SumBytes(pending)
      /\ bytes <= MaxPendingBytes
  BY AccountParts
<1>2. BoundsInv' /\ UNCHANGED bytes
  BY AccountParts DEF TimePasses
<1>3. pending' = {aged[e] : e \in pending}
  BY DEF TimePasses
<1>4. ASSUME NEW e \in pending
      PROVE  /\ aged[e].peer = e.peer /\ aged[e].id = e.id
             /\ aged[e].born = e.born /\ aged[e].bytes = e.bytes
             /\ EntryInv(aged[e])
  <2>1. GenuineEntry(e.peer, sent[e.peer], e) /\ EntryInv(e)
    BY <1>1 DEF ReassemblyInv, PendingInv, GoodTable
  <2>2. PICK age : age = IF e.age > TtlMs THEN e.age ELSE e.age + 1
    OBVIOUS
  <2>3. e = [peer |-> e.peer, id |-> e.id, total |-> e.total,
             chunks |-> e.chunks, received |-> e.received,
             bytes |-> e.bytes, age |-> e.age, born |-> e.born]
    BY <2>1 DEF GenuineEntry
  <2>4. aged[e] = [e EXCEPT !.age = age]
    BY <2>2
  <2>5. aged[e] = [peer |-> e.peer, id |-> e.id, total |-> e.total,
                   chunks |-> e.chunks, received |-> e.received,
                   bytes |-> e.bytes, age |-> age, born |-> e.born]
    BY <2>3, <2>4
  <2> HIDE DEF aged
  <2>6. age \in 0..(TtlMs + 1)
    BY <2>1, <2>2, ReassemblyAssumption DEF EntryInv
  <2> QED
    BY <2>1, <2>5, <2>6 DEF EntryInv
<1> HIDE DEF aged
<1>5. \A e, f \in pending : aged[e] = aged[f] => e = f
  BY <1>1, <1>4 DEF GoodTable, Keyed
<1>6. GoodTable(pending')
  <2>1. IsFiniteSet({aged[e] : e \in pending})
    BY <1>1, ImageFinite DEF GoodTable
  <2>2. \A x \in pending' : EntryInv(x)
    BY <1>3, <1>4
  <2>3. Keyed(pending')
    BY <1>1, <1>3, <1>4 DEF GoodTable, Keyed
  <2> QED
    BY <1>3, <2>1, <2>2, <2>3 DEF GoodTable
<1>7. SumBytes(pending') = SumBytes(pending)
  <2>1. HasBytes(pending)
    BY <1>1, PendingHasBytes DEF GoodTable
  <2>2. HasBytes(pending')
    BY <1>3, <1>4, <1>6, <2>1 DEF GoodTable, HasBytes
  <2> DEFINE f == [e \in pending |-> e.bytes]
             g == [e \in pending' |-> e.bytes]
  <2>3. SumBytes(pending) = Sum(f, pending)
    BY <2>1, SumOfPart
  <2>4. SumBytes(pending') = Sum(g, pending')
    BY <2>2, SumOfPart
  <2>5. \A e \in pending : f[e] \in Nat /\ g[aged[e]] = f[e]
    BY <1>3, <1>4, <2>1 DEF HasBytes
  <2> HIDE DEF f, g
  <2>6. Sum(g, {aged[e] : e \in pending}) = Sum(f, pending)
    BY <1>1, <1>5, <2>5, SumImage DEF GoodTable
  <2> QED
    BY <1>3, <2>3, <2>4, <2>6
<1> QED
  BY <1>1, <1>2, <1>6, <1>7 DEF AccountInv, GoodTable, Keyed, TableIsMap

LEMMA NextAccounts ==
  ASSUME ReassemblyInv, AccountInv, [Next]_vars PROVE AccountInv'
<1>1. CASE UNCHANGED vars
  <2>1. UNCHANGED <<pending, bytes, sent, faults>>
    BY <1>1 DEF vars
  <2> QED
    BY <2>1, AccountParts, TableUnchanged
<1>2. ASSUME NEW p \in Peers, Send(p) PROVE AccountInv'
  BY <1>2, SendLargeAccounts DEF Send
<1>3. ASSUME NEW p \in Peers,
             DuplicatePacket(p) \/ SendForeign(p) \/ SenderRestart(p)
      PROVE  AccountInv'
  <2>1. Fault /\ UNCHANGED <<sent, pending, bytes>>
    BY <1>3 DEF DuplicatePacket, SendForeign, SenderRestart, receiverVars
  <2> QED
    BY <2>1, FaultAccounts, TableUnchanged
<1> QED
  BY <1>1, <1>2, <1>3, ReceiveAccounts, ReceiverRestartAccounts,
     TimePassesAccounts DEF Next

\* TableStaysAccounted: no interleaving of sends, packets, restarts and ticks,
\* of any number of peers, brings the Reassembler's table out of balance: each
\* entry counts the bytes of its slices, #bytes is their sum, and it fits the
\* budget (#ingest, #drop, #evictExpired and #enforceBudget of index.js).
THEOREM TableStaysAccounted == Spec => [](ReassemblyInv /\ AccountInv)
<1>1. Init => ReassemblyInv /\ AccountInv
  BY InitInv, InitAccounts
<1>2. ReassemblyInv /\ AccountInv /\ [Next]_vars
        => (ReassemblyInv /\ AccountInv)'
  BY NextInv, NextAccounts
<1> QED
  BY <1>1, <1>2, PTL DEF Spec

\* The type invariant: in particular a key has one entry at most, and the
\* entries are ordered by when their keys were set (index.js, class
\* Reassembler).
THEOREM TypeOKHolds == Spec => []TypeOK
<1>1. ReassemblyInv /\ AccountInv => TypeOK
  BY InvImpliesTypeOK
<1> QED
  BY <1>1, TableStaysAccounted, PTL

LEMMA InvImpliesAccounting ==
  ReassemblyInv /\ AccountInv => ByteAccounting /\ WithinBudget
BY DEF ReassemblyInv, PendingInv, GenuineEntry, AccountInv, EntryInv,
       ByteAccounting, WithinBudget

\* However packets are lost, repeated, reordered, evicted and swept, #bytes is
\* the number of bytes the table holds (index.js, #bytes).
THEOREM ByteAccountingHolds == Spec => []ByteAccounting
<1>1. ReassemblyInv /\ AccountInv => ByteAccounting
  BY InvImpliesAccounting
<1> QED
  BY <1>1, TableStaysAccounted, PTL

\* Partial messages never hold more than maxPendingBytes (#enforceBudget).
THEOREM WithinBudgetHolds == Spec => []WithinBudget
<1>1. ReassemblyInv /\ AccountInv => WithinBudget
  BY InvImpliesAccounting
<1> QED
  BY <1>1, TableStaysAccounted, PTL

-----------------------------------------------------------------------------
(* Why an entry is dropped.                                                *)

\* #enforceBudget drops entries older than all it keeps, and the table had no
\* room for the newest of them.
LEMMA EnforceBudgetTakesOldest ==
  ASSUME NEW entries, NEW held, Balanced(entries, held), Keyed(entries),
         \A e \in entries : e.born \in Nat,
         EnforceBudget(entries, held)
  PROVE  /\ pending' \subseteq entries
         /\ \A d \in entries \ pending' : \A f \in pending' : d.born < f.born
         /\ \A e \in entries \ pending' :
              \E d \in entries \ pending' :
                e.born <= d.born /\ bytes' + d.bytes > MaxPendingBytes
<1> DEFINE Older(e) == {f \in entries : f.born < e.born}
           dropped == {e \in entries : held - Freed(Older(e)) > MaxPendingBytes}
<1>1. pending' = entries \ dropped /\ bytes' = held - SumBytes(dropped)
  BY DEF EnforceBudget, Freed
<1>2. dropped \in SUBSET entries /\ entries \ pending' = dropped
  BY <1>1
<1>3. \A e \in entries :
        e \in dropped <=> held - SumBytes(Older(e)) > MaxPendingBytes
  BY DEF Freed
<1>4. \A e \in entries : \A f \in entries :
        /\ f \in Older(e) <=> f.born < e.born
        /\ Older(e) \in SUBSET entries
  OBVIOUS
<1> HIDE DEF dropped, Older
<1>5. HasBytes(entries) /\ held = SumBytes(entries) /\ held \in Nat
  BY BytesSplit DEF Balanced
<1>6. ASSUME NEW d \in dropped, NEW f \in entries \ dropped
      PROVE  d.born < f.born
  <2>1. SUFFICES ASSUME f.born <= d.born PROVE FALSE
    BY <1>2
  <2>2. f.born < d.born
    BY <1>2, <2>1 DEF Keyed
  <2>3. Older(f) \in SUBSET Older(d) /\ Older(d) \in SUBSET entries
    BY <1>2, <1>4, <2>2
  <2>4. HasBytes(Older(d))
    BY <1>5, <2>3, SumOfPart
  <2>5. /\ SumBytes(Older(f)) <= SumBytes(Older(d))
        /\ SumBytes(Older(f)) \in Nat /\ SumBytes(Older(d)) \in Nat
    BY <2>3, <2>4, BytesMonotonic, BytesSplit
  <2>6. held - SumBytes(Older(d)) > MaxPendingBytes
    BY <1>2, <1>3
  <2>7. held - SumBytes(Older(f)) > MaxPendingBytes
    BY <1>5, <2>5, <2>6, ReassemblyAssumption
  <2> QED
    BY <1>3, <2>7
<1>7. ASSUME NEW e \in dropped
      PROVE  \E d \in dropped :
               e.born <= d.born /\ bytes' + d.bytes > MaxPendingBytes
  <2> DEFINE born == [d \in dropped |-> d.born]
  <2>1. HasBytes(dropped)
    BY <1>2, <1>5, SumOfPart
  <2>2. \A d \in dropped : born[d] \in Nat /\ born[d] = d.born
    BY <1>2
  <2> HIDE DEF born
  <2>3. PICK d \in dropped : \A f \in dropped : born[f] <= born[d]
    BY <1>7, <2>1, <2>2, HasGreatest DEF HasBytes
  <2>4. e.born <= d.born
    BY <2>2, <2>3
  <2>5. dropped = Older(d) \cup {d} /\ d \notin Older(d)
    <3>1. d \in entries /\ d.born \in Nat
      BY <1>2
    <3>2. \A f \in Older(d) : f \in dropped
      <4>1. SUFFICES ASSUME NEW f \in Older(d), f \notin dropped PROVE FALSE
        OBVIOUS
      <4>2. f \in entries /\ f.born < d.born
        BY <1>4, <3>1, <4>1
      <4>3. d.born < f.born
        BY <1>6, <4>1, <4>2
      <4> QED
        BY <3>1, <4>2, <4>3
    <3>3. \A f \in dropped : f # d => f \in Older(d)
      <4>1. SUFFICES ASSUME NEW f \in dropped, f # d PROVE f.born < d.born
        BY <1>2, <1>4, <3>1
      <4>2. f.born <= d.born /\ f \in entries /\ f.born # d.born
        BY <1>2, <2>2, <2>3, <3>1, <4>1 DEF Keyed
      <4> QED
        BY <3>1, <4>2
    <3>4. d \notin Older(d)
      BY <1>4, <3>1
    <3> QED
      BY <3>2, <3>3, <3>4
  <2>6. HasBytes(Older(d)) /\ d.bytes \in Nat
    BY <1>2, <1>4, <1>5, SumOfPart DEF HasBytes
  <2>7. SumBytes(Older(d) \cup {d}) = SumBytes(Older(d)) + d.bytes
    BY <2>5, <2>6, BytesAdd
  <2>8. SumBytes(dropped) = SumBytes(Older(d)) + d.bytes
    BY <2>5, <2>7
  <2>9. SumBytes(Older(d)) \in Nat
    BY <2>6, BytesSplit
  <2>10. held - SumBytes(Older(d)) > MaxPendingBytes
    BY <1>2, <1>3
  <2>11. bytes' + d.bytes > MaxPendingBytes
    BY <1>1, <1>5, <2>6, <2>8, <2>9, <2>10, ReassemblyAssumption
  <2> QED
    BY <2>4, <2>11
<1> QED
  BY <1>1, <1>2, <1>6, <1>7

\* DroppedForAReason, entry by entry.
Gone == {e \in pending : ~ \E f \in pending' : SameEntry(e, f)}
OverBudget(e) ==
  /\ \A f \in pending' : e.born < f.born
  /\ \E g \in Gone : /\ e.born <= g.born
                     /\ bytes' + g.bytes + MaxPayload > MaxPendingBytes
Reason(e) ==
  \/ e.age > TtlMs
  \/ pending' = {} /\ faults' # faults
  \/ delivered'[e.peer] # delivered[e.peer]
  \/ \E f \in pending' : f.peer = e.peer /\ f.id = e.id /\ f.total # e.total
  \/ OverBudget(e)

LEMMA DropsByReason ==
  ASSUME \A e \in Gone : Reason(e) PROVE DroppedForAReason
BY DEF DroppedForAReason, Gone, Reason, OverBudget

\* A new entry is younger than every other: its own fragment alone is over the
\* budget when it goes.
LEMMA NewEntryIsYoungest ==
  ASSUME ReassemblyInv, AccountInv, NEW p \in Peers, NEW packet \in PacketType,
         SameOf(p, packet) = {},
         EntryOf(p, packet) = NewEntry(p, packet, OthersOf(p, packet))
  PROVE  /\ EntryOf(p, packet).bytes = 0
         /\ \A f \in OthersOf(p, packet) : f.born < EntryOf(p, packet).born
<1>1. OthersOf(p, packet) \in SUBSET pending
  BY DEF OthersOf, Live
<1>2. GoodTable(OthersOf(p, packet))
  BY <1>1, AccountParts, GoodPart
<1>3. /\ IsFiniteSet(OthersOf(p, packet))
      /\ \A f \in OthersOf(p, packet) : f.born \in Nat
  BY <1>2 DEF GoodTable, EntryInv
<1>4. /\ EntryOf(p, packet).bytes = 0
      /\ EntryOf(p, packet).born = NextBorn(OthersOf(p, packet))
  BY NewEntryFields
<1> QED
  BY <1>3, <1>4, NewBornIsLast

\* Store drops what is too old, what it completes, what another total replaces,
\* and the oldest of a table that does not fit.
LEMMA StoreDrops ==
  ASSUME ReassemblyInv, AccountInv, NEW p \in Peers, NEW packet \in PacketType,
         GenuinePacket(p, sent[p], packet), packet.total > 1,
         Store(p, packet), NEW e \in Gone
  PROVE  Reason(e)
<1> DEFINE mine == MineOf(p, packet)
           same == SameOf(p, packet)
           others == OthersOf(p, packet)
           held == HeldOf(p, packet)
           entry == EntryOf(p, packet)
           length == packet.body.length
           filled == FilledOf(p, packet)
           entries == others \cup {filled}
<1>1. /\ mine = {f \in Live : f.peer = p /\ f.id = packet.id}
      /\ same = {f \in mine : f.total = packet.total}
      /\ others = Live \ mine
  BY DEF MineOf, SameOf, OthersOf, HasKey, Continues
<1>2. /\ e \in pending /\ \A f \in pending' : ~SameEntry(e, f)
      /\ e \notin pending'
  BY DEF Gone, SameEntry
<1>3. /\ Swept(p, packet, entry, others, held)
      /\ same # {} => entry \in pending
      /\ same = {} => entry = NewEntry(p, packet, others)
  BY StoreSweeps
<1>4. \/ pending' = Live
      \/ pending' = others /\ Deliver(p, filled.chunks)
      \/ /\ IsFree(entry, packet.index) /\ filled.received # filled.total
         /\ EnforceBudget(entries, held + length)
  BY StoreByParts
<1>5. ASSUME IsFree(entry, packet.index), filled.received # filled.total
      PROVE  /\ filled.peer = p /\ filled.id = packet.id
             /\ filled.total = packet.total /\ filled.born = entry.born
             /\ filled.bytes = entry.bytes + length
             /\ entry.bytes \in Nat /\ length \in 0..MaxPayload
             /\ GoodTable(entries) /\ Balanced(entries, held + length)
  BY <1>5, StoreGathers
<1>6. same = {} => /\ entry.bytes = 0
                   /\ \A f \in others : f.born < entry.born
  BY <1>3, NewEntryIsYoungest
<1> HIDE DEF mine, same, others, held, entry, filled
<1>7. CASE e \notin Live
  <2>1. e.age \in Nat /\ ~(e.age <= TtlMs)
    BY <1>2, <1>7, ReassemblyAssumption DEF Live, AccountInv, EntryInv
  <2> QED
    BY <2>1, ReassemblyAssumption DEF Reason
<1>8. CASE e \in Live /\ pending' = Live
  BY <1>2, <1>8
<1>9. CASE e \in Live /\ pending' = others /\ Deliver(p, filled.chunks)
  <2>1. e \in mine /\ e.peer = p
    BY <1>1, <1>2, <1>9
  <2>2. delivered \in [Peers -> Seq(Chunks)] /\ delivered[p] \in Seq(Chunks)
    BY DEF ReassemblyInv, DeliveredInv
  <2>3. delivered'[p] = Append(delivered[p], filled.chunks)
    BY <1>9, <2>2 DEF Deliver
  <2>4. delivered'[p] # delivered[p]
    <3>1. Len(Append(delivered[p], filled.chunks)) = Len(delivered[p]) + 1
          /\ Len(delivered[p]) \in Nat
      BY <2>2
    <3> QED
      BY <2>3, <3>1
  <2> QED
    BY <2>1, <2>4 DEF Reason
<1>10. CASE /\ e \in Live
            /\ IsFree(entry, packet.index) /\ filled.received # filled.total
            /\ EnforceBudget(entries, held + length)
  <2>1. /\ filled.peer = p /\ filled.id = packet.id
        /\ filled.total = packet.total /\ filled.born = entry.born
        /\ filled.bytes = entry.bytes + length
        /\ entry.bytes \in Nat /\ length \in 0..MaxPayload
    BY <1>5, <1>10
  <2>2. GoodTable(entries) /\ Balanced(entries, held + length)
    BY <1>5, <1>10
  <2>3. Keyed(entries) /\ \A f \in entries : f.born \in Nat
    BY <2>2 DEF GoodTable, EntryInv
  <2>4. EnforceBudget(entries, held + length)
    BY <1>10
  <2>5. filled \in entries /\ others \in SUBSET entries
        /\ \A f \in entries : f = filled \/ f \in others
    OBVIOUS
  <2>6. others \in SUBSET pending /\ others = Live \ mine
    BY <1>1, <1>3 DEF Swept
  <2> HIDE DEF entries
  <2>7. /\ pending' \subseteq entries
        /\ \A d \in entries \ pending' : \A f \in pending' : d.born < f.born
        /\ \A d \in entries \ pending' :
             \E n \in entries \ pending' :
               d.born <= n.born /\ bytes' + n.bytes > MaxPendingBytes
    BY <2>2, <2>3, <2>4, EnforceBudgetTakesOldest
  \* The entry that stands for e in the table #enforceBudget is given.
  <2>8. CASE e \in mine \ same /\ filled \in pending'
    BY <1>1, <1>2, <2>1, <2>8 DEF Reason
  <2>9. bytes' \in Nat
    <3>1. (Balanced(pending, bytes))'
      BY <2>2, <2>3, <2>4, EnforceBudgetFits
    <3> QED
      BY <3>1, BytesSplit DEF Balanced
  <2>10. MaxPendingBytes \in Nat /\ MaxPayload \in Nat /\ length <= MaxPayload
         /\ length \in Nat /\ e.born \in Nat /\ e.bytes \in Nat
    <3>1. EntryInv(e) /\ HasBytes(pending)
      BY <1>2, PendingHasBytes DEF AccountInv
    <3> QED
      BY <1>2, <2>1, <3>1, ReassemblyAssumption DEF EntryInv, HasBytes
  <2>11. CASE same = {} /\ filled \notin pending'
    <3>1. pending' = {}
      BY <1>6, <2>1, <2>3, <2>5, <2>7, <2>11
    <3>2. PICK n \in entries \ pending' :
            filled.born <= n.born /\ bytes' + n.bytes > MaxPendingBytes
      BY <2>5, <2>7, <2>11
    <3>3. n = filled
      BY <1>6, <2>1, <2>3, <2>5, <2>11, <3>2
    <3>4. bytes' + length > MaxPendingBytes
      BY <1>6, <2>1, <2>10, <2>11, <3>2, <3>3
    <3>5. bytes' + e.bytes + MaxPayload > MaxPendingBytes /\ e.born <= e.born
      BY <2>9, <2>10, <3>4
    <3> QED
      BY <3>1, <3>5 DEF Reason, OverBudget
  \* d stands for e in the table that #enforceBudget is given.
  <2>12. CASE ~(e \in mine \ same /\ filled \in pending')
              /\ ~(same = {} /\ filled \notin pending')
    <3>1. e \notin mine \ same
      <4>1. SUFFICES ASSUME e \in mine \ same, same # {} PROVE FALSE
        BY <2>12
      <4>2. PICK f \in same : TRUE
        BY <4>1
      <4>3. /\ f \in pending /\ f # e
            /\ f.peer = e.peer /\ f.id = e.id
        BY <1>1, <4>1, <4>2 DEF Live
      <4> QED
        BY <1>2, <4>3 DEF AccountInv, TableIsMap
    <3>2. PICK d \in entries \ pending' : d.born = e.born
      <4>1. CASE e \in others
        BY <1>2, <2>5, <4>1
      <4>2. CASE e \in same
        <5>1. filled \notin pending'
          BY <1>1, <1>2, <2>1, <4>2 DEF SameEntry
        <5>2. entry \in pending /\ entry.peer = e.peer /\ entry.id = e.id
          BY <1>1, <1>3, <4>2 DEF Swept
        <5>3. entry = e
          BY <1>2, <5>2 DEF AccountInv, TableIsMap
        <5> QED
          BY <2>1, <2>5, <5>1, <5>3
      <4> QED
        BY <1>10, <2>6, <3>1, <4>1, <4>2
    <3>3. \A f \in pending' : e.born < f.born
      BY <2>7, <3>2
    <3>4. PICK n \in entries \ pending' :
            e.born <= n.born /\ bytes' + n.bytes > MaxPendingBytes
      BY <2>7, <3>2
    <3>5. \A f \in pending' : <<f.peer, f.id>> # <<n.peer, n.id>>
      BY <2>3, <2>7, <3>4 DEF Keyed
    <3>6. CASE n \in others
      <4>1. n \in Gone
        BY <2>6, <3>5, <3>6 DEF Gone, SameEntry
      <4>2. n.bytes \in Nat
        BY <2>2, <3>4 DEF Balanced, HasBytes
      <4>3. bytes' + n.bytes + MaxPayload > MaxPendingBytes
        BY <2>9, <2>10, <3>4, <4>2
      <4> QED
        BY <3>3, <3>4, <4>1, <4>3 DEF Reason, OverBudget
    <3>7. CASE n = filled
      <4>1. entry \in pending /\ entry.peer = p /\ entry.id = packet.id
        BY <1>3, <2>12, <3>4, <3>7 DEF Swept
      <4>2. entry \in Gone
        BY <2>1, <3>5, <3>7, <4>1 DEF Gone, SameEntry
      <4>3. e.born <= entry.born
        BY <2>1, <3>4, <3>7
      <4>4. bytes' + (entry.bytes + length) > MaxPendingBytes
        BY <2>1, <3>4, <3>7
      <4>5. bytes' + entry.bytes + MaxPayload > MaxPendingBytes
        BY <2>1, <2>9, <2>10, <4>4
      <4> QED
        BY <3>3, <4>2, <4>3, <4>5 DEF Reason, OverBudget
    <3> QED
      BY <2>5, <3>4, <3>6, <3>7
  <2> QED
    BY <2>8, <2>11, <2>12
<1> QED
  BY <1>4, <1>7, <1>8, <1>9, <1>10

LEMMA KeepsTable == ASSUME UNCHANGED pending PROVE Gone = {}
BY DEF Gone, SameEntry

LEMMA ReceiveDrops ==
  ASSUME ReassemblyInv, AccountInv, NEW p \in Peers, Receive(p)
  PROVE  \A e \in Gone : Reason(e)
<1>1. PICK i \in Deliverable(p) : Accept(p, network[p][i])
  BY DEF Receive
<1>2. CASE UNCHANGED pending
  BY <1>2, KeepsTable
<1>3. CASE /\ IsFragment(network[p][i]) /\ network[p][i].total > 1
           /\ Store(p, network[p][i])
  <2> DEFINE packet == network[p][i]
  <2>1. i \in DOMAIN network[p]
    BY DEF Deliverable
  <2>2. packet = ForeignPacket \/ GenuinePacket(p, sent[p], packet)
    BY <2>1 DEF ReassemblyInv, NetworkInv
  <2>3. packet \in PacketType
    BY <2>1 DEF ReassemblyInv, NetworkInv
  <2>4. packet # ForeignPacket
    BY <1>3 DEF ForeignPacket, IsFragment
  <2>5. packet.total > 1 /\ Store(p, packet)
    BY <1>3
  <2> HIDE DEF packet
  <2> QED
    BY <2>2, <2>3, <2>4, <2>5, StoreDrops
<1> QED
  BY <1>1, <1>2, <1>3 DEF Accept, receiverVars

LEMMA TimePassesDrops ==
  ASSUME ReassemblyInv, TimePasses PROVE Gone = {}
<1>1. SUFFICES ASSUME NEW e \in pending PROVE \E f \in pending' : SameEntry(e, f)
  BY DEF Gone
<1> DEFINE f == [e EXCEPT !.age = IF @ > TtlMs THEN @ ELSE @ + 1]
<1>2. f \in pending'
  BY DEF TimePasses
<1>3. GenuineEntry(e.peer, sent[e.peer], e)
  BY DEF ReassemblyInv, PendingInv
<1>4. SameEntry(e, f)
  BY <1>3 DEF GenuineEntry, SameEntry
<1> QED
  BY <1>2, <1>4

LEMMA NextDrops ==
  ASSUME ReassemblyInv, AccountInv, [Next]_vars PROVE [DroppedForAReason]_vars
<1>1. CASE UNCHANGED vars
  BY <1>1
<1>2. ASSUME NEW p \in Peers, Receive(p) PROVE DroppedForAReason
  BY <1>2, ReceiveDrops, DropsByReason
<1>3. ASSUME NEW p \in Peers,
             \/ Send(p) \/ DuplicatePacket(p) \/ SendForeign(p)
             \/ SenderRestart(p)
      PROVE  DroppedForAReason
  <2>1. UNCHANGED pending
    BY <1>3 DEF Send, SendLarge, DuplicatePacket, SendForeign, SenderRestart,
                receiverVars
  <2> QED
    BY <2>1, KeepsTable, DropsByReason
<1>4. CASE ReceiverRestart
  <2>1. pending' = {} /\ faults' = faults + 1 /\ faults \in Nat
    BY <1>4, ReassemblyAssumption
       DEF ReceiverRestart, Fault, AccountInv, BoundsInv
  <2>2. \A e \in Gone : Reason(e)
    BY <2>1 DEF Reason
  <2> QED
    BY <2>2, DropsByReason
<1>5. CASE TimePasses
  BY <1>5, TimePassesDrops, DropsByReason
<1> QED
  BY <1>1, <1>2, <1>3, <1>4, <1>5 DEF Next

\* A partial message that is not past its TTL goes for a reason: completed,
\* started over under another total, cleared by shutdown(), or among the oldest
\* of a table that did not fit (#evictExpired, #ingest, #enforceBudget).
THEOREM DropsOnlyForAReasonHolds == Spec => DropsOnlyForAReason
<1>1. ReassemblyInv /\ AccountInv /\ [Next]_vars => [DroppedForAReason]_vars
  BY NextDrops
<1> QED
  BY <1>1, TableStaysAccounted, PTL DEF Spec, DropsOnlyForAReason
=============================================================================
