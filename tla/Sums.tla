-------------------------------- MODULE Sums --------------------------------
(***************************************************************************)
(* Totals of balances, debts and amounts, for the properties that relate   *)
(* what accounts hold to a counter; and what the proofs need of them: they *)
(* do not depend on the order of summation, and changing one summand       *)
(* changes the sum by as much.                                             *)
(***************************************************************************)
EXTENDS Integers, FiniteSetsExt, FiniteSetTheorems, TLAPS

\* The sum of f[x] over the elements x of S.
SumOn(f, S) == MapThenSumSet(LAMBDA x : f[x], S)

\* The sum of all values of f.
Total(f) == SumOn(f, DOMAIN f)

-----------------------------------------------------------------------------
(***************************************************************************)
(* The fold behind SumOn is a recursive function, so its equation has to   *)
(* be proved: by the smallest set for which it could fail.                 *)
(***************************************************************************)
\* The element the fold takes first.
First(s) == CHOOSE x \in s : TRUE

\* g gives the sums of f over the subsets of S, as the fold computes them.
Computes(g, f, S) ==
  g = [s \in SUBSET S |-> IF s = {} THEN 0 ELSE f[First(s)] + g[s \ {First(s)}]]

\* A nonempty family of subsets of a finite set has a smallest member.
LEMMA SmallestMember ==
  ASSUME NEW S, IsFiniteSet(S), NEW F \in SUBSET (SUBSET S), F # {}
  PROVE  \E s \in F : \A t \in SUBSET s : t # s => t \notin F
<1>1. IsWellFoundedOn(StrictSubsetOrdering(S), SUBSET S)
  BY FS_StrictSubsetOrderingWellFounded, FS_FiniteSubsetsOfFinite
<1>2. PICK s \in F : \A t \in F : ~ (<<t, s>> \in StrictSubsetOrdering(S))
  BY <1>1, WFMin
<1>3. ASSUME NEW t \in SUBSET s, t # s, t \in F
      PROVE  FALSE
  BY <1>2, <1>3 DEF StrictSubsetOrdering
<1> QED
  BY <1>3

\* The first element is an element.
LEMMA FirstIn ==
  ASSUME NEW s, s # {}
  PROVE  First(s) \in s /\ s \ {First(s)} # s
  BY DEF First

\* The equation has at most one solution.
LEMMA ComputesUnique ==
  ASSUME NEW f, NEW S, IsFiniteSet(S), NEW T \in SUBSET S, NEW g, NEW h,
         Computes(g, f, S), Computes(h, f, T)
  PROVE  \A s \in SUBSET T : g[s] = h[s]
<1> DEFINE F == {s \in SUBSET T : g[s] # h[s]}
<1> SUFFICES ASSUME F # {} PROVE FALSE
  OBVIOUS
<1>1. F \in SUBSET (SUBSET S)
  OBVIOUS
<1> HIDE DEF F
<1>2. PICK s \in F : \A t \in SUBSET s : t # s => t \notin F
  BY <1>1, SmallestMember
<1> USE DEF F
<1>3. CASE s = {}
  BY <1>2, <1>3 DEF Computes
<1>4. CASE s # {}
  <2>1. First(s) \in s /\ s \ {First(s)} # s
    BY <1>4, FirstIn
  <2>2. g[s \ {First(s)}] = h[s \ {First(s)}]
    BY <1>2, <2>1
  <2>3. g[s] = f[First(s)] + g[s \ {First(s)}]
    BY <1>4 DEF Computes
  <2>4. h[s] = f[First(s)] + h[s \ {First(s)}]
    BY <1>4 DEF Computes
  <2> QED
    BY <2>2, <2>3, <2>4
<1> QED
  BY <1>3, <1>4

\* The equation has a solution.
LEMMA ComputesExists ==
  ASSUME NEW f, NEW S, IsFiniteSet(S)
  PROVE  \E g : Computes(g, f, S)
<1> DEFINE F == {s \in SUBSET S : ~ \E g : Computes(g, f, s)}
<1> SUFFICES ASSUME F # {} PROVE FALSE
  OBVIOUS
<1>1. PICK s \in F : \A t \in SUBSET s : t # s => t \notin F
  <2>1. F \in SUBSET (SUBSET S)
    OBVIOUS
  <2> HIDE DEF F
  <2> QED
    BY <2>1, SmallestMember
<1>2. s \in SUBSET S /\ ~ \E g : Computes(g, f, s)
  OBVIOUS
<1> DEFINE part(t) == CHOOSE g : Computes(g, f, t)
           rest(t) == t \ {First(t)}
           whole == [t \in SUBSET s |->
                       IF t = {} THEN 0 ELSE f[First(t)] + part(rest(t))[rest(t)]]
<1>3. ASSUME NEW t \in SUBSET s, t # s
      PROVE  Computes(part(t), f, t) /\ IsFiniteSet(t)
  <2>1. \E g : Computes(g, f, t)
    BY <1>1, <1>2, <1>3
  <2> QED
    BY <1>2, <2>1, FS_Subset
<1> HIDE DEF part
<1>4. ASSUME NEW t \in SUBSET s, t # {}
      PROVE  whole[rest(t)] = part(rest(t))[rest(t)]
  <2>1. rest(t) \in SUBSET s /\ rest(t) # s
    BY <1>4, FirstIn
  <2>2. Computes(part(rest(t)), f, rest(t)) /\ IsFiniteSet(rest(t))
    BY <1>3, <2>1
  <2>3. CASE rest(t) = {}
    BY <2>1, <2>2, <2>3 DEF Computes
  <2>4. CASE rest(t) # {}
    <3> DEFINE u == rest(t)
               v == rest(u)
    <3> HIDE DEF rest
    <3>1. v \in SUBSET u /\ v \in SUBSET s /\ v # s
      BY <2>1, <2>4, FirstIn DEF rest
    <3>2. Computes(part(v), f, v)
      BY <1>3, <3>1
    <3>3. part(u)[v] = part(v)[v]
      <4>1. v \in SUBSET v
        OBVIOUS
      <4> QED
        BY <2>2, <3>1, <3>2, <4>1, ComputesUnique
    <3>4. part(u)[u] = f[First(u)] + part(u)[v]
      BY <2>2, <2>4 DEF Computes, rest
    <3>5. whole[u] = f[First(u)] + part(v)[v]
      BY <2>1, <2>4
    <3> QED
      BY <3>3, <3>4, <3>5
  <2> QED
    BY <2>3, <2>4
<1>5. Computes(whole, f, s)
  <2>1. whole = [t \in SUBSET s |->
                   IF t = {} THEN 0 ELSE f[First(t)] + whole[t \ {First(t)}]]
    BY <1>4
  <2> QED
    BY <2>1 DEF Computes
<1> QED
  BY <1>2, <1>5

-----------------------------------------------------------------------------
(***************************************************************************)
(* The equations of SumOn.                                                 *)
(***************************************************************************)
\* The fold is the choice of a solution.
LEMMA SumIsFold ==
  ASSUME NEW f, NEW S
  PROVE  SumOn(f, S) = (CHOOSE g : Computes(g, f, S))[S]
BY DEF SumOn, MapThenSumSet, MapThenFoldSet, First, Computes

\* The sum over a finite set is the value there of any solution.
LEMMA SumComputed ==
  ASSUME NEW f, NEW S, IsFiniteSet(S), NEW T \in SUBSET S, NEW g, Computes(g, f, S)
  PROVE  SumOn(f, T) = g[T]
<1>1. IsFiniteSet(T)
  BY FS_Subset
<1>2. PICK h : Computes(h, f, T)
  BY <1>1, ComputesExists
<1> DEFINE w == CHOOSE h0 : Computes(h0, f, T)
<1>3. Computes(w, f, T)
  BY <1>2
<1> HIDE DEF w
<1>4. T \in SUBSET T
  OBVIOUS
<1>5. g[T] = w[T]
  BY <1>1, <1>3, <1>4, ComputesUnique
<1> QED
  BY <1>5, SumIsFold DEF w

\* The empty sum.
LEMMA SumEmpty ==
  ASSUME NEW f
  PROVE  SumOn(f, {}) = 0
<1>1. IsFiniteSet({})
  BY FS_EmptySet
<1>2. PICK g : Computes(g, f, {})
  BY <1>1, ComputesExists
<1>3. SumOn(f, {}) = g[{}]
  BY <1>1, <1>2, SumComputed
<1> QED
  BY <1>2, <1>3 DEF Computes

\* The sum is its first summand and the sum of the others.
LEMMA SumFirst ==
  ASSUME NEW f, NEW S, IsFiniteSet(S), S # {}
  PROVE  SumOn(f, S) = f[First(S)] + SumOn(f, S \ {First(S)})
<1>1. PICK g : Computes(g, f, S)
  BY ComputesExists
<1>2. SumOn(f, S) = g[S] /\ SumOn(f, S \ {First(S)}) = g[S \ {First(S)}]
  BY <1>1, SumComputed
<1> QED
  BY <1>1, <1>2 DEF Computes

\* Sums of integers are integers.
LEMMA SumInt ==
  ASSUME NEW f, NEW S, IsFiniteSet(S), \A x \in S : f[x] \in Int
  PROVE  SumOn(f, S) \in Int
<1> DEFINE F == {s \in SUBSET S : SumOn(f, s) \notin Int}
<1> SUFFICES ASSUME F # {} PROVE FALSE
  OBVIOUS
<1>1. F \in SUBSET (SUBSET S)
  OBVIOUS
<1> HIDE DEF F
<1>2. PICK s \in F : \A t \in SUBSET s : t # s => t \notin F
  BY <1>1, SmallestMember
<1>3. s \in SUBSET S /\ IsFiniteSet(s) /\ SumOn(f, s) \notin Int
  BY FS_Subset DEF F
<1>4. s # {}
  BY <1>3, SumEmpty
<1>5. First(s) \in s /\ s \ {First(s)} # s
  BY <1>4, FirstIn
<1>6. SumOn(f, s \ {First(s)}) \in Int
  BY <1>2, <1>3, <1>5 DEF F
<1> QED
  BY <1>3, <1>4, <1>5, <1>6, SumFirst

\* Any summand can be taken out.
LEMMA SumRemove ==
  ASSUME NEW f, NEW S, IsFiniteSet(S), NEW x \in S, \A y \in S : f[y] \in Int
  PROVE  SumOn(f, S) = f[x] + SumOn(f, S \ {x})
<1> DEFINE Out(s) == \A y \in s : SumOn(f, s) = f[y] + SumOn(f, s \ {y})
           F == {s \in SUBSET S : ~ Out(s)}
<1>0. SUFFICES ASSUME F # {} PROVE FALSE
  OBVIOUS
<1>1. F \in SUBSET (SUBSET S)
  OBVIOUS
<1> HIDE DEF F
<1>2. PICK s \in F : \A t \in SUBSET s : t # s => t \notin F
  BY <1>0, <1>1, SmallestMember
<1>3. s \in SUBSET S /\ ~ Out(s)
  BY DEF F
<1>4. PICK y \in s : SumOn(f, s) # f[y] + SumOn(f, s \ {y})
  BY <1>3
<1> DEFINE z == First(s)
           r == s \ {z, y}
<1>5. z \in s /\ IsFiniteSet(s) /\ s \ {z} # s
  BY <1>3, <1>4, FirstIn, FS_Subset
<1>6. SumOn(f, s) = f[z] + SumOn(f, s \ {z})
  BY <1>4, <1>5, SumFirst
<1>7. y # z
  BY <1>4, <1>6
<1> HIDE DEF z
<1>8. Out(s \ {z}) /\ Out(s \ {y})
  BY <1>2, <1>3, <1>5 DEF F
<1>9. (s \ {z}) \ {y} = r /\ (s \ {y}) \ {z} = r
  OBVIOUS
<1>10. SumOn(f, s \ {z}) = f[y] + SumOn(f, r)
  BY <1>7, <1>8, <1>9
<1>11. SumOn(f, s \ {y}) = f[z] + SumOn(f, r)
  BY <1>5, <1>7, <1>8, <1>9
<1>12. f[z] \in Int /\ f[y] \in Int /\ SumOn(f, r) \in Int
  <2>1. r \in SUBSET S /\ IsFiniteSet(r)
    BY <1>3, FS_Subset
  <2> HIDE DEF r
  <2> QED
    BY <1>3, <1>5, <2>1, SumInt
<1> HIDE DEF r
<1> QED
  BY <1>4, <1>6, <1>10, <1>11, <1>12

-----------------------------------------------------------------------------
(***************************************************************************)
(* How sums compare.                                                       *)
(***************************************************************************)
\* Only the values on the set matter.
LEMMA SumAgree ==
  ASSUME NEW f, NEW g, NEW S, IsFiniteSet(S), \A x \in S : f[x] = g[x]
  PROVE  SumOn(f, S) = SumOn(g, S)
<1> DEFINE F == {s \in SUBSET S : SumOn(f, s) # SumOn(g, s)}
<1>0. SUFFICES ASSUME F # {} PROVE FALSE
  OBVIOUS
<1>1. F \in SUBSET (SUBSET S)
  OBVIOUS
<1> HIDE DEF F
<1>2. PICK s \in F : \A t \in SUBSET s : t # s => t \notin F
  BY <1>0, <1>1, SmallestMember
<1>3. s \in SUBSET S /\ IsFiniteSet(s) /\ SumOn(f, s) # SumOn(g, s)
  BY FS_Subset DEF F
<1>4. s # {}
  BY <1>3, SumEmpty
<1>5. First(s) \in s /\ s \ {First(s)} # s
  BY <1>4, FirstIn
<1>6. SumOn(f, s \ {First(s)}) = SumOn(g, s \ {First(s)})
  BY <1>2, <1>3, <1>5 DEF F
<1>7. /\ SumOn(f, s) = f[First(s)] + SumOn(f, s \ {First(s)})
      /\ SumOn(g, s) = g[First(s)] + SumOn(g, s \ {First(s)})
  BY <1>3, <1>4, SumFirst
<1> QED
  BY <1>3, <1>5, <1>6, <1>7

\* Changing one summand changes the sum by as much.
LEMMA SumChange ==
  ASSUME NEW f, NEW g, NEW S, IsFiniteSet(S), NEW x \in S,
         \A y \in S : f[y] \in Int /\ g[y] \in Int,
         \A y \in S : y # x => g[y] = f[y]
  PROVE  SumOn(g, S) = SumOn(f, S) + (g[x] - f[x])
<1> DEFINE r == S \ {x}
<1>1. IsFiniteSet(r) /\ r \in SUBSET S
  BY FS_Subset
<1>2. SumOn(f, r) = SumOn(g, r)
  BY <1>1, SumAgree
<1>3. SumOn(f, r) \in Int
  BY <1>1, SumInt
<1>4. SumOn(f, S) = f[x] + SumOn(f, r) /\ SumOn(g, S) = g[x] + SumOn(g, r)
  BY SumRemove
<1> HIDE DEF r
<1> QED
  BY <1>2, <1>3, <1>4

\* Adding an element adds its value.
LEMMA SumAdd ==
  ASSUME NEW f, NEW S, IsFiniteSet(S), NEW x, x \notin S,
         \A y \in S \cup {x} : f[y] \in Int
  PROVE  SumOn(f, S \cup {x}) = SumOn(f, S) + f[x]
<1>1. IsFiniteSet(S \cup {x})
  BY FS_AddElement
<1>2. (S \cup {x}) \ {x} = S
  OBVIOUS
<1>3. SumOn(f, S \cup {x}) = f[x] + SumOn(f, S)
  BY <1>1, <1>2, SumRemove
<1>4. SumOn(f, S) \in Int
  BY SumInt
<1> QED
  BY <1>3, <1>4

\* Sums of natural numbers are natural numbers.
LEMMA SumNat ==
  ASSUME NEW f, NEW S, IsFiniteSet(S), \A x \in S : f[x] \in Nat
  PROVE  SumOn(f, S) \in Nat
<1> DEFINE F == {s \in SUBSET S : SumOn(f, s) \notin Nat}
<1>0. SUFFICES ASSUME F # {} PROVE FALSE
  OBVIOUS
<1>1. F \in SUBSET (SUBSET S)
  OBVIOUS
<1> HIDE DEF F
<1>2. PICK s \in F : \A t \in SUBSET s : t # s => t \notin F
  BY <1>0, <1>1, SmallestMember
<1>3. s \in SUBSET S /\ IsFiniteSet(s) /\ SumOn(f, s) \notin Nat
  BY FS_Subset DEF F
<1>4. s # {}
  BY <1>3, SumEmpty
<1>5. First(s) \in s /\ s \ {First(s)} # s
  BY <1>4, FirstIn
<1>6. SumOn(f, s \ {First(s)}) \in Nat
  BY <1>2, <1>3, <1>5 DEF F
<1> QED
  BY <1>3, <1>4, <1>5, <1>6, SumFirst

\* No summand exceeds the sum.
LEMMA SumBounds ==
  ASSUME NEW f, NEW S, IsFiniteSet(S), \A x \in S : f[x] \in Nat
  PROVE  \A x \in S : f[x] =< SumOn(f, S)
<1> SUFFICES ASSUME NEW x \in S PROVE f[x] =< SumOn(f, S)
  OBVIOUS
<1>1. SumOn(f, S) = f[x] + SumOn(f, S \ {x})
  BY SumRemove
<1>2. IsFiniteSet(S \ {x})
  BY FS_Subset
<1>3. SumOn(f, S \ {x}) \in Nat
  BY <1>2, SumNat
<1> QED
  BY <1>1, <1>3

\* Smaller summands give a smaller sum.
LEMMA SumMonotone ==
  ASSUME NEW f, NEW g, NEW S, IsFiniteSet(S),
         \A x \in S : f[x] \in Int /\ g[x] \in Int /\ f[x] =< g[x]
  PROVE  SumOn(f, S) =< SumOn(g, S)
<1> DEFINE F == {s \in SUBSET S : ~ (SumOn(f, s) =< SumOn(g, s))}
<1>0. SUFFICES ASSUME F # {} PROVE FALSE
  OBVIOUS
<1>1. F \in SUBSET (SUBSET S)
  OBVIOUS
<1> HIDE DEF F
<1>2. PICK s \in F : \A t \in SUBSET s : t # s => t \notin F
  BY <1>0, <1>1, SmallestMember
<1>3. s \in SUBSET S /\ IsFiniteSet(s) /\ ~ (SumOn(f, s) =< SumOn(g, s))
  BY FS_Subset DEF F
<1>4. s # {}
  BY <1>3, SumEmpty
<1> DEFINE z == First(s)
           r == s \ {z}
<1>5. z \in s /\ r # s /\ r \in SUBSET s
  BY <1>4, FirstIn
<1>6. SumOn(f, r) =< SumOn(g, r)
  BY <1>2, <1>3, <1>5 DEF F
<1>7. SumOn(f, s) = f[z] + SumOn(f, r) /\ SumOn(g, s) = g[z] + SumOn(g, r)
  BY <1>3, <1>4, SumFirst
<1>8. IsFiniteSet(r) /\ r \in SUBSET S
  BY <1>3, <1>5, FS_Subset
<1>9. SumOn(f, r) \in Int /\ SumOn(g, r) \in Int
  BY <1>8, SumInt
<1> HIDE DEF z, r
<1> QED
  BY <1>3, <1>5, <1>6, <1>7, <1>9

\* A sum over fewer elements is no larger.
LEMMA SumPart ==
  ASSUME NEW f, NEW S, IsFiniteSet(S), NEW T \in SUBSET S,
         \A x \in S : f[x] \in Nat
  PROVE  SumOn(f, T) =< SumOn(f, S)
<1> DEFINE F == {s \in SUBSET S : T \subseteq s /\ ~ (SumOn(f, T) =< SumOn(f, s))}
<1>0. SUFFICES ASSUME F # {} PROVE FALSE
  OBVIOUS
<1>1. F \in SUBSET (SUBSET S)
  OBVIOUS
<1> HIDE DEF F
<1>2. PICK s \in F : \A t \in SUBSET s : t # s => t \notin F
  BY <1>0, <1>1, SmallestMember
<1>3. /\ s \in SUBSET S /\ IsFiniteSet(s) /\ T \subseteq s
      /\ ~ (SumOn(f, T) =< SumOn(f, s))
  BY FS_Subset DEF F
<1>4. IsFiniteSet(T) /\ SumOn(f, T) \in Nat
  <2>1. IsFiniteSet(T)
    BY FS_Subset
  <2> QED
    BY <2>1, SumNat
<1>5. s # T
  BY <1>3, <1>4
<1>6. PICK x \in s : x \notin T
  BY <1>3, <1>5
<1>7. SumOn(f, T) =< SumOn(f, s \ {x})
  BY <1>2, <1>3, <1>6 DEF F
<1>8. SumOn(f, s) = f[x] + SumOn(f, s \ {x})
  BY <1>3, <1>6, SumRemove
<1>9. SumOn(f, s \ {x}) \in Nat
  <2>1. IsFiniteSet(s \ {x})
    BY <1>3, FS_Subset
  <2> QED
    BY <1>3, <2>1, SumNat
<1> QED
  BY <1>3, <1>4, <1>6, <1>7, <1>8, <1>9

\* A sum splits over a part and the rest.
LEMMA SumSplit ==
  ASSUME NEW f, NEW S, IsFiniteSet(S), NEW T \in SUBSET S, \A x \in S : f[x] \in Int
  PROVE  SumOn(f, S) = SumOn(f, T) + SumOn(f, S \ T)
<1> DEFINE F == {s \in SUBSET S : SumOn(f, S) # SumOn(f, s) + SumOn(f, S \ s)}
<1>0. SUFFICES ASSUME F # {} PROVE FALSE
  OBVIOUS
<1>1. F \in SUBSET (SUBSET S)
  OBVIOUS
<1> HIDE DEF F
<1>2. PICK s \in F : \A t \in SUBSET s : t # s => t \notin F
  BY <1>0, <1>1, SmallestMember
<1>3. s \in SUBSET S /\ SumOn(f, S) # SumOn(f, s) + SumOn(f, S \ s)
  BY DEF F
<1>4. SumOn(f, S) \in Int
  BY SumInt
<1>5. s # {}
  <2>1. S \ {} = S
    OBVIOUS
  <2> QED
    BY <1>3, <1>4, <2>1, SumEmpty
<1>6. PICK x \in s : TRUE
  BY <1>5
<1> DEFINE t == s \ {x}
           r == S \ s
<1>7. t \in SUBSET s /\ t # s /\ t \in SUBSET S /\ S \ t = r \cup {x} /\ x \notin r
  BY <1>3, <1>6
<1>8. IsFiniteSet(s) /\ IsFiniteSet(t) /\ IsFiniteSet(r)
  BY <1>3, <1>7, FS_Subset
<1>9. SumOn(f, S) = SumOn(f, t) + SumOn(f, S \ t)
  BY <1>2, <1>7 DEF F
<1>10. SumOn(f, s) = f[x] + SumOn(f, t)
  BY <1>3, <1>8, SumRemove
<1>11. SumOn(f, r \cup {x}) = SumOn(f, r) + f[x]
  BY <1>3, <1>7, <1>8, SumAdd
<1>12. SumOn(f, t) \in Int /\ SumOn(f, r) \in Int /\ f[x] \in Int
  BY <1>3, <1>7, <1>8, SumInt
<1>13. SumOn(f, S \ t) = SumOn(f, r) + f[x]
  BY <1>7, <1>11, Zenon
<1>14. SumOn(f, S) # SumOn(f, s) + SumOn(f, r)
  BY <1>3
<1> HIDE DEF t, r
<1> QED
  BY <1>9, <1>10, <1>12, <1>13, <1>14

\* A sum of equal summands is a multiple.
LEMMA SumConstant ==
  ASSUME NEW f, NEW S, IsFiniteSet(S), NEW c \in Int, \A x \in S : f[x] = c
  PROVE  SumOn(f, S) = Cardinality(S) * c
<1> DEFINE F == {s \in SUBSET S : SumOn(f, s) # Cardinality(s) * c}
<1>0. SUFFICES ASSUME F # {} PROVE FALSE
  OBVIOUS
<1>1. F \in SUBSET (SUBSET S)
  OBVIOUS
<1> HIDE DEF F
<1>2. PICK s \in F : \A t \in SUBSET s : t # s => t \notin F
  BY <1>0, <1>1, SmallestMember
<1>3. s \in SUBSET S /\ IsFiniteSet(s) /\ SumOn(f, s) # Cardinality(s) * c
  BY FS_Subset DEF F
<1>4. s # {}
  BY <1>3, SumEmpty, FS_EmptySet
<1> DEFINE z == First(s)
           r == s \ {z}
<1>5. z \in s /\ r # s /\ r \in SUBSET s
  BY <1>4, FirstIn
<1>6. SumOn(f, r) = Cardinality(r) * c
  BY <1>2, <1>3, <1>5 DEF F
<1>7. SumOn(f, s) = f[z] + SumOn(f, r)
  BY <1>3, <1>4, SumFirst
<1>8. Cardinality(s) \in Nat /\ Cardinality(r) = Cardinality(s) - 1
  BY <1>3, <1>5, FS_CardinalityType, FS_RemoveElement
<1>9. f[z] = c
  BY <1>3, <1>5
<1> HIDE DEF z, r
<1> DEFINE k == Cardinality(s)
<1>10. (k - 1) * c = k * c - c
  BY <1>8
<1> QED
  BY <1>3, <1>6, <1>7, <1>8, <1>9, <1>10

-----------------------------------------------------------------------------
(***************************************************************************)
(* The totals of a table of natural numbers.                               *)
(***************************************************************************)
LEMMA TotalNat ==
  ASSUME NEW S, IsFiniteSet(S), NEW f \in [S -> Nat]
  PROVE  /\ Total(f) \in Nat
         /\ \A x \in S : f[x] =< Total(f)
<1>1. Total(f) = SumOn(f, S)
  BY DEF Total
<1> QED
  BY <1>1, SumNat, SumBounds

\* Writing one entry moves the total by the difference.
LEMMA TotalExcept ==
  ASSUME NEW S, IsFiniteSet(S), NEW f \in [S -> Nat], NEW x \in S, NEW v \in Nat
  PROVE  Total([f EXCEPT ![x] = v]) = Total(f) + (v - f[x])
<1> DEFINE g == [f EXCEPT ![x] = v]
<1>1. /\ g \in [S -> Nat] /\ g[x] = v
      /\ \A y \in S : y # x => g[y] = f[y]
  OBVIOUS
<1>2. Total(f) = SumOn(f, S) /\ Total(g) = SumOn(g, S)
  BY <1>1 DEF Total
<1>3. \A y \in S : f[y] \in Int /\ g[y] \in Int
  BY <1>1
<1> HIDE DEF g
<1>4. SumOn(g, S) = SumOn(f, S) + (g[x] - f[x])
  BY <1>1, <1>3, SumChange
<1> QED
  BY <1>1, <1>2, <1>4 DEF g

\* A table of equal entries.
LEMMA TotalConstant ==
  ASSUME NEW S, IsFiniteSet(S), NEW c \in Nat
  PROVE  Total([x \in S |-> c]) = Cardinality(S) * c
<1> DEFINE f == [x \in S |-> c]
<1>1. \A x \in S : f[x] = c
  OBVIOUS
<1>2. Total(f) = SumOn(f, S)
  BY DEF Total
<1> HIDE DEF f
<1>3. c \in Int
  OBVIOUS
<1>4. SumOn(f, S) = Cardinality(S) * c
  BY <1>1, <1>3, SumConstant
<1>5. Total(f) = Cardinality(S) * c
  BY <1>2, <1>4
<1> QED
  BY <1>5 DEF f

=============================================================================
