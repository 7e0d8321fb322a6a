------------------------------ MODULE DataLemmas ------------------------------
(***************************************************************************)
(* Facts about data that the proofs need and whose proofs are inductions:  *)
(* the least element of a set of numbers, the sum of a function            *)
(* (SumFunction: what the buffers and goroutines hold of a budget) and the *)
(* concatenation of sequences (FlattenSeq: the chunks of an output).       *)
(*                                                                         *)
(* Each induction takes a smallest counterexample: a least number, or a    *)
(* set that is no counterexample any more when an element is removed.      *)
(***************************************************************************)
EXTENDS Integers, Functions, SequencesExt, FiniteSetTheorems,
        SequenceTheorems, WellFoundedInduction, TLAPS

-----------------------------------------------------------------------------
(* Least elements.                                                          *)

\* Nobody is below the least element (cli.go:579-591, pssh.go:718-721).
LEMMA LeastExists ==
  ASSUME NEW S \in SUBSET Nat, S # {}
  PROVE  \E i \in S : \A j \in S : i <= j
<1>1. \E i \in S : \A j \in S : ~(<<j, i>> \in OpToRel(<, Nat))
  BY NatLessThanWellFounded, WFMin, Zenon
<1>2. ASSUME NEW i \in Nat, NEW j \in Nat, j < i
      PROVE  <<j, i>> \in OpToRel(<, Nat)
  BY <1>2 DEF OpToRel
<1>3. \E i \in S : \A j \in S : ~(j < i)
  BY <1>1, <1>2, Zenon
<1> QED
  BY <1>3

\* A family of subsets of a finite set has a member none of whose elements
\* can be removed within the family.
LEMMA SmallestExists ==
  ASSUME NEW S, IsFiniteSet(S), NEW F \in SUBSET SUBSET S, F # {}
  PROVE  \E T \in F : \A x \in T : T \ {x} \notin F
<1> DEFINE Sizes == {Cardinality(T) : T \in F}
<1>1. \A T \in F : IsFiniteSet(T) /\ Cardinality(T) \in Nat
  BY FS_Subset, FS_CardinalityType
<1>2. \E n \in Sizes : \A m \in Sizes : n <= m
  <2>1. Sizes \in SUBSET Nat /\ Sizes # {}
    BY <1>1
  <2> QED
    BY <2>1, LeastExists
<1>3. PICK T \in F : \A U \in F : Cardinality(T) <= Cardinality(U)
  BY <1>2
<1>4. ASSUME NEW x \in T PROVE T \ {x} \notin F
  BY <1>1, <1>3, FS_RemoveElement
<1> QED
  BY <1>4

-----------------------------------------------------------------------------
(* Sums.                                                                    *)

\* The element SumFunctionOnSet takes first.
Taken(s) == CHOOSE x \in s : TRUE

IsPartialSum(g, f, D) ==
    g = [s \in D |-> IF s = {} THEN 0 ELSE f[Taken(s)] + g[s \ {Taken(s)}]]

\* The partial sums of f over the subsets of S.
PartialSum(f, S) == CHOOSE g : IsPartialSum(g, f, SUBSET S)

LEMMA SumIsPartialSum ==
  ASSUME NEW f, NEW S
  PROVE  SumFunctionOnSet(f, S) = PartialSum(f, S)[S]
BY DEF SumFunctionOnSet, FoldFunctionOnSet, MapThenFoldSet, PartialSum, IsPartialSum, Taken

SubsetsUpto(S, n) == {s \in SUBSET S : Cardinality(s) <= n}

LEMMA PartialSumsUpto ==
  ASSUME NEW f, NEW S, IsFiniteSet(S)
  PROVE  \A n \in Nat : \E g : IsPartialSum(g, f, SubsetsUpto(S, n))
<1> DEFINE Bad == {n \in Nat : ~ \E g : IsPartialSum(g, f, SubsetsUpto(S, n))}
<1> SUFFICES ASSUME Bad # {} PROVE FALSE
  OBVIOUS
<1>1. \A s \in SUBSET S : IsFiniteSet(s) /\ Cardinality(s) \in Nat
  BY FS_Subset, FS_CardinalityType
<1>2. PICK n \in Bad : \A m \in Bad : n <= m
  BY LeastExists, Zenon
<1>3. CASE n = 0
  <2> DEFINE g == [s \in SubsetsUpto(S, 0) |-> 0]
  <2>1. \A s \in SubsetsUpto(S, 0) : s = {}
    BY <1>1, FS_EmptySet DEF SubsetsUpto
  <2>2. IsPartialSum(g, f, SubsetsUpto(S, 0))
    BY <2>1 DEF IsPartialSum
  <2> QED
    BY <1>3, <2>2
<1>4. CASE n # 0
  <2>1. n - 1 \in Nat /\ n - 1 \notin Bad
    BY <1>2, <1>4
  <2>2. PICK g : IsPartialSum(g, f, SubsetsUpto(S, n - 1))
    BY <2>1
  <2> DEFINE h == [s \in SubsetsUpto(S, n) |->
                     IF s = {} THEN 0 ELSE f[Taken(s)] + g[s \ {Taken(s)}]]
  <2>3. ASSUME NEW s \in SubsetsUpto(S, n), s # {}
        PROVE  s \ {Taken(s)} \in SubsetsUpto(S, n - 1)
    <3>1. Taken(s) \in s
      BY <2>3 DEF Taken
    <3> QED
      BY <1>1, <3>1, FS_RemoveElement, <2>1 DEF SubsetsUpto
  <2>4. ASSUME NEW s \in SubsetsUpto(S, n - 1) PROVE h[s] = g[s]
    <3>1. s \in SubsetsUpto(S, n)
      BY <1>1, <2>1 DEF SubsetsUpto
    <3> QED
      BY <3>1, <2>2 DEF IsPartialSum
  <2>5. \A s \in SubsetsUpto(S, n) :
          h[s] = IF s = {} THEN 0 ELSE f[Taken(s)] + h[s \ {Taken(s)}]
    BY <2>3, <2>4
  <2>6. IsPartialSum(h, f, SubsetsUpto(S, n))
    BY <2>5 DEF IsPartialSum
  <2> QED
    BY <2>6
<1> QED
  BY <1>3, <1>4

LEMMA PartialSums ==
  ASSUME NEW f, NEW S, IsFiniteSet(S)
  PROVE  \A s \in SUBSET S :
            PartialSum(f, S)[s] = IF s = {} THEN 0
                            ELSE f[Taken(s)] + PartialSum(f, S)[s \ {Taken(s)}]
<1>1. Cardinality(S) \in Nat
  BY FS_CardinalityType
<1>2. SubsetsUpto(S, Cardinality(S)) = SUBSET S
  BY FS_Subset DEF SubsetsUpto
<1>3. \E g : IsPartialSum(g, f, SubsetsUpto(S, Cardinality(S)))
  BY <1>1, PartialSumsUpto
<1>4. IsPartialSum(PartialSum(f, S), f, SUBSET S)
  BY <1>2, <1>3 DEF PartialSum
<1> HIDE DEF PartialSum
<1> QED
  BY <1>4 DEF IsPartialSum

LEMMA PartialSumsAgree ==
  ASSUME NEW f, NEW S, IsFiniteSet(S), NEW R \in SUBSET S
  PROVE  \A s \in SUBSET R : PartialSum(f, S)[s] = PartialSum(f, R)[s]
<1> DEFINE Bad == {s \in SUBSET R : PartialSum(f, S)[s] # PartialSum(f, R)[s]}
<1> SUFFICES ASSUME Bad # {} PROVE FALSE
  OBVIOUS
<1>1. IsFiniteSet(R)
  BY FS_Subset
<1>2. PICK s \in Bad : \A x \in s : s \ {x} \notin Bad
  BY <1>1, SmallestExists
<1>3. s # {} => Taken(s) \in s
  BY DEF Taken
<1>4. PartialSum(f, S)[s] = IF s = {} THEN 0
                      ELSE f[Taken(s)] + PartialSum(f, S)[s \ {Taken(s)}]
  <2>1. s \in SUBSET S
    BY <1>2
  <2> QED
    BY <2>1, PartialSums
<1>5. PartialSum(f, R)[s] = IF s = {} THEN 0
                      ELSE f[Taken(s)] + PartialSum(f, R)[s \ {Taken(s)}]
  BY <1>1, PartialSums
<1>6. s # {} => PartialSum(f, S)[s \ {Taken(s)}] = PartialSum(f, R)[s \ {Taken(s)}]
  BY <1>2, <1>3
<1> QED
  BY <1>4, <1>5, <1>6

LEMMA SumUnfolds ==
  ASSUME NEW f, NEW S, IsFiniteSet(S)
  PROVE  SumFunctionOnSet(f, S) =
            IF S = {} THEN 0
            ELSE f[Taken(S)] + SumFunctionOnSet(f, S \ {Taken(S)})
<1>1. PartialSum(f, S)[S] = IF S = {} THEN 0
                      ELSE f[Taken(S)] + PartialSum(f, S)[S \ {Taken(S)}]
  BY PartialSums
<1>2. PartialSum(f, S)[S \ {Taken(S)}] = PartialSum(f, S \ {Taken(S)})[S \ {Taken(S)}]
  BY PartialSumsAgree
<1> QED
  BY <1>1, <1>2, SumIsPartialSum

LEMMA SumEmpty ==
  ASSUME NEW f
  PROVE  SumFunctionOnSet(f, {}) = 0
BY SumUnfolds, FS_EmptySet

LEMMA SumInt ==
  ASSUME NEW S, IsFiniteSet(S), NEW f, \A x \in S : f[x] \in Int
  PROVE  SumFunctionOnSet(f, S) \in Int
<1> DEFINE Bad == {T \in SUBSET S : SumFunctionOnSet(f, T) \notin Int}
<1> SUFFICES ASSUME Bad # {} PROVE FALSE
  OBVIOUS
<1>1. PICK T \in Bad : \A x \in T : T \ {x} \notin Bad
  BY SmallestExists
<1>2. T # {} => Taken(T) \in T
  BY DEF Taken
<1>3. SumFunctionOnSet(f, T) = IF T = {} THEN 0
                               ELSE f[Taken(T)] + SumFunctionOnSet(f, T \ {Taken(T)})
  BY SumUnfolds, FS_Subset
<1> QED
  BY <1>1, <1>2, <1>3

\* Any element may be added last.
LEMMA SumRemove ==
  ASSUME NEW S, IsFiniteSet(S), NEW f, \A x \in S : f[x] \in Int
  PROVE  \A y \in S : SumFunctionOnSet(f, S) =
                         f[y] + SumFunctionOnSet(f, S \ {y})
<1> DEFINE Sum(T) == SumFunctionOnSet(f, T)
           Good(T) == \A y \in T : Sum(T) = f[y] + Sum(T \ {y})
           Bad == {T \in SUBSET S : ~Good(T)}
<1> SUFFICES ASSUME Bad # {} PROVE FALSE
  OBVIOUS
<1>1. PICK T \in Bad : \A x \in T : T \ {x} \notin Bad
  BY SmallestExists
<1>2. \A U \in SUBSET S : Sum(U) = IF U = {} THEN 0
                                   ELSE f[Taken(U)] + Sum(U \ {Taken(U)})
  BY SumUnfolds, FS_Subset
<1>3. \A x \in T : Good(T \ {x})
  BY <1>1
<1>4. T # {} => Taken(T) \in T
  BY DEF Taken
<1> HIDE DEF Sum
<1>5. ASSUME NEW y \in T PROVE Sum(T) = f[y] + Sum(T \ {y})
  <2> DEFINE x == Taken(T)
  <2>1. x \in T /\ Sum(T) = f[x] + Sum(T \ {x})
    BY <1>2, <1>4
  <2> HIDE DEF x
  <2>2. CASE x = y
    BY <2>1, <2>2
  <2>3. CASE x # y
    <3>1. Sum(T \ {x}) = f[y] + Sum((T \ {x}) \ {y})
      BY <1>3, <2>1, <2>3
    <3>2. Sum(T \ {y}) = f[x] + Sum((T \ {y}) \ {x})
      BY <1>3, <2>1, <2>3
    <3>3. (T \ {x}) \ {y} = (T \ {y}) \ {x}
      OBVIOUS
    <3>4. Sum((T \ {y}) \ {x}) \in Int
      BY FS_Subset, SumInt DEF Sum
    <3>5. f[x] \in Int /\ f[y] \in Int
      BY <2>1
    <3>6. PICK r \in Int : r = Sum((T \ {y}) \ {x})
      BY <3>4
    <3>7. Sum(T) = f[x] + (f[y] + r) /\ Sum(T \ {y}) = f[x] + r
      BY <2>1, <3>1, <3>2, <3>3, <3>6
    <3> QED
      BY <3>5, <3>7
  <2> QED
    BY <2>2, <2>3
<1> QED
  BY <1>1, <1>5

\* Only the values on the set count.
LEMMA SumAgree ==
  ASSUME NEW S, IsFiniteSet(S), NEW f, NEW g, \A x \in S : f[x] = g[x]
  PROVE  SumFunctionOnSet(f, S) = SumFunctionOnSet(g, S)
<1> DEFINE Bad == {T \in SUBSET S : SumFunctionOnSet(f, T) # SumFunctionOnSet(g, T)}
<1> SUFFICES ASSUME Bad # {} PROVE FALSE
  OBVIOUS
<1>1. PICK T \in Bad : \A x \in T : T \ {x} \notin Bad
  BY SmallestExists
<1>2. T # {} => Taken(T) \in T
  BY DEF Taken
<1>3. IsFiniteSet(T)
  BY FS_Subset
<1>4. /\ SumFunctionOnSet(f, T) = IF T = {} THEN 0
                 ELSE f[Taken(T)] + SumFunctionOnSet(f, T \ {Taken(T)})
      /\ SumFunctionOnSet(g, T) = IF T = {} THEN 0
                 ELSE g[Taken(T)] + SumFunctionOnSet(g, T \ {Taken(T)})
  BY <1>3, SumUnfolds
<1> QED
  BY <1>1, <1>2, <1>4

\* A sum of lengths or sizes is no negative number.
LEMMA SumNat ==
  ASSUME NEW S, IsFiniteSet(S), NEW f, \A x \in S : f[x] \in Nat
  PROVE  SumFunctionOnSet(f, S) \in Nat
<1> DEFINE Bad == {T \in SUBSET S : SumFunctionOnSet(f, T) \notin Nat}
<1> SUFFICES ASSUME Bad # {} PROVE FALSE
  OBVIOUS
<1>1. PICK T \in Bad : \A x \in T : T \ {x} \notin Bad
  BY SmallestExists
<1>2. T # {} => Taken(T) \in T
  BY DEF Taken
<1>3. SumFunctionOnSet(f, T) = IF T = {} THEN 0
                ELSE f[Taken(T)] + SumFunctionOnSet(f, T \ {Taken(T)})
  BY SumUnfolds, FS_Subset
<1> QED
  BY <1>1, <1>2, <1>3

\* What is below two others, element by element, is below their sum.
LEMMA SumBound ==
  ASSUME NEW S, IsFiniteSet(S), NEW f, NEW g, NEW h,
         \A x \in S : f[x] \in Int /\ g[x] \in Int /\ h[x] \in Int,
         \A x \in S : f[x] <= g[x] + h[x]
  PROVE  SumFunctionOnSet(f, S) <= SumFunctionOnSet(g, S) + SumFunctionOnSet(h, S)
<1> DEFINE Good(T) == SumFunctionOnSet(f, T) <=
                         SumFunctionOnSet(g, T) + SumFunctionOnSet(h, T)
           Bad == {T \in SUBSET S : ~Good(T)}
<1> SUFFICES ASSUME Bad # {} PROVE FALSE
  OBVIOUS
<1>1. PICK T \in Bad : \A x \in T : T \ {x} \notin Bad
  BY SmallestExists
<1>2. CASE T = {}
  BY <1>1, <1>2, SumEmpty
<1>3. CASE T # {}
  <2>1. PICK x : x \in T
    BY <1>3
  <2>2. IsFiniteSet(T) /\ IsFiniteSet(T \ {x})
    BY FS_Subset
  <2>3. /\ SumFunctionOnSet(f, T) = f[x] + SumFunctionOnSet(f, T \ {x})
        /\ SumFunctionOnSet(g, T) = g[x] + SumFunctionOnSet(g, T \ {x})
        /\ SumFunctionOnSet(h, T) = h[x] + SumFunctionOnSet(h, T \ {x})
    BY <2>1, <2>2, SumRemove
  <2>4. /\ SumFunctionOnSet(f, T \ {x}) \in Int
        /\ SumFunctionOnSet(g, T \ {x}) \in Int
        /\ SumFunctionOnSet(h, T \ {x}) \in Int
    BY <2>2, SumInt
  <2>5. SumFunctionOnSet(f, T \ {x}) <=
           SumFunctionOnSet(g, T \ {x}) + SumFunctionOnSet(h, T \ {x})
    BY <1>1, <2>1
  <2>6. /\ f[x] \in Int /\ g[x] \in Int /\ h[x] \in Int
        /\ f[x] <= g[x] + h[x]
    BY <2>1
  <2>7. Good(T)
    BY <2>3, <2>4, <2>5, <2>6
  <2> QED
    BY <1>1, <2>7
<1> QED
  BY <1>2, <1>3

\* The sum of a function on a finite domain.
LEMMA SumType ==
  ASSUME NEW S, IsFiniteSet(S), NEW f \in [S -> Nat]
  PROVE  SumFunction(f) \in Nat
BY SumNat DEF SumFunction

LEMMA SumZero ==
  ASSUME NEW S, IsFiniteSet(S)
  PROVE  SumFunction([x \in S |-> 0]) = 0
<1> DEFINE z == [x \in S |-> 0]
           Bad == {T \in SUBSET S : SumFunctionOnSet(z, T) # 0}
<1>1. SUFFICES ASSUME Bad # {} PROVE FALSE
  BY DEF SumFunction
<1>2. PICK T \in Bad : \A x \in T : T \ {x} \notin Bad
  BY <1>1, SmallestExists
<1>3. T # {} => Taken(T) \in T
  BY DEF Taken
<1>4. SumFunctionOnSet(z, T) = IF T = {} THEN 0
                ELSE z[Taken(T)] + SumFunctionOnSet(z, T \ {Taken(T)})
  BY SumUnfolds, FS_Subset
<1> QED
  BY <1>2, <1>3, <1>4

\* One holder's share changes.
LEMMA SumChange ==
  ASSUME NEW S, IsFiniteSet(S), NEW f \in [S -> Int], NEW p \in S, NEW v \in Int
  PROVE  SumFunction([f EXCEPT ![p] = v]) = SumFunction(f) - f[p] + v
<1> DEFINE g == [f EXCEPT ![p] = v]
<1>1. g \in [S -> Int] /\ g[p] = v /\ \A x \in S \ {p} : g[x] = f[x]
  OBVIOUS
<1>2. SumFunction(f) = SumFunctionOnSet(f, S) /\ SumFunction(g) = SumFunctionOnSet(g, S)
  BY <1>1 DEF SumFunction
<1> HIDE DEF g
<1>3. SumFunctionOnSet(f, S) = f[p] + SumFunctionOnSet(f, S \ {p})
  BY SumRemove
<1>4. SumFunctionOnSet(g, S) = g[p] + SumFunctionOnSet(g, S \ {p})
  BY <1>1, SumRemove
<1>5. IsFiniteSet(S \ {p})
  BY FS_Subset
<1>6. SumFunctionOnSet(f, S \ {p}) = SumFunctionOnSet(g, S \ {p})
  BY <1>1, <1>5, SumAgree
<1>7. SumFunctionOnSet(f, S \ {p}) \in Int
  BY <1>5, SumInt
<1>8. SumFunction(g) = SumFunction(f) - f[p] + v
  BY <1>1, <1>2, <1>3, <1>4, <1>6, <1>7
<1> QED
  BY <1>8 DEF g

\* Nobody holds more than the sum.
LEMMA SumElement ==
  ASSUME NEW S, IsFiniteSet(S), NEW f \in [S -> Nat], NEW p \in S
  PROVE  f[p] <= SumFunction(f)
<1>1. SumFunctionOnSet(f, S) = f[p] + SumFunctionOnSet(f, S \ {p})
  BY SumRemove
<1>2. SumFunctionOnSet(f, S \ {p}) \in Nat
  BY SumNat, FS_Subset
<1>3. SumFunction(f) = SumFunctionOnSet(f, S)
  BY DEF SumFunction
<1> QED
  BY <1>1, <1>2, <1>3

-----------------------------------------------------------------------------
(* Concatenation.                                                           *)

IsPartialConcat(g, s, n) ==
    g = [i \in 1..n |-> IF i = 1 THEN s[i] ELSE g[i - 1] \o s[i]]

\* The concatenations of the first elements of s.
PartialConcat(s) == CHOOSE g : IsPartialConcat(g, s, Len(s))

LEMMA FlattenIsPartialConcat ==
  ASSUME NEW s, Len(s) # 0
  PROVE  FlattenSeq(s) = PartialConcat(s)[Len(s)]
BY DEF FlattenSeq, PartialConcat, IsPartialConcat

LEMMA PartialConcatExists ==
  ASSUME NEW s
  PROVE  \A n \in Nat : \E g : IsPartialConcat(g, s, n)
<1> DEFINE Bad == {n \in Nat : ~ \E g : IsPartialConcat(g, s, n)}
<1> SUFFICES ASSUME Bad # {} PROVE FALSE
  OBVIOUS
<1>1. PICK n \in Bad : \A m \in Bad : n <= m
  BY LeastExists, Zenon
<1>2. CASE n = 0
  <2>1. IsPartialConcat([i \in {} |-> 0], s, 0)
    BY DEF IsPartialConcat
  <2> QED
    BY <1>2, <2>1
<1>3. CASE n # 0
  <2>1. n - 1 \in Nat /\ n - 1 \notin Bad
    BY <1>1, <1>3
  <2>2. PICK g : IsPartialConcat(g, s, n - 1)
    BY <2>1
  <2> DEFINE h == [i \in 1..n |-> IF i = 1 THEN s[i] ELSE g[i - 1] \o s[i]]
  <2>3. ASSUME NEW i \in 1..(n - 1) PROVE h[i] = g[i]
    <3>1. g[i] = IF i = 1 THEN s[i] ELSE g[i - 1] \o s[i]
      BY <2>2, Zenon DEF IsPartialConcat
    <3>2. i \in 1..n
      BY <2>1
    <3>3. h[i] = IF i = 1 THEN s[i] ELSE g[i - 1] \o s[i]
      BY <3>2, Zenon
    <3> QED
      BY <3>1, <3>3, Zenon
  <2>4. ASSUME NEW i \in 1..n
        PROVE  h[i] = IF i = 1 THEN s[i] ELSE h[i - 1] \o s[i]
    <3>1. h[i] = IF i = 1 THEN s[i] ELSE g[i - 1] \o s[i]
      BY Zenon
    <3>2. i # 1 => i - 1 \in 1..(n - 1)
      BY <2>1
    <3>3. i # 1 => h[i - 1] = g[i - 1]
      BY <2>3, <3>2
    <3> QED
      BY <3>1, <3>3, Zenon
  <2>5. IsPartialConcat(h, s, n)
    BY <2>4, Zenon DEF IsPartialConcat
  <2> QED
    BY <2>5
<1> QED
  BY <1>2, <1>3

LEMMA PartialConcats ==
  ASSUME NEW s, Len(s) \in Nat
  PROVE  \A i \in 1..Len(s) :
            PartialConcat(s)[i] = IF i = 1 THEN s[i]
                                  ELSE PartialConcat(s)[i - 1] \o s[i]
<1>1. \E g : IsPartialConcat(g, s, Len(s))
  BY PartialConcatExists
<1>2. IsPartialConcat(PartialConcat(s), s, Len(s))
  BY <1>1 DEF PartialConcat
<1> HIDE DEF PartialConcat
<1> QED
  BY <1>2 DEF IsPartialConcat

LEMMA PartialConcatsAgree ==
  ASSUME NEW s, NEW t, Len(s) \in Nat, Len(t) \in Nat, Len(s) <= Len(t),
         \A i \in 1..Len(s) : s[i] = t[i]
  PROVE  \A i \in 1..Len(s) : PartialConcat(s)[i] = PartialConcat(t)[i]
<1> DEFINE Bad == {i \in 1..Len(s) : PartialConcat(s)[i] # PartialConcat(t)[i]}
<1> SUFFICES ASSUME Bad # {} PROVE FALSE
  OBVIOUS
<1>1. PICK n \in Bad : \A m \in Bad : n <= m
  <2>1. Bad \in SUBSET Nat
    OBVIOUS
  <2> QED
    BY <2>1, LeastExists, Zenon
<1>2. n \in 1..Len(s) /\ n \in 1..Len(t)
  OBVIOUS
<1>3. n # 1 => n - 1 \in 1..Len(s) /\ n - 1 \notin Bad
  BY <1>1, <1>2
<1>4. PartialConcat(s)[n] = IF n = 1 THEN s[n] ELSE PartialConcat(s)[n - 1] \o s[n]
  BY <1>2, PartialConcats
<1>5. PartialConcat(t)[n] = IF n = 1 THEN t[n] ELSE PartialConcat(t)[n - 1] \o t[n]
  BY <1>2, PartialConcats
<1> QED
  BY <1>1, <1>2, <1>3, <1>4, <1>5

LEMMA FlattenEmpty == FlattenSeq(<<>>) = <<>>
BY DEF FlattenSeq

\* One more element comes after the others.
LEMMA FlattenAppend ==
  ASSUME NEW X, NEW s \in Seq(Seq(X)), NEW t \in Seq(X)
  PROVE  FlattenSeq(Append(s, t)) = FlattenSeq(s) \o t
<1> DEFINE u == Append(s, t)
           n == Len(s)
<1>1. /\ u \in Seq(Seq(X)) /\ Len(u) = n + 1 /\ n \in Nat
      /\ u[n + 1] = t
      /\ \A i \in 1..n : s[i] = u[i]
  OBVIOUS
<1> HIDE DEF u
<1>2. FlattenSeq(u) = PartialConcat(u)[n + 1]
  BY <1>1, FlattenIsPartialConcat
<1>3. PartialConcat(u)[n + 1] = IF n + 1 = 1 THEN t
                                ELSE PartialConcat(u)[n] \o t
  <2>1. n + 1 \in 1..Len(u) /\ (n + 1) - 1 = n
    BY <1>1
  <2> QED
    BY <1>1, <2>1, PartialConcats
<1>4. CASE n = 0
  <2>1. s = <<>> /\ FlattenSeq(s) \o t = t
    BY <1>4, FlattenEmpty
  <2> QED
    BY <1>2, <1>3, <1>4, <2>1 DEF u
<1>5. CASE n # 0
  <2>1. PartialConcat(s)[n] = PartialConcat(u)[n]
    <3>1. n \in 1..Len(s)
      BY <1>1, <1>5
    <3>2. Len(s) \in Nat /\ Len(u) \in Nat /\ Len(s) <= Len(u)
      BY <1>1
    <3>3. \A i \in 1..Len(s) : PartialConcat(s)[i] = PartialConcat(u)[i]
      BY <1>1, <3>2, PartialConcatsAgree, Zenon
    <3> QED
      BY <3>1, <3>3
  <2>2. FlattenSeq(s) = PartialConcat(s)[n]
    BY <1>5, FlattenIsPartialConcat
  <2> QED
    BY <1>1, <1>2, <1>3, <1>5, <2>1, <2>2 DEF u
<1> QED
  BY <1>4, <1>5

\* Concatenating sequences over X gives a sequence over X.
LEMMA FlattenType ==
  ASSUME NEW X, NEW s \in Seq(Seq(X))
  PROVE  FlattenSeq(s) \in Seq(X)
<1> DEFINE Bad == {i \in 1..Len(s) : PartialConcat(s)[i] \notin Seq(X)}
<1>1. Bad = {}
  <2> SUFFICES ASSUME Bad # {} PROVE FALSE
    OBVIOUS
  <2>1. PICK n \in Bad : \A m \in Bad : n <= m
    <3>1. Bad \in SUBSET Nat
      OBVIOUS
    <3> QED
      BY <3>1, LeastExists, Zenon
  <2>2. n \in 1..Len(s) /\ s[n] \in Seq(X)
    OBVIOUS
  <2>3. n # 1 => n - 1 \in 1..Len(s) /\ n - 1 \notin Bad
    BY <2>1, <2>2
  <2>4. n # 1 => PartialConcat(s)[n - 1] \in Seq(X)
    BY <2>3
  <2>5. PartialConcat(s)[n] = IF n = 1 THEN s[n] ELSE PartialConcat(s)[n - 1] \o s[n]
    <3>1. Len(s) \in Nat
      OBVIOUS
    <3> QED
      BY <2>2, <3>1, PartialConcats, Zenon
  <2>6. PartialConcat(s)[n] \in Seq(X)
    BY <2>2, <2>4, <2>5
  <2> QED
    BY <2>6
<1>2. CASE Len(s) = 0
  <2>1. s = <<>>
    BY <1>2
  <2>2. FlattenSeq(s) = <<>>
    BY <2>1, FlattenEmpty
  <2> QED
    BY <2>2
<1>3. CASE Len(s) # 0
  <2>1. Len(s) \in 1..Len(s)
    BY <1>3
  <2> QED
    BY <1>1, <1>3, <2>1, FlattenIsPartialConcat
<1> QED
  BY <1>2, <1>3

\* The last element grows.
LEMMA FlattenExtendLast ==
  ASSUME NEW X, NEW s \in Seq(Seq(X)), s # <<>>, NEW t \in Seq(X)
  PROVE  FlattenSeq(Front(s) \o <<Last(s) \o t>>) = FlattenSeq(s) \o t
<1>1. /\ Front(s) \in Seq(Seq(X)) /\ Last(s) \in Seq(X)
      /\ s = Append(Front(s), Last(s))
      /\ Front(s) \o <<Last(s) \o t>> = Append(Front(s), Last(s) \o t)
  <2>1. Front(s) \in Seq(Seq(X)) /\ Last(s) \in Seq(X)
    BY DEF Front, Last
  <2>2. s = Append(Front(s), Last(s))
    BY DEF Front, Last
  <2>3. Last(s) \o t \in Seq(X)
    BY <2>1
  <2> DEFINE front == Front(s)
             new == Last(s) \o t
  <2>4. front \o <<new>> = Append(front, new)
    <3>1. front \in Seq(Seq(X)) /\ new \in Seq(X)
      BY <2>1, <2>3
    <3> HIDE DEF front, new
    <3> QED
      BY <3>1
  <2> QED
    BY <2>1, <2>2, <2>4
<1>2. FlattenSeq(s) = FlattenSeq(Front(s)) \o Last(s)
  <2>1. FlattenSeq(Append(Front(s), Last(s))) = FlattenSeq(Front(s)) \o Last(s)
    BY <1>1, FlattenAppend
  <2> QED
    BY <1>1, <2>1, Zenon
<1>3. Last(s) \o t \in Seq(X)
  BY <1>1
<1>4. FlattenSeq(Append(Front(s), Last(s) \o t))
            = FlattenSeq(Front(s)) \o (Last(s) \o t)
  BY <1>1, <1>3, FlattenAppend
<1>5. FlattenSeq(Front(s)) \in Seq(X)
  BY <1>1, FlattenType
<1>6. FlattenSeq(Front(s)) \o (Last(s) \o t) = (FlattenSeq(Front(s)) \o Last(s)) \o t
  BY <1>1, <1>5, SMTT(30)
<1>7. FlattenSeq(Front(s) \o <<Last(s) \o t>>) = FlattenSeq(Append(Front(s), Last(s) \o t))
  BY <1>1, Zenon
<1> QED
  BY <1>2, <1>4, <1>6, <1>7, Zenon
=============================================================================
