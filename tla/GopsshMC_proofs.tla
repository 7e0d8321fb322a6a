---------------------------- MODULE GopsshMC_proofs ----------------------------
(***************************************************************************)
(* Safety of the parts of the process that precede a run: byte sizes,      *)
(* hosts, doctor, authentication and the command line, for every value of  *)
(* their bounds.                                                           *)
(***************************************************************************)
EXTENDS GopsshMC, DataLemmas

-----------------------------------------------------------------------------
(* ByteSizes: the units.                                                    *)

LEMMA UnitSizes ==
  /\ Kilo \in Nat \ {0} /\ Kilo * Kilo \in Nat \ {0}
  /\ Kilo * Kilo * Kilo \in Nat \ {0}
<1>1. ASSUME NEW a \in Nat \ {0}, NEW b \in Nat \ {0} PROVE a * b \in Nat \ {0}
  OBVIOUS
<1> QED
  BY <1>1, SizesAssumption

LEMMA UnitsAre ==
  /\ Len(Sizes!Units) = 4 /\ DOMAIN Sizes!Units = 1..4
  /\ Sizes!Units[1].suffix = <<"G", "I", "B">> /\ Sizes!Units[1].size = Kilo * Kilo * Kilo
  /\ Sizes!Units[2].suffix = <<"M", "I", "B">> /\ Sizes!Units[2].size = Kilo * Kilo
  /\ Sizes!Units[3].suffix = <<"K", "I", "B">> /\ Sizes!Units[3].size = Kilo
  /\ Sizes!Units[4].suffix = <<"B">> /\ Sizes!Units[4].size = 1
  /\ \A i \in 1..4 : Sizes!Units[i].size \in Nat \ {0}
BY UnitSizes DEF Sizes!Units

\* A text ends with itself, and not with a longer text or another one of its
\* own length.
LEMMA SuffixOfItself ==
  ASSUME NEW X, NEW s \in Seq(X)
  PROVE  Sizes!IsSuffix(s, s)
BY DEF Sizes!IsSuffix, Sizes!IsPrefix, Sizes!Reverse

LEMMA SuffixFits ==
  ASSUME NEW X, NEW s \in Seq(X), NEW t \in Seq(X), Sizes!IsSuffix(s, t)
  PROVE  Len(s) <= Len(t) /\ (Len(s) = Len(t) => s = t)
<1> DEFINE n == Len(s)
           m == Len(t)
           rs == Sizes!Reverse(s)
           rt == Sizes!Reverse(t)
<1>1. /\ n \in Nat /\ m \in Nat /\ Len(rs) = n /\ Len(rt) = m
      /\ rs = [i \in 1..n |-> s[n - i + 1]] /\ rt = [i \in 1..m |-> t[m - i + 1]]
  BY DEF Sizes!Reverse
<1>2. n <= m /\ SubSeq(rs, 1, n) = SubSeq(rt, 1, n)
  BY <1>1 DEF Sizes!IsSuffix, Sizes!IsPrefix
<1>3. ASSUME n = m, NEW i \in 1..n PROVE s[i] = t[i]
  <2>1. n - i + 1 \in 1..n /\ n - (n - i + 1) + 1 = i
    BY <1>1
  <2>2. SubSeq(rs, 1, n)[n - i + 1] = rs[n - i + 1]
    BY <1>1, <2>1
  <2>3. SubSeq(rt, 1, n)[n - i + 1] = rt[n - i + 1]
    BY <1>1, <1>3, <2>1
  <2>4. rs[n - i + 1] = s[i]
    BY <1>1, <2>1
  <2>5. rt[n - i + 1] = t[i]
    BY <1>1, <1>3, <2>1
  <2> QED
    BY <1>2, <2>2, <2>3, <2>4, <2>5, Zenon
<1> QED
  BY <1>1, <1>2, <1>3, SeqEqual

Letters == {"G", "M", "K", "I", "B"}

LEMMA UnitLengths ==
  ASSUME NEW i \in 1..4
  PROVE  /\ Sizes!Units[i].suffix \in Seq(Letters)
         /\ Len(Sizes!Units[i].suffix) = IF i = 4 THEN 1 ELSE 3
<1>1. /\ <<"G", "I", "B">> \in Seq(Letters) /\ Len(<<"G", "I", "B">>) = 3
      /\ <<"M", "I", "B">> \in Seq(Letters) /\ Len(<<"M", "I", "B">>) = 3
      /\ <<"K", "I", "B">> \in Seq(Letters) /\ Len(<<"K", "I", "B">>) = 3
      /\ <<"B">> \in Seq(Letters) /\ Len(<<"B">>) = 1
  BY DEF Letters
<1>2. i = 1 \/ i = 2 \/ i = 3 \/ i = 4
  OBVIOUS
<1>3. CASE i = 1
  BY <1>1, <1>3, UnitsAre
<1>4. CASE i = 2
  BY <1>1, <1>4, UnitsAre
<1>5. CASE i = 3
  BY <1>1, <1>5, UnitsAre
<1>6. CASE i = 4
  BY <1>1, <1>6, UnitsAre
<1> QED
  BY <1>2, <1>3, <1>4, <1>5, <1>6

LEMMA UnitSuffixes ==
  ASSUME NEW i \in 1..4
  PROVE  /\ Sizes!Units[i].suffix \in Seq(Letters)
         /\ Len(Sizes!Units[i].suffix) \in Nat \ {0}
         /\ Sizes!IsSuffix(Sizes!Units[i].suffix, Sizes!Units[i].suffix)
         /\ ~Sizes!IsSuffix(Sizes!Units[i].suffix, <<>>)
<1>1. /\ Sizes!Units[i].suffix \in Seq(Letters)
      /\ Len(Sizes!Units[i].suffix) \in Nat \ {0}
  <2>1. Len(Sizes!Units[i].suffix) = 1 \/ Len(Sizes!Units[i].suffix) = 3
    BY UnitLengths, Zenon
  <2>2. Sizes!Units[i].suffix \in Seq(Letters)
    BY UnitLengths, Zenon
  <2>3. ASSUME NEW l, l = 1 \/ l = 3 PROVE l \in Nat \ {0}
    BY <2>3
  <2> QED
    BY <2>1, <2>2, <2>3, Zenon
<1>2. <<>> \in Seq(Letters) /\ ~(Len(Sizes!Units[i].suffix) <= Len(<<>>))
  BY <1>1
<1>3. ~Sizes!IsSuffix(Sizes!Units[i].suffix, <<>>)
  BY <1>1, <1>2, SuffixFits, Zenon
<1> QED
  BY <1>1, <1>3, SuffixOfItself, Zenon

\* The units are in such an order that none is a suffix of a later one.
LEMMA EarlierSuffixes ==
  ASSUME NEW j \in 1..4, NEW k \in 1..4, j < k
  PROVE  ~Sizes!IsSuffix(Sizes!Units[j].suffix, Sizes!Units[k].suffix)
<1>1. Sizes!Units[j].suffix # Sizes!Units[k].suffix
  BY UnitsAre
<1>2. Len(Sizes!Units[j].suffix) = 3 /\ Len(Sizes!Units[k].suffix) \in {1, 3}
  <2>1. j # 4
    OBVIOUS
  <2> QED
    BY <2>1, UnitLengths
<1>3. Len(Sizes!Units[j].suffix) <= Len(Sizes!Units[k].suffix)
         => Len(Sizes!Units[j].suffix) = Len(Sizes!Units[k].suffix)
  BY <1>2
<1> QED
  <2>1. Sizes!Units[j].suffix \in Seq(Letters) /\ Sizes!Units[k].suffix \in Seq(Letters)
    BY UnitLengths
  <2> QED
    BY <1>1, <1>3, <2>1, SuffixFits, Zenon

\* The unit of a text that is a number and nothing but a unit.
LEMMA UnitOf ==
  ASSUME NEW t
  PROVE  /\ \A k \in 1..4 :
               t.letters = Sizes!Units[k].suffix => Sizes!Unit(t) = Sizes!Units[k]
         /\ t.letters = <<>> => Sizes!Unit(t) = Sizes!NoUnit
         /\ Sizes!Unit(t) = Sizes!NoUnit
            \/ \E k \in 1..4 : Sizes!Unit(t) = Sizes!Units[k]
<1> DEFINE Ends == {i \in 1..4 : Sizes!IsSuffix(Sizes!Units[i].suffix, t.letters)}
<1>0. Ends # {} => Sizes!Min(Ends) \in 1..4
  <2>1. Ends \in SUBSET Nat
    OBVIOUS
  <2>2. ASSUME Ends # {} PROVE \E x \in Ends : \A y \in Ends : x <= y
    <3> HIDE DEF Ends
    <3> QED
      BY <2>1, <2>2, LeastExists
  <2>3. Ends # {} => Sizes!Min(Ends) \in Ends
    <3> HIDE DEF Ends
    <3> QED
      BY <2>2, Zenon DEF Sizes!Min
  <2> QED
    BY <2>3
<1>1. Sizes!Unit(t) = IF Ends = {} THEN Sizes!NoUnit ELSE Sizes!Units[Sizes!Min(Ends)]
  <2>1. Sizes!SelectInSeq(Sizes!Units,
                          LAMBDA u : Sizes!IsSuffix(u.suffix, t.letters))
           = IF Ends # {} THEN Sizes!Min(Ends) ELSE 0
    BY UnitsAre DEF Sizes!SelectInSeq
  <2>2. Ends # {} => Sizes!Min(Ends) # 0
    BY <1>0
  <2> QED
    BY <2>1, <2>2 DEF Sizes!Unit
<1>2. ASSUME NEW k \in 1..4, t.letters = Sizes!Units[k].suffix
      PROVE  Sizes!Unit(t) = Sizes!Units[k]
  <2>1. k \in Ends
    BY <1>2, UnitSuffixes
  <2>2. \A j \in 1..4 : j < k => j \notin Ends
    BY <1>2, EarlierSuffixes
  <2>3. \A j \in Ends : j \in 1..4 /\ k <= j
    BY <2>2
  <2> HIDE DEF Ends
  <2>4. Sizes!Min(Ends) = k
    <3>1. /\ Sizes!Min(Ends) \in Ends
          /\ \A y \in Ends : Sizes!Min(Ends) <= y
      BY <2>1, <2>3, Zenon DEF Sizes!Min
    <3>2. \A m \in Ends : (\A y \in Ends : m <= y) => m = k
      BY <2>1, <2>3
    <3> QED
      BY <3>1, <3>2, Zenon
  <2> QED
    BY <1>1, <2>1, <2>4
<1>3. ASSUME t.letters = <<>> PROVE Ends = {}
  BY <1>3, UnitSuffixes
<1> QED
  BY <1>0, <1>1, <1>2, <1>3, Zenon

LEMMA DivideBound ==
  ASSUME NEW n \in Nat, NEW a \in Nat, NEW d \in Nat \ {0}
  PROVE  n <= a \div d <=> n * d <= a
OBVIOUS

LEMMA WrapFits ==
  ASSUME NEW n \in 0..MaxInt
  PROVE  Sizes!Wrap(n) = n
BY SizesAssumption DEF Sizes!Wrap

\* Meant, of any text.
MeantBy(t) ==
    CASE t.letters = <<>>              -> t.number
      [] t.letters = <<"B">>           -> t.number
      [] t.letters = <<"K", "I", "B">> -> t.number * Kilo
      [] t.letters = <<"M", "I", "B">> -> t.number * Kilo * Kilo
      [] t.letters = <<"G", "I", "B">> -> t.number * Kilo * Kilo * Kilo
      [] OTHER                         -> 0

LEMMA MeantOfUnit ==
  ASSUME NEW t, t.number \in Int, NEW k \in 1..4,
         t.letters = Sizes!Units[k].suffix
  PROVE  MeantBy(t) = t.number * Sizes!Units[k].size
<1> DEFINE n == t.number
<1>1. CASE k = 1
  <2>1. t.letters = <<"G", "I", "B">> /\ Sizes!Units[k].size = Kilo * Kilo * Kilo
    BY <1>1, UnitsAre
  <2>2. MeantBy(t) = n * Kilo * Kilo * Kilo
    BY <2>1 DEF MeantBy
  <2> QED
    BY <2>1, <2>2, UnitSizes
<1>2. CASE k = 2
  <2>1. t.letters = <<"M", "I", "B">> /\ Sizes!Units[k].size = Kilo * Kilo
    BY <1>2, UnitsAre
  <2>2. MeantBy(t) = n * Kilo * Kilo
    BY <2>1 DEF MeantBy
  <2> QED
    BY <2>1, <2>2, UnitSizes
<1>3. CASE k = 3
  <2>1. t.letters = <<"K", "I", "B">> /\ Sizes!Units[k].size = Kilo
    BY <1>3, UnitsAre
  <2> QED
    BY <2>1, UnitSizes DEF MeantBy
<1>4. CASE k = 4
  <2>1. t.letters = <<"B">> /\ Sizes!Units[k].size = 1
    BY <1>4, UnitsAre
  <2> QED
    BY <2>1 DEF MeantBy
<1> QED
  BY <1>1, <1>2, <1>3, <1>4

\* What the parser makes of a text: the size that is meant, if the budgets can
\* count it.
LEMMA ParseIsMeant ==
  ASSUME NEW t, t.number \in Int
  PROVE  Sizes!parseByteSize(t) =
            IF MeantBy(t) \in 1..MaxInt THEN MeantBy(t) ELSE 0
<1> DEFINE n == t.number
           u == Sizes!Unit(t)
<1>1. CASE t.letters = u.suffix
  <2>1. MeantBy(t) = n * u.size /\ u.size \in Nat \ {0}
    <3>1. CASE u = Sizes!NoUnit
      <4>1. t.letters = <<>> /\ u.size = 1
        BY <1>1, <3>1 DEF Sizes!NoUnit
      <4> QED
        BY <4>1 DEF MeantBy
    <3>2. ASSUME NEW k \in 1..4, u = Sizes!Units[k]
          PROVE  MeantBy(t) = n * u.size /\ u.size \in Nat \ {0}
      BY <1>1, <3>2, MeantOfUnit, UnitsAre
    <3> QED
      BY <3>1, <3>2, UnitOf
  <2> HIDE DEF n, u
  <2>2. n \in Int
    BY DEF n
  <2>3. n > 0 => (n <= MaxInt \div u.size <=> n * u.size <= MaxInt)
    BY <2>1, <2>2, DivideBound, SizesAssumption
  <2>4. n > 0 => n * u.size >= n
    BY <2>1, <2>2
  <2>5. n <= 0 => n * u.size <= 0
    BY <2>1, <2>2
  <2>6. n * u.size \in Int /\ MaxInt \div u.size \in Int
    BY <2>1, <2>2, SizesAssumption
  <2>7. Sizes!parseByteSize(t) =
           IF n > MaxInt \/ n <= 0 \/ n > MaxInt \div u.size THEN 0
           ELSE Sizes!Wrap(n * u.size)
    BY <1>1, <2>2, SizesAssumption DEF Sizes!parseByteSize, Sizes!ParseInt, Sizes!Invalid, n, u
  <2>8. CASE n * u.size \in 1..MaxInt
    <3>1. Sizes!Wrap(n * u.size) = n * u.size
      BY <2>8, WrapFits
    <3> QED
      BY <2>1, <2>2, <2>3, <2>4, <2>5, <2>6, <2>7, <2>8, <3>1, SizesAssumption
  <2>9. CASE n * u.size \notin 1..MaxInt
    BY <2>1, <2>2, <2>3, <2>4, <2>5, <2>6, <2>7, <2>9, SizesAssumption
  <2> QED
    BY <2>8, <2>9
<1>2. CASE t.letters # u.suffix
  <2>1. Sizes!parseByteSize(t) = 0
    BY <1>2 DEF Sizes!parseByteSize, Sizes!ParseInt, Sizes!Invalid
  <2>2. MeantBy(t) = 0
    <3>1. t.letters # <<>>
      BY <1>2, UnitOf DEF Sizes!NoUnit
    <3>2. \A k \in 1..4 : t.letters # Sizes!Units[k].suffix
      BY <1>2, UnitOf
    <3>3. /\ t.letters # <<"G", "I", "B">> /\ t.letters # <<"M", "I", "B">>
          /\ t.letters # <<"K", "I", "B">> /\ t.letters # <<"B">>
      <4>1. 1 \in 1..4 /\ 2 \in 1..4 /\ 3 \in 1..4 /\ 4 \in 1..4
        OBVIOUS
      <4> QED
        BY <3>2, <4>1, UnitsAre, Zenon
    <3> QED
      BY <3>1, <3>3, Zenon DEF MeantBy
  <2> QED
    BY <2>1, <2>2
<1> QED
  BY <1>1, <1>2

LEMMA DivideExactly ==
  ASSUME NEW n \in Nat, NEW d \in Nat \ {0}, n % d = 0
  PROVE  (n \div d) * d = n
OBVIOUS

\* What is printed for a size is a text that means it.
LEMMA FormatMeans ==
  ASSUME NEW n \in Nat \ {0}
  PROVE  LET t == Sizes!formatByteSize(n)
         IN  t.number \in Int /\ MeantBy(t) = n
<1> DEFINE Fits == {i \in 1..4 : n >= Sizes!Units[i].size /\ n % Sizes!Units[i].size = 0}
           k == Sizes!Min(Fits)
           t == Sizes!formatByteSize(n)
<1>1. 4 \in Fits
  BY UnitsAre
<1>2. k \in Fits
  <2>1. Fits \in SUBSET Nat /\ Fits # {}
    BY <1>1
  <2> HIDE DEF Fits
  <2>2. \E x \in Fits : \A y \in Fits : x <= y
    BY <2>1, LeastExists
  <2> QED
    BY <2>2, Zenon DEF Sizes!Min
<1>3. t = [number |-> n \div Sizes!Units[k].size, letters |-> Sizes!Units[k].suffix]
  <2>1. Sizes!SelectInSeq(Sizes!Units, LAMBDA u : n >= u.size /\ n % u.size = 0) = k
    BY <1>1, UnitsAre DEF Sizes!SelectInSeq
  <2> QED
    BY <2>1 DEF Sizes!formatByteSize
<1> HIDE DEF k, t
<1>4. k \in 1..4 /\ n % Sizes!Units[k].size = 0 /\ Sizes!Units[k].size \in Nat \ {0}
  BY <1>2, UnitsAre
<1>5. (n \div Sizes!Units[k].size) * Sizes!Units[k].size = n
  BY <1>4, DivideExactly
<1>6. t.number \in Int /\ t.letters = Sizes!Units[k].suffix
  BY <1>3, <1>4
<1>7. MeantBy(t) = t.number * Sizes!Units[k].size
  BY <1>4, <1>6, MeantOfUnit
<1> QED
  BY <1>3, <1>5, <1>6, <1>7 DEF t

SizesInv ==
    /\ text.number \in Int
    /\ setting \in {"given", "set", "printed", "kept", "refused"}
    /\ Sizes!SizesExact

LEMMA SizesStep ==
  ASSUME SizesInv, Sizes!Next
  PROVE  SizesInv'
<1>1. Sizes!Meant = MeantBy(text) /\ Sizes!Meant' = MeantBy(text')
  BY DEF Sizes!Meant, MeantBy
<1>2. CASE Sizes!Set
  <2>1. limit' = IF Sizes!Meant \in 1..MaxInt THEN Sizes!Meant ELSE 0
    BY <1>1, <1>2, ParseIsMeant DEF Sizes!Set, SizesInv
  <2>2. Sizes!Meant' = Sizes!Meant /\ text' = text
    BY <1>1, <1>2 DEF Sizes!Set
  <2>3. /\ setting \in {"given", "printed"}
        /\ setting' = IF limit' = 0 THEN "refused"
                      ELSE IF setting = "given" THEN "set" ELSE "kept"
    BY <1>2 DEF Sizes!Set, Sizes!Invalid
  <2> QED
    BY <2>1, <2>2, <2>3 DEF SizesInv, Sizes!SizesExact
<1>3. CASE Sizes!Show
  <2>1. /\ setting = "set" /\ setting' = "printed" /\ limit' = limit
        /\ text' = Sizes!formatByteSize(limit)
    BY <1>3 DEF Sizes!Show
  <2>2. limit \in 1..MaxInt
    BY <2>1 DEF SizesInv, Sizes!SizesExact
  <2>3. text'.number \in Int /\ MeantBy(text') = limit
    BY <2>1, <2>2, FormatMeans, SizesAssumption
  <2> QED
    BY <1>1, <2>1, <2>2, <2>3 DEF SizesInv, Sizes!SizesExact
<1>4. CASE UNCHANGED Sizes!vars
  BY <1>1, <1>4 DEF SizesInv, Sizes!SizesExact, Sizes!vars
<1> QED
  BY <1>2, <1>3, <1>4 DEF Sizes!Next, Sizes!Terminated

\* The limit of a budget is exactly the size that was meant, nothing that the
\* budgets can count is refused, and a limit that is printed and used again is
\* the same limit (main.go:152-193).
THEOREM LimitIsMeant == GopsshSpec => []SizesExact
<1> DEFINE Inv == part = "sizes" => SizesInv
<1>1. GopsshInit => Inv
  BY SizesAssumption DEF GopsshInit, SizesInv, Sizes!Init, Sizes!SizesExact
<1>2. Inv /\ [GopsshNext]_gopsshVars => Inv'
  <2> SUFFICES ASSUME Inv, [GopsshNext]_gopsshVars, part' = "sizes"
               PROVE  SizesInv'
    OBVIOUS
  <2>1. CASE UNCHANGED gopsshVars
    <3>1. UNCHANGED <<part, text, limit, setting>>
      BY <2>1 DEF gopsshVars, sizesVars
    <3> QED
      BY <3>1 DEF SizesInv, Sizes!SizesExact, Sizes!Meant
  <2>2. CASE GopsshNext
    <3>1. part = "sizes" /\ Sizes!Next
      BY <2>2 DEF GopsshNext
    <3> QED
      BY <3>1, SizesStep
  <2> QED
    BY <2>1, <2>2
<1>3. Inv => SizesExact
  BY DEF SizesInv, SizesExact
<1> QED
  BY <1>1, <1>2, <1>3, PTL DEF GopsshSpec

-----------------------------------------------------------------------------
(* HostsCommand                                                             *)

\* Before the first comment of a line there are only values.
LEMMA FieldsType ==
  ASSUME NEW m \in Nat, NEW X, NEW line \in [1..m -> X \cup {Hosts!Comment}]
  PROVE  Hosts!Fields(line) \in Seq(X)
<1> DEFINE First(i) == /\ i = Len(line) + 1 \/ line[i] = Hosts!Comment
                       /\ \A j \in 1..(i - 1) : line[j] # Hosts!Comment
           S == {i \in 1..(m + 1) : i = m + 1 \/ line[i] = Hosts!Comment}
           c == CHOOSE i \in 1..(Len(line) + 1) : First(i)
<1>1. Len(line) = m
  OBVIOUS
<1>2. PICK i \in S : \A j \in S : i <= j
  <2>1. S \in SUBSET Nat /\ m + 1 \in S
    OBVIOUS
  <2> QED
    BY <2>1, LeastExists, Zenon
<1>3. i \in 1..(Len(line) + 1) /\ First(i)
  BY <1>1, <1>2
<1>4. c \in 1..(Len(line) + 1) /\ First(c)
  BY <1>3, Zenon
<1>5. Hosts!Fields(line) = SubSeq(line, 1, c - 1)
  BY DEF Hosts!Fields
<1> HIDE DEF c
<1>6. \A j \in 1..(c - 1) : line[j] \in X
  BY <1>1, <1>4
<1> QED
  BY <1>1, <1>4, <1>5, <1>6

LEMMA WordsOf ==
  ASSUME NEW f, NEW m \in Nat, DOMAIN f = 1..m, NEW X,
         \A l \in 1..m : Hosts!Fields(f[l]) \in Seq(X)
  PROVE  Hosts!Words(f) \in Seq(X)
<1> DEFINE lists == [l \in DOMAIN f |-> Hosts!Fields(f[l])]
<1>1. lists \in [1..m -> Seq(X)]
  OBVIOUS
<1> HIDE DEF lists
<1>2. lists \in Seq(Seq(X))
  BY <1>1
<1>3. FlattenSeq(lists) \in Seq(X)
  BY <1>2, FlattenType
<1>4. Hosts!FlattenSeq(lists) = FlattenSeq(lists)
  BY DEF Hosts!FlattenSeq, FlattenSeq
<1> QED
  BY <1>3, <1>4 DEF Hosts!Words, lists

LEMMA WordsType ==
  ASSUME NEW f \in Hosts!Files
  PROVE  Hosts!Words(f) \in Seq(HostValues)
<1> DEFINE W == HostValues \cup {Hosts!Comment}
           L == Hosts!SeqOf(W, MaxWords)
<1>1. PICK m \in 0..MaxLines : f \in [1..m -> L]
  BY DEF Hosts!Files, Hosts!SeqOf
<1>2. m \in Nat /\ DOMAIN f = 1..m
  BY <1>1, BoundsAssumption
<1>3. ASSUME NEW line \in L PROVE Hosts!Fields(line) \in Seq(HostValues)
  <2>1. PICK n \in 0..MaxWords : line \in [1..n -> W]
    BY <1>3 DEF Hosts!SeqOf
  <2>2. n \in Nat
    BY BoundsAssumption
  <2> QED
    BY <2>1, <2>2, FieldsType
<1> HIDE DEF L
<1>4. \A l \in 1..m : Hosts!Fields(f[l]) \in Seq(HostValues)
  BY <1>1, <1>3
<1> QED
  BY <1>2, <1>4, WordsOf

\* A value that normalizeModernHost takes is one that normalizeHost takes in the
\* same way, and what it becomes is not changed again.
LEMMA NormalForm ==
  ASSUME NEW v \in HostValues, Hosts!normalizeModernHost(v) # Hosts!Rejected
  PROVE  /\ Hosts!normalizeHost(v) = Hosts!normalizeModernHost(v)
         /\ Hosts!normalizeModernHost(Hosts!AsValue(Hosts!normalizeModernHost(v)))
               = Hosts!normalizeModernHost(v)
<1> DEFINE n == Hosts!normalizeHost(v)
<1>1. Hosts!normalizeModernHost(v) = n /\ n.host \in {"ipv4", "ipv6", "name"}
  BY DEF Hosts!normalizeModernHost
<1>2. n \in [host : {"ipv4", "ipv6", "name"}, port : {"22", "022"}]
  BY <1>1 DEF HostValues, Hosts!normalizeHost, Hosts!Splits, Hosts!IsIP,
              Hosts!HasColon, Hosts!Rejected
<1> HIDE DEF n
<1>3. /\ Hosts!Splits(Hosts!AsValue(n)) /\ Hosts!AsValue(n).port # "99999"
      /\ Hosts!AsValue(n).host = n.host /\ Hosts!AsValue(n).port = n.port
  BY <1>2 DEF Hosts!AsValue, Hosts!Splits
<1>4. Hosts!normalizeHost(Hosts!AsValue(n)) = n
  BY <1>2, <1>3, Zenon DEF Hosts!normalizeHost
<1> QED
  BY <1>1, <1>2, <1>4 DEF n, Hosts!normalizeModernHost

\* What the words of a file become.
Norms(f) == [i \in DOMAIN Hosts!Words(f) |->
                Hosts!normalizeModernHost(Hosts!Words(f)[i])]

LEMMA NormsAre ==
  ASSUME NEW f, Hosts!Words(f) \in Seq(HostValues)
  PROVE  /\ Len(Norms(f)) \in Nat
         /\ DOMAIN Norms(f) = 1..Len(Norms(f))
         /\ DOMAIN Norms(f) = DOMAIN Hosts!Words(f)
         /\ Norms(f) \in Seq(Range(Norms(f)))
         /\ \A i \in DOMAIN Norms(f) :
               /\ Hosts!Words(f)[i] \in HostValues
               /\ Norms(f)[i] = Hosts!normalizeModernHost(Hosts!Words(f)[i])
<1> DEFINE w == Hosts!Words(f)
<1>1. w \in Seq(HostValues)
  OBVIOUS
<1> HIDE DEF w
<1>2. Norms(f) = [i \in DOMAIN w |-> Hosts!normalizeModernHost(w[i])]
  BY DEF Norms, w
<1>3. /\ Len(w) \in Nat /\ DOMAIN w = 1..Len(w)
      /\ \A i \in 1..Len(w) : w[i] \in HostValues
  BY <1>1
<1>4. Len(Norms(f)) = Len(w) /\ DOMAIN Norms(f) = 1..Len(w)
  BY <1>2, <1>3
<1>5. Norms(f) \in [1..Len(w) -> Range(Norms(f))]
  BY <1>2, <1>3 DEF Range
<1>6. Norms(f) \in Seq(Range(Norms(f)))
  BY <1>3, <1>5
<1> QED
  BY <1>2, <1>3, <1>4, <1>6 DEF w

LEMMA EntriesAre ==
  ASSUME NEW f, Hosts!Words(f) \in Seq(HostValues)
  PROVE  /\ Len(Hosts!parseHostEntries(f)) = Len(Norms(f))
         /\ DOMAIN Hosts!parseHostEntries(f) = 1..Len(Norms(f))
         /\ \A i \in 1..Len(Norms(f)) :
               /\ Hosts!parseHostEntries(f)[i].normalized = Norms(f)[i]
               /\ Hosts!parseHostEntries(f)[i].duplicate
                     <=> /\ Norms(f)[i] # Hosts!Rejected
                         /\ \E j \in 1..(i - 1) : Norms(f)[j] = Norms(f)[i]
<1> DEFINE n == Norms(f)
           e == [i \in DOMAIN n |->
                   [normalized |-> n[i],
                    duplicate  |-> /\ n[i] # Hosts!Rejected
                                   /\ \E j \in 1..(i - 1) : n[j] = n[i]]]
<1>1. DOMAIN n = DOMAIN Hosts!Words(f) /\ DOMAIN n = 1..Len(n) /\ Len(n) \in Nat
  BY NormsAre
<1>2. Hosts!parseHostEntries(f) = e
  BY <1>1, Zenon DEF Hosts!parseHostEntries, Norms
<1> HIDE DEF n
<1>3. DOMAIN e = 1..Len(n) /\ Len(e) = Len(n)
  BY <1>1
<1>4. ASSUME NEW i \in 1..Len(n)
      PROVE  /\ e[i].normalized = n[i]
             /\ e[i].duplicate <=> /\ n[i] # Hosts!Rejected
                                   /\ \E j \in 1..(i - 1) : n[j] = n[i]
  BY <1>1, Zenon
<1> QED
  BY <1>2, <1>3, <1>4 DEF n

LEMMA TargetsAre ==
  ASSUME NEW f, Hosts!Words(f) \in Seq(HostValues)
  PROVE  Hosts!loadTargets(f, <<>>) =
            IF \E i \in DOMAIN Norms(f) : Norms(f)[i] = Hosts!Rejected
            THEN Hosts!Error ELSE Norms(f)
<1> DEFINE e == Hosts!parseHostEntries(f)
           s == [i \in DOMAIN e |-> e[i].normalized]
           t == [i \in DOMAIN <<>> |-> Hosts!normalizeModernHost(<<>>[i])]
           n == Norms(f)
<1>1. /\ Len(n) \in Nat /\ DOMAIN n = 1..Len(n) /\ n \in Seq(Range(n))
  BY NormsAre
<1>2. DOMAIN e = 1..Len(n) /\ \A i \in 1..Len(n) : e[i].normalized = n[i]
  BY EntriesAre
<1>3. Hosts!loadTargets(f, <<>>) = Hosts!AllOrError(s \o t)
  BY DEF Hosts!loadTargets
<1>4. n = [i \in DOMAIN n |-> n[i]]
  BY <1>1
<1> HIDE DEF n, e
<1>5. s = n
  BY <1>1, <1>2, <1>4
<1>6. t = <<>>
  OBVIOUS
<1>7. s \o t = n
  BY <1>1, <1>5, <1>6
<1> QED
  BY <1>3, <1>7, Zenon DEF Hosts!AllOrError, n

LEMMA ReadHostsIs ==
  ASSUME NEW f, Hosts!Words(f) \in Seq(HostValues),
         \A i \in DOMAIN Norms(f) : Norms(f)[i] # Hosts!Rejected
  PROVE  Hosts!readHosts(f) = Norms(f)
<1> DEFINE w == Hosts!Words(f)
           m == [i \in DOMAIN w |-> Hosts!normalizeHost(w[i])]
<1>1. \A i \in DOMAIN w : Norms(f)[i] = Hosts!normalizeHost(w[i])
  BY NormsAre, NormalForm
<1>2. m = Norms(f)
  <2>1. \A i \in DOMAIN w : Hosts!normalizeHost(w[i]) = Hosts!normalizeModernHost(w[i])
    BY NormsAre, NormalForm
  <2> QED
    BY <2>1, Zenon DEF Norms
<1>3. Hosts!readHosts(f) = Hosts!AllOrError(m)
  BY DEF Hosts!readHosts
<1> QED
  BY <1>2, <1>3, Zenon DEF Hosts!AllOrError

-----------------------------------------------------------------------------
\* An entry that counts as an error.
BadEntry(i) == \/ entries[i].normalized = Hosts!Rejected
               \/ entries[i].duplicate /\ strict

HostsTypes ==
    /\ file \in Hosts!Files /\ readable \in BOOLEAN /\ strict \in BOOLEAN
    /\ step \in {"parse", "count", "print", "returned"}
    /\ entries = IF step = "parse" \/ ~readable THEN <<>>
                                                ELSE Hosts!parseHostEntries(file)
    /\ step \in {"count", "print"} => readable
    /\ counted \in 0..Len(entries) /\ errorsCount \in Nat

\* The errors counted are those of the entries, and a file without one counts.
ErrorsKnown ==
    /\ step = "parse" => counted = 0 /\ errorsCount = 0
    /\ step = "count" =>
          (errorsCount = 0 <=> \A i \in 1..counted : ~BadEntry(i))
    /\ step = "print" =>
          (errorsCount = 0 <=> entries # <<>> /\ \A i \in DOMAIN entries : ~BadEntry(i))
    /\ step = "returned" /\ exitCode = 0 =>
          readable /\ entries # <<>> /\ \A i \in DOMAIN entries : ~BadEntry(i)

HostsInv == HostsTypes /\ ErrorsKnown

LEMMA EntriesLength ==
  ASSUME HostsTypes
  PROVE  Len(entries) \in Nat /\ DOMAIN entries = 1..Len(entries)
<1>1. CASE entries = <<>>
  BY <1>1
<1>2. CASE entries = Hosts!parseHostEntries(file)
  BY <1>2, WordsType, EntriesAre, NormsAre DEF HostsTypes
<1> QED
  BY <1>1, <1>2 DEF HostsTypes

LEMMA HostsStep == ASSUME HostsInv, Hosts!Next PROVE HostsInv'
<1>1. Len(entries) \in Nat /\ DOMAIN entries = 1..Len(entries)
  BY EntriesLength DEF HostsInv
<1>2. CASE Hosts!ParseEntries
  <2>1. HostsTypes'
    <3>1. entries' = Hosts!parseHostEntries(file) /\ file \in Hosts!Files
          /\ counted' = 0
      BY <1>2 DEF Hosts!ParseEntries, HostsInv, HostsTypes, ErrorsKnown
    <3>2. Len(entries') \in Nat
      BY <3>1, WordsType, EntriesAre, NormsAre
    <3> QED
      BY <1>2, <3>1, <3>2 DEF Hosts!ParseEntries, HostsInv, HostsTypes
  <2>2. ErrorsKnown'
    BY <1>2 DEF Hosts!ParseEntries, HostsInv, HostsTypes, ErrorsKnown
  <2> QED
    BY <2>1, <2>2 DEF HostsInv
<1>3. CASE Hosts!ParseFails
  BY <1>3 DEF Hosts!ParseFails, Hosts!Return, HostsInv, HostsTypes, ErrorsKnown
<1>4. CASE Hosts!CountEntry
  <2>1. /\ step = "count" /\ counted < Len(entries) /\ counted' = counted + 1
        /\ errorsCount' = IF BadEntry(counted + 1) THEN errorsCount + 1 ELSE errorsCount
        /\ UNCHANGED <<file, readable, strict, step, entries, exitCode>>
    BY <1>4 DEF Hosts!CountEntry, BadEntry
  <2>2. HostsTypes'
    BY <1>1, <2>1 DEF HostsInv, HostsTypes
  <2>3. ErrorsKnown'
    <3>1. \A i : BadEntry(i)' <=> BadEntry(i)
      BY <2>1 DEF BadEntry
    <3>2. counted \in Nat /\ errorsCount \in Nat
      BY <1>1 DEF HostsInv, HostsTypes
    <3>3. errorsCount = 0 <=> \A i \in 1..counted : ~BadEntry(i)
      BY <2>1 DEF HostsInv, ErrorsKnown
    <3>4. errorsCount' = 0 <=> \A i \in 1..counted' : ~BadEntry(i)
      BY <2>1, <3>2, <3>3
    <3>5. errorsCount' = 0 <=> \A i \in 1..counted' : ~BadEntry(i)'
      BY <3>1, <3>4
    <3> QED
      BY <2>1, <3>5 DEF ErrorsKnown
  <2> QED
    BY <2>2, <2>3 DEF HostsInv
<1>5. CASE Hosts!CountDone
  <2>1. /\ step = "count" /\ counted = Len(entries) /\ step' = "print"
        /\ errorsCount' = IF entries = <<>> THEN errorsCount + 1 ELSE errorsCount
        /\ UNCHANGED <<file, readable, strict, entries, counted, exitCode>>
    BY <1>5 DEF Hosts!CountDone
  <2>2. HostsTypes'
    BY <1>1, <2>1 DEF HostsInv, HostsTypes
  <2>3. ErrorsKnown'
    <3>1. \A i : BadEntry(i)' <=> BadEntry(i)
      BY <2>1 DEF BadEntry
    <3>2. errorsCount \in Nat
      BY DEF HostsInv, HostsTypes
    <3>3. errorsCount = 0 <=> \A i \in DOMAIN entries : ~BadEntry(i)
      BY <1>1, <2>1 DEF HostsInv, ErrorsKnown
    <3>4. errorsCount' = 0 <=> entries # <<>> /\ \A i \in DOMAIN entries : ~BadEntry(i)'
      BY <2>1, <3>1, <3>2, <3>3
    <3> QED
      BY <2>1, <3>4 DEF ErrorsKnown
  <2> QED
    BY <2>2, <2>3 DEF HostsInv
<1>6. CASE Hosts!Report \/ Hosts!ReportFails
  <2>1. /\ step = "print" /\ step' = "returned"
        /\ exitCode' = 0 => errorsCount = 0
        /\ UNCHANGED <<file, readable, strict, entries, counted, errorsCount>>
    BY <1>6 DEF Hosts!Report, Hosts!ReportFails, Hosts!Return
  <2>2. HostsTypes'
    BY <2>1 DEF HostsInv, HostsTypes
  <2>3. ErrorsKnown'
    BY <2>1 DEF HostsInv, HostsTypes, ErrorsKnown, BadEntry
  <2> QED
    BY <2>2, <2>3 DEF HostsInv
<1>7. CASE UNCHANGED Hosts!vars
  BY <1>7 DEF Hosts!vars, HostsInv, HostsTypes, ErrorsKnown, BadEntry
<1> QED
  BY <1>2, <1>3, <1>4, <1>5, <1>6, <1>7 DEF Hosts!Next, Hosts!Terminated

LEMMA HostsAgree == ASSUME HostsInv PROVE Hosts!ReadersAgree
<1> DEFINE n == Norms(file)
           bad == \E i \in DOMAIN n : n[i] = Hosts!Rejected
<1>1. /\ Hosts!Words(file) \in Seq(HostValues)
      /\ Len(n) \in Nat /\ DOMAIN n = 1..Len(n) /\ n \in Seq(Range(n))
  BY WordsType, NormsAre DEF HostsInv, HostsTypes
<1>2. Hosts!loadTargets(file, <<>>) = IF bad THEN Hosts!Error ELSE n
  BY <1>1, TargetsAre
<1>3. ~bad => n # Hosts!Error
  BY <1>1 DEF Hosts!Error
<1>4. Hosts!RunAccepts <=> readable /\ ~bad /\ n # <<>>
  BY <1>2, <1>3 DEF Hosts!RunAccepts
<1>5. ASSUME entries = Hosts!parseHostEntries(file)
      PROVE  /\ DOMAIN entries = DOMAIN n /\ (entries = <<>> <=> n = <<>>)
             /\ \A i \in DOMAIN n :
                   /\ entries[i].normalized = n[i]
                   /\ entries[i].duplicate
                         <=> /\ n[i] # Hosts!Rejected
                             /\ \E j \in 1..(i - 1) : n[j] = n[i]
  <2>1. DOMAIN entries = 1..Len(n) /\ Len(entries) = Len(n)
    BY <1>1, <1>5, EntriesAre
  <2>2. entries = <<>> <=> n = <<>>
    BY <1>1, <2>1, <1>5, EntriesLength DEF HostsInv
  <2> QED
    BY <1>1, <1>5, <2>1, <2>2, EntriesAre
<1> HIDE DEF n
<1>6. ASSUME step = "returned", exitCode = 0
      PROVE  /\ Hosts!RunAccepts
             /\ strict => IsInjective(Hosts!loadTargets(file, <<>>))
  <2>1. /\ readable /\ entries # <<>> /\ \A i \in DOMAIN entries : ~BadEntry(i)
        /\ entries = Hosts!parseHostEntries(file)
    BY <1>6 DEF HostsInv, HostsTypes, ErrorsKnown
  <2>2. n # <<>> /\ ~bad
    BY <1>5, <2>1 DEF BadEntry
  <2>3. ASSUME strict, NEW i \in DOMAIN n, NEW j \in DOMAIN n, n[i] = n[j], j < i
        PROVE  FALSE
    BY <1>1, <1>5, <2>1, <2>2, <2>3 DEF BadEntry
  <2>4. strict => \A i, j \in DOMAIN n : n[i] = n[j] => i = j
    BY <1>1, <2>3
  <2>5. strict => IsInjective(n)
    BY <2>4 DEF IsInjective
  <2> QED
    BY <1>2, <1>4, <2>1, <2>2, <2>5
<1>7. ASSUME step = "print", Hosts!RunAccepts, ~strict PROVE errorsCount = 0
  BY <1>4, <1>5, <1>7 DEF HostsInv, HostsTypes, ErrorsKnown, BadEntry
<1>8. ASSUME Hosts!RunAccepts
      PROVE  Hosts!readHosts(file) = Hosts!loadTargets(file, <<>>)
  BY <1>1, <1>2, <1>4, <1>8, ReadHostsIs DEF n
<1>9. ASSUME NEW i \in DOMAIN entries, entries[i].normalized # Hosts!Rejected
      PROVE  Hosts!normalizeModernHost(Hosts!AsValue(entries[i].normalized))
                = entries[i].normalized
  <2>1. entries = Hosts!parseHostEntries(file)
    BY <1>9 DEF HostsInv, HostsTypes
  <2>2. i \in DOMAIN n /\ entries[i].normalized = n[i]
    BY <1>5, <1>9, <2>1
  <2>3. /\ Hosts!Words(file)[i] \in HostValues
        /\ n[i] = Hosts!normalizeModernHost(Hosts!Words(file)[i])
    BY <1>1, <2>2, NormsAre DEF n
  <2> QED
    BY <1>9, <2>2, <2>3, NormalForm
<1> QED
  BY <1>6, <1>7, <1>8, <1>9 DEF Hosts!ReadersAgree, Hosts!IsInjective, IsInjective

\* The readers of a hosts file agree, for files of any length: what validate
\* passes run accepts, doctor and the legacy reader see the same targets, and a
\* target is not changed when it is normalized again (cli.go:409-472, 975-1108,
\* pssh.go:416-473).
THEOREM HostsReadAlike == GopsshSpec => []ReadersAgree
<1> DEFINE Inv == part = "hosts" => HostsInv
<1>1. GopsshInit => Inv
  <2> SUFFICES ASSUME Hosts!Init PROVE HostsInv
    BY DEF GopsshInit
  <2> QED
    BY DEF Hosts!Init, HostsInv, HostsTypes, ErrorsKnown
<1>2. Inv /\ [GopsshNext]_gopsshVars => Inv'
  <2> SUFFICES ASSUME Inv, [GopsshNext]_gopsshVars, part' = "hosts"
               PROVE  HostsInv'
    OBVIOUS
  <2>1. CASE UNCHANGED gopsshVars
    <3>1. UNCHANGED <<part, file, readable, strict, step, entries, counted,
                      errorsCount, exitCode>>
      BY <2>1 DEF gopsshVars, hostsVars
    <3> QED
      BY <3>1 DEF HostsInv, HostsTypes, ErrorsKnown, BadEntry
  <2>2. CASE GopsshNext
    <3>1. part = "hosts" /\ Hosts!Next
      BY <2>2 DEF GopsshNext
    <3> QED
      BY <3>1, HostsStep
  <2> QED
    BY <2>1, <2>2
<1>3. Inv => ReadersAgree
  BY HostsAgree DEF ReadersAgree
<1> QED
  BY <1>1, <1>2, <1>3, PTL DEF GopsshSpec

-----------------------------------------------------------------------------
(* Doctor                                                                   *)

\* How many targets are probed.
ProbeCount == IF Len(targets) < conf.limit THEN Len(targets) ELSE conf.limit

\* The targets that were read, and the number of those that are done.
DoctorTypes ==
    /\ conf \in [connect : BOOLEAN, limit : Nat, hostsFile : BOOLEAN,
                 identitySet : BOOLEAN, insecure : BOOLEAN]
    /\ machine \in [settings : {"valid", "limits", "other"},
                    agent : {"up", "down", "off"},
                    identity : {"all", "some", "none"},
                    knownHosts : {"valid", "malformed", "missing"},
                    readable : BOOLEAN]
    /\ Hosts!Words(file) \in Seq(HostValues)
    /\ step \in {"options", "check", "probe", "dialing", "print", "returned", "exited"}
    /\ targets \in Seq(Range(targets))
    /\ probed \in 0..ProbeCount
    /\ step = "dialing" => probed < ProbeCount
    /\ cause \in {"none", "INT", "TERM"}
    /\ open = IF step = "dialing" THEN {Doctor!Target} ELSE {}

\* No further target is contacted.
NoMoreContacts ==
    \/ machine.settings = "limits"
    \/ ~conf.insecure /\ machine.knownHosts # "valid"
    \/ cause # "none"

\* The targets contacted are the first ones, all that are done or in progress
\* unless the rest is refused.
Dialed == IF step = "dialing" THEN probed + 1 ELSE probed

ContactsKnown ==
    /\ \E k \in 0..Dialed : /\ contacted = SubSeq(targets, 1, k)
                            /\ k = Dialed \/ NoMoreContacts
    /\ contacted = <<>> => reached = <<>> /\ step # "dialing"
    /\ contacted # <<>> => /\ conf.connect
                           /\ conf.insecure \/ machine.knownHosts = "valid"

\* The checks are done, and nothing has ended the command before its report.
Reporting == \/ step \in {"probe", "dialing", "print"}
             \/ step \in {"returned", "exited"} /\ exitCode = 0

LocalChecks == {<<c, 0>> : c \in Doctor!doctorChecks}
                 \cup IF targets = Doctor!Error THEN {<<"network", 0>>} ELSE {}

ChecksKnown ==
    /\ step \in {"options", "check"} =>
          checks = {} /\ probed = 0 /\ contacted = <<>> /\ reached = <<>>
    /\ step \in {"check", "probe", "dialing", "print"} \/ Reporting =>
          /\ targets = IF conf.connect THEN Doctor!Loaded ELSE <<>>
          /\ conf.connect => ProbeCount # 0
    /\ Reporting =>
          /\ LocalChecks \subseteq checks
          /\ checks \subseteq LocalChecks \cup {<<"ssh", i>> : i \in 1..probed}
          /\ (\A i \in 1..probed : <<"ssh", i>> \notin checks) =>
                reached = SubSeq(targets, 1, probed)
          /\ step \in {"probe", "dialing"} => conf.connect
          /\ \/ step \in {"probe", "dialing"} \/ probed = ProbeCount
             \/ targets = Doctor!Error

\* An exit code of 0 follows a report without a failed check.
ExitKnown ==
    /\ step \in {"returned", "exited"} /\ exitCode = 0 => checks = {}
    /\ step = "exited" /\ exitCode = 0 => cause = "none"

DoctorInv == DoctorTypes /\ ContactsKnown /\ ChecksKnown /\ ExitKnown

\* Doctor reads hosts files as run does.
LEMMA DoctorReads ==
  ASSUME NEW f
  PROVE  Doctor!loadTargets(f, <<>>) = Hosts!loadTargets(f, <<>>)
<1>1. \A v : Doctor!normalizeHost(v) = Hosts!normalizeHost(v)
  BY Zenon DEF Doctor!normalizeHost, Hosts!normalizeHost, Doctor!Splits, Hosts!Splits,
         Doctor!IsIP, Hosts!IsIP, Doctor!HasColon, Hosts!HasColon,
         Doctor!Rejected, Hosts!Rejected
<1>2. \A v : Doctor!normalizeModernHost(v) = Hosts!normalizeModernHost(v)
  BY <1>1, Zenon DEF Doctor!normalizeModernHost, Hosts!normalizeModernHost,
                     Doctor!Rejected, Hosts!Rejected
<1>3. Doctor!Words(f) = Hosts!Words(f)
  BY Zenon DEF Doctor!Words, Hosts!Words, Doctor!FlattenSeq, Hosts!FlattenSeq,
         Doctor!Fields, Hosts!Fields, Doctor!Comment, Hosts!Comment
<1>4. Doctor!parseHostEntries(f) = Hosts!parseHostEntries(f)
  BY <1>2, <1>3, Zenon DEF Doctor!parseHostEntries, Hosts!parseHostEntries,
                           Doctor!Rejected, Hosts!Rejected
<1>5. \A s : Doctor!AllOrError(s) = Hosts!AllOrError(s)
  BY Zenon DEF Doctor!AllOrError, Hosts!AllOrError, Doctor!Error, Hosts!Error,
               Doctor!Rejected, Hosts!Rejected
<1> QED
  BY <1>2, <1>4, <1>5, Zenon DEF Doctor!loadTargets, Hosts!loadTargets

LEMMA LoadedType ==
  ASSUME Hosts!Words(file) \in Seq(HostValues)
  PROVE  Doctor!Loaded \in Seq(Range(Doctor!Loaded))
<1>1. <<>> \in Seq(Range(<<>>))
  OBVIOUS
<1>2. Doctor!Error \in Seq(Range(Doctor!Error))
  BY DEF Doctor!Error, Range
<1>3. Norms(file) \in Seq(Range(Norms(file)))
  BY NormsAre
<1>4. Hosts!Error = Doctor!Error
  BY DEF Hosts!Error, Doctor!Error, Hosts!Rejected, Doctor!Rejected
<1>5. Doctor!loadTargets(file, <<>>) \in {Doctor!Error, Norms(file)}
  BY <1>4, DoctorReads, TargetsAre
<1> QED
  BY <1>1, <1>2, <1>3, <1>5, Zenon DEF Doctor!Loaded

\* The values of a doctor file are the words of its lines.
LEMMA ProbeWords ==
  ASSUME Doctor!Init
  PROVE  Hosts!Words(file) \in Seq(HostValues)
<1>1. PICK words \in Doctor!SeqOf(ProbeValues, MaxWords) :
          file = [i \in DOMAIN words |-> <<words[i]>>]
  BY DEF Doctor!Init
<1>2. PICK m \in 0..MaxWords : words \in [1..m -> ProbeValues]
  BY <1>1 DEF Doctor!SeqOf
<1>3. m \in Nat
  BY BoundsAssumption
<1>4. ProbeValues \subseteq HostValues
  BY DEF ProbeValues, HostValues
<1> HIDE DEF ProbeValues, HostValues
<1>5. ASSUME NEW i \in 1..m PROVE file[i] \in [1..1 -> HostValues \cup {Hosts!Comment}]
  BY <1>1, <1>2, <1>4
<1>6. \A i \in 1..m : Hosts!Fields(file[i]) \in Seq(HostValues)
  BY <1>5, FieldsType
<1>7. DOMAIN file = 1..m
  BY <1>1, <1>2
<1> QED
  BY <1>3, <1>6, <1>7, WordsOf

LEMMA GivenSame ==
  ASSUME UNCHANGED Doctor!given
  PROVE  /\ Doctor!doctorChecks' = Doctor!doctorChecks
         /\ Doctor!Loaded' = Doctor!Loaded
         /\ Hosts!Words(file)' = Hosts!Words(file)
<1>1. conf' = conf /\ machine' = machine /\ file' = file
  BY DEF Doctor!given
<1>2. Doctor!HostsFileBad' <=> Doctor!HostsFileBad
  BY <1>1 DEF Doctor!HostsFileBad
<1> QED
  BY <1>1, <1>2 DEF Doctor!doctorChecks, Doctor!Loaded

\* One more of the first elements.
LEMMA FirstMore ==
  ASSUME NEW X, NEW s \in Seq(X), NEW k \in 0..Len(s)
  PROVE  /\ Len(SubSeq(s, 1, k)) = k /\ (SubSeq(s, 1, k) = <<>> <=> k = 0)
         /\ k < Len(s) => SubSeq(s, 1, k + 1) = Append(SubSeq(s, 1, k), s[k + 1])
OBVIOUS

LEMMA DoctorCounts ==
  ASSUME DoctorTypes
  PROVE  /\ Len(targets) \in Nat /\ conf.limit \in Nat
         /\ ProbeCount \in 0..Len(targets) /\ probed \in Nat /\ Dialed \in 0..ProbeCount
         /\ ProbeCount = conf.limit \/ ProbeCount = Len(targets)
BY DEF DoctorTypes, ProbeCount, Dialed

\* The report of the local checks.
LEMMA DoctorCheckStep == ASSUME DoctorInv, Doctor!Check PROVE DoctorInv'
<1>1. /\ step = "check" /\ UNCHANGED Doctor!given /\ UNCHANGED Doctor!net
      /\ UNCHANGED <<targets, cause, exitCode>>
      /\ checks' = LocalChecks
      /\ step' = IF conf.connect /\ targets # Doctor!Error THEN "probe" ELSE "print"
  BY DEF Doctor!Check, LocalChecks
<1>2. UNCHANGED <<conf, machine, file, probed, contacted, reached, open>>
  BY <1>1 DEF Doctor!given, Doctor!net
<1>3. /\ probed = 0 /\ contacted = <<>> /\ reached = <<>>
      /\ targets = IF conf.connect THEN Doctor!Loaded ELSE <<>>
      /\ conf.connect => ProbeCount # 0
  BY <1>1 DEF DoctorInv, ChecksKnown
<1>4. LocalChecks' = LocalChecks /\ ProbeCount' = ProbeCount
  BY <1>1, <1>2, GivenSame DEF LocalChecks, ProbeCount, Doctor!Error, Doctor!Rejected
<1>5. DoctorTypes'
  BY <1>1, <1>2, <1>4, GivenSame DEF DoctorInv, DoctorTypes
<1>6. ContactsKnown'
  BY <1>1, <1>2, <1>3 DEF DoctorInv, ContactsKnown, Dialed, NoMoreContacts
<1>7. ExitKnown'
  BY <1>1 DEF ExitKnown
<1>8. ChecksKnown'
  <2>1. step' \notin {"options", "check"}
    BY <1>1
  <2>2. /\ targets' = IF conf'.connect THEN Doctor!Loaded' ELSE <<>>
        /\ conf'.connect => ProbeCount' # 0
    BY <1>1, <1>2, <1>3, <1>4, GivenSame
  <2>3. LocalChecks' \subseteq checks'
        /\ checks' \subseteq LocalChecks' \cup {<<"ssh", i>> : i \in 1..probed'}
    BY <1>1, <1>4
  <2>4. reached' = SubSeq(targets', 1, probed')
    BY <1>2, <1>3
  <2>5. /\ step' \in {"probe", "dialing"} => conf'.connect
        /\ \/ step' \in {"probe", "dialing"} \/ probed' = ProbeCount'
           \/ targets' = Doctor!Error'
    <3>1. Doctor!Error' = Doctor!Error
      BY DEF Doctor!Error, Doctor!Rejected
    <3>2. ~conf.connect => ProbeCount = 0
      <4>1. DoctorTypes
        BY DEF DoctorInv
      <4> QED
        BY <1>3, <4>1, DoctorCounts DEF ProbeCount
    <3> QED
      BY <1>1, <1>2, <1>3, <1>4, <3>1, <3>2
  <2> QED
    BY <2>1, <2>2, <2>3, <2>4, <2>5 DEF ChecksKnown
<1> QED
  BY <1>5, <1>6, <1>7, <1>8 DEF DoctorInv

LEMMA DoctorLoadStep == ASSUME DoctorInv, Doctor!LoadTargets PROVE DoctorInv'
<1>1. /\ step = "options" /\ UNCHANGED Doctor!given /\ UNCHANGED Doctor!net
      /\ UNCHANGED <<checks, cause>>
      /\ \/ step' = "returned" /\ exitCode' = 2 /\ targets' = targets
         \/ /\ conf.limit # 0 /\ (conf.connect => Doctor!Loaded # <<>>)
            /\ targets' = IF conf.connect THEN Doctor!Loaded ELSE <<>>
            /\ step' = "check"
  BY DEF Doctor!LoadTargets, Doctor!Return
<1>2. UNCHANGED <<conf, machine, file, probed, contacted, reached, open>>
  BY <1>1 DEF Doctor!given, Doctor!net
<1>3. checks = {} /\ probed = 0 /\ contacted = <<>> /\ reached = <<>>
  BY <1>1 DEF DoctorInv, ChecksKnown
<1>4. /\ targets' \in Seq(Range(targets'))
      /\ step' = "check" /\ conf.connect => targets' # <<>>
  <2>1. <<>> \in Seq(Range(<<>>))
    OBVIOUS
  <2>2. targets \in Seq(Range(targets)) /\ Doctor!Loaded \in Seq(Range(Doctor!Loaded))
    BY LoadedType DEF DoctorInv, DoctorTypes
  <2>3. targets' \in {targets, Doctor!Loaded, <<>>}
    BY <1>1
  <2>4. targets' \in Seq(Range(targets'))
    BY <2>1, <2>2, <2>3, Zenon
  <2> QED
    BY <1>1, <2>4
<1>5. /\ ProbeCount' \in Nat
      /\ step' = "check" /\ conf'.connect => ProbeCount' # 0
  <2>1. Len(targets') \in Nat /\ (targets' # <<>> => Len(targets') # 0)
    BY <1>4
  <2>2. conf'.limit \in Nat
    BY <1>2 DEF DoctorInv, DoctorTypes
  <2> QED
    BY <1>1, <1>2, <1>4, <2>1, <2>2 DEF ProbeCount
<1>6. DoctorTypes'
  BY <1>1, <1>2, <1>3, <1>4, <1>5, GivenSame DEF DoctorInv, DoctorTypes
<1>7. ContactsKnown'
  <2>1. Dialed' = 0 /\ contacted' = SubSeq(targets', 1, 0)
    BY <1>1, <1>2, <1>3 DEF Dialed
  <2> QED
    BY <1>1, <1>2, <1>3, <2>1 DEF ContactsKnown
<1>8. ChecksKnown'
  BY <1>1, <1>2, <1>3, <1>5, GivenSame DEF ChecksKnown, Reporting
<1>9. ExitKnown'
  BY <1>1 DEF ExitKnown
<1> QED
  BY <1>6, <1>7, <1>8, <1>9 DEF DoctorInv

\* A step that contacts no target and adds no check.
LEMMA DoctorQuietStep ==
  ASSUME DoctorInv, UNCHANGED Doctor!given, UNCHANGED Doctor!net,
         UNCHANGED <<targets, checks>>,
         cause' = cause \/ (cause = "none" /\ cause' \in {"INT", "TERM"}),
         \/ step' = step
         \/ step' \in {"print", "returned", "exited"} /\ step # "dialing",
         step' = "print" => step \in {"print", "probe"},
         Reporting' => Reporting,
         Reporting' /\ step' # step /\ step = "probe" => probed = ProbeCount,
         ExitKnown'
  PROVE  DoctorInv'
<1>1. UNCHANGED <<conf, machine, file, probed, contacted, reached, open, targets, checks>>
  BY DEF Doctor!given, Doctor!net
<1>2. /\ LocalChecks' = LocalChecks /\ ProbeCount' = ProbeCount
      /\ Dialed' = Dialed /\ Doctor!Target' = Doctor!Target
      /\ Doctor!Error' = Doctor!Error
  BY <1>1, GivenSame DEF LocalChecks, ProbeCount, Dialed, Doctor!Target,
                         Doctor!Error, Doctor!Rejected
<1>3. DoctorTypes'
  BY <1>1, <1>2, GivenSame DEF DoctorInv, DoctorTypes
<1>4. ContactsKnown'
  <2>1. NoMoreContacts => NoMoreContacts'
    BY <1>1 DEF NoMoreContacts
  <2>2. PICK k \in 0..Dialed : /\ contacted = SubSeq(targets, 1, k)
                               /\ k = Dialed \/ NoMoreContacts
    BY DEF DoctorInv, ContactsKnown
  <2>3. /\ k \in 0..Dialed' /\ contacted' = SubSeq(targets', 1, k)
        /\ k = Dialed' \/ NoMoreContacts'
    BY <1>1, <1>2, <2>1, <2>2
  <2>4. /\ contacted' = <<>> => reached' = <<>> /\ step' # "dialing"
        /\ contacted' # <<>> => /\ conf'.connect
                                /\ conf'.insecure \/ machine'.knownHosts = "valid"
    BY <1>1 DEF DoctorInv, ContactsKnown
  <2> QED
    BY <2>3, <2>4 DEF ContactsKnown
<1>5. ChecksKnown'
  <2>1. step' \in {"options", "check"} => step \in {"options", "check"}
    OBVIOUS
  <2>2. /\ step' \in {"check", "probe", "dialing", "print"} =>
              step \in {"check", "probe", "dialing", "print"}
        /\ step' \in {"probe", "dialing"} => step' = step
    OBVIOUS
  <2>3. ASSUME step' \in {"check", "probe", "dialing", "print"} \/ Reporting'
        PROVE  /\ targets' = IF conf'.connect THEN Doctor!Loaded' ELSE <<>>
               /\ conf'.connect => ProbeCount' # 0
    BY <1>1, <1>2, <2>2, <2>3, GivenSame DEF DoctorInv, ChecksKnown
  <2>4. ASSUME Reporting'
        PROVE  /\ LocalChecks' \subseteq checks'
               /\ checks' \subseteq LocalChecks' \cup {<<"ssh", i>> : i \in 1..probed'}
               /\ (\A i \in 1..probed' : <<"ssh", i>> \notin checks') =>
                     reached' = SubSeq(targets', 1, probed')
               /\ step' \in {"probe", "dialing"} => conf'.connect
    BY <1>1, <1>2, <2>2, <2>4 DEF DoctorInv, ChecksKnown
  <2>5. ASSUME Reporting'
        PROVE  \/ step' \in {"probe", "dialing"} \/ probed' = ProbeCount'
               \/ targets' = Doctor!Error'
    BY <1>1, <1>2, <2>2, <2>5 DEF DoctorInv, ChecksKnown
  <2>6. step' \in {"options", "check"} =>
          checks' = {} /\ probed' = 0 /\ contacted' = <<>> /\ reached' = <<>>
    BY <1>1, <2>1 DEF DoctorInv, ChecksKnown
  <2> QED
    BY <2>3, <2>4, <2>5, <2>6 DEF ChecksKnown
<1> QED
  BY <1>3, <1>4, <1>5 DEF DoctorInv

LEMMA DoctorDialStep == ASSUME DoctorInv, Doctor!ProbeDial PROVE DoctorInv'
<1>1. /\ step = "probe" /\ step' = "dialing" /\ probed < Len(targets) /\ probed < conf.limit
      /\ ~NoMoreContacts
      /\ contacted' = Append(contacted, Doctor!Target)
      /\ open' = open \cup {Doctor!Target}
      /\ UNCHANGED Doctor!given
      /\ UNCHANGED <<checks, targets, probed, reached, cause, exitCode>>
  BY DEF Doctor!ProbeDial, NoMoreContacts
<1>2. UNCHANGED <<conf, machine, file>>
  BY <1>1 DEF Doctor!given
<1>3. /\ LocalChecks' = LocalChecks /\ ProbeCount' = ProbeCount
      /\ Doctor!Target' = Doctor!Target /\ Doctor!Error' = Doctor!Error
  BY <1>1, <1>2, GivenSame DEF LocalChecks, ProbeCount, Doctor!Target,
                               Doctor!Error, Doctor!Rejected
<1>4. /\ Len(targets) \in Nat /\ conf.limit \in Nat /\ probed \in Nat
      /\ ProbeCount \in 0..Len(targets) /\ probed < ProbeCount
  BY <1>1, DoctorCounts DEF DoctorInv, DoctorTypes, ProbeCount
<1>5. DoctorTypes'
  BY <1>1, <1>2, <1>3, <1>4, GivenSame DEF DoctorInv, DoctorTypes
<1>6. conf.connect
  BY <1>1 DEF DoctorInv, ChecksKnown, Reporting
<1>7. ContactsKnown'
  <2>1. contacted = SubSeq(targets, 1, probed)
    BY <1>1, <1>4 DEF DoctorInv, ContactsKnown, Dialed
  <2>2. targets \in Seq(Range(targets)) /\ probed \in 0..Len(targets)
    BY <1>4 DEF DoctorInv, DoctorTypes
  <2>3. contacted' = SubSeq(targets, 1, probed + 1) /\ contacted' # <<>>
    <3>1. contacted' = Append(SubSeq(targets, 1, probed), targets[probed + 1])
      BY <1>1, <2>1 DEF Doctor!Target
    <3>2. contacted' = SubSeq(targets, 1, probed + 1)
      BY <1>1, <2>2, <3>1, FirstMore
    <3>3. probed + 1 \in 0..Len(targets) /\ probed + 1 # 0
      BY <1>1, <1>4
    <3> QED
      BY <2>2, <3>2, <3>3, FirstMore
  <2>4. Dialed' = probed + 1 /\ probed + 1 \in 0..(probed + 1)
    BY <1>1, <1>4 DEF Dialed
  <2>5. conf'.insecure \/ machine'.knownHosts = "valid"
    BY <1>1, <1>2 DEF NoMoreContacts
  <2> QED
    BY <1>1, <1>2, <1>6, <2>3, <2>4, <2>5 DEF ContactsKnown
<1>8. ChecksKnown'
  BY <1>1, <1>2, <1>3, <1>6, GivenSame DEF DoctorInv, ChecksKnown, Reporting
<1>9. ExitKnown'
  BY <1>1 DEF ExitKnown
<1> QED
  BY <1>5, <1>7, <1>8, <1>9 DEF DoctorInv

\* The probe of one target ends, and its check is added if it failed.
LEMMA DoctorProbedStep ==
  ASSUME DoctorInv, step \in {"probe", "dialing"}, step' = "probe",
         probed < ProbeCount, probed' = probed + 1,
         UNCHANGED Doctor!given, UNCHANGED <<targets, contacted, cause, exitCode>>,
         open' = {}, step = "probe" => NoMoreContacts,
         \/ checks' = checks \cup {<<"ssh", probed + 1>>}
         \/ checks' = checks /\ reached' = Append(reached, Doctor!Target),
         reached' = reached \/ step = "dialing"
  PROVE  DoctorInv'
<1>1. UNCHANGED <<conf, machine, file>>
  BY DEF Doctor!given
<1>2. /\ LocalChecks' = LocalChecks /\ ProbeCount' = ProbeCount
      /\ Doctor!Error' = Doctor!Error
  BY <1>1, GivenSame DEF LocalChecks, ProbeCount, Doctor!Error, Doctor!Rejected
<1>3. /\ Len(targets) \in Nat /\ probed \in Nat /\ ProbeCount \in 0..Len(targets)
      /\ targets \in Seq(Range(targets)) /\ probed \in 0..Len(targets)
      /\ probed < Len(targets)
  BY DoctorCounts DEF DoctorInv, DoctorTypes
<1>4. DoctorTypes'
  BY <1>1, <1>2, <1>3, GivenSame DEF DoctorInv, DoctorTypes
<1>5. ContactsKnown'
  <2>1. NoMoreContacts => NoMoreContacts'
    BY <1>1 DEF NoMoreContacts
  <2>2. PICK k \in 0..Dialed : /\ contacted = SubSeq(targets, 1, k)
                               /\ k = Dialed \/ NoMoreContacts
    BY DEF DoctorInv, ContactsKnown
  <2>3. k \in 0..Dialed' /\ (k = Dialed' \/ NoMoreContacts')
    BY <1>3, <2>1, <2>2 DEF Dialed
  <2>4. contacted' = <<>> => reached' = <<>> /\ step' # "dialing"
    BY DEF DoctorInv, ContactsKnown
  <2>5. contacted' # <<>> => /\ conf'.connect
                             /\ conf'.insecure \/ machine'.knownHosts = "valid"
    BY <1>1 DEF DoctorInv, ContactsKnown
  <2> QED
    BY <2>2, <2>3, <2>4, <2>5 DEF ContactsKnown
<1>6. ChecksKnown'
  <2>1. /\ conf.connect /\ LocalChecks \subseteq checks
        /\ checks \subseteq LocalChecks \cup {<<"ssh", i>> : i \in 1..probed}
        /\ (\A i \in 1..probed : <<"ssh", i>> \notin checks) =>
              reached = SubSeq(targets, 1, probed)
        /\ targets = IF conf.connect THEN Doctor!Loaded ELSE <<>>
        /\ ProbeCount # 0
    BY DEF DoctorInv, ChecksKnown, Reporting
  <2>2. LocalChecks' \subseteq checks'
    BY <1>2, <2>1
  <2>3. checks' \subseteq LocalChecks' \cup {<<"ssh", i>> : i \in 1..probed'}
    <3>1. <<"ssh", probed + 1>> \in {<<"ssh", i>> : i \in 1..(probed + 1)}
      BY <1>3
    <3>2. {<<"ssh", i>> : i \in 1..probed} \subseteq {<<"ssh", i>> : i \in 1..(probed + 1)}
      BY <1>3
    <3> QED
      BY <1>2, <2>1, <3>1, <3>2
  <2>4. ASSUME \A i \in 1..probed' : <<"ssh", i>> \notin checks'
        PROVE  reached' = SubSeq(targets', 1, probed')
    <3>1. probed + 1 \in 1..probed' /\ \A i \in 1..probed : i \in 1..probed'
      BY <1>3
    <3>2. checks' = checks /\ reached' = Append(reached, Doctor!Target)
      BY <2>4, <3>1
    <3>3. reached = SubSeq(targets, 1, probed)
      BY <2>1, <2>4, <3>1, <3>2
    <3> QED
      BY <1>3, <3>2, <3>3, FirstMore DEF Doctor!Target
  <2> QED
    BY <1>1, <1>2, <2>1, <2>2, <2>3, <2>4, GivenSame DEF ChecksKnown
<1>7. ExitKnown'
  BY DEF ExitKnown
<1> QED
  BY <1>4, <1>5, <1>6, <1>7 DEF DoctorInv

LEMMA DoctorStep == ASSUME DoctorInv, Doctor!Next PROVE DoctorInv'
<1>1. CASE Doctor!ProbeRefused \/ Doctor!ProbeFails \/ Doctor!ProbeSucceeds
  <2>1. DoctorTypes
    BY DEF DoctorInv
  <2>2. /\ step \in {"probe", "dialing"} /\ step' = "probe" /\ probed' = probed + 1
        /\ UNCHANGED Doctor!given /\ UNCHANGED <<targets, contacted, cause, exitCode>>
        /\ reached' = reached \/ step = "dialing"
    BY <1>1 DEF Doctor!ProbeRefused, Doctor!ProbeFails, Doctor!ProbeSucceeds
  <2>3. probed < ProbeCount
    BY <1>1, <2>1, DoctorCounts DEF DoctorTypes, ProbeCount,
          Doctor!ProbeRefused, Doctor!ProbeFails, Doctor!ProbeSucceeds
  <2>4. open' = {}
    BY <1>1, <2>1 DEF DoctorTypes, Doctor!ProbeRefused, Doctor!ProbeFails,
                      Doctor!ProbeSucceeds
  <2>5. step = "probe" => NoMoreContacts
    BY <1>1 DEF NoMoreContacts, Doctor!ProbeRefused, Doctor!ProbeFails,
                Doctor!ProbeSucceeds
  <2>6. \/ checks' = checks \cup {<<"ssh", probed + 1>>}
        \/ checks' = checks /\ reached' = Append(reached, Doctor!Target)
    BY <1>1 DEF Doctor!ProbeRefused, Doctor!ProbeFails, Doctor!ProbeSucceeds,
                Doctor!ProbeFailed
  <2> QED
    BY <2>2, <2>3, <2>4, <2>5, <2>6, DoctorProbedStep
<1>2. CASE Doctor!ProbesDone
  <2>1. /\ step = "probe" /\ step' = "print" /\ UNCHANGED Doctor!given
        /\ UNCHANGED Doctor!net /\ UNCHANGED <<checks, targets, cause, exitCode>>
        /\ probed = Len(targets) \/ probed = conf.limit
    BY <1>2 DEF Doctor!ProbesDone
  <2>2. probed = ProbeCount
    BY <2>1, DoctorCounts DEF DoctorInv, DoctorTypes, ProbeCount
  <2>3. ExitKnown' /\ Reporting
    BY <2>1 DEF ExitKnown, Reporting
  <2> QED
    BY <2>1, <2>2, <2>3, DoctorQuietStep
<1>3. CASE Doctor!Report
  <2>1. /\ step = "print" /\ step' = "returned" /\ UNCHANGED Doctor!given
        /\ UNCHANGED Doctor!net /\ UNCHANGED <<checks, targets, cause>>
        /\ exitCode' = 0 => checks = {}
    BY <1>3 DEF Doctor!Report, Doctor!Return
  <2>2. ExitKnown' /\ Reporting
    BY <2>1 DEF ExitKnown, Reporting
  <2> QED
    BY <2>1, <2>2, DoctorQuietStep
<1>4. CASE Doctor!Exit
  <2>1. /\ step = "returned" /\ step' = "exited" /\ UNCHANGED Doctor!given
        /\ UNCHANGED Doctor!net /\ UNCHANGED <<checks, targets, cause>>
    BY <1>4 DEF Doctor!Exit
  <2>2. exitCode' = 0 => cause = "none" /\ exitCode = 0
    <3>1. cause \in {"none", "INT", "TERM"}
      BY DEF DoctorInv, DoctorTypes
    <3>2. cause = "none" => exitCode' = exitCode
      BY <1>4 DEF Doctor!Exit
    <3>3. cause = "INT" => exitCode' = 130
      BY <1>4, Zenon DEF Doctor!Exit
    <3>4. cause = "TERM" => exitCode' = 143
      BY <1>4, Zenon DEF Doctor!Exit
    <3> QED
      BY <3>1, <3>2, <3>3, <3>4
  <2>3. ExitKnown' /\ (Reporting' => Reporting)
    BY <2>1, <2>2 DEF DoctorInv, ExitKnown, Reporting
  <2> QED
    BY <2>1, <2>3, DoctorQuietStep
<1>5. CASE Doctor!Signal
  <2>1. /\ step # "exited" /\ UNCHANGED Doctor!given /\ step' = step
        /\ cause = "none" /\ cause' \in {"INT", "TERM"}
        /\ UNCHANGED Doctor!net /\ UNCHANGED <<checks, targets, exitCode>>
    BY <1>5 DEF Doctor!Signal
  <2>2. ExitKnown' /\ (Reporting' => Reporting)
    BY <2>1 DEF DoctorInv, ExitKnown, Reporting
  <2> QED
    BY <2>1, <2>2, DoctorQuietStep
<1>6. CASE Doctor!Terminated
  <2>1. /\ UNCHANGED Doctor!given /\ step' = step /\ cause' = cause
        /\ UNCHANGED Doctor!net /\ UNCHANGED <<checks, targets, exitCode>>
    BY <1>6 DEF Doctor!Terminated, Doctor!vars
  <2>2. ExitKnown' /\ (Reporting' => Reporting)
    BY <2>1 DEF DoctorInv, ExitKnown, Reporting
  <2> QED
    BY <2>1, <2>2, DoctorQuietStep
<1> QED
  BY <1>1, <1>2, <1>3, <1>4, <1>5, <1>6, DoctorLoadStep, DoctorCheckStep,
     DoctorDialStep DEF Doctor!Next

LEMMA DoctorStart == ASSUME Doctor!Init PROVE DoctorInv
<1>1. /\ step = "options" /\ checks = {} /\ targets = <<>> /\ probed = 0
      /\ contacted = <<>> /\ reached = <<>> /\ open = {} /\ cause = "none"
      /\ conf \in [connect : BOOLEAN, limit : Nat, hostsFile : BOOLEAN,
                   identitySet : BOOLEAN, insecure : BOOLEAN]
      /\ machine \in [settings : {"valid", "limits", "other"},
                      agent : {"up", "down", "off"},
                      identity : {"all", "some", "none"},
                      knownHosts : {"valid", "malformed", "missing"},
                      readable : BOOLEAN]
  BY BoundsAssumption DEF Doctor!Init
<1>2. targets \in Seq(Range(targets)) /\ ProbeCount \in Nat
  BY <1>1 DEF ProbeCount
<1>3. DoctorTypes
  BY <1>1, <1>2, ProbeWords DEF DoctorTypes
<1>4. ContactsKnown
  <2>1. Dialed = 0 /\ contacted = SubSeq(targets, 1, 0)
    BY <1>1 DEF Dialed
  <2> QED
    BY <1>1, <2>1 DEF ContactsKnown
<1> QED
  BY <1>1, <1>3, <1>4 DEF DoctorInv, ChecksKnown, ExitKnown, Reporting

LEMMA DoctorPromises == ASSUME DoctorInv PROVE Doctor!DoctorTruthful
<1>1. /\ DoctorTypes /\ ContactsKnown /\ ChecksKnown /\ ExitKnown
  BY DEF DoctorInv
<1>2. /\ Len(targets) \in Nat /\ conf.limit \in Nat /\ probed \in 0..ProbeCount
      /\ ProbeCount \in 0..Len(targets) /\ Dialed \in 0..ProbeCount
      /\ targets \in Seq(Range(targets))
  BY <1>1, DoctorCounts DEF DoctorTypes
<1>3. Doctor!Probes = SubSeq(targets, 1, ProbeCount) /\ Len(Doctor!Probes) = ProbeCount
      /\ (Doctor!Probes = <<>> <=> ProbeCount = 0)
  <2>1. Doctor!Probes = SubSeq(targets, 1, ProbeCount)
    BY DEF Doctor!Probes, ProbeCount
  <2> QED
    BY <1>2, <2>1, FirstMore
<1>4. ASSUME exitCode = 0, step = "exited"
      PROVE  /\ machine.settings = "valid"
             /\ machine.agent = "up" \/ machine.identity # "none"
             /\ conf.insecure \/ machine.knownHosts # "missing"
             /\ conf.identitySet => machine.identity = "all"
             /\ conf.hostsFile => machine.readable /\ Doctor!readHosts(file) # <<>>
             /\ conf.connect =>
                   /\ reached = Doctor!Probes /\ reached # <<>>
                   /\ targets = Doctor!loadTargets(file, <<>>)
                   /\ conf.insecure \/ machine.knownHosts = "valid"
             /\ cause = "none"
  <2>1. checks = {} /\ cause = "none" /\ LocalChecks = {} /\ Reporting
    BY <1>1, <1>4 DEF ExitKnown, ChecksKnown, Reporting
  <2>2. Doctor!doctorChecks = {} /\ targets # Doctor!Error
    BY <2>1 DEF LocalChecks
  <2>3. /\ machine.settings = "valid"
        /\ ~(conf.identitySet /\ machine.identity # "all")
        /\ ~(~conf.insecure /\ machine.knownHosts = "missing")
        /\ ~Doctor!HostsFileBad
        /\ ~(machine.agent # "up" /\ machine.identity = "none")
    <3> DEFINE Fails(c) ==
                 CASE c = "settings"       -> machine.settings # "valid"
                   [] c = "identity"       -> conf.identitySet
                                              /\ machine.identity # "all"
                   [] c = "known_hosts"    -> ~conf.insecure
                                              /\ machine.knownHosts = "missing"
                   [] c = "hosts_file"     -> Doctor!HostsFileBad
                   [] c = "authentication" -> machine.agent # "up"
                                              /\ machine.identity = "none"
    <3>1. \A c \in {"settings", "identity", "known_hosts", "hosts_file",
                    "authentication"} : ~Fails(c)
      BY <2>2, Zenon DEF Doctor!doctorChecks
    <3>2. ~Fails("settings") /\ ~Fails("identity") /\ ~Fails("known_hosts")
          /\ ~Fails("hosts_file") /\ ~Fails("authentication")
      BY <3>1
    <3> QED
      BY <3>2
  <2>4. conf.hostsFile => machine.readable /\ Doctor!readHosts(file) # <<>>
    BY <2>3 DEF Doctor!HostsFileBad
  <2>5. ASSUME conf.connect
        PROVE  /\ reached = Doctor!Probes /\ reached # <<>>
               /\ targets = Doctor!loadTargets(file, <<>>)
               /\ conf.insecure \/ machine.knownHosts = "valid"
    <3>1. targets = Doctor!Loaded /\ ProbeCount # 0 /\ probed = ProbeCount
      BY <1>1, <1>4, <2>1, <2>2, <2>5 DEF ChecksKnown
    <3>2. reached = SubSeq(targets, 1, probed)
      BY <1>1, <2>1 DEF ChecksKnown
    <3>3. reached = Doctor!Probes /\ reached # <<>>
      BY <1>3, <3>1, <3>2
    <3>4. contacted # <<>>
      BY <1>1, <3>3 DEF ContactsKnown
    <3>5. targets # <<>>
      BY <1>2, <3>1
    <3>6. targets = Doctor!loadTargets(file, <<>>)
      BY <2>2, <3>1, <3>5 DEF Doctor!Loaded
    <3> QED
      BY <1>1, <3>3, <3>4, <3>6 DEF ContactsKnown
  <2> QED
    BY <2>1, <2>3, <2>4, <2>5 DEF DoctorTypes
<1>5. ASSUME step = "print", machine.settings = "valid",
             machine.identity = "all" \/ (machine.identity = "some" /\ ~conf.identitySet),
             conf.insecure \/ machine.knownHosts = "valid",
             ~Doctor!HostsFileBad, targets # Doctor!Error
      PROVE  checks \subseteq {<<"ssh", i>> : i \in DOMAIN Doctor!Probes}
  <2>1. Doctor!doctorChecks = {}
    BY <1>5 DEF Doctor!doctorChecks
  <2>2. checks \subseteq {<<"ssh", i>> : i \in 1..probed}
    BY <1>1, <1>5, <2>1 DEF ChecksKnown, Reporting, LocalChecks
  <2>3. DOMAIN Doctor!Probes = 1..ProbeCount
    BY <1>2, <1>3
  <2>4. 1..probed \subseteq 1..ProbeCount
    BY <1>2
  <2> QED
    BY <2>2, <2>3, <2>4
<1>6. Doctor!IsPrefix(contacted, Doctor!Probes) /\ (contacted # <<>> => conf.connect)
  <2>1. PICK k \in 0..Dialed : contacted = SubSeq(targets, 1, k)
    BY <1>1 DEF ContactsKnown
  <2>2. k \in 0..ProbeCount /\ k \in 0..Len(targets)
    BY <1>2
  <2>3. Len(contacted) = k
    BY <1>2, <2>1, <2>2, FirstMore
  <2>4. SubSeq(contacted, 1, k) = SubSeq(Doctor!Probes, 1, k)
    BY <1>2, <1>3, <2>1, <2>2
  <2> QED
    BY <1>1, <1>2, <1>3, <2>2, <2>3, <2>4 DEF Doctor!IsPrefix, ContactsKnown
<1>7. step \in {"print", "returned", "exited"} => open = {}
  BY <1>1 DEF DoctorTypes
<1> QED
  BY <1>4, <1>5, <1>6, <1>7 DEF Doctor!DoctorTruthful

\* An exit code of 0 of doctor means what it says, its checks fail only for what
\* they name, no target beyond the first --limit is contacted, and no connection
\* survives, for files and limits of any size (cli.go:1126-1250, pssh.go:595-621).
THEOREM DoctorKeepsPromise == GopsshSpec => []DoctorTruthful
<1> DEFINE Inv == part = "doctor" => DoctorInv
<1>1. GopsshInit => Inv
  BY DoctorStart DEF GopsshInit
<1>2. Inv /\ [GopsshNext]_gopsshVars => Inv'
  <2> SUFFICES ASSUME Inv, [GopsshNext]_gopsshVars, part' = "doctor"
               PROVE  DoctorInv'
    OBVIOUS
  <2>1. CASE UNCHANGED gopsshVars
    <3>1. /\ UNCHANGED Doctor!given /\ UNCHANGED Doctor!net
          /\ UNCHANGED <<part, step, checks, targets, cause, exitCode>>
      BY <2>1 DEF gopsshVars, doctorVars, Doctor!given, Doctor!net
    <3>2. DoctorInv
      BY <3>1
    <3>3. ExitKnown' /\ (Reporting' => Reporting)
      BY <3>1, <3>2 DEF DoctorInv, ExitKnown, Reporting
    <3> QED
      BY <3>1, <3>2, <3>3, DoctorQuietStep
  <2>2. CASE GopsshNext
    <3>1. part = "doctor" /\ Doctor!Next
      BY <2>2 DEF GopsshNext
    <3> QED
      BY <3>1, DoctorStep
  <2> QED
    BY <2>1, <2>2
<1>3. Inv => DoctorTruthful
  BY DoctorPromises DEF DoctorTruthful
<1> QED
  BY <1>1, <1>2, <1>3, PTL DEF GopsshSpec
-----------------------------------------------------------------------------
(* Authentication                                                           *)

\* One more list behind the others.
LEMMA FlatNext ==
  ASSUME NEW X, NEW n \in Nat, NEW g \in [1..(n + 1) -> Seq(X)]
  PROVE  /\ FlattenSeq([i \in 1..(n + 1) |-> g[i]])
               = FlattenSeq([i \in 1..n |-> g[i]]) \o g[n + 1]
         /\ FlattenSeq([i \in 1..n |-> g[i]]) \in Seq(X)
<1> DEFINE h == [i \in 1..n |-> g[i]]
           k == [i \in 1..(n + 1) |-> g[i]]
<1>1. h \in Seq(Seq(X)) /\ Len(h) = n /\ g[n + 1] \in Seq(X)
  OBVIOUS
<1>2. k \in Seq(Seq(X)) /\ Len(k) = n + 1
  OBVIOUS
<1>3. /\ Append(h, g[n + 1]) \in Seq(Seq(X)) /\ Len(Append(h, g[n + 1])) = n + 1
      /\ \A i \in 1..n : Append(h, g[n + 1])[i] = h[i]
      /\ Append(h, g[n + 1])[n + 1] = g[n + 1]
  <2> HIDE DEF h
  <2> QED
    BY <1>1
<1>4. ASSUME NEW i \in 1..(n + 1) PROVE k[i] = Append(h, g[n + 1])[i]
  <2>1. CASE i \in 1..n
    <3>1. k[i] = h[i]
      BY <2>1
    <3> QED
      BY <1>3, <2>1, <3>1
  <2>2. CASE i = n + 1
    <3>1. k[n + 1] = g[n + 1]
      BY <2>2
    <3> QED
      BY <1>3, <2>2, <3>1
  <2> QED
    BY <2>1, <2>2
<1> HIDE DEF h, k
<1>5. k = Append(h, g[n + 1])
  BY <1>2, <1>3, <1>4, SeqEqual, Zenon
<1>6. FlattenSeq(k) = FlattenSeq(h) \o g[n + 1] /\ FlattenSeq(h) \in Seq(X)
  BY <1>1, <1>5, FlattenAppend, FlattenType
<1> QED
  BY <1>6 DEF h, k

Contents == Keys \cup {"garbage", "missing"}

FileMethods == {Auth!Method("file", <<x>>) : x \in Keys}

MethodOf(x) == IF x \in Keys THEN <<Auth!Method("file", <<x>>)>> ELSE <<>>

LEMMA GetMethods ==
  ASSUME NEW d \in Seq(Contents)
  PROVE  Auth!getIdentFileAuthMethods(d) = FlattenSeq([i \in 1..Len(d) |-> MethodOf(d[i])])
<1>1. DOMAIN d = 1..Len(d)
  OBVIOUS
<1> QED
  BY <1>1 DEF Auth!getIdentFileAuthMethods, MethodOf, Auth!FlattenSeq, FlattenSeq

LEMMA GetNext ==
  ASSUME NEW d \in Seq(Contents), NEW x \in Contents
  PROVE  /\ Auth!getIdentFileAuthMethods(d) \in Seq(FileMethods)
         /\ Auth!getIdentFileAuthMethods(Append(d, x))
               = Auth!getIdentFileAuthMethods(d) \o MethodOf(x)
<1> DEFINE n == Len(d)
           e == Append(d, x)
           g == [i \in 1..(n + 1) |-> MethodOf(e[i])]
<1>1. /\ n \in Nat /\ e \in Seq(Contents) /\ Len(e) = n + 1 /\ e[n + 1] = x
      /\ \A i \in 1..n : e[i] = d[i]
  OBVIOUS
<1> HIDE DEF e
<1>2. g \in [1..(n + 1) -> Seq(FileMethods)]
  <2>1. ASSUME NEW i \in 1..(n + 1) PROVE MethodOf(e[i]) \in Seq(FileMethods)
    <3>1. CASE e[i] \in Keys
      <4>1. Auth!Method("file", <<e[i]>>) \in FileMethods
        BY <3>1 DEF FileMethods
      <4>2. MethodOf(e[i]) = <<Auth!Method("file", <<e[i]>>)>>
        BY <3>1 DEF MethodOf
      <4> QED
        BY <4>1, <4>2
    <3>2. CASE e[i] \notin Keys
      BY <3>2 DEF MethodOf
    <3> QED
      BY <3>1, <3>2
  <2> QED
    BY <2>1
<1>3. /\ FlattenSeq([i \in 1..(n + 1) |-> g[i]])
            = FlattenSeq([i \in 1..n |-> g[i]]) \o g[n + 1]
      /\ FlattenSeq([i \in 1..n |-> g[i]]) \in Seq(FileMethods)
  BY <1>1, <1>2, FlatNext
<1>4. [i \in 1..(n + 1) |-> g[i]] = [i \in 1..(n + 1) |-> MethodOf(e[i])]
  OBVIOUS
<1>5. [i \in 1..n |-> g[i]] = [i \in 1..n |-> MethodOf(d[i])]
  <2>1. \A i \in 1..n : g[i] = MethodOf(d[i])
    BY <1>1
  <2> QED
    BY <2>1, Zenon
<1>6. g[n + 1] = MethodOf(x)
  BY <1>1
<1>7. /\ Auth!getIdentFileAuthMethods(e) = FlattenSeq([i \in 1..(n + 1) |-> MethodOf(e[i])])
      /\ Auth!getIdentFileAuthMethods(d) = FlattenSeq([i \in 1..n |-> MethodOf(d[i])])
  BY <1>1, GetMethods
<1> HIDE DEF g, n
<1>8. /\ Auth!getIdentFileAuthMethods(d) \in Seq(FileMethods)
      /\ Auth!getIdentFileAuthMethods(e) = Auth!getIdentFileAuthMethods(d) \o MethodOf(x)
  BY <1>3, <1>4, <1>5, <1>6, <1>7, Zenon
<1> QED
  BY <1>8 DEF e

\* What the files hold, and the keys in them that are documented to be tried.
KeyIn(f) == IF f.content \in Keys /\ ~f.inner THEN << <<"file", f.content>> >> ELSE <<>>

ContentsTo(fs, n) == FlattenSeq([i \in 1..n |-> Auth!Contents(fs[i])])
UsableTo(fs, n)   == FlattenSeq([i \in 1..n |-> KeyIn(fs[i])])

FileKeys == {<<"file", x>> : x \in Keys}

LEMMA ListsGrow ==
  ASSUME NEW m \in Nat, NEW fs \in [1..m -> Auth!Files], NEW n \in Nat, n < m
  PROVE  /\ ContentsTo(fs, n + 1) = ContentsTo(fs, n) \o Auth!Contents(fs[n + 1])
         /\ ContentsTo(fs, n) \in Seq(Contents)
         /\ UsableTo(fs, n + 1) = UsableTo(fs, n) \o KeyIn(fs[n + 1])
         /\ UsableTo(fs, n) \in Seq(FileKeys)
<1>1. ASSUME NEW i \in 1..(n + 1)
      PROVE  Auth!Contents(fs[i]) \in Seq(Contents) /\ KeyIn(fs[i]) \in Seq(FileKeys)
  <2>1. fs[i] \in Auth!Files /\ fs[i].content \in Contents
    BY DEF Auth!Files, Contents
  <2>2. Auth!Contents(fs[i]) \in Seq(Contents)
    BY <2>1 DEF Auth!Contents
  <2>3. KeyIn(fs[i]) \in Seq(FileKeys)
    <3>1. CASE fs[i].content \in Keys /\ ~fs[i].inner
      <4>1. <<"file", fs[i].content>> \in FileKeys
        BY <3>1 DEF FileKeys
      <4>2. KeyIn(fs[i]) = << <<"file", fs[i].content>> >>
        BY <3>1 DEF KeyIn
      <4> HIDE DEF FileKeys
      <4> QED
        BY <4>1, <4>2
    <3>2. CASE ~(fs[i].content \in Keys /\ ~fs[i].inner)
      BY <3>2 DEF KeyIn
    <3> QED
      BY <3>1, <3>2
  <2> QED
    BY <2>2, <2>3
<1> DEFINE c == [i \in 1..(n + 1) |-> Auth!Contents(fs[i])]
           u == [i \in 1..(n + 1) |-> KeyIn(fs[i])]
<1>2. c \in [1..(n + 1) -> Seq(Contents)] /\ u \in [1..(n + 1) -> Seq(FileKeys)]
  BY <1>1
<1>3. /\ [i \in 1..(n + 1) |-> c[i]] = [i \in 1..(n + 1) |-> Auth!Contents(fs[i])]
      /\ [i \in 1..n |-> c[i]] = [i \in 1..n |-> Auth!Contents(fs[i])]
      /\ c[n + 1] = Auth!Contents(fs[n + 1])
  <2>1. \A i \in 1..n : c[i] = Auth!Contents(fs[i])
    OBVIOUS
  <2>2. n + 1 \in 1..(n + 1)
    OBVIOUS
  <2> QED
    BY <2>1, <2>2, Zenon
<1>4. /\ [i \in 1..(n + 1) |-> u[i]] = [i \in 1..(n + 1) |-> KeyIn(fs[i])]
      /\ [i \in 1..n |-> u[i]] = [i \in 1..n |-> KeyIn(fs[i])]
      /\ u[n + 1] = KeyIn(fs[n + 1])
  <2>1. \A i \in 1..n : u[i] = KeyIn(fs[i])
    OBVIOUS
  <2>2. n + 1 \in 1..(n + 1)
    OBVIOUS
  <2> QED
    BY <2>1, <2>2, Zenon
<1> HIDE DEF c, u
<1>5. /\ FlattenSeq([i \in 1..(n + 1) |-> c[i]])
            = FlattenSeq([i \in 1..n |-> c[i]]) \o c[n + 1]
      /\ FlattenSeq([i \in 1..n |-> c[i]]) \in Seq(Contents)
  BY <1>2, FlatNext
<1>6. /\ FlattenSeq([i \in 1..(n + 1) |-> u[i]])
            = FlattenSeq([i \in 1..n |-> u[i]]) \o u[n + 1]
      /\ FlattenSeq([i \in 1..n |-> u[i]]) \in Seq(FileKeys)
  BY <1>2, FlatNext
<1>7. /\ ContentsTo(fs, n + 1) = ContentsTo(fs, n) \o Auth!Contents(fs[n + 1])
      /\ ContentsTo(fs, n) \in Seq(Contents)
  BY <1>3, <1>5, Zenon DEF ContentsTo
<1>8. /\ UsableTo(fs, n + 1) = UsableTo(fs, n) \o KeyIn(fs[n + 1])
      /\ UsableTo(fs, n) \in Seq(FileKeys)
  BY <1>4, <1>6, Zenon DEF UsableTo
<1> QED
  BY <1>7, <1>8

\* There is one method for each key that is documented to be tried.
MethodsFit(ms, us) ==
    /\ ms \in Seq(FileMethods) /\ us \in Seq(FileKeys) /\ Len(ms) = Len(us)
    /\ \A i \in 1..Len(us) : us[i][2] \in Keys /\ ms[i] = Auth!Method("file", <<us[i][2]>>)

LEMMA MethodsFitNext ==
  ASSUME NEW ms, NEW us, MethodsFit(ms, us), NEW x \in Keys
  PROVE  MethodsFit(Append(ms, Auth!Method("file", <<x>>)), Append(us, <<"file", x>>))
<1> DEFINE a == Auth!Method("file", <<x>>)
           b == <<"file", x>>
<1>1. a \in FileMethods /\ b \in FileKeys /\ b[2] = x
  BY DEF FileMethods, FileKeys
<1>2. /\ ms \in Seq(FileMethods) /\ us \in Seq(FileKeys) /\ Len(ms) = Len(us)
      /\ Len(us) \in Nat
  BY DEF MethodsFit
<1> DEFINE ma == Append(ms, a)
           ub == Append(us, b)
<1>3. /\ ma \in Seq(FileMethods) /\ Len(ma) = Len(us) + 1 /\ ma[Len(us) + 1] = a
      /\ \A i \in 1..Len(us) : ma[i] = ms[i]
  <2> HIDE DEF a, b
  <2> QED
    BY <1>1, <1>2, AppendProperties
<1>4. /\ ub \in Seq(FileKeys) /\ Len(ub) = Len(us) + 1 /\ ub[Len(us) + 1] = b
      /\ \A i \in 1..Len(us) : ub[i] = us[i]
  <2> HIDE DEF a, b
  <2> QED
    BY <1>1, <1>2, AppendProperties
<1>5. ASSUME NEW i \in 1..(Len(us) + 1)
      PROVE  ub[i][2] \in Keys /\ ma[i] = Auth!Method("file", <<ub[i][2]>>)
  <2> HIDE DEF ma, ub
  <2>1. CASE i = Len(us) + 1
    BY <1>1, <1>3, <1>4, <2>1
  <2>2. CASE i \in 1..Len(us)
    BY <1>3, <1>4, <2>2 DEF MethodsFit
  <2> QED
    BY <1>2, <2>1, <2>2
<1> HIDE DEF ma, ub
<1>6. MethodsFit(ma, ub)
  BY <1>3, <1>4, <1>5 DEF MethodsFit
<1> QED
  BY <1>6 DEF ma, ub

LEMMA MethodsAreKeys ==
  ASSUME NEW m \in Nat, NEW fs \in [1..m -> Auth!Files]
  PROVE  MethodsFit(Auth!getIdentFileAuthMethods(ContentsTo(fs, m)), UsableTo(fs, m))
<1> DEFINE ms(n) == Auth!getIdentFileAuthMethods(ContentsTo(fs, n))
           us(n) == UsableTo(fs, n)
           Bad == {n \in 0..m : ~MethodsFit(ms(n), us(n))}
<1>1. Bad = {}
  <2> SUFFICES ASSUME Bad # {} PROVE FALSE
    OBVIOUS
  <2>1. PICK n \in Bad : \A j \in Bad : n <= j
    <3>1. Bad \in SUBSET Nat
      OBVIOUS
    <3> QED
      BY <3>1, LeastExists, Zenon
  <2>2. n \in 0..m /\ ~MethodsFit(ms(n), us(n))
    BY <2>1
  <2>3. CASE n = 0
    <3>1. [i \in 1..0 |-> Auth!Contents(fs[i])] = <<>>
          /\ [i \in 1..0 |-> KeyIn(fs[i])] = <<>>
      OBVIOUS
    <3>2. ContentsTo(fs, 0) = <<>> /\ us(0) = <<>>
      BY <3>1, FlattenEmpty DEF ContentsTo, UsableTo
    <3>3. <<>> \in Seq(Contents) /\ Len(<<>>) = 0
      OBVIOUS
    <3>4. ms(0) = <<>>
      <4>1. ms(0) = FlattenSeq([i \in 1..0 |-> MethodOf(<<>>[i])])
        BY <3>2, <3>3, GetMethods
      <4>2. [i \in 1..0 |-> MethodOf(<<>>[i])] = <<>>
        OBVIOUS
      <4> QED
        BY <4>1, <4>2, FlattenEmpty
    <3>5. MethodsFit(<<>>, <<>>)
      BY DEF MethodsFit
    <3> QED
      BY <2>2, <2>3, <3>2, <3>4, <3>5
  <2>4. CASE n # 0
    <3>1. n - 1 \in Nat /\ n - 1 < m /\ (n - 1) + 1 = n /\ n - 1 \in 0..m /\ ~(n <= n - 1)
          /\ n \in 1..m
      BY <2>2, <2>4
    <3> DEFINE p == n - 1
               f == fs[n]
    <3>2. MethodsFit(ms(p), us(p))
      <4>1. p \notin Bad
        <5> HIDE DEF Bad
        <5> QED
          BY <2>1, <3>1
      <4> HIDE DEF ms, us
      <4> QED
        BY <3>1, <4>1
    <3>3. /\ ContentsTo(fs, n) = ContentsTo(fs, p) \o Auth!Contents(f)
          /\ ContentsTo(fs, p) \in Seq(Contents)
          /\ us(n) = us(p) \o KeyIn(f)
      <4>1. /\ ContentsTo(fs, p + 1) = ContentsTo(fs, p) \o Auth!Contents(fs[p + 1])
            /\ ContentsTo(fs, p) \in Seq(Contents)
            /\ us(p + 1) = us(p) \o KeyIn(fs[p + 1])
        <5>1. p \in Nat /\ p < m
          BY <3>1
        <5> HIDE DEF p
        <5> QED
          BY <5>1, ListsGrow
      <4> QED
        BY <3>1, <4>1
    <3>4. f \in Auth!Files /\ f.content \in Contents
      BY <3>1 DEF Auth!Files, Contents
    <3> HIDE DEF p, f
    <3>5. ContentsTo(fs, p) \o <<>> = ContentsTo(fs, p)
          /\ us(p) \o <<>> = us(p) /\ us(p) \in Seq(FileKeys)
      <4>1. us(p) \in Seq(FileKeys)
        BY <3>2 DEF MethodsFit
      <4> QED
        BY <3>3, <4>1, ConcatEmptySeq
    <3>6. ASSUME Auth!Contents(f) = <<f.content>>
          PROVE  ms(n) = ms(p) \o MethodOf(f.content)
      <4>1. ContentsTo(fs, n) = Append(ContentsTo(fs, p), f.content)
        BY <3>3, <3>4, <3>6, AppendIsConcat
      <4> QED
        BY <3>3, <3>4, <4>1, GetNext
    <3>7. CASE f.content = "missing" \/ f.inner
      <4>1. Auth!Contents(f) = <<>> /\ KeyIn(f) = <<>>
        BY <3>4, <3>7, KeysAssumption DEF Auth!Contents, KeyIn, Auth!Files
      <4> QED
        BY <2>2, <3>2, <3>3, <3>5, <4>1
    <3>8. CASE ~(f.content = "missing" \/ f.inner) /\ f.content \notin Keys
      <4>1. Auth!Contents(f) = <<f.content>> /\ KeyIn(f) = <<>> /\ MethodOf(f.content) = <<>>
        BY <3>8 DEF Auth!Contents, KeyIn, MethodOf
      <4>2. ms(p) \o <<>> = ms(p)
        <5>1. ms(p) \in Seq(FileMethods)
          BY <3>2 DEF MethodsFit
        <5> QED
          BY <5>1, ConcatEmptySeq
      <4> QED
        BY <2>2, <3>2, <3>3, <3>5, <3>6, <4>1, <4>2
    <3>9. CASE ~(f.content = "missing" \/ f.inner) /\ f.content \in Keys
      <4> DEFINE x == f.content
                 a == Auth!Method("file", <<x>>)
                 b == <<"file", x>>
      <4>1. Auth!Contents(f) = <<x>> /\ KeyIn(f) = <<b>> /\ MethodOf(x) = <<a>>
        BY <3>9 DEF Auth!Contents, KeyIn, MethodOf
      <4>2. a \in FileMethods /\ b \in FileKeys
        BY <3>9 DEF FileMethods, FileKeys
      <4>3. ms(p) \o <<a>> = Append(ms(p), a) /\ us(p) \o <<b>> = Append(us(p), b)
        <5>1. ms(p) \in Seq(FileMethods)
          BY <3>2 DEF MethodsFit
        <5> HIDE DEF a, b, ms, us
        <5> QED
          BY <3>5, <4>2, <5>1, AppendIsConcat
      <4>4. MethodsFit(Append(ms(p), a), Append(us(p), b))
        BY <3>2, <3>9, MethodsFitNext
      <4> QED
        BY <2>2, <3>3, <3>6, <4>1, <4>3, <4>4
    <3> QED
      BY <3>7, <3>8, <3>9
  <2> QED
    BY <2>3, <2>4
<1>2. m \in 0..m
  OBVIOUS
<1> QED
  BY <1>1, <1>2

-----------------------------------------------------------------------------
AuthSteps == {"read", "merge", "client", "offer", "authenticated", "failed", "disconnected"}

Sourced == {"agent", "file"} \X Keys

AllContents == ContentsTo(files, Len(files))
Usable      == UsableTo(files, Len(files))
Listed      == [i \in DOMAIN agent.keys |-> <<"agent", agent.keys[i]>>]

AuthTypes ==
    /\ files \in Seq(Auth!Files) /\ agent.keys \in Seq(Keys)
    /\ ~agent.up => agent.keys = <<>>
    /\ step \in AuthSteps /\ tried \subseteq {"publickey"}
    /\ signers \in Seq(Sourced) /\ offered \in Seq(Sourced)

\* The agent comes first, unless it is disabled.
AgentFirst == ~conf.identitiesOnly /\ conf.socket

\* The keys of the first method.
FirstOffers == IF AgentFirst THEN Listed
               ELSE IF Usable = <<>> THEN <<>> ELSE <<Usable[1]>>

AuthKnown ==
    /\ step \in {"read", "merge"} => tried = {} /\ offered = <<>>
    /\ step = "merge" => identFileData = AllContents
    /\ step \notin {"read", "merge"} =>
          auth = Auth!mergeAuthMethods(Auth!getIdentFileAuthMethods(AllContents))
    /\ step = "client" /\ tried = {} => offered = <<>>

RefusedTo(n) == \A i \in 1..n : offered[i][2] \notin authorized

OffersKnown ==
    /\ \E rest \in Seq(Sourced) : offered \o rest = FirstOffers
    /\ RefusedTo(Len(offered) - 1)
    /\ step = "offer" =>
          tried = {} /\ offered \o signers = FirstOffers /\ RefusedTo(Len(offered))
    /\ step = "authenticated" =>
          offered # <<>> /\ offered[Len(offered)][2] \in authorized
    /\ step = "failed" \/ (step = "client" /\ tried # {}) =>
          \/ offered # <<>>
          \/ IF AgentFirst THEN agent.keys = <<>> ELSE Usable = <<>>

AuthInv == AuthTypes /\ AuthKnown /\ OffersKnown

LEMMA UsableFits ==
  ASSUME AuthTypes
  PROVE  /\ MethodsFit(Auth!getIdentFileAuthMethods(AllContents), Usable)
         /\ Usable \in Seq(FileKeys)
<1>1. Len(files) \in Nat /\ files \in [1..Len(files) -> Auth!Files]
  BY DEF AuthTypes
<1>2. MethodsFit(Auth!getIdentFileAuthMethods(AllContents), Usable)
  BY <1>1, MethodsAreKeys DEF AllContents, Usable
<1> QED
  BY <1>2 DEF MethodsFit

LEMMA ListedType ==
  ASSUME AuthTypes
  PROVE  /\ Listed \in Seq(Sourced) /\ Len(Listed) = Len(agent.keys)
         /\ \A i \in 1..Len(agent.keys) : Listed[i] = <<"agent", agent.keys[i]>>
<1>1. /\ DOMAIN agent.keys = 1..Len(agent.keys) /\ Len(agent.keys) \in Nat
      /\ \A i \in 1..Len(agent.keys) : agent.keys[i] \in Keys
  BY DEF AuthTypes
<1>2. \A i \in 1..Len(agent.keys) : <<"agent", agent.keys[i]>> \in Sourced
  BY <1>1 DEF Sourced
<1>3. Listed = [i \in 1..Len(agent.keys) |-> <<"agent", agent.keys[i]>>]
  BY <1>1 DEF Listed
<1> HIDE DEF Sourced
<1> QED
  BY <1>1, <1>2, <1>3

LEMMA FileKeysSourced ==
  ASSUME NEW u \in Seq(FileKeys)
  PROVE  u \in Seq(Sourced)
<1>1. FileKeys \subseteq Sourced
  BY DEF FileKeys, Sourced
<1> QED
  BY <1>1, SeqMonotonic

LEMMA FirstType == ASSUME AuthTypes PROVE FirstOffers \in Seq(Sourced)
<1>1. CASE AgentFirst
  BY <1>1, ListedType DEF FirstOffers
<1>2. CASE ~AgentFirst
  <2>1. Usable \in Seq(Sourced)
    BY UsableFits, FileKeysSourced
  <2>2. CASE Usable = <<>>
    BY <1>2, <2>2 DEF FirstOffers
  <2>3. CASE Usable # <<>>
    <3>1. Usable[1] \in Sourced
      BY <2>1, <2>3
    <3>2. FirstOffers = <<Usable[1]>>
      BY <1>2, <2>3 DEF FirstOffers
    <3> QED
      BY <3>1, <3>2
  <2> QED
    BY <2>2, <2>3
<1> QED
  BY <1>1, <1>2

\* The first method, once the list is made.
LEMMA FirstMethod ==
  ASSUME AuthTypes, AuthKnown, step \notin {"read", "merge"}
  PROVE  /\ Len(auth) \in Nat /\ DOMAIN auth = 1..Len(auth)
         /\ \A i \in 1..Len(auth) : auth[i].name = "publickey"
         /\ Len(auth) = 0 => ~AgentFirst /\ Usable = <<>>
         /\ Len(auth) # 0 =>
              /\ AgentFirst => auth[1] = Auth!Method("agent", agent.keys)
              /\ ~AgentFirst => /\ Usable # <<>> /\ Usable[1][2] \in Keys
                                /\ auth[1] = Auth!Method("file", <<Usable[1][2]>>)
<1> DEFINE ms == Auth!getIdentFileAuthMethods(AllContents)
           am == Auth!Method("agent", agent.keys)
           X == FileMethods \cup {am}
<1>1. auth = (IF conf.identitiesOnly THEN <<>> ELSE Auth!sshKeyAgentCallback) \o ms
  BY DEF AuthKnown, Auth!mergeAuthMethods
<1>2. /\ ms \in Seq(FileMethods) /\ Len(ms) = Len(Usable) /\ Usable \in Seq(FileKeys)
      /\ \A i \in 1..Len(Usable) : Usable[i][2] \in Keys
                                   /\ ms[i] = Auth!Method("file", <<Usable[i][2]>>)
  BY UsableFits DEF MethodsFit
<1>3. \A x \in X : x.name = "publickey"
  BY DEF FileMethods, Auth!Method
<1>4. ms \in Seq(X) /\ am \in X
  BY <1>2, SeqMonotonic
<1> HIDE DEF ms, am, X
<1>5. CASE AgentFirst
  <2>1. auth = <<am>> \o ms
    BY <1>1, <1>5 DEF AgentFirst, Auth!sshKeyAgentCallback, am
  <2>2. auth \in Seq(X) /\ Len(auth) = 1 + Len(ms) /\ auth[1] = am
    BY <1>4, <2>1
  <2> QED
    BY <1>3, <1>4, <1>5, <2>2 DEF am
<1>6. CASE ~AgentFirst
  <2>1. auth = <<>> \o ms
    BY <1>1, <1>6 DEF AgentFirst, Auth!sshKeyAgentCallback
  <2>2. auth = ms
    BY <1>2, <2>1, ConcatEmptySeq
  <2>3. auth \in Seq(X)
    BY <1>4, <2>2
  <2>4. Len(auth) # 0 => 1 \in 1..Len(Usable) /\ Usable # <<>>
    BY <1>2, <2>2
  <2>5. Len(auth) = 0 => Usable = <<>>
    <3>1. \A u \in Seq(FileKeys) : Len(u) = 0 => u = <<>>
      OBVIOUS
    <3>2. Len(auth) = Len(Usable)
      BY <1>2, <2>2
    <3> QED
      BY <1>2, <3>1, <3>2
  <2> QED
    BY <1>2, <1>3, <1>6, <2>2, <2>3, <2>4, <2>5
<1> QED
  BY <1>5, <1>6

\* All methods have one name: while none was tried, the first one is next.
LEMMA NextMethod ==
  ASSUME AuthTypes, AuthKnown, step \notin {"read", "merge"}
  PROVE  /\ Auth!Untried # {} => tried = {} /\ Len(auth) # 0 /\ Auth!Min(Auth!Untried) = 1
         /\ Auth!Untried = {} => tried # {} \/ Len(auth) = 0
<1>1. /\ Len(auth) \in Nat /\ DOMAIN auth = 1..Len(auth)
      /\ \A i \in 1..Len(auth) : auth[i].name = "publickey"
  BY FirstMethod
<1>2. tried \subseteq {"publickey"}
  BY DEF AuthTypes
<1>3. CASE tried = {}
  <2>1. Auth!Untried = 1..Len(auth)
    BY <1>1, <1>3 DEF Auth!Untried
  <2>2. ASSUME Len(auth) # 0 PROVE Auth!Min(Auth!Untried) = 1
    <3>1. 1 \in 1..Len(auth) /\ \A j \in 1..Len(auth) : 1 <= j
      BY <1>1, <2>2
    <3>2. \A x \in 1..Len(auth) : x <= 1 => x = 1
      OBVIOUS
    <3>3. \E x \in 1..Len(auth) : \A y \in 1..Len(auth) : x <= y
      BY <3>1
    <3>4. /\ Auth!Min(1..Len(auth)) \in 1..Len(auth)
          /\ \A y \in 1..Len(auth) : Auth!Min(1..Len(auth)) <= y
      BY <3>3, Zenon DEF Auth!Min
    <3>5. Auth!Min(1..Len(auth)) = 1
      BY <3>1, <3>2, <3>4
    <3> QED
      BY <2>1, <3>5
  <2>3. Auth!Untried # {} => Len(auth) # 0
    BY <1>1, <2>1
  <2>4. Auth!Untried = {} => Len(auth) = 0
    BY <1>1, <2>1
  <2> QED
    BY <1>3, <2>2, <2>3, <2>4
<1>4. CASE tried # {}
  <2>1. "publickey" \in tried
    BY <1>2, <1>4
  <2>2. Auth!Untried = {}
    BY <1>1, <2>1 DEF Auth!Untried
  <2> QED
    BY <1>4, <2>2
<1> QED
  BY <1>3, <1>4

\* Nothing but the progress of the client changes.
AuthFixed == UNCHANGED <<conf, files, agent, authorized>>

LEMMA AuthSame ==
  ASSUME AuthFixed
  PROVE  /\ AllContents' = AllContents /\ Usable' = Usable /\ Listed' = Listed
         /\ FirstOffers' = FirstOffers /\ (AgentFirst' <=> AgentFirst)
<1>1. conf' = conf /\ files' = files /\ agent' = agent
  BY DEF AuthFixed
<1>2. AllContents' = AllContents /\ Usable' = Usable /\ Listed' = Listed
      /\ (AgentFirst' <=> AgentFirst)
  BY <1>1 DEF AllContents, Usable, Listed, AgentFirst
<1> QED
  BY <1>2 DEF FirstOffers

LEMMA OfferOne ==
  ASSUME NEW X, NEW s \in Seq(X), NEW t \in Seq(X), t # <<>>
  PROVE  /\ Append(s, Head(t)) \o Tail(t) = s \o t
         /\ Append(s, Head(t)) \in Seq(X) /\ Len(Append(s, Head(t))) = Len(s) + 1
         /\ \A i \in 1..Len(s) : Append(s, Head(t))[i] = s[i]
         /\ Append(s, Head(t))[Len(s) + 1] = Head(t)
         /\ Head(t) \in X /\ Tail(t) \in Seq(X) /\ Len(s) \in Nat
<1> DEFINE h == Head(t)
           r == Tail(t)
<1>1. h \in X /\ r \in Seq(X) /\ t = <<h>> \o r
  <2>1. h \in X /\ r \in Seq(X) /\ Len(t) \in Nat \ {0} /\ Len(r) = Len(t) - 1
        /\ h = t[1] /\ \A i \in 1..Len(r) : r[i] = t[i + 1]
    OBVIOUS
  <2> HIDE DEF h, r
  <2>2. <<h>> \o r \in Seq(X) /\ Len(<<h>> \o r) = Len(t)
        /\ \A i \in 1..Len(t) : (<<h>> \o r)[i] = IF i = 1 THEN h ELSE r[i - 1]
    BY <2>1
  <2>3. ASSUME NEW i \in 1..Len(t) PROVE t[i] = (<<h>> \o r)[i]
    <3>1. CASE i = 1
      BY <2>1, <2>2, <3>1
    <3>2. CASE i # 1
      <4>1. i - 1 \in 1..Len(r) /\ (i - 1) + 1 = i
        BY <2>1, <3>2
      <4> QED
        BY <2>1, <2>2, <3>2, <4>1
    <3> QED
      BY <3>1, <3>2
  <2>4. t = <<h>> \o r
    BY <2>2, <2>3, SeqEqual
  <2> QED
    BY <2>1, <2>4
<1> HIDE DEF h, r
<1>2. Append(s, h) = s \o <<h>> /\ <<h>> \in Seq(X)
  BY <1>1
<1>3. (s \o <<h>>) \o r = s \o (<<h>> \o r)
  BY <1>1, <1>2, ConcatAssociative
<1>4. Append(s, h) \o r = s \o t
  BY <1>1, <1>2, <1>3
<1>5. /\ Append(s, h) \in Seq(X) /\ Len(Append(s, h)) = Len(s) + 1
      /\ \A i \in 1..Len(s) : Append(s, h)[i] = s[i]
      /\ Append(s, h)[Len(s) + 1] = h /\ Len(s) \in Nat
  BY <1>1, AppendProperties
<1> QED
  BY <1>1, <1>4, <1>5 DEF h, r

\* What a key that is offered adds.
LEMMA OfferAdds ==
  ASSUME AuthTypes, OffersKnown, step = "offer", signers # <<>>, Auth!Offer,
         authorized' = authorized
  PROVE  /\ offered' \in Seq(Sourced) /\ Tail(signers) \in Seq(Sourced)
         /\ offered' \o Tail(signers) = FirstOffers
         /\ offered' # <<>> /\ Len(offered') \in Nat
         /\ offered'[Len(offered')] = Head(signers)
         /\ \A i \in 1..(Len(offered') - 1) : offered'[i][2] \notin authorized
<1>1. /\ offered \in Seq(Sourced) /\ signers \in Seq(Sourced)
      /\ offered \o signers = FirstOffers /\ RefusedTo(Len(offered))
      /\ offered' = Append(offered, Head(signers))
  BY DEF AuthTypes, OffersKnown, Auth!Offer
<1>2. /\ offered' \o Tail(signers) = offered \o signers
      /\ offered' \in Seq(Sourced) /\ Len(offered') = Len(offered) + 1
      /\ \A i \in 1..Len(offered) : offered'[i] = offered[i]
      /\ offered'[Len(offered) + 1] = Head(signers)
      /\ Tail(signers) \in Seq(Sourced) /\ Len(offered) \in Nat
  BY <1>1, OfferOne
<1>3. offered' # <<>> /\ Len(offered') - 1 = Len(offered)
  BY <1>2
<1> QED
  BY <1>1, <1>2, <1>3 DEF RefusedTo

LEMMA AuthReadStep == ASSUME AuthInv, Auth!ReadIdentFiles PROVE AuthInv'
<1>1. /\ step = "read" /\ step' = "merge" /\ AuthFixed
      /\ UNCHANGED <<auth, tried, signers, offered>>
  BY DEF Auth!ReadIdentFiles, Auth!machine, AuthFixed
<1>2. identFileData' = AllContents
  <2>1. DOMAIN files = 1..Len(files)
    BY DEF AuthInv, AuthTypes
  <2> QED
    BY <2>1 DEF Auth!ReadIdentFiles, AllContents, ContentsTo, Auth!FlattenSeq, FlattenSeq
<1>3. AuthTypes'
  BY <1>1 DEF AuthInv, AuthTypes, AuthFixed, AuthSteps
<1>4. AuthKnown'
  BY <1>1, <1>2, AuthSame DEF AuthInv, AuthKnown
<1>5. OffersKnown'
  BY <1>1, AuthSame DEF AuthInv, OffersKnown, RefusedTo, AuthFixed
<1> QED
  BY <1>3, <1>4, <1>5 DEF AuthInv

LEMMA AuthMergeStep == ASSUME AuthInv, Auth!MergeAuth PROVE AuthInv'
<1>1. /\ step = "merge" /\ step' = "client" /\ AuthFixed
      /\ auth' = Auth!mergeAuthMethods(Auth!getIdentFileAuthMethods(identFileData))
      /\ UNCHANGED <<identFileData, tried, signers, offered>>
  BY DEF Auth!MergeAuth, Auth!machine, AuthFixed
<1>2. identFileData = AllContents /\ tried = {} /\ offered = <<>>
  BY <1>1 DEF AuthInv, AuthKnown
<1>3. AuthTypes'
  BY <1>1 DEF AuthInv, AuthTypes, AuthFixed, AuthSteps
<1>4. AuthKnown'
  <2>1. Auth!mergeAuthMethods(Auth!getIdentFileAuthMethods(AllContents))'
           = Auth!mergeAuthMethods(Auth!getIdentFileAuthMethods(AllContents))
    <3>1. conf' = conf /\ agent' = agent /\ files' = files
      BY <1>1 DEF AuthFixed
    <3> QED
      BY <3>1 DEF Auth!mergeAuthMethods, Auth!getIdentFileAuthMethods, AllContents,
                  Auth!sshKeyAgentCallback
  <2> QED
    BY <1>1, <1>2, <2>1 DEF AuthKnown
<1>5. OffersKnown'
  <2>1. tried' = {} /\ step' # "offer" /\ step' # "authenticated" /\ step' # "failed"
    BY <1>1, <1>2
  <2> QED
    BY <1>1, <2>1, AuthSame DEF AuthInv, OffersKnown, RefusedTo, AuthFixed
<1> QED
  BY <1>3, <1>4, <1>5 DEF AuthInv

\* After the list is made it stays.
LEMMA AuthListKept ==
  ASSUME AuthInv, step \in {"client", "offer"}, AuthFixed, auth' = auth,
         step' \notin {"read", "merge"},
         step' = "client" /\ tried' = {} => offered' = <<>>
  PROVE  AuthKnown'
<1>1. auth = Auth!mergeAuthMethods(Auth!getIdentFileAuthMethods(AllContents))
  BY DEF AuthInv, AuthKnown
<1>2. Auth!mergeAuthMethods(Auth!getIdentFileAuthMethods(AllContents))'
         = Auth!mergeAuthMethods(Auth!getIdentFileAuthMethods(AllContents))
  <2>1. conf' = conf /\ agent' = agent /\ files' = files
    BY DEF AuthFixed
  <2> QED
    BY <2>1 DEF Auth!mergeAuthMethods, Auth!getIdentFileAuthMethods, AllContents,
                Auth!sshKeyAgentCallback
<1> QED
  BY <1>1, <1>2 DEF AuthKnown

LEMMA AuthTryStep == ASSUME AuthInv, Auth!TryMethod PROVE AuthInv'
<1>1. /\ step = "client" /\ Auth!Untried # {} /\ AuthFixed
      /\ UNCHANGED <<identFileData, auth, offered>>
  BY DEF Auth!TryMethod, Auth!machine, AuthFixed
<1> DEFINE m == auth[Auth!Min(Auth!Untried)]
<1>2. AuthTypes /\ AuthKnown /\ OffersKnown
  BY DEF AuthInv
<1>3. tried = {} /\ Len(auth) # 0 /\ m = auth[1] /\ offered = <<>>
  <2>1. tried = {} /\ Len(auth) # 0 /\ Auth!Min(Auth!Untried) = 1
    BY <1>1, <1>2, NextMethod
  <2> QED
    BY <1>1, <1>2, <2>1 DEF AuthKnown
<1>4. /\ m.name = "publickey"
      /\ AgentFirst => m.source = "agent" /\ m.keys = agent.keys
      /\ ~AgentFirst => /\ m.source = "file" /\ Usable # <<>> /\ Usable[1][2] \in Keys
                        /\ m.keys = <<Usable[1][2]>>
  BY <1>1, <1>2, <1>3, FirstMethod DEF Auth!Method
<1>5. IF m.source = "agent" /\ ~agent.up
      THEN Auth!MethodFails(m.name)
      ELSE /\ signers' = [i \in DOMAIN m.keys |-> <<m.source, m.keys[i]>>]
           /\ step' = "offer" /\ UNCHANGED tried
  BY DEF Auth!TryMethod
<1> HIDE DEF m
<1>6. CASE m.source = "agent" /\ ~agent.up
  <2>1. tried' = {"publickey"} /\ signers' = <<>> /\ step' = "client"
    BY <1>3, <1>4, <1>5, <1>6 DEF Auth!MethodFails
  <2>2. AgentFirst /\ agent.keys = <<>>
    BY <1>2, <1>4, <1>6 DEF AuthTypes
  <2>3. AuthTypes'
    <3>1. <<>> \in Seq(Sourced)
      OBVIOUS
    <3> QED
      BY <1>1, <1>2, <2>1, <3>1 DEF AuthTypes, AuthFixed, AuthSteps
  <2>4. AuthKnown'
    BY <1>1, <2>1, AuthListKept
  <2>5. OffersKnown'
    <3>1. agent' = agent
      BY <1>1 DEF AuthFixed
    <3> QED
      BY <1>1, <1>2, <2>1, <2>2, <3>1, AuthSame DEF OffersKnown, RefusedTo, AuthFixed
  <2> QED
    BY <2>3, <2>4, <2>5 DEF AuthInv
<1>7. CASE ~(m.source = "agent" /\ ~agent.up)
  <2>1. /\ signers' = [i \in DOMAIN m.keys |-> <<m.source, m.keys[i]>>]
        /\ step' = "offer" /\ tried' = tried
    BY <1>5, <1>7
  <2>2. signers' = FirstOffers
    <3>1. CASE AgentFirst
      BY <1>4, <2>1, <3>1 DEF FirstOffers, Listed
    <3>2. CASE ~AgentFirst
      <4>1. Usable[1] \in FileKeys
        <5>1. \A u \in Seq(FileKeys) : u # <<>> => u[1] \in FileKeys
          OBVIOUS
        <5> QED
          BY <1>2, <1>4, <3>2, <5>1, UsableFits
      <4>2. Usable[1] = <<"file", Usable[1][2]>>
        BY <4>1 DEF FileKeys
      <4>3. FirstOffers = <<Usable[1]>>
        BY <1>4, <3>2 DEF FirstOffers
      <4> DEFINE x == Usable[1][2]
      <4>4. signers' = [i \in DOMAIN <<x>> |-> <<"file", <<x>>[i]>>]
        BY <1>4, <2>1, <3>2
      <4> HIDE DEF x
      <4>5. [i \in DOMAIN <<x>> |-> <<"file", <<x>>[i]>>] = << <<"file", x>> >>
        OBVIOUS
      <4> QED
        BY <4>2, <4>3, <4>4, <4>5 DEF x
    <3> QED
      BY <3>1, <3>2
  <2>3. FirstOffers \in Seq(Sourced)
    BY <1>2, FirstType
  <2>4. AuthTypes'
    BY <1>1, <1>2, <2>1, <2>2, <2>3 DEF AuthTypes, AuthFixed, AuthSteps
  <2>5. AuthKnown'
    BY <1>1, <2>1, AuthListKept
  <2>6. OffersKnown'
    <3>1. offered' \o signers' = FirstOffers'
      <4>1. offered' = <<>> /\ FirstOffers' = FirstOffers
        BY <1>1, <1>3, AuthSame
      <4> QED
        BY <2>2, <2>3, <4>1, ConcatEmptySeq
    <3>2. RefusedTo(Len(offered))' /\ RefusedTo(Len(offered) - 1)'
      <4>1. offered' = <<>> /\ Len(<<>>) = 0
        BY <1>1, <1>3
      <4> QED
        BY <4>1 DEF RefusedTo
    <3>3. signers' \in Seq(Sourced)
      BY <2>2, <2>3
    <3> QED
      BY <1>3, <2>1, <3>1, <3>2, <3>3 DEF OffersKnown
  <2> QED
    BY <2>4, <2>5, <2>6 DEF AuthInv
<1> QED
  BY <1>6, <1>7

\* A key is offered, and the connection goes on or ends with it.
LEMMA AuthOfferStep ==
  ASSUME AuthInv, Auth!Refused \/ Auth!Accepted \/ Auth!SignFails
  PROVE  AuthInv'
<1>1. /\ step = "offer" /\ signers # <<>> /\ Auth!Offer /\ AuthFixed
      /\ UNCHANGED <<identFileData, auth>>
  BY DEF Auth!Refused, Auth!Accepted, Auth!SignFails, Auth!machine, AuthFixed
<1>2. AuthTypes /\ AuthKnown /\ OffersKnown /\ authorized' = authorized /\ tried = {}
  BY <1>1 DEF AuthInv, AuthFixed, OffersKnown
<1>3. /\ offered' \in Seq(Sourced) /\ Tail(signers) \in Seq(Sourced)
      /\ offered' \o Tail(signers) = FirstOffers
      /\ offered' # <<>> /\ Len(offered') \in Nat
      /\ offered'[Len(offered')] = Head(signers)
      /\ \A i \in 1..(Len(offered') - 1) : offered'[i][2] \notin authorized
  BY <1>1, <1>2, OfferAdds
<1>4. \/ /\ Head(signers)[2] \notin authorized /\ signers' = Tail(signers)
         /\ step' = "offer" /\ tried' = {}
      \/ /\ Head(signers)[2] \in authorized /\ signers' = signers
         /\ step' = "authenticated" /\ tried' = {}
      \/ signers' = <<>> /\ step' = "client" /\ tried' = {"publickey"}
  <2>1. CASE Auth!Refused
    BY <1>1, <1>2, <2>1 DEF Auth!Refused
  <2>2. CASE Auth!Accepted
    BY <1>1, <1>2, <2>2 DEF Auth!Accepted
  <2>3. CASE Auth!SignFails
    BY <1>1, <1>2, <2>3 DEF Auth!SignFails, Auth!MethodFails
  <2> QED
    BY <2>1, <2>2, <2>3
<1>5. AuthTypes'
  <2>1. signers' \in Seq(Sourced)
    <3>1. <<>> \in Seq(Sourced)
      OBVIOUS
    <3> QED
      BY <1>2, <1>3, <1>4, <3>1 DEF AuthTypes
  <2>2. tried' \subseteq {"publickey"} /\ step' \in AuthSteps
    BY <1>4 DEF AuthSteps
  <2> QED
    BY <1>1, <1>2, <1>3, <2>1, <2>2 DEF AuthTypes, AuthFixed
<1>6. AuthKnown'
  BY <1>1, <1>4, AuthListKept
<1>7. OffersKnown'
  <2>1. \E rest \in Seq(Sourced) : offered' \o rest = FirstOffers'
    BY <1>1, <1>3, AuthSame
  <2>2. RefusedTo(Len(offered) - 1)'
    BY <1>2, <1>3 DEF RefusedTo
  <2>3. step' = "offer" =>
           tried' = {} /\ offered' \o signers' = FirstOffers' /\ RefusedTo(Len(offered))'
    <3> SUFFICES ASSUME step' = "offer"
                 PROVE  /\ tried' = {} /\ offered' \o signers' = FirstOffers'
                        /\ RefusedTo(Len(offered))'
      OBVIOUS
    <3>1. Head(signers)[2] \notin authorized /\ signers' = Tail(signers) /\ tried' = {}
      BY <1>4
    <3>2. ASSUME NEW i \in 1..Len(offered') PROVE offered'[i][2] \notin authorized
      <4>1. i = Len(offered') \/ i \in 1..(Len(offered') - 1)
        BY <1>3
      <4> QED
        BY <1>3, <3>1, <4>1
    <3>3. RefusedTo(Len(offered))'
      BY <1>2, <3>2 DEF RefusedTo
    <3> QED
      BY <1>1, <1>3, <3>1, <3>3, AuthSame
  <2>4. step' = "authenticated" =>
           offered' # <<>> /\ offered'[Len(offered')][2] \in authorized'
    BY <1>2, <1>3, <1>4
  <2> QED
    BY <1>3, <2>1, <2>2, <2>3, <2>4 DEF OffersKnown
<1> QED
  BY <1>5, <1>6, <1>7 DEF AuthInv

\* The first method has no key left.
LEMMA AuthRefusedStep == ASSUME AuthInv, Auth!AllRefused PROVE AuthInv'
<1>1. /\ step = "offer" /\ signers = <<>> /\ AuthFixed
      /\ UNCHANGED <<identFileData, auth, offered>>
      /\ tried' = tried \cup {"publickey"} /\ signers' = <<>> /\ step' = "client"
  BY DEF Auth!AllRefused, Auth!MethodFails, Auth!machine, AuthFixed
<1>2. /\ AuthTypes /\ OffersKnown /\ tried = {} /\ offered \o signers = FirstOffers
      /\ offered \in Seq(Sourced)
  BY <1>1 DEF AuthInv, AuthTypes, OffersKnown
<1>3. FirstOffers = offered
  BY <1>1, <1>2, ConcatEmptySeq
<1>4. offered # <<>> \/ IF AgentFirst THEN agent.keys = <<>> ELSE Usable = <<>>
  <2> SUFFICES ASSUME offered = <<>>
               PROVE  IF AgentFirst THEN agent.keys = <<>> ELSE Usable = <<>>
    OBVIOUS
  <2>1. CASE AgentFirst
    <3>1. Listed = <<>> /\ agent.keys \in Seq(Keys) /\ Len(Listed) = Len(agent.keys)
      BY <1>2, <1>3, <2>1, ListedType DEF FirstOffers, AuthTypes
    <3>2. \A u \in Seq(Keys) : Len(u) = Len(<<>>) => u = <<>>
      OBVIOUS
    <3> QED
      BY <2>1, <3>1, <3>2
  <2>2. CASE ~AgentFirst
    <3>1. Usable # <<>> => <<Usable[1]>> = <<>>
      BY <1>3, <2>2 DEF FirstOffers
    <3>2. <<Usable[1]>> # <<>>
      OBVIOUS
    <3> QED
      BY <2>2, <3>1, <3>2
  <2> QED
    BY <2>1, <2>2
<1>5. AuthTypes'
  BY <1>1, <1>2 DEF AuthTypes, AuthFixed, AuthSteps
<1>6. AuthKnown'
  BY <1>1, <1>2, AuthListKept
<1>7. OffersKnown'
  <2>1. agent' = agent /\ authorized' = authorized
    BY <1>1 DEF AuthFixed
  <2> QED
    BY <1>1, <1>2, <1>4, <2>1, AuthSame DEF OffersKnown, RefusedTo
<1> QED
  BY <1>5, <1>6, <1>7 DEF AuthInv

LEMMA AuthNoneStep == ASSUME AuthInv, Auth!NoMethodLeft PROVE AuthInv'
<1>1. /\ step = "client" /\ Auth!Untried = {} /\ step' = "failed" /\ AuthFixed
      /\ UNCHANGED <<identFileData, auth, tried, signers, offered>>
  BY DEF Auth!NoMethodLeft, Auth!machine, AuthFixed
<1>2. AuthTypes /\ AuthKnown /\ OffersKnown
  BY DEF AuthInv
<1>3. offered # <<>> \/ IF AgentFirst THEN agent.keys = <<>> ELSE Usable = <<>>
  <2>1. tried # {} \/ Len(auth) = 0
    BY <1>1, <1>2, NextMethod
  <2>2. Len(auth) = 0 => ~AgentFirst /\ Usable = <<>>
    BY <1>1, <1>2, FirstMethod
  <2> QED
    BY <1>1, <1>2, <2>1, <2>2 DEF OffersKnown
<1>4. AuthTypes'
  BY <1>1, <1>2 DEF AuthTypes, AuthFixed, AuthSteps
<1>5. AuthKnown'
  BY <1>1, AuthListKept
<1>6. OffersKnown'
  <2>1. agent' = agent /\ authorized' = authorized
    BY <1>1 DEF AuthFixed
  <2> QED
    BY <1>1, <1>2, <1>3, <2>1, AuthSame DEF OffersKnown, RefusedTo
<1> QED
  BY <1>4, <1>5, <1>6 DEF AuthInv

LEMMA AuthEndedStep == ASSUME AuthInv, Auth!Disconnected PROVE AuthInv'
<1>1. /\ step = "offer" /\ step' = "disconnected" /\ AuthFixed
      /\ UNCHANGED <<identFileData, auth, tried, signers, offered>>
  BY DEF Auth!Disconnected, Auth!machine, AuthFixed
<1>2. AuthTypes /\ AuthKnown /\ OffersKnown
  BY DEF AuthInv
<1>3. AuthTypes'
  BY <1>1, <1>2 DEF AuthTypes, AuthFixed, AuthSteps
<1>4. AuthKnown'
  BY <1>1, AuthListKept
<1>5. OffersKnown'
  BY <1>1, <1>2, AuthSame DEF OffersKnown, RefusedTo, AuthFixed
<1> QED
  BY <1>3, <1>4, <1>5 DEF AuthInv

LEMMA AuthStutter == ASSUME AuthInv, UNCHANGED Auth!vars PROVE AuthInv'
<1>1. /\ AuthFixed /\ UNCHANGED <<step, identFileData, auth, tried, signers, offered>>
  BY DEF Auth!vars, Auth!machine, AuthFixed
<1>2. AuthTypes /\ AuthKnown /\ OffersKnown
  BY DEF AuthInv
<1>3. conf' = conf /\ agent' = agent /\ files' = files /\ authorized' = authorized
  BY <1>1 DEF AuthFixed
<1>4. AuthTypes'
  BY <1>1, <1>2, <1>3 DEF AuthTypes
<1>5. AuthKnown'
  <2>1. Auth!mergeAuthMethods(Auth!getIdentFileAuthMethods(AllContents))'
           = Auth!mergeAuthMethods(Auth!getIdentFileAuthMethods(AllContents))
    BY <1>3 DEF Auth!mergeAuthMethods, Auth!getIdentFileAuthMethods, AllContents,
                Auth!sshKeyAgentCallback
  <2> QED
    BY <1>1, <1>2, <2>1, AuthSame DEF AuthKnown
<1>6. OffersKnown'
  BY <1>1, <1>2, <1>3, AuthSame DEF OffersKnown, RefusedTo
<1> QED
  BY <1>4, <1>5, <1>6 DEF AuthInv

LEMMA AuthStep == ASSUME AuthInv, Auth!Next PROVE AuthInv'
<1>1. CASE Auth!Terminated
  BY <1>1, AuthStutter DEF Auth!Terminated
<1> QED
  BY <1>1, AuthReadStep, AuthMergeStep, AuthTryStep, AuthOfferStep, AuthRefusedStep,
     AuthNoneStep, AuthEndedStep DEF Auth!Next

LEMMA AuthStart == ASSUME Auth!Init PROVE AuthInv
<1>1. /\ files \in Auth!SeqOf(Auth!Files, MaxFiles)
      /\ agent \in [up : BOOLEAN, keys : {k \in Auth!SeqOf(Keys, 2) : Auth!IsInjective(k)}]
      /\ agent.up \/ agent.keys = <<>>
      /\ step = "read" /\ tried = {} /\ signers = <<>> /\ offered = <<>>
  BY DEF Auth!Init
<1>2. ASSUME NEW X, NEW n \in Nat, NEW s \in Auth!SeqOf(X, n) PROVE s \in Seq(X)
  <2>1. PICK m \in 0..n : s \in [1..m -> X]
    BY <1>2 DEF Auth!SeqOf
  <2>2. m \in Nat
    BY <1>2, <2>1
  <2> QED
    BY <2>1, <2>2
<1>3. files \in Seq(Auth!Files)
  BY <1>1, <1>2, BoundsAssumption
<1>4. agent.keys \in Seq(Keys)
  <2>1. agent.keys \in Auth!SeqOf(Keys, 2)
    BY <1>1
  <2> QED
    BY <1>2, <2>1
<1>5. <<>> \in Seq(Sourced) /\ Len(<<>>) = 0
  OBVIOUS
<1>6. AuthTypes
  BY <1>1, <1>3, <1>4, <1>5 DEF AuthTypes, AuthSteps
<1>7. AuthKnown
  BY <1>1 DEF AuthKnown
<1>8. OffersKnown
  <2>1. FirstOffers \in Seq(Sourced)
    BY <1>6, FirstType
  <2>2. <<>> \o FirstOffers = FirstOffers
    BY <2>1, ConcatEmptySeq
  <2>3. RefusedTo(Len(offered) - 1)
    BY <1>1, <1>5 DEF RefusedTo
  <2> QED
    BY <1>1, <2>1, <2>2, <2>3 DEF OffersKnown
<1> QED
  BY <1>6, <1>7, <1>8 DEF AuthInv

\* A beginning of a sequence is one of a longer sequence.
LEMMA PrefixOfMore ==
  ASSUME NEW X, NEW u \in Seq(X), NEW v \in Seq(X), NEW t \in Seq(X)
  PROVE  /\ SubSeq((u \o v) \o t, 1, Len(u)) = SubSeq(u, 1, Len(u))
         /\ Len(u) <= Len((u \o v) \o t)
<1>1. /\ u \o v \in Seq(X) /\ Len(u \o v) = Len(u) + Len(v)
      /\ Len(u) \in Nat /\ Len(v) \in Nat /\ Len(t) \in Nat
      /\ \A i \in 1..(Len(u) + Len(v)) :
            (u \o v)[i] = IF i <= Len(u) THEN u[i] ELSE v[i - Len(u)]
  BY ConcatProperties
<1> DEFINE w == u \o v
           a == w \o t
<1> HIDE DEF w
<1>2. /\ a \in Seq(X) /\ Len(a) = Len(w) + Len(t)
      /\ \A i \in 1..(Len(w) + Len(t)) :
            a[i] = IF i <= Len(w) THEN w[i] ELSE t[i - Len(w)]
  BY <1>1, ConcatProperties DEF w
<1>3. /\ Len(w) = Len(u) + Len(v) /\ \A i \in 1..Len(u) : w[i] = u[i]
  BY <1>1 DEF w
<1> HIDE DEF a
<1>4. Len(u) <= Len(a) /\ \A i \in 1..Len(u) : a[i] = u[i]
  BY <1>1, <1>2, <1>3
<1>5. /\ SubSeq(a, 1, Len(u)) \in Seq(X) /\ Len(SubSeq(a, 1, Len(u))) = Len(u)
      /\ \A i \in 1..Len(u) : SubSeq(a, 1, Len(u))[i] = a[i]
  BY <1>1, <1>2, <1>4
<1>6. SubSeq(a, 1, Len(u)) = u
  <2>1. \A i \in 1..Len(u) : SubSeq(a, 1, Len(u))[i] = u[i]
    BY <1>4, <1>5
  <2> QED
    BY <1>5, <2>1, SeqEqual
<1>7. SubSeq(u, 1, Len(u)) = u
  BY SubSeqFull
<1> QED
  BY <1>4, <1>6, <1>7 DEF a, w

-----------------------------------------------------------------------------
\* The documented order is the agent's keys, unless it is disabled, and then
\* the usable keys of the files.
LEMMA DocumentedParts ==
  ASSUME AuthTypes
  PROVE  /\ AgentFirst => Auth!Documented = Listed \o Usable
         /\ ~AgentFirst => Auth!Documented = Usable
<1>1. "agent" \in Auth!DryRun <=> AgentFirst
  BY DEF Auth!DryRun, AgentFirst
<1>2. DOMAIN files = 1..Len(files)
  BY DEF AuthTypes
<1> DEFINE agentKeys == IF "agent" \in Auth!DryRun THEN agent.keys ELSE <<>>
           first == [i \in DOMAIN agentKeys |-> <<"agent", agentKeys[i]>>]
<1>3. Auth!Documented = first \o Usable
  BY <1>2 DEF Auth!Documented, Usable, UsableTo, KeyIn, Auth!FlattenSeq, FlattenSeq
<1>4. CASE AgentFirst
  <2>1. agentKeys = agent.keys
    BY <1>1, <1>4
  <2>2. first = Listed
    BY <2>1 DEF Listed
  <2> QED
    BY <1>3, <1>4, <2>2
<1>5. CASE ~AgentFirst
  <2>1. agentKeys = <<>>
    BY <1>1, <1>5
  <2> HIDE DEF agentKeys
  <2>2. DOMAIN agentKeys = {}
    BY <2>1
  <2>3. first = <<>>
    BY <2>2
  <2> HIDE DEF first
  <2>4. Usable \in Seq(FileKeys)
    BY UsableFits
  <2>5. <<>> \o Usable = Usable
    BY <2>4, ConcatEmptySeq
  <2> QED
    BY <1>3, <1>5, <2>3, <2>5
<1> QED
  BY <1>4, <1>5

\* What the first method offers is a beginning of the documented order.
LEMMA FirstIsDocumented ==
  ASSUME AuthTypes
  PROVE  \E more \in Seq(Sourced) : Auth!Documented = FirstOffers \o more
<1>1. Usable \in Seq(FileKeys) /\ Usable \in Seq(Sourced)
  BY UsableFits, FileKeysSourced
<1>2. CASE AgentFirst
  BY <1>1, <1>2, DocumentedParts DEF FirstOffers
<1>3. CASE ~AgentFirst
  <2>1. Auth!Documented = Usable
    BY <1>3, DocumentedParts
  <2>2. CASE Usable = <<>>
    <3>1. FirstOffers = <<>>
      BY <1>3, <2>2 DEF FirstOffers
    <3>2. <<>> \o Usable = Usable
      BY <1>1, ConcatEmptySeq
    <3> QED
      BY <1>1, <2>1, <3>1, <3>2
  <2>3. CASE Usable # <<>>
    <3>1. FirstOffers = <<Usable[1]>>
      BY <1>3, <2>3 DEF FirstOffers
    <3>2. ASSUME NEW u \in Seq(Sourced), u # <<>>
          PROVE  <<u[1]>> \o Tail(u) = u /\ Tail(u) \in Seq(Sourced)
      <4>1. /\ Tail(u) \in Seq(Sourced) /\ Len(Tail(u)) = Len(u) - 1
            /\ \A i \in 1..(Len(u) - 1) : Tail(u)[i] = u[i + 1]
            /\ <<u[1]>> \in Seq(Sourced) /\ Len(u) \in Nat \ {0}
        BY <3>2
      <4> DEFINE h == <<u[1]>>
                 t == Tail(u)
      <4>2. Len(h) = 1 /\ h[1] = u[1] /\ h \in Seq(Sourced)
        BY <4>1
      <4> HIDE DEF h, t, Sourced
      <4>3. t \in Seq(Sourced) /\ Len(t) = Len(u) - 1
        BY <4>1 DEF t
      <4>4. /\ h \o t \in Seq(Sourced) /\ Len(h \o t) = Len(u)
            /\ \A i \in 1..Len(u) :
                  (h \o t)[i] = IF i <= 1 THEN h[i] ELSE t[i - 1]
        <5>1. /\ h \o t \in Seq(Sourced) /\ Len(h \o t) = Len(h) + Len(t)
              /\ \A i \in 1..(Len(h) + Len(t)) :
                    (h \o t)[i] = IF i <= Len(h) THEN h[i] ELSE t[i - Len(h)]
          BY <4>2, <4>3, ConcatProperties
        <5>2. Len(h) + Len(t) = Len(u)
          BY <4>1, <4>2, <4>3
        <5> QED
          BY <4>2, <5>1, <5>2
      <4>5. \A i \in 1..Len(u) : (h \o t)[i] = u[i]
        BY <4>1, <4>2, <4>4 DEF t
      <4>6. h \o t = u
        BY <4>4, <4>5, <3>2, SeqEqual
      <4> QED
        BY <4>1, <4>6 DEF h, t
    <3> QED
      BY <1>1, <2>1, <2>3, <3>1, <3>2
  <2> QED
    BY <2>2, <2>3
<1> QED
  BY <1>2, <1>3

\* What the first method offers is announced by --dry-run.
LEMMA FirstIsAnnounced ==
  ASSUME AuthTypes, NEW i \in 1..Len(FirstOffers)
  PROVE  FirstOffers[i][1] \in Auth!DryRun
<1>1. CASE AgentFirst
  <2>1. FirstOffers = Listed /\ "agent" \in Auth!DryRun
    BY <1>1 DEF FirstOffers, Auth!DryRun, AgentFirst
  <2>2. Listed[i] = <<"agent", agent.keys[i]>>
    BY <2>1, ListedType
  <2> QED
    BY <2>1, <2>2
<1>2. CASE ~AgentFirst
  <2>1. Usable \in Seq(FileKeys)
    BY UsableFits
  <2>2. FirstOffers = IF Usable = <<>> THEN <<>> ELSE <<Usable[1]>>
    BY <1>2 DEF FirstOffers
  <2>3. Usable # <<>> /\ FirstOffers = <<Usable[1]>>
    <3>1. FirstOffers # <<>>
      <4>1. Len(FirstOffers) # 0
        BY FirstType
      <4> QED
        BY <4>1
    <3> QED
      BY <2>2, <3>1
  <2>4. i = 1 /\ FirstOffers[1] = Usable[1]
    BY <2>3
  <2>5. Usable[1] \in FileKeys
    BY <2>1, <2>3
  <2> QED
    BY <2>4, <2>5 DEF FileKeys, Auth!DryRun
<1> QED
  BY <1>1, <1>2

LEMMA OffersAreDocumented == ASSUME AuthInv PROVE Auth!OffersAsDocumented
<1> DEFINE n == Len(offered)
<1>1. AuthTypes /\ OffersKnown
  BY DEF AuthInv
<1>2. /\ offered \in Seq(Sourced) /\ n \in Nat /\ DOMAIN offered = 1..n
      /\ offered # <<>> => n > 0
  BY <1>1 DEF AuthTypes
<1>3. PICK rest \in Seq(Sourced) : offered \o rest = FirstOffers
  BY <1>1 DEF OffersKnown
<1>4. PICK more \in Seq(Sourced) : Auth!Documented = FirstOffers \o more
  BY <1>1, FirstIsDocumented
<1>5. Auth!Documented = (offered \o rest) \o more
  BY <1>3, <1>4
<1>6. Auth!IsPrefix(offered, Auth!Documented)
  BY <1>2, <1>5, PrefixOfMore DEF Auth!IsPrefix
<1>7. \A i \in DOMAIN offered : offered[i][1] \in Auth!DryRun
  <2>1. /\ Len(offered \o rest) = n + Len(rest) /\ Len(rest) \in Nat
        /\ \A i \in 1..n : (offered \o rest)[i] = offered[i]
    BY <1>2, ConcatProperties
  <2>2. \A i \in 1..n : i \in 1..Len(FirstOffers) /\ FirstOffers[i] = offered[i]
    BY <1>2, <1>3, <2>1
  <2> QED
    BY <1>1, <1>2, <2>2, FirstIsAnnounced
<1>8. \A i \in 1..(n - 1) : offered[i][2] \notin authorized
  BY <1>1 DEF OffersKnown, RefusedTo
<1>9. step = "authenticated" => Auth!Last(offered)[2] \in authorized
  BY <1>1 DEF OffersKnown, Auth!Last
<1>10. /\ step = "failed" /\ Auth!Documented # <<>>
       => offered # <<>> \/ ("agent" \in Auth!DryRun /\ agent.keys = <<>>)
  <2> SUFFICES ASSUME step = "failed", Auth!Documented # <<>>, offered = <<>>
               PROVE  "agent" \in Auth!DryRun /\ agent.keys = <<>>
    OBVIOUS
  <2>1. IF AgentFirst THEN agent.keys = <<>> ELSE Usable = <<>>
    BY <1>1 DEF OffersKnown
  <2>2. AgentFirst
    BY <1>1, <2>1, DocumentedParts
  <2> QED
    BY <2>1, <2>2 DEF Auth!DryRun, AgentFirst
<1> QED
  BY <1>6, <1>7, <1>8, <1>9, <1>10 DEF Auth!OffersAsDocumented

\* The keys that a connection offers are the first ones of the documented
\* order (README.md:186), of the sources that --dry-run announces; the first
\* one that the server accepts logs in, and when there is a key one is
\* offered, except behind an agent that lists none: for all keys, any number
\* of identity files and any keys that the server accepts.
THEOREM KeysAreOffered == GopsshSpec => []OffersAsDocumented
<1> DEFINE Inv == part = "auth" => AuthInv
<1>1. GopsshInit => Inv
  BY AuthStart DEF GopsshInit
<1>2. Inv /\ [GopsshNext]_gopsshVars => Inv'
  <2> SUFFICES ASSUME Inv, [GopsshNext]_gopsshVars, part' = "auth"
               PROVE  AuthInv'
    OBVIOUS
  <2>1. CASE UNCHANGED gopsshVars
    <3>1. UNCHANGED <<part, Auth!vars>>
      BY <2>1 DEF gopsshVars, authVars, Auth!vars, Auth!machine
    <3> QED
      BY <3>1, AuthStutter
  <2>2. CASE GopsshNext
    <3>1. part = "auth" /\ Auth!Next
      BY <2>2 DEF GopsshNext
    <3> QED
      BY <3>1, AuthStep
  <2> QED
    BY <2>1, <2>2
<1>3. Inv => OffersAsDocumented
  BY OffersAreDocumented DEF OffersAsDocumented
<1> QED
  BY <1>1, <1>2, <1>3, PTL DEF GopsshSpec

-----------------------------------------------------------------------------
(* CommandLine: loops over the arguments.                                   *)

\* What holds before the first argument, and after one more when it held
\* before, holds after each.
LEMMA EachStep ==
  ASSUME NEW n \in Nat, NEW Q, 0 \in Q,
         \A i \in 0..n : i \in Q /\ i < n => i + 1 \in Q
  PROVE  \A i \in 0..n : i \in Q
<1> DEFINE M == {i \in 0..n : i \notin Q}
<1> SUFFICES ASSUME M # {} PROVE FALSE
  OBVIOUS
<1>1. PICK m \in M : \A k \in M : m <= k
  <2>1. M \in SUBSET Nat
    OBVIOUS
  <2> QED
    BY <2>1, LeastExists
<1>2. m # 0 /\ m - 1 \in 0..n
  BY <1>1
<1>3. m - 1 \notin M
  BY <1>1, <1>2
<1>4. m - 1 \in Q /\ m - 1 < n /\ (m - 1) + 1 = m
  BY <1>1, <1>2, <1>3
<1> QED
  BY <1>1, <1>2, <1>4

\* A loop of n turns: turn i makes f[i][s] of the state s.
LoopOf(n, f, start, g) ==
    g[0] = start /\ \A i \in 1..n : g[i] = f[i][g[i - 1]]

LEMMA LoopExists ==
  ASSUME NEW S, NEW n \in Nat, NEW f \in [1..n -> [S -> S]], NEW start \in S
  PROVE  \E g \in [0..n -> S] : LoopOf(n, f, start, g)
<1> DEFINE Q == {m \in 0..n : \E g \in [0..m -> S] : LoopOf(m, f, start, g)}
<1>1. 0 \in Q
  <2>1. LoopOf(0, f, start, [i \in 0..0 |-> start])
    BY DEF LoopOf
  <2> QED
    BY <2>1
<1>2. ASSUME NEW m \in 0..n, m \in Q, m < n PROVE m + 1 \in Q
  <2>1. PICK g \in [0..m -> S] : LoopOf(m, f, start, g)
    BY <1>2
  <2> DEFINE h == [i \in 0..(m + 1) |-> IF i = m + 1 THEN f[m + 1][g[m]] ELSE g[i]]
  <2>2. f[m + 1][g[m]] \in S
    BY <1>2, <2>1
  <2>3. h \in [0..(m + 1) -> S]
    BY <2>2
  <2>4. LoopOf(m + 1, f, start, h)
    <3>1. h[0] = start
      BY <2>1 DEF LoopOf
    <3>2. ASSUME NEW i \in 1..(m + 1) PROVE h[i] = f[i][h[i - 1]]
      <4>1. CASE i = m + 1
        BY <4>1
      <4>2. CASE i \in 1..m
        <5>1. h[i] = g[i] /\ h[i - 1] = g[i - 1]
          BY <4>2
        <5> QED
          BY <2>1, <4>2, <5>1 DEF LoopOf
      <4> QED
        BY <4>1, <4>2
    <3> HIDE DEF h
    <3> QED
      BY <3>1, <3>2 DEF LoopOf
  <2> HIDE DEF h
  <2> QED
    BY <1>2, <2>3, <2>4
<1> HIDE DEF Q
<1>3. \A i \in 0..n : i \in Q
  BY <1>1, <1>2, EachStep
<1>4. n \in Q
  BY <1>3
<1> QED
  BY <1>4 DEF Q

ScanStates == [skip : BOOLEAN, done : BOOLEAN, unknown : BOOLEAN,
               help : BOOLEAN, json : BOOLEAN]
LookStates == [found : BOOLEAN, skip : BOOLEAN]
ParseStates == [state : {"flags", "value", "rest", "help", "undefined"},
                given : SUBSET Args!Arguments, json : {"unset", "on", "off"},
                rest : Seq(Args!Arguments), delimiter : BOOLEAN]

\* The states that a scan goes through, of the arguments, of the delimiter
\* and of the parser.
IsScan(g, a, stop) ==
    /\ g \in [0..Len(a) -> ScanStates]
    /\ g[0] = Args!ScanStart
    /\ \A i \in 1..Len(a) : g[i] = Args!ScanNext(g[i - 1], a[i], stop)

IsLook(g, a) ==
    /\ g \in [0..Len(a) -> LookStates]
    /\ g[0] = Args!LookStart
    /\ \A i \in 1..Len(a) : g[i] = Args!LookNext(g[i - 1], a[i])

IsParse(g, a, defined) ==
    /\ g \in [0..Len(a) -> ParseStates]
    /\ g[0] = Args!ParseStart
    /\ \A i \in 1..Len(a) : g[i] = Args!ParseNext(defined, g[i - 1], a[i])

LEMMA ScanNextType ==
  ASSUME NEW s \in ScanStates, NEW a, NEW stop \in BOOLEAN
  PROVE  Args!ScanNext(s, a, stop) \in ScanStates
<1>1. CASE s.done \/ s.skip
  BY <1>1 DEF Args!ScanNext, ScanStates
<1>2. CASE ~s.done /\ ~s.skip
  BY <1>2 DEF Args!ScanNext, ScanStates
<1> QED
  BY <1>1, <1>2

LEMMA LookNextType ==
  ASSUME NEW s \in LookStates, NEW a
  PROVE  Args!LookNext(s, a) \in LookStates
BY DEF Args!LookNext, LookStates

LEMMA NameType ==
  ASSUME NEW a \in Args!Arguments
  PROVE  Args!Name(a) \in Args!Arguments
BY DEF Args!Name, Args!Arguments, Args!Options, Args!Switches

LEMMA ParseNextType ==
  ASSUME NEW s \in ParseStates, NEW a \in Args!Arguments, NEW defined
  PROVE  Args!ParseNext(defined, s, a) \in ParseStates
<1>1. Args!ParseFlag(defined, s, a) \in ParseStates
  <2>1. CASE a = "--"
    BY <2>1 DEF Args!ParseFlag, ParseStates, Args!Dashed, Args!Name
  <2>2. CASE ~Args!Dashed(a)
    <3>1. a # "--" /\ <<a>> \in Seq(Args!Arguments)
      BY <2>2 DEF Args!Dashed
    <3> QED
      BY <2>2, <3>1 DEF Args!ParseFlag, ParseStates
  <2>3. CASE a # "--" /\ Args!Dashed(a)
    <3>1. s.given \cup {Args!Name(a)} \in SUBSET Args!Arguments
      BY NameType DEF ParseStates
    <3>2. CASE Args!Name(a) \notin defined
      BY <2>3, <3>2 DEF Args!ParseFlag, ParseStates
    <3>3. CASE Args!Name(a) \in defined /\ Args!Name(a) = "--json"
      BY <2>3, <3>3 DEF Args!ParseFlag, ParseStates
    <3>4. CASE Args!Name(a) \in defined /\ Args!Name(a) # "--json"
      BY <2>3, <3>1, <3>4 DEF Args!ParseFlag, ParseStates
    <3> QED
      BY <3>2, <3>3, <3>4
  <2> QED
    BY <2>1, <2>2, <2>3
<1>2. CASE s.state = "flags"
  BY <1>1, <1>2 DEF Args!ParseNext
<1>3. CASE s.state # "flags"
  <2>1. Append(s.rest, a) \in Seq(Args!Arguments)
    BY DEF ParseStates
  <2> QED
    BY <1>3, <2>1 DEF Args!ParseNext, ParseStates
<1> QED
  BY <1>2, <1>3

LEMMA ScanRuns ==
  ASSUME NEW a \in Seq(Args!Arguments), NEW stop \in BOOLEAN
  PROVE  \E g : /\ IsScan(g, a, stop)
                /\ Args!scanControlFlags(a, stop).help = g[Len(a)].help
                /\ Args!scanControlFlags(a, stop).json = g[Len(a)].json
<1> DEFINE n == Len(a)
           f == [i \in 1..n |-> [s \in ScanStates |-> Args!ScanNext(s, a[i], stop)]]
           Loop(h) == h = [i \in 0..n |-> IF i = 0 THEN Args!ScanStart
                                          ELSE Args!ScanNext(h[i - 1], a[i], stop)]
           scan == CHOOSE h : Loop(h)
<1>1. n \in Nat /\ \A i \in 1..n : a[i] \in Args!Arguments
  OBVIOUS
<1>2. f \in [1..n -> [ScanStates -> ScanStates]]
  BY ScanNextType
<1>3. Args!ScanStart \in ScanStates
  BY DEF Args!ScanStart, ScanStates
<1>4. PICK g \in [0..n -> ScanStates] : LoopOf(n, f, Args!ScanStart, g)
  <2> HIDE DEF f, n
  <2> QED
    BY <1>1, <1>2, <1>3, LoopExists
<1>5. \A i \in 1..n : g[i] = Args!ScanNext(g[i - 1], a[i], stop)
  <2> TAKE i \in 1..n
  <2>1. g[i] = f[i][g[i - 1]]
    BY <1>4 DEF LoopOf
  <2>2. i - 1 \in 0..n
    BY <1>1
  <2>3. g[i - 1] \in ScanStates
    BY <1>4, <2>2
  <2> QED
    BY <2>1, <2>3
<1>6. Loop(g)
  <2>1. \A i \in 0..n : g[i] = IF i = 0 THEN Args!ScanStart
                               ELSE Args!ScanNext(g[i - 1], a[i], stop)
    BY <1>1, <1>4, <1>5 DEF LoopOf
  <2> QED
    BY <1>4, <2>1
<1>7. Loop(scan)
  <2> HIDE DEF Loop
  <2> QED
    BY <1>6
<1>8. Args!scanControlFlags(a, stop) = [help |-> scan[n].help, json |-> scan[n].json]
  BY DEF Args!scanControlFlags
<1> HIDE DEF scan
<1>9. /\ DOMAIN scan = 0..n /\ scan[0] = Args!ScanStart
      /\ \A i \in 1..n : scan[i] = Args!ScanNext(scan[i - 1], a[i], stop)
  BY <1>1, <1>7
<1>10. \A i \in 0..n : scan[i] \in ScanStates
  <2> DEFINE Q == {i \in 0..n : scan[i] \in ScanStates}
  <2>1. 0 \in Q
    BY <1>1, <1>3, <1>9
  <2>2. ASSUME NEW i \in 0..n, i \in Q, i < n PROVE i + 1 \in Q
    <3>1. i + 1 \in 1..n /\ (i + 1) - 1 = i
      BY <1>1, <2>2
    <3>2. scan[i + 1] = Args!ScanNext(scan[i], a[i + 1], stop)
      BY <1>9, <3>1
    <3> QED
      BY <2>2, <3>1, <3>2, ScanNextType
  <2> HIDE DEF Q
  <2>3. \A i \in 0..n : i \in Q
    BY <1>1, <2>1, <2>2, EachStep
  <2> QED
    BY <2>3 DEF Q
<1>11. scan \in [0..n -> ScanStates]
  <2>1. scan = [i \in 0..n |-> scan[i]]
    BY <1>7
  <2> QED
    BY <1>10, <2>1
<1>12. IsScan(scan, a, stop)
  BY <1>9, <1>11 DEF IsScan
<1> QED
  BY <1>8, <1>12

LEMMA LookRuns ==
  ASSUME NEW a \in Seq(Args!Arguments)
  PROVE  \E g : IsLook(g, a) /\ Args!hasArgumentDelimiter(a) = g[Len(a)].found
<1> DEFINE n == Len(a)
           f == [i \in 1..n |-> [s \in LookStates |-> Args!LookNext(s, a[i])]]
           Loop(h) == h = [i \in 0..n |-> IF i = 0 THEN Args!LookStart
                                          ELSE Args!LookNext(h[i - 1], a[i])]
           look == CHOOSE h : Loop(h)
<1>1. n \in Nat /\ \A i \in 1..n : a[i] \in Args!Arguments
  OBVIOUS
<1>2. f \in [1..n -> [LookStates -> LookStates]]
  BY LookNextType
<1>3. Args!LookStart \in LookStates
  BY DEF Args!LookStart, LookStates
<1>4. PICK g \in [0..n -> LookStates] : LoopOf(n, f, Args!LookStart, g)
  <2> HIDE DEF f, n
  <2> QED
    BY <1>1, <1>2, <1>3, LoopExists
<1>5. \A i \in 1..n : g[i] = Args!LookNext(g[i - 1], a[i])
  <2> TAKE i \in 1..n
  <2>1. g[i] = f[i][g[i - 1]]
    BY <1>4 DEF LoopOf
  <2>2. i - 1 \in 0..n
    BY <1>1
  <2>3. g[i - 1] \in LookStates
    BY <1>4, <2>2
  <2> QED
    BY <2>1, <2>3
<1>6. Loop(g)
  <2>1. \A i \in 0..n : g[i] = IF i = 0 THEN Args!LookStart
                               ELSE Args!LookNext(g[i - 1], a[i])
    BY <1>1, <1>4, <1>5 DEF LoopOf
  <2> QED
    BY <1>4, <2>1
<1>7. Loop(look)
  <2> HIDE DEF Loop
  <2> QED
    BY <1>6
<1>8. Args!hasArgumentDelimiter(a) = look[n].found
  BY DEF Args!hasArgumentDelimiter
<1> HIDE DEF look
<1>9. /\ DOMAIN look = 0..n /\ look[0] = Args!LookStart
      /\ \A i \in 1..n : look[i] = Args!LookNext(look[i - 1], a[i])
  BY <1>1, <1>7
<1>10. \A i \in 0..n : look[i] \in LookStates
  <2> DEFINE Q == {i \in 0..n : look[i] \in LookStates}
  <2>1. 0 \in Q
    BY <1>1, <1>3, <1>9
  <2>2. ASSUME NEW i \in 0..n, i \in Q, i < n PROVE i + 1 \in Q
    <3>1. i + 1 \in 1..n /\ (i + 1) - 1 = i
      BY <1>1, <2>2
    <3>2. look[i + 1] = Args!LookNext(look[i], a[i + 1])
      BY <1>9, <3>1
    <3> QED
      BY <2>2, <3>1, <3>2, LookNextType
  <2> HIDE DEF Q
  <2>3. \A i \in 0..n : i \in Q
    BY <1>1, <2>1, <2>2, EachStep
  <2> QED
    BY <2>3 DEF Q
<1>11. look \in [0..n -> LookStates]
  <2>1. look = [i \in 0..n |-> look[i]]
    BY <1>7
  <2> QED
    BY <1>10, <2>1
<1>12. IsLook(look, a)
  BY <1>9, <1>11 DEF IsLook
<1> QED
  BY <1>8, <1>12

LEMMA ParseRuns ==
  ASSUME NEW a \in Seq(Args!Arguments), NEW defined
  PROVE  \E g : IsParse(g, a, defined) /\ Args!FlagParse(defined, a) = g[Len(a)]
<1> DEFINE n == Len(a)
           f == [i \in 1..n |-> [s \in ParseStates |-> Args!ParseNext(defined, s, a[i])]]
           Loop(h) == h = [i \in 0..n |-> IF i = 0 THEN Args!ParseStart
                                          ELSE Args!ParseNext(defined, h[i - 1], a[i])]
           parse == CHOOSE h : Loop(h)
<1>1. n \in Nat /\ \A i \in 1..n : a[i] \in Args!Arguments
  OBVIOUS
<1>2. f \in [1..n -> [ParseStates -> ParseStates]]
  BY ParseNextType
<1>3. Args!ParseStart \in ParseStates
  BY DEF Args!ParseStart, ParseStates
<1>4. PICK g \in [0..n -> ParseStates] : LoopOf(n, f, Args!ParseStart, g)
  <2> HIDE DEF f, n
  <2> QED
    BY <1>1, <1>2, <1>3, LoopExists
<1>5. \A i \in 1..n : g[i] = Args!ParseNext(defined, g[i - 1], a[i])
  <2> TAKE i \in 1..n
  <2>1. g[i] = f[i][g[i - 1]]
    BY <1>4 DEF LoopOf
  <2>2. i - 1 \in 0..n
    BY <1>1
  <2>3. g[i - 1] \in ParseStates
    BY <1>4, <2>2
  <2> QED
    BY <2>1, <2>3
<1>6. Loop(g)
  <2>1. \A i \in 0..n : g[i] = IF i = 0 THEN Args!ParseStart
                               ELSE Args!ParseNext(defined, g[i - 1], a[i])
    BY <1>1, <1>4, <1>5 DEF LoopOf
  <2> QED
    BY <1>4, <2>1
<1>7. Loop(parse)
  <2> HIDE DEF Loop
  <2> QED
    BY <1>6
<1>8. Args!FlagParse(defined, a) = parse[n]
  BY DEF Args!FlagParse
<1> HIDE DEF parse
<1>9. /\ DOMAIN parse = 0..n /\ parse[0] = Args!ParseStart
      /\ \A i \in 1..n : parse[i] = Args!ParseNext(defined, parse[i - 1], a[i])
  BY <1>1, <1>7
<1>10. \A i \in 0..n : parse[i] \in ParseStates
  <2> DEFINE Q == {i \in 0..n : parse[i] \in ParseStates}
  <2>1. 0 \in Q
    BY <1>1, <1>3, <1>9
  <2>2. ASSUME NEW i \in 0..n, i \in Q, i < n PROVE i + 1 \in Q
    <3>1. i + 1 \in 1..n /\ (i + 1) - 1 = i
      BY <1>1, <2>2
    <3>2. parse[i + 1] = Args!ParseNext(defined, parse[i], a[i + 1])
      BY <1>9, <3>1
    <3> QED
      BY <2>2, <3>1, <3>2, ParseNextType
  <2> HIDE DEF Q
  <2>3. \A i \in 0..n : i \in Q
    BY <1>1, <2>1, <2>2, EachStep
  <2> QED
    BY <2>3 DEF Q
<1>11. parse \in [0..n -> ParseStates]
  <2>1. parse = [i \in 0..n |-> parse[i]]
    BY <1>7
  <2> QED
    BY <1>10, <2>1
<1>12. IsParse(parse, a, defined)
  BY <1>9, <1>11 DEF IsParse
<1> QED
  BY <1>8, <1>12

-----------------------------------------------------------------------------
(* The scan and the parser, argument by argument.                           *)

\* The commands with a FlagSet.
FlagCommands == {"run", "doctor", "hosts", "config", "version"}

LEMMA OptionNames ==
  ASSUME NEW a \in Args!Arguments
  PROVE  /\ Args!controlScanFlagTakesValue(Args!Name(a)) <=> a \in Args!Options
         /\ Args!controlScanKnownFlag(Args!Name(a)) <=>
               a \in Args!Options \cup Args!Switches
<1>1. {Args!Name(b) : b \in Args!Options} = {"--hosts-file", "--file", "--command"}
  BY DEF Args!Name, Args!Options
<1> QED
  BY <1>1 DEF Args!controlScanFlagTakesValue, Args!controlScanKnownFlag, Args!Name,
              Args!Options, Args!Switches, Args!Arguments

\* One argument for a scan that looks at it.
LEMMA ScanLooks ==
  ASSUME NEW a \in Args!Arguments, NEW s \in ScanStates, NEW stop \in BOOLEAN,
         ~s.done, ~s.skip
  PROVE  LET t == Args!ScanNext(s, a, stop)
         IN  /\ t.done <=> a = "--" \/ (a \in {"word", "sub"} /\ stop /\ ~s.unknown)
             /\ t.skip <=> a \in {"--hosts-file", "--file", "--command"}
             /\ t.unknown <=> s.unknown \/ a = "--bogus"
             /\ t.help <=> s.help \/ a = "--help"
             /\ t.json <=> s.json \/ a = "--json"
<1>1. CASE a \in Args!Options
  BY <1>1, OptionNames
  DEF Args!ScanNext, ScanStates, Args!Dashed, Args!Inline, Args!Options
<1>2. CASE a \in {"word", "sub"}
  BY <1>2, OptionNames DEF Args!ScanNext, ScanStates, Args!Dashed, Args!Options
<1>3. CASE a = "--"
  BY <1>3, OptionNames DEF Args!ScanNext, ScanStates, Args!Dashed, Args!Options
<1>4. CASE a \in Args!Switches \cup {"--bogus"}
  BY <1>4, OptionNames
  DEF Args!ScanNext, ScanStates, Args!Dashed, Args!Options, Args!Switches
<1> QED
  BY <1>1, <1>2, <1>3, <1>4 DEF Args!Arguments

\* One argument for a scan that does not.
LEMMA ScanPasses ==
  ASSUME NEW a, NEW s \in ScanStates, NEW stop \in BOOLEAN
  PROVE  LET t == Args!ScanNext(s, a, stop)
         IN  /\ s.done => t = s
             /\ ~s.done /\ s.skip => t = [s EXCEPT !.skip = FALSE]
             /\ (s.help => t.help) /\ (s.json => t.json)
BY DEF Args!ScanNext, ScanStates

\* One argument for the parser at a flag.
LEMMA ParseLooks ==
  ASSUME NEW a \in Args!Arguments, NEW p \in ParseStates, p.state = "flags",
         NEW c \in FlagCommands
  PROVE  LET q == Args!ParseNext(Args!Defined(c), p, a)
         IN  /\ q.state = "rest" <=> a \in {"--", "word", "sub"}
             /\ q.state = "help" <=> a = "--help"
             /\ q.state = "value" => a \in {"--hosts-file", "--file", "--command"}
             /\ q.state = "flags" => a \notin {"--hosts-file", "--file", "--command"}
             /\ a = "--bogus" => q.state = "undefined"
             /\ q.json = IF a = "--json" THEN "on"
                         ELSE IF a = "--json=false" THEN "off" ELSE p.json
             /\ q.rest = IF a \in {"word", "sub"} THEN <<a>> ELSE p.rest
             /\ q.delimiter <=> p.delimiter \/ a = "--"
<1>1. /\ "--json" \in Args!Defined(c) /\ "--help" \notin Args!Defined(c)
      /\ "--bogus" \notin Args!Defined(c)
  BY DEF FlagCommands, Args!Defined
<1>2. Args!ParseNext(Args!Defined(c), p, a) = Args!ParseFlag(Args!Defined(c), p, a)
  BY DEF Args!ParseNext
<1>3. CASE a \in {"--", "word", "sub"}
  BY <1>2, <1>3 DEF Args!ParseFlag, ParseStates, Args!Dashed, Args!Name
<1>4. CASE a \in {"--help", "--bogus"}
  BY <1>1, <1>2, <1>4 DEF Args!ParseFlag, ParseStates, Args!Dashed, Args!Name
<1>5. CASE a \in {"--json", "--json=false"}
  BY <1>1, <1>2, <1>5 DEF Args!ParseFlag, ParseStates, Args!Dashed, Args!Name, Args!Inline
<1>6. CASE a \in Args!Options \cup {"--strict"}
  <2>1. CASE Args!Name(a) \in Args!Defined(c)
    BY <1>2, <1>6, <2>1
    DEF Args!ParseFlag, ParseStates, Args!Dashed, Args!Name, Args!Inline, Args!Options
  <2>2. CASE Args!Name(a) \notin Args!Defined(c)
    BY <1>2, <1>6, <2>2
    DEF Args!ParseFlag, ParseStates, Args!Dashed, Args!Name, Args!Inline, Args!Options
  <2> QED
    BY <2>1, <2>2
<1> QED
  BY <1>3, <1>4, <1>5, <1>6 DEF Args!Arguments, Args!Switches

\* One argument for the search for a delimiter.
LEMMA LookLooks ==
  ASSUME NEW a \in Args!Arguments, NEW w \in LookStates
  PROVE  LET v == Args!LookNext(w, a)
         IN  /\ w.skip => ~v.skip /\ (v.found <=> w.found)
             /\ ~w.skip => /\ v.skip <=> a \in {"--hosts-file", "--file", "--command"}
                           /\ v.found <=> w.found \/ a = "--"
<1>1. CASE w.skip
  BY <1>1 DEF Args!LookNext, LookStates
<1>2. CASE ~w.skip
  <2>1. a \in Args!Options /\ ~Args!Inline(a)
           <=> a \in {"--hosts-file", "--file", "--command"}
    BY DEF Args!Options, Args!Inline
  <2> QED
    BY <1>2, <2>1, OptionNames DEF Args!LookNext, LookStates
<1> QED
  BY <1>1, <1>2

\* The parser has read flags only, and for run perhaps the remote command.
Followed(c, p) == \/ p.state \in {"flags", "value"}
                  \/ p.state = "rest" /\ (c = "run" \/ p.rest = <<>>)

\* The scans know where the parser is.
Follows(c, p, s, w) ==
    /\ p.state \in {"flags", "value"} =>
          ~s.done /\ ~s.unknown /\ p.rest = <<>> /\ (s.skip <=> p.state = "value")
          /\ (w.skip <=> p.state = "value")
    /\ p.state = "rest" /\ Followed(c, p) => s.done
    /\ Followed(c, p) => ~s.help /\ (p.json = "unset" => ~s.json)
    /\ p.state = "help" => s.help
    /\ p.delimiter => w.found

LEMMA FollowsNext ==
  ASSUME NEW c \in FlagCommands, NEW a \in Args!Arguments, NEW p \in ParseStates,
         NEW s \in ScanStates, NEW w \in LookStates, Follows(c, p, s, w)
  PROVE  Follows(c, Args!ParseNext(Args!Defined(c), p, a),
                    Args!ScanNext(s, a, c = "run"), Args!LookNext(w, a))
<1> DEFINE q == Args!ParseNext(Args!Defined(c), p, a)
           t == Args!ScanNext(s, a, c = "run")
           v == Args!LookNext(w, a)
<1> SUFFICES Follows(c, q, t, v)
  OBVIOUS
<1>1. /\ q \in ParseStates /\ t \in ScanStates /\ v \in LookStates
      /\ w.found => v.found
  BY ParseNextType, ScanNextType, LookNextType, LookLooks
<1>2. CASE p.state = "flags"
  <2>1. ~s.done /\ ~s.skip /\ ~s.unknown /\ ~w.skip /\ p.rest = <<>> /\ ~s.help
        /\ (p.json = "unset" => ~s.json) /\ (p.delimiter => w.found)
    BY <1>2 DEF Follows, Followed
  <2>2. /\ t.done <=> a = "--" \/ (a \in {"word", "sub"} /\ c = "run")
        /\ t.skip <=> a \in {"--hosts-file", "--file", "--command"}
        /\ t.unknown <=> a = "--bogus"
        /\ t.help <=> a = "--help"
        /\ t.json <=> s.json \/ a = "--json"
    BY <2>1, ScanLooks
  <2>3. /\ v.skip <=> a \in {"--hosts-file", "--file", "--command"}
        /\ v.found <=> w.found \/ a = "--"
    BY <2>1, LookLooks
  <2>4. /\ q.state = "rest" <=> a \in {"--", "word", "sub"}
        /\ q.state = "help" <=> a = "--help"
        /\ q.state = "value" => a \in {"--hosts-file", "--file", "--command"}
        /\ q.state = "flags" => a \notin {"--hosts-file", "--file", "--command"}
        /\ a = "--bogus" => q.state = "undefined"
        /\ q.json = IF a = "--json" THEN "on"
                    ELSE IF a = "--json=false" THEN "off" ELSE p.json
        /\ q.rest = IF a \in {"word", "sub"} THEN <<a>> ELSE p.rest
        /\ q.delimiter <=> p.delimiter \/ a = "--"
    BY <1>2, ParseLooks
  <2> HIDE DEF q, t, v
  <2>5. <<a>> # <<>>
    OBVIOUS
  <2>6. Followed(c, q) => a \notin {"--help", "--bogus"}
                          /\ (a \in {"word", "sub"} => c = "run")
    BY <2>4, <2>5 DEF Followed
  <2> QED
    BY <1>1, <2>1, <2>2, <2>3, <2>4, <2>6 DEF Follows, Followed
<1>3. CASE p.state = "value"
  <2>1. q = [p EXCEPT !.state = "flags"]
    BY <1>3 DEF Args!ParseNext
  <2>2. ~s.done /\ s.skip /\ w.skip
    BY <1>3 DEF Follows
  <2>3. t = [s EXCEPT !.skip = FALSE]
    BY <2>2, ScanPasses
  <2>4. ~v.skip /\ (v.found <=> w.found)
    BY <2>2, LookLooks
  <2> QED
    BY <1>3, <2>1, <2>2, <2>3, <2>4 DEF Follows, Followed, ParseStates, ScanStates
<1>4. CASE p.state = "rest"
  <2>1. q = [p EXCEPT !.rest = Append(p.rest, a)]
    BY <1>4 DEF Args!ParseNext
  <2>2. q.state = "rest" /\ q.json = p.json /\ q.delimiter = p.delimiter
        /\ q.rest = Append(p.rest, a)
    BY <1>4, <2>1 DEF ParseStates
  <2>3. q.rest # <<>>
    BY <2>2 DEF ParseStates
  <2>4. Followed(c, q) => c = "run" /\ Followed(c, p) /\ s.done /\ t = s
    BY <1>4, <2>2, <2>3, ScanPasses DEF Followed, Follows
  <2> HIDE DEF q, t, v
  <2> QED
    BY <1>1, <1>4, <2>2, <2>4 DEF Follows
<1>5. CASE p.state \in {"help", "undefined"}
  <2>1. q = p
    BY <1>5 DEF Args!ParseNext
  <2>2. s.help => t.help
    BY ScanPasses
  <2> HIDE DEF q, t, v
  <2> QED
    BY <1>1, <1>5, <2>1, <2>2 DEF Follows, Followed
<1> QED
  BY <1>2, <1>3, <1>4, <1>5 DEF ParseStates

\* So they do when all arguments are read.
LEMMA FollowsAll ==
  ASSUME NEW c \in FlagCommands, NEW a \in Seq(Args!Arguments)
  PROVE  \E s \in ScanStates, w \in LookStates :
            /\ Follows(c, Args!FlagParse(Args!Defined(c), a), s, w)
            /\ Args!scanControlFlags(a, c = "run").help = s.help
            /\ Args!scanControlFlags(a, c = "run").json = s.json
            /\ Args!hasArgumentDelimiter(a) = w.found
<1> DEFINE n == Len(a)
<1>1. n \in Nat /\ \A i \in 1..n : a[i] \in Args!Arguments
  OBVIOUS
<1>2. PICK g : /\ IsScan(g, a, c = "run")
               /\ Args!scanControlFlags(a, c = "run").help = g[n].help
               /\ Args!scanControlFlags(a, c = "run").json = g[n].json
  BY ScanRuns
<1>3. PICK h : IsLook(h, a) /\ Args!hasArgumentDelimiter(a) = h[n].found
  BY LookRuns
<1>4. PICK p : IsParse(p, a, Args!Defined(c)) /\ Args!FlagParse(Args!Defined(c), a) = p[n]
  BY ParseRuns
<1> DEFINE Q == {i \in 0..n : Follows(c, p[i], g[i], h[i])}
<1>5. 0 \in Q
  <2>1. p[0] = Args!ParseStart /\ g[0] = Args!ScanStart /\ h[0] = Args!LookStart
    BY <1>2, <1>3, <1>4 DEF IsScan, IsLook, IsParse
  <2>2. Follows(c, Args!ParseStart, Args!ScanStart, Args!LookStart)
    BY DEF Follows, Followed, Args!ParseStart, Args!ScanStart, Args!LookStart
  <2> QED
    BY <1>1, <2>1, <2>2
<1>6. ASSUME NEW i \in 0..n, i \in Q, i < n PROVE i + 1 \in Q
  <2>1. i + 1 \in 1..n /\ (i + 1) - 1 = i /\ a[i + 1] \in Args!Arguments
    BY <1>1, <1>6
  <2>2. /\ p[i] \in ParseStates /\ g[i] \in ScanStates /\ h[i] \in LookStates
        /\ p[i + 1] = Args!ParseNext(Args!Defined(c), p[i], a[i + 1])
        /\ g[i + 1] = Args!ScanNext(g[i], a[i + 1], c = "run")
        /\ h[i + 1] = Args!LookNext(h[i], a[i + 1])
    BY <1>2, <1>3, <1>4, <2>1 DEF IsScan, IsLook, IsParse
  <2> QED
    BY <1>6, <2>1, <2>2, FollowsNext
<1> HIDE DEF Q
<1>7. \A i \in 0..n : i \in Q
  BY <1>1, <1>5, <1>6, EachStep
<1>8. n \in Q /\ n \in 0..n
  BY <1>1, <1>7
<1>9. g[n] \in ScanStates /\ h[n] \in LookStates
  BY <1>2, <1>3, <1>8 DEF IsScan, IsLook
<1> QED
  BY <1>2, <1>3, <1>4, <1>8, <1>9 DEF Q

\* One turn of a scan.
LEMMA ScanAt ==
  ASSUME NEW a \in Seq(Args!Arguments), NEW stop \in BOOLEAN,
         NEW g, IsScan(g, a, stop), NEW i \in Nat, NEW j \in Nat,
         j = i + 1, j <= Len(a)
  PROVE  /\ g[i] \in ScanStates /\ g[j] \in ScanStates
         /\ g[j] = Args!ScanNext(g[i], a[j], stop)
<1>1. i \in 0..Len(a) /\ j \in 0..Len(a) /\ j \in 1..Len(a) /\ j - 1 = i
  OBVIOUS
<1>2. g[j] = Args!ScanNext(g[j - 1], a[j], stop)
  BY <1>1 DEF IsScan
<1> QED
  BY <1>1, <1>2 DEF IsScan

\* What a scan has found it keeps.
LEMMA ScanKeeps ==
  ASSUME NEW a \in Seq(Args!Arguments), NEW stop \in BOOLEAN,
         NEW g, IsScan(g, a, stop), NEW i \in 0..Len(a)
  PROVE  (g[i].help => g[Len(a)].help) /\ (g[i].json => g[Len(a)].json)
<1> DEFINE n == Len(a)
           Q == {k \in 0..n : k >= i => (g[i].help => g[k].help)
                                     /\ (g[i].json => g[k].json)}
<1>1. n \in Nat
  OBVIOUS
<1>2. 0 \in Q
  BY <1>1
<1>3. ASSUME NEW k \in 0..n, k \in Q, k < n PROVE k + 1 \in Q
  <2>1. k + 1 \in 1..n /\ (k + 1) - 1 = k
    BY <1>1, <1>3
  <2>2. g[k] \in ScanStates /\ g[k + 1] = Args!ScanNext(g[k], a[k + 1], stop)
    BY <2>1 DEF IsScan
  <2>3. (g[k].help => g[k + 1].help) /\ (g[k].json => g[k + 1].json)
    <3>1. LET t == Args!ScanNext(g[k], a[k + 1], stop)
          IN  (g[k].help => t.help) /\ (g[k].json => t.json)
      BY <2>2, ScanPasses
    <3> QED
      BY <2>2, <3>1
  <2>4. k >= i \/ k + 1 = i \/ k + 1 < i
    BY <1>1
  <2> QED
    BY <1>1, <1>3, <2>1, <2>3, <2>4
<1> HIDE DEF Q
<1>4. n \in Q
  <2>1. \A k \in 0..n : k \in Q
    BY <1>1, <1>2, <1>3, EachStep
  <2> QED
    BY <1>1, <2>1
<1> QED
  BY <1>1, <1>4 DEF Q

\* JSON is requested only by an argument that says so.
LEMMA ScanIsTold ==
  ASSUME NEW a \in Seq(Args!Arguments), NEW stop \in BOOLEAN,
         Args!scanControlFlags(a, stop).json
  PROVE  \E j \in 1..Len(a) : a[j] = "--json"
<1> DEFINE n == Len(a)
<1>1. n \in Nat /\ \A i \in 1..n : a[i] \in Args!Arguments
  OBVIOUS
<1>2. PICK g : IsScan(g, a, stop) /\ g[n].json
  BY ScanRuns
<1> DEFINE Q == {k \in 0..n : g[k].json => \E j \in 1..k : a[j] = "--json"}
<1>3. 0 \in Q
  BY <1>1, <1>2 DEF IsScan, Args!ScanStart
<1>4. ASSUME NEW k \in 0..n, k \in Q, k < n PROVE k + 1 \in Q
  <2>1. k + 1 \in 1..n /\ (k + 1) - 1 = k /\ 1..k \subseteq 1..(k + 1)
    BY <1>1, <1>4
  <2>2. g[k] \in ScanStates /\ g[k + 1] = Args!ScanNext(g[k], a[k + 1], stop)
    BY <1>2, <2>1 DEF IsScan
  <2>3. g[k + 1].json => g[k].json \/ a[k + 1] = "--json"
    <3>1. CASE g[k].done \/ g[k].skip
      BY <2>2, <3>1, ScanPasses DEF ScanStates
    <3>2. CASE ~g[k].done /\ ~g[k].skip
      BY <1>1, <2>1, <2>2, <3>2, ScanLooks
    <3> QED
      BY <3>1, <3>2
  <2> QED
    BY <1>1, <1>4, <2>1, <2>3
<1> HIDE DEF Q
<1>5. n \in Q
  <2>1. \A k \in 0..n : k \in Q
    BY <1>1, <1>3, <1>4, EachStep
  <2> QED
    BY <1>1, <2>1
<1> QED
  BY <1>2, <1>5 DEF Q

\* So is the parser's --json.
LEMMA ParseIsTold ==
  ASSUME NEW a \in Seq(Args!Arguments), NEW c \in FlagCommands
  PROVE  LET p == Args!FlagParse(Args!Defined(c), a)
         IN  /\ p \in ParseStates
             /\ p.json = "on" => \E j \in 1..Len(a) : a[j] = "--json"
             /\ p.json = "off" => \E j \in 1..Len(a) : a[j] = "--json=false"
<1> DEFINE n == Len(a)
           Said(k, x) == \E j \in 1..k : a[j] = x
<1>1. n \in Nat /\ \A i \in 1..n : a[i] \in Args!Arguments
  OBVIOUS
<1>2. PICK g : /\ IsParse(g, a, Args!Defined(c))
               /\ Args!FlagParse(Args!Defined(c), a) = g[n]
  BY ParseRuns
<1> DEFINE Q == {k \in 0..n : /\ g[k].json = "on" => Said(k, "--json")
                              /\ g[k].json = "off" => Said(k, "--json=false")}
<1>3. 0 \in Q
  BY <1>1, <1>2 DEF IsParse, Args!ParseStart
<1>4. ASSUME NEW k \in 0..n, k \in Q, k < n PROVE k + 1 \in Q
  <2>1. k + 1 \in 1..n /\ (k + 1) - 1 = k /\ 1..k \subseteq 1..(k + 1)
    BY <1>1, <1>4
  <2>2. /\ g[k] \in ParseStates
        /\ g[k + 1] = Args!ParseNext(Args!Defined(c), g[k], a[k + 1])
    BY <1>2, <2>1 DEF IsParse
  <2>3. g[k + 1].json = g[k].json
        \/ (g[k + 1].json = "on" /\ a[k + 1] = "--json")
        \/ (g[k + 1].json = "off" /\ a[k + 1] = "--json=false")
    <3>1. CASE g[k].state = "flags"
      <4>1. a[k + 1] \in Args!Arguments
        BY <1>1, <2>1
      <4>2. ASSUME NEW b \in Args!Arguments, NEW p \in ParseStates, p.state = "flags"
            PROVE  Args!ParseNext(Args!Defined(c), p, b).json
                      = IF b = "--json" THEN "on"
                        ELSE IF b = "--json=false" THEN "off" ELSE p.json
        BY <4>2, ParseLooks DEF ParseStates
      <4> QED
        BY <2>2, <3>1, <4>1, <4>2
    <3>2. CASE g[k].state # "flags"
      BY <2>2, <3>2 DEF Args!ParseNext, ParseStates
    <3> QED
      BY <3>1, <3>2
  <2> QED
    BY <1>1, <1>4, <2>1, <2>3
<1> HIDE DEF Q
<1>5. n \in Q
  <2>1. \A k \in 0..n : k \in Q
    BY <1>1, <1>3, <1>4, EachStep
  <2> QED
    BY <1>1, <2>1
<1>6. g[n] \in ParseStates
  BY <1>1, <1>2 DEF IsParse
<1> QED
  BY <1>2, <1>5, <1>6 DEF Q

\* The scan finds a --json that every reader would find.
LEMMA ScanFinds ==
  ASSUME NEW a \in Seq(Args!Arguments), NEW stop \in BOOLEAN, NEW i \in 1..Len(a),
         a[i] = "--json",
         \A j \in 1..(i - 1) : a[j] \in {"sub", "--json", "--strict", "--bogus"},
         \A j \in 1..(i - 1) : a[j] = "sub" /\ stop =>
            \E k \in 1..(j - 1) : a[k] = "--bogus"
  PROVE  Args!scanControlFlags(a, stop).json
<1> DEFINE n == Len(a)
           Bogus(k) == \E j \in 1..k : a[j] = "--bogus"
<1>1. n \in Nat /\ \A k \in 1..n : a[k] \in Args!Arguments
  OBVIOUS
<1>2. PICK g : /\ IsScan(g, a, stop)
               /\ Args!scanControlFlags(a, stop).json = g[n].json
  BY ScanRuns
<1> DEFINE Q == {k \in 0..n : k < i => ~g[k].skip /\ ~g[k].done
                                       /\ (Bogus(k) => g[k].unknown)}
<1>3. 0 \in Q
  BY <1>1, <1>2 DEF IsScan, Args!ScanStart
<1>4. ASSUME NEW k \in 0..n, k \in Q, k < n PROVE k + 1 \in Q
  <2> SUFFICES ASSUME k + 1 < i
               PROVE  ~g[k + 1].skip /\ ~g[k + 1].done /\ (Bogus(k + 1) => g[k + 1].unknown)
    BY <1>1, <1>4
  <2>1. k + 1 \in 1..n /\ (k + 1) - 1 = k /\ k + 1 \in 1..(i - 1) /\ k < i
    BY <1>1, <1>4
  <2>2. g[k] \in ScanStates /\ g[k + 1] = Args!ScanNext(g[k], a[k + 1], stop)
    BY <1>2, <2>1 DEF IsScan
  <2>3. ~g[k].skip /\ ~g[k].done /\ (Bogus(k) => g[k].unknown)
    BY <1>4, <2>1
  <2>4. a[k + 1] \in {"sub", "--json", "--strict", "--bogus"}
        /\ (a[k + 1] = "sub" /\ stop => Bogus(k))
    BY <2>1
  <2>5. Bogus(k + 1) => Bogus(k) \/ a[k + 1] = "--bogus"
    BY <1>1
  <2>6. /\ g[k + 1].done <=> a[k + 1] = "--"
                             \/ (a[k + 1] \in {"word", "sub"} /\ stop /\ ~g[k].unknown)
        /\ g[k + 1].skip <=> a[k + 1] \in {"--hosts-file", "--file", "--command"}
        /\ g[k + 1].unknown <=> g[k].unknown \/ a[k + 1] = "--bogus"
    BY <1>1, <2>1, <2>2, <2>3, ScanLooks
  <2> HIDE DEF Bogus
  <2> QED
    BY <2>3, <2>4, <2>5, <2>6
<1> HIDE DEF Q
<1>5. i - 1 \in Q
  <2>1. \A k \in 0..n : k \in Q
    BY <1>1, <1>3, <1>4, EachStep
  <2> QED
    BY <1>1, <2>1
<1>6. ~g[i - 1].skip /\ ~g[i - 1].done
  BY <1>1, <1>5 DEF Q
<1>7. g[i - 1] \in ScanStates /\ g[i] = Args!ScanNext(g[i - 1], a[i], stop)
  BY <1>1, <1>2 DEF IsScan
<1>8. g[i].json
  BY <1>1, <1>6, <1>7, ScanLooks
<1> QED
  BY <1>1, <1>2, <1>8, ScanKeeps

\* A help that the first argument asks for is asked for by all of them.
LEMMA HeadHelp ==
  ASSUME NEW a \in Seq(Args!Arguments), a # <<>>, Args!hasHelp(<<Head(a)>>)
  PROVE  Args!hasHelp(a) /\ Head(a) # "sub"
<1> DEFINE n == Len(a)
           b == <<Head(a)>>
<1>1. n \in Nat \ {0} /\ a[1] \in Args!Arguments /\ Head(a) = a[1]
  OBVIOUS
<1>2. b \in Seq(Args!Arguments) /\ Len(b) = 1 /\ b[1] = a[1]
  BY <1>1
<1> HIDE DEF b
<1>3. PICK h : IsScan(h, b, FALSE) /\ Args!scanControlFlags(b, FALSE).help = h[1].help
  BY <1>2, ScanRuns
<1>4. PICK g : /\ IsScan(g, a, FALSE)
               /\ Args!scanControlFlags(a, FALSE).help = g[n].help
  BY ScanRuns
<1>5. h[1] = Args!ScanNext(Args!ScanStart, a[1], FALSE)
  <2>1. h[0] = Args!ScanStart
    BY <1>3 DEF IsScan
  <2>2. h[1] = Args!ScanNext(h[0], b[1], FALSE)
    <3>1. 0 \in Nat /\ 1 \in Nat /\ 1 = 0 + 1 /\ 1 <= Len(b) /\ FALSE \in BOOLEAN
      BY <1>2
    <3> QED
      BY <1>2, <1>3, <3>1, ScanAt, Zenon
  <2> QED
    BY <1>2, <2>1, <2>2
<1>6. g[1] = Args!ScanNext(Args!ScanStart, a[1], FALSE)
  <2>1. g[0] = Args!ScanStart
    BY <1>4 DEF IsScan
  <2>2. g[1] = Args!ScanNext(g[0], a[1], FALSE)
    <3>1. 0 \in Nat /\ 1 \in Nat /\ 1 = 0 + 1 /\ 1 <= Len(a) /\ FALSE \in BOOLEAN
      BY <1>1
    <3> QED
      BY <1>4, <3>1, ScanAt, Zenon
  <2> QED
    BY <2>1, <2>2
<1>7. h[1].help
  BY <1>3 DEF b, Args!hasHelp
<1>8. g[n].help
  <2>1. g[1].help
    BY <1>5, <1>6, <1>7, Zenon
  <2>2. 1 \in 0..n /\ FALSE \in BOOLEAN
    BY <1>1
  <2> QED
    BY <1>4, <2>1, <2>2, ScanKeeps, Zenon
<1>9. Args!ScanStart \in ScanStates /\ ~Args!ScanStart.done /\ ~Args!ScanStart.skip
      /\ ~Args!ScanStart.help
  BY DEF Args!ScanStart, ScanStates
<1>10. a[1] = "--help"
  <2>1. Args!ScanNext(Args!ScanStart, a[1], FALSE).help
          <=> Args!ScanStart.help \/ a[1] = "--help"
    BY <1>1, <1>9, ScanLooks
  <2> QED
    BY <1>5, <1>7, <1>9, <2>1
<1> QED
  BY <1>1, <1>4, <1>8, <1>10 DEF Args!hasHelp

\* A scan that does not stop is not changed by the name of a subcommand.
LEMMA TailScans ==
  ASSUME NEW a \in Seq(Args!Arguments), a # <<>>, Head(a) = "sub"
  PROVE  /\ Tail(a) \in Seq(Args!Arguments)
         /\ Args!hasHelp(a) = Args!hasHelp(Tail(a))
         /\ Args!requestedJSON(a) = Args!requestedJSON(Tail(a))
<1> DEFINE n == Len(a)
           b == Tail(a)
<1>1. /\ n \in Nat \ {0} /\ a[1] = "sub" /\ \A i \in 1..n : a[i] \in Args!Arguments
      /\ b \in Seq(Args!Arguments) /\ Len(b) = n - 1
      /\ \A i \in 1..(n - 1) : b[i] = a[i + 1]
  OBVIOUS
<1> HIDE DEF b
<1>2. PICK g : /\ IsScan(g, a, FALSE)
               /\ Args!scanControlFlags(a, FALSE).help = g[n].help
               /\ Args!scanControlFlags(a, FALSE).json = g[n].json
  BY ScanRuns
<1>3. PICK h : /\ IsScan(h, b, FALSE)
               /\ Args!scanControlFlags(b, FALSE).help = h[n - 1].help
               /\ Args!scanControlFlags(b, FALSE).json = h[n - 1].json
  BY <1>1, ScanRuns
<1> DEFINE Q == {k \in 0..(n - 1) : g[k + 1] = h[k]}
<1>4. 0 \in Q
  <2>1. g[0] = Args!ScanStart /\ h[0] = Args!ScanStart
    BY <1>2, <1>3 DEF IsScan
  <2>2. g[1] = Args!ScanNext(g[0], a[1], FALSE)
    <3>1. 0 \in Nat /\ 1 \in Nat /\ 1 = 0 + 1 /\ 1 <= n /\ FALSE \in BOOLEAN
      BY <1>1
    <3> QED
      BY <1>2, <3>1, ScanAt, Zenon
  <2>3. Args!ScanNext(Args!ScanStart, "sub", FALSE) = Args!ScanStart
    <3>1. "sub" \in Args!Arguments /\ "sub" \notin Args!Options
      BY DEF Args!Arguments, Args!Options, Args!Switches
    <3>2. ~Args!controlScanFlagTakesValue(Args!Name("sub"))
      BY <3>1, OptionNames
    <3> QED
      BY <3>2 DEF Args!ScanNext, Args!ScanStart, Args!Dashed
  <2>4. g[1] = h[0]
    BY <1>1, <2>1, <2>2, <2>3, Zenon
  <2> QED
    BY <1>1, <2>4
<1>5. ASSUME NEW k \in 0..(n - 1), k \in Q, k < n - 1 PROVE k + 1 \in Q
  <2>1. k + 1 \in 1..(n - 1) /\ k + 2 \in 1..n /\ (k + 1) - 1 = k
        /\ (k + 2) - 1 = k + 1 /\ (k + 1) + 1 = k + 2
    BY <1>1, <1>5
  <2>2. h[k + 1] = Args!ScanNext(h[k], b[k + 1], FALSE)
    <3>1. k \in Nat /\ k + 1 \in Nat /\ k + 1 = k + 1 /\ k + 1 <= Len(b) /\ FALSE \in BOOLEAN
      BY <1>1, <2>1
    <3>2. b \in Seq(Args!Arguments)
      BY <1>1
    <3>3. IsScan(h, b, FALSE)
      BY <1>3
    <3> QED
      BY <3>1, <3>2, <3>3, ScanAt, Zenon
  <2>3. g[k + 2] = Args!ScanNext(g[k + 1], a[k + 2], FALSE)
    <3>1. /\ k + 1 \in Nat /\ k + 2 \in Nat /\ k + 2 = (k + 1) + 1
          /\ k + 2 <= n /\ FALSE \in BOOLEAN
      BY <1>1, <2>1
    <3> QED
      BY <1>2, <3>1, ScanAt, Zenon
  <2>4. b[k + 1] = a[k + 2] /\ g[k + 1] = h[k]
    BY <1>1, <1>5, <2>1
  <2>5. g[k + 2] = h[k + 1]
    BY <2>2, <2>3, <2>4, Zenon
  <2> QED
    BY <2>1, <2>5
<1> HIDE DEF Q
<1>6. n - 1 \in Nat /\ n - 1 \in 0..(n - 1) /\ (n - 1) + 1 = n
  BY <1>1
<1>7. n - 1 \in Q
  <2>1. \A k \in 0..(n - 1) : k \in Q
    BY <1>4, <1>5, <1>6, EachStep
  <2> QED
    BY <1>6, <2>1
<1>8. g[n] = h[n - 1]
  BY <1>6, <1>7 DEF Q
<1>9. Args!hasHelp(a) = Args!hasHelp(b) /\ Args!requestedJSON(a) = Args!requestedJSON(b)
  BY <1>2, <1>3, <1>8 DEF Args!hasHelp, Args!requestedJSON
<1> QED
  BY <1>1, <1>9 DEF b

-----------------------------------------------------------------------------
(* CommandLine: the steps.                                                  *)

ArgsTypes ==
    /\ globalJSON \in BOOLEAN /\ jsonMode \in BOOLEAN
    /\ command \in Args!modernCommands \cup {"none", "--help", "unknown", "-x"}
    /\ args \in Seq(Args!Arguments)

SubcommandGiven == command \in {"hosts", "config"} => args # <<>> /\ Head(args) = "sub"

Scanned == Args!scanControlFlags(Args!FlagArgs, command = "run")

\* Before the parser runs, its arguments have been scanned.
ScannedFirst ==
    step = "parse" =>
        /\ command \in FlagCommands /\ SubcommandGiven
        /\ jsonMode <=> globalJSON \/ Scanned.json
        /\ ~Scanned.help

\* AnticipatesParser and FormTruthful of one outcome.
Anticipated(kind) ==
    command \in FlagCommands =>
        /\ Args!Legal => kind = "proceed"
        /\ SubcommandGiven /\ Args!Parse.state = "help" => kind = "help"

SaidFalse == "--json=false" \in Args!Range(args)
SaidJSON  == "--json" \in Args!Range(args)

Truthful(kind, form) ==
    /\ kind = "proceed" /\ command \in FlagCommands =>
          (form = "json"
             <=> IF command = "run" THEN globalJSON \/ Args!Parse.json = "on"
                                    ELSE Args!JsonSet(Args!Parse, globalJSON))
    /\ kind \in {"usage", "help"} =>
          /\ globalJSON /\ ~SaidFalse => form = "json"
          /\ command \in Args!modernCommands /\ Args!SaysJSON /\ ~SaidFalse => form = "json"
          /\ ~globalJSON /\ ~SaidJSON => form # "json"

OutcomeKnown ==
    step = "done" => Anticipated(outcome.kind) /\ Truthful(outcome.kind, outcome.form)

ArgsInv == ArgsTypes /\ ScannedFirst /\ OutcomeKnown

LEMMA OutcomeSays ==
  ASSUME OutcomeKnown
  PROVE  Args!AnticipatesParser /\ Args!FormTruthful
BY DEF OutcomeKnown, Anticipated, Truthful, SaidFalse, SaidJSON, SubcommandGiven,
       FlagCommands, Args!AnticipatesParser, Args!FormTruthful, Args!HasFlagSet

\* Which words say JSON.
LEMMA Saying ==
  ASSUME ArgsTypes
  PROVE  /\ SaidJSON <=> \E j \in 1..Len(args) : args[j] = "--json"
         /\ SaidFalse <=> \E j \in 1..Len(args) : args[j] = "--json=false"
<1>1. DOMAIN args = 1..Len(args)
  BY DEF ArgsTypes
<1> QED
  BY <1>1 DEF SaidJSON, SaidFalse, Args!Range

LEMMA ScanTypes ==
  ASSUME NEW a \in Seq(Args!Arguments), NEW stop \in BOOLEAN
  PROVE  /\ Args!scanControlFlags(a, stop).help \in BOOLEAN
         /\ Args!scanControlFlags(a, stop).json \in BOOLEAN
<1>1. PICK g : /\ IsScan(g, a, stop)
               /\ Args!scanControlFlags(a, stop).help = g[Len(a)].help
               /\ Args!scanControlFlags(a, stop).json = g[Len(a)].json
  BY ScanRuns
<1>2. g[Len(a)] \in ScanStates
  BY <1>1 DEF IsScan
<1> QED
  BY <1>1, <1>2 DEF ScanStates

LEMMA SaysIsScanned ==
  ASSUME ArgsTypes
  PROVE  /\ Args!SaysJSON => Args!scanControlFlags(args, command = "run").json
         /\ Args!scanControlFlags(args, command = "run").json => SaidJSON
<1>1. args \in Seq(Args!Arguments) /\ DOMAIN args = 1..Len(args) /\ (command = "run") \in BOOLEAN
  BY DEF ArgsTypes
<1>2. ASSUME Args!SaysJSON PROVE Args!scanControlFlags(args, command = "run").json
  <2>1. PICK i \in 1..Len(args) :
           /\ args[i] = "--json"
           /\ \A j \in 1..(i - 1) : args[j] \in {"sub", "--json", "--strict", "--bogus"}
           /\ \A j \in 1..(i - 1) : args[j] = "sub" =>
                 command # "run" \/ \E k \in 1..(j - 1) : args[k] = "--bogus"
    BY <1>1, <1>2 DEF Args!SaysJSON
  <2> QED
    BY <1>1, <2>1, ScanFinds
<1>3. ASSUME Args!scanControlFlags(args, command = "run").json PROVE SaidJSON
  BY <1>1, <1>3, ScanIsTold, Saying
<1> QED
  BY <1>2, <1>3

\* The parser of a command with a FlagSet and the scan of the same arguments.
LEMMA ParserScanned ==
  ASSUME ArgsTypes, command \in FlagCommands, SubcommandGiven
  PROVE  /\ Args!Parse \in ParseStates
         /\ Followed(command, Args!Parse) => ~Scanned.help
         /\ Followed(command, Args!Parse) /\ Args!Parse.json = "unset" => ~Scanned.json
         /\ Args!Parse.state = "help" => Scanned.help
         /\ Args!Parse.delimiter => Args!hasArgumentDelimiter(Args!FlagArgs)
         /\ Args!Parse.json = "on" => SaidJSON
         /\ Args!Parse.json = "off" => SaidFalse
<1> DEFINE a == Args!FlagArgs
<1>1. a \in Seq(Args!Arguments) /\ \A x : (\E j \in 1..Len(a) : a[j] = x) =>
                                          \E j \in 1..Len(args) : args[j] = x
  <2>1. CASE command \in {"hosts", "config"}
    <3>1. a = Tail(args) /\ args # <<>>
      BY <2>1 DEF Args!FlagArgs, SubcommandGiven
    <3>2. /\ Tail(args) \in Seq(Args!Arguments) /\ Len(Tail(args)) = Len(args) - 1
          /\ \A j \in 1..Len(Tail(args)) : j + 1 \in 1..Len(args)
                                           /\ Tail(args)[j] = args[j + 1]
      BY <3>1 DEF ArgsTypes
    <3> HIDE DEF a
    <3> QED
      BY <3>1, <3>2
  <2>2. CASE command \notin {"hosts", "config"}
    <3>1. a = args
      BY <2>2 DEF Args!FlagArgs
    <3> QED
      BY <3>1 DEF ArgsTypes
  <2> QED
    BY <2>1, <2>2
<1>2. Args!Parse = Args!FlagParse(Args!Defined(command), a)
  BY DEF Args!Parse
<1> HIDE DEF a
<1>3. PICK s \in ScanStates, w \in LookStates :
         /\ Follows(command, Args!Parse, s, w)
         /\ Args!scanControlFlags(a, command = "run").help = s.help
         /\ Args!scanControlFlags(a, command = "run").json = s.json
         /\ Args!hasArgumentDelimiter(a) = w.found
  BY <1>1, <1>2, FollowsAll
<1>4. /\ Args!Parse \in ParseStates
      /\ Args!Parse.json = "on" => SaidJSON
      /\ Args!Parse.json = "off" => SaidFalse
  <2>1. /\ Args!Parse \in ParseStates
        /\ Args!Parse.json = "on" => \E j \in 1..Len(a) : a[j] = "--json"
        /\ Args!Parse.json = "off" => \E j \in 1..Len(a) : a[j] = "--json=false"
    BY <1>1, <1>2, ParseIsTold
  <2> QED
    BY <1>1, <2>1, Saying
<1>5. Scanned.help = s.help /\ Scanned.json = s.json
  BY <1>3 DEF Scanned, a
<1>6. /\ Followed(command, Args!Parse) => ~s.help
      /\ Followed(command, Args!Parse) /\ Args!Parse.json = "unset" => ~s.json
      /\ Args!Parse.state = "help" => s.help
      /\ Args!Parse.delimiter => w.found
  BY <1>3 DEF Follows
<1> QED
  BY <1>3, <1>4, <1>5, <1>6 DEF a

LEMMA LegalIsFollowed ==
  ASSUME ArgsTypes, command \in FlagCommands, Args!Legal
  PROVE  SubcommandGiven /\ Followed(command, Args!Parse)
<1>1. SubcommandGiven /\ Args!Parse.state \in {"flags", "rest"}
  BY DEF Args!Legal, SubcommandGiven, Args!Parsed
<1>2. command # "run" => Args!Parse.rest = <<>>
  BY DEF Args!Legal, FlagCommands
<1> QED
  BY <1>1, <1>2 DEF Followed

\* The name of the subcommand makes no difference to the scan.
LEMMA ScannedWhole ==
  ASSUME ArgsTypes, command \in FlagCommands, SubcommandGiven
  PROVE  /\ Scanned.json = Args!scanControlFlags(args, command = "run").json
         /\ Scanned.help = Args!scanControlFlags(args, command = "run").help
<1>1. CASE command \in {"hosts", "config"}
  <2>1. Args!FlagArgs = Tail(args) /\ args # <<>> /\ Head(args) = "sub"
    BY <1>1 DEF Args!FlagArgs, SubcommandGiven
  <2>2. (command = "run") = FALSE
    BY <1>1
  <2>3. /\ Args!hasHelp(args) = Args!hasHelp(Tail(args))
        /\ Args!requestedJSON(args) = Args!requestedJSON(Tail(args))
    BY <2>1, TailScans DEF ArgsTypes
  <2>4. Scanned = Args!scanControlFlags(Tail(args), FALSE)
    BY <2>1, <2>2, Zenon DEF Scanned
  <2>5. Args!scanControlFlags(args, command = "run") = Args!scanControlFlags(args, FALSE)
    BY <2>2, Zenon
  <2> QED
    BY <2>3, <2>4, <2>5, Zenon DEF Args!hasHelp, Args!requestedJSON
<1>2. CASE command \notin {"hosts", "config"}
  BY <1>2 DEF Scanned, Args!FlagArgs
<1> QED
  BY <1>1, <1>2

\* Whether JSON is written fits what the arguments say.
Fitting(form) ==
    /\ globalJSON /\ ~SaidFalse => form
    /\ command \in Args!modernCommands /\ Args!SaysJSON /\ ~SaidFalse => form
    /\ ~globalJSON /\ ~SaidJSON => ~form

LEMMA ScanFits ==
  ASSUME ArgsTypes
  PROVE  Fitting(globalJSON \/ Args!scanControlFlags(args, command = "run").json)
BY SaysIsScanned DEF Fitting

ArgsKept == UNCHANGED <<globalJSON, command, args>>

LEMMA OutcomeKept ==
  ASSUME ArgsTypes, ArgsKept, NEW k, NEW o, NEW e, step' = "done",
         outcome' = [kind |-> k, form |-> o, exit |-> e], jsonMode' \in BOOLEAN,
         Anticipated(k), Truthful(k, o)
  PROVE  ArgsInv'
<1>1. globalJSON' = globalJSON /\ command' = command /\ args' = args
  BY DEF ArgsKept
<1>2. ArgsTypes' /\ ScannedFirst'
  BY <1>1 DEF ArgsTypes, ScannedFirst
<1>3. /\ SubcommandGiven' = SubcommandGiven /\ Args!Parse' = Args!Parse
      /\ SaidFalse' = SaidFalse /\ SaidJSON' = SaidJSON
  BY <1>1 DEF SubcommandGiven, Args!Parse, Args!FlagArgs, SaidFalse, SaidJSON
<1>4. Args!Legal' = Args!Legal /\ Args!SaysJSON' = Args!SaysJSON
  BY <1>1, <1>3 DEF Args!Legal, Args!SaysJSON
<1>5. outcome'.kind = k /\ outcome'.form = o
  OBVIOUS
<1>6. (Anticipated(outcome.kind))'
  BY <1>1, <1>3, <1>4, <1>5 DEF Anticipated
<1>7. (Truthful(outcome.kind, outcome.form))'
  BY <1>1, <1>3, <1>4, <1>5 DEF Truthful
<1> QED
  BY <1>2, <1>6, <1>7 DEF ArgsInv, OutcomeKnown

LEMMA UsageKept ==
  ASSUME ArgsTypes, NEW json_ \in BOOLEAN, Args!renderUsageError(json_),
         Anticipated("usage"), Fitting(json_)
  PROVE  ArgsInv'
<1> DEFINE o == IF json_ THEN "json" ELSE "nothing"
<1>1. /\ ArgsKept /\ step' = "done" /\ jsonMode' \in BOOLEAN
      /\ outcome' = [kind |-> "usage", form |-> o, exit |-> 2]
  BY DEF Args!renderUsageError, Args!Did, ArgsKept
<1>2. Truthful("usage", o)
  BY DEF Truthful, Fitting
<1> HIDE DEF o
<1> QED
  BY <1>1, <1>2, OutcomeKept

LEMMA HelpKept ==
  ASSUME ArgsTypes, Args!ShowHelp, Anticipated("help"), Fitting(FALSE)
  PROVE  ArgsInv'
<1>1. PICK e : /\ ArgsKept /\ step' = "done" /\ jsonMode' \in BOOLEAN
               /\ outcome' = [kind |-> "help", form |-> "text", exit |-> e]
  BY DEF Args!ShowHelp, Args!Did, ArgsKept, ArgsTypes
<1>2. Truthful("help", "text")
  BY DEF Truthful, Fitting
<1> QED
  BY <1>1, <1>2, OutcomeKept

LEMMA JSONHelpKept ==
  ASSUME ArgsTypes, Args!renderJSONHelpError, Anticipated("help"), Fitting(TRUE)
  PROVE  ArgsInv'
<1>1. /\ ArgsKept /\ step' = "done" /\ jsonMode' \in BOOLEAN
      /\ outcome' = [kind |-> "help", form |-> "json", exit |-> 2]
  BY DEF Args!renderJSONHelpError, Args!Did, ArgsKept
<1>2. Truthful("help", "json")
  BY DEF Truthful, Fitting
<1> QED
  BY <1>1, <1>2, OutcomeKept

LEMMA ProceedKept ==
  ASSUME ArgsTypes, NEW json_ \in BOOLEAN, Args!Proceed(json_), Anticipated("proceed"),
         command \in FlagCommands =>
            (json_ <=> IF command = "run" THEN globalJSON \/ Args!Parse.json = "on"
                       ELSE Args!JsonSet(Args!Parse, globalJSON))
  PROVE  ArgsInv'
<1> DEFINE o == IF json_ THEN "json" ELSE "text"
<1>1. /\ ArgsKept /\ step' = "done" /\ jsonMode' \in BOOLEAN
      /\ outcome' = [kind |-> "proceed", form |-> o, exit |-> 0]
  BY DEF Args!Proceed, Args!Did, ArgsKept
<1>2. Truthful("proceed", o)
  <2>1. o = "json" <=> json_
    OBVIOUS
  <2> HIDE DEF o
  <2> QED
    BY <2>1 DEF Truthful
<1> HIDE DEF o
<1> QED
  BY <1>1, <1>2, OutcomeKept

\* A command that goes on to its parser or its work leaves the rest alone.
LEMMA Scanning ==
  ASSUME ArgsTypes, ArgsKept, jsonMode' \in BOOLEAN, step' \in {"scan", "parse"},
         step' = "parse" => /\ command \in FlagCommands /\ SubcommandGiven
                            /\ jsonMode' <=> globalJSON \/ Scanned.json
                            /\ ~Scanned.help
  PROVE  ArgsInv'
<1>1. globalJSON' = globalJSON /\ command' = command /\ args' = args
  BY DEF ArgsKept
<1>2. ArgsTypes' /\ OutcomeKnown'
  BY <1>1 DEF ArgsTypes, OutcomeKnown
<1>3. SubcommandGiven' = SubcommandGiven /\ Scanned' = Scanned
  BY <1>1 DEF SubcommandGiven, Scanned, Args!FlagArgs
<1>4. ScannedFirst'
  BY <1>1, <1>3 DEF ScannedFirst
<1> QED
  BY <1>2, <1>4 DEF ArgsInv

LEMMA DispatchKeeps ==
  ASSUME ArgsInv, Args!Dispatch
  PROVE  ArgsInv'
<1>1. ArgsTypes
  BY DEF ArgsInv
<1>2. ASSUME command \notin Args!modernCommands
      PROVE  /\ \A k : Anticipated(k)
             /\ globalJSON => Fitting(TRUE)
             /\ ~globalJSON => Fitting(FALSE)
             /\ Fitting(globalJSON)
  BY <1>1, <1>2 DEF Anticipated, Fitting, FlagCommands, Args!modernCommands, ArgsTypes
<1>3. CASE command \in Args!modernCommands /\ step' = "scan"
           /\ UNCHANGED <<globalJSON, command, args, jsonMode, outcome>>
  <2>1. ArgsKept /\ jsonMode' \in BOOLEAN
    BY <1>1, <1>3 DEF ArgsKept, ArgsTypes
  <2> QED
    BY <1>1, <1>3, <2>1, Scanning
<1>4. CASE command = "--help" /\ globalJSON /\ Args!renderJSONHelpError
  BY <1>1, <1>2, <1>4, JSONHelpKept DEF Args!modernCommands
<1>5. CASE command = "--help" /\ ~globalJSON /\ Args!ShowHelp
  BY <1>1, <1>2, <1>5, HelpKept DEF Args!modernCommands
<1>6. CASE command \in {"none", "unknown", "-x"} /\ Args!renderUsageError(globalJSON)
  <2>1. globalJSON \in BOOLEAN /\ command \notin Args!modernCommands
    BY <1>1, <1>6 DEF ArgsTypes, Args!modernCommands
  <2> QED
    BY <1>1, <1>2, <1>6, <2>1, UsageKept
<1>7. CASE command = "-x" /\ Args!Did("legacy", "text", 0) /\ UNCHANGED jsonMode
  <2>1. /\ ArgsKept /\ step' = "done" /\ jsonMode' \in BOOLEAN
        /\ outcome' = [kind |-> "legacy", form |-> "text", exit |-> 0]
    BY <1>1, <1>7 DEF Args!Did, ArgsKept, ArgsTypes
  <2>2. Anticipated("legacy") /\ Truthful("legacy", "text")
    BY <1>2, <1>7 DEF Truthful, Args!modernCommands
  <2> QED
    BY <1>1, <2>1, <2>2, OutcomeKept
<1> QED
  BY <1>3, <1>4, <1>5, <1>6, <1>7 DEF Args!Dispatch

\* The scan that the commands without a mode of their own make.
LEMMA RequestFits ==
  ASSUME ArgsTypes, command # "run"
  PROVE  /\ globalJSON \/ Args!requestedJSON(args) \in BOOLEAN
         /\ Fitting(globalJSON \/ Args!requestedJSON(args))
         /\ globalJSON \/ Args!requestedJSON(args) => Fitting(TRUE)
         /\ ~(globalJSON \/ Args!requestedJSON(args)) => Fitting(FALSE)
<1>1. (command = "run") = FALSE /\ FALSE \in BOOLEAN
  OBVIOUS
<1>2. Args!requestedJSON(args) = Args!scanControlFlags(args, command = "run").json
  BY <1>1, Zenon DEF Args!requestedJSON
<1>3. args \in Seq(Args!Arguments) /\ (command = "run") \in BOOLEAN /\ globalJSON \in BOOLEAN
  BY DEF ArgsTypes
<1>4. Args!scanControlFlags(args, command = "run").json \in BOOLEAN
  BY <1>3, ScanTypes
<1>5. Fitting(globalJSON \/ Args!requestedJSON(args))
  BY <1>2, ScanFits
<1> QED
  BY <1>2, <1>3, <1>4, <1>5 DEF Fitting

LEMMA HelpCommandKeeps ==
  ASSUME ArgsInv, Args!runHelp
  PROVE  ArgsInv'
<1>1. ArgsTypes /\ command # "run" /\ \A k : Anticipated(k)
  BY DEF ArgsInv, Args!runHelp, Anticipated, FlagCommands
<1>2. /\ globalJSON \/ Args!requestedJSON(args) => Fitting(TRUE)
      /\ ~(globalJSON \/ Args!requestedJSON(args)) => Fitting(FALSE)
  BY <1>1, RequestFits
<1>3. CASE (globalJSON \/ Args!requestedJSON(args)) /\ Args!renderJSONHelpError
  BY <1>1, <1>2, <1>3, JSONHelpKept
<1>4. CASE ~(globalJSON \/ Args!requestedJSON(args)) /\ Args!ShowHelp
  BY <1>1, <1>2, <1>4, HelpKept
<1>5. CASE ~(globalJSON \/ Args!requestedJSON(args)) /\ Args!renderUsageError(FALSE)
  <2>1. FALSE \in BOOLEAN /\ Anticipated("usage") /\ Fitting(FALSE)
    BY <1>1, <1>2, <1>5
  <2> QED
    BY <1>1, <1>5, <2>1, UsageKept, Zenon
<1> QED
  BY <1>3, <1>4, <1>5 DEF Args!runHelp

LEMMA CompletionKeeps ==
  ASSUME ArgsInv, Args!runCompletion
  PROVE  ArgsInv'
<1> DEFINE j == globalJSON \/ Args!requestedJSON(args)
<1>1. ArgsTypes /\ command # "run" /\ command \notin FlagCommands /\ \A k : Anticipated(k)
  BY DEF ArgsInv, Args!runCompletion, Anticipated, FlagCommands
<1>2. /\ j \in BOOLEAN /\ Fitting(j)
      /\ j => Fitting(TRUE)
      /\ ~j => Fitting(FALSE)
  <2>1. j \in BOOLEAN
    OBVIOUS
  <2> QED
    BY <1>1, <2>1, RequestFits
<1>3. \/ j /\ Args!renderJSONHelpError
      \/ ~j /\ Args!ShowHelp
      \/ Args!renderUsageError(j)
      \/ Args!Proceed(FALSE)
  BY DEF Args!runCompletion
<1> HIDE DEF j
<1>4. CASE j /\ Args!renderJSONHelpError
  BY <1>1, <1>2, <1>4, JSONHelpKept
<1>5. CASE ~j /\ Args!ShowHelp
  BY <1>1, <1>2, <1>5, HelpKept
<1>6. CASE Args!renderUsageError(j)
  BY <1>1, <1>2, <1>6, UsageKept
<1>7. CASE Args!Proceed(FALSE)
  <2>1. FALSE \in BOOLEAN
    OBVIOUS
  <2> QED
    BY <1>1, <1>7, <2>1, ProceedKept, Zenon
<1> QED
  BY <1>3, <1>4, <1>5, <1>6, <1>7

\* A help that the scan finds is none of a legal command line.
LEMMA HelpIsAnticipated ==
  ASSUME ArgsTypes, command \in FlagCommands, SubcommandGiven => Scanned.help
  PROVE  Anticipated("help")
<1>1. ASSUME Args!Legal PROVE FALSE
  <2>1. SubcommandGiven /\ Followed(command, Args!Parse)
    BY <1>1, LegalIsFollowed
  <2> QED
    BY <2>1, ParserScanned
<1> QED
  BY <1>1 DEF Anticipated

LEMMA ScanControlKeeps ==
  ASSUME ArgsInv, Args!ScanControl
  PROVE  ArgsInv'
<1> DEFINE control == Args!scanControlFlags(args, command = "run")
           j == globalJSON \/ control.json
<1>1. ArgsTypes /\ command \in {"run", "doctor", "version"}
  BY DEF ArgsInv, Args!ScanControl
<1>2. command \in FlagCommands /\ SubcommandGiven /\ Scanned = control
  BY <1>1 DEF FlagCommands, SubcommandGiven, Scanned, Args!FlagArgs
<1>3. Fitting(j) /\ j \in BOOLEAN /\ (j => Fitting(TRUE)) /\ (~j => Fitting(FALSE))
  BY <1>1, ScanFits DEF Fitting
<1>4. \/ control.help /\ j /\ Args!renderJSONHelpError
      \/ control.help /\ ~j /\ Args!ShowHelp
      \/ /\ ~control.help /\ jsonMode' = j /\ step' = "parse"
         /\ UNCHANGED <<globalJSON, command, args, outcome>>
  BY DEF Args!ScanControl
<1>5. (j <=> globalJSON \/ control.json) /\ (control.help => Anticipated("help"))
  BY <1>1, <1>2, HelpIsAnticipated
<1> HIDE DEF j
<1>6. CASE control.help /\ j /\ Args!renderJSONHelpError
  BY <1>1, <1>3, <1>5, <1>6, JSONHelpKept
<1>7. CASE control.help /\ ~j /\ Args!ShowHelp
  BY <1>1, <1>3, <1>5, <1>7, HelpKept
<1>8. CASE /\ ~control.help /\ jsonMode' = j /\ step' = "parse"
           /\ UNCHANGED <<globalJSON, command, args, outcome>>
  <2>1. ArgsKept /\ jsonMode' \in BOOLEAN
    BY <1>3, <1>8 DEF ArgsKept
  <2> QED
    BY <1>1, <1>2, <1>5, <1>8, <2>1, Scanning
<1> QED
  BY <1>4, <1>6, <1>7, <1>8

LEMMA ScanSubcommandKeeps ==
  ASSUME ArgsInv, Args!ScanSubcommand
  PROVE  ArgsInv'
<1> DEFINE j == globalJSON \/ Args!requestedJSON(args)
<1>1. ArgsTypes /\ command \in {"hosts", "config"} /\ command # "run"
  BY DEF ArgsInv, Args!ScanSubcommand
<1>2. command \in FlagCommands /\ args \in Seq(Args!Arguments)
  BY <1>1 DEF FlagCommands, ArgsTypes
<1>3. j \in BOOLEAN
  OBVIOUS
<1>4. Fitting(j) /\ (j => Fitting(TRUE)) /\ (~j => Fitting(FALSE))
  BY <1>1, RequestFits
<1>5. \/ j /\ Args!hasHelp(args) /\ Args!renderJSONHelpError
      \/ args = <<>> /\ Args!renderUsageError(j)
      \/ /\ args # <<>> /\ ~(j /\ Args!hasHelp(args))
         /\ Args!hasHelp(<<Head(args)>>) /\ Args!ShowHelp
      \/ args # <<>> /\ Head(args) # "sub" /\ Args!renderUsageError(j)
      \/ /\ args # <<>> /\ Head(args) = "sub" /\ ~(j /\ Args!hasHelp(args))
         /\ Args!hasHelp(Tail(args)) /\ Args!ShowHelp
      \/ /\ args # <<>> /\ Head(args) = "sub" /\ ~Args!hasHelp(Tail(args))
         /\ jsonMode' = j /\ step' = "parse"
         /\ UNCHANGED <<globalJSON, command, args, outcome>>
  BY DEF Args!ScanSubcommand
<1>6. ASSUME SubcommandGiven
      PROVE  /\ Scanned.help = Args!hasHelp(args)
             /\ Scanned.json = Args!requestedJSON(args)
  <2>1. (command = "run") = FALSE
    BY <1>1
  <2>2. Args!scanControlFlags(args, command = "run") = Args!scanControlFlags(args, FALSE)
    BY <2>1, Zenon
  <2>3. /\ Scanned.json = Args!scanControlFlags(args, command = "run").json
        /\ Scanned.help = Args!scanControlFlags(args, command = "run").help
    BY <1>1, <1>2, <1>6, ScannedWhole
  <2> QED
    BY <2>2, <2>3, Zenon DEF Args!hasHelp, Args!requestedJSON
<1>7. Args!hasHelp(args) => Anticipated("help")
  BY <1>1, <1>2, <1>6, HelpIsAnticipated
<1>8. (args = <<>> \/ Head(args) # "sub") => \A k : Anticipated(k)
  BY <1>1 DEF Anticipated, SubcommandGiven, Args!Legal
<1>9. j <=> globalJSON \/ Args!requestedJSON(args)
  OBVIOUS
<1> HIDE DEF j
<1>10. CASE j /\ Args!hasHelp(args) /\ Args!renderJSONHelpError
  BY <1>1, <1>4, <1>7, <1>10, JSONHelpKept
<1>11. CASE args = <<>> /\ Args!renderUsageError(j)
  BY <1>1, <1>3, <1>4, <1>8, <1>11, UsageKept
<1>12. CASE /\ args # <<>> /\ ~(j /\ Args!hasHelp(args))
            /\ Args!hasHelp(<<Head(args)>>) /\ Args!ShowHelp
  <2>1. Args!hasHelp(args) /\ Head(args) # "sub"
    BY <1>2, <1>12, HeadHelp
  <2>2. ~j
    BY <1>3, <1>12, <2>1
  <2> QED
    BY <1>1, <1>4, <1>8, <1>12, <2>1, <2>2, HelpKept
<1>13. CASE args # <<>> /\ Head(args) # "sub" /\ Args!renderUsageError(j)
  BY <1>1, <1>3, <1>4, <1>8, <1>13, UsageKept
<1>14. CASE /\ args # <<>> /\ Head(args) = "sub" /\ ~(j /\ Args!hasHelp(args))
            /\ Args!hasHelp(Tail(args)) /\ Args!ShowHelp
  <2>1. Args!hasHelp(args)
    BY <1>2, <1>14, TailScans
  <2>2. ~j
    BY <1>3, <1>14, <2>1
  <2> QED
    BY <1>1, <1>4, <1>7, <1>14, <2>1, <2>2, HelpKept
<1>15. CASE /\ args # <<>> /\ Head(args) = "sub" /\ ~Args!hasHelp(Tail(args))
            /\ jsonMode' = j /\ step' = "parse"
            /\ UNCHANGED <<globalJSON, command, args, outcome>>
  <2>1. ArgsKept /\ jsonMode' \in BOOLEAN /\ SubcommandGiven
    BY <1>3, <1>15 DEF ArgsKept, SubcommandGiven
  <2>2. Args!hasHelp(args) = Args!hasHelp(Tail(args))
    BY <1>2, <1>15, TailScans
  <2>3. ~Scanned.help /\ (jsonMode' <=> globalJSON \/ Scanned.json)
    BY <1>6, <1>9, <1>15, <2>1, <2>2
  <2> QED
    BY <1>1, <1>2, <1>15, <2>1, <2>3, Scanning
<1> QED
  BY <1>5, <1>10, <1>11, <1>12, <1>13, <1>14, <1>15

\* What the parser makes of arguments that were scanned: the form of a refusal
\* fits, and the form of a command that goes on is what the parser says.
LEMMA ParsedForm ==
  ASSUME ArgsInv, step = "parse"
  PROVE  /\ ArgsTypes /\ command \in FlagCommands /\ SubcommandGiven
         /\ Args!JsonSet(Args!Parse, jsonMode) \in BOOLEAN
         /\ Args!RunForm \in BOOLEAN
         /\ Fitting(Args!JsonSet(Args!Parse, jsonMode))
         /\ Fitting(Args!RunForm)
         /\ ~Args!Legal => Anticipated("usage")
         /\ Followed(command, Args!Parse) =>
               /\ Args!RunForm <=> globalJSON \/ Args!Parse.json = "on"
               /\ Args!JsonSet(Args!Parse, jsonMode)
                     <=> Args!JsonSet(Args!Parse, globalJSON)
         /\ Anticipated("proceed")
<1>1. /\ ArgsTypes /\ command \in FlagCommands /\ SubcommandGiven
      /\ jsonMode <=> globalJSON \/ Scanned.json
      /\ ~Scanned.help
  BY DEF ArgsInv, ScannedFirst
<1>2. /\ Args!Parse \in ParseStates
      /\ Followed(command, Args!Parse) /\ Args!Parse.json = "unset" => ~Scanned.json
      /\ Args!Parse.state # "help"
      /\ Args!Parse.json = "on" => SaidJSON
      /\ Args!Parse.json = "off" => SaidFalse
  BY <1>1, ParserScanned
<1>3. Args!Parse.json \in {"unset", "on", "off"}
  BY <1>2 DEF ParseStates
<1>4. globalJSON \in BOOLEAN /\ jsonMode \in BOOLEAN
  BY <1>1 DEF ArgsTypes
<1>5. (Args!SaysJSON => Scanned.json) /\ (Scanned.json => SaidJSON)
  BY <1>1, ScannedWhole, SaysIsScanned
<1>6. /\ Args!JsonSet(Args!Parse, jsonMode) \in BOOLEAN
      /\ Args!RunForm \in BOOLEAN
  BY <1>3, <1>4 DEF Args!JsonSet, Args!RunForm
<1>7. Fitting(Args!JsonSet(Args!Parse, jsonMode)) /\ Fitting(Args!RunForm)
  BY <1>1, <1>2, <1>3, <1>4, <1>5 DEF Fitting, Args!JsonSet, Args!RunForm
<1>8. Anticipated("proceed") /\ (~Args!Legal => Anticipated("usage"))
  BY <1>2 DEF Anticipated
<1>9. ASSUME Followed(command, Args!Parse)
      PROVE  /\ Args!RunForm <=> globalJSON \/ Args!Parse.json = "on"
             /\ Args!JsonSet(Args!Parse, jsonMode) <=> Args!JsonSet(Args!Parse, globalJSON)
  BY <1>1, <1>2, <1>3, <1>4, <1>9 DEF Args!JsonSet, Args!RunForm
<1> QED
  BY <1>1, <1>6, <1>7, <1>8, <1>9

LEMMA RunRulesKeeps ==
  ASSUME ArgsInv, Args!RunRules
  PROVE  ArgsInv'
<1>1. step = "parse" /\ command = "run"
  BY DEF Args!RunRules
<1>2. /\ ArgsTypes /\ command \in FlagCommands /\ SubcommandGiven
      /\ Args!RunForm \in BOOLEAN /\ Fitting(Args!RunForm) /\ Anticipated("proceed")
      /\ ~Args!Legal => Anticipated("usage")
      /\ Followed(command, Args!Parse) =>
            (Args!RunForm <=> globalJSON \/ Args!Parse.json = "on")
  BY <1>1, ParsedForm
<1>3. Args!Parse.delimiter => Args!hasArgumentDelimiter(args)
  BY <1>1, <1>2, ParserScanned DEF Args!FlagArgs
<1>4. CASE Args!renderUsageError(Args!RunForm) /\ ~Args!Legal
  BY <1>2, <1>4, UsageKept
<1>5. CASE Args!Proceed(Args!RunForm) /\ Args!Parsed(Args!Parse)
  <2>1. Followed(command, Args!Parse)
    BY <1>1, <1>5 DEF Followed, Args!Parsed
  <2> QED
    BY <1>1, <1>2, <1>5, <2>1, ProceedKept
<1>6. \/ Args!renderUsageError(Args!RunForm) /\ ~Args!Legal
      \/ Args!Proceed(Args!RunForm) /\ Args!Parsed(Args!Parse)
  BY <1>1, <1>3 DEF Args!RunRules, Args!Legal
<1> QED
  BY <1>4, <1>5, <1>6

LEMMA OtherRulesKeep ==
  ASSUME ArgsInv, Args!OtherRules
  PROVE  ArgsInv'
<1> DEFINE j == Args!JsonSet(Args!Parse, jsonMode)
<1>1. step = "parse" /\ command # "run"
  BY DEF Args!OtherRules
<1>2. /\ ArgsTypes /\ command \in FlagCommands /\ SubcommandGiven
      /\ j \in BOOLEAN /\ Fitting(j) /\ Anticipated("proceed")
      /\ ~Args!Legal => Anticipated("usage")
      /\ Followed(command, Args!Parse) =>
            (j <=> Args!JsonSet(Args!Parse, globalJSON))
  BY <1>1, ParsedForm
<1>3. \/ Args!renderUsageError(j) /\ ~Args!Legal
      \/ Args!Proceed(j) /\ Args!Parsed(Args!Parse) /\ Args!Parse.rest = <<>>
  BY <1>1 DEF Args!OtherRules, Args!Legal
<1> HIDE DEF j
<1>4. CASE Args!renderUsageError(j) /\ ~Args!Legal
  BY <1>2, <1>4, UsageKept
<1>5. CASE Args!Proceed(j) /\ Args!Parsed(Args!Parse) /\ Args!Parse.rest = <<>>
  <2>1. Followed(command, Args!Parse)
    BY <1>5 DEF Followed, Args!Parsed
  <2> QED
    BY <1>1, <1>2, <1>5, <2>1, ProceedKept
<1> QED
  BY <1>3, <1>4, <1>5

LEMMA ArgsStutter == ASSUME ArgsInv, UNCHANGED Args!vars PROVE ArgsInv'
<1>1. /\ globalJSON' = globalJSON /\ command' = command /\ args' = args
      /\ step' = step /\ jsonMode' = jsonMode /\ outcome' = outcome
  BY DEF Args!vars
<1>2. ArgsTypes /\ ScannedFirst /\ OutcomeKnown
  BY DEF ArgsInv
<1>3. CASE step = "done"
  <2>1. /\ SubcommandGiven' = SubcommandGiven /\ Args!Parse' = Args!Parse
        /\ SaidFalse' = SaidFalse /\ SaidJSON' = SaidJSON
    BY <1>1 DEF SubcommandGiven, Args!Parse, Args!FlagArgs, SaidFalse, SaidJSON
  <2>2. Args!Legal' = Args!Legal /\ Args!SaysJSON' = Args!SaysJSON
    BY <1>1, <2>1 DEF Args!Legal, Args!SaysJSON
  <2>3. (Anticipated(outcome.kind))' /\ (Truthful(outcome.kind, outcome.form))'
    BY <1>1, <1>2, <1>3, <2>1, <2>2 DEF OutcomeKnown, Anticipated, Truthful
  <2> QED
    BY <1>1, <1>2, <1>3, <2>3 DEF ArgsInv, ArgsTypes, ScannedFirst, OutcomeKnown
<1>4. CASE step # "done"
  <2>1. SubcommandGiven' = SubcommandGiven /\ Scanned' = Scanned
    BY <1>1 DEF SubcommandGiven, Scanned, Args!FlagArgs
  <2> QED
    BY <1>1, <1>2, <1>4, <2>1 DEF ArgsInv, ArgsTypes, ScannedFirst, OutcomeKnown
<1> QED
  BY <1>3, <1>4

LEMMA ArgsStep == ASSUME ArgsInv, Args!Next PROVE ArgsInv'
<1>1. CASE Args!Dispatch
  BY <1>1, DispatchKeeps
<1>2. CASE Args!runHelp
  BY <1>2, HelpCommandKeeps
<1>3. CASE Args!runCompletion
  BY <1>3, CompletionKeeps
<1>4. CASE Args!ScanControl
  BY <1>4, ScanControlKeeps
<1>5. CASE Args!ScanSubcommand
  BY <1>5, ScanSubcommandKeeps
<1>6. CASE Args!RunRules
  BY <1>6, RunRulesKeeps
<1>7. CASE Args!OtherRules
  BY <1>7, OtherRulesKeep
<1>8. CASE Args!Terminated
  BY <1>8, ArgsStutter DEF Args!Terminated
<1> QED
  BY <1>1, <1>2, <1>3, <1>4, <1>5, <1>6, <1>7, <1>8 DEF Args!Next

LEMMA ArgsStart == ASSUME Args!Init PROVE ArgsInv
<1>1. /\ globalJSON \in BOOLEAN /\ jsonMode \in BOOLEAN /\ step = "dispatch"
      /\ command \in Args!modernCommands \cup {"none", "--help", "unknown", "-x"}
  BY DEF Args!Init
<1>2. args \in Seq(Args!Arguments)
  <2>1. CASE command = "none"
    <3>1. args = <<>>
      BY <2>1 DEF Args!Init
    <3> QED
      BY <3>1
  <2>2. CASE command # "none"
    <3>1. args \in Args!SeqOf(Args!Arguments, MaxArgs)
      BY <2>2 DEF Args!Init
    <3>2. PICK n \in 0..MaxArgs : args \in [1..n -> Args!Arguments]
      BY <3>1 DEF Args!SeqOf
    <3>3. n \in Nat
      BY <3>2, BoundsAssumption DEF BoundsAssumption
    <3> QED
      BY <3>2, <3>3
  <2> QED
    BY <2>1, <2>2
<1> QED
  BY <1>1, <1>2 DEF ArgsInv, ArgsTypes, ScannedFirst, OutcomeKnown

\* Before the parser runs, its arguments have been scanned, and the outcome is
\* what AnticipatesParser and FormTruthful say of it.
LEMMA ArgsInvariant == GopsshSpec => [](part = "args" => ArgsInv)
<1> DEFINE Inv == part = "args" => ArgsInv
<1>1. GopsshInit => Inv
  BY ArgsStart DEF GopsshInit
<1>2. Inv /\ [GopsshNext]_gopsshVars => Inv'
  <2> SUFFICES ASSUME Inv, [GopsshNext]_gopsshVars, part' = "args"
               PROVE  ArgsInv'
    OBVIOUS
  <2>1. CASE UNCHANGED gopsshVars
    <3>1. UNCHANGED <<part, Args!vars>>
      BY <2>1 DEF gopsshVars, argsVars, Args!vars
    <3> QED
      BY <3>1, ArgsStutter
  <2>2. CASE GopsshNext
    <3>1. part = "args" /\ Args!Next
      BY <2>2 DEF GopsshNext
    <3> QED
      BY <3>1, ArgsStep
  <2> QED
    BY <2>1, <2>2
<1> QED
  BY <1>1, <1>2, PTL DEF GopsshSpec

\* The scan for --help anticipates the flag package (cli.go:1507-1540): it
\* takes no option's value and no remote argument for --help, so a legal
\* command line is run, and it misses no --help that the parser reads.  For
\* command lines of any length.
THEOREM ScanAnticipates == GopsshSpec => []AnticipatesParser
<1>1. (part = "args" => ArgsInv) => AnticipatesParser
  BY OutcomeSays DEF AnticipatesParser, ArgsInv
<1> QED
  BY <1>1, ArgsInvariant, PTL

\* What stdout gets has the form that the command line asks for
\* (cli.go:98-141, 264-277): a command that runs writes JSON if, and only if,
\* the last --json or the global one says so, and a refusal is a JSON error
\* when the command line says --json.  For command lines of any length.
THEOREM FormIsTruthful == GopsshSpec => []FormTruthful
<1>1. (part = "args" => ArgsInv) => FormTruthful
  BY OutcomeSays DEF FormTruthful, ArgsInv
<1> QED
  BY <1>1, ArgsInvariant, PTL
=============================================================================
