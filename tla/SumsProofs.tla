----------------------------- MODULE SumsProofs -----------------------------
(***************************************************************************)
(* What the proofs of several modules need about numbers, finite sets,     *)
(* lists and sums: a set of naturals has a least element, a recursive sum  *)
(* exists, and is determined by what it adds up.                           *)
(***************************************************************************)
EXTENDS Sums, SequencesExt, FiniteSetTheorems, SequenceTheorems,
        WellFoundedInduction, TLAPS

(* A set of natural numbers has a least element.                           *)
LEMMA LeastNatural ==
  ASSUME NEW S, S \subseteq Nat, S # {}
  PROVE  \E x \in S : \A y \in S : x <= y
<1> DEFINE Less == OpToRel(<, Nat)
<1>1. \A m, n \in Nat : m < n => <<m, n>> \in Less
  BY Zenon DEF OpToRel
<1>2. IsWellFoundedOn(Less, Nat)
  BY NatLessThanWellFounded
<1> HIDE DEF Less
<1>3. PICK x \in S : \A y \in S : ~(<<y, x>> \in Less)
  BY <1>2, WFMin, Zenon
<1>4. \A y \in S : ~(y < x)
  BY <1>1, <1>3
<1> QED BY <1>3, <1>4

-----------------------------------------------------------------------------
(* The recursion of RunningSum, as a condition on a function. *)
AddsUp(sum, numbers, n) ==
  sum = [i \in 0 .. n |-> IF i = 0 THEN 0 ELSE sum[i - 1] + numbers[i]]

(* There is a function that adds up.                                       *)
LEMMA SumExists ==
  ASSUME NEW numbers, NEW n \in Nat
  PROVE  \E sum : AddsUp(sum, numbers, n)
<1> DEFINE Bad == {k \in Nat : ~ \E sum : AddsUp(sum, numbers, k)}
<1>1. SUFFICES Bad = {}
  OBVIOUS
<1>2. SUFFICES ASSUME Bad # {} PROVE FALSE
  OBVIOUS
<1>3. PICK k \in Bad : \A other \in Bad : k <= other
  BY <1>2, LeastNatural
<1>4. CASE k = 0
  <2> DEFINE zero == [i \in 0 .. 0 |-> 0]
  <2>1. AddsUp(zero, numbers, 0)
    BY DEF AddsUp
  <2> QED BY <1>3, <1>4, <2>1
<1>5. CASE k # 0
  <2>1. k - 1 \in Nat /\ k - 1 \notin Bad
    BY <1>3, <1>5
  <2>2. PICK sum : AddsUp(sum, numbers, k - 1)
    BY <2>1
  <2> DEFINE longer ==
        [i \in 0 .. k |-> IF i = k THEN sum[k - 1] + numbers[k] ELSE sum[i]]
  <2>3. \A i \in 0 .. k - 1 : sum[i] = IF i = 0 THEN 0 ELSE sum[i - 1] + numbers[i]
    BY <2>2 DEF AddsUp
  <2>4. ASSUME NEW i \in 0 .. k
        PROVE  longer[i] = IF i = 0 THEN 0 ELSE longer[i - 1] + numbers[i]
    <3>1. CASE i = k
      BY <1>3, <1>5, <3>1
    <3>2. CASE i # k
      <4>1. i \in 0 .. k - 1 /\ longer[i] = sum[i]
        BY <1>3, <3>2
      <4>2. i # 0 => longer[i - 1] = sum[i - 1]
        BY <1>3, <4>1
      <4> QED BY <2>3, <4>1, <4>2
    <3> QED BY <3>1, <3>2
  <2>5. AddsUp(longer, numbers, k)
    BY <2>4 DEF AddsUp
  <2> QED BY <1>3, <2>5
<1> QED BY <1>4, <1>5

(* Two functions that add up the same numbers agree as far as both go.     *)
LEMMA SumsAgree ==
  ASSUME NEW f, NEW g, NEW sum, NEW other, NEW n \in Nat, NEW m \in Nat,
         AddsUp(sum, f, n), AddsUp(other, g, m), n <= m,
         \A i \in 1 .. n : f[i] = g[i]
  PROVE  sum[n] = other[n]
<1> DEFINE Bad == {i \in 0 .. n : sum[i] # other[i]}
<1>1. SUFFICES ASSUME Bad # {} PROVE FALSE
  BY n \in 0 .. n
<1>0. Bad \subseteq Nat
  OBVIOUS
<1>2. PICK k \in Bad : \A i \in Bad : k <= i
  BY <1>0, <1>1, LeastNatural
<1>3. /\ sum[k] = IF k = 0 THEN 0 ELSE sum[k - 1] + f[k]
      /\ other[k] = IF k = 0 THEN 0 ELSE other[k - 1] + g[k]
  <2>1. k \in 0 .. n /\ k \in 0 .. m
    OBVIOUS
  <2> QED BY <2>1 DEF AddsUp
<1>4. k # 0
  BY <1>2, <1>3
<1>5. k - 1 \in 0 .. n /\ k - 1 \notin Bad
  BY <1>2, <1>4
<1>6. sum[k - 1] = other[k - 1] /\ f[k] = g[k]
  BY <1>4, <1>5
<1> QED BY <1>2, <1>3, <1>4, <1>6

(* RunningSum is the last value of a function that adds up. *)
LEMMA SumAddsUp ==
  ASSUME NEW numbers, NEW n \in Nat
  PROVE  \E sum : AddsUp(sum, numbers, n) /\ RunningSum(numbers, n) = sum[n]
<1> DEFINE chosen == CHOOSE sum : AddsUp(sum, numbers, n)
<1>1. RunningSum(numbers, n) = chosen[n]
  BY DEF RunningSum, AddsUp
<1>2. AddsUp(chosen, numbers, n)
  BY SumExists
<1> QED BY <1>1, <1>2

-----------------------------------------------------------------------------
(* The sum of no numbers. *)
LEMMA SumOfNone ==
  ASSUME NEW numbers
  PROVE  RunningSum(numbers, 0) = 0
<1>1. PICK sum : AddsUp(sum, numbers, 0) /\ RunningSum(numbers, 0) = sum[0]
  BY SumAddsUp
<1>2. sum[0] = 0
  BY <1>1 DEF AddsUp
<1> QED BY <1>1, <1>2

(* A sum depends on the numbers it adds up only. *)
LEMMA SumOfSame ==
  ASSUME NEW f, NEW g, NEW n \in Nat, \A i \in 1 .. n : f[i] = g[i]
  PROVE  RunningSum(f, n) = RunningSum(g, n)
<1>1. PICK sum : AddsUp(sum, f, n) /\ RunningSum(f, n) = sum[n]
  BY SumAddsUp
<1>2. PICK other : AddsUp(other, g, n) /\ RunningSum(g, n) = other[n]
  BY SumAddsUp
<1> QED BY <1>1, <1>2, SumsAgree

(* One number more. *)
LEMMA SumOfMore ==
  ASSUME NEW numbers, NEW n \in Nat
  PROVE  RunningSum(numbers, n + 1) = RunningSum(numbers, n) + numbers[n + 1]
<1>1. PICK sum : AddsUp(sum, numbers, n + 1) /\ RunningSum(numbers, n + 1) = sum[n + 1]
  BY SumAddsUp
<1>2. PICK other : AddsUp(other, numbers, n) /\ RunningSum(numbers, n) = other[n]
  BY SumAddsUp
<1>3. other[n] = sum[n]
  BY <1>1, <1>2, SumsAgree
<1>4. sum[n + 1] = sum[n] + numbers[n + 1]
  <2>1. n + 1 \in 0 .. n + 1 /\ n + 1 # 0 /\ (n + 1) - 1 = n
    OBVIOUS
  <2> QED BY <1>1, <2>1 DEF AddsUp
<1> QED BY <1>1, <1>2, <1>3, <1>4

(* A sum of integers is an integer. *)
LEMMA SumType ==
  ASSUME NEW n \in Nat, NEW numbers, \A i \in 1 .. n : numbers[i] \in Int
  PROVE  RunningSum(numbers, n) \in Int
<1> DEFINE Bad == {k \in 0 .. n : RunningSum(numbers, k) \notin Int}
<1>1. SUFFICES ASSUME Bad # {} PROVE FALSE
  BY n \in 0 .. n
<1>0. Bad \subseteq Nat
  OBVIOUS
<1>2. PICK k \in Bad : \A i \in Bad : k <= i
  BY <1>0, <1>1, LeastNatural
<1>3. k # 0
  BY <1>2, SumOfNone
<1>4. k - 1 \in 0 .. n /\ k - 1 \notin Bad /\ k - 1 \in Nat /\ (k - 1) + 1 = k
  BY <1>2, <1>3
<1>5. RunningSum(numbers, k) = RunningSum(numbers, k - 1) + numbers[k]
  BY <1>4, SumOfMore
<1> QED BY <1>2, <1>3, <1>4, <1>5

(* Where each number is at most another one, so is the sum. *)
LEMMA SumOfLess ==
  ASSUME NEW n \in Nat, NEW f, NEW g,
         \A i \in 1 .. n : f[i] \in Int /\ g[i] \in Int /\ f[i] <= g[i]
  PROVE  RunningSum(f, n) <= RunningSum(g, n)
<1> DEFINE Bad == {k \in 0 .. n : ~(RunningSum(f, k) <= RunningSum(g, k))}
<1>1. SUFFICES ASSUME Bad # {} PROVE FALSE
  BY n \in 0 .. n
<1>0. Bad \subseteq Nat
  OBVIOUS
<1>2. PICK k \in Bad : \A i \in Bad : k <= i
  BY <1>0, <1>1, LeastNatural
<1>3. k # 0
  BY <1>2, SumOfNone
<1>4. k - 1 \in 0 .. n /\ k - 1 \notin Bad /\ k - 1 \in Nat /\ (k - 1) + 1 = k
  BY <1>2, <1>3
<1>5. /\ RunningSum(f, k) = RunningSum(f, k - 1) + f[k]
      /\ RunningSum(g, k) = RunningSum(g, k - 1) + g[k]
  BY <1>4, SumOfMore
<1>6. RunningSum(f, k - 1) \in Int /\ RunningSum(g, k - 1) \in Int
  <2>1. \A i \in 1 .. k - 1 : f[i] \in Int /\ g[i] \in Int
    OBVIOUS
  <2> QED BY <1>4, <2>1, SumType
<1>7. f[k] \in Int /\ g[k] \in Int /\ f[k] <= g[k]
  BY <1>2, <1>3
<1> QED BY <1>2, <1>4, <1>5, <1>6, <1>7

(* A sum of natural numbers is a natural number. *)
LEMMA SumNat ==
  ASSUME NEW n \in Nat, NEW numbers, \A i \in 1 .. n : numbers[i] \in Nat
  PROVE  RunningSum(numbers, n) \in Nat
<1> DEFINE Bad == {k \in 0 .. n : RunningSum(numbers, k) \notin Nat}
<1>1. SUFFICES ASSUME Bad # {} PROVE FALSE
  BY n \in 0 .. n
<1>0. Bad \subseteq Nat
  OBVIOUS
<1>2. PICK k \in Bad : \A i \in Bad : k <= i
  BY <1>0, <1>1, LeastNatural
<1>3. k # 0
  BY <1>2, SumOfNone
<1>4. k - 1 \in 0 .. n /\ k - 1 \notin Bad /\ k - 1 \in Nat /\ (k - 1) + 1 = k
  BY <1>2, <1>3
<1>5. RunningSum(numbers, k) = RunningSum(numbers, k - 1) + numbers[k]
  BY <1>4, SumOfMore
<1> QED BY <1>2, <1>3, <1>4, <1>5

-----------------------------------------------------------------------------
(* Counting the members of a list that are picked: one more, or not. *)
LEMMA PickedOneMore ==
  ASSUME NEW n \in Nat, NEW old \in SUBSET (1 .. n), NEW new,
         new = old \/ new = old \cup {n + 1}
  PROVE  /\ IsFiniteSet(old) /\ Cardinality(old) \in Nat
         /\ IsFiniteSet(new)
         /\ Cardinality(new) = IF new = old THEN Cardinality(old)
                                            ELSE Cardinality(old) + 1
<1>1. IsFiniteSet(old)
  <2>1. IsFiniteSet(1 .. n)
    BY FS_Interval
  <2> QED BY <2>1, FS_Subset
<1>2. n + 1 \notin old
  OBVIOUS
<1> QED BY <1>1, <1>2, FS_AddElement, FS_CardinalityType

-----------------------------------------------------------------------------
(* Lists.                                                                  *)
LEMMA Lists ==
  ASSUME NEW s, IsList(s)
  PROVE  /\ Len(s) \in Nat /\ DOMAIN s = 1 .. Len(s)
         /\ \A i \in DOMAIN s : s[i] \in ToSet(s)
         /\ \A x \in ToSet(s) : \E i \in DOMAIN s : x = s[i]
BY LenProperties DEF IsList, ToSet

LEMMA ListOf == ASSUME NEW S, NEW s \in Seq(S) PROVE IsList(s)
<1>1. DOMAIN s = 1 .. Len(s) /\ Len(s) \in Nat
  BY LenProperties
<1>2. \A i \in 1 .. Len(s) : s[i] \in ToSet(s)
  BY <1>1 DEF ToSet
<1>3. s \in [1 .. Len(s) -> ToSet(s)]
  <2>1. s \in [1 .. Len(s) -> S]
    BY LenProperties
  <2> QED BY <1>2, <2>1
<1> QED BY <1>1, <1>3 DEF IsList

LEMMA NoElements == IsList(<< >>) /\ Len(<< >>) = 0 /\ DOMAIN << >> = {}
<1>1. << >> \in Seq({}) /\ Len(<< >>) = 0
  BY EmptySeq
<1>2. IsList(<< >>)
  BY <1>1, ListOf
<1>3. DOMAIN << >> = 1 .. 0
  BY <1>1, <1>2, Lists
<1> QED BY <1>1, <1>2, <1>3

LEMMA OneMore ==
  ASSUME NEW s, IsList(s), NEW x
  PROVE  /\ IsList(Append(s, x)) /\ Len(Append(s, x)) = Len(s) + 1
         /\ DOMAIN Append(s, x) = DOMAIN s \cup {Len(s) + 1}
         /\ \A i \in DOMAIN s : Append(s, x)[i] = s[i]
         /\ Append(s, x)[Len(s) + 1] = x
         /\ ToSet(Append(s, x)) = ToSet(s) \cup {x}
<1> DEFINE S == ToSet(s) \cup {x}
           t == Append(s, x)
<1>1. s \in Seq(S) /\ Len(s) \in Nat /\ DOMAIN s = 1 .. Len(s)
  BY SeqMonotonic, Lists DEF IsList
<1> HIDE DEF S
<1>2. x \in S
  BY DEF S
<1>3. /\ t \in Seq(S) /\ Len(t) = Len(s) + 1
      /\ \A i \in 1 .. Len(s) : t[i] = s[i]
      /\ t[Len(s) + 1] = x
  BY <1>1, <1>2
<1>4. DOMAIN t = 1 .. Len(s) + 1
  BY <1>3, LenProperties
<1>5. DOMAIN t = DOMAIN s \cup {Len(s) + 1}
  BY <1>1, <1>4
<1> HIDE DEF t
<1>6. ToSet(t) = ToSet(s) \cup {x}
  BY <1>1, <1>3, <1>5 DEF ToSet
<1> QED BY <1>1, <1>3, <1>5, <1>6, ListOf DEF t

LEMMA TheRest ==
  ASSUME NEW s, IsList(s), s # << >>
  PROVE  /\ IsList(Tail(s)) /\ Len(s) # 0 /\ Len(Tail(s)) = Len(s) - 1
         /\ \A i \in DOMAIN Tail(s) : i + 1 \in DOMAIN s /\ Tail(s)[i] = s[i + 1]
         /\ 1 \in DOMAIN s /\ Head(s) = s[1]
<1>1. s \in Seq(ToSet(s))
  BY DEF IsList, ToSet
<1>2. Len(s) \in Nat \ {0} /\ DOMAIN s = 1 .. Len(s)
  BY <1>1, EmptySeq, LenProperties
<1>3. /\ Tail(s) \in Seq(ToSet(s)) /\ Len(Tail(s)) = Len(s) - 1
      /\ \A i \in 1 .. Len(Tail(s)) : Tail(s)[i] = s[i + 1]
  BY <1>1, HeadTailProperties
<1>4. DOMAIN Tail(s) = 1 .. Len(s) - 1
  BY <1>3, LenProperties
<1>5. IsList(Tail(s))
  BY <1>3, ListOf
<1>6. Head(s) = s[1] /\ 1 \in DOMAIN s
  BY <1>1, <1>2
<1>7. \A i \in DOMAIN Tail(s) : i + 1 \in DOMAIN s /\ Tail(s)[i] = s[i + 1]
  BY <1>2, <1>3, <1>4
<1> QED BY <1>2, <1>3, <1>5, <1>6, <1>7

(* A list that is empty has nothing in it, and the other way round.        *)
LEMMA EmptyList ==
  ASSUME NEW s, IsList(s) PROVE (s = << >>) <=> (Len(s) = 0)
BY EmptySeq DEF IsList

(* Two lists that agree are equal.                                         *)
LEMMA SameList ==
  ASSUME NEW s, NEW t, IsList(s), IsList(t), Len(s) = Len(t),
         \A i \in DOMAIN s : s[i] = t[i]
  PROVE  s = t
<1>1. /\ s \in [1 .. Len(s) -> ToSet(s)] /\ t \in [1 .. Len(s) -> ToSet(t)]
      /\ DOMAIN s = 1 .. Len(s)
  BY LenProperties DEF IsList, ToSet
<1> QED BY <1>1

LEMMA FunctionList ==
  ASSUME NEW n \in Nat, NEW f, f = [i \in 1 .. n |-> f[i]]
  PROVE  IsList(f) /\ Len(f) = n /\ DOMAIN f = 1 .. n
<1>1. DOMAIN f = 1 .. n
  OBVIOUS
<1>2. f \in [1 .. n -> ToSet(f)]
  BY <1>1 DEF ToSet
<1> QED BY <1>1, <1>2 DEF IsList

(* Two lists, one after the other.                                         *)
LEMMA TwoLists ==
  ASSUME NEW s, NEW t, IsList(s), IsList(t)
  PROVE  /\ IsList(s \o t) /\ Len(s \o t) = Len(s) + Len(t)
         /\ \A i \in DOMAIN s : (s \o t)[i] = s[i]
         /\ \A i \in DOMAIN t : (s \o t)[Len(s) + i] = t[i]
<1> DEFINE S == ToSet(s) \cup ToSet(t)
           m == Len(s)
           n == Len(t)
           both == s \o t
<1>1. s \in Seq(S) /\ t \in Seq(S)
  BY SeqMonotonic DEF IsList, ToSet
<1>2. m \in Nat /\ n \in Nat /\ DOMAIN s = 1 .. m /\ DOMAIN t = 1 .. n
  BY Lists
<1> HIDE DEF S
<1>3. /\ both \in Seq(S) /\ Len(both) = m + n
      /\ \A i \in 1 .. m + n : both[i] = IF i <= m THEN s[i] ELSE t[i - m]
  BY <1>1, ConcatProperties
<1> HIDE DEF m, n, both
<1>4. \A i \in 1 .. m : both[i] = s[i]
  BY <1>2, <1>3
<1>5. \A i \in 1 .. n : both[m + i] = t[i]
  <2> SUFFICES ASSUME NEW i \in 1 .. n PROVE both[m + i] = t[i]
    OBVIOUS
  <2>1. m + i \in 1 .. m + n /\ ~(m + i <= m) /\ (m + i) - m = i
    BY <1>2
  <2> QED BY <1>3, <2>1
<1>6. IsList(both)
  BY <1>3, ListOf
<1> QED BY <1>2, <1>3, <1>4, <1>5, <1>6 DEF m, n, both

-----------------------------------------------------------------------------
(* The recursion of Only, as a condition on a function. *)
Keeps(only, list, S, n) ==
  only = [i \in 0 .. n |-> IF i = 0 THEN << >>
                           ELSE IF i \in S THEN Append(only[i - 1], list[i])
                           ELSE only[i - 1]]

LEMMA OnlyExists ==
  ASSUME NEW list, NEW S, NEW n \in Nat
  PROVE  \E only : Keeps(only, list, S, n)
<1> DEFINE Bad == {k \in Nat : ~ \E only : Keeps(only, list, S, k)}
<1>1. SUFFICES Bad = {}
  OBVIOUS
<1>2. SUFFICES ASSUME Bad # {} PROVE FALSE
  OBVIOUS
<1>3. PICK k \in Bad : \A other \in Bad : k <= other
  BY <1>2, LeastNatural
<1>4. CASE k = 0
  <2> DEFINE none == [i \in 0 .. 0 |-> << >>]
  <2>1. Keeps(none, list, S, 0)
    BY DEF Keeps
  <2> QED BY <1>3, <1>4, <2>1
<1>5. CASE k # 0
  <2>1. k - 1 \in Nat /\ k - 1 \notin Bad
    BY <1>3, <1>5
  <2>2. PICK only : Keeps(only, list, S, k - 1)
    BY <2>1
  <2> DEFINE value == IF k \in S THEN Append(only[k - 1], list[k]) ELSE only[k - 1]
             longer == [i \in 0 .. k |-> IF i = k THEN value ELSE only[i]]
  <2>3. \A i \in 0 .. k - 1 :
          only[i] = IF i = 0 THEN << >>
                    ELSE IF i \in S THEN Append(only[i - 1], list[i])
                    ELSE only[i - 1]
    BY <2>2 DEF Keeps
  <2>4. ASSUME NEW i \in 0 .. k
        PROVE  longer[i] = IF i = 0 THEN << >>
                           ELSE IF i \in S THEN Append(longer[i - 1], list[i])
                           ELSE longer[i - 1]
    <3>1. CASE i = k
      BY <1>3, <1>5, <3>1
    <3>2. CASE i # k
      <4>1. i \in 0 .. k - 1 /\ longer[i] = only[i]
        BY <1>3, <3>2
      <4>2. i # 0 => longer[i - 1] = only[i - 1]
        BY <1>3, <4>1
      <4> QED BY <2>3, <4>1, <4>2
    <3> QED BY <3>1, <3>2
  <2>5. Keeps(longer, list, S, k)
    BY <2>4 DEF Keeps
  <2> QED BY <1>3, <2>5
<1> QED BY <1>4, <1>5

LEMMA OnlyKeeps ==
  ASSUME NEW list, NEW S, NEW n \in Nat
  PROVE  \E only : Keeps(only, list, S, n) /\ Only(list, S, n) = only[n]
<1> DEFINE chosen == CHOOSE only : Keeps(only, list, S, n)
<1>1. Only(list, S, n) = chosen[n]
  BY DEF Only, Keeps
<1>2. Keeps(chosen, list, S, n)
  BY OnlyExists
<1> QED BY <1>1, <1>2

(* What is kept depends on what it is kept from, as far as that goes. *)
LEMMA KeepsAgree ==
  ASSUME NEW list, NEW other, NEW S, NEW T, NEW only, NEW rest,
         NEW n \in Nat, NEW m \in Nat,
         Keeps(only, list, S, n), Keeps(rest, other, T, m), n <= m,
         \A i \in 1 .. n : list[i] = other[i] /\ (i \in S <=> i \in T)
  PROVE  only[n] = rest[n]
<1> DEFINE Bad == {i \in 0 .. n : only[i] # rest[i]}
<1>1. SUFFICES ASSUME Bad # {} PROVE FALSE
  BY n \in 0 .. n
<1>0. Bad \subseteq Nat
  OBVIOUS
<1>2. PICK k \in Bad : \A i \in Bad : k <= i
  BY <1>0, <1>1, LeastNatural
<1>3. /\ only[k] = IF k = 0 THEN << >>
                   ELSE IF k \in S THEN Append(only[k - 1], list[k])
                   ELSE only[k - 1]
      /\ rest[k] = IF k = 0 THEN << >>
                   ELSE IF k \in T THEN Append(rest[k - 1], other[k])
                   ELSE rest[k - 1]
  <2>1. k \in 0 .. n /\ k \in 0 .. m
    OBVIOUS
  <2> QED BY <2>1 DEF Keeps
<1>4. k # 0
  BY <1>2, <1>3
<1>5. k - 1 \in 0 .. n /\ k - 1 \notin Bad
  BY <1>2, <1>4
<1>6. only[k - 1] = rest[k - 1] /\ list[k] = other[k] /\ (k \in S <=> k \in T)
  BY <1>4, <1>5
<1> QED BY <1>2, <1>3, <1>4, <1>6

LEMMA OnlyOfNone == ASSUME NEW list, NEW S PROVE Only(list, S, 0) = << >>
<1>1. PICK only : Keeps(only, list, S, 0) /\ Only(list, S, 0) = only[0]
  BY OnlyKeeps
<1> QED BY <1>1 DEF Keeps

(* Two lists, and what is kept of them, agree on the first n places. *)
SamePlaces(list, other, S, T, n) ==
  \A i \in 1 .. n : list[i] = other[i] /\ (i \in S <=> i \in T)

LEMMA OnlyOfSame ==
  ASSUME NEW list, NEW other, NEW S, NEW T, NEW n \in Nat,
         SamePlaces(list, other, S, T, n)
  PROVE  Only(list, S, n) = Only(other, T, n)
<1>1. PICK only : Keeps(only, list, S, n) /\ Only(list, S, n) = only[n]
  BY OnlyKeeps
<1>2. PICK rest : Keeps(rest, other, T, n) /\ Only(other, T, n) = rest[n]
  BY OnlyKeeps
<1> QED BY <1>1, <1>2, KeepsAgree DEF SamePlaces

(* One place more. *)
LEMMA OnlyOfMore ==
  ASSUME NEW list, NEW S, NEW n \in Nat
  PROVE  Only(list, S, n + 1) = IF n + 1 \in S
                                THEN Append(Only(list, S, n), list[n + 1])
                                ELSE Only(list, S, n)
<1>1. PICK only : Keeps(only, list, S, n + 1) /\ Only(list, S, n + 1) = only[n + 1]
  BY OnlyKeeps
<1>2. PICK rest : Keeps(rest, list, S, n) /\ Only(list, S, n) = rest[n]
  BY OnlyKeeps
<1>3. rest[n] = only[n]
  BY <1>1, <1>2, KeepsAgree
<1>4. only[n + 1] = IF n + 1 \in S THEN Append(only[n], list[n + 1]) ELSE only[n]
  <2>1. n + 1 \in 0 .. n + 1 /\ n + 1 # 0 /\ (n + 1) - 1 = n
    OBVIOUS
  <2> QED BY <1>1, <2>1 DEF Keeps
<1> QED BY <1>1, <1>2, <1>3, <1>4

(* As many are kept as there are places to keep. *)
LEMMA OnlyCounts ==
  ASSUME NEW list, NEW S, NEW n \in Nat
  PROVE  /\ IsList(Only(list, S, n))
         /\ Len(Only(list, S, n)) = Cardinality({i \in 1 .. n : i \in S})
<1> DEFINE Right(k) == /\ IsList(Only(list, S, k))
                       /\ Len(Only(list, S, k)) = Cardinality({i \in 1 .. k : i \in S})
           Bad == {k \in 0 .. n : ~Right(k)}
<1>1. SUFFICES ASSUME Bad # {} PROVE FALSE
  BY n \in 0 .. n
<1>2. Bad \subseteq Nat
  OBVIOUS
<1>3. PICK k \in Bad : \A i \in Bad : k <= i
  BY <1>1, <1>2, LeastNatural
<1>4. CASE k = 0
  <2>1. {i \in 1 .. 0 : i \in S} = {} /\ Cardinality({}) = 0
    BY FS_EmptySet
  <2> QED BY <1>3, <1>4, <2>1, OnlyOfNone, NoElements
<1>5. CASE k # 0
  <2> DEFINE m == k - 1
             old == {i \in 1 .. m : i \in S}
             new == {i \in 1 .. m + 1 : i \in S}
  <2>1. m \in Nat /\ m + 1 = k /\ m \notin Bad /\ m \in 0 .. n
    BY <1>3, <1>5
  <2>2. IsList(Only(list, S, m)) /\ Len(Only(list, S, m)) = Cardinality(old)
    BY <2>1
  <2> HIDE DEF m
  <2>3. /\ old \in SUBSET (1 .. m) /\ m + 1 \notin old
        /\ new = IF m + 1 \in S THEN old \cup {m + 1} ELSE old
    BY <2>1
  <2>4. Cardinality(new) = IF m + 1 \in S THEN Cardinality(old) + 1 ELSE Cardinality(old)
    <3> HIDE DEF old, new
    <3> QED BY <2>1, <2>3, PickedOneMore
  <2>5. Only(list, S, m + 1) = IF m + 1 \in S
                               THEN Append(Only(list, S, m), list[m + 1])
                               ELSE Only(list, S, m)
    BY <2>1, OnlyOfMore
  <2> HIDE DEF old
  <2>6. /\ IsList(Only(list, S, m + 1))
        /\ Len(Only(list, S, m + 1)) = Cardinality(new)
    <3> HIDE DEF new
    <3>1. CASE m + 1 \in S
      <4> DEFINE kept == Only(list, S, m)
                 x == list[m + 1]
      <4>1. IsList(kept) /\ Only(list, S, m + 1) = Append(kept, x)
        BY <2>2, <2>5, <3>1
      <4> HIDE DEF kept, x
      <4>2. IsList(Append(kept, x)) /\ Len(Append(kept, x)) = Len(kept) + 1
        BY <4>1, OneMore
      <4> QED BY <2>2, <2>4, <3>1, <4>1, <4>2 DEF kept
    <3> QED BY <2>2, <2>4, <2>5, <3>1
  <2> QED BY <1>3, <2>1, <2>6
<1> QED BY <1>4, <1>5

-----------------------------------------------------------------------------
(* Some of m things, n of them, in the order they are in. *)
InOrder(place, n, m) ==
  /\ \A i \in 1 .. n : place[i] \in 1 .. m
  /\ \A i, j \in 1 .. n : i < j => place[i] < place[j]

Into(place, A, B) == \A i \in A : place[i] \in B

LEMMA ChosenCount ==
  ASSUME NEW n \in Nat, NEW m \in Nat, NEW place, InOrder(place, n, m),
         NEW A \in SUBSET (1 .. n), NEW B \in SUBSET (1 .. m), Into(place, A, B)
  PROVE  Cardinality(A) <= Cardinality(B)
<1> DEFINE f == [i \in A |-> place[i]]
<1>1. IsFiniteSet(A) /\ IsFiniteSet(B)
  <2>1. IsFiniteSet(1 .. n) /\ IsFiniteSet(1 .. m)
    BY FS_Interval
  <2> QED BY <2>1, FS_Subset
<1>2. Cardinality(A) \in Nat /\ Cardinality(B) \in Nat
  BY <1>1, FS_CardinalityType
<1>3. f \in [A -> B]
  BY DEF Into
<1>4. \A i, j \in A : i # j => f[i] # f[j]
  BY DEF InOrder
<1> HIDE DEF f
<1>5. ~(Cardinality(B) < Cardinality(A))
  BY <1>1, <1>3, <1>4, FS_PigeonHole
<1> QED BY <1>2, <1>5

LEMMA AllChosen ==
  ASSUME NEW n \in Nat, NEW place, InOrder(place, n, n), NEW i \in 1 .. n
  PROVE  place[i] = i
<1> DEFINE p == place[i]
<1>1. p \in 1 .. n
  BY DEF InOrder
<1>2. Into(place, 1 .. i, 1 .. p) /\ Into(place, i .. n, p .. n)
  BY DEF InOrder, Into
<1> HIDE DEF p
<1>3. Cardinality(1 .. i) <= Cardinality(1 .. p)
  BY <1>1, <1>2, ChosenCount
<1>4. Cardinality(i .. n) <= Cardinality(p .. n)
  BY <1>1, <1>2, ChosenCount
<1>5. /\ Cardinality(1 .. i) = i /\ Cardinality(1 .. p) = p
      /\ Cardinality(i .. n) = n - i + 1 /\ Cardinality(p .. n) = n - p + 1
  BY <1>1, FS_Interval
<1> QED BY <1>1, <1>3, <1>4, <1>5 DEF p

(* More numbers that are not negative do not make a sum smaller. *)
LEMMA SumGrows ==
  ASSUME NEW m \in Nat, NEW n \in 0 .. m,
         NEW numbers, \A i \in 1 .. m : numbers[i] \in Nat
  PROVE  RunningSum(numbers, n) <= RunningSum(numbers, m)
<1> DEFINE Bad == {k \in n .. m : ~(RunningSum(numbers, n) <= RunningSum(numbers, k))}
<1>1. SUFFICES ASSUME Bad # {} PROVE FALSE
  BY m \in n .. m
<1>2. Bad \subseteq Nat
  OBVIOUS
<1>3. PICK k \in Bad : \A i \in Bad : k <= i
  BY <1>1, <1>2, LeastNatural
<1>4. RunningSum(numbers, n) \in Nat
  BY SumNat
<1>5. k # n
  BY <1>3, <1>4
<1> DEFINE j == k - 1
<1>6. j \in n .. m /\ j \notin Bad /\ j \in Nat /\ j + 1 = k /\ k \in 1 .. m
  BY <1>3, <1>5
<1>7. RunningSum(numbers, n) <= RunningSum(numbers, j)
  BY <1>6
<1> HIDE DEF j
<1>8. RunningSum(numbers, j + 1) = RunningSum(numbers, j) + numbers[j + 1]
  BY <1>6, SumOfMore
<1>9. RunningSum(numbers, j) \in Nat
  <2>1. \A i \in 1 .. j : numbers[i] \in Nat
    BY <1>6
  <2> QED BY <1>6, <2>1, SumNat
<1> QED BY <1>3, <1>4, <1>6, <1>7, <1>8, <1>9

(* The sum of some is at most the sum of all. *)
LEMMA SumOfChosen ==
  ASSUME NEW n \in Nat, NEW m \in Nat, NEW place, InOrder(place, n, m),
         NEW numbers, \A i \in 1 .. m : numbers[i] \in Nat,
         NEW some, \A i \in 1 .. n : some[i] = numbers[place[i]]
  PROVE  RunningSum(some, n) <= RunningSum(numbers, m)
<1> DEFINE upTo(k) == IF k = 0 THEN 0 ELSE place[k]
           Right(k) == RunningSum(some, k) <= RunningSum(numbers, upTo(k))
           Bad == {k \in 0 .. n : ~Right(k)}
<1>1. \A k \in 0 .. n : upTo(k) \in 0 .. m
  BY DEF InOrder
<1>2. Bad = {}
  <2> SUFFICES ASSUME Bad # {} PROVE FALSE
    OBVIOUS
  <2>1. Bad \subseteq Nat
    OBVIOUS
  <2>2. PICK k \in Bad : \A i \in Bad : k <= i
    BY <2>1, LeastNatural
  <2>3. k # 0
    BY <2>2, SumOfNone
  <2> DEFINE j == k - 1
             p == place[k] - 1
  <2>4. j \in Nat /\ j + 1 = k /\ j \in 0 .. n /\ j \notin Bad /\ k \in 1 .. n
    BY <2>2, <2>3
  <2>5. RunningSum(some, j) <= RunningSum(numbers, upTo(j))
    BY <2>4
  <2>6. p \in 0 .. m /\ p \in Nat /\ p + 1 = place[k] /\ upTo(j) \in 0 .. p /\ p + 1 \in 1 .. m
    BY <2>4 DEF InOrder
  <2>7. upTo(k) = p + 1
    BY <2>3, <2>6
  <2> HIDE DEF j, p, upTo
  <2>8. RunningSum(numbers, upTo(j)) <= RunningSum(numbers, p)
    <3>1. \A i \in 1 .. p : numbers[i] \in Nat
      BY <2>6
    <3> QED BY <2>6, <3>1, SumGrows
  <2>9. RunningSum(numbers, p + 1) = RunningSum(numbers, p) + numbers[p + 1]
    BY <2>6, SumOfMore
  <2>10. RunningSum(some, j + 1) = RunningSum(some, j) + some[j + 1]
    BY <2>4, SumOfMore
  <2>11. some[j + 1] = numbers[p + 1] /\ numbers[p + 1] \in Nat
    BY <2>4, <2>6
  <2>12. /\ RunningSum(some, j) \in Nat /\ RunningSum(numbers, upTo(j)) \in Nat
         /\ RunningSum(numbers, p) \in Nat
    <3>1. /\ \A i \in 1 .. j : some[i] \in Nat
          /\ \A i \in 1 .. p : numbers[i] \in Nat
          /\ \A i \in 1 .. upTo(j) : numbers[i] \in Nat
          /\ upTo(j) \in Nat
      BY <2>4, <2>6 DEF InOrder
    <3> QED BY <2>4, <2>6, <3>1, SumNat
  <2>13. Right(k)
    BY <2>4, <2>5, <2>7, <2>8, <2>9, <2>10, <2>11, <2>12
  <2> QED BY <2>2, <2>13
<1>3. n \in 0 .. n /\ n \notin Bad
  BY <1>2
<1>4. RunningSum(some, n) <= RunningSum(numbers, upTo(n))
  BY <1>3
<1>5. upTo(n) \in 0 .. m
  BY <1>1, <1>3
<1> HIDE DEF upTo
<1>6. RunningSum(numbers, upTo(n)) <= RunningSum(numbers, m)
  BY <1>5, SumGrows
<1>7. /\ RunningSum(some, n) \in Nat /\ RunningSum(numbers, upTo(n)) \in Nat
      /\ RunningSum(numbers, m) \in Nat
  <2>1. /\ \A i \in 1 .. n : some[i] \in Nat
        /\ \A i \in 1 .. upTo(n) : numbers[i] \in Nat
        /\ upTo(n) \in Nat
    BY <1>5 DEF InOrder
  <2> QED BY <2>1, SumNat
<1> QED BY <1>4, <1>6, <1>7

-----------------------------------------------------------------------------
(* The division of integers rounds down. *)
LEMMA QuotientIs ==
  ASSUME NEW a \in Int, NEW b \in Nat \ {0}
  PROVE  a \div b \in Int /\ b * (a \div b) <= a /\ a < b * (a \div b) + b
OBVIOUS

LEMMA TimesKeeps ==
  ASSUME NEW a \in Int, NEW b \in Int, NEW c \in Nat, a <= b
  PROVE  a * c <= b * c /\ c * a <= c * b
OBVIOUS

(* A multiple of b that is at most a is one of no more than a \div b.       *)
LEMMA QuotientIsGreatest ==
  ASSUME NEW a \in Int, NEW b \in Nat \ {0}, NEW q \in Int, b * q <= a
  PROVE  q <= a \div b
<1> DEFINE p == a \div b
<1>1. p \in Int /\ a < b * p + b
  BY QuotientIs
<1> HIDE DEF p
<1>2. SUFFICES ASSUME p + 1 <= q PROVE FALSE
  BY <1>1 DEF p
<1>3. b * (p + 1) <= b * q
  BY <1>1, <1>2, TimesKeeps
<1>4. b * (p + 1) = b * p + b /\ b * p \in Int /\ b * q \in Int
  BY <1>1
<1> QED BY <1>1, <1>3, <1>4

(* A list, followed by the same list. *)
LEMMA SumOfTwice ==
  ASSUME NEW n \in Nat, NEW numbers, NEW both,
         \A i \in 1 .. n : /\ numbers[i] \in Int
                           /\ both[i] = numbers[i] /\ both[n + i] = numbers[i]
  PROVE  RunningSum(both, n + n) = RunningSum(numbers, n) + RunningSum(numbers, n)
<1> DEFINE Right(k) == RunningSum(both, n + k)
                         = RunningSum(numbers, n) + RunningSum(numbers, k)
           Bad == {k \in 0 .. n : ~Right(k)}
<1>1. SUFFICES ASSUME Bad # {} PROVE FALSE
  BY n \in 0 .. n
<1>2. Bad \subseteq Nat
  OBVIOUS
<1>3. PICK k \in Bad : \A i \in Bad : k <= i
  BY <1>1, <1>2, LeastNatural
<1>4. RunningSum(numbers, n) \in Int
  BY SumType
<1>5. k # 0
  <2>1. RunningSum(both, n) = RunningSum(numbers, n)
    BY SumOfSame
  <2>2. RunningSum(numbers, 0) = 0 /\ n + 0 = n
    BY SumOfNone
  <2>3. Right(0)
    <3> HIDE DEF Bad
    <3> QED BY <1>4, <2>1, <2>2
  <2> QED BY <1>3, <2>3
<1>6. /\ k \in 1 .. n /\ k - 1 \in 0 .. n /\ k - 1 \notin Bad
      /\ k - 1 \in Nat /\ (k - 1) + 1 = k
      /\ n + (k - 1) \in Nat /\ (n + (k - 1)) + 1 = n + k
  BY <1>3, <1>5
<1>7. /\ RunningSum(numbers, k) = RunningSum(numbers, k - 1) + numbers[k]
      /\ RunningSum(both, n + k) = RunningSum(both, n + (k - 1)) + both[n + k]
  BY <1>6, SumOfMore
<1>8. RunningSum(both, n + (k - 1))
        = RunningSum(numbers, n) + RunningSum(numbers, k - 1)
  BY <1>6
<1>9. RunningSum(numbers, k - 1) \in Int
  <2>1. \A i \in 1 .. k - 1 : numbers[i] \in Int
    BY <1>6
  <2> QED BY <1>6, <2>1, SumType
<1>10. both[n + k] = numbers[k] /\ numbers[k] \in Int
  BY <1>6
<1>11. Right(k)
  <2> HIDE DEF Bad
  <2> QED BY <1>4, <1>7, <1>8, <1>9, <1>10
<1> QED BY <1>3, <1>11

(* The places of a kind in a list, and in the same list twice. *)
LEMMA TwiceAsMany ==
  ASSUME NEW n \in Nat, NEW A \in SUBSET (1 .. n), NEW B \in SUBSET (1 .. n + n),
         \A i \in 1 .. n : (i \in B <=> i \in A) /\ (n + i \in B <=> i \in A)
  PROVE  Cardinality(B) = Cardinality(A) + Cardinality(A)
<1> DEFINE C == {n + i : i \in A}
           f == [i \in A |-> n + i]
<1>1. IsFiniteSet(A) /\ Cardinality(A) \in Nat
  <2>1. IsFiniteSet(1 .. n)
    BY FS_Interval
  <2> QED BY <2>1, FS_Subset, FS_CardinalityType
<1>2. f \in Bijection(A, C)
  <2>1. f \in [A -> C]
    OBVIOUS
  <2>2. \A i, j \in A : f[i] = f[j] => i = j
    OBVIOUS
  <2>3. \A y \in C : \E i \in A : f[i] = y
    OBVIOUS
  <2> HIDE DEF f, C
  <2> QED BY <2>1, <2>2, <2>3 DEF Bijection, Injection, Surjection, IsInjective
<1>3. IsFiniteSet(C) /\ Cardinality(C) = Cardinality(A)
  <2>1. ExistsBijection(A, C)
    BY <1>2 DEF ExistsBijection
  <2> HIDE DEF C
  <2> QED BY <1>1, <2>1, FS_Bijection
<1>4. A \cap C = {}
  OBVIOUS
<1>5. B = A \cup C
  <2>1. ASSUME NEW j \in B PROVE j \in A \cup C
    <3>1. CASE j <= n
      BY <2>1, <3>1
    <3>2. CASE j > n
      <4>1. j - n \in 1 .. n /\ n + (j - n) = j
        BY <2>1, <3>2
      <4>2. j - n \in A
        BY <2>1, <4>1
      <4> QED BY <4>1, <4>2
    <3> QED BY <2>1, <3>1, <3>2
  <2>2. A \subseteq B /\ C \subseteq B
    OBVIOUS
  <2> QED BY <2>1, <2>2
<1> HIDE DEF C
<1>6. Cardinality(A \cap C) = 0
  BY <1>4, FS_EmptySet
<1>7. Cardinality(A \cup C) = Cardinality(A) + Cardinality(C) - Cardinality(A \cap C)
  BY <1>1, <1>3, FS_Union
<1> QED BY <1>1, <1>3, <1>5, <1>6, <1>7

-----------------------------------------------------------------------------
(* What is kept of a list are the elements at the places to keep.           *)
LEMMA OnlyKeepsThose ==
  ASSUME NEW list, NEW S, NEW n \in Nat
  PROVE  ToSet(Only(list, S, n)) = {list[i] : i \in {j \in 1 .. n : j \in S}}
<1> DEFINE those(k) == {list[i] : i \in {j \in 1 .. k : j \in S}}
           kept(k) == Only(list, S, k)
           Bad == {k \in 0 .. n : ToSet(kept(k)) # those(k)}
<1>1. SUFFICES ASSUME Bad # {} PROVE FALSE
  BY n \in 0 .. n
<1>0. Bad \subseteq Nat
  OBVIOUS
<1>2. PICK k \in Bad : \A i \in Bad : k <= i
  BY <1>0, <1>1, LeastNatural
<1>3. k # 0
  <2>1. those(0) = {} /\ kept(0) = << >>
    BY OnlyOfNone
  <2>2. ToSet(<< >>) = {}
    BY DEF ToSet
  <2> QED BY <1>2, <2>1, <2>2
<1>4. k - 1 \in 0 .. n /\ k - 1 \notin Bad /\ k - 1 \in Nat /\ (k - 1) + 1 = k
  BY <1>2, <1>3
<1>5. kept(k) = IF k \in S THEN Append(kept(k - 1), list[k]) ELSE kept(k - 1)
  <2> DEFINE l == k - 1
  <2>1. l \in Nat /\ l + 1 = k
    BY <1>4
  <2> HIDE DEF l
  <2>2. Only(list, S, l + 1) = IF l + 1 \in S THEN Append(Only(list, S, l), list[l + 1])
                               ELSE Only(list, S, l)
    BY ONLY <2>1, OnlyOfMore
  <2>3. Only(list, S, k) = IF k \in S THEN Append(Only(list, S, l), list[k])
                           ELSE Only(list, S, l)
    BY <2>1, <2>2
  <2> QED BY <2>3 DEF l
<1>6. IsList(kept(k - 1))
  BY <1>4, OnlyCounts
<1>7. ToSet(kept(k - 1)) = those(k - 1)
  BY <1>4
<1>8. those(k) = IF k \in S THEN those(k - 1) \cup {list[k]} ELSE those(k - 1)
  <2>1. {j \in 1 .. k : j \in S}
          = IF k \in S THEN {j \in 1 .. k - 1 : j \in S} \cup {k}
            ELSE {j \in 1 .. k - 1 : j \in S}
    BY <1>2, <1>3
  <2> QED BY <2>1
<1> HIDE DEF kept, those
<1>9. ToSet(Append(kept(k - 1), list[k])) = ToSet(kept(k - 1)) \cup {list[k]}
  BY <1>6, OneMore
<1>10. ToSet(kept(k)) = those(k)
  BY <1>5, <1>7, <1>8, <1>9
<1> QED BY <1>2, <1>10

(* A sum of multiples.                                                     *)
LEMMA SumOfMultiples ==
  ASSUME NEW c \in Int, NEW n \in Nat, NEW f, NEW g,
         \A i \in 1 .. n : f[i] \in Int /\ g[i] = c * f[i]
  PROVE  RunningSum(g, n) = c * RunningSum(f, n)
<1> DEFINE Bad == {k \in 0 .. n : RunningSum(g, k) # c * RunningSum(f, k)}
<1>1. SUFFICES ASSUME Bad # {} PROVE FALSE
  BY n \in 0 .. n
<1>0. Bad \subseteq Nat
  OBVIOUS
<1>2. PICK k \in Bad : \A i \in Bad : k <= i
  BY <1>0, <1>1, LeastNatural
<1>3. k # 0
  BY <1>2, SumOfNone
<1>4. k - 1 \in 0 .. n /\ k - 1 \notin Bad /\ k - 1 \in Nat /\ (k - 1) + 1 = k
  BY <1>2, <1>3
<1> DEFINE old == RunningSum(f, k - 1)
<1>5. /\ RunningSum(f, k) = old + f[k]
      /\ RunningSum(g, k) = RunningSum(g, k - 1) + g[k]
  BY <1>4, SumOfMore
<1>6. old \in Int
  <2>1. \A i \in 1 .. k - 1 : f[i] \in Int
    OBVIOUS
  <2> QED BY <1>4, <2>1, SumType
<1>7. f[k] \in Int /\ g[k] = c * f[k] /\ RunningSum(g, k - 1) = c * old
  BY <1>2, <1>3, <1>4
<1> HIDE DEF old
<1>8. c * (old + f[k]) = c * old + c * f[k]
  BY <1>6, <1>7
<1> QED BY <1>2, <1>5, <1>7, <1>8

(* One summand that is less makes the sum less.                            *)
LEMMA SumOfOneLess ==
  ASSUME NEW n \in Nat, NEW f, NEW g,
         \A i \in 1 .. n : f[i] \in Int /\ g[i] \in Int /\ f[i] <= g[i],
         NEW j \in 1 .. n, f[j] < g[j]
  PROVE  RunningSum(f, n) < RunningSum(g, n)
<1> DEFINE Bad == {k \in j .. n : ~(RunningSum(f, k) < RunningSum(g, k))}
<1>1. SUFFICES ASSUME Bad # {} PROVE FALSE
  BY n \in j .. n
<1>0. Bad \subseteq Nat
  OBVIOUS
<1>2. PICK k \in Bad : \A i \in Bad : k <= i
  BY <1>0, <1>1, LeastNatural
<1>3. k - 1 \in Nat /\ (k - 1) + 1 = k /\ k \in 1 .. n
  BY <1>2
<1>4. /\ RunningSum(f, k) = RunningSum(f, k - 1) + f[k]
      /\ RunningSum(g, k) = RunningSum(g, k - 1) + g[k]
  BY <1>3, SumOfMore
<1>5. \A i \in 1 .. k - 1 : f[i] \in Int /\ g[i] \in Int /\ f[i] <= g[i]
  BY <1>3
<1>6. RunningSum(f, k - 1) \in Int /\ RunningSum(g, k - 1) \in Int
  BY <1>3, <1>5, SumType
<1>7. RunningSum(f, k - 1) <= RunningSum(g, k - 1)
  BY <1>3, <1>5, SumOfLess
<1>8. k # j => RunningSum(f, k - 1) < RunningSum(g, k - 1)
  BY <1>2, <1>3
<1> QED BY <1>2, <1>3, <1>4, <1>6, <1>7, <1>8
=============================================================================
