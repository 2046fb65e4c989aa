------------------------ MODULE ResponseCache_proofs ------------------------
(***************************************************************************)
(* What TLAPS proves about the response caches, for any number of requests *)
(* and configurations, any sizes and any bounds.                           *)
(*                                                                         *)
(* The byte counts are sums, so the first part is about Total: what it     *)
(* does for sequences that are extended, split and shortened.  Induction   *)
(* is by a least counterexample, which WellFoundedInduction provides as a  *)
(* statement about sets of numbers.                                        *)
(***************************************************************************)
EXTENDS ResponseCache, WellFoundedInduction, TLAPS

(* The order of the numbers, as a relation.                                *)
LEMMA LessThanRelation == OpToRel(<, Nat) = {ss \in Nat \X Nat : ss[1] < ss[2]}
PROOF
  BY Zenon DEF OpToRel

(* Every set of numbers that is not empty has a least one.                 *)
LEMMA LeastNumber ==
  ASSUME NEW T \in SUBSET Nat, T # {}
  PROVE  \E x \in T : \A y \in T : x <= y
PROOF
<1> DEFINE R == {ss \in Nat \X Nat : ss[1] < ss[2]}
<1>1. IsWellFoundedOn(R, Nat)
  BY LessThanRelation, NatLessThanWellFounded, Zenon
<1>2. \A a, b \in Nat : <<a, b>> \in R <=> a < b
  OBVIOUS
<1> HIDE DEF R
<1>3. PICK x \in T : \A y \in T : ~ (<<y, x>> \in R)
  BY <1>1, WFMin
<1>4. ASSUME NEW y \in T PROVE x <= y
  <2>1. x \in Nat /\ y \in Nat
    OBVIOUS
  <2>2. ~(y < x)
    BY <1>2, <1>3, <2>1
  <2> QED BY <2>1, <2>2
<1> QED BY <1>4

(* A set of numbers with zero and every successor has them all.            *)
LEMMA AllNumbers ==
  ASSUME NEW S \in SUBSET Nat, 0 \in S, \A n \in S : n + 1 \in S
  PROVE  \A n \in Nat : n \in S
PROOF
<1> SUFFICES ASSUME Nat \ S # {} PROVE FALSE
  OBVIOUS
<1>1. PICK x \in Nat \ S : \A y \in Nat \ S : x <= y
  BY LeastNumber
<1>2. x - 1 \in S
  BY <1>1
<1> QED BY <1>1, <1>2

(* Min picks the least of a set of numbers.                                *)
LEMMA MinIsLeast ==
  ASSUME NEW T \in SUBSET Nat, T # {}
  PROVE  Min(T) \in T /\ \A y \in T : Min(T) <= y
PROOF
  BY LeastNumber DEF Min

(* Sequences with the same elements in the same places are the same.       *)
LEMMA SameSequence ==
  ASSUME NEW S, NEW s \in Seq(S), NEW t \in Seq(S), Len(s) = Len(t),
         \A i \in 1..Len(s) : s[i] = t[i]
  PROVE  s = t
PROOF
  OBVIOUS

(* The elements of a concatenation.                                        *)
LEMMA Concatenated ==
  ASSUME NEW S, NEW s \in Seq(S), NEW t \in Seq(S)
  PROVE  /\ s \o t \in Seq(S) /\ Len(s \o t) = Len(s) + Len(t)
         /\ \A k \in 1..Len(s) : (s \o t)[k] = s[k]
         /\ \A k \in 1..Len(t) : (s \o t)[Len(s) + k] = t[k]
PROOF
  OBVIOUS

-----------------------------------------------------------------------------
(* Sums. *)

(* f is the table of the sums of the first elements of s, up to m of them. *)
SumsUpTo(s, m, f) ==
  f \in [0..m -> Nat] /\ f[0] = 0 /\ \A n \in 1..m : f[n] = f[n - 1] + s[n]

Sums(s) == CHOOSE f : f = [n \in 0..Len(s) |-> IF n = 0 THEN 0 ELSE f[n - 1] + s[n]]

(* The table exists: the recursion in Total defines it.                    *)
LEMMA SumsExist ==
  ASSUME NEW s \in Seq(Nat)
  PROVE  \A m \in Nat : m <= Len(s) => \E f : SumsUpTo(s, m, f)
PROOF
<1> DEFINE S == {m \in Nat : m <= Len(s) => \E f : SumsUpTo(s, m, f)}
<1>1. 0 \in S
  <2>1. SumsUpTo(s, 0, [n \in 0..0 |-> 0])
    BY DEF SumsUpTo
  <2> QED BY <2>1
<1>2. ASSUME NEW m \in S PROVE m + 1 \in S
  <2> SUFFICES ASSUME m + 1 <= Len(s) PROVE \E f : SumsUpTo(s, m + 1, f)
    OBVIOUS
  <2>0. m \in Nat /\ m <= Len(s) /\ s[m + 1] \in Nat
    OBVIOUS
  <2>1. PICK f : SumsUpTo(s, m, f)
    BY <2>0
  <2> DEFINE g == [n \in 0..(m + 1) |-> IF n = m + 1 THEN f[m] + s[m + 1] ELSE f[n]]
  <2>2. SumsUpTo(s, m + 1, g)
    BY <2>0, <2>1, SMTT(30) DEF SumsUpTo
  <2> HIDE DEF g
  <2> QED BY <2>2
<1> HIDE DEF S
<1>3. S \in SUBSET Nat
  BY DEF S
<1>4. \A m \in Nat : m \in S
  BY <1>1, <1>2, <1>3, AllNumbers
<1> QED BY <1>4 DEF S

(* What Total computes is the last entry of the table.                     *)
LEMMA SumsTable ==
  ASSUME NEW s \in Seq(Nat)
  PROVE  SumsUpTo(s, Len(s), Sums(s)) /\ Total(s) = Sums(s)[Len(s)] /\ Total(s) \in Nat
PROOF
<1>1. Len(s) \in Nat /\ Len(s) <= Len(s)
  OBVIOUS
<1>2. PICK f : SumsUpTo(s, Len(s), f)
  BY <1>1, SumsExist
<1>3. f = [n \in 0..Len(s) |-> IF n = 0 THEN 0 ELSE f[n - 1] + s[n]]
  BY <1>1, <1>2 DEF SumsUpTo
<1>4. Sums(s) = [n \in 0..Len(s) |-> IF n = 0 THEN 0 ELSE Sums(s)[n - 1] + s[n]]
  BY <1>3 DEF Sums
<1>5. Total(s) = Sums(s)[Len(s)]
  BY DEF Total, Sums
<1>6. /\ Sums(s)[0] = 0 /\ \A n \in 1..Len(s) : Sums(s)[n] = Sums(s)[n - 1] + s[n]
      /\ DOMAIN Sums(s) = 0..Len(s)
  BY <1>1, <1>4
<1>7. \A n \in Nat : n <= Len(s) => Sums(s)[n] \in Nat
  <2> DEFINE S == {n \in Nat : n <= Len(s) => Sums(s)[n] \in Nat}
  <2>1. 0 \in S
    BY <1>6
  <2>2. ASSUME NEW n \in S PROVE n + 1 \in S
    <3> SUFFICES ASSUME n + 1 <= Len(s) PROVE Sums(s)[n + 1] \in Nat
      OBVIOUS
    <3>1. n \in Nat /\ n + 1 \in 1..Len(s) /\ (n + 1) - 1 = n /\ Sums(s)[n] \in Nat /\ s[n + 1] \in Nat
      BY <1>1
    <3> QED BY <1>6, <3>1
  <2> HIDE DEF S
  <2>3. S \in SUBSET Nat
    BY DEF S
  <2>4. \A n \in Nat : n \in S
    BY <2>1, <2>2, <2>3, AllNumbers
  <2> QED BY <2>4 DEF S
<1>8. Sums(s) \in [0..Len(s) -> Nat]
  BY <1>1, <1>4, <1>7
<1> QED BY <1>1, <1>5, <1>6, <1>7, <1>8 DEF SumsUpTo

(* Sums of sequences with a common beginning agree on it.                  *)
LEMMA SumsAgree ==
  ASSUME NEW s \in Seq(Nat), NEW t \in Seq(Nat), NEW m \in Nat, m <= Len(s), m <= Len(t),
         \A n \in 1..m : s[n] = t[n]
  PROVE  Sums(s)[m] = Sums(t)[m]
PROOF
<1>0. SumsUpTo(s, Len(s), Sums(s)) /\ SumsUpTo(t, Len(t), Sums(t)) /\ Len(s) \in Nat /\ Len(t) \in Nat
  BY SumsTable
<1> DEFINE S == {n \in Nat : n <= m => Sums(s)[n] = Sums(t)[n]}
<1>1. 0 \in S
  BY <1>0 DEF SumsUpTo
<1>2. ASSUME NEW n \in S PROVE n + 1 \in S
  <2> SUFFICES ASSUME n + 1 <= m PROVE Sums(s)[n + 1] = Sums(t)[n + 1]
    OBVIOUS
  <2>1. /\ n \in Nat /\ n + 1 \in 1..Len(s) /\ n + 1 \in 1..Len(t) /\ n + 1 \in 1..m
        /\ (n + 1) - 1 = n /\ Sums(s)[n] = Sums(t)[n]
    BY <1>0
  <2>2. Sums(s)[n + 1] = Sums(s)[n] + s[n + 1] /\ Sums(t)[n + 1] = Sums(t)[n] + t[n + 1]
    BY <1>0, <2>1 DEF SumsUpTo
  <2> QED BY <2>1, <2>2
<1> HIDE DEF S
<1>3. S \in SUBSET Nat
  BY DEF S
<1>4. \A n \in Nat : n \in S
  BY <1>1, <1>2, <1>3, AllNumbers
<1> QED BY <1>4 DEF S

(* The empty sum.                                                          *)
LEMMA TotalEmpty ==
  ASSUME NEW s \in Seq(Nat), Len(s) = 0
  PROVE  Total(s) = 0
PROOF
  BY SumsTable DEF SumsUpTo

(* One more element adds itself.                                           *)
LEMMA TotalAppend ==
  ASSUME NEW s \in Seq(Nat), NEW x \in Nat
  PROVE  Total(Append(s, x)) = Total(s) + x
PROOF
<1> DEFINE t == Append(s, x)
<1>1. /\ t \in Seq(Nat) /\ Len(t) = Len(s) + 1 /\ Len(s) \in Nat /\ t[Len(s) + 1] = x
      /\ \A n \in 1..Len(s) : s[n] = t[n]
  OBVIOUS
<1> HIDE DEF t
<1>2. Sums(s)[Len(s)] = Sums(t)[Len(s)]
  <2>1. Len(s) <= Len(s) /\ Len(s) <= Len(t)
    BY <1>1
  <2> QED BY <1>1, <2>1, SumsAgree
<1>3. SumsUpTo(t, Len(t), Sums(t)) /\ Total(t) = Sums(t)[Len(t)] /\ Total(s) = Sums(s)[Len(s)]
  BY <1>1, SumsTable
<1>4. Len(t) \in 1..Len(t) /\ Len(t) - 1 = Len(s)
  BY <1>1
<1>5. Sums(t)[Len(t)] = Sums(t)[Len(s)] + x
  BY <1>1, <1>3, <1>4 DEF SumsUpTo
<1> QED BY <1>2, <1>3, <1>5 DEF t

(* The sum of a sequence is that of its first n and of the others.         *)
LEMMA TotalSplit ==
  ASSUME NEW s \in Seq(Nat), NEW n \in 0..Len(s)
  PROVE  /\ SubSeq(s, 1, n) \in Seq(Nat) /\ SubSeq(s, n + 1, Len(s)) \in Seq(Nat)
         /\ Total(s) = Total(SubSeq(s, 1, n)) + Total(SubSeq(s, n + 1, Len(s)))
         /\ Total(SubSeq(s, 1, n)) \in Nat /\ Total(SubSeq(s, n + 1, Len(s))) \in Nat
PROOF
<1> DEFINE a == SubSeq(s, 1, n)
           b == SubSeq(s, n + 1, Len(s))
<1>0. n \in Nat /\ n <= Len(s) /\ Len(s) \in Nat
  OBVIOUS
<1>1. a \in Seq(Nat) /\ Len(a) = n /\ \A i \in 1..n : a[i] = s[i]
  BY <1>0
<1>2. b \in Seq(Nat) /\ Len(b) = Len(s) - n /\ \A i \in 1..(Len(s) - n) : b[i] = s[n + i]
  BY <1>0
<1> HIDE DEF a, b
<1>3. SumsUpTo(s, Len(s), Sums(s)) /\ SumsUpTo(b, Len(b), Sums(b))
  BY <1>2, SumsTable
<1>4. Total(a) = Sums(s)[n]
  <2>0. n <= Len(a) /\ \A k \in 1..n : a[k] = s[k]
    BY <1>0, <1>1
  <2>1. Sums(a)[n] = Sums(s)[n]
    BY <1>0, <1>1, <2>0, SumsAgree
  <2> QED BY <1>1, <2>1, SumsTable
<1> DEFINE S == {i \in Nat : i <= Len(b) => Sums(s)[n + i] = Sums(s)[n] + Sums(b)[i]}
<1>5. 0 \in S
  <2>1. n + 0 = n /\ n \in 0..Len(s)
    BY <1>0
  <2>2. Sums(s)[n] \in Nat /\ Sums(b)[0] = 0
    BY <1>3, <2>1 DEF SumsUpTo
  <2> QED BY <2>1, <2>2
<1>6. ASSUME NEW i \in S PROVE i + 1 \in S
  <2> SUFFICES ASSUME i + 1 <= Len(b) PROVE Sums(s)[n + (i + 1)] = Sums(s)[n] + Sums(b)[i + 1]
    OBVIOUS
  <2>1. /\ i \in Nat /\ i + 1 \in 1..Len(b) /\ (i + 1) - 1 = i /\ n + (i + 1) \in 1..Len(s)
        /\ (n + (i + 1)) - 1 = n + i /\ Sums(s)[n + i] = Sums(s)[n] + Sums(b)[i]
        /\ i \in 0..Len(b) /\ n \in 0..Len(s)
    BY <1>0, <1>2
  <2>2. Sums(b)[i + 1] = Sums(b)[i] + b[i + 1]
    BY <1>3, <2>1 DEF SumsUpTo
  <2>3. Sums(s)[n + (i + 1)] = Sums(s)[n + i] + s[n + (i + 1)]
    BY <1>3, <2>1 DEF SumsUpTo
  <2>4. b[i + 1] = s[n + (i + 1)] /\ b[i + 1] \in Nat
    BY <1>2, <2>1, SMTT(30)
  <2>5. Sums(b)[i] \in Nat /\ Sums(s)[n] \in Nat
    BY <1>3, <2>1 DEF SumsUpTo
  <2> QED BY <2>1, <2>2, <2>3, <2>4, <2>5
<1> HIDE DEF S
<1>7. S \in SUBSET Nat
  BY DEF S
<1>8. Len(b) \in S
  <2>1. \A k \in Nat : k \in S
    BY <1>5, <1>6, <1>7, AllNumbers
  <2> QED BY <1>2, <2>1
<1>9. Sums(s)[n + Len(b)] = Sums(s)[n] + Sums(b)[Len(b)] /\ n + Len(b) = Len(s)
  BY <1>0, <1>2, <1>8 DEF S
<1>10. Total(s) = Sums(s)[Len(s)] /\ Total(b) = Sums(b)[Len(b)] /\ Total(a) \in Nat /\ Total(b) \in Nat
  BY <1>1, <1>2, SumsTable
<1>11. Total(s) = Total(a) + Total(b)
  BY <1>4, <1>9, <1>10
<1> QED BY <1>1, <1>2, <1>10, <1>11 DEF a, b

(* Pointwise smaller sequences have smaller sums.                          *)
LEMMA TotalMonotone ==
  ASSUME NEW s \in Seq(Nat), NEW t \in Seq(Nat), Len(s) = Len(t),
         \A i \in 1..Len(s) : s[i] <= t[i]
  PROVE  Total(s) <= Total(t)
PROOF
<1>0. SumsUpTo(s, Len(s), Sums(s)) /\ SumsUpTo(t, Len(t), Sums(t)) /\ Len(s) \in Nat
      /\ Total(s) = Sums(s)[Len(s)] /\ Total(t) = Sums(t)[Len(t)]
  BY SumsTable
<1> DEFINE S == {n \in Nat : n <= Len(s) => Sums(s)[n] <= Sums(t)[n]}
<1>1. 0 \in S
  BY <1>0 DEF SumsUpTo
<1>2. ASSUME NEW n \in S PROVE n + 1 \in S
  <2> SUFFICES ASSUME n + 1 <= Len(s) PROVE Sums(s)[n + 1] <= Sums(t)[n + 1]
    OBVIOUS
  <2>1. /\ n \in Nat /\ n + 1 \in 1..Len(s) /\ n + 1 \in 1..Len(t) /\ n \in 0..Len(s) /\ n \in 0..Len(t)
        /\ (n + 1) - 1 = n /\ Sums(s)[n] <= Sums(t)[n]
    BY <1>0
  <2>2. Sums(s)[n + 1] = Sums(s)[n] + s[n + 1] /\ Sums(t)[n + 1] = Sums(t)[n] + t[n + 1]
    BY <1>0, <2>1 DEF SumsUpTo
  <2>3. Sums(s)[n] \in Nat /\ Sums(t)[n] \in Nat
    BY <1>0, <2>1 DEF SumsUpTo
  <2>4. s[n + 1] \in Nat /\ t[n + 1] \in Nat /\ s[n + 1] <= t[n + 1]
    BY <2>1
  <2> QED BY <2>1, <2>2, <2>3, <2>4
<1> HIDE DEF S
<1>3. S \in SUBSET Nat
  BY DEF S
<1>4. Len(s) \in S
  BY <1>0, <1>1, <1>2, <1>3, AllNumbers
<1> QED BY <1>0, <1>4 DEF S

(* Removing an element takes it from the sum.                              *)
LEMMA TotalRemoveAt ==
  ASSUME NEW s \in Seq(Nat), NEW i \in 1..Len(s)
  PROVE  /\ RemoveAt(s, i) \in Seq(Nat)
         /\ Total(RemoveAt(s, i)) = Total(s) - s[i]
PROOF
<1> DEFINE a == SubSeq(s, 1, i - 1)
           b == SubSeq(s, i, Len(s))
           c == SubSeq(s, i + 1, Len(s))
           r == RemoveAt(s, i)
<1>0. i \in Nat /\ i >= 1 /\ i <= Len(s) /\ Len(s) \in Nat /\ i - 1 \in 0..Len(s) /\ (i - 1) + 1 = i
      /\ s[i] \in Nat
  OBVIOUS
<1>1. /\ a \in Seq(Nat) /\ Len(a) = i - 1 /\ \A k \in 1..(i - 1) : a[k] = s[k]
      /\ c \in Seq(Nat) /\ Len(c) = Len(s) - i /\ \A k \in 1..(Len(s) - i) : c[k] = s[i + k]
      /\ b \in Seq(Nat) /\ Len(b) = (Len(s) - i) + 1 /\ \A k \in 1..((Len(s) - i) + 1) : b[k] = s[(i - 1) + k]
  BY <1>0, SMTT(30)
<1>2. r = a \o c
  BY DEF RemoveAt
<1> HIDE DEF a, b, c, r
<1>3. /\ r \in Seq(Nat) /\ Len(r) = Len(s) - 1 /\ \A k \in 1..(i - 1) : r[k] = a[k]
      /\ \A k \in 1..(Len(s) - i) : r[(i - 1) + k] = c[k]
  <2>1. /\ r \in Seq(Nat) /\ Len(r) = Len(a) + Len(c) /\ \A k \in 1..Len(a) : r[k] = a[k]
        /\ \A k \in 1..Len(c) : r[Len(a) + k] = c[k]
    <3>1. a \in Seq(Nat) /\ c \in Seq(Nat)
      BY <1>1
    <3>2. /\ a \o c \in Seq(Nat) /\ Len(a \o c) = Len(a) + Len(c)
          /\ \A k \in 1..Len(a) : (a \o c)[k] = a[k]
          /\ \A k \in 1..Len(c) : (a \o c)[Len(a) + k] = c[k]
      BY <3>1, Concatenated
    <3> QED BY <1>2, <3>2
  <2>3. Len(a) + Len(c) = Len(s) - 1
    BY <1>0, <1>1
  <2> QED BY <1>1, <2>1, <2>3
<1>4. Total(s) = Total(a) + Total(b) /\ Total(a) \in Nat /\ Total(b) \in Nat
  BY <1>0, TotalSplit DEF a, b
<1>5. Total(b) = s[i] + Total(c) /\ Total(c) \in Nat
  <2> DEFINE one == SubSeq(b, 1, 1)
             rest == SubSeq(b, 2, Len(b))
  <2>0. 1 \in 0..Len(b) /\ 1 + 1 = 2 /\ Len(b) \in Nat /\ b[1] = s[i]
    <3>1. 1 \in 1..((Len(s) - i) + 1) /\ (i - 1) + 1 = i
      BY <1>0
    <3>2. b[1] = s[(i - 1) + 1]
      BY <1>1, <3>1
    <3> QED BY <1>0, <1>1, <3>1, <3>2
  <2>1. Total(b) = Total(one) + Total(rest) /\ one \in Seq(Nat) /\ rest \in Seq(Nat)
    BY <1>1, <2>0, TotalSplit
  <2>2. rest = c
    <3>1. Len(rest) = Len(s) - i /\ \A k \in 1..(Len(s) - i) : rest[k] = b[k + 1]
      BY <1>0, <1>1, <2>0, SMTT(30)
    <3>2. ASSUME NEW k \in 1..(Len(s) - i) PROVE b[k + 1] = s[i + k]
      <4>1. k + 1 \in 1..((Len(s) - i) + 1) /\ (i - 1) + (k + 1) = i + k
        BY <1>0
      <4>2. b[k + 1] = s[(i - 1) + (k + 1)]
        BY <1>1, <4>1
      <4> QED BY <4>1, <4>2
    <3> HIDE DEF rest
    <3>3. \A k \in 1..Len(rest) : rest[k] = c[k]
      BY <1>1, <3>1, <3>2
    <3> QED BY <1>1, <2>1, <3>1, <3>3, SameSequence
  <2>3. one = Append(<<>>, s[i])
    <3>1. Len(one) = 1 /\ one[1] = s[i]
      BY <1>0, <1>1, <2>0
    <3>2. Append(<<>>, s[i]) \in Seq(Nat) /\ Len(Append(<<>>, s[i])) = 1 /\ Append(<<>>, s[i])[1] = s[i]
      BY <1>0
    <3> HIDE DEF one
    <3> QED BY <2>1, <3>1, <3>2, SameSequence
  <2>4. Total(Append(<<>>, s[i])) = Total(<<>>) + s[i] /\ Total(<<>>) = 0
    <3>1. <<>> \in Seq(Nat) /\ Len(<<>>) = 0
      OBVIOUS
    <3> QED BY <1>0, <3>1, TotalAppend, TotalEmpty
  <2>5. Total(c) \in Nat
    BY <1>1, SumsTable
  <2> HIDE DEF one, rest
  <2>6. Total(one) = s[i]
    BY <1>0, <2>3, <2>4
  <2> QED BY <1>0, <2>1, <2>2, <2>5, <2>6
<1>6. Total(r) = Total(a) + Total(c)
  <2>1. i - 1 \in 0..Len(r) /\ Len(r) \in Nat
    BY <1>0, <1>3
  <2>2. /\ Total(r) = Total(SubSeq(r, 1, i - 1)) + Total(SubSeq(r, i, Len(r)))
        /\ SubSeq(r, 1, i - 1) \in Seq(Nat) /\ SubSeq(r, i, Len(r)) \in Seq(Nat)
    BY <1>0, <1>3, <2>1, TotalSplit
  <2>3. SubSeq(r, 1, i - 1) = a
    <3>1. Len(SubSeq(r, 1, i - 1)) = i - 1 /\ \A k \in 1..(i - 1) : SubSeq(r, 1, i - 1)[k] = a[k]
      BY <1>0, <1>3, <2>1
    <3> QED BY <1>1, <2>2, <3>1, SameSequence
  <2>4. SubSeq(r, i, Len(r)) = c
    <3>1. Len(SubSeq(r, i, Len(r))) = Len(s) - i
          /\ \A k \in 1..(Len(s) - i) : SubSeq(r, i, Len(r))[k] = r[(i - 1) + k]
      BY <1>0, <1>3, <2>1
    <3> DEFINE tail == SubSeq(r, i, Len(r))
    <3>2. \A k \in 1..Len(tail) : tail[k] = c[k]
      BY <1>3, <3>1
    <3>3. Len(tail) = Len(c) /\ tail \in Seq(Nat)
      BY <1>1, <2>2, <3>1
    <3> HIDE DEF tail
    <3>4. tail = c
      BY <1>1, <3>2, <3>3, SameSequence
    <3> QED BY <3>4 DEF tail
  <2> QED BY <2>2, <2>3, <2>4
<1> QED BY <1>0, <1>3, <1>4, <1>5, <1>6 DEF r

-----------------------------------------------------------------------------
(* The inductive invariant. *)

KeySet == {cache_key_with_version(gen, in, m) : gen \in Generations, in \in Inputs, m \in Models}
Values == [size : Nat, by : Models, of : Inputs, gen : Generations]
Entries == [key : KeySet, val : Values, at : Nat]
ActiveRequests == [at : {"lookup", "deliver", "store", "replay"}, in : Inputs, gen : Generations,
                   missed : BOOLEAN, answer : Values \cup {NoValue}]

(* The value was produced for what its key names, by a keyed provider.     *)
Owns(key, val) == key = cache_key_with_version(val.gen, val.of, val.by) /\ ~val.by.codex

Distinct(s) == \A i, j \in DOMAIN s : s[i] = s[j] => i = j

(* A local cache with the given entries, byte count and settings.          *)
StoreSound(s, size, conf) ==
  /\ s \in Seq(Entries) /\ size \in Nat
  /\ size = BytesOf(s) /\ Len(s) <= conf.max_entries /\ size <= conf.max_bytes
  /\ \A i, j \in DOMAIN s : s[i].key = s[j].key => i = j
  /\ \A i \in DOMAIN s : Owns(s[i].key, s[i].val)

LocalInv ==
  /\ now \in Nat /\ settings \in CacheSettings
  /\ StoreSound(store, bytes, settings)
  /\ DisabledHoldsNothing

(* A request stores what was produced for it, and replays what its key     *)
(* names.                                                                  *)
RequestInv ==
  /\ req \in [Requests -> ActiveRequests \cup {Idle}]
  /\ \A r \in Requests : req[r].at = "store" =>
       /\ req[r].answer \in Values /\ ~req[r].answer.by.codex
       /\ req[r].answer.of = req[r].in /\ req[r].answer.gen = req[r].gen
  /\ \A r \in Requests : req[r].at = "replay" => Owns(KeyOf(r), req[r].answer)

(* A shared cache s: what the index lists has its size, and every value is *)
(* listed, of the generation in force, and as large as its size says.      *)
SharedSound(s) ==
  /\ s.meta \in [gen : Generations \cup {None}, bytes : Int]
  /\ s.index \in Seq(KeySet) /\ Distinct(s.index)
  /\ s.sizes \in [Range(s.index) -> Nat]
  /\ DOMAIN s.value \subseteq Range(s.index) /\ s.value \in [DOMAIN s.value -> Values]
  /\ \A k \in DOMAIN s.value : /\ s.value[k].gen = s.meta.gen /\ Owns(k, s.value[k])
                               /\ s.sizes[k] = s.value[k].size

EntriesBounded(s) == s.meta.gen # None => Len(s.index) <= Settings[s.meta.gen].max_entries

(* Its byte count is the sum of the sizes and within the bound.            *)
BytesCounted(s) ==
  /\ s.meta.bytes = Charged(s, s.index)
  /\ s.meta.gen # None => s.meta.bytes <= Settings[s.meta.gen].max_bytes

SharedInv == SharedSound(Redis) /\ EntriesBounded(Redis) /\ (~replaced => BytesCounted(Redis))

IInv == LocalInv /\ RequestInv /\ SharedInv /\ replaced \in BOOLEAN

-----------------------------------------------------------------------------
(* Sequences and the weights of their elements. *)

Weights(s, f) == [i \in DOMAIN s |-> f[s[i]]]

(* The elements of a sequence without its i-th.                            *)
LEMMA Removed ==
  ASSUME NEW S, NEW s \in Seq(S), NEW i \in 1..Len(s)
  PROVE  /\ RemoveAt(s, i) \in Seq(S) /\ Len(RemoveAt(s, i)) = Len(s) - 1
         /\ \A k \in 1..(Len(s) - 1) : RemoveAt(s, i)[k] = IF k < i THEN s[k] ELSE s[k + 1]
PROOF
<1> DEFINE a == SubSeq(s, 1, i - 1)
           c == SubSeq(s, i + 1, Len(s))
           r == RemoveAt(s, i)
<1>0. i \in Nat /\ i >= 1 /\ i <= Len(s) /\ Len(s) \in Nat
  OBVIOUS
<1>1. /\ a \in Seq(S) /\ Len(a) = i - 1 /\ \A k \in 1..(i - 1) : a[k] = s[k]
      /\ c \in Seq(S) /\ Len(c) = Len(s) - i /\ \A k \in 1..(Len(s) - i) : c[k] = s[i + k]
  BY <1>0
<1>2. r = a \o c
  BY DEF RemoveAt
<1> HIDE DEF a, c, r
<1>3. /\ r \in Seq(S) /\ Len(r) = Len(a) + Len(c)
      /\ \A k \in 1..Len(a) : r[k] = a[k]
      /\ \A k \in 1..Len(c) : r[Len(a) + k] = c[k]
  <2>1. a \in Seq(S) /\ c \in Seq(S)
    BY <1>1
  <2> QED BY <1>2, <2>1, Concatenated
<1>4. ASSUME NEW k \in 1..(Len(s) - 1) PROVE r[k] = IF k < i THEN s[k] ELSE s[k + 1]
  <2>1. CASE k < i
    <3>1. k \in 1..(i - 1)
      BY <1>0, <2>1
    <3> QED BY <1>1, <1>3, <2>1, <3>1
  <2>2. CASE ~(k < i)
    <3> DEFINE j == (k + 1) - i
    <3>1. j \in 1..(Len(s) - i) /\ (i - 1) + j = k /\ i + j = k + 1
      BY <1>0, <2>2
    <3> HIDE DEF j
    <3>2. r[(i - 1) + j] = c[j] /\ c[j] = s[i + j]
      BY <1>1, <1>3, <3>1
    <3> QED BY <2>2, <3>1, <3>2
  <2> QED BY <2>1, <2>2
<1>5. Len(r) = Len(s) - 1
  BY <1>0, <1>1, <1>3
<1> QED BY <1>3, <1>4, <1>5 DEF r

(* The elements of a sequence without its first n.                         *)
LEMMA Suffix ==
  ASSUME NEW S, NEW s \in Seq(S), NEW n \in 0..Len(s)
  PROVE  /\ SubSeq(s, n + 1, Len(s)) \in Seq(S) /\ Len(SubSeq(s, n + 1, Len(s))) = Len(s) - n
         /\ \A k \in 1..(Len(s) - n) : SubSeq(s, n + 1, Len(s))[k] = s[n + k]
         /\ SubSeq(s, 1, n) \in Seq(S) /\ Len(SubSeq(s, 1, n)) = n
         /\ \A k \in 1..n : SubSeq(s, 1, n)[k] = s[k]
PROOF
<1>0. n \in Nat /\ n <= Len(s) /\ Len(s) \in Nat
  OBVIOUS
<1>1. SubSeq(s, n + 1, Len(s)) \in Seq(S) /\ Len(SubSeq(s, n + 1, Len(s))) = Len(s) - n
  BY <1>0
<1>2. \A k \in 1..(Len(s) - n) : SubSeq(s, n + 1, Len(s))[k] = s[n + k]
  BY <1>0
<1>3. SubSeq(s, 1, n) \in Seq(S) /\ Len(SubSeq(s, 1, n)) = n
  BY <1>0
<1>4. \A k \in 1..n : SubSeq(s, 1, n)[k] = s[k]
  BY <1>0
<1> QED BY <1>1, <1>2, <1>3, <1>4

(* Weights form a sequence of numbers.                                     *)
LEMMA WeightsType ==
  ASSUME NEW S, NEW f \in [S -> Nat], NEW s \in Seq(S)
  PROVE  /\ Weights(s, f) \in Seq(Nat) /\ Len(Weights(s, f)) = Len(s)
         /\ \A k \in 1..Len(s) : Weights(s, f)[k] = f[s[k]]
         /\ Total(Weights(s, f)) \in Nat
PROOF
<1>1. Weights(s, f) = [i \in 1..Len(s) |-> f[s[i]]]
  BY DEF Weights
<1>2. Weights(s, f) \in Seq(Nat) /\ Len(Weights(s, f)) = Len(s)
  BY <1>1
<1>3. \A k \in 1..Len(s) : Weights(s, f)[k] = f[s[k]]
  BY <1>1
<1> QED BY <1>2, <1>3, SumsTable

(* An element more.                                                        *)
LEMMA WeightsAppend ==
  ASSUME NEW S, NEW f \in [S -> Nat], NEW s \in Seq(S), NEW x \in S
  PROVE  Total(Weights(Append(s, x), f)) = Total(Weights(s, f)) + f[x]
PROOF
<1> DEFINE w == Weights(s, f)
           v == Weights(Append(s, x), f)
           t == Append(s, x)
<1>0. t \in Seq(S) /\ Len(t) = Len(s) + 1 /\ t[Len(s) + 1] = x /\ \A i \in 1..Len(s) : t[i] = s[i]
  OBVIOUS
<1>1. w \in Seq(Nat) /\ Len(w) = Len(s) /\ \A i \in 1..Len(s) : w[i] = f[s[i]]
  BY WeightsType
<1> HIDE DEF t
<1>2. v \in Seq(Nat) /\ Len(v) = Len(t) /\ \A i \in 1..Len(t) : v[i] = f[t[i]]
  <2>1. /\ Weights(t, f) \in Seq(Nat) /\ Len(Weights(t, f)) = Len(t)
        /\ \A i \in 1..Len(t) : Weights(t, f)[i] = f[t[i]]
    <3>1. t \in Seq(S)
      BY <1>0
    <3> QED BY <3>1, WeightsType, SMTT(30)
  <2> QED BY <2>1 DEF t
<1> HIDE DEF w, v
<1>3. f[x] \in Nat /\ Len(s) \in Nat
  OBVIOUS
<1>4. Append(w, f[x]) \in Seq(Nat) /\ Len(Append(w, f[x])) = Len(s) + 1
      /\ Append(w, f[x])[Len(s) + 1] = f[x] /\ \A i \in 1..Len(s) : Append(w, f[x])[i] = w[i]
  BY <1>1, <1>3
<1> DEFINE u == Append(w, f[x])
<1>5. \A i \in 1..Len(v) : v[i] = u[i]
  BY <1>0, <1>1, <1>2, <1>3, <1>4
<1>6. u \in Seq(Nat) /\ Len(u) = Len(v)
  BY <1>0, <1>2, <1>4
<1> HIDE DEF u
<1>7. v = u
  BY <1>2, <1>5, <1>6, SameSequence
<1>8. Total(u) = Total(w) + f[x]
  BY <1>1, <1>3, TotalAppend DEF u
<1> QED BY <1>7, <1>8 DEF v, w

(* An element less.                                                        *)
LEMMA WeightsRemove ==
  ASSUME NEW S, NEW f \in [S -> Nat], NEW s \in Seq(S), NEW i \in 1..Len(s)
  PROVE  Total(Weights(RemoveAt(s, i), f)) = Total(Weights(s, f)) - f[s[i]]
PROOF
<1> DEFINE w == Weights(s, f)
           t == RemoveAt(s, i)
           v == Weights(t, f)
           u == RemoveAt(w, i)
<1>0. t \in Seq(S) /\ Len(t) = Len(s) - 1
      /\ \A k \in 1..(Len(s) - 1) : t[k] = IF k < i THEN s[k] ELSE s[k + 1]
  BY Removed
<1>1. w \in Seq(Nat) /\ Len(w) = Len(s) /\ \A k \in 1..Len(s) : w[k] = f[s[k]]
  BY WeightsType
<1> HIDE DEF t, w, u, v
<1>2. v \in Seq(Nat) /\ Len(v) = Len(t) /\ \A k \in 1..Len(t) : v[k] = f[t[k]]
  <2>1. t \in Seq(S)
    BY <1>0
  <2>2. /\ Weights(t, f) \in Seq(Nat) /\ Len(Weights(t, f)) = Len(t)
        /\ \A k \in 1..Len(t) : Weights(t, f)[k] = f[t[k]]
        /\ Total(Weights(t, f)) \in Nat
    BY <2>1, WeightsType, Zenon
  <2> QED BY <2>2 DEF v
<1> USE DEF u
<1>3. u \in Seq(Nat) /\ Len(u) = Len(w) - 1
      /\ \A k \in 1..(Len(w) - 1) : u[k] = IF k < i THEN w[k] ELSE w[k + 1]
  BY <1>1, Removed
<1>4. Total(u) = Total(w) - w[i]
  BY <1>1, TotalRemoveAt
<1> HIDE DEF u
<1>5. Len(s) \in Nat /\ i \in Nat /\ Len(u) = Len(v)
  BY <1>0, <1>1, <1>2, <1>3
<1>6. ASSUME NEW k \in 1..Len(v) PROVE v[k] = u[k]
  <2>1. k \in 1..(Len(s) - 1) /\ k \in 1..Len(s) /\ k + 1 \in 1..Len(s)
    BY <1>0, <1>2, <1>5
  <2>2. w[k] = f[s[k]] /\ w[k + 1] = f[s[k + 1]]
    BY <1>1, <2>1
  <2>3. v[k] = f[IF k < i THEN s[k] ELSE s[k + 1]]
    BY <1>0, <1>2, <2>1
  <2>4. u[k] = IF k < i THEN w[k] ELSE w[k + 1]
    BY <1>1, <1>3, <2>1
  <2> QED BY <2>2, <2>3, <2>4
<1>7. v = u
  BY <1>2, <1>3, <1>5, <1>6, SameSequence
<1> QED BY <1>1, <1>4, <1>7 DEF v, w, t

(* The first n elements and the others.                                    *)
LEMMA WeightsSplit ==
  ASSUME NEW S, NEW f \in [S -> Nat], NEW s \in Seq(S), NEW n \in 0..Len(s)
  PROVE  /\ Total(Weights(s, f)) = Total(Weights(SubSeq(s, 1, n), f))
                                   + Total(Weights(SubSeq(s, n + 1, Len(s)), f))
         /\ Total(Weights(SubSeq(s, 1, n), f)) \in Nat
         /\ Total(Weights(SubSeq(s, n + 1, Len(s)), f)) \in Nat
PROOF
<1> DEFINE a == SubSeq(s, 1, n)
           b == SubSeq(s, n + 1, Len(s))
           w == Weights(s, f)
           x == Weights(a, f)
           y == Weights(b, f)
           p == SubSeq(w, 1, n)
           q == SubSeq(w, n + 1, Len(w))
<1>0. n \in Nat /\ n <= Len(s) /\ Len(s) \in Nat
  OBVIOUS
<1>1. /\ b \in Seq(S) /\ Len(b) = Len(s) - n /\ \A k \in 1..(Len(s) - n) : b[k] = s[n + k]
      /\ a \in Seq(S) /\ Len(a) = n /\ \A k \in 1..n : a[k] = s[k]
  BY Suffix
<1>2. w \in Seq(Nat) /\ Len(w) = Len(s) /\ \A k \in 1..Len(s) : w[k] = f[s[k]]
  BY WeightsType
<1> HIDE DEF a, b, w
<1>3. x \in Seq(Nat) /\ Len(x) = Len(a) /\ (\A k \in 1..Len(a) : x[k] = f[a[k]]) /\ Total(x) \in Nat
  <2>1. a \in Seq(S)
    BY <1>1
  <2> QED BY <2>1, WeightsType
<1>4. y \in Seq(Nat) /\ Len(y) = Len(b) /\ (\A k \in 1..Len(b) : y[k] = f[b[k]]) /\ Total(y) \in Nat
  <2>1. b \in Seq(S)
    BY <1>1
  <2> QED BY <2>1, WeightsType
<1> HIDE DEF x, y
<1>5. /\ q \in Seq(Nat) /\ Len(q) = Len(w) - n /\ \A k \in 1..(Len(w) - n) : q[k] = w[n + k]
      /\ p \in Seq(Nat) /\ Len(p) = n /\ \A k \in 1..n : p[k] = w[k]
  <2>1. w \in Seq(Nat) /\ n \in 0..Len(w)
    BY <1>2
  <2> QED BY <2>1, Suffix
<1>6. Total(w) = Total(p) + Total(q)
  BY <1>2, TotalSplit
<1> HIDE DEF p, q
<1>7. p = x
  <2>1. ASSUME NEW k \in 1..Len(p) PROVE p[k] = x[k]
    <3>1. k \in 1..n /\ k \in 1..Len(s)
      BY <1>0, <1>5
    <3>2. p[k] = f[s[k]] /\ x[k] = f[s[k]]
      BY <1>1, <1>2, <1>3, <1>5, <3>1
    <3> QED BY <3>2
  <2>2. Len(p) = Len(x)
    BY <1>1, <1>3, <1>5
  <2> QED BY <1>3, <1>5, <2>1, <2>2, SameSequence
<1>8. q = y
  <2>1. ASSUME NEW k \in 1..Len(q) PROVE q[k] = y[k]
    <3>1. k \in 1..(Len(s) - n) /\ n + k \in 1..Len(s)
      BY <1>0, <1>2, <1>5
    <3>2. q[k] = w[n + k] /\ y[k] = f[b[k]] /\ b[k] = s[n + k]
      BY <1>1, <1>2, <1>4, <1>5, <3>1
    <3>3. w[n + k] = f[s[n + k]]
      BY <1>2, <3>1
    <3> QED BY <3>2, <3>3
  <2>2. Len(q) = Len(y)
    BY <1>1, <1>2, <1>4, <1>5
  <2> QED BY <1>4, <1>5, <2>1, <2>2, SameSequence
<1> QED BY <1>3, <1>4, <1>6, <1>7, <1>8 DEF w, x, y, a, b

-----------------------------------------------------------------------------
(* The local cache. *)

EntrySize == [e \in Entries |-> e.val.size]

(* The size of an entry is a number, and bytes are its sums.               *)
LEMMA BytesAreWeights ==
  /\ EntrySize \in [Entries -> Nat]
  /\ \A s \in Seq(Entries) : BytesOf(s) = Total(Weights(s, EntrySize)) /\ BytesOf(s) \in Nat
PROOF
<1>1. EntrySize \in [Entries -> Nat]
  BY DEF EntrySize, Entries, Values
<1>2. ASSUME NEW s \in Seq(Entries)
      PROVE  BytesOf(s) = Total(Weights(s, EntrySize)) /\ BytesOf(s) \in Nat
  <2>1. \A i \in DOMAIN s : EntrySize[s[i]] = s[i].val.size
    BY DEF EntrySize
  <2>2. Weights(s, EntrySize) = [i \in DOMAIN s |-> s[i].val.size]
    BY <2>1 DEF Weights
  <2>3. Total(Weights(s, EntrySize)) \in Nat
    BY <1>1, WeightsType
  <2> QED BY <2>2, <2>3 DEF BytesOf
<1> QED BY <1>1, <1>2

(* The bytes of a map with one more entry, one less, and in two parts.     *)
LEMMA BytesChange ==
  ASSUME NEW s \in Seq(Entries)
  PROVE  /\ \A e \in Entries : BytesOf(Append(s, e)) = BytesOf(s) + e.val.size
         /\ \A i \in 1..Len(s) : BytesOf(RemoveAt(s, i)) = BytesOf(s) - s[i].val.size
         /\ \A n \in 0..Len(s) :
              /\ BytesOf(s) = BytesOf(SubSeq(s, 1, n)) + BytesOf(SubSeq(s, n + 1, Len(s)))
              /\ BytesOf(SubSeq(s, 1, n)) \in Nat /\ BytesOf(SubSeq(s, n + 1, Len(s))) \in Nat
PROOF
<1>0. EntrySize \in [Entries -> Nat]
  BY BytesAreWeights
<1>1. BytesOf(s) = Total(Weights(s, EntrySize))
  BY BytesAreWeights
<1>2. ASSUME NEW e \in Entries PROVE BytesOf(Append(s, e)) = BytesOf(s) + e.val.size
  <2>1. Append(s, e) \in Seq(Entries)
    OBVIOUS
  <2>2. BytesOf(Append(s, e)) = Total(Weights(Append(s, e), EntrySize))
    BY <2>1, BytesAreWeights
  <2>3. Total(Weights(Append(s, e), EntrySize)) = Total(Weights(s, EntrySize)) + EntrySize[e]
    BY <1>0, WeightsAppend, Zenon
  <2>4. EntrySize[e] = e.val.size
    BY DEF EntrySize
  <2> QED BY <1>1, <2>2, <2>3, <2>4
<1>3. ASSUME NEW i \in 1..Len(s) PROVE BytesOf(RemoveAt(s, i)) = BytesOf(s) - s[i].val.size
  <2>1. RemoveAt(s, i) \in Seq(Entries)
    BY Removed
  <2>2. BytesOf(RemoveAt(s, i)) = Total(Weights(RemoveAt(s, i), EntrySize))
    BY <2>1, BytesAreWeights
  <2>3. Total(Weights(RemoveAt(s, i), EntrySize)) = Total(Weights(s, EntrySize)) - EntrySize[s[i]]
    BY <1>0, WeightsRemove, Zenon
  <2>4. EntrySize[s[i]] = s[i].val.size
    BY DEF EntrySize
  <2> QED BY <1>1, <2>2, <2>3, <2>4
<1>4. ASSUME NEW n \in 0..Len(s)
      PROVE  /\ BytesOf(s) = BytesOf(SubSeq(s, 1, n)) + BytesOf(SubSeq(s, n + 1, Len(s)))
             /\ BytesOf(SubSeq(s, 1, n)) \in Nat /\ BytesOf(SubSeq(s, n + 1, Len(s))) \in Nat
  <2>1. SubSeq(s, 1, n) \in Seq(Entries)
    BY Suffix
  <2>2. SubSeq(s, n + 1, Len(s)) \in Seq(Entries)
    BY Suffix
  <2>3. /\ BytesOf(SubSeq(s, 1, n)) = Total(Weights(SubSeq(s, 1, n), EntrySize))
        /\ BytesOf(SubSeq(s, 1, n)) \in Nat
    BY <2>1, BytesAreWeights
  <2>4. /\ BytesOf(SubSeq(s, n + 1, Len(s))) = Total(Weights(SubSeq(s, n + 1, Len(s)), EntrySize))
        /\ BytesOf(SubSeq(s, n + 1, Len(s))) \in Nat
    BY <2>2, BytesAreWeights
  <2>5. /\ Total(Weights(s, EntrySize)) = Total(Weights(SubSeq(s, 1, n), EntrySize))
                                   + Total(Weights(SubSeq(s, n + 1, Len(s)), EntrySize))
        /\ Total(Weights(SubSeq(s, 1, n), EntrySize)) \in Nat
        /\ Total(Weights(SubSeq(s, n + 1, Len(s)), EntrySize)) \in Nat
    BY <1>0, WeightsSplit, Zenon
  <2> QED BY <1>1, <2>3, <2>4, <2>5
<1> QED BY <1>2, <1>3, <1>4

(* A map of distinct keys whose values are what the keys name.             *)
MapSound(s) ==
  /\ s \in Seq(Entries)
  /\ \A i, j \in DOMAIN s : s[i].key = s[j].key => i = j
  /\ \A i \in DOMAIN s : Owns(s[i].key, s[i].val)

(* Eviction leaves a map within both bounds, with the bytes it holds.      *)
LEMMA KeptIsSound ==
  ASSUME NEW s, MapSound(s), NEW conf \in CacheSettings
  PROVE  LET k == Kept(s, BytesOf(s), conf) IN StoreSound(k.store, k.bytes, conf)
PROOF
<1> DEFINE n == Evicted(s, BytesOf(s), conf)
           t == SubSeq(s, n + 1, Len(s))
           T == {m \in 0..Len(s) : m = Len(s) \/ Fits(s, BytesOf(s), conf, m)}
<1>0. s \in Seq(Entries) /\ Len(s) \in Nat /\ conf.max_entries \in Nat /\ conf.max_bytes \in Nat
  BY DEF MapSound, CacheSettings
<1>1. n \in T
  <2>1. T \in SUBSET Nat /\ T # {}
    <3>1. Len(s) \in 0..Len(s)
      BY <1>0
    <3> QED BY <1>0, <3>1
  <2>2. n = Min(T)
    BY DEF Evicted
  <2> HIDE DEF n, T
  <2> QED BY <2>1, <2>2, MinIsLeast
<1> HIDE DEF n
<1>2. n \in 0..Len(s) /\ n \in Nat /\ n <= Len(s) /\ (n = Len(s) \/ Fits(s, BytesOf(s), conf, n))
  BY <1>0, <1>1
<1> HIDE DEF T
<1>3. /\ t \in Seq(Entries) /\ Len(t) = Len(s) - n
      /\ \A k \in 1..(Len(s) - n) : t[k] = s[n + k]
  BY <1>0, <1>2, Suffix
<1>4. /\ BytesOf(s) = BytesOf(SubSeq(s, 1, n)) + BytesOf(t)
      /\ BytesOf(SubSeq(s, 1, n)) \in Nat /\ BytesOf(t) \in Nat
  BY <1>0, <1>2, BytesChange
<1>5. Kept(s, BytesOf(s), conf) = [store |-> t, bytes |-> BytesOf(s) - BytesOf(SubSeq(s, 1, n))]
  BY DEF Kept, n
<1> HIDE DEF t
<1>6. Len(t) <= conf.max_entries /\ BytesOf(t) <= conf.max_bytes
  <2>1. CASE n = Len(s)
    <3>1. Len(t) = 0
      BY <1>0, <1>2, <1>3, <2>1
    <3>2. BytesOf(t) = 0
      <4>1. Weights(t, EntrySize) \in Seq(Nat) /\ Len(Weights(t, EntrySize)) = Len(t)
        BY <1>3, BytesAreWeights, WeightsType
      <4>2. Total(Weights(t, EntrySize)) = 0
        BY <3>1, <4>1, TotalEmpty
      <4> QED BY <1>3, <4>2, BytesAreWeights
    <3> QED BY <1>0, <3>1, <3>2
  <2>2. CASE Fits(s, BytesOf(s), conf, n)
    BY <1>3, <1>4, <2>2 DEF Fits
  <2> QED BY <1>2, <2>1, <2>2
<1>7. \A i \in DOMAIN t : n + i \in DOMAIN s /\ t[i] = s[n + i] /\ i \in Nat
  <2> SUFFICES ASSUME NEW i \in DOMAIN t PROVE n + i \in DOMAIN s /\ t[i] = s[n + i] /\ i \in Nat
    OBVIOUS
  <2>1. DOMAIN t = 1..Len(t) /\ DOMAIN s = 1..Len(s)
    BY <1>0, <1>3
  <2>2. i \in 1..(Len(s) - n) /\ i \in Nat /\ n + i \in 1..Len(s)
    BY <1>0, <1>2, <1>3, <2>1
  <2> QED BY <1>3, <2>1, <2>2
<1>8. \A i, j \in DOMAIN t : t[i].key = t[j].key => i = j
  <2> SUFFICES ASSUME NEW i \in DOMAIN t, NEW j \in DOMAIN t, t[i].key = t[j].key PROVE i = j
    OBVIOUS
  <2>1. n + i = n + j
    BY <1>7 DEF MapSound
  <2> QED BY <1>2, <1>7, <2>1
<1>9. \A i \in DOMAIN t : Owns(t[i].key, t[i].val)
  BY <1>7 DEF MapSound
<1>10. BytesOf(s) - BytesOf(SubSeq(s, 1, n)) = BytesOf(t)
  BY <1>4
<1>11. StoreSound(t, BytesOf(t), conf)
  BY <1>3, <1>4, <1>6, <1>8, <1>9 DEF StoreSound
<1> QED BY <1>5, <1>10, <1>11

(* The map without a key, the size of the key's entry, and the entry.      *)
LEMMA WithoutIsSound ==
  ASSUME NEW s, MapSound(s), NEW key
  PROVE  /\ MapSound(Without(s, key)) /\ BytesOf(Without(s, key)) = BytesOf(s) - SizeOf(s, key)
         /\ \A i \in DOMAIN Without(s, key) : Without(s, key)[i].key # key
         /\ Len(Without(s, key)) <= Len(s) /\ SizeOf(s, key) \in Nat
         /\ At(s, key) # {} =>
              LET e == s[CHOOSE i \in At(s, key) : TRUE]
              IN  /\ e \in Entries /\ Owns(key, e.val) /\ e.key = key
                  /\ SizeOf(s, key) = e.val.size
                  /\ Len(Without(s, key)) = Len(s) - 1
PROOF
<1>0. s \in Seq(Entries) /\ Len(s) \in Nat /\ DOMAIN s = 1..Len(s) /\ BytesOf(s) \in Nat
  BY BytesAreWeights DEF MapSound
<1>1. CASE At(s, key) = {}
  <2>1. Without(s, key) = s /\ SizeOf(s, key) = 0
    BY <1>1 DEF Without, SizeOf
  <2>2. \A i \in DOMAIN s : s[i].key # key
    BY <1>1 DEF At
  <2> QED BY <1>0, <1>1, <2>1, <2>2
<1>2. CASE At(s, key) # {}
  <2> DEFINE i == CHOOSE k \in At(s, key) : TRUE
             t == RemoveAt(s, i)
  <2>1. i \in At(s, key)
    BY <1>2
  <2>2. Without(s, key) = t /\ SizeOf(s, key) = s[i].val.size
    BY <1>2 DEF Without, SizeOf
  <2> HIDE DEF i
  <2>3. i \in 1..Len(s) /\ i \in Nat /\ s[i].key = key
    BY <1>0, <2>1 DEF At
  <2>4. s[i] \in Entries /\ s[i].val.size \in Nat /\ Owns(key, s[i].val)
    <3>1. s[i] \in Entries
      BY <1>0, <2>3
    <3>2. s[i].val.size \in Nat
      BY <3>1 DEF Entries, Values
    <3>3. i \in DOMAIN s
      BY <1>0, <2>3
    <3> QED BY <2>3, <3>1, <3>2, <3>3 DEF MapSound
  <2>5. /\ t \in Seq(Entries) /\ Len(t) = Len(s) - 1
        /\ \A k \in 1..(Len(s) - 1) : t[k] = IF k < i THEN s[k] ELSE s[k + 1]
    <3>1. s \in Seq(Entries) /\ i \in 1..Len(s)
      BY <1>0, <2>3
    <3> QED BY <3>1, Removed
  <2>6. BytesOf(t) = BytesOf(s) - s[i].val.size
    BY <1>0, <2>3, BytesChange
  <2> HIDE DEF t
  <2>7. ASSUME NEW k \in DOMAIN t
        PROVE  \E j \in DOMAIN s : j # i /\ j = (IF k < i THEN k ELSE k + 1) /\ t[k] = s[j] /\ k \in Nat
    <3>1. k \in 1..(Len(s) - 1) /\ k \in Nat /\ k \in DOMAIN s /\ k + 1 \in DOMAIN s
      BY <1>0, <2>5
    <3>2. CASE k < i
      BY <2>3, <2>5, <3>1, <3>2
    <3>3. CASE ~(k < i)
      <4>1. k + 1 # i /\ t[k] = s[k + 1]
        BY <2>3, <2>5, <3>1, <3>3
      <4> QED BY <3>1, <3>3, <4>1
    <3> QED BY <3>2, <3>3
  <2>8. \A k \in DOMAIN t : t[k].key # key /\ Owns(t[k].key, t[k].val)
    <3> SUFFICES ASSUME NEW k \in DOMAIN t PROVE t[k].key # key /\ Owns(t[k].key, t[k].val)
      OBVIOUS
    <3>1. PICK j \in DOMAIN s : j # i /\ t[k] = s[j]
      BY <2>7
    <3> QED BY <1>0, <2>3, <3>1 DEF MapSound
  <2>9. \A k, l \in DOMAIN t : t[k].key = t[l].key => k = l
    <3> SUFFICES ASSUME NEW k \in DOMAIN t, NEW l \in DOMAIN t, t[k].key = t[l].key PROVE k = l
      OBVIOUS
    <3>1. PICK j \in DOMAIN s : j # i /\ j = (IF k < i THEN k ELSE k + 1) /\ t[k] = s[j] /\ k \in Nat
      BY <2>7
    <3>2. PICK m \in DOMAIN s : m # i /\ m = (IF l < i THEN l ELSE l + 1) /\ t[l] = s[m] /\ l \in Nat
      BY <2>7
    <3>3. j = m
      BY <3>1, <3>2 DEF MapSound
    <3> QED BY <2>3, <3>1, <3>2, <3>3
  <2>10. MapSound(t) /\ Len(t) <= Len(s)
    BY <1>0, <2>5, <2>8, <2>9 DEF MapSound
  <2> QED BY <1>2, <2>2, <2>3, <2>4, <2>5, <2>6, <2>8, <2>10 DEF i
<1> QED BY <1>1, <1>2

(* A new entry at the end of a map that does not have its key.             *)
LEMMA AppendIsSound ==
  ASSUME NEW s, MapSound(s), NEW e \in Entries, Owns(e.key, e.val),
         \A i \in DOMAIN s : s[i].key # e.key
  PROVE  MapSound(Append(s, e)) /\ BytesOf(Append(s, e)) = BytesOf(s) + e.val.size
PROOF
<1> DEFINE t == Append(s, e)
<1>0. s \in Seq(Entries) /\ Len(s) \in Nat /\ DOMAIN s = 1..Len(s)
  BY DEF MapSound
<1>1. /\ t \in Seq(Entries) /\ DOMAIN t = 1..(Len(s) + 1) /\ t[Len(s) + 1] = e
      /\ \A i \in 1..Len(s) : t[i] = s[i]
  BY <1>0
<1>2. BytesOf(t) = BytesOf(s) + e.val.size
  BY <1>0, BytesChange
<1> HIDE DEF t
<1>3. \A i \in DOMAIN t : (i \in DOMAIN s /\ t[i] = s[i]) \/ (i = Len(s) + 1 /\ t[i] = e)
  BY <1>0, <1>1
<1>4. \A i, j \in DOMAIN t : t[i].key = t[j].key => i = j
  BY <1>3 DEF MapSound
<1>5. \A i \in DOMAIN t : Owns(t[i].key, t[i].val)
  BY <1>3 DEF MapSound
<1>6. MapSound(t)
  BY <1>1, <1>4, <1>5 DEF MapSound
<1> QED BY <1>2, <1>6 DEF t

(* A lookup keeps the map sound and returns nothing but what the key names. *)
LEMMA GetIsSound ==
  ASSUME LocalInv, NEW key
  PROVE  LET g == get_at(key)
         IN  /\ StoreSound(g.store, g.bytes, settings)
             /\ g.hit = NoValue \/ (g.hit \in Values /\ Owns(key, g.hit))
             /\ ~settings.enabled => g.store = store
PROOF
<1> DEFINE entry == store[CHOOSE i \in At(store, key) : TRUE]
           expired == settings.ttl > 0 /\ now - entry.at >= settings.ttl
           w == Without(store, key)
<1>0. /\ MapSound(store) /\ bytes = BytesOf(store) /\ bytes \in Nat /\ Len(store) \in Nat
      /\ Len(store) <= settings.max_entries /\ bytes <= settings.max_bytes
      /\ settings.max_entries \in Nat /\ settings.max_bytes \in Nat
  BY DEF LocalInv, StoreSound, MapSound, CacheSettings
<1>1. CASE ~settings.enabled \/ At(store, key) = {}
  <2>1. get_at(key) = [hit |-> NoValue, store |-> store, bytes |-> bytes]
    BY <1>1 DEF get_at
  <2>2. StoreSound(store, bytes, settings)
    BY DEF LocalInv
  <2> QED BY <2>1, <2>2
<1>2. CASE settings.enabled /\ At(store, key) # {}
  <2>1. /\ MapSound(w) /\ BytesOf(w) = BytesOf(store) - SizeOf(store, key)
        /\ \A i \in DOMAIN w : w[i].key # key
        /\ SizeOf(store, key) \in Nat
        /\ entry \in Entries /\ Owns(key, entry.val) /\ entry.key = key
        /\ SizeOf(store, key) = entry.val.size /\ Len(w) = Len(store) - 1
    BY <1>0, <1>2, WithoutIsSound
  <2>2. get_at(key) = IF expired
             THEN [hit |-> NoValue, store |-> w, bytes |-> bytes - entry.val.size]
             ELSE [hit |-> entry.val, store |-> Append(w, entry), bytes |-> bytes]
    BY <1>2 DEF get_at
  <2> HIDE DEF w, entry, expired
  <2>3. w \in Seq(Entries) /\ BytesOf(w) \in Nat
    BY <2>1, BytesAreWeights DEF MapSound
  <2>4. CASE expired
    <3>1. StoreSound(w, bytes - entry.val.size, settings)
      <4>1. bytes - entry.val.size = BytesOf(w) /\ BytesOf(w) <= bytes
        BY <1>0, <2>1, <2>3
      <4>2. Len(w) = Len(store) - 1
        BY <2>1
      <4>3. BytesOf(w) <= settings.max_bytes
        BY <1>0, <2>3, <4>1
      <4>4. Len(w) <= settings.max_entries
        BY <1>0, <4>2
      <4> QED BY <2>1, <2>3, <4>1, <4>3, <4>4 DEF StoreSound, MapSound
    <3> QED BY <1>2, <2>2, <2>4, <3>1
  <2>5. CASE ~expired
    <3>1. MapSound(Append(w, entry)) /\ BytesOf(Append(w, entry)) = BytesOf(w) + entry.val.size
      <4>1. Owns(entry.key, entry.val) /\ \A i \in DOMAIN w : w[i].key # entry.key
        BY <2>1
      <4> QED BY <2>1, <4>1, AppendIsSound
    <3>2. BytesOf(Append(w, entry)) = bytes /\ Len(Append(w, entry)) = Len(store)
      BY <1>0, <2>1, <2>3, <3>1
    <3>3. StoreSound(Append(w, entry), bytes, settings)
      BY <1>0, <3>1, <3>2 DEF StoreSound, MapSound
    <3>4. entry.val \in Values
      BY <2>1 DEF Entries
    <3> QED BY <1>2, <2>1, <2>2, <2>5, <3>3, <3>4
  <2> QED BY <2>4, <2>5
<1> QED BY <1>1, <1>2

(* An insertion keeps the map sound, whatever became of the settings since *)
(* the lookup.                                                             *)
LEMMA PutIsSound ==
  ASSUME LocalInv, NEW key \in KeySet, NEW val \in Values, Owns(key, val)
  PROVE  LET p == put_at(key, val)
         IN  StoreSound(p.store, p.bytes, settings) /\ (~settings.enabled => p.store = store)
PROOF
<1> DEFINE refused == \/ ~settings.enabled \/ settings.max_entries = 0 \/ settings.max_bytes = 0
                      \/ val.size > settings.max_bytes
           w == Without(store, key)
           e == [key |-> key, val |-> val, at |-> now]
<1>0. /\ MapSound(store) /\ bytes = BytesOf(store) /\ bytes \in Nat /\ settings \in CacheSettings
      /\ now \in Nat /\ val.size \in Nat
  BY DEF LocalInv, StoreSound, MapSound, Values
<1>1. CASE refused
  <2>1. put_at(key, val) = [store |-> store, bytes |-> bytes]
    BY <1>1 DEF put_at
  <2>2. StoreSound(store, bytes, settings)
    BY DEF LocalInv
  <2> QED BY <2>1, <2>2
<1>2. CASE ~refused
  <2>1. put_at(key, val) = Kept(Append(w, e), bytes - SizeOf(store, key) + val.size, settings)
    BY <1>2 DEF put_at
  <2>2. /\ MapSound(w) /\ BytesOf(w) = BytesOf(store) - SizeOf(store, key)
        /\ \A i \in DOMAIN w : w[i].key # key
    BY <1>0, WithoutIsSound
  <2>3. e \in Entries /\ e.key = key /\ e.val = val
    BY <1>0 DEF Entries
  <2>4. settings.enabled
    BY <1>2
  <2> HIDE DEF w, e, refused
  <2>5. MapSound(Append(w, e)) /\ BytesOf(Append(w, e)) = BytesOf(w) + val.size
    <3>1. Owns(e.key, e.val) /\ \A i \in DOMAIN w : w[i].key # e.key
      BY <2>2, <2>3
    <3> QED BY <2>2, <2>3, <3>1, AppendIsSound
  <2>6. bytes - SizeOf(store, key) + val.size = BytesOf(Append(w, e))
    BY <1>0, <2>2, <2>5
  <2> DEFINE k == Kept(Append(w, e), BytesOf(Append(w, e)), settings)
  <2>7. StoreSound(k.store, k.bytes, settings)
    BY <1>0, <2>5, KeptIsSound
  <2> QED BY <2>1, <2>4, <2>6, <2>7
<1> QED BY <1>1, <1>2

(* The empty map is sound under any settings.                              *)
LEMMA EmptyIsSound ==
  ASSUME NEW conf \in CacheSettings
  PROVE  StoreSound(<<>>, 0, conf)
PROOF
<1>1. <<>> \in Seq(Entries) /\ Len(<<>>) = 0 /\ DOMAIN <<>> = {}
  OBVIOUS
<1>2. BytesOf(<<>>) = 0
  <2>1. EntrySize \in [Entries -> Nat]
    BY BytesAreWeights
  <2>2. Weights(<<>>, EntrySize) \in Seq(Nat) /\ Len(Weights(<<>>, EntrySize)) = 0
    BY <1>1, <2>1, WeightsType
  <2>3. Total(Weights(<<>>, EntrySize)) = 0
    BY <2>2, TotalEmpty
  <2> QED BY <1>1, <2>3, BytesAreWeights
<1>3. conf.max_entries \in Nat /\ conf.max_bytes \in Nat
  BY DEF CacheSettings
<1> QED BY <1>1, <1>2, <1>3 DEF StoreSound

-----------------------------------------------------------------------------
(* The sorted set of the shared cache. *)

(* ZREM removes a member and nothing else.                                 *)
LEMMA UnlistedFacts ==
  ASSUME NEW S, NEW s \in Seq(S), Distinct(s), NEW key
  PROVE  /\ Unlisted(s, key) \in Seq(S) /\ Distinct(Unlisted(s, key))
         /\ Range(Unlisted(s, key)) = Range(s) \ {key}
         /\ Len(Unlisted(s, key)) = IF key \in Range(s) THEN Len(s) - 1 ELSE Len(s)
PROOF
<1>0. Len(s) \in Nat /\ DOMAIN s = 1..Len(s)
  OBVIOUS
<1>1. CASE key \notin Range(s)
  <2>1. Unlisted(s, key) = s
    BY <1>1 DEF Unlisted
  <2> QED BY <1>1, <2>1
<1>2. CASE key \in Range(s)
  <2> DEFINE i == CHOOSE k \in DOMAIN s : s[k] = key
             t == RemoveAt(s, i)
  <2>1. i \in DOMAIN s /\ s[i] = key
    BY <1>2 DEF Range
  <2>2. Unlisted(s, key) = t
    BY <1>2 DEF Unlisted
  <2> HIDE DEF i
  <2>3. i \in 1..Len(s) /\ i \in Nat
    BY <1>0, <2>1
  <2>4. /\ t \in Seq(S) /\ Len(t) = Len(s) - 1
        /\ \A k \in 1..(Len(s) - 1) : t[k] = IF k < i THEN s[k] ELSE s[k + 1]
    BY <2>3, Removed
  <2> HIDE DEF t
  <2>5. DOMAIN t = 1..(Len(s) - 1)
    BY <2>4
  <2>6. ASSUME NEW k \in DOMAIN t
        PROVE  \E j \in DOMAIN s : j # i /\ j = (IF k < i THEN k ELSE k + 1) /\ t[k] = s[j] /\ k \in Nat
    <3>1. k \in 1..(Len(s) - 1) /\ k \in Nat /\ k \in DOMAIN s /\ k + 1 \in DOMAIN s
      BY <1>0, <2>5
    <3>2. CASE k < i
      BY <2>3, <2>4, <3>1, <3>2
    <3>3. CASE ~(k < i)
      <4>1. k + 1 # i /\ t[k] = s[k + 1]
        BY <2>3, <2>4, <3>1, <3>3
      <4> QED BY <3>1, <3>3, <4>1
    <3> QED BY <3>2, <3>3
  <2>7. Distinct(t)
    <3> SUFFICES ASSUME NEW k \in DOMAIN t, NEW l \in DOMAIN t, t[k] = t[l] PROVE k = l
      BY DEF Distinct
    <3>1. PICK j \in DOMAIN s : j # i /\ j = (IF k < i THEN k ELSE k + 1) /\ t[k] = s[j] /\ k \in Nat
      BY <2>6
    <3>2. PICK m \in DOMAIN s : m # i /\ m = (IF l < i THEN l ELSE l + 1) /\ t[l] = s[m] /\ l \in Nat
      BY <2>6
    <3>3. j = m
      BY <3>1, <3>2 DEF Distinct
    <3> QED BY <2>3, <3>1, <3>2, <3>3
  <2>8. Range(t) \subseteq Range(s) \ {key}
    <3> SUFFICES ASSUME NEW k \in DOMAIN t PROVE t[k] \in Range(s) /\ t[k] # key
      BY DEF Range
    <3>1. PICK j \in DOMAIN s : j # i /\ t[k] = s[j]
      BY <2>6
    <3> QED BY <2>1, <3>1 DEF Distinct, Range
  <2>9. Range(s) \ {key} \subseteq Range(t)
    <3> SUFFICES ASSUME NEW j \in DOMAIN s, s[j] # key PROVE s[j] \in Range(t)
      BY DEF Range
    <3>1. j # i /\ j \in 1..Len(s) /\ j \in Nat
      BY <1>0, <2>1
    <3>2. CASE j < i
      <4>1. j \in 1..(Len(s) - 1)
        BY <1>0, <2>3, <3>1, <3>2
      <4>2. t[j] = s[j] /\ j \in DOMAIN t
        BY <2>4, <2>5, <3>2, <4>1
      <4> QED BY <4>2 DEF Range
    <3>3. CASE ~(j < i)
      <4>1. j - 1 \in 1..(Len(s) - 1) /\ ~(j - 1 < i) /\ (j - 1) + 1 = j
        BY <1>0, <2>3, <3>1, <3>3
      <4>2. t[j - 1] = s[(j - 1) + 1] /\ j - 1 \in DOMAIN t
        BY <2>4, <2>5, <4>1
      <4>3. t[j - 1] = s[j]
        BY <4>1, <4>2
      <4> QED BY <4>2, <4>3 DEF Range
    <3> QED BY <3>2, <3>3
  <2> QED BY <1>2, <2>2, <2>4, <2>7, <2>8, <2>9
<1> QED BY <1>1, <1>2

(* ZADD makes a member the most recent.                                    *)
LEMMA TouchFacts ==
  ASSUME NEW S, NEW s \in Seq(S), Distinct(s), NEW key \in S
  PROVE  /\ Touch(s, key) \in Seq(S) /\ Distinct(Touch(s, key))
         /\ Range(Touch(s, key)) = Range(s) \cup {key}
         /\ key \in Range(s) => Len(Touch(s, key)) = Len(s)
PROOF
<1> DEFINE u == Unlisted(s, key)
           t == Append(u, key)
<1>1. /\ u \in Seq(S) /\ Distinct(u) /\ Range(u) = Range(s) \ {key}
      /\ Len(u) = IF key \in Range(s) THEN Len(s) - 1 ELSE Len(s)
  BY UnlistedFacts
<1>2. Touch(s, key) = t
  BY DEF Touch
<1> HIDE DEF u
<1>3. /\ t \in Seq(S) /\ Len(u) \in Nat /\ Len(t) = Len(u) + 1 /\ t[Len(u) + 1] = key
      /\ \A k \in 1..Len(u) : t[k] = u[k]
  BY <1>1
<1>4. DOMAIN t = 1..(Len(u) + 1) /\ DOMAIN u = 1..Len(u)
  BY <1>1, <1>3
<1> HIDE DEF t
<1>5. \A k \in DOMAIN t : (k \in DOMAIN u /\ t[k] = u[k] /\ u[k] # key) \/ (k = Len(u) + 1 /\ t[k] = key)
  <2>1. \A k \in DOMAIN u : u[k] # key
    BY <1>1 DEF Range
  <2> QED BY <1>3, <1>4, <2>1
<1>6. Distinct(t)
  BY <1>1, <1>5 DEF Distinct
<1>7. Range(t) \subseteq Range(s) \cup {key}
  <2> SUFFICES ASSUME NEW k \in DOMAIN t PROVE t[k] \in Range(u) \cup {key}
    BY <1>1 DEF Range
  <2> QED BY <1>5 DEF Range
<1>8. Range(s) \cup {key} \subseteq Range(t)
  <2>1. key \in Range(t)
    <3>1. Len(u) + 1 \in DOMAIN t
      BY <1>3, <1>4
    <3> QED BY <1>3, <3>1 DEF Range
  <2>2. ASSUME NEW k \in DOMAIN u PROVE u[k] \in Range(t)
    <3>1. k \in DOMAIN t /\ t[k] = u[k]
      BY <1>3, <1>4
    <3> QED BY <3>1 DEF Range
  <2>3. Range(u) \subseteq Range(t)
    BY <2>2 DEF Range
  <2> QED BY <1>1, <2>1, <2>3
<1>9. key \in Range(s) => Len(t) = Len(s)
  BY <1>1, <1>3
<1> QED BY <1>2, <1>3, <1>6, <1>7, <1>8, <1>9

(* Removing the least recent members.                                      *)
LEMMA SuffixFacts ==
  ASSUME NEW S, NEW s \in Seq(S), Distinct(s), NEW n \in 0..Len(s)
  PROVE  /\ Distinct(SubSeq(s, n + 1, Len(s)))
         /\ Range(SubSeq(s, n + 1, Len(s))) = Range(s) \ Range(SubSeq(s, 1, n))
PROOF
<1> DEFINE a == SubSeq(s, 1, n)
           b == SubSeq(s, n + 1, Len(s))
<1>0. n \in Nat /\ n <= Len(s) /\ Len(s) \in Nat /\ DOMAIN s = 1..Len(s)
  OBVIOUS
<1>1. /\ b \in Seq(S) /\ Len(b) = Len(s) - n /\ \A k \in 1..(Len(s) - n) : b[k] = s[n + k]
      /\ a \in Seq(S) /\ Len(a) = n /\ \A k \in 1..n : a[k] = s[k]
  BY Suffix
<1> HIDE DEF a, b
<1>2. DOMAIN a = 1..n /\ DOMAIN b = 1..(Len(s) - n)
  BY <1>1
<1>3. \A k \in DOMAIN b : k \in Nat /\ n + k \in DOMAIN s /\ b[k] = s[n + k]
  BY <1>0, <1>1, <1>2
<1>4. \A k \in DOMAIN a : k \in Nat /\ k <= n /\ k \in DOMAIN s /\ a[k] = s[k]
  BY <1>0, <1>1, <1>2
<1>5. Distinct(b)
  <2> SUFFICES ASSUME NEW k \in DOMAIN b, NEW l \in DOMAIN b, b[k] = b[l] PROVE k = l
    BY DEF Distinct
  <2>1. n + k = n + l
    BY <1>3 DEF Distinct
  <2> QED BY <1>0, <1>3, <2>1
<1>6. Range(b) \subseteq Range(s) \ Range(a)
  <2> SUFFICES ASSUME NEW k \in DOMAIN b PROVE b[k] \in Range(s) /\ b[k] \notin Range(a)
    BY DEF Range
  <2>1. k \in Nat /\ k >= 1 /\ n + k \in DOMAIN s /\ b[k] = s[n + k]
    BY <1>2, <1>3
  <2>2. ASSUME NEW l \in DOMAIN a PROVE a[l] # b[k]
    <3>1. l \in Nat /\ l <= n /\ l \in DOMAIN s /\ a[l] = s[l]
      BY <1>4
    <3>2. l # n + k
      BY <1>0, <2>1, <3>1
    <3> QED BY <2>1, <3>1, <3>2 DEF Distinct
  <2> QED BY <2>1, <2>2 DEF Range
<1>7. Range(s) \ Range(a) \subseteq Range(b)
  <2> SUFFICES ASSUME NEW j \in DOMAIN s, s[j] \notin Range(a) PROVE s[j] \in Range(b)
    BY DEF Range
  <2>1. j > n
    <3>1. ASSUME j <= n PROVE FALSE
      <4>1. j \in DOMAIN a /\ a[j] = s[j]
        BY <1>0, <1>1, <1>2, <3>1
      <4> QED BY <4>1 DEF Range
    <3> QED BY <1>0, <3>1
  <2>2. j - n \in DOMAIN b /\ n + (j - n) = j
    BY <1>0, <1>2, <2>1
  <2>3. b[j - n] = s[n + (j - n)]
    BY <1>3, <2>2
  <2> QED BY <2>2, <2>3 DEF Range
<1> QED BY <1>5, <1>6, <1>7 DEF a, b

(* Weights that agree on the elements have the same sum.                   *)
LEMMA WeightsAgree ==
  ASSUME NEW S, NEW f \in [S -> Nat], NEW g \in [S -> Nat], NEW s \in Seq(S),
         \A k \in Range(s) : f[k] = g[k]
  PROVE  Weights(s, f) = Weights(s, g)
PROOF
<1>1. \A i \in DOMAIN s : f[s[i]] = g[s[i]]
  BY DEF Range
<1> QED BY <1>1 DEF Weights

(* A member less, and a member more or moved.                              *)
LEMMA WeightsListed ==
  ASSUME NEW S, NEW f \in [S -> Nat], NEW s \in Seq(S), Distinct(s), NEW key \in S
  PROVE  /\ key \in Range(s) => Total(Weights(Unlisted(s, key), f)) = Total(Weights(s, f)) - f[key]
         /\ key \in Range(s) => Total(Weights(Touch(s, key), f)) = Total(Weights(s, f))
         /\ key \notin Range(s) => Total(Weights(Touch(s, key), f)) = Total(Weights(s, f)) + f[key]
PROOF
<1> DEFINE u == Unlisted(s, key)
<1>0. f[key] \in Nat /\ u \in Seq(S)
  BY UnlistedFacts
<1>1. Total(Weights(s, f)) \in Nat
  BY WeightsType
<1>2. Total(Weights(Append(u, key), f)) = Total(Weights(u, f)) + f[key]
  <2> HIDE DEF u
  <2> QED BY <1>0, WeightsAppend, Zenon
<1>3. Touch(s, key) = Append(u, key)
  BY DEF Touch
<1>4. ASSUME key \in Range(s) PROVE Total(Weights(u, f)) = Total(Weights(s, f)) - f[key]
  <2> DEFINE i == CHOOSE k \in DOMAIN s : s[k] = key
  <2>1. i \in DOMAIN s /\ s[i] = key
    BY <1>4 DEF Range
  <2>2. u = RemoveAt(s, i)
    BY <1>4 DEF Unlisted
  <2> HIDE DEF i, u
  <2>3. i \in 1..Len(s)
    BY <2>1
  <2>4. Total(Weights(RemoveAt(s, i), f)) = Total(Weights(s, f)) - f[s[i]]
    BY <2>3, WeightsRemove, Zenon
  <2> QED BY <2>1, <2>2, <2>4
<1>5. ASSUME key \notin Range(s) PROVE u = s
  BY <1>5 DEF Unlisted
<1> HIDE DEF u
<1>6. ASSUME key \in Range(s) PROVE Total(Weights(Touch(s, key), f)) = Total(Weights(s, f))
  <2>1. Total(Weights(u, f)) = Total(Weights(s, f)) - f[key]
    BY <1>4, <1>6
  <2> QED BY <1>0, <1>1, <1>2, <1>3, <2>1
<1>7. ASSUME key \notin Range(s) PROVE Total(Weights(Touch(s, key), f)) = Total(Weights(s, f)) + f[key]
  BY <1>2, <1>3, <1>5, <1>7
<1> QED BY <1>4, <1>6, <1>7 DEF u

KeySize(z) == [k \in KeySet |-> SizeIn(z, k)]

(* What is charged for some keys is the sum of their sizes.                *)
LEMMA ChargedIsWeight ==
  ASSUME NEW s, s.sizes \in [DOMAIN s.sizes -> Nat], NEW some \in Seq(KeySet)
  PROVE  /\ KeySize(s.sizes) \in [KeySet -> Nat]
         /\ Charged(s, some) = Total(Weights(some, KeySize(s.sizes)))
         /\ Charged(s, some) \in Nat
PROOF
<1>1. KeySize(s.sizes) \in [KeySet -> Nat]
  BY DEF KeySize, SizeIn
<1>2. \A i \in DOMAIN some : KeySize(s.sizes)[some[i]] = SizeIn(s.sizes, some[i])
  BY DEF KeySize
<1>3. Weights(some, KeySize(s.sizes)) = [i \in DOMAIN some |-> SizeIn(s.sizes, some[i])]
  BY <1>2 DEF Weights
<1>4. Total(Weights(some, KeySize(s.sizes))) \in Nat
  BY <1>1, WeightsType
<1> QED BY <1>1, <1>3, <1>4 DEF Charged

IsShared(s) == s = [value |-> s.value, meta |-> s.meta, sizes |-> s.sizes, index |-> s.index]
Emptied(v, gen) == [value |-> v, meta |-> [gen |-> gen, bytes |-> 0], sizes |-> <<>>, index |-> <<>>]

(* An empty shared cache is sound.                                         *)
LEMMA EmptySharedIsSound ==
  ASSUME NEW v, v \in [{} -> Values], NEW gen \in Generations \cup {None}
  PROVE  /\ SharedSound(Emptied(v, gen)) /\ EntriesBounded(Emptied(v, gen))
         /\ BytesCounted(Emptied(v, gen))
PROOF
<1> DEFINE s == Emptied(v, gen)
<1>1. /\ s.value = v /\ s.meta = [gen |-> gen, bytes |-> 0] /\ s.sizes = <<>> /\ s.index = <<>>
      /\ s.meta.gen = gen /\ s.meta.bytes = 0
  BY DEF Emptied
<1>2. <<>> \in Seq(KeySet) /\ Len(<<>>) = 0 /\ Range(<<>>) = {} /\ Distinct(<<>>) /\ DOMAIN <<>> = {}
  BY DEF Range, Distinct
<1>3. <<>> \in [{} -> Nat]
  OBVIOUS
<1>4. DOMAIN v = {}
  OBVIOUS
<1> HIDE DEF s
<1>5. SharedSound(s)
  BY <1>1, <1>2, <1>3, <1>4 DEF SharedSound
<1>6. ASSUME gen # None
      PROVE  Settings[gen].max_entries \in Nat /\ Settings[gen].max_bytes \in Nat
  BY <1>6, CacheAssumption DEF CacheSettings
<1>7. EntriesBounded(s)
  BY <1>1, <1>2, <1>6 DEF EntriesBounded
<1>8. Charged(s, s.index) = 0
  <2>1. s.sizes \in [DOMAIN s.sizes -> Nat]
    BY <1>1, <1>2, <1>3
  <2>2. /\ KeySize(s.sizes) \in [KeySet -> Nat]
        /\ Charged(s, s.index) = Total(Weights(s.index, KeySize(s.sizes)))
    BY <1>1, <1>2, <2>1, ChargedIsWeight
  <2>3. Weights(s.index, KeySize(s.sizes)) \in Seq(Nat) /\ Len(Weights(s.index, KeySize(s.sizes))) = 0
    <3>1. s.index \in Seq(KeySet) /\ Len(s.index) = 0
      BY <1>1, <1>2
    <3>2. /\ Weights(s.index, KeySize(s.sizes)) \in Seq(Nat)
          /\ Len(Weights(s.index, KeySize(s.sizes))) = Len(s.index)
      BY <2>2, <3>1, WeightsType
    <3> QED BY <3>1, <3>2
  <2> QED BY <2>2, <2>3, TotalEmpty
<1>9. BytesCounted(s)
  BY <1>1, <1>6, <1>8 DEF BytesCounted
<1> QED BY <1>5, <1>7, <1>9 DEF s

(* A purge leaves a sound cache of the generation that asks.               *)
LEMMA PurgeFacts ==
  ASSUME NEW s, IsShared(s), SharedSound(s), EntriesBounded(s), NEW gen \in Generations
  PROVE  LET p == purge_stale(s, gen)
         IN  /\ IsShared(p) /\ SharedSound(p) /\ EntriesBounded(p) /\ p.meta.gen = gen
             /\ BytesCounted(s) => BytesCounted(p)
             /\ \A k \in DOMAIN p.sizes : k \in DOMAIN s.sizes /\ s.meta.gen = gen
PROOF
<1>1. CASE s.meta.gen = gen
  <2>1. purge_stale(s, gen) = s
    BY <1>1 DEF purge_stale
  <2> QED BY <1>1, <2>1
<1>2. CASE s.meta.gen # gen
  <2> DEFINE v == Drop(s.value, Range(s.index))
             p == Emptied(v, gen)
  <2>1. purge_stale(s, gen) = p
    BY <1>2 DEF purge_stale, Emptied
  <2>2. v \in [{} -> Values]
    <3>1. DOMAIN s.value \ Range(s.index) = {}
      BY DEF SharedSound
    <3> QED BY <3>1 DEF Drop
  <2> HIDE DEF v
  <2>3. gen \in Generations \cup {None}
    OBVIOUS
  <2>4. SharedSound(p) /\ EntriesBounded(p) /\ BytesCounted(p)
    BY <2>2, <2>3, EmptySharedIsSound
  <2>5. IsShared(p) /\ p.meta.gen = gen /\ p.sizes = <<>>
    BY DEF IsShared, Emptied
  <2>6. DOMAIN p.sizes = {}
    BY <2>5
  <2> HIDE DEF p
  <2> QED BY <2>1, <2>4, <2>5, <2>6
<1> QED BY <1>1, <1>2

(* Max with zero. *)
LEMMA NotBelowZero ==
  ASSUME NEW x \in Int
  PROVE  Max({0, x}) \in Int /\ (x >= 0 => Max({0, x}) = x)
PROOF
<1>1. \E m \in {0, x} : \A y \in {0, x} : m >= y
  <2>1. CASE x >= 0
    BY <2>1
  <2>2. CASE ~(x >= 0)
    BY <2>2
  <2> QED BY <2>1, <2>2
<1>2. Max({0, x}) \in {0, x} /\ \A y \in {0, x} : Max({0, x}) >= y
  BY <1>1 DEF Max
<1> QED BY <1>2

(* A lookup keeps the shared cache sound and its bytes counted.            *)
LEMMA SharedGetIsSound ==
  ASSUME SharedInv, replaced \in BOOLEAN, NEW gen \in Generations, NEW key \in KeySet
  PROVE  LET s == SHARED_CACHE_GET(gen, key)
         IN  SharedSound(s) /\ EntriesBounded(s) /\ (~replaced => BytesCounted(s))
PROOF
<1> DEFINE p == purge_stale(Redis, gen)
           prior == SizeIn(p.sizes, key)
<1>0. IsShared(Redis)
  BY DEF IsShared, Redis
<1>1. /\ IsShared(p) /\ SharedSound(p) /\ EntriesBounded(p) /\ p.meta.gen = gen
      /\ BytesCounted(Redis) => BytesCounted(p)
  BY <1>0, PurgeFacts DEF SharedInv
<1>2. SHARED_CACHE_GET(gen, key) =
        IF key \in DOMAIN p.value THEN [p EXCEPT !.index = Touch(p.index, key)]
        ELSE IF prior > 0
             THEN [value |-> p.value, meta |-> [p.meta EXCEPT !.bytes = @ - prior],
                   sizes |-> Drop(p.sizes, {key}), index |-> Unlisted(p.index, key)]
             ELSE p
  BY DEF SHARED_CACHE_GET
<1>3. ~replaced => BytesCounted(p)
  BY <1>1 DEF SharedInv
<1> HIDE DEF p
<1>4. /\ p.index \in Seq(KeySet) /\ Distinct(p.index) /\ p.sizes \in [Range(p.index) -> Nat]
      /\ DOMAIN p.sizes = Range(p.index) /\ p.meta \in [gen : Generations \cup {None}, bytes : Int]
      /\ DOMAIN p.value \subseteq Range(p.index) /\ Len(p.index) \in Nat
  BY <1>1 DEF SharedSound
<1> DEFINE f == KeySize(p.sizes)
<1>5. f \in [KeySet -> Nat] /\ Charged(p, p.index) = Total(Weights(p.index, f))
  BY <1>4, ChargedIsWeight
<1>6. CASE key \in DOMAIN p.value
  <2> DEFINE t == Touch(p.index, key)
             s == [p EXCEPT !.index = t]
  <2>1. /\ s.value = p.value /\ s.meta = p.meta /\ s.sizes = p.sizes /\ s.index = t
    <3>1. s = [value |-> p.value, meta |-> p.meta, sizes |-> p.sizes, index |-> t]
      BY <1>1 DEF IsShared
    <3> HIDE DEF s
    <3> QED BY <3>1
  <2>2. /\ t \in Seq(KeySet) /\ Distinct(t) /\ Range(t) = Range(p.index) \cup {key}
        /\ key \in Range(p.index) => Len(t) = Len(p.index)
    BY <1>4, TouchFacts
  <2>3. key \in Range(p.index) /\ Range(t) = Range(p.index)
    BY <1>4, <1>6, <2>2
  <2>4. Total(Weights(t, f)) = Total(Weights(p.index, f))
    <3>1. key \in Range(p.index) => Total(Weights(Touch(p.index, key), f)) = Total(Weights(p.index, f))
      <4> HIDE DEF f
      <4> QED BY <1>4, <1>5, WeightsListed
    <3> QED BY <2>3, <3>1
  <2>5. s = SHARED_CACHE_GET(gen, key)
    BY <1>2, <1>6
  <2> HIDE DEF s, t
  <2>6. SharedSound(s)
    BY <1>1, <2>1, <2>2, <2>3 DEF SharedSound
  <2>7. EntriesBounded(s)
    BY <1>1, <2>1, <2>2, <2>3 DEF EntriesBounded
  <2>8. Charged(s, s.index) = Charged(p, p.index)
    <3>1. s.sizes \in [DOMAIN s.sizes -> Nat] /\ s.index \in Seq(KeySet)
      BY <1>4, <2>1, <2>2
    <3>2. Charged(s, s.index) = Total(Weights(s.index, KeySize(s.sizes)))
      BY <3>1, ChargedIsWeight
    <3> QED BY <1>5, <2>1, <2>4, <3>2
  <2>9. ~replaced => BytesCounted(s)
    BY <1>3, <2>1, <2>8 DEF BytesCounted
  <2> QED BY <2>5, <2>6, <2>7, <2>9
<1>7. CASE key \notin DOMAIN p.value /\ prior > 0
  <2> DEFINE t == Unlisted(p.index, key)
             z == Drop(p.sizes, {key})
             s == [value |-> p.value, meta |-> [p.meta EXCEPT !.bytes = @ - prior], sizes |-> z, index |-> t]
             g == KeySize(z)
  <2>1. /\ s.value = p.value /\ s.meta = [gen |-> p.meta.gen, bytes |-> p.meta.bytes - prior]
        /\ s.sizes = z /\ s.index = t
    <3>1. p.meta = [gen |-> p.meta.gen, bytes |-> p.meta.bytes]
      BY <1>4
    <3>2. [p.meta EXCEPT !.bytes = @ - prior] = [gen |-> p.meta.gen, bytes |-> p.meta.bytes - prior]
      <4> HIDE DEF prior
      <4> QED BY <3>1
    <3> QED BY <3>2
  <2>2. key \in Range(p.index) /\ prior = p.sizes[key] /\ prior \in Nat /\ f[key] = prior
    BY <1>4, <1>7 DEF SizeIn, KeySize
  <2>3. /\ t \in Seq(KeySet) /\ Distinct(t) /\ Range(t) = Range(p.index) \ {key}
        /\ Len(t) = IF key \in Range(p.index) THEN Len(p.index) - 1 ELSE Len(p.index)
    BY <1>4, UnlistedFacts
  <2>4. z \in [Range(t) -> Nat] /\ \A k \in Range(t) : z[k] = p.sizes[k]
    BY <1>4, <2>3 DEF Drop
  <2>5. s = SHARED_CACHE_GET(gen, key)
    BY <1>2, <1>7
  <2>6. s.meta.gen = p.meta.gen /\ s.meta.bytes = p.meta.bytes - prior
        /\ p.meta.gen \in Generations \cup {None} /\ p.meta.bytes \in Int
    BY <1>4, <2>1
  <2>7. Total(Weights(t, f)) = Total(Weights(p.index, f)) - prior
    <3>1. key \in Range(p.index) =>
            Total(Weights(Unlisted(p.index, key), f)) = Total(Weights(p.index, f)) - f[key]
      <4> HIDE DEF f
      <4> QED BY <1>4, <1>5, WeightsListed
    <3> QED BY <2>2, <3>1
  <2> HIDE DEF s, t, z, prior
  <2>8. SharedSound(s)
    <3>1. s.meta \in [gen : Generations \cup {None}, bytes : Int]
      BY <2>1, <2>2, <2>6
    <3>2. DOMAIN s.value \subseteq Range(s.index)
      BY <1>4, <1>7, <2>1, <2>3
    <3>3. \A k \in DOMAIN s.value : s.value[k].gen = s.meta.gen /\ Owns(k, s.value[k])
      BY <1>1, <2>1, <2>6 DEF SharedSound
    <3>4. \A k \in DOMAIN s.value : s.sizes[k] = s.value[k].size
      BY <1>1, <2>1, <2>4, <3>2 DEF SharedSound
    <3>5. s.value \in [DOMAIN s.value -> Values]
      BY <1>1, <2>1 DEF SharedSound
    <3>6. s.index \in Seq(KeySet) /\ Distinct(s.index) /\ s.sizes \in [Range(s.index) -> Nat]
      BY <2>1, <2>3, <2>4
    <3> QED BY <3>1, <3>2, <3>3, <3>4, <3>5, <3>6 DEF SharedSound
  <2>9. EntriesBounded(s)
    <3>1. Len(s.index) = Len(p.index) - 1
      BY <2>1, <2>2, <2>3
    <3>2. Settings[gen].max_entries \in Nat
      BY CacheAssumption DEF CacheSettings
    <3>3. gen # None /\ Len(p.index) <= Settings[gen].max_entries
      BY <1>1, CacheAssumption DEF EntriesBounded
    <3> QED BY <1>1, <1>4, <2>6, <3>1, <3>2, <3>3 DEF EntriesBounded
  <2>10. Charged(s, s.index) = Charged(p, p.index) - prior
    <3>1. s.sizes \in [DOMAIN s.sizes -> Nat] /\ s.index \in Seq(KeySet)
      BY <2>1, <2>3, <2>4
    <3>2. Charged(s, s.index) = Total(Weights(t, g)) /\ g \in [KeySet -> Nat]
      BY <2>1, <3>1, ChargedIsWeight
    <3>3. \A k \in Range(t) : f[k] = g[k]
      <4> SUFFICES ASSUME NEW k \in Range(t) PROVE f[k] = g[k]
        OBVIOUS
      <4>1. k \in KeySet
        BY <2>3 DEF Range
      <4>2. k \in DOMAIN z /\ k \in DOMAIN p.sizes /\ z[k] = p.sizes[k]
        BY <1>4, <2>3, <2>4
      <4> QED BY <4>1, <4>2 DEF KeySize, SizeIn
    <3> HIDE DEF f, g
    <3>4. t \in Seq(KeySet)
      BY <2>3
    <3>5. Weights(t, f) = Weights(t, g)
      BY <1>5, <3>2, <3>3, <3>4, WeightsAgree
    <3> QED BY <1>5, <2>7, <3>2, <3>5
  <2>11. ~replaced => BytesCounted(s)
    <3> SUFFICES ASSUME ~replaced PROVE BytesCounted(s)
      OBVIOUS
    <3>1. p.meta.bytes = Charged(p, p.index) /\ p.meta.bytes <= Settings[gen].max_bytes /\ gen # None
      BY <1>1, <1>3, CacheAssumption DEF BytesCounted
    <3>2. Settings[gen].max_bytes \in Nat
      BY CacheAssumption DEF CacheSettings
    <3>3. s.meta.bytes <= Settings[gen].max_bytes
      BY <2>2, <2>6, <3>1, <3>2
    <3> QED BY <1>1, <2>6, <2>10, <3>1, <3>3 DEF BytesCounted
  <2> QED BY <2>5, <2>8, <2>9, <2>11
<1>8. CASE key \notin DOMAIN p.value /\ ~(prior > 0)
  BY <1>1, <1>2, <1>3, <1>8
<1> QED BY <1>6, <1>7, <1>8

(* The eviction loop leaves a sound cache within the entry bound, and one  *)
(* within the byte bound when the bytes were counted.                      *)
LEMMA SharedEvictIsSound ==
  ASSUME NEW s, SharedSound(s), s.meta.gen \in Generations,
         NEW conf \in CacheSettings, conf = Settings[s.meta.gen]
  PROVE  LET e == shared_evict(s, conf)
         IN  /\ SharedSound(e) /\ EntriesBounded(e)
             /\ s.meta.bytes = Charged(s, s.index) => BytesCounted(e)
PROOF
<1> DEFINE n == SharedEvicted(s, conf)
           T == {m \in 0..Len(s.index) : m = Len(s.index) \/ SharedFits(s, conf, m)}
           a == SubSeq(s.index, 1, n)
           t == SubSeq(s.index, n + 1, Len(s.index))
           gone == Range(a)
           left == BytesLeft(s, n)
           e == [value |-> Drop(s.value, gone), meta |-> [s.meta EXCEPT !.bytes = left],
                 sizes |-> Drop(s.sizes, gone), index |-> t]
<1>0. /\ s.index \in Seq(KeySet) /\ Distinct(s.index) /\ s.sizes \in [Range(s.index) -> Nat]
      /\ DOMAIN s.sizes = Range(s.index) /\ Len(s.index) \in Nat
      /\ s.meta \in [gen : Generations \cup {None}, bytes : Int] /\ s.meta.bytes \in Int
      /\ DOMAIN s.value \subseteq Range(s.index)
      /\ s.value \in [DOMAIN s.value -> Values]
      /\ conf.max_entries \in Nat /\ conf.max_bytes \in Nat
  BY DEF SharedSound, CacheSettings
<1>1. shared_evict(s, conf) = e
  BY DEF shared_evict
<1>2. n \in T
  <2>1. T \in SUBSET Nat /\ T # {}
    <3>1. Len(s.index) \in 0..Len(s.index)
      BY <1>0
    <3> QED BY <1>0, <3>1
  <2>2. n = Min(T)
    BY DEF SharedEvicted
  <2> HIDE DEF n, T
  <2> QED BY <2>1, <2>2, MinIsLeast
<1> HIDE DEF n
<1>3. /\ n \in 0..Len(s.index) /\ n \in Nat /\ n <= Len(s.index)
      /\ n = Len(s.index) \/ SharedFits(s, conf, n)
  BY <1>0, <1>2
<1> HIDE DEF T
<1>4. /\ t \in Seq(KeySet) /\ Len(t) = Len(s.index) - n /\ a \in Seq(KeySet) /\ Len(a) = n
  BY <1>0, <1>3, Suffix
<1>5. Distinct(t) /\ Range(t) = Range(s.index) \ gone
  BY <1>0, <1>3, SuffixFacts
<1> DEFINE f == KeySize(s.sizes)
           g == KeySize(e.sizes)
<1>6. /\ f \in [KeySet -> Nat] /\ Charged(s, s.index) = Total(Weights(s.index, f))
      /\ Charged(s, a) = Total(Weights(a, f)) /\ Charged(s, a) \in Nat
  <2>1. s.sizes \in [DOMAIN s.sizes -> Nat]
    BY <1>0
  <2>2. a \in Seq(KeySet) /\ s.index \in Seq(KeySet)
    BY <1>0, <1>4
  <2> HIDE DEF a
  <2> QED BY <2>1, <2>2, ChargedIsWeight
<1>7. /\ Total(Weights(s.index, f)) = Total(Weights(a, f)) + Total(Weights(t, f))
      /\ Total(Weights(t, f)) \in Nat
  <2>1. s.index \in Seq(KeySet) /\ f \in [KeySet -> Nat] /\ n \in 0..Len(s.index)
    BY <1>0, <1>3, <1>6
  <2>2. /\ Total(Weights(s.index, f)) = Total(Weights(SubSeq(s.index, 1, n), f))
                                   + Total(Weights(SubSeq(s.index, n + 1, Len(s.index)), f))
        /\ Total(Weights(SubSeq(s.index, 1, n), f)) \in Nat
        /\ Total(Weights(SubSeq(s.index, n + 1, Len(s.index)), f)) \in Nat
    <3> HIDE DEF f
    <3> QED BY <2>1, WeightsSplit, Zenon
  <2> QED BY <2>2
<1>8. left \in Int /\ (n = 0 => left = s.meta.bytes)
      /\ (n # 0 => left = Max({0, s.meta.bytes - Charged(s, a)}))
  <2>1. s.meta.bytes - Charged(s, a) \in Int
    BY <1>0, <1>6
  <2>2. Max({0, s.meta.bytes - Charged(s, a)}) \in Int
    BY <2>1, NotBelowZero
  <2> QED BY <1>0, <2>2 DEF BytesLeft
<1>9. ASSUME s.meta.bytes = Charged(s, s.index) PROVE left = Total(Weights(t, f))
  <2>1. s.meta.bytes - Charged(s, a) = Total(Weights(t, f))
    BY <1>6, <1>7, <1>9
  <2>2. CASE n = 0
    <3>1. Len(a) = 0
      BY <1>4, <2>2
    <3>2. Total(Weights(a, f)) = 0
      <4>1. Weights(a, f) \in Seq(Nat) /\ Len(Weights(a, f)) = Len(a)
        <5> HIDE DEF a, f
        <5> QED BY <1>4, <1>6, WeightsType
      <4> QED BY <3>1, <4>1, TotalEmpty
    <3> QED BY <1>6, <1>7, <1>8, <1>9, <2>2, <3>2
  <2>3. CASE n # 0
    <3>1. Max({0, s.meta.bytes - Charged(s, a)}) = s.meta.bytes - Charged(s, a)
      BY <1>7, <2>1, NotBelowZero
    <3> QED BY <1>8, <2>1, <2>3, <3>1
  <2> QED BY <2>2, <2>3
<1>10. /\ e.value = Drop(s.value, gone) /\ e.meta = [gen |-> s.meta.gen, bytes |-> left]
       /\ e.sizes = Drop(s.sizes, gone) /\ e.index = t
       /\ e.meta.gen = s.meta.gen /\ e.meta.bytes = left
  <2>1. s.meta = [gen |-> s.meta.gen, bytes |-> s.meta.bytes]
    BY <1>0
  <2>2. [s.meta EXCEPT !.bytes = left] = [gen |-> s.meta.gen, bytes |-> left]
    <3> HIDE DEF left
    <3> QED BY <2>1
  <2> HIDE DEF left, t, gone
  <2> QED BY <2>2
<1> HIDE DEF left, t, a, e
<1>11. e.sizes \in [Range(t) -> Nat] /\ \A k \in Range(t) : e.sizes[k] = s.sizes[k]
  BY <1>0, <1>5, <1>10 DEF Drop
<1>12. /\ DOMAIN e.value = DOMAIN s.value \ gone /\ e.value \in [DOMAIN e.value -> Values]
       /\ \A k \in DOMAIN e.value : e.value[k] = s.value[k]
  BY <1>0, <1>10 DEF Drop
<1>13. SharedSound(e)
  <2>1. e.meta \in [gen : Generations \cup {None}, bytes : Int]
    BY <1>0, <1>8, <1>10
  <2>2. DOMAIN e.value \subseteq Range(e.index)
    BY <1>0, <1>5, <1>10, <1>12
  <2>3. \A k \in DOMAIN e.value : e.value[k].gen = e.meta.gen /\ Owns(k, e.value[k])
    BY <1>10, <1>12 DEF SharedSound
  <2>4. \A k \in DOMAIN e.value : e.sizes[k] = e.value[k].size
    BY <1>10, <1>11, <1>12, <2>2 DEF SharedSound
  <2> QED BY <1>4, <1>5, <1>10, <1>11, <1>12, <2>1, <2>2, <2>3, <2>4 DEF SharedSound
<1>14. EntriesBounded(e)
  <2>1. Len(t) <= conf.max_entries
    <3>1. CASE n = Len(s.index)
      BY <1>0, <1>4, <3>1
    <3>2. CASE SharedFits(s, conf, n)
      BY <1>4, <3>2 DEF SharedFits
    <3> QED BY <1>3, <3>1, <3>2
  <2> QED BY <1>10, <2>1 DEF EntriesBounded
<1>15. ASSUME s.meta.bytes = Charged(s, s.index) PROVE BytesCounted(e)
  <2>1. Charged(e, e.index) = left
    <3>1. e.sizes \in [DOMAIN e.sizes -> Nat] /\ e.index \in Seq(KeySet)
      BY <1>4, <1>10, <1>11
    <3>2. Charged(e, e.index) = Total(Weights(t, g)) /\ g \in [KeySet -> Nat]
      BY <1>10, <3>1, ChargedIsWeight
    <3>3. \A k \in Range(t) : f[k] = g[k]
      <4> SUFFICES ASSUME NEW k \in Range(t) PROVE f[k] = g[k]
        OBVIOUS
      <4>1. k \in KeySet
        BY <1>4 DEF Range
      <4>2. k \in DOMAIN e.sizes /\ k \in DOMAIN s.sizes /\ e.sizes[k] = s.sizes[k]
        BY <1>0, <1>5, <1>11
      <4> QED BY <4>1, <4>2 DEF KeySize, SizeIn
    <3> HIDE DEF f, g
    <3>4. t \in Seq(KeySet)
      BY <1>4
    <3>5. Weights(t, f) = Weights(t, g)
      BY <1>6, <3>2, <3>3, <3>4, WeightsAgree
    <3> QED BY <1>9, <1>15, <3>2, <3>5
  <2>2. left <= conf.max_bytes
    <3>1. CASE n = Len(s.index)
      <4>1. Len(t) = 0
        BY <1>0, <1>4, <3>1
      <4>2. Weights(t, f) \in Seq(Nat) /\ Len(Weights(t, f)) = Len(t)
        <5> HIDE DEF f
        <5> QED BY <1>4, <1>6, WeightsType
      <4>3. Total(Weights(t, f)) = 0
        BY <4>1, <4>2, TotalEmpty
      <4> QED BY <1>0, <1>9, <1>15, <4>3
    <3>2. CASE SharedFits(s, conf, n)
      BY <3>2 DEF SharedFits, left
    <3> QED BY <1>3, <3>1, <3>2
  <2> QED BY <1>10, <2>1, <2>2 DEF BytesCounted
<1> QED BY <1>1, <1>13, <1>14, <1>15

(* An insertion keeps the shared cache sound, and its bytes counted when   *)
(* it did not replace an entry in place.                                   *)
LEMMA SharedPutIsSound ==
  ASSUME SharedInv, NEW gen \in Generations, NEW key \in KeySet, NEW val \in Values,
         Owns(key, val), val.gen = gen
  PROVE  LET s == SHARED_CACHE_PUT(gen, key, val)
         IN  /\ SharedSound(s) /\ EntriesBounded(s)
             /\ BytesCounted(Redis) /\ ~(key \in DOMAIN sizes /\ meta.gen = gen) => BytesCounted(s)
PROOF
<1> DEFINE conf == Settings[gen]
           p == purge_stale(Redis, gen)
           previous == SizeIn(p.sizes, key)
           refused == conf.max_entries = 0 \/ conf.max_bytes = 0 \/ val.size > conf.max_bytes
           more == (p.meta.bytes - previous) + (val.size - previous)
           s == [value |-> Set(p.value, key, val), meta |-> [p.meta EXCEPT !.bytes = more],
                 sizes |-> Set(p.sizes, key, val.size), index |-> Touch(p.index, key)]
<1>0. IsShared(Redis) /\ Redis.sizes = sizes /\ Redis.meta = meta
  BY DEF IsShared, Redis
<1>1. /\ IsShared(p) /\ SharedSound(p) /\ EntriesBounded(p) /\ p.meta.gen = gen
      /\ BytesCounted(Redis) => BytesCounted(p)
      /\ \A k \in DOMAIN p.sizes : k \in DOMAIN Redis.sizes /\ Redis.meta.gen = gen
  BY <1>0, PurgeFacts DEF SharedInv
<1>2. SHARED_CACHE_PUT(gen, key, val) = IF refused THEN Redis ELSE shared_evict(s, conf)
  BY DEF SHARED_CACHE_PUT
<1>3. CASE refused
  <2>1. SharedSound(Redis) /\ EntriesBounded(Redis)
    BY DEF SharedInv
  <2> QED BY <1>2, <1>3, <2>1
<1>4. CASE ~refused
  <2> HIDE DEF p
  <2>0. /\ p.index \in Seq(KeySet) /\ Distinct(p.index) /\ p.sizes \in [Range(p.index) -> Nat]
        /\ DOMAIN p.sizes = Range(p.index) /\ p.meta \in [gen : Generations \cup {None}, bytes : Int]
        /\ p.meta.bytes \in Int
        /\ DOMAIN p.value \subseteq Range(p.index) /\ p.value \in [DOMAIN p.value -> Values]
    BY <1>1 DEF SharedSound
  <2>1. val.size \in Nat /\ previous \in Nat
    BY <2>0 DEF Values, SizeIn
  <2>2. conf \in CacheSettings
    BY CacheAssumption
  <2> HIDE DEF previous, refused, conf
  <2> DEFINE t == Touch(p.index, key)
  <2>3. t \in Seq(KeySet) /\ Distinct(t) /\ Range(t) = Range(p.index) \cup {key}
    BY <2>0, TouchFacts
  <2>4. /\ s.value = Set(p.value, key, val) /\ s.meta = [gen |-> gen, bytes |-> more]
        /\ s.sizes = Set(p.sizes, key, val.size) /\ s.index = t
        /\ s.meta.gen = gen /\ s.meta.bytes = more /\ more \in Int
    <3>1. p.meta = [gen |-> gen, bytes |-> p.meta.bytes]
      BY <1>1, <2>0
    <3>2. [p.meta EXCEPT !.bytes = more] = [gen |-> gen, bytes |-> more] /\ more \in Int
      <4>1. more \in Int
        BY <2>0, <2>1
      <4> HIDE DEF more
      <4> QED BY <3>1, <4>1
    <3> HIDE DEF more, t
    <3> QED BY <3>2 DEF t
  <2> HIDE DEF more, t, s
  <2>5. /\ DOMAIN s.value = DOMAIN p.value \cup {key} /\ s.value \in [DOMAIN s.value -> Values]
        /\ s.value[key] = val /\ \A k \in DOMAIN p.value : k # key => s.value[k] = p.value[k]
    BY <2>0, <2>4 DEF Set
  <2>6. /\ s.sizes \in [Range(t) -> Nat]
        /\ s.sizes[key] = val.size /\ \A k \in Range(p.index) : k # key => s.sizes[k] = p.sizes[k]
    BY <2>0, <2>1, <2>3, <2>4 DEF Set
  <2>7. SharedSound(s)
    <3>1. s.meta \in [gen : Generations \cup {None}, bytes : Int]
      BY <2>4
    <3>2. DOMAIN s.value \subseteq Range(s.index)
      BY <2>0, <2>3, <2>4, <2>5
    <3>3. \A k \in DOMAIN s.value : s.value[k].gen = s.meta.gen /\ Owns(k, s.value[k])
      BY <1>1, <2>4, <2>5 DEF SharedSound
    <3>4. \A k \in DOMAIN s.value : s.sizes[k] = s.value[k].size
      BY <1>1, <2>0, <2>5, <2>6 DEF SharedSound
    <3> QED BY <2>3, <2>4, <2>5, <2>6, <3>1, <3>2, <3>3, <3>4 DEF SharedSound
  <2>8. ASSUME BytesCounted(Redis), ~(key \in DOMAIN sizes /\ meta.gen = gen)
        PROVE  s.meta.bytes = Charged(s, s.index)
    <3> DEFINE f == KeySize(p.sizes)
               g == KeySize(s.sizes)
    <3>1. key \notin DOMAIN p.sizes /\ key \notin Range(p.index)
      BY <1>0, <1>1, <2>0, <2>8
    <3>2. previous = 0
      BY <3>1 DEF previous, SizeIn
    <3>3. /\ f \in [KeySet -> Nat] /\ Charged(p, p.index) = Total(Weights(p.index, f))
          /\ Charged(p, p.index) \in Nat
      BY <2>0, ChargedIsWeight
    <3>4. g \in [KeySet -> Nat] /\ Charged(s, s.index) = Total(Weights(t, g))
      <4>1. s.sizes \in [DOMAIN s.sizes -> Nat] /\ s.index \in Seq(KeySet)
        BY <2>3, <2>4, <2>6
      <4> QED BY <2>4, <4>1, ChargedIsWeight
    <3>5. \A k \in Range(p.index) : f[k] = g[k]
      <4> SUFFICES ASSUME NEW k \in Range(p.index) PROVE f[k] = g[k]
        OBVIOUS
      <4>1. k \in KeySet
        BY <2>0 DEF Range
      <4>2. k \in DOMAIN s.sizes /\ k \in DOMAIN p.sizes /\ s.sizes[k] = p.sizes[k]
        BY <2>0, <2>3, <2>6, <3>1
      <4> QED BY <4>1, <4>2 DEF KeySize, SizeIn
    <3>6. g[key] = val.size
      <4>1. key \in DOMAIN s.sizes /\ s.sizes[key] = val.size
        BY <2>3, <2>6
      <4> QED BY <4>1 DEF KeySize, SizeIn
    <3> HIDE DEF f, g
    <3>7. Weights(p.index, f) = Weights(p.index, g)
      BY <2>0, <3>3, <3>4, <3>5, WeightsAgree
    <3>8. Total(Weights(t, g)) = Total(Weights(p.index, g)) + g[key]
      <4>1. key \notin Range(p.index) =>
              Total(Weights(Touch(p.index, key), g)) = Total(Weights(p.index, g)) + g[key]
        BY <2>0, <3>4, WeightsListed
      <4> QED BY <3>1, <4>1 DEF t
    <3>9. p.meta.bytes = Charged(p, p.index)
      BY <1>1, <2>8 DEF BytesCounted
    <3>10. more = p.meta.bytes + val.size
      BY <2>0, <2>1, <3>2 DEF more
    <3> QED BY <2>4, <3>3, <3>4, <3>6, <3>7, <3>8, <3>9, <3>10
  <2>9. LET e == shared_evict(s, conf)
        IN  /\ SharedSound(e) /\ EntriesBounded(e)
            /\ s.meta.bytes = Charged(s, s.index) => BytesCounted(e)
    <3>1. s.meta.gen \in Generations /\ conf = Settings[s.meta.gen]
      BY <2>4 DEF conf
    <3> QED BY <2>2, <2>7, <3>1, SharedEvictIsSound
  <2> QED BY <1>2, <1>4, <2>8, <2>9
<1> QED BY <1>3, <1>4

-----------------------------------------------------------------------------
(* The steps. *)

(* A request moves on: what it is to store or to replay is its own.        *)
LEMMA RequestMoves ==
  ASSUME RequestInv, NEW r \in Requests, NEW x \in ActiveRequests \cup {Idle},
         req' = [req EXCEPT ![r] = x],
         x.at = "store" => /\ x.answer \in Values /\ ~x.answer.by.codex
                           /\ x.answer.of = x.in /\ x.answer.gen = x.gen,
         x.at = "replay" => Owns(cache_key_with_version(x.gen, x.in, x.in.model), x.answer)
  PROVE  RequestInv'
PROOF
<1>1. req' \in [Requests -> ActiveRequests \cup {Idle}]
  BY DEF RequestInv
<1>2. req'[r] = x /\ \A q \in Requests : q # r => req'[q] = req[q]
  BY DEF RequestInv
<1>3. ASSUME NEW q \in Requests, req'[q].at = "store"
      PROVE  /\ req'[q].answer \in Values /\ ~req'[q].answer.by.codex
             /\ req'[q].answer.of = req'[q].in /\ req'[q].answer.gen = req'[q].gen
  BY <1>2, <1>3 DEF RequestInv
<1>4. ASSUME NEW q \in Requests, req'[q].at = "replay"
      PROVE  Owns(cache_key_with_version(req'[q].gen, req'[q].in, req'[q].in.model), req'[q].answer)
  BY <1>2, <1>4 DEF RequestInv, KeyOf
<1> QED BY <1>1, <1>3, <1>4 DEF RequestInv, KeyOf

(* An active request has an input and a generation, and its key is a key.  *)
LEMMA RequestType ==
  ASSUME RequestInv, NEW r \in Requests, req[r].at # "idle"
  PROVE  /\ req[r] \in ActiveRequests /\ req[r].in \in Inputs /\ req[r].gen \in Generations
         /\ KeyOf(r) \in KeySet
PROOF
<1>1. req[r] \in ActiveRequests
  BY DEF RequestInv, Idle
<1>2. req[r].in \in Inputs /\ req[r].gen \in Generations
  BY <1>1 DEF ActiveRequests
<1>3. req[r].in.model \in Models
  BY <1>2, CacheAssumption
<1>4. KeyOf(r) \in KeySet
  BY <1>2, <1>3 DEF KeyOf, KeySet
<1> QED BY <1>1, <1>2, <1>4

(* The request leaves.                                                     *)
LEMMA RequestLeaves ==
  ASSUME RequestInv, NEW r \in Requests, req' = [req EXCEPT ![r] = Idle]
  PROVE  RequestInv'
PROOF
<1>1. Idle \in ActiveRequests \cup {Idle} /\ Idle.at # "store" /\ Idle.at # "replay"
  BY DEF Idle
<1> QED BY <1>1, RequestMoves

(* The answer of a lookup.                                                 *)
LEMMA RequestAnswered ==
  ASSUME RequestInv, NEW r \in Requests, req[r].at # "idle", NEW hit,
         hit = NoValue \/ (hit \in Values /\ Owns(KeyOf(r), hit)), Answer(r, hit)
  PROVE  RequestInv'
PROOF
<1> DEFINE x == RequestAt(IF hit = NoValue THEN "deliver" ELSE "replay",
                          req[r].in, req[r].gen, hit = NoValue, hit)
<1>1. req[r].in \in Inputs /\ req[r].gen \in Generations
  BY RequestType
<1>2. req' = [req EXCEPT ![r] = x]
  BY DEF Answer, RequestInv
<1>3. (hit = NoValue) \in BOOLEAN /\ hit \in Values \cup {NoValue}
  OBVIOUS
<1>4. x \in ActiveRequests
  BY <1>1, <1>3 DEF RequestAt, ActiveRequests
<1>5. x.at # "store" /\ x.in = req[r].in /\ x.gen = req[r].gen /\ x.answer = hit
  BY DEF RequestAt
<1>6. x.at = "replay" => Owns(KeyOf(r), hit)
  BY DEF RequestAt
<1>7. KeyOf(r) = cache_key_with_version(req[r].gen, req[r].in, req[r].in.model)
  BY DEF KeyOf
<1> HIDE DEF x
<1>8. x.at = "replay" => Owns(cache_key_with_version(x.gen, x.in, x.in.model), x.answer)
  BY <1>5, <1>6, <1>7
<1> QED BY <1>2, <1>4, <1>5, <1>8, RequestMoves

(* What is left alone stays sound.                                         *)
LEMMA Frame ==
  ASSUME IInv
  PROVE  /\ UNCHANGED <<backend, local>> => LocalInv'
         /\ UNCHANGED req => RequestInv'
         /\ UNCHANGED redis => SharedInv' /\ replaced' \in BOOLEAN
PROOF
<1>1. ASSUME UNCHANGED <<backend, local>> PROVE LocalInv'
  BY <1>1 DEF IInv, LocalInv, DisabledHoldsNothing, local
<1>2. ASSUME UNCHANGED req PROVE RequestInv'
  BY <1>2 DEF IInv, RequestInv, KeyOf
<1>3. ASSUME UNCHANGED redis PROVE SharedInv' /\ replaced' \in BOOLEAN
  <2>1. Redis' = Redis /\ replaced' = replaced
    BY <1>3 DEF redis, Redis
  <2> QED BY <2>1 DEF IInv, SharedInv
<1> QED BY <1>1, <1>2, <1>3

(* The local cache gets a sound map.                                       *)
LEMMA LocalChanges ==
  ASSUME IInv, NEW s, SetLocal(s), UNCHANGED backend,
         StoreSound(s.store, s.bytes, settings), ~settings.enabled => s.store = store
  PROVE  LocalInv' /\ SharedInv' /\ replaced' \in BOOLEAN
PROOF
<1>1. /\ store' = s.store /\ bytes' = s.bytes /\ now' = now /\ settings' = settings
      /\ backend' = backend /\ redis' = redis
  BY DEF SetLocal
<1>2. LocalInv'
  BY <1>1 DEF IInv, LocalInv, DisabledHoldsNothing
<1> QED BY <1>1, <1>2, Frame

(* Redis gets a sound cache.                                               *)
LEMMA SharedChanges ==
  ASSUME IInv, NEW s, SetRedis(s), UNCHANGED backend, replaced' \in BOOLEAN,
         SharedSound(s), EntriesBounded(s), ~replaced' => BytesCounted(s)
  PROVE  LocalInv' /\ SharedInv' /\ replaced' \in BOOLEAN
PROOF
<1>1. /\ value' = s.value /\ meta' = s.meta /\ sizes' = s.sizes /\ index' = s.index
      /\ UNCHANGED <<backend, local>>
  BY DEF SetRedis
<1>2. /\ Redis'.value = s.value /\ Redis'.meta = s.meta /\ Redis'.sizes = s.sizes
      /\ Redis'.index = s.index
  BY <1>1 DEF Redis
<1>3. SharedSound(Redis')
  BY <1>2 DEF SharedSound
<1>4. EntriesBounded(Redis')
  BY <1>2 DEF EntriesBounded
<1>5. ASSUME ~replaced' PROVE BytesCounted(Redis')
  <2>1. Charged(Redis', Redis'.index) = Charged(s, s.index)
    BY <1>2 DEF Charged
  <2>2. BytesCounted(s)
    BY <1>5
  <2> QED BY <1>2, <2>1, <2>2 DEF BytesCounted
<1>6. SharedInv'
  BY <1>3, <1>4, <1>5 DEF SharedInv
<1> QED BY <1>1, <1>6, Frame

(* Every lookup preserves the invariant.                                   *)
LEMMA LookupStep ==
  ASSUME IInv, NEW r \in Requests, LookupLocal(r) \/ LookupShared(r)
  PROVE  IInv'
PROOF
<1>0. LocalInv /\ RequestInv /\ SharedInv /\ replaced \in BOOLEAN
  BY DEF IInv
<1>1. CASE LookupLocal(r)
  <2> DEFINE g == get_at(KeyOf(r))
  <2>1. req[r].at = "lookup" /\ SetLocal(g) /\ Answer(r, g.hit) /\ UNCHANGED backend
    BY <1>1 DEF LookupLocal
  <2>2. /\ StoreSound(g.store, g.bytes, settings)
        /\ g.hit = NoValue \/ (g.hit \in Values /\ Owns(KeyOf(r), g.hit))
        /\ ~settings.enabled => g.store = store
    BY <1>0, GetIsSound
  <2> HIDE DEF g
  <2>3. LocalInv' /\ SharedInv' /\ replaced' \in BOOLEAN
    BY <2>1, <2>2, LocalChanges
  <2>4. RequestInv'
    <3>1. req[r].at # "idle"
      BY <2>1
    <3> QED BY <1>0, <2>1, <2>2, <3>1, RequestAnswered
  <2> QED BY <2>3, <2>4 DEF IInv
<1>2. CASE LookupShared(r)
  <2> DEFINE s == SHARED_CACHE_GET(req[r].gen, KeyOf(r))
  <2>1. req[r].at = "lookup" /\ req[r].at # "idle" /\ UNCHANGED <<backend, replaced>>
    BY <1>2 DEF LookupShared
  <2>2. req[r].gen \in Generations /\ KeyOf(r) \in KeySet
    BY <1>0, <2>1, RequestType
  <2>3. SharedSound(s) /\ EntriesBounded(s) /\ (~replaced => BytesCounted(s))
    BY <1>0, <2>2, SharedGetIsSound
  <2>4. \/ /\ SetRedis(s)
           /\ \E hit \in {NoValue} \cup {s.value[k] : k \in DOMAIN s.value \cap {KeyOf(r)}} :
                Answer(r, hit)
        \/ Answer(r, NoValue) /\ UNCHANGED <<local, value, meta, sizes, index>>
    BY <1>2 DEF LookupShared
  <2> HIDE DEF s
  <2>5. CASE /\ SetRedis(s)
             /\ \E hit \in {NoValue} \cup {s.value[k] : k \in DOMAIN s.value \cap {KeyOf(r)}} :
                  Answer(r, hit)
    <3>1. LocalInv' /\ SharedInv' /\ replaced' \in BOOLEAN
      <4>1. replaced' \in BOOLEAN /\ (~replaced' => BytesCounted(s)) /\ UNCHANGED backend
        BY <1>0, <2>1, <2>3
      <4> QED BY <2>3, <2>5, <4>1, SharedChanges
    <3>2. PICK hit \in {NoValue} \cup {s.value[k] : k \in DOMAIN s.value \cap {KeyOf(r)}} : Answer(r, hit)
      BY <2>5
    <3>3. hit = NoValue \/ (hit \in Values /\ Owns(KeyOf(r), hit))
      BY <2>3 DEF SharedSound
    <3>4. RequestInv'
      BY <1>0, <2>1, <3>2, <3>3, RequestAnswered
    <3> QED BY <3>1, <3>4 DEF IInv
  <2>6. CASE Answer(r, NoValue) /\ UNCHANGED <<local, value, meta, sizes, index>>
    <3>1. UNCHANGED <<backend, local>> /\ UNCHANGED redis
      BY <2>1, <2>6 DEF redis
    <3>2. RequestInv'
      BY <1>0, <2>1, <2>6, RequestAnswered
    <3> QED BY <3>1, <3>2, Frame DEF IInv
  <2> QED BY <2>4, <2>5, <2>6
<1> QED BY <1>1, <1>2

(* Every insertion preserves the invariant.                                *)
LEMMA StoreStep ==
  ASSUME IInv, NEW r \in Requests, StoreLocal(r) \/ StoreShared(r)
  PROVE  IInv'
PROOF
<1> DEFINE val == req[r].answer
           gen == req[r].gen
           key == cache_key_with_version(gen, req[r].in, val.by)
<1>0. LocalInv /\ RequestInv /\ SharedInv /\ replaced \in BOOLEAN
  BY DEF IInv
<1>1. req[r].at = "store" /\ req' = [req EXCEPT ![r] = Idle] /\ UNCHANGED backend
  BY DEF StoreLocal, StoreShared
<1>2. /\ val \in Values /\ gen \in Generations /\ req[r].in \in Inputs
      /\ ~val.by.codex /\ val.of = req[r].in /\ val.gen = gen
  BY <1>0, <1>1, RequestType DEF RequestInv
<1>3. key \in KeySet /\ Owns(key, val)
  <2>1. val.by \in Models
    BY <1>2 DEF Values
  <2> HIDE DEF val, gen
  <2>2. key \in KeySet
    BY <1>2, <2>1 DEF KeySet
  <2> QED BY <1>2, <2>2 DEF Owns
<1>4. RequestInv'
  BY <1>0, <1>1, RequestLeaves
<1>5. CASE StoreLocal(r)
  <2>1. SetLocal(put_at(key, val))
    BY <1>5 DEF StoreLocal
  <2> HIDE DEF key, val
  <2> DEFINE p == put_at(key, val)
  <2>2. StoreSound(p.store, p.bytes, settings) /\ (~settings.enabled => p.store = store)
    BY <1>0, <1>2, <1>3, PutIsSound
  <2> HIDE DEF p
  <2>3. SetLocal(p)
    BY <2>1 DEF p
  <2>4. LocalInv' /\ SharedInv' /\ replaced' \in BOOLEAN
    BY <1>1, <2>2, <2>3, LocalChanges
  <2> QED BY <1>4, <2>4 DEF IInv
<1>6. CASE StoreShared(r)
  <2>1. \/ /\ SetRedis(SHARED_CACHE_PUT(gen, key, val))
           /\ replaced' = (replaced \/ (key \in DOMAIN sizes /\ meta.gen = gen))
        \/ UNCHANGED <<local, redis>>
    BY <1>6 DEF StoreShared
  <2> HIDE DEF key, val, gen
  <2> DEFINE s == SHARED_CACHE_PUT(gen, key, val)
  <2>2. /\ SharedSound(s) /\ EntriesBounded(s)
        /\ BytesCounted(Redis) /\ ~(key \in DOMAIN sizes /\ meta.gen = gen) => BytesCounted(s)
    BY <1>0, <1>2, <1>3, SharedPutIsSound
  <2> HIDE DEF s
  <2>3. CASE /\ SetRedis(s) /\ replaced' = (replaced \/ (key \in DOMAIN sizes /\ meta.gen = gen))
    <3>1. replaced' \in BOOLEAN
      BY <1>0, <2>3, Zenon
    <3>2. ~replaced' => ~replaced /\ ~(key \in DOMAIN sizes /\ meta.gen = gen)
      BY <2>3, Zenon
    <3>3. ~replaced' => BytesCounted(s)
      BY <1>0, <2>2, <3>2 DEF SharedInv
    <3>4. LocalInv' /\ SharedInv' /\ replaced' \in BOOLEAN
      BY <1>1, <2>2, <2>3, <3>1, <3>3, SharedChanges
    <3> QED BY <1>4, <3>4 DEF IInv
  <2>4. CASE UNCHANGED <<local, redis>>
    <3>1. UNCHANGED <<backend, local>> /\ UNCHANGED redis
      BY <1>1, <2>4
    <3> QED BY <1>4, <3>1, Frame DEF IInv
  <2> QED BY <2>1, <2>3, <2>4 DEF s
<1> QED BY <1>5, <1>6

(* Arrivals, deliveries and clients that go away.                          *)
LEMMA RequestStep ==
  ASSUME IInv, NEW r \in Requests,
         \/ \E in \in Inputs, gen \in Generations : Arrive(r, in, gen)
         \/ \E m \in Models, a \in Answers : Delivered(r, m, a)
         \/ Leave(r)
  PROVE  IInv'
PROOF
<1>0. RequestInv
  BY DEF IInv
<1>1. UNCHANGED <<backend, local>> /\ UNCHANGED redis
  BY DEF Arrive, Delivered, Leave
<1>2. LocalInv' /\ SharedInv' /\ replaced' \in BOOLEAN
  BY <1>1, Frame
<1>3. CASE \E in \in Inputs, gen \in Generations : Arrive(r, in, gen)
  <2>1. PICK in \in Inputs, gen \in Generations : Arrive(r, in, gen)
    BY <1>3
  <2> DEFINE x == RequestAt(IF Enabled(gen) /\ ~in.model.codex /\ is_cacheable(in.body)
                            THEN "lookup" ELSE "deliver", in, gen, FALSE, NoValue)
  <2>2. req' = [req EXCEPT ![r] = x]
    BY <2>1 DEF Arrive
  <2>3. x \in ActiveRequests /\ x.at # "store" /\ x.at # "replay"
    BY DEF RequestAt, ActiveRequests
  <2> HIDE DEF x
  <2>4. RequestInv'
    BY <1>0, <2>2, <2>3, RequestMoves
  <2> QED BY <1>2, <2>4 DEF IInv
<1>4. CASE \E m \in Models, a \in Answers : Delivered(r, m, a)
  <2>1. PICK m \in Models, a \in Answers : Delivered(r, m, a)
    BY <1>4
  <2> DEFINE val == [size |-> a.size, by |-> m, of |-> req[r].in, gen |-> req[r].gen]
             stored == req[r].missed /\ is_storable(a) /\ ~m.codex
             x == RequestAt("store", req[r].in, req[r].gen, TRUE, val)
  <2>2. req[r].at # "idle" /\ req' = [req EXCEPT ![r] = IF stored THEN x ELSE Idle]
    BY <1>0, <2>1 DEF Delivered, RequestInv
  <2>3. req[r].in \in Inputs /\ req[r].gen \in Generations
    BY <1>0, <2>2, RequestType
  <2>4. val \in Values
    <3>0. a.size \in Sizes
      BY DEF Answers
    <3>1. a.size \in Nat
      BY <3>0, CacheAssumption
    <3> QED BY <2>3, <3>1 DEF Values
  <2>5. val.by = m /\ val.of = req[r].in /\ val.gen = req[r].gen
    OBVIOUS
  <2> HIDE DEF val
  <2>6. x \in ActiveRequests
    BY <2>3, <2>4 DEF RequestAt, ActiveRequests
  <2>7. /\ x.at = "store" /\ x.answer = val /\ x.in = req[r].in /\ x.gen = req[r].gen
    BY DEF RequestAt
  <2> HIDE DEF x
  <2>8. RequestInv'
    <3>1. CASE stored
      <4>1. req' = [req EXCEPT ![r] = x]
        BY <2>2, <3>1
      <4>2. /\ x.answer \in Values /\ ~x.answer.by.codex
            /\ x.answer.of = x.in /\ x.answer.gen = x.gen
        BY <2>4, <2>5, <2>7, <3>1
      <4>3. x.at # "replay"
        BY <2>7
      <4> QED BY <1>0, <2>6, <4>1, <4>2, <4>3, RequestMoves
    <3>2. CASE ~stored
      <4>1. req' = [req EXCEPT ![r] = Idle]
        BY <2>2, <3>2
      <4> QED BY <1>0, <4>1, RequestLeaves
    <3> QED BY <3>1, <3>2
  <2> QED BY <1>2, <2>8 DEF IInv
<1>5. CASE Leave(r)
  <2>1. req' = [req EXCEPT ![r] = Idle]
    BY <1>5 DEF Leave
  <2>2. RequestInv'
    BY <1>0, <2>1, RequestLeaves
  <2> QED BY <1>2, <2>2 DEF IInv
<1> QED BY <1>3, <1>4, <1>5

(* The steps of the configuration, of the clock and of Redis itself.       *)
LEMMA OtherStep ==
  ASSUME IInv,
         \/ \E gen \in Generations : reconfigure(gen) \/ StartReplica(gen)
         \/ \E key \in DOMAIN value : Expire(key)
         \/ Clear
         \/ Tick
  PROVE  IInv'
PROOF
<1>0. LocalInv /\ SharedInv /\ replaced \in BOOLEAN
  BY DEF IInv
<1>1. UNCHANGED req /\ RequestInv'
  <2>1. UNCHANGED req
    BY DEF reconfigure, StartReplica, Expire, Clear, Tick
  <2> QED BY <2>1, Frame
<1>2. ASSUME NEW gen \in Generations, reconfigure(gen) PROVE IInv'
  <2> DEFINE k == Kept(store, bytes, Settings[gen])
             s == IF Settings[gen].enabled THEN k ELSE [store |-> <<>>, bytes |-> 0]
  <2>1. /\ settings' = Settings[gen] /\ store' = s.store /\ bytes' = s.bytes /\ now' = now
        /\ UNCHANGED redis
    BY <1>2 DEF reconfigure
  <2>2. Settings[gen] \in CacheSettings
    BY CacheAssumption
  <2>3. StoreSound(k.store, k.bytes, Settings[gen])
    <3>1. MapSound(store) /\ bytes = BytesOf(store)
      BY <1>0 DEF LocalInv, StoreSound, MapSound
    <3> HIDE DEF k
    <3>2. k = Kept(store, BytesOf(store), Settings[gen])
      BY <3>1 DEF k
    <3> QED BY <2>2, <3>1, <3>2, KeptIsSound
  <2>4. StoreSound(<<>>, 0, Settings[gen])
    BY <2>2, EmptyIsSound
  <2> HIDE DEF k
  <2>5. StoreSound(s.store, s.bytes, Settings[gen]) /\ (~Settings[gen].enabled => s.store = <<>>)
    BY <2>3, <2>4
  <2> HIDE DEF s
  <2>6. LocalInv'
    BY <1>0, <2>1, <2>2, <2>5 DEF LocalInv, DisabledHoldsNothing
  <2>7. SharedInv' /\ replaced' \in BOOLEAN
    BY <2>1, Frame
  <2> QED BY <1>1, <2>6, <2>7 DEF IInv
<1>3. ASSUME NEW gen \in Generations, StartReplica(gen) PROVE IInv'
  <2> DEFINE v == Drop(value, Range(index))
  <2>1. SetRedis(Emptied(v, None)) /\ UNCHANGED <<backend, replaced>>
    BY <1>3 DEF StartReplica, SHARED_CACHE_CLEAR, Emptied
  <2>2. v \in [{} -> Values]
    <3>1. value \in [DOMAIN value -> Values] /\ DOMAIN value \ Range(index) = {}
      BY <1>0 DEF SharedInv, SharedSound, Redis
    <3> QED BY <3>1 DEF Drop
  <2> HIDE DEF v
  <2>3. None \in Generations \cup {None}
    OBVIOUS
  <2>4. /\ SharedSound(Emptied(v, None)) /\ EntriesBounded(Emptied(v, None))
        /\ BytesCounted(Emptied(v, None))
    BY <2>2, <2>3, EmptySharedIsSound
  <2>5. LocalInv' /\ SharedInv' /\ replaced' \in BOOLEAN
    <3>1. UNCHANGED backend /\ replaced' \in BOOLEAN
      BY <1>0, <2>1
    <3> QED BY <2>1, <2>4, <3>1, SharedChanges
  <2> QED BY <1>1, <2>5 DEF IInv
<1>4. ASSUME NEW key \in DOMAIN value, Expire(key) PROVE IInv'
  <2>1. /\ value' = Drop(value, {key}) /\ UNCHANGED <<backend, local>>
        /\ meta' = meta /\ sizes' = sizes /\ index' = index /\ replaced' = replaced
    BY <1>4 DEF Expire
  <2>2. /\ DOMAIN value' = DOMAIN value \ {key} /\ \A k \in DOMAIN value' : value'[k] = value[k]
        /\ value' \in [DOMAIN value' -> Values]
    <3>1. value \in [DOMAIN value -> Values]
      BY <1>0 DEF SharedInv, SharedSound, Redis
    <3> QED BY <2>1, <3>1 DEF Drop
  <2>3. /\ Redis.value = value /\ Redis.meta = meta /\ Redis.sizes = sizes /\ Redis.index = index
        /\ Redis'.value = value' /\ Redis'.meta = meta /\ Redis'.sizes = sizes /\ Redis'.index = index
    BY <2>1 DEF Redis
  <2>4. SharedSound(Redis')
    BY <1>0, <2>2, <2>3 DEF SharedInv, SharedSound
  <2>5. EntriesBounded(Redis')
    BY <1>0, <2>3 DEF SharedInv, EntriesBounded
  <2>6. BytesCounted(Redis) => BytesCounted(Redis')
    <3>1. Charged(Redis', Redis'.index) = Charged(Redis, Redis.index)
      BY <2>3 DEF Charged
    <3> QED BY <2>3, <3>1 DEF BytesCounted
  <2>7. SharedInv' /\ replaced' \in BOOLEAN
    BY <1>0, <2>1, <2>4, <2>5, <2>6 DEF SharedInv
  <2> QED BY <1>1, <2>1, <2>7, Frame DEF IInv
<1>5. ASSUME Clear PROVE IInv'
  <2>1. store' = <<>> /\ bytes' = 0 /\ now' = now /\ settings' = settings /\ UNCHANGED redis
    BY <1>5 DEF Clear
  <2>2. settings \in CacheSettings /\ now \in Nat
    BY <1>0 DEF LocalInv
  <2>3. StoreSound(<<>>, 0, settings)
    BY <2>2, EmptyIsSound
  <2>4. LocalInv'
    BY <2>1, <2>2, <2>3 DEF LocalInv, DisabledHoldsNothing
  <2> QED BY <1>1, <2>1, <2>4, Frame DEF IInv
<1>6. ASSUME Tick PROVE IInv'
  <2>1. /\ now' = now + 1 /\ store' = store /\ bytes' = bytes /\ settings' = settings
        /\ backend' = backend /\ UNCHANGED redis
    BY <1>6 DEF Tick
  <2>2. LocalInv'
    BY <1>0, <2>1 DEF LocalInv, DisabledHoldsNothing
  <2> QED BY <1>1, <2>1, <2>2, Frame DEF IInv
<1> QED BY <1>2, <1>3, <1>4, <1>5, <1>6

-----------------------------------------------------------------------------
(* The theorems. *)

(* Both caches stay sound and every request owns what it stores or replays, *)
(* whatever the order of lookups, deliveries, insertions, expiry, reloads  *)
(* and purges.                                                             *)
THEOREM Invariance == Spec => []IInv
PROOF
<1>1. Init => IInv
  <2> SUFFICES ASSUME Init PROVE IInv
    OBVIOUS
  <2>1. LocalInv
    <3>1. settings \in CacheSettings /\ now \in Nat
      BY CacheAssumption DEF Init
    <3>2. StoreSound(<<>>, 0, settings)
      BY <3>1, EmptyIsSound
    <3> QED BY <3>1, <3>2 DEF Init, LocalInv, DisabledHoldsNothing
  <2>2. RequestInv
    BY DEF Init, RequestInv, Idle
  <2>3. SharedInv
    <3>1. <<>> \in [{} -> Values]
      OBVIOUS
    <3>2. Redis = Emptied(<<>>, None) /\ None \in Generations \cup {None}
      BY DEF Init, Redis, Emptied
    <3>3. SharedSound(Redis) /\ EntriesBounded(Redis) /\ BytesCounted(Redis)
      BY <3>1, <3>2, EmptySharedIsSound
    <3> QED BY <3>3 DEF SharedInv
  <2>4. replaced \in BOOLEAN
    BY DEF Init
  <2> QED BY <2>1, <2>2, <2>3, <2>4 DEF IInv
<1>2. IInv /\ [Next]_vars => IInv'
  <2> SUFFICES ASSUME IInv, [Next]_vars PROVE IInv'
    OBVIOUS
  <2>1. CASE UNCHANGED vars
    <3>1. UNCHANGED <<backend, local>> /\ UNCHANGED redis /\ UNCHANGED req
      BY <2>1 DEF vars
    <3> QED BY <3>1, Frame DEF IInv
  <2>2. ASSUME NEW r \in Requests,
               \/ \E in \in Inputs, gen \in Generations : Arrive(r, in, gen)
               \/ LookupLocal(r) \/ LookupShared(r)
               \/ \E m \in Models, a \in Answers : Delivered(r, m, a)
               \/ StoreLocal(r) \/ StoreShared(r) \/ Leave(r)
        PROVE  IInv'
    BY <2>2, LookupStep, StoreStep, RequestStep
  <2>3. CASE \/ \E gen \in Generations : reconfigure(gen) \/ StartReplica(gen)
             \/ \E key \in DOMAIN value : Expire(key)
             \/ Clear
             \/ Tick
    BY <2>3, OtherStep
  <2> QED BY <2>1, <2>2, <2>3 DEF Next
<1> QED BY <1>1, <1>2, PTL DEF Spec

(* The local cache counts what it holds, stays within both bounds, holds   *)
(* no key twice, and is empty while it is off.                             *)
THEOREM LocalSound == Spec => []LocalCacheSound
PROOF
<1>1. IInv => LocalCacheSound
  BY DEF IInv, LocalInv, StoreSound, LocalCacheSound, BytesExact, LocalBounds
<1> QED BY <1>1, Invariance, PTL

(* A replayed response was produced for the caller, route and body of the  *)
(* request, under its configuration and by the model it is routed to.      *)
THEOREM ReplayOwn == Spec => []ReplayIsOwn
PROOF
<1>1. IInv => ReplayIsOwn
  <2> SUFFICES ASSUME IInv, NEW r \in Requests, req[r].at = "replay"
               PROVE  /\ req[r].answer.of.partition = req[r].in.partition
                      /\ req[r].answer.of.route = req[r].in.route
                      /\ req[r].answer.of.body = req[r].in.body
                      /\ req[r].answer.gen = req[r].gen
                      /\ req[r].answer.by.name = req[r].in.model.name
                      /\ ~req[r].answer.by.codex
    BY DEF ReplayIsOwn
  <2>1. Owns(KeyOf(r), req[r].answer)
    BY DEF IInv, RequestInv
  <2> QED BY <2>1 DEF Owns, KeyOf, cache_key_with_version
<1> QED BY <1>1, Invariance, PTL

(* Every shared value is listed and of the generation in force, the index  *)
(* respects the entry bound, and while no value was replaced in place the  *)
(* byte count covers the bodies retained and respects the byte bound.      *)
THEOREM SharedSafe == Spec => []SharedCacheSound
PROOF
<1>1. IInv => SharedCacheSound
  <2> SUFFICES ASSUME IInv PROVE SharedCacheSound
    OBVIOUS
  <2>0. /\ Redis.value = value /\ Redis.meta = meta /\ Redis.sizes = sizes /\ Redis.index = index
    BY DEF Redis
  <2>1. /\ index \in Seq(KeySet) /\ sizes \in [Range(index) -> Nat] /\ DOMAIN sizes = Range(index)
        /\ DOMAIN value \subseteq Range(index) /\ value \in [DOMAIN value -> Values]
        /\ \A k \in DOMAIN value : value[k].gen = meta.gen /\ sizes[k] = value[k].size
    BY <2>0 DEF IInv, SharedInv, SharedSound
  <2>2. IndexCoversValues
    BY <2>1 DEF IndexCoversValues
  <2>3. SharedEntries
    BY <2>0 DEF IInv, SharedInv, EntriesBounded, SharedEntries
  <2>4. ASSUME ~replaced PROVE SharedBytes <= meta.bytes
    <3> DEFINE v == [i \in DOMAIN index |-> IF index[i] \in DOMAIN value THEN value[index[i]].size ELSE 0]
               w == [i \in DOMAIN index |-> SizeIn(sizes, index[i])]
    <3>1. meta.bytes = Total(w)
      BY <2>0, <2>4 DEF IInv, SharedInv, BytesCounted, Charged
    <3>2. SharedBytes = Total(v)
      BY DEF SharedBytes
    <3>3. DOMAIN index = 1..Len(index) /\ Len(index) \in Nat
      BY <2>1
    <3>4. ASSUME NEW i \in 1..Len(index) PROVE v[i] \in Nat /\ w[i] \in Nat /\ v[i] <= w[i]
      <4>1. index[i] \in Range(index) /\ i \in DOMAIN index
        BY <3>3 DEF Range
      <4>2. w[i] = sizes[index[i]] /\ w[i] \in Nat
        BY <2>1, <4>1 DEF SizeIn
      <4>3. CASE index[i] \in DOMAIN value
        BY <2>1, <4>1, <4>2, <4>3
      <4>4. CASE index[i] \notin DOMAIN value
        BY <4>1, <4>2, <4>4
      <4> QED BY <4>3, <4>4
    <3>5. /\ v = [i \in 1..Len(index) |-> v[i]] /\ w = [i \in 1..Len(index) |-> w[i]]
      BY <3>3
    <3> HIDE DEF v, w
    <3>6. v \in Seq(Nat) /\ w \in Seq(Nat) /\ Len(v) = Len(index) /\ Len(w) = Len(index)
      BY <3>3, <3>4, <3>5
    <3>7. Total(v) <= Total(w)
      BY <3>4, <3>6, TotalMonotone
    <3> QED BY <3>1, <3>2, <3>7
  <2>5. ASSUME ~replaced PROVE meta.gen # None => meta.bytes <= Settings[meta.gen].max_bytes
    BY <2>0, <2>5 DEF IInv, SharedInv, BytesCounted
  <2> QED BY <2>2, <2>3, <2>4, <2>5 DEF SharedCacheSound, SharedBytesCover
<1> QED BY <1>1, Invariance, PTL
=============================================================================
