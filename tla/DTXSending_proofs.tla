------------------------- MODULE DTXSending_proofs -------------------------
(***************************************************************************)
(* Theorems about DTXSending, with DTXMessage and DTXMessageTransmitter, for *)
(* any size of the fragments, any values, objects and buffers, any number of *)
(* arguments and transmissions, and a transport that refuses any call.      *)
(***************************************************************************)
EXTENDS DTXSending, SequenceTheorems, WellFoundedInduction, TLAPS

CONSTANT Mantissa  \* of the float in which FragmentsForLength divides

-----------------------------------------------------------------------------
(* Least counterexamples, and with them what FlattenSeq computes *)

\* A set of naturals that is not empty has a least element.
LEMMA LeastNumber ==
  ASSUME NEW S \in SUBSET Nat, S # {}
  PROVE  \E least \in S : \A n \in S : least <= n
<1> DEFINE lt == {pair \in Nat \X Nat : pair[1] < pair[2]}
<1>1. IsWellFoundedOn(lt, Nat)
  BY NatLessThanWellFounded DEF OpToRel
<1>2. PICK least \in S : \A n \in S : ~ (<<n, least>> \in lt)
  BY <1>1, WFMin
<1>3. ASSUME NEW n \in S, n < least PROVE FALSE
  BY <1>2, <1>3
<1> HIDE DEF lt
<1> QED BY <1>3

\* Induction over a set of naturals.
LEMMA NatSetInduction ==
  ASSUME NEW S, 0 \in S, \A n \in Nat : n \in S => n + 1 \in S
  PROVE  Nat \subseteq S
<1>1. SUFFICES ASSUME Nat \ S # {} PROVE FALSE
  OBVIOUS
<1>2. PICK m \in Nat \ S : \A k \in Nat \ S : m <= k
  BY <1>1, LeastNumber
<1>3. m # 0 /\ m - 1 \in Nat /\ m - 1 \in S
  BY <1>2
<1> QED BY <1>3

\* g[i] is the concatenation of the first i sequences of seqs.
Flattens(g, seqs) ==
  g = [i \in 1..Len(seqs) |-> IF i = 1 THEN seqs[i] ELSE g[i - 1] \o seqs[i]]

Joined(g, i, seqs) == IF i = 1 THEN seqs[i] ELSE g[i - 1] \o seqs[i]

LEMMA FlattensAt ==
  ASSUME NEW g, NEW seqs, Flattens(g, seqs), NEW i \in 1..Len(seqs)
  PROVE  g[i] = Joined(g, i, seqs)
<1> DEFINE f == [j \in 1..Len(seqs) |-> Joined(g, j, seqs)]
<1>1. g = f
  BY Zenon DEF Flattens, Joined
<1>2. f[i] = Joined(g, i, seqs)
  OBVIOUS
<1> HIDE DEF f
<1>3. g[i] = f[i]
  BY <1>1
<1> QED BY <1>2, <1>3

LEMMA FlattensIf ==
  ASSUME NEW S, NEW seqs \in Seq(Seq(S)), NEW g \in [1..Len(seqs) -> Seq(S)],
         \A i \in 1..Len(seqs) : g[i] = Joined(g, i, seqs)
  PROVE  Flattens(g, seqs)
<1> DEFINE f == [j \in 1..Len(seqs) |-> Joined(g, j, seqs)]
<1>1. g = [j \in 1..Len(seqs) |-> g[j]]
  OBVIOUS
<1>2. \A j \in 1..Len(seqs) : f[j] = g[j]
  OBVIOUS
<1>3. f = g
  BY <1>1, <1>2
<1> QED BY <1>3, Zenon DEF Flattens, Joined

LEMMA FlattenExists ==
  ASSUME NEW S, NEW seqs \in Seq(Seq(S))
  PROVE  \E g \in [1..Len(seqs) -> Seq(S)] : Flattens(g, seqs)
<1> DEFINE Some(n) == \E g \in [1..n -> Seq(S)] : \A i \in 1..n : g[i] = Joined(g, i, seqs)
           Done == {n \in Nat : n <= Len(seqs) => Some(n)}
<1>1. 0 \in Done
  <2>1. [i \in 1..0 |-> <<>>] \in [1..0 -> Seq(S)]
    OBVIOUS
  <2>2. \A i \in 1..0 : FALSE
    OBVIOUS
  <2>3. Some(0)
    BY <2>1, <2>2, Zenon
  <2> QED BY <2>3
<1>2. ASSUME NEW n \in Nat, n \in Done PROVE n + 1 \in Done
  <2>1. SUFFICES ASSUME n + 1 <= Len(seqs) PROVE Some(n + 1)
    <3> HIDE DEF Some
    <3> QED OBVIOUS
  <2>2. PICK h \in [1..n -> Seq(S)] : \A i \in 1..n : h[i] = Joined(h, i, seqs)
    <3>1. Some(n)
      <4> HIDE DEF Some
      <4> QED BY <1>2, <2>1
    <3> QED BY <3>1
  <2>3. seqs[n + 1] \in Seq(S)
    BY <2>1, ElementOfSeq
  <2> DEFINE next == IF n = 0 THEN seqs[n + 1] ELSE h[n] \o seqs[n + 1]
  <2>4. next \in Seq(S)
    <3>1. CASE n = 0
      BY <2>3, <3>1
    <3>2. CASE n # 0
      <4>1. h[n] \in Seq(S)
        BY <2>2, <3>2
      <4> QED BY <2>3, <3>2, <4>1, ConcatProperties
    <3> QED BY <3>1, <3>2
  <2> DEFINE g == [i \in 1..(n + 1) |-> IF i = n + 1 THEN next ELSE h[i]]
  <2>5. g \in [1..(n + 1) -> Seq(S)]
    <3> HIDE DEF next
    <3> QED BY <2>2, <2>4
  <2>6. ASSUME NEW i \in 1..(n + 1)
        PROVE  g[i] = Joined(g, i, seqs)
    <3>1. CASE i = n + 1
      <4>1. i # 1 => g[i - 1] = h[n] /\ n # 0
        BY <3>1
      <4>2. g[i] = next
        BY <3>1
      <4> HIDE DEF g
      <4> QED BY <3>1, <4>1, <4>2 DEF Joined
    <3>2. CASE i # n + 1
      <4>1. i \in 1..n /\ g[i] = h[i]
        BY <3>2
      <4>2. i # 1 => g[i - 1] = h[i - 1]
        BY <3>2
      <4> HIDE DEF g
      <4> QED BY <2>2, <4>1, <4>2 DEF Joined
    <3> QED BY <3>1, <3>2
  <2> HIDE DEF g
  <2> QED BY <2>5, <2>6
<1>3. Some(Len(seqs))
  <2> HIDE DEF Some
  <2>1. Len(seqs) \in Nat
    BY LenProperties
  <2>2. Nat \subseteq Done
    <3> HIDE DEF Done
    <3> QED BY <1>1, <1>2, NatSetInduction
  <2> QED BY <2>1, <2>2
<1>4. PICK g \in [1..Len(seqs) -> Seq(S)] :
        \A i \in 1..Len(seqs) : g[i] = Joined(g, i, seqs)
  BY <1>3
<1> QED BY <1>4, FlattensIf

LEMMA FlattenUnique ==
  ASSUME NEW ss, NEW tt, NEW g, NEW h, NEW n \in Nat,
         Len(ss) \in Nat, Len(tt) \in Nat, n <= Len(ss), n <= Len(tt),
         \A i \in 1..n : ss[i] = tt[i],
         Flattens(g, ss), Flattens(h, tt)
  PROVE  \A i \in 1..n : g[i] = h[i]
<1> DEFINE differ == {i \in 1..n : g[i] # h[i]}
<1> SUFFICES ASSUME differ # {} PROVE FALSE
  OBVIOUS
<1>1. PICK i \in differ : \A k \in differ : i <= k
  <2>1. differ \in SUBSET Nat
    OBVIOUS
  <2> HIDE DEF differ
  <2> QED BY <2>1, LeastNumber
<1>2. g[i] = Joined(g, i, ss) /\ h[i] = Joined(h, i, tt)
  BY <1>1, FlattensAt
<1>3. i # 1 => g[i - 1] = h[i - 1]
  BY <1>1
<1>4. ss[i] = tt[i] /\ g[i] # h[i]
  BY <1>1
<1> QED BY <1>2, <1>3, <1>4 DEF Joined

\* FlattenSeq is the last of the functions that Flattens describes.
LEMMA FlattenSeqIs ==
  ASSUME NEW S, NEW seqs \in Seq(Seq(S)), seqs # <<>>
  PROVE  \E g \in [1..Len(seqs) -> Seq(S)] :
           Flattens(g, seqs) /\ FlattenSeq(seqs) = g[Len(seqs)]
<1> DEFINE chosen == CHOOSE g : Flattens(g, seqs)
<1>0. Len(seqs) \in Nat \ {0}
  BY EmptySeq
<1>1. PICK g \in [1..Len(seqs) -> Seq(S)] : Flattens(g, seqs)
  BY FlattenExists
<1>2. Flattens(chosen, seqs)
  BY <1>1
<1>3. FlattenSeq(seqs) = chosen[Len(seqs)]
  BY <1>0 DEF FlattenSeq, Flattens
<1>4. \A i \in 1..Len(seqs) : chosen[i] = g[i]
  <2> HIDE DEF chosen
  <2> QED BY <1>0, <1>1, <1>2, FlattenUnique
<1>5. FlattenSeq(seqs) = g[Len(seqs)]
  <2> HIDE DEF chosen
  <2> QED BY <1>0, <1>3, <1>4
<1> QED BY <1>1, <1>5

LEMMA FlattenEmpty == FlattenSeq(<<>>) = <<>>
  BY EmptySeq DEF FlattenSeq

LEMMA FlattenIsSeq ==
  ASSUME NEW S, NEW seqs \in Seq(Seq(S))
  PROVE  FlattenSeq(seqs) \in Seq(S)
<1>1. CASE seqs = <<>>
  BY <1>1, FlattenEmpty, EmptySeq
<1>2. CASE seqs # <<>>
  <2>1. Len(seqs) \in 1..Len(seqs)
    BY <1>2, EmptySeq
  <2>2. PICK g \in [1..Len(seqs) -> Seq(S)] : FlattenSeq(seqs) = g[Len(seqs)]
    BY <1>2, FlattenSeqIs
  <2> QED BY <2>1, <2>2
<1> QED BY <1>1, <1>2

LEMMA FlattenAppend ==
  ASSUME NEW S, NEW seqs \in Seq(Seq(S)), NEW s \in Seq(S)
  PROVE  FlattenSeq(Append(seqs, s)) = FlattenSeq(seqs) \o s
<1> DEFINE more == Append(seqs, s)
<1>1. /\ more \in Seq(Seq(S)) /\ Len(more) = Len(seqs) + 1 /\ more # <<>>
      /\ \A i \in 1..Len(seqs) : more[i] = seqs[i]
      /\ more[Len(seqs) + 1] = s
  BY AppendProperties
<1> HIDE DEF more
<1>2. PICK h \in [1..Len(more) -> Seq(S)] :
        Flattens(h, more) /\ FlattenSeq(more) = h[Len(more)]
  BY <1>1, FlattenSeqIs
<1>3. CASE seqs = <<>>
  <2>1. Len(more) = 1 /\ h[1] = s
    BY <1>1, <1>2, <1>3 DEF Flattens
  <2> QED BY <1>2, <1>3, <2>1, FlattenEmpty, ConcatEmptySeq DEF more
<1>4. CASE seqs # <<>>
  <2>1. PICK g \in [1..Len(seqs) -> Seq(S)] :
          Flattens(g, seqs) /\ FlattenSeq(seqs) = g[Len(seqs)]
    BY <1>4, FlattenSeqIs
  <2>2. Len(seqs) \in Nat \ {0} /\ Len(more) \in Nat /\ Len(seqs) <= Len(more)
    BY <1>1, <1>4, EmptySeq
  <2>3. \A i \in 1..Len(seqs) : h[i] = g[i]
    <3>1. Flattens(h, more) /\ Flattens(g, seqs)
      BY <1>2, <2>1
    <3>2. PICK n \in Nat : n = Len(seqs)
      BY <2>2
    <3>3. n <= Len(seqs) /\ n <= Len(more)
      BY <2>2, <3>2
    <3>4. \A i \in 1..n : more[i] = seqs[i]
      BY <1>1, <3>2
    <3>5. \A i \in 1..n : h[i] = g[i]
      BY <2>2, <3>1, <3>3, <3>4, FlattenUnique
    <3> QED BY <3>2, <3>5
  <2>4. h[Len(seqs) + 1] = h[Len(seqs)] \o s
    <3>1. h[Len(seqs) + 1] = Joined(h, Len(seqs) + 1, more)
      BY <1>1, <1>2, FlattensAt
    <3> QED BY <1>1, <2>2, <3>1, SMTT(20) DEF Joined
  <2>5. h[Len(seqs)] = g[Len(seqs)]
    BY <2>2, <2>3
  <2> QED BY <1>1, <1>2, <2>1, <2>4, <2>5 DEF more
<1> QED BY <1>3, <1>4

-----------------------------------------------------------------------------
(* What Total computes *)

Sums(g, s, n) == g = [k \in 0..n |-> IF k = 0 THEN 0 ELSE g[k - 1] + s[k]]
Summed(g, s, k) == IF k = 0 THEN 0 ELSE g[k - 1] + s[k]

LEMMA SumsAt ==
  ASSUME NEW g, NEW s, NEW n, Sums(g, s, n), NEW k \in 0..n
  PROVE  g[k] = Summed(g, s, k)
<1> DEFINE f == [j \in 0..n |-> Summed(g, s, j)]
<1>1. g = f
  BY Zenon DEF Sums, Summed
<1>2. f[k] = Summed(g, s, k)
  OBVIOUS
<1> HIDE DEF f
<1>3. g[k] = f[k]
  BY <1>1
<1> QED BY <1>2, <1>3

LEMMA SumsIf ==
  ASSUME NEW s, NEW n \in Nat, NEW g \in [0..n -> Nat], \A k \in 0..n : g[k] = Summed(g, s, k)
  PROVE  Sums(g, s, n)
<1> DEFINE f == [k \in 0..n |-> Summed(g, s, k)]
<1>1. g = [k \in 0..n |-> g[k]]
  OBVIOUS
<1>2. \A k \in 0..n : f[k] = g[k]
  OBVIOUS
<1>3. f = g
  BY <1>1, <1>2
<1> QED BY <1>3, Zenon DEF Sums, Summed

LEMMA SumsExist ==
  ASSUME NEW s \in Seq(Nat), NEW n \in Nat, n <= Len(s)
  PROVE  \E g \in [0..n -> Nat] : Sums(g, s, n)
<1> DEFINE Some(m) == \E g \in [0..m -> Nat] : \A k \in 0..m : g[k] = Summed(g, s, k)
           Done == {m \in Nat : m <= Len(s) => Some(m)}
<1>1. 0 \in Done
  <2> DEFINE g == [k \in 0..0 |-> 0]
  <2>1. g \in [0..0 -> Nat]
    OBVIOUS
  <2>2. ASSUME NEW k \in 0..0 PROVE g[k] = Summed(g, s, k)
    <3>1. k = 0 /\ g[k] = 0
      OBVIOUS
    <3> QED BY <3>1 DEF Summed
  <2>3. Some(0)
    <3> HIDE DEF g
    <3> QED BY <2>1, <2>2
  <2> QED BY <2>3
<1>2. ASSUME NEW m \in Nat, m \in Done PROVE m + 1 \in Done
  <2>1. SUFFICES ASSUME m + 1 <= Len(s) PROVE Some(m + 1)
    <3> HIDE DEF Some
    <3> QED OBVIOUS
  <2>2. PICK h \in [0..m -> Nat] : \A k \in 0..m : h[k] = Summed(h, s, k)
    <3>1. Some(m)
      <4>1. m <= Len(s)
        BY <2>1, LenProperties
      <4> HIDE DEF Some
      <4> QED BY <1>2, <4>1
    <3> QED BY <3>1
  <2>3. s[m + 1] \in Nat /\ h[m] \in Nat
    BY <2>1, <2>2, ElementOfSeq
  <2> DEFINE g == [k \in 0..(m + 1) |-> IF k = m + 1 THEN h[m] + s[m + 1] ELSE h[k]]
  <2>4. g \in [0..(m + 1) -> Nat]
    BY <2>2, <2>3
  <2>5. ASSUME NEW k \in 0..(m + 1) PROVE g[k] = Summed(g, s, k)
    <3>1. CASE k = m + 1
      <4>1. g[k] = h[m] + s[m + 1] /\ g[k - 1] = h[m]
        BY <3>1
      <4> HIDE DEF g
      <4> QED BY <3>1, <4>1 DEF Summed
    <3>2. CASE k # m + 1
      <4>1. k \in 0..m /\ g[k] = h[k]
        BY <3>2
      <4>2. k # 0 => g[k - 1] = h[k - 1]
        BY <3>2
      <4> HIDE DEF g
      <4> QED BY <2>2, <4>1, <4>2 DEF Summed
    <3> QED BY <3>1, <3>2
  <2> HIDE DEF g
  <2> QED BY <2>4, <2>5
<1>3. Nat \subseteq Done
  <2> HIDE DEF Done
  <2> QED BY <1>1, <1>2, NatSetInduction
<1>4. Some(n)
  <2> HIDE DEF Some
  <2> QED BY <1>3
<1>5. PICK g \in [0..n -> Nat] : \A k \in 0..n : g[k] = Summed(g, s, k)
  BY <1>4
<1> QED BY <1>5, SumsIf

LEMMA SumsUnique ==
  ASSUME NEW s, NEW t, NEW g, NEW h, NEW m \in Nat, NEW n \in Nat, m <= n,
         \A k \in 1..m : s[k] = t[k], Sums(g, s, m), Sums(h, t, n)
  PROVE  \A k \in 0..m : g[k] = h[k]
<1> DEFINE differ == {k \in 0..m : g[k] # h[k]}
<1> SUFFICES ASSUME differ # {} PROVE FALSE
  OBVIOUS
<1>1. PICK i \in differ : \A k \in differ : i <= k
  <2>1. differ \in SUBSET Nat
    OBVIOUS
  <2> HIDE DEF differ
  <2> QED BY <2>1, LeastNumber
<1>2. i \in 0..m /\ i \in 0..n
  BY <1>1
<1>3. g[i] = Summed(g, s, i) /\ h[i] = Summed(h, t, i)
  BY <1>2, SumsAt
<1>4. i # 0 => g[i - 1] = h[i - 1] /\ s[i] = t[i]
  BY <1>1
<1> QED BY <1>1, <1>3, <1>4 DEF Summed

LEMMA SumsAgree ==
  ASSUME NEW s, NEW t, NEW g, NEW h, NEW m, NEW n,
         m \in Nat, n \in Nat, m <= n,
         \A k \in 1..m : s[k] = t[k], Sums(g, s, m), Sums(h, t, n)
  PROVE  g[m] = h[m]
<1>1. \A k \in 0..m : g[k] = h[k]
  BY SumsUnique
<1> QED BY <1>1

LEMMA TotalIs ==
  ASSUME NEW s \in Seq(Nat), NEW n \in Nat, n <= Len(s)
  PROVE  \E g \in [0..n -> Nat] : Sums(g, s, n) /\ Total(s, n) = g[n]
<1> DEFINE chosen == CHOOSE g : Sums(g, s, n)
<1>1. PICK g \in [0..n -> Nat] : Sums(g, s, n)
  BY SumsExist
<1>2. Sums(chosen, s, n)
  BY <1>1
<1>3. Total(s, n) = chosen[n]
  BY DEF Total, Sums
<1>4. \A k \in 0..n : chosen[k] = g[k]
  <2> HIDE DEF chosen
  <2> QED BY <1>1, <1>2, SumsUnique
<1> HIDE DEF chosen
<1> QED BY <1>1, <1>3, <1>4

LEMMA SumsSame ==
  ASSUME NEW s, NEW t, NEW g, NEW h, NEW n, n \in Nat,
         \A k \in 1..n : s[k] = t[k], Sums(g, s, n), Sums(h, t, n)
  PROVE  g[n] = h[n]
<1>1. n <= n
  OBVIOUS
<1> QED BY <1>1, SumsAgree

\* The sum of the first numbers is made of them alone, one after the other.
LEMMA TotalSame ==
  ASSUME NEW s \in Seq(Nat), NEW t \in Seq(Nat), NEW n \in Nat, n <= Len(s), n <= Len(t),
         \A k \in 1..n : s[k] = t[k]
  PROVE  Total(s, n) = Total(t, n)
<1>1. PICK g : Sums(g, s, n) /\ Total(s, n) = g[n]
  BY TotalIs
<1>2. PICK h : Sums(h, t, n) /\ Total(t, n) = h[n]
  BY TotalIs
<1>3. g[n] = h[n]
  BY <1>1, <1>2, SumsSame, SMTT(20)
<1> QED BY <1>1, <1>2, <1>3

LEMMA TotalNext ==
  ASSUME NEW s \in Seq(Nat)
  PROVE  /\ Total(s, 0) = 0
         /\ \A n \in Nat : n <= Len(s) => Total(s, n) \in Nat
         /\ \A n \in 1..Len(s) : Total(s, n) = Total(s, n - 1) + s[n]
<1>0. Len(s) \in Nat
  BY LenProperties
<1>1. ASSUME NEW n \in Nat, n <= Len(s)
      PROVE  \E g \in [0..n -> Nat] : Sums(g, s, n) /\ Total(s, n) = g[n]
  BY <1>1, TotalIs
<1>2. Total(s, 0) = 0
  <2>1. PICK g \in [0..0 -> Nat] : Sums(g, s, 0) /\ Total(s, 0) = g[0]
    BY <1>0, <1>1
  <2> QED BY <2>1, SumsAt DEF Summed
<1>3. \A n \in Nat : n <= Len(s) => Total(s, n) \in Nat
  BY <1>1
<1>4. ASSUME NEW n \in 1..Len(s) PROVE Total(s, n) = Total(s, n - 1) + s[n]
  <2>1. n \in Nat /\ n <= Len(s) /\ n - 1 \in Nat /\ n - 1 <= Len(s)
    BY <1>0
  <2>2. PICK g : Sums(g, s, n) /\ Total(s, n) = g[n]
    BY <1>1, <2>1
  <2>3. PICK h : Sums(h, s, n - 1) /\ Total(s, n - 1) = h[n - 1]
    BY <1>1, <2>1
  <2>4. h[n - 1] = g[n - 1]
    <3>1. PICK m \in Nat : m = n - 1
      BY <2>1
    <3>2. Sums(h, s, m) /\ Sums(g, s, n)
      BY <2>2, <2>3, <3>1
    <3>3. m \in Nat /\ n \in Nat /\ m <= n
      BY <2>1, <3>1
    <3>4. h[m] = g[m]
      BY <3>2, <3>3, SumsAgree
    <3> QED BY <3>1, <3>4
  <2>5. g[n] = g[n - 1] + s[n]
    <3>1. n \in 0..n /\ n # 0
      BY <2>1
    <3>2. Sums(g, s, n)
      BY <2>2
    <3>3. g[n] = Summed(g, s, n)
      BY <3>1, <3>2, SumsAt
    <3> QED BY <3>1, <3>3 DEF Summed
  <2> QED BY <2>2, <2>3, <2>4, <2>5
<1> QED BY <1>2, <1>3, <1>4

-----------------------------------------------------------------------------
(* Numbers *)

\* A number is a multiple and a rest.
LEMMA DivMod ==
  ASSUME NEW a \in Nat, NEW b \in Nat \ {0}
  PROVE  /\ a \div b \in Nat /\ a % b \in 0..(b - 1)
         /\ a = (a \div b) * b + (a % b)
<1> DEFINE q == a \div b
           r == a % b
<1>1. q \in Nat /\ a = b * q + r /\ r \in 0..(b - 1)
  OBVIOUS
<1> HIDE DEF q, r
<1>2. b * q = q * b
  BY <1>1
<1>3. q \in Nat /\ r \in 0..(b - 1) /\ a = q * b + r
  BY <1>1, <1>2
<1> QED BY <1>3 DEF q, r

LEMMA DivRest ==
  ASSUME NEW a \in Nat, NEW b \in Nat \ {0}
  PROVE  \E q, r \in Nat : r = a % b /\ a = q * b + r
<1> DEFINE p == a \div b
           s == a % b
<1>1. p \in Nat /\ s \in Nat /\ a = p * b + s
  BY DivMod
<1>2. s = a % b
  OBVIOUS
<1> HIDE DEF p, s
<1> QED BY <1>1, <1>2

LEMMA ProductIsNat == \A a, b \in Nat : a * b \in Nat
  OBVIOUS

\* Two multiples that differ are a multiple apart.
LEMMA MultiplesApart ==
  ASSUME NEW a \in Nat, NEW b \in Nat, NEW c \in Nat \ {0}, a * c < b * c
  PROVE  a * c + c <= b * c
<1>1. a < b
  <2> SUFFICES ASSUME b <= a PROVE FALSE
    OBVIOUS
  <2>1. PICK d \in Nat : a = b + d
    <3>1. a - b \in Nat /\ a = b + (a - b)
      OBVIOUS
    <3> QED BY <3>1
  <2>2. a * c = b * c + d * c
    BY <2>1
  <2>3. d * c \in Nat /\ a * c \in Nat /\ b * c \in Nat
    BY ProductIsNat
  <2> QED BY <2>2, <2>3
<1>2. PICK d \in Nat : b = a + 1 + d
  <2>1. b - a - 1 \in Nat /\ b = a + 1 + (b - a - 1)
    BY <1>1
  <2> QED BY <2>1
<1>3. b * c = a * c + c + d * c
  BY <1>2
<1>4. d * c \in Nat /\ a * c \in Nat
  BY ProductIsNat
<1> QED BY <1>3, <1>4

\* A number between two multiples that follow each other is none.
LEMMA QuotientIs ==
  ASSUME NEW a \in Nat, NEW q \in Nat, NEW c \in Nat \ {0}, q * c <= a, a < q * c + c
  PROVE  a \div c = q
<1> DEFINE p == a \div c
<1>1. p \in Nat /\ a % c \in 0..(c - 1) /\ a = p * c + (a % c)
  BY DivMod
<1> HIDE DEF p
<1>2. p * c \in Nat /\ q * c \in Nat
  BY <1>1, ProductIsNat
<1>3. ~(p * c < q * c)
  <2> SUFFICES ASSUME p * c < q * c PROVE FALSE
    OBVIOUS
  <2>1. p * c + c <= q * c
    BY <1>1, MultiplesApart
  <2> QED BY <1>1, <1>2, <2>1
<1>4. ~(q * c < p * c)
  <2> SUFFICES ASSUME q * c < p * c PROVE FALSE
    OBVIOUS
  <2>1. q * c + c <= p * c
    BY <1>1, MultiplesApart
  <2> QED BY <1>1, <1>2, <2>1
<1>5. p * c = q * c
  BY <1>2, <1>3, <1>4
<1>6. p = q
  <2>1. ~(p < q)
    <3> SUFFICES ASSUME p < q PROVE FALSE
      OBVIOUS
    <3>1. PICK d \in Nat : q = p + 1 + d
      <4>1. q - p - 1 \in Nat /\ q = p + 1 + (q - p - 1)
        BY <1>1
      <4> QED BY <4>1
    <3>2. q * c = p * c + c + d * c
      BY <1>1, <3>1
    <3>3. d * c \in Nat
      BY ProductIsNat
    <3> QED BY <1>2, <1>5, <3>2, <3>3
  <2>2. ~(q < p)
    <3> SUFFICES ASSUME q < p PROVE FALSE
      OBVIOUS
    <3>1. PICK d \in Nat : p = q + 1 + d
      <4>1. p - q - 1 \in Nat /\ p = q + 1 + (p - q - 1)
        BY <1>1
      <4> QED BY <4>1
    <3>2. p * c = q * c + c + d * c
      BY <1>1, <3>1
    <3>3. d * c \in Nat
      BY ProductIsNat
    <3> QED BY <1>2, <1>5, <3>2, <3>3
  <2> QED BY <1>1, <2>1, <2>2
<1> QED BY <1>6 DEF p

-----------------------------------------------------------------------------
(* The bytes of the chunks and of the wire *)

Sizes == Seq(Nat \ {0})

\* Where the chunks of a message begin.
LEMMA BeforeIs ==
  ASSUME chunks \in Sizes
  PROVE  /\ Len(chunks) \in Nat /\ Before(1) = 0
         /\ \A j \in 1..(Len(chunks) + 1) : Before(j) \in Nat
         /\ \A j \in 1..Len(chunks) :
              chunks[j] \in Nat \ {0} /\ Before(j + 1) = Before(j) + chunks[j]
<1>1. chunks \in Seq(Nat) /\ Len(chunks) \in Nat
      /\ \A j \in 1..Len(chunks) : chunks[j] \in Nat \ {0}
  BY DEF Sizes
<1>2. /\ Total(chunks, 0) = 0
      /\ \A n \in Nat : n <= Len(chunks) => Total(chunks, n) \in Nat
      /\ \A n \in 1..Len(chunks) : Total(chunks, n) = Total(chunks, n - 1) + chunks[n]
  BY <1>1, TotalNext
<1>3. Before(1) = 0
  <2>1. 1 - 1 = 0
    OBVIOUS
  <2> QED BY <1>2, <2>1 DEF Before
<1>4. ASSUME NEW j \in 1..(Len(chunks) + 1) PROVE Before(j) \in Nat
  <2>1. j - 1 \in Nat /\ j - 1 <= Len(chunks)
    BY <1>1
  <2> QED BY <1>2, <2>1 DEF Before
<1>5. ASSUME NEW j \in 1..Len(chunks) PROVE Before(j + 1) = Before(j) + chunks[j]
  <2>1. (j + 1) - 1 = j
    BY <1>1
  <2> QED BY <1>2, <2>1 DEF Before
<1> QED BY <1>1, <1>3, <1>4, <1>5

\* The chunks of a message lie before its end.
LEMMA BeforeGrows ==
  ASSUME chunks \in Sizes
  PROVE  \A j \in 1..(Len(chunks) + 1) : Before(j) <= Before(Len(chunks) + 1)
<1> DEFINE end == Len(chunks) + 1
           bad == {j \in 1..end : ~(Before(end - j + 1) <= Before(end))}
<1>1. Len(chunks) \in Nat /\ \A j \in 1..end : Before(j) \in Nat
  BY BeforeIs
<1>2. SUFFICES ASSUME bad # {} PROVE FALSE
  <2> SUFFICES ASSUME NEW j \in 1..end PROVE Before(j) <= Before(end)
    OBVIOUS
  <2>1. end - j + 1 \in 1..end /\ end - (end - j + 1) + 1 = j
    BY <1>1
  <2>2. end - j + 1 \notin bad
    BY <1>2
  <2> HIDE DEF end
  <2> QED BY <2>1, <2>2
<1>3. PICK j \in bad : \A k \in bad : j <= k
  <2>1. bad \in SUBSET Nat
    BY <1>1
  <2> HIDE DEF bad
  <2> QED BY <1>2, <2>1, LeastNumber
<1>4. j \in 1..end /\ ~(Before(end - j + 1) <= Before(end))
  BY <1>3
<1>5. j # 1
  <2> SUFFICES ASSUME j = 1 PROVE FALSE
    OBVIOUS
  <2>1. end - j + 1 = end /\ end \in 1..end
    BY <1>1
  <2>2. Before(end) \in Nat /\ ~(Before(end) <= Before(end))
    BY <1>1, <1>4, <2>1
  <2> QED BY <2>2
<1>6. j - 1 \in 1..end /\ j - 1 \notin bad
  <2>1. j - 1 \in 1..end /\ ~(j <= j - 1)
    BY <1>1, <1>4, <1>5
  <2> HIDE DEF bad
  <2> QED BY <1>3, <2>1
<1>7. Before(end - (j - 1) + 1) <= Before(end)
  BY <1>6
<1>8. PICK k \in 1..Len(chunks) : k = end - j + 1 /\ k + 1 = end - (j - 1) + 1
  <2>1. end - j + 1 \in 1..Len(chunks) /\ (end - j + 1) + 1 = end - (j - 1) + 1
    BY <1>1, <1>4, <1>5
  <2> QED BY <2>1
<1>9. Before(k + 1) = Before(k) + chunks[k] /\ chunks[k] \in Nat
  BY BeforeIs
<1>10. Before(k) \in Nat /\ Before(k + 1) <= Before(end) /\ ~(Before(k) <= Before(end))
  <2>1. k \in 1..end
    BY <1>1
  <2> QED BY <1>1, <1>4, <1>7, <1>8, <2>1
<1>11. Before(end) \in Nat
  <2>1. end \in 1..end
    BY <1>1
  <2> QED BY <1>1, <2>1
<1> QED BY <1>9, <1>10, <1>11

\* What a chunk gives is in it, or junk.
LEMMA BytesAre ==
  ASSUME chunks \in Sizes, NEW j \in 1..Len(chunks), NEW k \in Nat, NEW n \in Nat
  PROVE  /\ Bytes(j, k + 1, n) \in Seq(Nat) /\ Len(Bytes(j, k + 1, n)) = n
         /\ \A b \in 1..n : Bytes(j, k + 1, n)[b] =
              IF k + b <= chunks[j] THEN Before(j) + k + b ELSE Junk
<1>1. Before(j) \in Nat /\ chunks[j] \in Nat
  BY BeforeIs DEF Sizes
<1> DEFINE at(b) == IF (k + 1) + b - 1 <= chunks[j] THEN Before(j) + (k + 1) + b - 1 ELSE Junk
           bytes == [b \in 1..n |-> at(b)]
<1>2. ASSUME NEW b \in 1..n
      PROVE  at(b) = (IF k + b <= chunks[j] THEN Before(j) + k + b ELSE Junk) /\ at(b) \in Nat
  BY <1>1 DEF Junk
<1> HIDE DEF at
<1>3. bytes \in Seq(Nat) /\ Len(bytes) = n
  BY <1>2
<1>4. Bytes(j, k + 1, n) = bytes
  BY DEF Bytes, at
<1> QED BY <1>2, <1>3, <1>4

FragmentType == [index : Int, length : Nat, data : Seq(Nat)]
DataOf(fragments) == [i \in DOMAIN fragments |-> fragments[i].data]

LEMMA WireIs == Wire = FlattenSeq(DataOf(transmitted))
  BY DEF Wire, DataOf

LEMMA DataIs ==
  ASSUME NEW ts \in Seq(FragmentType)
  PROVE  DataOf(ts) \in Seq(Seq(Nat)) /\ Len(DataOf(ts)) = Len(ts)
<1>1. ASSUME NEW i \in 1..Len(ts) PROVE ts[i].data \in Seq(Nat)
  <2>1. ts[i] \in FragmentType
    BY ElementOfSeq
  <2> QED BY <2>1 DEF FragmentType
<1> QED BY <1>1 DEF DataOf

LEMMA FragmentHas ==
  ASSUME NEW i \in Int, NEW n \in Nat, NEW d \in Seq(Nat)
  PROVE  /\ Fragment(i, n, d) \in FragmentType
         /\ Fragment(i, n, d).index = i
         /\ Fragment(i, n, d).length = n
         /\ Fragment(i, n, d).data = d
  BY DEF Fragment, FragmentType

\* A fragment more puts its data on the wire.
LEMMA DataAppend ==
  ASSUME NEW ts \in Seq(FragmentType), NEW f \in FragmentType
  PROVE  FlattenSeq(DataOf(Append(ts, f))) = FlattenSeq(DataOf(ts)) \o f.data
<1>1. Append(ts, f) \in Seq(FragmentType)
  BY AppendProperties
<1>2. /\ DataOf(ts) \in Seq(Seq(Nat)) /\ Len(DataOf(ts)) = Len(ts)
      /\ DataOf(Append(ts, f)) \in Seq(Seq(Nat)) /\ Len(DataOf(Append(ts, f))) = Len(Append(ts, f))
      /\ f.data \in Seq(Nat)
  BY <1>1, DataIs DEF FragmentType
<1>3. DataOf(Append(ts, f)) = Append(DataOf(ts), f.data)
  <2>1. Len(DataOf(Append(ts, f))) = Len(Append(DataOf(ts), f.data))
    BY <1>2, AppendProperties
  <2>2. ASSUME NEW i \in 1..Len(DataOf(Append(ts, f)))
        PROVE  DataOf(Append(ts, f))[i] = Append(DataOf(ts), f.data)[i]
    <3>1. i \in 1..(Len(ts) + 1) /\ Len(ts) \in Nat
      BY <1>2, AppendProperties
    <3>2. DataOf(Append(ts, f))[i] = Append(ts, f)[i].data
      BY <1>1, <1>2 DEF DataOf
    <3>3. CASE i = Len(ts) + 1
      BY <1>2, <3>2, <3>3, AppendProperties
    <3>4. CASE i # Len(ts) + 1
      <4>1. i \in 1..Len(ts)
        BY <3>1, <3>4
      <4>2. DataOf(ts)[i] = ts[i].data
        BY <4>1 DEF DataOf
      <4> QED BY <1>2, <3>2, <4>1, <4>2, AppendProperties
    <3> QED BY <3>3, <3>4
  <2>3. Append(DataOf(ts), f.data) \in Seq(Seq(Nat))
    BY <1>2, AppendProperties
  <2> QED BY <1>2, <2>1, <2>2, <2>3, SeqEqual
<1> QED BY <1>2, <1>3, FlattenAppend

LEMMA DataOfNone == FlattenSeq(DataOf(<<>>)) = <<>>
<1>1. <<>> \in Seq(FragmentType) /\ Len(<<>>) = 0
  BY EmptySeq
<1>2. DataOf(<<>>) \in Seq(Seq(Nat)) /\ Len(DataOf(<<>>)) = 0
  BY <1>1, DataIs
<1>3. DataOf(<<>>) = <<>>
  BY <1>2, EmptySeq
<1> QED BY <1>3, FlattenEmpty

LEMMA DataOfOne ==
  ASSUME NEW f \in FragmentType
  PROVE  FlattenSeq(DataOf(<<f>>)) = f.data
<1>1. <<>> \in Seq(FragmentType) /\ Append(<<>>, f) = <<f>> /\ f.data \in Seq(Nat)
  BY EmptySeq DEF FragmentType
<1>2. FlattenSeq(DataOf(<<f>>)) = <<>> \o f.data
  BY <1>1, DataAppend, DataOfNone
<1> QED BY <1>1, <1>2, ConcatEmptySeq

LEMMA WireIsSeq ==
  ASSUME transmitted \in Seq(FragmentType)
  PROVE  Wire \in Seq(Nat)
  BY DataIs, FlattenIsSeq, WireIs

\* The bytes in s are in order and among the first n of the message.
Rising(s, n) ==
  /\ \A i \in DOMAIN s : s[i] \in 0..n
  /\ \A i, j \in DOMAIN s : i < j /\ s[j] # Junk => s[i] < s[j]

LEMMA RisingEmpty == \A n \in Nat : Rising(<<>>, n)
  BY DEF Rising

LEMMA RisingGrows ==
  ASSUME NEW s, NEW n \in Nat, NEW m \in Nat, Rising(s, n), n <= m
  PROVE  Rising(s, m)
<1>1. \A i \in DOMAIN s : s[i] \in 0..m
  BY DEF Rising
<1> QED BY <1>1 DEF Rising

LEMMA RisingPrefix ==
  ASSUME NEW s \in Seq(Nat), NEW t \in Seq(Nat), NEW n \in Nat, Rising(s \o t, n)
  PROVE  Rising(s, n)
<1>1. \A i \in DOMAIN s : i \in DOMAIN (s \o t) /\ (s \o t)[i] = s[i]
  BY ConcatProperties
<1>2. ASSUME NEW i \in DOMAIN s, NEW j \in DOMAIN s, i < j, s[j] # Junk PROVE s[i] < s[j]
  BY <1>1, <1>2 DEF Rising
<1>3. ASSUME NEW i \in DOMAIN s PROVE s[i] \in 0..n
  BY <1>1, <1>3 DEF Rising
<1> QED BY <1>2, <1>3 DEF Rising

\* What is behind the first n bytes of the message may follow them.
LEMMA RisingMore ==
  ASSUME NEW s \in Seq(Nat), NEW t \in Seq(Nat), NEW n \in Nat, NEW m \in Nat, n <= m,
         Rising(s, n), Rising(t, m), \A i \in DOMAIN t : t[i] # Junk => n < t[i]
  PROVE  Rising(s \o t, m)
<1> DEFINE st == s \o t
<1>1. /\ st \in Seq(Nat) /\ DOMAIN st = 1..(Len(s) + Len(t)) /\ Len(s) \in Nat /\ Len(t) \in Nat
      /\ DOMAIN s = 1..Len(s) /\ DOMAIN t = 1..Len(t)
      /\ \A i \in 1..Len(s) : st[i] = s[i]
      /\ \A i \in 1..(Len(s) + Len(t)) : i \notin 1..Len(s) => st[i] = t[i - Len(s)]
  BY ConcatProperties
<1> HIDE DEF st
<1>2. \A i \in 1..Len(s) : s[i] \in 0..n
  BY <1>1 DEF Rising
<1>3. \A i \in 1..Len(t) : t[i] \in 0..m
  BY <1>1 DEF Rising
<1>4. ASSUME NEW i \in 1..(Len(s) + Len(t)), i \notin 1..Len(s)
      PROVE  i - Len(s) \in 1..Len(t) /\ st[i] = t[i - Len(s)]
  BY <1>1, <1>4
<1>5. ASSUME NEW i \in DOMAIN st PROVE st[i] \in 0..m
  <2>1. CASE i \in 1..Len(s)
    BY <1>1, <1>2, <2>1
  <2>2. CASE i \notin 1..Len(s)
    BY <1>1, <1>3, <1>4, <1>5, <2>2
  <2> QED BY <2>1, <2>2
<1>6. ASSUME NEW i \in DOMAIN st, NEW j \in DOMAIN st, i < j, st[j] # Junk
      PROVE  st[i] < st[j]
  <2>1. CASE j \in 1..Len(s)
    <3>1. i \in 1..Len(s)
      BY <1>1, <1>6, <2>1
    <3>2. st[i] = s[i] /\ st[j] = s[j]
      BY <1>1, <2>1, <3>1
    <3> QED BY <1>1, <1>6, <2>1, <3>1, <3>2 DEF Rising
  <2>2. CASE j \notin 1..Len(s)
    <3> DEFINE l == j - Len(s)
    <3>1. l \in 1..Len(t) /\ st[j] = t[l]
      BY <1>1, <1>4, <1>6, <2>2
    <3>2. n < t[l] /\ t[l] \in 0..m
      BY <1>1, <1>3, <1>6, <3>1
    <3>3. CASE i \in 1..Len(s)
      <4>1. st[i] \in 0..n
        BY <1>1, <1>2, <3>3
      <4> HIDE DEF l
      <4> QED BY <3>1, <3>2, <4>1
    <3>4. CASE i \notin 1..Len(s)
      <4> DEFINE k == i - Len(s)
      <4>1. k \in 1..Len(t) /\ st[i] = t[k]
        BY <1>1, <1>4, <1>6, <3>4
      <4>2. k < l
        BY <1>1, <1>6
      <4> HIDE DEF k, l
      <4>3. t[l] # Junk
        BY <1>6, <3>1
      <4> QED BY <1>1, <3>1, <4>1, <4>2, <4>3 DEF Rising
    <3> QED BY <3>3, <3>4
  <2> QED BY <2>1, <2>2
<1> QED BY <1>5, <1>6 DEF Rising, st

\* So the bytes of a chunk may follow what is before them.
LEMMA BytesRise ==
  ASSUME chunks \in Sizes, NEW j \in 1..Len(chunks), NEW k \in Nat, k <= chunks[j], NEW n \in Nat,
         NEW s \in Seq(Nat), Rising(s, Before(j) + k)
  PROVE  Rising(s \o Bytes(j, k + 1, n), Before(j) + Least(k + n, chunks[j]))
<1> DEFINE bytes == Bytes(j, k + 1, n)
           m == Before(j) + Least(k + n, chunks[j])
<1>1. Before(j) \in Nat /\ chunks[j] \in Nat
  BY BeforeIs DEF Sizes
<1>2. /\ bytes \in Seq(Nat) /\ DOMAIN bytes = 1..n
      /\ \A b \in 1..n : bytes[b] = IF k + b <= chunks[j] THEN Before(j) + k + b ELSE Junk
  <2>1. DOMAIN bytes = 1..Len(bytes)
    BY BytesAre
  <2> QED BY <2>1, BytesAre
<1> HIDE DEF bytes
<1>3. m \in Nat /\ Before(j) + k <= m
  BY <1>1 DEF Least
<1>4. ASSUME NEW b \in 1..n
      PROVE  bytes[b] \in 0..m /\ (bytes[b] # Junk => Before(j) + k < bytes[b])
  <2>1. CASE k + b <= chunks[j]
    <3>1. bytes[b] = Before(j) + k + b /\ b \in Nat \ {0} /\ b <= n
      BY <1>2, <2>1
    <3>2. k + b <= Least(k + n, chunks[j]) /\ Least(k + n, chunks[j]) \in Nat
      BY <1>1, <2>1, <3>1 DEF Least
    <3> QED BY <1>1, <3>1, <3>2
  <2>2. CASE ~(k + b <= chunks[j])
    BY <1>2, <1>3, <2>2 DEF Junk
  <2> QED BY <2>1, <2>2
<1>5. ASSUME NEW a \in 1..n, NEW b \in 1..n, a < b, bytes[b] # Junk
      PROVE  bytes[a] < bytes[b]
  <2>1. k + b <= chunks[j] /\ k + a <= chunks[j]
    <3>1. bytes[b] # Junk
      BY <1>5
    <3>2. k + b <= chunks[j]
      BY <1>2, <3>1
    <3>3. a \in Nat /\ b \in Nat /\ chunks[j] \in Nat /\ a < b
      BY <1>1, <1>5
    <3> QED BY <3>2, <3>3
  <2>2. bytes[a] = Before(j) + k + a /\ bytes[b] = Before(j) + k + b
    BY <1>2, <2>1
  <2> QED BY <1>1, <1>5, <2>2
<1>7. Rising(bytes, m)
  BY <1>2, <1>4, <1>5 DEF Rising
<1> HIDE DEF m
<1>8. Before(j) + k \in Nat
  BY <1>1
<1>9. Rising(s \o bytes, m)
  BY <1>2, <1>3, <1>4, <1>7, <1>8, RisingMore
<1> QED BY <1>9 DEF bytes, m

-----------------------------------------------------------------------------
(* The message *)

ProgramValues == {value \in [type : Nat, data : Seq(Nat)] : FromProgram(value)}

\* A string or a buffer of no cells is a value too; archives and buffers have some.
Filled == Seq(Nat) \ {<<>>}

LEMMA ValueHas ==
  ASSUME NEW type, NEW data
  PROVE  /\ Value(type, data).type = type /\ Value(type, data).data = data
         /\ type \in Nat /\ data \in Seq(Nat) =>
              Value(type, data) \in [type : Nat, data : Seq(Nat)]
  BY DEF Value

LEMMA NullIsValue == Null \in ProgramValues
<1>1. Null \in [type : Nat, data : Seq(Nat)] /\ Null.type = kNull /\ Null.data = <<>>
  BY ValueHas, EmptySeq DEF Null, kNull
<1>2. FromProgram(Null)
  BY <1>1, EmptySeq DEF FromProgram, Null
<1> QED BY <1>1, <1>2 DEF ProgramValues

LEMMA ArchiveIsValue ==
  ASSUME NEW object \in Filled
  PROVE  /\ Value(kBuffer, ArchivedData(object)) \in ProgramValues
         /\ Value(kBuffer, ArchivedData(object)).type = kBuffer
         /\ Value(kBuffer, ArchivedData(object)).data = object
<1> DEFINE v == Value(kBuffer, ArchivedData(object))
<1>1. v \in [type : Nat, data : Seq(Nat)] /\ v.type = kBuffer /\ v.data = object
  BY ValueHas DEF Filled, ArchivedData, kBuffer
<1>2. v = Value(v.type, v.data)
  BY <1>1 DEF ArchivedData
<1> HIDE DEF v
<1>3. FromProgram(v)
  BY <1>1, <1>2 DEF FromProgram, Filled, Sized
<1>4. v \in ProgramValues
  BY <1>1, <1>3 DEF ProgramValues
<1> QED BY <1>1, <1>4 DEF v

\* The array of no message is an array that is not there.
LEMMA NoArrayIsNone == NoArray \notin Seq(ProgramValues)
<1> SUFFICES ASSUME NoArray \in Seq(ProgramValues) PROVE FALSE
  OBVIOUS
<1>1. NoArray[1] = Value(-1, <<>>) /\ Len(NoArray) = 1
  BY DEF NoArray
<1>2. NoArray[1] \in ProgramValues
  BY <1>1, ElementOfSeq
<1>3. Value(-1, <<>>).type \in Nat
  BY <1>1, <1>2 DEF ProgramValues
<1> QED BY <1>3, ValueHas

LEMMA PrimitivesAreValues ==
  ASSUME SendingAssumption
  PROVE  Primitives \subseteq ProgramValues
<1> SUFFICES ASSUME NEW v \in Primitives PROVE v \in ProgramValues
  OBVIOUS
<1>1. FromProgram(v)
  BY DEF SendingAssumption
<1>2. v.type \in Nat /\ v.data \in Seq(Nat)
  <2>1. v = Null \/ v.type \in {1, 2} \/ v.type \in {3, 5} \/ v.type \in {4, 6, 9}
    BY <1>1 DEF FromProgram, Sized, OneCell, TwoCells, kString, kBuffer, kSignedInt32, kInteger
  <2>2. v = Null => v.type = 0
    BY ValueHas DEF Null, kNull
  <2>3. v.type \in Nat
    BY <2>1, <2>2
  <2> QED BY <1>1, <2>3 DEF FromProgram
<1>3. v \in [type : Nat, data : Seq(Nat)]
  <2>1. v = Value(v.type, v.data)
    BY <1>1 DEF FromProgram
  <2> QED BY <1>2, <2>1, ValueHas
<1> QED BY <1>1, <1>3 DEF ProgramValues

\* The message is what the program has built or what serializing has made of it.
MessageInv ==
  /\ message_type_ \in {kInterruptionMessage, kDataMessageType, kSelectorMessageType}
  /\ payload_object_ \in Seq(Nat) /\ payload_buffer_ \in Seq(Nat)
  /\ as_dict_ \in BOOLEAN /\ late \in BOOLEAN /\ sends \in 0..MaxSends
  /\ auxiliary_ = NoArray \/ auxiliary_ \in Seq(ProgramValues)
  /\ auxiliary_ = NoArray => auxiliary_objects_ = {}
  /\ \A entry \in auxiliary_objects_ :
       entry[1] \in 1..Len(auxiliary_) /\ entry[2] \in Filled /\ auxiliary_[entry[1]] = Null

LEMMA MessageInvInit ==
  ASSUME SendingAssumption, Init
  PROVE  MessageInv
<1>1. Objects \subseteq Seq(Nat) /\ Buffers \subseteq Seq(Nat) /\ MaxSends \in Nat
  BY DEF SendingAssumption
<1>2. <<>> \in Seq(Nat) /\ <<>> \in Seq(ProgramValues)
  BY EmptySeq
<1>3. message_type_ \in {kInterruptionMessage, kDataMessageType, kSelectorMessageType}
      /\ payload_object_ \in Seq(Nat) /\ payload_buffer_ \in Seq(Nat)
      /\ auxiliary_ \in {<<>>, NoArray}
  <2>1. CASE \E selector \in Objects : CreateWithSelector(selector)
    BY <1>1, <1>2, <2>1 DEF CreateWithSelector, NoBuffer
  <2>2. CASE \E bytes \in Buffers : CreateWithBuffer(bytes)
    BY <1>1, <1>2, <2>2 DEF CreateWithBuffer, NoObject
  <2>3. CASE NewReply
    BY <1>2, <2>3 DEF NewReply, NoObject, NoBuffer
  <2> QED BY <2>1, <2>2, <2>3 DEF Init, MessageInit
<1>4. auxiliary_objects_ = {} /\ as_dict_ \in BOOLEAN /\ late = FALSE /\ sends = 0
  BY DEF Init, MessageInit
<1>5. sends \in 0..MaxSends
  BY <1>1, <1>4
<1>8. late \in BOOLEAN
  BY <1>4, Zenon
<1>6. auxiliary_ = NoArray \/ auxiliary_ \in Seq(ProgramValues)
  BY <1>2, <1>3
<1>7. \A entry \in auxiliary_objects_ :
        entry[1] \in 1..Len(auxiliary_) /\ entry[2] \in Filled /\ auxiliary_[entry[1]] = Null
  BY <1>4
<1> QED BY <1>3, <1>4, <1>5, <1>6, <1>7, <1>8 DEF MessageInv

\* Archiving leaves an array of values, as long as it was.
LEMMA WithObjectsIs ==
  ASSUME MessageInv
  PROVE  /\ auxiliary_ = NoArray => WithObjects = NoArray
         /\ auxiliary_ # NoArray =>
              /\ WithObjects \in Seq(ProgramValues) /\ Len(WithObjects) = Len(auxiliary_)
              /\ WithObjects # NoArray
<1>1. CASE auxiliary_ = NoArray
  BY <1>1 DEF WithObjects
<1>2. CASE auxiliary_ # NoArray
  <2> DEFINE Chosen(i) == CHOOSE e \in auxiliary_objects_ : e[1] = i
             at(i) == IF \E entry \in auxiliary_objects_ : entry[1] = i
                      THEN Value(kBuffer, ArchivedData(Chosen(i)[2])) ELSE auxiliary_[i]
             with == [i \in 1..Len(auxiliary_) |-> at(i)]
  <2>1. auxiliary_ \in Seq(ProgramValues)
    BY <1>2 DEF MessageInv
  <2>2. ASSUME NEW i \in 1..Len(auxiliary_) PROVE at(i) \in ProgramValues
    <3>1. CASE \E entry \in auxiliary_objects_ : entry[1] = i
      <4>1. Chosen(i) \in auxiliary_objects_
        BY <3>1
      <4>2. Chosen(i)[2] \in Filled
        BY <4>1 DEF MessageInv
      <4> HIDE DEF Chosen
      <4> QED BY <3>1, <4>2, ArchiveIsValue
    <3>2. CASE ~ \E entry \in auxiliary_objects_ : entry[1] = i
      BY <2>1, <3>2, ElementOfSeq
    <3> QED BY <3>1, <3>2
  <2>3. with \in Seq(ProgramValues) /\ Len(with) = Len(auxiliary_)
    <3>1. Len(auxiliary_) \in Nat
      BY <2>1, LenProperties
    <3> HIDE DEF at
    <3> QED BY <2>2, <3>1
  <2>4. WithObjects = with
    <3>1. DOMAIN auxiliary_ = 1..Len(auxiliary_)
      BY <2>1, LenProperties
    <3> QED BY <1>2, <3>1 DEF WithObjects
  <2> HIDE DEF with
  <2> QED BY <1>2, <2>3, <2>4, NoArrayIsNone
<1> QED BY <1>1, <1>2

LEMMA MessageInvBuild ==
  ASSUME SendingAssumption, MessageInv, Build
  PROVE  MessageInv'
<1>1. Objects \subseteq Filled /\ Buffers \subseteq Filled /\ Primitives \subseteq ProgramValues
  BY PrimitivesAreValues DEF SendingAssumption, Filled
<1>2. sends' = sends
  BY DEF Build
<1>3. ASSUME NEW value, value \in ProgramValues, auxiliary_ # NoArray
      PROVE  /\ Append(auxiliary_, value) \in Seq(ProgramValues)
             /\ Append(auxiliary_, value) # NoArray
             /\ Len(auxiliary_) \in Nat /\ Len(Append(auxiliary_, value)) = Len(auxiliary_) + 1
             /\ Append(auxiliary_, value)[Len(auxiliary_) + 1] = value
             /\ \A i \in 1..Len(auxiliary_) : Append(auxiliary_, value)[i] = auxiliary_[i]
  <2>1. auxiliary_ \in Seq(ProgramValues)
    BY <1>3 DEF MessageInv
  <2> QED BY <1>3, <2>1, AppendProperties, NoArrayIsNone
<1>4. CASE \E value \in Primitives : AppendPrimitive(value)
  <2>1. PICK value \in Primitives : AppendPrimitive(value)
    BY <1>4
  <2>2. value \in ProgramValues /\ auxiliary_ # NoArray /\ auxiliary_' = Append(auxiliary_, value)
        /\ UNCHANGED <<message_type_, payload_object_, payload_buffer_, auxiliary_objects_,
                       as_dict_, late>>
    BY <1>1, <2>1 DEF AppendPrimitive
  <2>3. ASSUME NEW e \in auxiliary_objects_'
        PROVE  e[1] \in 1..Len(auxiliary_') /\ e[2] \in Filled /\ auxiliary_'[e[1]] = Null
    BY <1>3, <2>2 DEF MessageInv
  <2> QED BY <1>2, <1>3, <2>2, <2>3 DEF MessageInv
<1>5. CASE \E object \in Objects : AppendObject(object)
  <2>1. PICK object \in Objects : AppendObject(object)
    BY <1>5
  <2>2. object \in Filled /\ auxiliary_ # NoArray /\ auxiliary_' = Append(auxiliary_, Null)
        /\ auxiliary_objects_' = auxiliary_objects_ \cup {<<Len(auxiliary_) + 1, object>>}
        /\ UNCHANGED <<message_type_, payload_object_, payload_buffer_, as_dict_, late>>
    BY <1>1, <2>1 DEF AppendObject
  <2>3. ASSUME NEW e \in auxiliary_objects_'
        PROVE  e[1] \in 1..Len(auxiliary_') /\ e[2] \in Filled /\ auxiliary_'[e[1]] = Null
    <3>1. CASE e \in auxiliary_objects_
      BY <1>3, <2>2, <3>1, NullIsValue DEF MessageInv
    <3>2. CASE e = <<Len(auxiliary_) + 1, object>>
      BY <1>3, <2>2, <3>2, NullIsValue
    <3> QED BY <2>2, <3>1, <3>2
  <2> QED BY <1>2, <1>3, <2>2, <2>3, NullIsValue DEF MessageInv
<1>6. CASE \E object \in Objects : SetPayloadObject(object)
  <2>1. PICK object \in Objects : SetPayloadObject(object)
    BY <1>6
  <2> QED BY <1>1, <1>2, <2>1 DEF MessageInv, SetPayloadObject, Filled
<1>7. CASE \E bytes \in Buffers : SetPayloadBuffer(bytes)
  <2>1. PICK bytes \in Buffers : SetPayloadBuffer(bytes)
    BY <1>7
  <2> QED BY <1>1, <1>2, <2>1 DEF MessageInv, SetPayloadBuffer, Filled
<1> QED BY <1>4, <1>5, <1>6, <1>7 DEF Build

LEMMA MessageInvSend ==
  ASSUME SendingAssumption, MessageInv, Send
  PROVE  MessageInv'
<1>1. /\ auxiliary_' = WithObjects /\ auxiliary_objects_' = {}
      /\ UNCHANGED <<message_type_, payload_object_, as_dict_, late>>
      /\ payload_buffer_' \in {payload_object_, payload_buffer_}
  BY DEF Send, Archive, ArchivedData
<1>2. sends' \in 0..MaxSends
  BY DEF Send, MessageInv, SendingAssumption
<1>3. auxiliary_' = NoArray \/ auxiliary_' \in Seq(ProgramValues)
  BY <1>1, WithObjectsIs
<1> QED BY <1>1, <1>2, <1>3 DEF MessageInv

LEMMA MessageInvSame ==
  ASSUME MessageInv, UNCHANGED <<message, sends>>
  PROVE  MessageInv'
  BY DEF MessageInv, message

\* What an array takes, and that the chunks of a value and of a message are not empty.
LEMMA ItemLengthIs ==
  ASSUME NEW value \in ProgramValues
  PROVE  ItemLength(value) \in Nat
<1> DEFINE key == IF as_dict_ THEN 1 ELSE 0
           size == IF value.type \in Sized THEN 1 ELSE 0
           length == Len(value.data)
<1>1. length \in Nat
  BY LenProperties DEF ProgramValues
<1>2. key \in {0, 1} /\ size \in {0, 1}
  OBVIOUS
<1>3. ItemLength(value) = IF value.type = kNull THEN 0 ELSE key + 1 + size + length
  BY DEF ItemLength
<1> HIDE DEF key, size, length
<1>4. key + 1 + size + length \in Nat
  BY <1>1, <1>2
<1> QED BY <1>3, <1>4

LEMMA ArrayLengthIs ==
  ASSUME NEW array, array = NoArray \/ array \in Seq(ProgramValues)
  PROVE  /\ ArrayLength(array) \in Nat
         /\ array \in {NoArray, <<>>} => ArrayLength(array) = 0
         /\ array \notin {NoArray, <<>>} => ArrayLength(array) - 4 \in Nat
<1>1. CASE array \in {NoArray, <<>>}
  BY <1>1 DEF ArrayLength
<1>2. CASE array \notin {NoArray, <<>>}
  <2> DEFINE lengths == [i \in DOMAIN array |-> ItemLength(array[i])]
  <2>1. array \in Seq(ProgramValues) /\ DOMAIN array = 1..Len(array) /\ Len(array) \in Nat
    BY <1>2, LenProperties
  <2>2. \A i \in 1..Len(array) : ItemLength(array[i]) \in Nat
    BY <2>1, ElementOfSeq, ItemLengthIs
  <2>3. lengths \in Seq(Nat) /\ Len(lengths) = Len(array)
    BY <2>1, <2>2
  <2> HIDE DEF lengths
  <2>4. Total(lengths, Len(array)) \in Nat
    BY <2>1, <2>3, TotalNext
  <2>5. ArrayLength(array) = 4 + Total(lengths, Len(array))
    BY <1>2 DEF ArrayLength, kDTXPrimitiveArrayHeaderSize, lengths
  <2> QED BY <1>2, <2>4, <2>5
<1> QED BY <1>1, <1>2

LEMMA OneCellIsFilled == \A n \in Nat : <<n>> \in Filled
  BY DEF Filled

LEMMA TwoCellsAreFilled == \A n, m \in Nat : <<n, m>> \in Filled
  BY DEF Filled

LEMMA SomeChunks ==
  ASSUME NEW a \in Filled
  PROVE  /\ <<>> \in Seq(Filled) /\ <<a>> \in Seq(Filled)
         /\ \A b \in Filled : <<a, b>> \in Seq(Filled)
  BY EmptySeq

LEMMA ItemChunksAre ==
  ASSUME NEW value \in ProgramValues, as_dict_ \in BOOLEAN
  PROVE  ItemChunks(value) \in Seq(Filled)
<1> DEFINE key == IF as_dict_ THEN <<<<kEmptyKey>>>> ELSE <<>>
           type == <<<<value.type>>>>
           data == CASE value.data = <<>> -> <<>>
                     [] value.data # <<>> /\ value.type \in Sized ->
                          <<<<Len(value.data)>>, value.data>>
                     [] OTHER -> <<value.data>>
<1>1. value.type \in Nat /\ value.data \in Seq(Nat) /\ Len(value.data) \in Nat
  BY LenProperties DEF ProgramValues
<1>2. <<value.type>> \in Filled /\ <<kEmptyKey>> \in Filled /\ <<Len(value.data)>> \in Filled
  BY <1>1, OneCellIsFilled DEF kEmptyKey
<1>3. key \in Seq(Filled) /\ type \in Seq(Filled)
  BY <1>2, SomeChunks
<1>4. data \in Seq(Filled)
  <2>1. CASE value.data = <<>>
    <3>1. data = <<>>
      BY <2>1
    <3> QED BY <1>2, <3>1, SomeChunks
  <2>2. CASE value.data # <<>>
    <3>1. value.data \in Filled
      BY <1>1, <2>2 DEF Filled
    <3>2. <<<<Len(value.data)>>, value.data>> \in Seq(Filled) /\ <<value.data>> \in Seq(Filled)
      BY <1>2, <3>1, SomeChunks
    <3>3. data \in {<<<<Len(value.data)>>, value.data>>, <<value.data>>}
      BY <2>2
    <3> HIDE DEF data
    <3> QED BY <3>2, <3>3
  <2> QED BY <2>1, <2>2
<1>5. ItemChunks(value) = IF value.type = kNull THEN <<>> ELSE key \o type \o data
  BY DEF ItemChunks
<1> HIDE DEF key, type, data
<1>6. key \o type \o data \in Seq(Filled)
  BY <1>3, <1>4, ConcatProperties
<1> QED BY <1>5, <1>6, EmptySeq

LEMMA ArrayItemsAre ==
  ASSUME NEW array \in Seq(ProgramValues), as_dict_ \in BOOLEAN
  PROVE  /\ [i \in DOMAIN array |-> ItemChunks(array[i])] \in Seq(Seq(Filled))
         /\ Len([i \in DOMAIN array |-> ItemChunks(array[i])]) = Len(array)
<1>1. DOMAIN array = 1..Len(array) /\ Len(array) \in Nat
  BY LenProperties
<1>2. \A i \in 1..Len(array) : ItemChunks(array[i]) \in Seq(Filled)
  BY ElementOfSeq, ItemChunksAre
<1> QED BY <1>1, <1>2

LEMMA ArrayChunksAre ==
  ASSUME NEW array \in Seq(ProgramValues), array # <<>>, as_dict_ \in BOOLEAN
  PROVE  ArrayChunks(array) \in Seq(Filled)
<1> DEFINE items == FlattenSeq([i \in DOMAIN array |-> ItemChunks(array[i])])
           head == <<<<Capacity, 0>>, <<ArrayLength(array) - kDTXPrimitiveArrayHeaderSize, 0>>>>
<1>1. items \in Seq(Filled)
  BY ArrayItemsAre, FlattenIsSeq
<1>2. ArrayLength(array) - kDTXPrimitiveArrayHeaderSize \in Nat
  BY ArrayLengthIs, NoArrayIsNone DEF kDTXPrimitiveArrayHeaderSize
<1>3. head \in Seq(Filled)
  <2>1. <<Capacity, 0>> \in Filled
        /\ <<ArrayLength(array) - kDTXPrimitiveArrayHeaderSize, 0>> \in Filled
    BY <1>2, TwoCellsAreFilled DEF Capacity
  <2> QED BY <2>1, SomeChunks
<1>4. ArrayChunks(array) = head \o items
  BY DEF ArrayChunks
<1> HIDE DEF head, items
<1> QED BY <1>1, <1>3, <1>4, ConcatProperties

LEMMA SerializeToIs ==
  ASSUME NEW array, array = NoArray \/ array \in Seq(ProgramValues), NEW bytes \in Seq(Nat),
         as_dict_ \in BOOLEAN, message_type_ \in Nat
  PROVE  /\ SerializeTo(array, bytes) \in Seq(Filled)
         /\ SerializedLength(array, bytes) \in Nat
<1> DEFINE head == <<<<message_type_>>, <<ArrayLength(array)>>,
                     <<ArrayLength(array) + Len(bytes), 0>>>>
           items == IF ArrayLength(array) > 0 THEN ArrayChunks(array) ELSE <<>>
           tail == IF Len(bytes) > 0 THEN <<bytes>> ELSE <<>>
<1>1. Len(bytes) \in Nat /\ ArrayLength(array) \in Nat
  BY LenProperties, ArrayLengthIs
<1>2. head \in Seq(Filled)
  <2>1. <<message_type_>> \in Filled /\ <<ArrayLength(array)>> \in Filled
        /\ <<ArrayLength(array) + Len(bytes), 0>> \in Filled
    BY <1>1, OneCellIsFilled, TwoCellsAreFilled
  <2> QED BY <2>1
<1>3. items \in Seq(Filled)
  <2>1. CASE ArrayLength(array) > 0
    <3>1. array \in Seq(ProgramValues) /\ array # <<>>
      BY <2>1, ArrayLengthIs
    <3> QED BY <2>1, <3>1, ArrayChunksAre
  <2>2. CASE ~(ArrayLength(array) > 0)
    BY <2>2, EmptySeq
  <2> QED BY <2>1, <2>2
<1>4. tail \in Seq(Filled)
  <2>1. CASE Len(bytes) > 0
    <3>1. bytes \in Filled
      BY <2>1, EmptySeq DEF Filled
    <3> QED BY <2>1, <3>1, SomeChunks
  <2>2. CASE ~(Len(bytes) > 0)
    BY <2>2, EmptySeq
  <2> QED BY <2>1, <2>2
<1>5. SerializeTo(array, bytes) = head \o items \o tail
  BY DEF SerializeTo
<1> HIDE DEF head, items, tail
<1>6. head \o items \o tail \in Seq(Filled)
  BY <1>2, <1>3, <1>4, ConcatProperties
<1>7. SerializedLength(array, bytes) \in Nat
  BY <1>1 DEF SerializedLength, kDTXMessagePayloadHeaderSize
<1> QED BY <1>5, <1>6, <1>7

SizesOf(content) == [j \in DOMAIN content |-> Len(content[j])]

LEMMA SizesAre ==
  ASSUME NEW content \in Seq(Filled)
  PROVE  /\ SizesOf(content) \in Sizes /\ Len(SizesOf(content)) = Len(content)
         /\ \A j \in 1..Len(content) : SizesOf(content)[j] = Len(content[j])
<1>1. DOMAIN content = 1..Len(content) /\ Len(content) \in Nat
  BY LenProperties
<1>2. \A j \in 1..Len(content) : Len(content[j]) \in Nat \ {0}
  <2> TAKE j \in 1..Len(content)
  <2>1. content[j] \in Filled
    BY ElementOfSeq
  <2> QED BY <2>1, EmptySeq, LenProperties DEF Filled
<1> QED BY <1>1, <1>2 DEF SizesOf, Sizes

-----------------------------------------------------------------------------
(* The transmitter: types *)

\* The types, and what the places in TransmitMessage say of its locals.
TypeInv ==
  /\ TransmitterTypeOK
  /\ transmitted \in Seq(FragmentType)
  /\ pc \in {"start", "single"} => buffer = <<>>
  /\ pc = "start" =>
       /\ transmitted = <<>> /\ current = 1 /\ offset = 0 /\ serialized_offset = 0
       /\ this_fragment_length = fragment_length /\ fragment_index = 0
  /\ pc = "single" => Len(transmitted) = 1
  /\ pc \in {"chunk", "loop"} => this_fragment_length <= serialized_length - serialized_offset
  /\ pc = "loop" => current <= Len(chunks)

\* TypeInv on the variables that the steps of the transmitter change.
LEMMA TypeInvHas ==
  ASSUME TypeInv
  PROVE  /\ chunks \in Sizes /\ Len(chunks) \in Nat /\ serialized_length \in Nat
         /\ current \in 1..(Len(chunks) + 1) /\ offset \in Nat
         /\ buffer \in Seq(Nat) /\ Len(buffer) \in Nat /\ Len(buffer) <= this_fragment_length
         /\ this_fragment_length \in 0..fragment_length
         /\ serialized_offset \in 0..serialized_length /\ fragment_index \in Nat
         /\ result \in {"none", "true", "false"} /\ refused \in 0..MaxRefusals
         /\ transmitted \in Seq(FragmentType) /\ Len(transmitted) \in Nat
         /\ Wire \in Seq(Nat) /\ Wire \o buffer \in Seq(Nat)
<1>1. Len(chunks) \in Nat /\ Len(buffer) \in Nat /\ Len(transmitted) \in Nat
  BY LenProperties DEF TypeInv, TransmitterTypeOK
<1>2. Wire \in Seq(Nat) /\ buffer \in Seq(Nat)
  BY WireIsSeq DEF TypeInv, TransmitterTypeOK
<1>3. Wire \o buffer \in Seq(Nat)
  BY <1>2, ConcatProperties
<1> QED BY <1>1, <1>2, <1>3 DEF TypeInv, TransmitterTypeOK, Sizes

\* Several fragments are for a message longer than one, and one for a shorter one.
LEMMA PiecesAre ==
  ASSUME serialized_length \in Nat
  PROVE  /\ number_of_pieces \in Nat
         /\ number_of_pieces > 1 <=> serialized_length > fragment_length
<1> DEFINE a == serialized_length + fragment_length - 1
<1>0. fragment_length \in Nat \ {0}
  BY ConstantsAssumption
<1>1. a \in Nat /\ number_of_pieces = a \div fragment_length
  BY <1>0 DEF number_of_pieces, FragmentsForLength
<1>2. a \div fragment_length \in Nat /\ a % fragment_length \in 0..(fragment_length - 1)
      /\ a = (a \div fragment_length) * fragment_length + (a % fragment_length)
  BY <1>0, <1>1, DivMod
<1>3. ASSUME serialized_length > fragment_length PROVE number_of_pieces > 1
  <2> SUFFICES ASSUME ~(number_of_pieces > 1) PROVE FALSE
    OBVIOUS
  <2>1. CASE number_of_pieces = 0
    <3>1. (a \div fragment_length) * fragment_length = 0
      BY <1>0, <1>1, <2>1
    <3> QED BY <1>0, <1>2, <1>3, <3>1
  <2>2. CASE number_of_pieces = 1
    <3>1. (a \div fragment_length) * fragment_length = fragment_length
      BY <1>0, <1>1, <2>2
    <3> QED BY <1>0, <1>2, <1>3, <3>1
  <2> QED BY <1>1, <1>2, <2>1, <2>2
<1>4. ASSUME ~(serialized_length > fragment_length) PROVE ~(number_of_pieces > 1)
  <2>1. CASE serialized_length = 0
    <3>1. 0 * fragment_length <= a /\ a < 0 * fragment_length + fragment_length
      BY <1>0, <2>1
    <3>2. a \div fragment_length = 0
      BY <1>0, <1>1, <3>1, QuotientIs
    <3> QED BY <1>1, <3>2
  <2>2. CASE serialized_length # 0
    <3>1. 1 * fragment_length <= a /\ a < 1 * fragment_length + fragment_length
      BY <1>0, <1>4, <2>2
    <3>2. a \div fragment_length = 1
      BY <1>0, <1>1, <3>1, QuotientIs
    <3> QED BY <1>1, <3>2
  <2> QED BY <2>1, <2>2
<1>5. number_of_pieces \in Nat
  BY <1>1, <1>2
<1> QED BY <1>3, <1>4, <1>5

LEMMA LeastIs ==
  \A a, b \in Int : /\ Least(a, b) \in {a, b} /\ Least(a, b) <= a /\ Least(a, b) <= b
                    /\ a <= b => Least(a, b) = a
                    /\ b <= a => Least(a, b) = b
  BY DEF Least

\* The four ends of IDEVICE_TRANSMIT_FRAGMENT_IF_BUFFER_FULL.
Kept(data, place) ==
  /\ ~IsFull(data) /\ buffer' = data /\ ContinueAt(place) /\ refused' = refused
  /\ UNCHANGED <<this_fragment_length, serialized_offset, fragment_index, transmitted>>
HeaderRefused(data) ==
  /\ IsFull(data) /\ Refuses /\ GiveUpChunk /\ buffer' = data /\ fragment_index' = fragment_index + 1
  /\ UNCHANGED <<this_fragment_length, serialized_offset, transmitted>>
Emptied(data, bytes) ==
  /\ IsFull(data) /\ buffer' = <<>> /\ fragment_index' = fragment_index + 1
  /\ serialized_offset' = serialized_offset + Len(data)
  /\ this_fragment_length' = LengthAfter(data)
  /\ transmitted' = Append(transmitted, Fragment(fragment_index + 1, this_fragment_length, bytes))

LEMMA TransmitIfFullIs ==
  ASSUME NEW data, NEW place, TransmitIfFull(data, place)
  PROVE  \/ Kept(data, place)
         \/ HeaderRefused(data)
         \/ Emptied(data, data) /\ refused' = refused /\ ContinueAt(place)
         \/ Emptied(data, <<>>) /\ Refuses /\ GiveUpChunk
<1>1. CASE ~IsFull(data)
  BY <1>1 DEF TransmitIfFull, Kept, Accepts
<1>2. CASE IsFull(data)
  BY <1>2 DEF TransmitIfFull, HeaderRefused, Emptied, Accepts, NextIndex, BufferAfter
<1> QED BY <1>1, <1>2

\* What ConsumeBytes has behind the buffer fits in the fragment.
LEMMA ConsumeIs ==
  ASSUME TypeInv, current \in 1..Len(chunks)
  PROVE  /\ consume_size \in Nat
         /\ consume_size = Least(chunks[current], this_fragment_length - Len(buffer))
         /\ Bytes(current, offset + 1, consume_size) \in Seq(Nat)
         /\ Len(Bytes(current, offset + 1, consume_size)) = consume_size
         /\ buffer \o Bytes(current, offset + 1, consume_size) \in Seq(Nat)
         /\ Len(buffer \o Bytes(current, offset + 1, consume_size)) = Len(buffer) + consume_size
         /\ Len(buffer) + consume_size <= this_fragment_length
<1>1. chunks[current] \in Nat /\ chunks \in Sizes /\ buffer \in Seq(Nat) /\ offset \in Nat
      /\ Len(buffer) \in Nat /\ this_fragment_length \in Nat /\ Len(buffer) <= this_fragment_length
  BY TypeInvHas, BeforeIs, ConstantsAssumption, SMTT(20)
<1>2. Least(this_fragment_length - Len(buffer), this_fragment_length)
        = this_fragment_length - Len(buffer)
  BY <1>1, LeastIs
<1>3. consume_size = Least(chunks[current], this_fragment_length - Len(buffer))
  BY <1>2 DEF consume_size
<1>4. consume_size \in Nat /\ consume_size <= this_fragment_length - Len(buffer)
  BY <1>1, <1>3 DEF Least
<1>5. Bytes(current, offset + 1, consume_size) \in Seq(Nat)
      /\ Len(Bytes(current, offset + 1, consume_size)) = consume_size
  BY <1>1, <1>4, BytesAre
<1>6. buffer \o Bytes(current, offset + 1, consume_size) \in Seq(Nat)
      /\ Len(buffer \o Bytes(current, offset + 1, consume_size)) = Len(buffer) + consume_size
  BY <1>1, <1>5, ConcatProperties
<1> QED BY <1>1, <1>3, <1>4, <1>5, <1>6

LEMMA TypeIfFull ==
  ASSUME TypeInv, pc \in {"chunk", "loop"}, current \in 1..Len(chunks),
         NEW data \in Seq(Nat), Len(data) <= this_fragment_length, NEW place \in Nat,
         TransmitIfFull(data, place), UNCHANGED <<given, result>>
  PROVE  TypeInv'
<1>0. fragment_length \in Nat \ {0} /\ MaxRefusals \in Nat /\ Len(data) \in Nat
  BY ConstantsAssumption, LenProperties
<1>1. /\ chunks' = chunks /\ serialized_length' = serialized_length /\ result' = result
      /\ chunks \in Sizes /\ Len(chunks) \in Nat /\ serialized_length \in Nat
      /\ this_fragment_length \in 0..fragment_length
      /\ serialized_offset \in 0..serialized_length /\ fragment_index \in Nat
      /\ result \in {"none", "true", "false"} /\ refused \in 0..MaxRefusals
      /\ transmitted \in Seq(FragmentType)
      /\ this_fragment_length <= serialized_length - serialized_offset
  BY TypeInvHas DEF TypeInv, given
<1>2. ASSUME ContinueAt(place)
      PROVE  pc' = "loop" /\ current' \in 1..(Len(chunks) + 1) /\ offset' \in Nat
             /\ current' <= Len(chunks)
  BY <1>1, <1>2 DEF ContinueAt
<1>3. ASSUME GiveUpChunk
      PROVE  pc' = "chunk" /\ current' \in 1..(Len(chunks) + 1) /\ offset' \in Nat
  BY <1>1, <1>3 DEF GiveUpChunk
<1>4. Refuses => refused' \in 0..MaxRefusals
  BY <1>0, <1>1 DEF Refuses
<1>5. ASSUME NEW bytes \in Seq(Nat), Emptied(data, bytes)
      PROVE  /\ buffer' \in Seq(Nat) /\ Len(buffer') <= this_fragment_length'
             /\ buffer' = <<>> /\ fragment_index' \in Nat
             /\ serialized_offset' \in 0..serialized_length
             /\ this_fragment_length' \in 0..fragment_length
             /\ this_fragment_length' <= serialized_length - serialized_offset'
             /\ transmitted' \in Seq(FragmentType)
  <2>1. /\ serialized_offset' = serialized_offset + Len(data)
        /\ this_fragment_length' =
             Least(fragment_length, serialized_length - serialized_offset - Len(data))
        /\ transmitted' =
             Append(transmitted, Fragment(fragment_index + 1, this_fragment_length, bytes))
        /\ buffer' = <<>> /\ fragment_index' = fragment_index + 1
    BY <1>5 DEF Emptied, LengthAfter
  <2>2. Fragment(fragment_index + 1, this_fragment_length, bytes) \in FragmentType
    BY <1>0, <1>1, FragmentHas
  <2>3. transmitted' \in Seq(FragmentType)
    BY <1>1, <2>1, <2>2, AppendProperties
  <2>4. serialized_offset' \in 0..serialized_length
    BY <1>0, <1>1, <2>1
  <2> DEFINE rest == serialized_length - serialized_offset - Len(data)
  <2>5. rest \in Nat /\ rest = serialized_length - serialized_offset'
    BY <1>0, <1>1, <2>1, <2>4
  <2>6. this_fragment_length' = Least(fragment_length, rest)
    BY <2>1
  <2> HIDE DEF rest
  <2>7. this_fragment_length' \in 0..fragment_length /\ this_fragment_length' <= rest
    BY <1>0, <2>5, <2>6 DEF Least
  <2>8. buffer' \in Seq(Nat) /\ Len(buffer') = 0
    BY <2>1, EmptySeq
  <2> QED BY <1>0, <1>1, <2>1, <2>3, <2>4, <2>5, <2>7, <2>8
<1>6. <<>> \in Seq(Nat)
  BY EmptySeq
<1>7. CASE Kept(data, place)
  BY <1>0, <1>1, <1>2, <1>7 DEF Kept, TypeInv, TransmitterTypeOK, Sizes
<1>8. CASE HeaderRefused(data)
  BY <1>0, <1>1, <1>3, <1>4, <1>8 DEF HeaderRefused, TypeInv, TransmitterTypeOK, Sizes
<1>9. CASE Emptied(data, data) /\ refused' = refused /\ ContinueAt(place)
  <2>1. Emptied(data, data) /\ refused' = refused /\ ContinueAt(place)
    BY <1>9
  <2> QED BY <1>1, <1>2, <1>5, <2>1 DEF TypeInv, TransmitterTypeOK, Sizes
<1>10. CASE Emptied(data, <<>>) /\ Refuses /\ GiveUpChunk
  <2>1. Emptied(data, <<>>) /\ refused' \in 0..MaxRefusals /\ GiveUpChunk
    BY <1>4, <1>10
  <2> QED BY <1>1, <1>3, <1>5, <1>6, <2>1 DEF TypeInv, TransmitterTypeOK, Sizes
<1> QED BY <1>7, <1>8, <1>9, <1>10, TransmitIfFullIs

LEMMA TypeStart ==
  ASSUME TypeInv, TransmitHeader \/ TransmitFirst
  PROVE  TypeInv'
<1>0. fragment_length \in Nat \ {0} /\ MaxRefusals \in Nat
  BY ConstantsAssumption
<1>1. /\ chunks \in Sizes /\ Len(chunks) \in Nat /\ serialized_length \in Nat
      /\ refused \in 0..MaxRefusals /\ result \in {"none", "true", "false"}
      /\ pc = "start" /\ transmitted = <<>> /\ current = 1 /\ offset = 0 /\ buffer = <<>>
      /\ serialized_offset = 0 /\ this_fragment_length = fragment_length /\ fragment_index = 0
      /\ UNCHANGED <<chunks, serialized_length, current, offset, buffer, this_fragment_length,
                     serialized_offset, fragment_index, result>>
  BY TypeInvHas DEF TypeInv, TransmitHeader, TransmitFirst, given
<1>2. refused' \in 0..MaxRefusals
  BY <1>0, <1>1 DEF TransmitHeader, TransmitFirst, Accepts, Refuses
<1>3. Fragment(0, serialized_length, <<>>) \in FragmentType
      /\ Fragment(NoHeader, serialized_length, <<>>) \in FragmentType
  <2>1. 0 \in Int /\ NoHeader \in Int /\ <<>> \in Seq(Nat)
    BY EmptySeq DEF NoHeader
  <2> QED BY <1>1, <2>1, FragmentHas
<1>4. \A f \in FragmentType : <<f>> \in Seq(FragmentType) /\ Len(<<f>>) = 1
  OBVIOUS
<1>5. buffer' \in Seq(Nat) /\ Len(buffer') = 0
  BY <1>1, EmptySeq
<1>6. CASE TransmitHeader
  <2>1. transmitted' \in Seq(FragmentType) /\ Len(transmitted') = 1 /\ pc' = "single"
    BY <1>3, <1>4, <1>6 DEF TransmitHeader
  <2> QED BY <1>0, <1>1, <1>2, <1>5, <2>1 DEF TypeInv, TransmitterTypeOK, Sizes
<1>7. CASE TransmitFirst
  <2>1. transmitted' \in Seq(FragmentType) /\ pc' = "chunk"
    BY <1>3, <1>4, <1>7, EmptySeq DEF TransmitFirst
  <2>2. fragment_length < serialized_length
    BY <1>0, <1>1, <1>7, PiecesAre DEF TransmitFirst
  <2> QED BY <1>0, <1>1, <1>2, <1>5, <2>1, <2>2 DEF TypeInv, TransmitterTypeOK, Sizes
<1> QED BY <1>6, <1>7

LEMMA OnlyOne ==
  ASSUME NEW S, NEW s \in Seq(S), Len(s) = 1, NEW g \in S
  PROVE  [s EXCEPT ![1] = g] = <<g>> /\ s = <<s[1]>>
<1>1. DOMAIN s = {1}
  <2>1. DOMAIN s = 1..Len(s) /\ 1..1 = {1}
    OBVIOUS
  <2> QED BY <2>1
<1>2. [s EXCEPT ![1] = g] = [i \in {1} |-> g]
  BY <1>1
<1>3. <<g>> = [i \in {1} |-> g]
  <2>1. DOMAIN <<g>> = {1} /\ <<g>>[1] = g
    OBVIOUS
  <2> QED BY <2>1
<1>4. s = [i \in {1} |-> s[1]] /\ <<s[1]>> = [i \in {1} |-> s[1]]
  <2>1. DOMAIN <<s[1]>> = {1} /\ <<s[1]>>[1] = s[1]
    OBVIOUS
  <2> QED BY <1>1, <2>1
<1> QED BY <1>2, <1>3, <1>4

\* The header of a message of one fragment gets the bytes of a chunk behind it.
LEMMA ChunkBehind ==
  ASSUME TypeInv, pc = "single", NEW bytes \in Seq(Nat),
         transmitted' = [transmitted EXCEPT ![1].data = @ \o bytes]
  PROVE  /\ transmitted = <<transmitted[1]>> /\ transmitted[1] \in FragmentType
         /\ transmitted' = <<transmitted'[1]>> /\ transmitted'[1] \in FragmentType
         /\ transmitted'[1].data = transmitted[1].data \o bytes
         /\ transmitted'[1].index = transmitted[1].index
         /\ transmitted'[1].length = transmitted[1].length
<1>1. transmitted \in Seq(FragmentType) /\ Len(transmitted) = 1
  BY DEF TypeInv
<1>2. transmitted[1] \in FragmentType /\ DOMAIN transmitted = {1}
  <2>1. 1 \in 1..Len(transmitted) /\ 1..1 = {1} /\ DOMAIN transmitted = 1..Len(transmitted)
    BY <1>1
  <2> QED BY <1>1, <2>1, ElementOfSeq
<1> DEFINE f == transmitted[1]
           g == [f EXCEPT !.data = @ \o bytes]
<1>3. f \in [index : Int, length : Nat, data : Seq(Nat)]
  BY <1>2 DEF FragmentType
<1> HIDE DEF f
<1>4. f.data \o bytes \in Seq(Nat)
  BY <1>3, ConcatProperties
<1>5. g \in FragmentType /\ g.data = f.data \o bytes /\ g.index = f.index /\ g.length = f.length
  BY <1>3, <1>4 DEF FragmentType
<1>6. transmitted' = [transmitted EXCEPT ![1] = g]
  BY DEF g, f
<1> HIDE DEF g
<1>7. transmitted' = <<g>> /\ transmitted = <<transmitted[1]>>
  <2>1. g \in FragmentType
    BY <1>5
  <2>2. [transmitted EXCEPT ![1] = g] = <<g>>
    BY <1>1, <2>1, OnlyOne
  <2>3. transmitted = <<transmitted[1]>>
    BY <1>1, <2>1, OnlyOne
  <2> QED BY <1>6, <2>2, <2>3
<1>8. transmitted'[1] = g
  BY <1>7
<1> QED BY <1>2, <1>5, <1>6, <1>7, <1>8 DEF f

LEMMA TypeSingle ==
  ASSUME TypeInv, TransmitChunk
  PROVE  TypeInv'
<1>0. MaxRefusals \in Nat
  BY ConstantsAssumption
<1>1. /\ chunks \in Sizes /\ Len(chunks) \in Nat /\ refused \in 0..MaxRefusals
      /\ pc = "single" /\ pc' = "single" /\ current \in 1..Len(chunks) /\ current' = current + 1
      /\ transmitted \in Seq(FragmentType) /\ Len(transmitted) = 1
      /\ UNCHANGED <<chunks, serialized_length, offset, buffer, this_fragment_length,
                     serialized_offset, fragment_index, result>>
  BY TypeInvHas DEF TypeInv, TransmitChunk, given
<1>2. refused' \in 0..MaxRefusals
  <2>1. refused' = refused \/ (refused < MaxRefusals /\ refused' = refused + 1)
    BY DEF TransmitChunk, Accepts, Refuses
  <2> QED BY <1>0, <1>1, <2>1
<1>3. Bytes(current, 1, chunks[current]) \in Seq(Nat)
  <2>1. chunks[current] \in Nat
    BY <1>1, BeforeIs
  <2>2. Bytes(current, 0 + 1, chunks[current]) \in Seq(Nat)
    BY <1>1, <2>1, BytesAre
  <2>3. 0 + 1 = 1
    OBVIOUS
  <2> QED BY <2>2, <2>3
<1>4. transmitted' \in Seq(FragmentType) /\ Len(transmitted') = 1
  <2>1. CASE transmitted' = transmitted
    BY <1>1, <2>1
  <2>2. CASE transmitted' = [transmitted EXCEPT
                               ![1].data = @ \o Bytes(current, 1, chunks[current])]
    <3>1. transmitted' = <<transmitted'[1]>> /\ transmitted'[1] \in FragmentType
      BY <1>1, <1>3, <2>2, ChunkBehind
    <3>2. \A f \in FragmentType : <<f>> \in Seq(FragmentType) /\ Len(<<f>>) = 1
      OBVIOUS
    <3> QED BY <3>1, <3>2
  <2> QED BY <2>1, <2>2 DEF TransmitChunk
<1> QED BY <1>1, <1>2, <1>4 DEF TypeInv, TransmitterTypeOK, Sizes

LEMMA TypeEnd ==
  ASSUME TypeInv, ReturnTrue \/ ReturnFalse \/ (Sent /\ UNCHANGED transmitted)
  PROVE  TypeInv'
<1>1. /\ pc' \in {"done", "idle"} /\ result' \in {"none", "true", "false"}
      /\ UNCHANGED <<chunks, serialized_length, current, offset, buffer, this_fragment_length,
                     serialized_offset, fragment_index, refused, transmitted>>
  BY DEF TypeInv, TransmitterTypeOK, ReturnTrue, ReturnFalse, Sent, given
<1> QED BY <1>1 DEF TypeInv, TransmitterTypeOK

LEMMA TypeLeave ==
  ASSUME TypeInv, LeaveChunk
  PROVE  TypeInv'
<1>1. /\ pc = "loop" /\ pc' = "chunk" /\ offset' = 0 /\ current' = current + 1
      /\ UNCHANGED <<chunks, serialized_length, buffer, this_fragment_length, serialized_offset,
                     fragment_index, refused, result, transmitted>>
  BY DEF LeaveChunk, GiveUpChunk, given
<1>2. current' \in 1..(Len(chunks) + 1)
  BY <1>1, TypeInvHas, SMTT(20) DEF TypeInv
<1> QED BY <1>1, <1>2 DEF TypeInv, TransmitterTypeOK

LEMMA TypeTransmit ==
  ASSUME TypeInv, Transmit
  PROVE  TypeInv'
<1>1. CASE EnterChunk
  <2>1. pc = "chunk" /\ current \in 1..Len(chunks) /\ TransmitIfFull(buffer, 0)
        /\ UNCHANGED <<given, result>> /\ buffer \in Seq(Nat)
        /\ Len(buffer) <= this_fragment_length
    BY <1>1, TypeInvHas DEF EnterChunk
  <2>2. pc \in {"chunk", "loop"} /\ 0 \in Nat
    BY <2>1
  <2> QED BY <2>1, <2>2, TypeIfFull
<1>2. CASE ConsumeBytes
  <2> DEFINE data == buffer \o Bytes(current, offset + 1, consume_size)
             place == offset + consume_size
  <2>1. pc = "loop" /\ current \in 1..Len(chunks) /\ TransmitIfFull(data, place)
        /\ UNCHANGED <<given, result>>
    BY <1>2, TypeInvHas DEF ConsumeBytes, TypeInv
  <2>2. data \in Seq(Nat) /\ Len(data) <= this_fragment_length /\ place \in Nat
    <3>1. /\ consume_size \in Nat /\ data \in Seq(Nat)
          /\ Len(data) = Len(buffer) + consume_size
          /\ Len(buffer) + consume_size <= this_fragment_length
      BY <2>1, ConsumeIs
    <3>2. offset \in Nat
      BY TypeInvHas
    <3> HIDE DEF data
    <3> QED BY <3>1, <3>2
  <2>3. pc \in {"chunk", "loop"}
    BY <2>1
  <2> HIDE DEF data, place
  <2> QED BY <2>1, <2>2, <2>3, TypeIfFull
<1> QED BY <1>1, <1>2, TypeStart, TypeSingle, TypeEnd, TypeLeave DEF Transmit

\* Send begins with nothing sent.
LEMMA SendIs ==
  ASSUME SendingAssumption, MessageInv, Send
  PROVE  LET content == SerializeTo(auxiliary_', payload_buffer_') IN
         /\ pc = "idle" /\ pc' = "start"
         /\ content \in Seq(Filled) /\ chunks' = SizesOf(content) /\ chunks' \in Sizes
         /\ serialized_length' = SerializedLength(auxiliary_', payload_buffer_')
         /\ serialized_length' \in Nat
         /\ current' = 1 /\ offset' = 0 /\ buffer' = <<>>
         /\ this_fragment_length' = fragment_length /\ serialized_offset' = 0
         /\ fragment_index' = 0 /\ transmitted' = <<>> /\ result' = "none" /\ refused' = 0
<1> DEFINE content == SerializeTo(auxiliary_', payload_buffer_')
<1>1. MessageInv' /\ message_type_' = message_type_ /\ as_dict_' = as_dict_
  BY MessageInvSend DEF Send, Archive
<1>2. /\ auxiliary_' = NoArray \/ auxiliary_' \in Seq(ProgramValues)
      /\ payload_buffer_' \in Seq(Nat) /\ as_dict_ \in BOOLEAN /\ message_type_ \in Nat
  BY <1>1 DEF MessageInv, kInterruptionMessage, kDataMessageType, kSelectorMessageType
<1>3. content \in Seq(Filled) /\ SerializedLength(auxiliary_', payload_buffer_') \in Nat
  BY <1>2, SerializeToIs
<1>4. TransmitMessage(SizesOf(content), SerializedLength(auxiliary_', payload_buffer_'))
  BY DEF Send, SizesOf
<1> HIDE DEF content
<1>5. SizesOf(content) \in Sizes
  BY <1>3, SizesAre
<1> QED BY <1>3, <1>4, <1>5 DEF TransmitMessage, content

LEMMA TypeSend ==
  ASSUME SendingAssumption, MessageInv, Send
  PROVE  TypeInv'
<1>1. /\ pc' = "start" /\ chunks' \in Seq(Nat \ {0}) /\ serialized_length' \in Nat
      /\ current' = 1 /\ offset' = 0 /\ buffer' = <<>>
      /\ this_fragment_length' = fragment_length /\ serialized_offset' = 0
      /\ fragment_index' = 0 /\ transmitted' = <<>> /\ result' = "none" /\ refused' = 0
  BY SendIs DEF Sizes
<1>2. fragment_length \in Nat \ {0} /\ MaxRefusals \in Nat /\ Len(chunks') \in Nat
  BY <1>1, ConstantsAssumption, LenProperties
<1>3. buffer' \in Seq(Nat) /\ Len(buffer') = 0 /\ transmitted' \in Seq(FragmentType)
  BY <1>1, EmptySeq
<1> QED BY <1>1, <1>2, <1>3 DEF TypeInv, TransmitterTypeOK

LEMMA TypeInit ==
  ASSUME Init
  PROVE  TypeInv
<1>1. /\ pc = "idle" /\ chunks = <<>> /\ serialized_length = 0
      /\ current = 1 /\ offset = 0 /\ buffer = <<>>
      /\ this_fragment_length = fragment_length /\ serialized_offset = 0
      /\ fragment_index = 0 /\ transmitted = <<>> /\ result = "none" /\ refused = 0
  BY DEF Init, TransmitterInit
<1>2. fragment_length \in Nat \ {0} /\ MaxRefusals \in Nat
  BY ConstantsAssumption
<1>3. /\ chunks \in Seq(Nat \ {0}) /\ Len(chunks) = 0 /\ buffer \in Seq(Nat) /\ Len(buffer) = 0
      /\ transmitted \in Seq(FragmentType)
  BY <1>1, EmptySeq
<1> QED BY <1>1, <1>2, <1>3 DEF TypeInv, TransmitterTypeOK

LEMMA TypeSame ==
  ASSUME TypeInv, UNCHANGED transmission
  PROVE  TypeInv'
  BY DEF TypeInv, TransmitterTypeOK, transmission, given

-----------------------------------------------------------------------------
(* The transmitter: nothing is repeated *)

\* How many bytes of the message have been taken from it, read or given up.
Place == IF pc = "loop" THEN Before(current) + Least(offset, chunks[current]) ELSE Before(current)

RisingOK == Rising(Wire \o buffer, Place)

LEMMA PlaceIs ==
  ASSUME TypeInv
  PROVE  /\ Place \in Nat /\ Before(current) \in Nat /\ Before(current) <= Place
         /\ pc # "loop" => Place = Before(current)
         /\ current <= Len(chunks) =>
              /\ current \in 1..Len(chunks) /\ chunks[current] \in Nat \ {0}
              /\ Before(current + 1) = Before(current) + chunks[current]
              /\ Place <= Before(current + 1)
<1>1. chunks \in Sizes /\ Len(chunks) \in Nat /\ current \in 1..(Len(chunks) + 1) /\ offset \in Nat
  BY TypeInvHas
<1>2. Before(current) \in Nat
  BY <1>1, BeforeIs
<1>3. CASE current <= Len(chunks)
  <2>1. current \in 1..Len(chunks) /\ chunks[current] \in Nat \ {0}
        /\ Before(current + 1) = Before(current) + chunks[current]
    BY <1>1, <1>3, BeforeIs
  <2>2. Least(offset, chunks[current]) \in Nat /\ Least(offset, chunks[current]) <= chunks[current]
    BY <1>1, <2>1 DEF Least
  <2> QED BY <1>2, <2>1, <2>2 DEF Place
<1>4. CASE ~(current <= Len(chunks))
  BY <1>2, <1>4 DEF Place, TypeInv
<1> QED BY <1>3, <1>4

LEMMA WireAppends ==
  ASSUME TypeInv, NEW f \in FragmentType, transmitted' = Append(transmitted, f)
  PROVE  Wire' = Wire \o f.data
<1>1. FlattenSeq(DataOf(transmitted')) = FlattenSeq(DataOf(transmitted)) \o f.data
  BY DataAppend, TypeInvHas
<1> QED BY <1>1 DEF Wire, DataOf

LEMMA WireSame ==
  ASSUME UNCHANGED transmitted
  PROVE  Wire' = Wire
  BY DEF Wire

LEMMA WireBegins ==
  /\ transmitted = <<>> => Wire = <<>>
  /\ transmitted' = <<>> => Wire' = <<>>
  /\ \A f \in FragmentType : transmitted' = <<f>> => Wire' = f.data
  /\ \A f \in FragmentType : transmitted = <<f>> => Wire = f.data
  BY DataOfNone, DataOfOne DEF Wire, DataOf

LEMMA Concats ==
  ASSUME NEW a \in Seq(Nat), NEW b \in Seq(Nat)
  PROVE  /\ a \o <<>> = a /\ <<>> \o a = a
         /\ a \o b \in Seq(Nat) /\ Len(a \o b) = Len(a) + Len(b)
<1>1. a \o <<>> = a /\ <<>> \o a = a
  BY ConcatEmptySeq
<1>2. a \o b \in Seq(Nat) /\ Len(a \o b) = Len(a) + Len(b)
  BY ConcatProperties
<1> QED BY <1>1, <1>2

LEMMA ConcatsThree == \A a, b, c \in Seq(Nat) : (a \o b) \o c = a \o (b \o c)
<1> TAKE a, b, c \in Seq(Nat)
<1> QED BY ConcatAssociative, SMTT(60)

\* The transmitter may give a fragment of the bytes that it has, or not.
LEMMA RisingIfFull ==
  ASSUME TypeInv, pc \in {"chunk", "loop"}, current \in 1..Len(chunks),
         NEW data \in Seq(Nat), NEW place \in Nat,
         TransmitIfFull(data, place), UNCHANGED <<given, result>>,
         Rising(Wire \o data, Before(current) + Least(place, chunks[current]))
  PROVE  RisingOK'
<1> DEFINE n == Before(current) + Least(place, chunks[current])
<1>1. /\ chunks' = chunks /\ chunks \in Sizes /\ transmitted \in Seq(FragmentType)
      /\ fragment_index \in Nat /\ this_fragment_length \in Nat
      /\ Wire \in Seq(Nat) /\ buffer \in Seq(Nat) /\ <<>> \in Seq(Nat)
  BY TypeInvHas, EmptySeq, ConstantsAssumption DEF given
<1>2. Before(current) \in Nat /\ chunks[current] \in Nat
      /\ Before(current + 1) = Before(current) + chunks[current] /\ Before(current + 1) \in Nat
  BY <1>1, BeforeIs
<1>3. n \in Nat /\ n <= Before(current + 1)
  BY <1>2 DEF Least
<1>4. ContinueAt(place) => Place' = n
  BY <1>1 DEF ContinueAt, Place, Before
<1>5. GiveUpChunk => Place' = Before(current + 1)
  BY <1>1 DEF GiveUpChunk, Place, Before
<1> HIDE DEF n
<1>6. Rising(Wire \o data, n) /\ Wire \o data \in Seq(Nat)
  BY <1>1, Concats DEF n
<1>7. Rising(Wire \o data, Before(current + 1))
  BY <1>2, <1>3, <1>6, RisingGrows
<1>8. ASSUME NEW bytes \in Seq(Nat), Emptied(data, bytes)
      PROVE  Wire' = Wire \o bytes /\ buffer' = <<>>
  <2> DEFINE f == Fragment(fragment_index + 1, this_fragment_length, bytes)
  <2>1. f \in FragmentType /\ f.data = bytes
    BY <1>1, FragmentHas, SMTT(20)
  <2>2. transmitted' = Append(transmitted, f) /\ buffer' = <<>>
    BY <1>8 DEF Emptied
  <2> HIDE DEF f
  <2> QED BY <2>1, <2>2, WireAppends
<1>9. CASE Kept(data, place)
  <2>1. Wire' = Wire /\ buffer' = data /\ Place' = n
    BY <1>4, <1>9, WireSame DEF Kept
  <2> QED BY <1>6, <2>1 DEF RisingOK
<1>10. CASE HeaderRefused(data)
  <2>1. Wire' = Wire /\ buffer' = data /\ Place' = Before(current + 1)
    BY <1>5, <1>10, WireSame DEF HeaderRefused
  <2> QED BY <1>7, <2>1 DEF RisingOK
<1>11. CASE Emptied(data, data) /\ refused' = refused /\ ContinueAt(place)
  <2>1. Wire' = Wire \o data /\ buffer' = <<>> /\ Place' = n
    BY <1>4, <1>8, <1>11
  <2>2. Wire' \o buffer' = Wire \o data
    BY <1>1, <1>6, <2>1, Concats
  <2> QED BY <1>6, <2>1, <2>2 DEF RisingOK
<1>12. CASE Emptied(data, <<>>) /\ Refuses /\ GiveUpChunk
  <2>1. Wire' = Wire \o <<>> /\ buffer' = <<>> /\ Place' = Before(current + 1)
    BY <1>1, <1>5, <1>8, <1>12
  <2>2. Wire' \o buffer' = Wire
    BY <1>1, <2>1, Concats
  <2>3. Rising(Wire, Before(current + 1))
    BY <1>1, <1>2, <1>7, RisingPrefix
  <2> QED BY <2>1, <2>2, <2>3 DEF RisingOK
<1> QED BY <1>9, <1>10, <1>11, <1>12, TransmitIfFullIs

LEMMA RisingStart ==
  ASSUME TypeInv, TransmitHeader \/ TransmitFirst
  PROVE  RisingOK'
<1>1. /\ pc = "start" /\ pc' # "loop" /\ buffer' = <<>> /\ current' = 1 /\ chunks' = chunks
      /\ serialized_length \in Nat /\ chunks \in Sizes
  BY TypeInvHas DEF TypeInv, TransmitHeader, TransmitFirst, given
<1>2. Fragment(0, serialized_length, <<>>) \in FragmentType
      /\ Fragment(NoHeader, serialized_length, <<>>) \in FragmentType
      /\ Fragment(0, serialized_length, <<>>).data = <<>>
      /\ Fragment(NoHeader, serialized_length, <<>>).data = <<>>
  <2>1. 0 \in Int /\ NoHeader \in Int /\ <<>> \in Seq(Nat)
    BY EmptySeq DEF NoHeader
  <2>2. Fragment(0, serialized_length, <<>>) \in FragmentType
        /\ Fragment(0, serialized_length, <<>>).data = <<>>
    BY <1>1, <2>1 DEF Fragment, FragmentType
  <2>3. Fragment(NoHeader, serialized_length, <<>>) \in FragmentType
        /\ Fragment(NoHeader, serialized_length, <<>>).data = <<>>
    BY <1>1, <2>1 DEF Fragment, FragmentType
  <2> QED BY <2>2, <2>3
<1>3. Wire' = <<>>
  BY <1>2, WireBegins DEF TransmitHeader, TransmitFirst
<1>4. Wire' \o buffer' = <<>>
  BY <1>1, <1>3, EmptySeq, Concats
<1>5. Place' = Before(1)
  BY <1>1 DEF Place, Before
<1>6. Rising(<<>>, Before(1))
  BY <1>1, BeforeIs, RisingEmpty
<1> QED BY <1>4, <1>5, <1>6 DEF RisingOK

\* The bytes of a message of one fragment follow each other.
LEMMA SingleIs ==
  ASSUME TypeInv, TransmitChunk
  PROVE  /\ Bytes(current, 1, chunks[current]) \in Seq(Nat)
         /\ \/ UNCHANGED <<transmitted, Wire>> /\ Refuses
            \/ /\ refused' = refused
               /\ Wire' = Wire \o Bytes(current, 1, chunks[current])
               /\ transmitted'[1].index = transmitted[1].index
               /\ transmitted'[1].length = transmitted[1].length
               /\ transmitted' = <<transmitted'[1]>> /\ transmitted' \in Seq(FragmentType)
<1> DEFINE bytes == Bytes(current, 1, chunks[current])
<1>1. pc = "single" /\ current \in 1..Len(chunks) /\ chunks \in Sizes
  BY TypeInvHas DEF TransmitChunk
<1>2. bytes \in Seq(Nat)
  <2>1. chunks[current] \in Nat
    BY <1>1, BeforeIs
  <2>2. Bytes(current, 0 + 1, chunks[current]) \in Seq(Nat)
    BY <1>1, <2>1, BytesAre
  <2>3. 0 + 1 = 1
    OBVIOUS
  <2> QED BY <2>2, <2>3
<1>3. CASE Refuses /\ UNCHANGED transmitted
  BY <1>2, <1>3, WireSame
<1>4. CASE Accepts /\ transmitted' = [transmitted EXCEPT ![1].data = @ \o bytes]
  <2>1. /\ transmitted = <<transmitted[1]>> /\ transmitted[1] \in FragmentType
        /\ transmitted' = <<transmitted'[1]>> /\ transmitted'[1] \in FragmentType
        /\ transmitted'[1].data = transmitted[1].data \o bytes
        /\ transmitted'[1].index = transmitted[1].index
        /\ transmitted'[1].length = transmitted[1].length
    BY <1>1, <1>2, <1>4, ChunkBehind
  <2>2. Wire' = transmitted'[1].data /\ Wire = transmitted[1].data
    BY <2>1, WireBegins
  <2>3. transmitted' \in Seq(FragmentType)
    <3>1. \A f \in FragmentType : <<f>> \in Seq(FragmentType)
      OBVIOUS
    <3> QED BY <2>1, <3>1
  <2> HIDE DEF bytes
  <2> QED BY <1>2, <1>4, <2>1, <2>2, <2>3 DEF Accepts, bytes
<1> QED BY <1>3, <1>4 DEF TransmitChunk

LEMMA RisingSingle ==
  ASSUME TypeInv, RisingOK, TransmitChunk
  PROVE  RisingOK'
<1> DEFINE bytes == Bytes(current, 0 + 1, chunks[current])
<1>1. /\ pc = "single" /\ pc' = "single" /\ buffer = <<>> /\ buffer' = <<>> /\ chunks' = chunks
      /\ current \in 1..Len(chunks) /\ current' = current + 1 /\ chunks \in Sizes
      /\ Wire \in Seq(Nat) /\ chunks[current] \in Nat /\ Before(current) \in Nat
      /\ Before(current + 1) = Before(current) + chunks[current] /\ Before(current + 1) \in Nat
  BY TypeInvHas, BeforeIs, SMTT(20) DEF TypeInv, TransmitChunk, given
<1>2. Place = Before(current) /\ Place' = Before(current + 1)
  BY <1>1 DEF Place, Before
<1>3. Wire \o buffer = Wire
  BY <1>1, Concats
<1>4. Rising(Wire, Before(current))
  BY <1>2, <1>3 DEF RisingOK
<1>5. Rising(Wire, Before(current + 1))
  BY <1>1, <1>4, RisingGrows
<1>6. Rising(Wire \o bytes, Before(current) + Least(0 + chunks[current], chunks[current]))
  <2>1. Rising(Wire, Before(current) + 0) /\ 0 <= chunks[current]
    BY <1>1, <1>4
  <2> HIDE DEF bytes
  <2>2. 0 \in Nat
    OBVIOUS
  <2> QED BY <1>1, <2>1, <2>2, BytesRise DEF bytes
<1>7. Before(current) + Least(0 + chunks[current], chunks[current]) = Before(current + 1)
  BY <1>1 DEF Least
<1>8. bytes = Bytes(current, 1, chunks[current])
  OBVIOUS
<1> HIDE DEF bytes
<1>9. Wire' \in {Wire, Wire \o bytes} /\ bytes \in Seq(Nat)
  BY <1>8, SingleIs
<1>10. Wire' \in Seq(Nat)
  BY <1>1, <1>9, Concats
<1>11. Wire' \o buffer' = Wire'
  BY <1>1, <1>10, Concats
<1>12. Rising(Wire', Before(current + 1))
  BY <1>5, <1>6, <1>7, <1>9
<1> QED BY <1>2, <1>11, <1>12 DEF RisingOK

LEMMA RisingConsume ==
  ASSUME TypeInv, RisingOK, ConsumeBytes
  PROVE  RisingOK'
<1> DEFINE bytes == Bytes(current, offset + 1, consume_size)
           data == buffer \o bytes
           place == offset + consume_size
<1>1. /\ pc = "loop" /\ current \in 1..Len(chunks) /\ offset < chunks[current] /\ offset \in Nat
      /\ TransmitIfFull(data, place) /\ UNCHANGED <<given, result>>
      /\ chunks \in Sizes /\ chunks[current] \in Nat /\ Wire \in Seq(Nat) /\ buffer \in Seq(Nat)
      /\ Wire \o buffer \in Seq(Nat)
  BY TypeInvHas, PlaceIs DEF ConsumeBytes, TypeInv
<1>2. data \in Seq(Nat) /\ bytes \in Seq(Nat) /\ consume_size \in Nat
  BY <1>1, ConsumeIs
<1>3. Place = Before(current) + offset
  BY <1>1, LeastIs DEF Place
<1>4. Rising(Wire \o buffer, Before(current) + offset)
  BY <1>3 DEF RisingOK
<1>5. Rising((Wire \o buffer) \o bytes, Before(current) + Least(place, chunks[current]))
  <2>1. offset <= chunks[current]
    BY <1>1
  <2> QED BY <1>1, <1>2, <1>4, <2>1, BytesRise
<1>6. Wire \o data = (Wire \o buffer) \o bytes
  <2> HIDE DEF bytes
  <2>1. Wire \in Seq(Nat) /\ buffer \in Seq(Nat) /\ bytes \in Seq(Nat)
    BY <1>1, <1>2
  <2>2. (Wire \o buffer) \o bytes = Wire \o (buffer \o bytes)
    BY <2>1, ConcatsThree, Zenon
  <2> QED BY <2>2
<1>7. pc \in {"chunk", "loop"} /\ place \in Nat
  BY <1>1, <1>2
<1> HIDE DEF data, place, bytes
<1>8. Rising(Wire \o data, Before(current) + Least(place, chunks[current]))
  BY <1>5, <1>6
<1> QED BY <1>1, <1>2, <1>7, <1>8, RisingIfFull

LEMMA RisingEnter ==
  ASSUME TypeInv, RisingOK, EnterChunk
  PROVE  RisingOK'
<1>1. /\ pc = "chunk" /\ pc \in {"chunk", "loop"} /\ current \in 1..Len(chunks)
      /\ TransmitIfFull(buffer, 0) /\ UNCHANGED <<given, result>> /\ buffer \in Seq(Nat)
      /\ chunks[current] \in Nat /\ Place = Before(current) /\ Before(current) \in Nat
      /\ 0 \in Nat
  BY TypeInvHas, PlaceIs DEF EnterChunk
<1>2. Before(current) + Least(0, chunks[current]) = Place
  BY <1>1 DEF Least
<1>3. Rising(Wire \o buffer, Before(current) + Least(0, chunks[current]))
  BY <1>2 DEF RisingOK
<1> QED BY <1>1, <1>3, RisingIfFull

LEMMA RisingEnd ==
  ASSUME TypeInv, RisingOK, ReturnTrue \/ ReturnFalse \/ Sent
  PROVE  RisingOK'
<1>1. /\ pc # "loop" /\ pc' # "loop"
      /\ UNCHANGED <<chunks, current, buffer, transmitted>>
  BY DEF ReturnTrue, ReturnFalse, Sent, given
<1>2. Place' = Place /\ Wire' = Wire
  BY <1>1, WireSame DEF Place, Before
<1> QED BY <1>1, <1>2 DEF RisingOK

LEMMA RisingLeave ==
  ASSUME TypeInv, RisingOK, LeaveChunk
  PROVE  RisingOK'
<1>1. /\ pc = "loop" /\ pc' = "chunk" /\ current' = current + 1
      /\ UNCHANGED <<chunks, buffer, transmitted>> /\ current <= Len(chunks)
      /\ Wire \o buffer \in Seq(Nat)
  BY TypeInvHas DEF LeaveChunk, GiveUpChunk, given, TypeInv
<1>2. Place' = Before(current + 1) /\ Wire' = Wire
  BY <1>1, WireSame DEF Place, Before
<1>3. Place \in Nat /\ Before(current + 1) \in Nat /\ Place <= Before(current + 1)
  BY <1>1, PlaceIs
<1>4. Rising(Wire \o buffer, Before(current + 1))
  BY <1>3, RisingGrows DEF RisingOK
<1> QED BY <1>1, <1>2, <1>4 DEF RisingOK

LEMMA RisingTransmit ==
  ASSUME TypeInv, RisingOK, Transmit
  PROVE  RisingOK'
  BY RisingStart, RisingSingle, RisingConsume, RisingEnter, RisingEnd, RisingLeave DEF Transmit

LEMMA RisingNew ==
  ASSUME chunks' \in Sizes, current' = 1, buffer' = <<>>, transmitted' = <<>>, pc' # "loop"
  PROVE  RisingOK'
<1>1. Wire' \o buffer' = <<>>
  BY WireBegins, EmptySeq, Concats
<1>2. Place' = Total(chunks', 0)
  <2>1. Place' = Total(chunks', 1 - 1) /\ 1 - 1 = 0
    BY DEF Place, Before
  <2> QED BY <2>1
<1>3. Total(chunks', 0) = 0
  <2>1. chunks' \in Seq(Nat)
    BY DEF Sizes
  <2> QED BY <2>1, TotalNext
<1> QED BY <1>1, <1>2, <1>3, RisingEmpty DEF RisingOK

LEMMA RisingInit ==
  ASSUME Init
  PROVE  RisingOK
<1>1. chunks = <<>> /\ current = 1 /\ buffer = <<>> /\ transmitted = <<>> /\ pc = "idle"
  BY DEF Init, TransmitterInit
<1>2. chunks \in Sizes
  BY <1>1, EmptySeq DEF Sizes
<1>3. Wire \o buffer = <<>>
  BY <1>1, WireBegins, EmptySeq, Concats
<1>4. Place = 0
  BY <1>1, <1>2, BeforeIs DEF Place
<1> QED BY <1>3, <1>4, RisingEmpty DEF RisingOK

LEMMA RisingSame ==
  ASSUME RisingOK, UNCHANGED transmission
  PROVE  RisingOK'
<1>1. UNCHANGED <<chunks, pc, current, offset, buffer, transmitted>>
  BY DEF transmission, given
<1>2. Wire' = Wire /\ Place' = Place
  BY <1>1 DEF Wire, Place, Before
<1> QED BY <1>1, <1>2 DEF RisingOK

LEMMA RisingWire ==
  ASSUME TypeInv, RisingOK
  PROVE  NothingIsRepeated
<1>1. Rising(Wire, Place)
  BY TypeInvHas, PlaceIs, RisingPrefix DEF RisingOK
<1> QED BY <1>1 DEF Rising, NothingIsRepeated

-----------------------------------------------------------------------------
(* The transmitter: the headers of a transmission that nobody refuses *)

Clean == refused = 0 /\ ~RunsOver /\ Before(Len(chunks) + 1) = serialized_length

Upto(n) == [b \in 1..n |-> b]

\* The headers of all fragments that have been sent.
HeadersOK ==
  \A i \in DOMAIN transmitted :
    /\ transmitted[i].index = i - 1
    /\ i > 1 => Len(transmitted[i].data) = transmitted[i].length
    /\ i \in 2..(Len(transmitted) - 1) => transmitted[i].length = fragment_length

\* Whether the first fragments are full, or the last of them has the rest of the message.
FullFragments ==
  \/ serialized_offset = fragment_index * fragment_length
  \/ /\ serialized_offset = serialized_length /\ fragment_index > 0
     /\ (fragment_index - 1) * fragment_length < serialized_length
     /\ serialized_length <= fragment_index * fragment_length

\* The bytes up to the place in the message are on the wire or in the buffer, and a
\* place inside a chunk is the end of a fragment.
SeveralOK ==
  pc \in {"chunk", "loop"} =>
    /\ number_of_pieces > 1
    /\ Wire \o buffer = Upto(serialized_offset + Len(buffer))
    /\ serialized_offset + Len(buffer) = Before(current) + offset
    /\ pc = "loop" =>
         offset <= chunks[current] /\ (offset \in {0, chunks[current]} \/ buffer = <<>>)
    /\ pc = "chunk" => offset = 0
    /\ Len(transmitted) = fragment_index + 1
    /\ this_fragment_length = Least(fragment_length, serialized_length - serialized_offset)
    /\ Len(buffer) < this_fragment_length \/ (this_fragment_length = 0 /\ buffer = <<>>)
    /\ FullFragments
    /\ \A i \in 2..Len(transmitted) :
         \/ transmitted[i].length = fragment_length
         \/ serialized_offset = serialized_length /\ i = Len(transmitted)

SingleOK ==
  pc = "single" =>
    /\ number_of_pieces = 1 /\ Wire = Upto(Before(current))
    /\ transmitted[1].length = serialized_length

DoneOK ==
  pc = "done" =>
    /\ Wire = Upto(serialized_length)
    /\ number_of_pieces = 1 => Len(transmitted) = 1 /\ transmitted[1].length = serialized_length
    /\ number_of_pieces > 1 => Len(transmitted) = number_of_pieces + 1

CleanOK == Clean => HeadersOK /\ SeveralOK /\ SingleOK /\ DoneOK

LEMMA UptoIs ==
  ASSUME NEW n \in Nat
  PROVE  Upto(n) \in Seq(Nat) /\ Len(Upto(n)) = n /\ \A b \in 1..n : Upto(n)[b] = b
  BY DEF Upto

LEMMA UptoNone == Upto(0) = <<>>
<1>1. Upto(0) \in Seq(Nat) /\ Len(Upto(0)) = 0
  BY UptoIs
<1> QED BY <1>1, EmptySeq

\* The bytes of a chunk, read in their order and not behind its end, go on with the message.
LEMMA UptoBytes ==
  ASSUME chunks \in Sizes, NEW j \in 1..Len(chunks), NEW k \in Nat, NEW n \in Nat,
         k + n <= chunks[j]
  PROVE  Upto(Before(j) + k) \o Bytes(j, k + 1, n) = Upto(Before(j) + k + n)
<1> DEFINE m == Before(j) + k
           bytes == Bytes(j, k + 1, n)
<1>1. Before(j) \in Nat /\ chunks[j] \in Nat /\ m \in Nat /\ m + n \in Nat
  BY BeforeIs, SMTT(20)
<1>2. /\ bytes \in Seq(Nat) /\ Len(bytes) = n
      /\ \A b \in 1..n : bytes[b] = IF k + b <= chunks[j] THEN m + b ELSE Junk
  BY BytesAre
<1>3. ASSUME NEW b \in 1..n PROVE bytes[b] = m + b
  <2>1. k + b <= chunks[j]
    BY <1>1
  <2> HIDE DEF m, bytes
  <2> QED BY <1>2, <2>1
<1> HIDE DEF m, bytes
<1>4. /\ Upto(m) \in Seq(Nat) /\ Len(Upto(m)) = m
      /\ Upto(m + n) \in Seq(Nat) /\ Len(Upto(m + n)) = m + n
      /\ \A b \in 1..m : Upto(m)[b] = b
      /\ \A b \in 1..(m + n) : Upto(m + n)[b] = b
  BY <1>1, UptoIs
<1>5. /\ Upto(m) \o bytes \in Seq(Nat) /\ Len(Upto(m) \o bytes) = m + n
      /\ \A b \in 1..(m + n) : (Upto(m) \o bytes)[b] = IF b <= m THEN Upto(m)[b] ELSE bytes[b - m]
  <2> DEFINE up == Upto(m)
  <2>1. up \in Seq(Nat) /\ bytes \in Seq(Nat) /\ Len(up) = m /\ Len(bytes) = n
    BY <1>2, <1>4
  <2> HIDE DEF up
  <2>2. /\ up \o bytes \in Seq(Nat) /\ Len(up \o bytes) = Len(up) + Len(bytes)
        /\ \A b \in 1..(Len(up) + Len(bytes)) :
             (up \o bytes)[b] = IF b <= Len(up) THEN up[b] ELSE bytes[b - Len(up)]
    BY <2>1, ConcatProperties
  <2> QED BY <2>1, <2>2 DEF up
<1>6. ASSUME NEW b \in 1..(m + n) PROVE (Upto(m) \o bytes)[b] = Upto(m + n)[b]
  <2>1. CASE b <= m
    BY <1>1, <1>4, <1>5, <2>1, SMTT(20)
  <2>2. CASE ~(b <= m)
    <3>1. b - m \in 1..n /\ m + (b - m) = b
      BY <1>1, <2>2
    <3> QED BY <1>3, <1>4, <1>5, <2>2, <3>1
  <2> QED BY <2>1, <2>2
<1>7. Upto(m) \o bytes = Upto(m + n)
  <2> DEFINE s == Upto(m) \o bytes
             t == Upto(m + n)
  <2>1. s \in Seq(Nat) /\ t \in Seq(Nat) /\ Len(s) = Len(t)
    BY <1>4, <1>5
  <2>2. \A b \in 1..Len(s) : s[b] = t[b]
    BY <1>5, <1>6
  <2> HIDE DEF s, t
  <2>3. s = t
    BY <2>1, <2>2, SeqEqual
  <2> QED BY <2>3 DEF s, t
<1> QED BY <1>7 DEF m, bytes

\* What the hypothesis of HeadersMatchData says of the step before.
LEMMA CleanBefore ==
  ASSUME TypeInv, UNCHANGED given, refused' \in {refused, refused + 1}, Clean'
  PROVE  /\ Clean /\ refused' = refused /\ number_of_pieces' = number_of_pieces
         /\ \A j : Before(j)' = Before(j)
<1>1. refused \in Nat /\ refused' = 0
  BY TypeInvHas, ConstantsAssumption DEF Clean
<1>2. refused = 0
  BY <1>1
<1>3. chunks' = chunks /\ serialized_length' = serialized_length
  BY DEF given
<1>4. number_of_pieces' = number_of_pieces
  BY <1>3 DEF number_of_pieces, FragmentsForLength
<1>5. \A j : Before(j)' = Before(j)
  BY <1>3 DEF Before
<1>6. RunsOver' <=> RunsOver
  BY <1>3 DEF RunsOver, Before, number_of_pieces, FragmentsForLength
<1>7. Clean
  BY <1>2, <1>3, <1>6 DEF Clean, Before
<1> QED BY <1>1, <1>2, <1>4, <1>5, <1>7

\* The count of fragments of a message whose last fragment is the q-th.
LEMMA CountIs ==
  ASSUME serialized_length \in Nat, NEW q \in Nat \ {0},
         (q - 1) * fragment_length < serialized_length, serialized_length <= q * fragment_length
  PROVE  number_of_pieces = q
<1>0. fragment_length \in Nat \ {0} /\ q - 1 \in Nat
  BY ConstantsAssumption
<1> DEFINE a == serialized_length + fragment_length - 1
           x == (q - 1) * fragment_length
           y == q * fragment_length
<1>1. x \in Nat /\ y = x + fragment_length
  <2>1. x \in Nat
    BY <1>0, ProductIsNat
  <2>2. q = (q - 1) + 1
    OBVIOUS
  <2>3. y = x + fragment_length
    BY <1>0, <2>2
  <2> QED BY <2>1, <2>3
<1>2. x < serialized_length /\ serialized_length <= y
  OBVIOUS
<1> HIDE DEF x, y
<1>3. a \in Nat /\ y <= a /\ a < y + fragment_length
  BY <1>0, <1>1, <1>2
<1>4. a \div fragment_length = q
  <2> HIDE DEF a
  <2> QED BY <1>0, <1>3, QuotientIs DEF y
<1> QED BY <1>4 DEF number_of_pieces, FragmentsForLength

\* The place is in the message, and there is room in the fragment.
LEMMA InTheMessage ==
  ASSUME TypeInv, Clean, SeveralOK, pc \in {"chunk", "loop"}, current \in 1..Len(chunks),
         offset < chunks[current] \/ pc = "chunk"
  PROVE  /\ serialized_offset + Len(buffer) < serialized_length
         /\ Before(current) + chunks[current] <= serialized_length
         /\ Len(buffer) < this_fragment_length
         /\ serialized_offset = fragment_index * fragment_length
<1>1. /\ chunks \in Sizes /\ Len(chunks) \in Nat /\ offset \in Nat /\ Len(buffer) \in Nat
      /\ serialized_length \in Nat /\ serialized_offset \in Nat
      /\ this_fragment_length \in Nat
  BY TypeInvHas, ConstantsAssumption
<1>2. chunks[current] \in Nat \ {0} /\ Before(current) \in Nat /\ current + 1 \in 1..(Len(chunks) + 1)
      /\ Before(current + 1) = Before(current) + chunks[current]
  BY <1>1, BeforeIs
<1>3. Before(current + 1) <= serialized_length
  BY <1>1, <1>2, BeforeGrows DEF Clean
<1>4. serialized_offset + Len(buffer) = Before(current) + offset /\ offset < chunks[current]
      /\ (Len(buffer) < this_fragment_length \/ (this_fragment_length = 0 /\ buffer = <<>>))
      /\ FullFragments
      /\ this_fragment_length = Least(fragment_length, serialized_length - serialized_offset)
  BY <1>2 DEF SeveralOK
<1>5. serialized_offset + Len(buffer) < serialized_length
      /\ Before(current) + chunks[current] <= serialized_length
  BY <1>1, <1>2, <1>3, <1>4
<1>6. serialized_offset < serialized_length
  BY <1>1, <1>5
<1>7. serialized_offset = fragment_index * fragment_length
  <2>1. serialized_offset # serialized_length
    BY <1>1, <1>6
  <2> QED BY <1>4, <2>1, Zenon DEF FullFragments
<1>8. this_fragment_length # 0
  <2>1. fragment_length \in Nat \ {0} /\ serialized_length - serialized_offset # 0
        /\ serialized_length - serialized_offset \in Nat
    BY <1>1, <1>6, ConstantsAssumption
  <2> QED BY <1>4, <2>1 DEF Least
<1> QED BY <1>4, <1>5, <1>7, <1>8

\* A chunk of c bytes behind b others goes a fragment on from the end of one in it, when
\* it does not run over its fragment or ends at the end of another.
LEMMA EndsInChunk ==
  ASSUME NEW F \in Nat \ {0}, NEW b \in Nat, NEW c \in Nat, NEW o \in Nat, NEW i \in Nat,
         0 < o, o < c, b + o = i * F, (b % F) + c <= F \/ (b + c) % F = 0
  PROVE  o + F <= c
<1>1. PICK x \in Nat : x = i * F
  BY ProductIsNat
<1>2. CASE (b % F) + c <= F
  <2>1. PICK q, r \in Nat : r = b % F /\ b = q * F + r
    BY DivRest
  <2>2. PICK y \in Nat : y = q * F
    BY ProductIsNat
  <2>3. b = y + r /\ r + c <= F /\ b + o = x
    BY <1>1, <1>2, <2>1, <2>2
  <2>4. q * F < i * F
    BY <1>1, <2>2, <2>3
  <2>5. q * F + F <= i * F
    BY <2>4, MultiplesApart
  <2>6. y + F <= x
    BY <1>1, <2>2, <2>5
  <2> QED BY <2>3, <2>6
<1>3. CASE (b + c) % F = 0
  <2>1. PICK q, r \in Nat : r = (b + c) % F /\ b + c = q * F + r
    <3>1. b + c \in Nat
      OBVIOUS
    <3> QED BY <3>1, DivRest
  <2>2. PICK y \in Nat : y = q * F
    BY ProductIsNat
  <2>3. b + c = y /\ b + o = x
    BY <1>1, <1>3, <2>1, <2>2
  <2>4. i * F < q * F
    BY <1>1, <2>2, <2>3
  <2>5. i * F + F <= q * F
    BY <2>4, MultiplesApart
  <2>6. x + F <= y
    BY <1>1, <2>2, <2>5
  <2> QED BY <2>3, <2>6
<1> QED BY <1>2, <1>3

\* So what ConsumeBytes takes is in the chunk.
LEMMA ConsumeFits ==
  ASSUME TypeInv, Clean, SeveralOK, pc = "loop", offset < chunks[current]
  PROVE  consume_size \in Nat /\ offset + consume_size <= chunks[current]
<1> DEFINE c == chunks[current]
           b == Before(current)
           F == fragment_length
<1>0. F \in Nat \ {0} /\ current \in 1..Len(chunks) /\ chunks \in Sizes /\ offset \in Nat
      /\ Len(chunks) \in Nat /\ Len(buffer) \in Nat /\ this_fragment_length \in Nat
      /\ serialized_offset \in Nat /\ fragment_index \in Nat /\ serialized_length \in Nat
      /\ Len(buffer) <= this_fragment_length
  BY TypeInvHas, ConstantsAssumption DEF TypeInv
<1>1. c \in Nat \ {0} /\ b \in Nat /\ Before(current + 1) = b + c
  BY <1>0, BeforeIs
<1>2. /\ serialized_offset + Len(buffer) = b + offset
      /\ this_fragment_length = Least(F, serialized_length - serialized_offset)
      /\ offset <= c /\ (offset \in {0, c} \/ buffer = <<>>)
  BY DEF SeveralOK
<1>3. serialized_offset + Len(buffer) < serialized_length /\ b + c <= serialized_length
      /\ serialized_offset = fragment_index * F
  BY <1>0, InTheMessage
<1>4. consume_size \in Nat /\ consume_size = Least(c, this_fragment_length - Len(buffer))
  BY <1>0, ConsumeIs
<1>5. consume_size <= c /\ consume_size <= this_fragment_length - Len(buffer)
  BY <1>0, <1>1, <1>4 DEF Least
<1>6. this_fragment_length <= F /\ this_fragment_length <= serialized_length - serialized_offset
  BY <1>0, <1>2, LeastIs
<1>7. CASE offset = 0
  BY <1>0, <1>1, <1>4, <1>5, <1>7
<1>8. CASE offset # 0
  <2>1. buffer = <<>> /\ Len(buffer) = 0 /\ serialized_offset = b + offset
    <3>1. offset # c
      BY <1>0, <1>1
    <3>2. buffer = <<>>
      BY <1>2, <1>8, <3>1
    <3>3. Len(buffer) = 0
      BY <3>2, EmptySeq
    <3> QED BY <1>0, <1>2, <3>2, <3>3
  <2>2. consume_size <= this_fragment_length
    BY <1>0, <1>4, <1>5, <2>1
  <2>3. CASE current = Len(chunks)
    <3>1. serialized_length = b + c
      BY <1>1, <2>3 DEF Clean
    <3>2. chunks[current] = c
      OBVIOUS
    <3> HIDE DEF b, c, F
    <3>3. this_fragment_length <= c - offset
      BY <1>0, <1>1, <1>6, <2>1, <3>1
    <3>4. consume_size <= c - offset
      BY <1>0, <1>1, <1>4, <2>2, <3>3
    <3>5. offset + consume_size <= c
      BY <1>0, <1>1, <1>4, <3>4
    <3> QED BY <1>4, <3>2, <3>5
  <2>4. CASE current # Len(chunks)
    <3>1. current \in 1..(Len(chunks) - 1) /\ number_of_pieces > 1
      BY <1>0, <2>4 DEF SeveralOK
    <3>2. (b % F) + c <= F \/ (b + c) % F = 0
      <4>1. ~((b % F) + c > F /\ (b + c) % F # 0)
        BY <1>1, <3>1 DEF Clean, RunsOver
      <4>2. (b % F) + c \in Nat
        <5> HIDE DEF b, c, F
        <5>1. b % F \in Nat
          BY <1>0, <1>1, DivMod
        <5> QED BY <1>1, <5>1
      <4> HIDE DEF b, c
      <4> QED BY <1>0, <4>1, <4>2
    <3>3. offset < c /\ chunks[current] = c
      OBVIOUS
    <3> HIDE DEF b, c, F
    <3>4. b + offset = fragment_index * F
      BY <1>3, <2>1
    <3>5. offset + F <= c
      <4>1. 0 < offset
        BY <1>0, <1>8
      <4> QED BY <1>0, <1>1, <3>2, <3>3, <3>4, <4>1, EndsInChunk
    <3>6. consume_size <= F
      BY <1>0, <1>4, <1>6, <2>2
    <3>7. offset + consume_size <= c
      BY <1>0, <1>1, <1>4, <3>5, <3>6
    <3> QED BY <1>4, <3>3, <3>7
  <2> QED BY <2>3, <2>4
<1> QED BY <1>7, <1>8, <1>4

AllOK == HeadersOK /\ SeveralOK /\ SingleOK /\ DoneOK

\* A fragment more on the wire, its header in order.
LEMMA HeadersMore ==
  ASSUME TypeInv, HeadersOK, NEW n \in Nat, NEW data \in Seq(Nat), Len(data) = n,
         transmitted' = Append(transmitted, Fragment(Len(transmitted), n, data)),
         \A i \in 2..Len(transmitted) : transmitted[i].length = fragment_length
  PROVE  /\ HeadersOK' /\ Len(transmitted') = Len(transmitted) + 1
         /\ transmitted'[Len(transmitted')].length = n
         /\ \A i \in 1..Len(transmitted) : transmitted'[i] = transmitted[i]
<1> DEFINE f == Fragment(Len(transmitted), n, data)
           m == Len(transmitted)
<1>1. m \in Nat /\ transmitted \in Seq(FragmentType) /\ DOMAIN transmitted = 1..m
  BY TypeInvHas, LenProperties
<1>2. f \in FragmentType /\ f.index = m /\ f.length = n /\ f.data = data
  <2>1. m \in Int
    BY <1>1
  <2> QED BY <2>1, FragmentHas
<1> HIDE DEF f
<1>3. /\ transmitted' \in Seq(FragmentType) /\ Len(transmitted') = m + 1
      /\ \A i \in 1..m : transmitted'[i] = transmitted[i]
      /\ transmitted'[m + 1] = f
  BY <1>1, <1>2, AppendProperties DEF f
<1>4. DOMAIN transmitted' = 1..(m + 1)
  BY <1>3, LenProperties
<1> HIDE DEF m
<1>5. ASSUME NEW i \in 1..(m + 1)
      PROVE  /\ transmitted'[i].index = i - 1
             /\ i > 1 => Len(transmitted'[i].data) = transmitted'[i].length
             /\ i \in 2..m => transmitted'[i].length = fragment_length
  <2>1. CASE i = m + 1
    BY <1>1, <1>2, <1>3, <2>1
  <2>2. CASE i # m + 1
    <3>1. i \in 1..m
      BY <1>1, <2>2
    <3>2. transmitted'[i] = transmitted[i]
      BY <1>3, <3>1
    <3>3. /\ transmitted[i].index = i - 1
          /\ i > 1 => Len(transmitted[i].data) = transmitted[i].length
      BY <1>1, <3>1 DEF HeadersOK
    <3>4. i \in 2..m => transmitted[i].length = fragment_length
      BY DEF m
    <3> QED BY <3>2, <3>3, <3>4
  <2> QED BY <2>1, <2>2
<1>6. HeadersOK'
  <2>1. \A i : i \in 2..(Len(transmitted') - 1) => i \in 2..m
    BY <1>1, <1>3
  <2> QED BY <1>4, <1>5, <2>1 DEF HeadersOK
<1> QED BY <1>2, <1>3, <1>6 DEF m

\* A turn of the loop, and the look at the buffer in front of it.
LEMMA AllIfFull ==
  ASSUME TypeInv, Clean, AllOK, pc \in {"chunk", "loop"}, current \in 1..Len(chunks),
         offset < chunks[current] \/ pc = "chunk",
         NEW data \in Seq(Nat), NEW place \in Nat, place <= chunks[current],
         serialized_offset + Len(data) = Before(current) + place,
         Wire \o data = Upto(serialized_offset + Len(data)),
         Len(data) <= this_fragment_length,
         Len(data) < this_fragment_length => place \in {0, chunks[current]},
         TransmitIfFull(data, place), UNCHANGED <<given, result>>,
         refused' = refused, number_of_pieces' = number_of_pieces, \A j : Before(j)' = Before(j)
  PROVE  AllOK'
<1> DEFINE F == fragment_length
           S == serialized_length
           T == this_fragment_length
           so == serialized_offset
           n == Len(data)
<1>0. /\ F \in Nat \ {0} /\ S \in Nat /\ T \in Nat /\ so \in Nat /\ so <= S /\ n \in Nat
      /\ fragment_index \in Nat /\ Wire \in Seq(Nat) /\ refused \in Nat
      /\ chunks' = chunks /\ S' = S /\ T <= S - so
      /\ transmitted \in Seq(FragmentType) /\ Len(transmitted) \in Nat
  BY TypeInvHas, LenProperties, ConstantsAssumption DEF given, TypeInv
<1>1. so + Len(buffer) < S /\ Len(buffer) < T /\ so = fragment_index * F
  BY InTheMessage DEF AllOK
<1>2. /\ number_of_pieces > 1 /\ Len(transmitted) = fragment_index + 1
      /\ T = Least(F, S - so) /\ HeadersOK
      /\ \A i \in 2..Len(transmitted) :
           transmitted[i].length = F \/ (so = S /\ i = Len(transmitted))
  BY DEF AllOK, SeveralOK
<1>3. so < S /\ 0 < T
  <2>1. Len(buffer) \in Nat
    BY TypeInvHas
  <2> QED BY <1>0, <1>1, <2>1
<1>4. \A i \in 2..Len(transmitted) : transmitted[i].length = F
  BY <1>0, <1>2, <1>3
<1>5. CASE Kept(data, place)
  <2>1. /\ pc' = "loop" /\ offset' = place /\ current' = current /\ buffer' = data
        /\ UNCHANGED <<this_fragment_length, serialized_offset, fragment_index, transmitted>>
    BY <1>5 DEF Kept, ContinueAt
  <2>2. n < T
    BY <1>0, <1>5 DEF Kept, IsFull
  <2>3. Wire' = Wire
    BY <2>1, WireSame
  <2>4. SeveralOK'
    BY <1>0, <1>1, <1>2, <1>4, <2>1, <2>2, <2>3 DEF SeveralOK, FullFragments
  <2> QED BY <1>2, <2>1, <2>4 DEF AllOK, SingleOK, DoneOK, HeadersOK
<1>6. CASE Emptied(data, data) /\ ContinueAt(place)
  <2> DEFINE f == Fragment(Len(transmitted), T, data)
  <2>1. n = T
    BY <1>0, <1>6 DEF Emptied, IsFull
  <2>2. /\ pc' = "loop" /\ offset' = place /\ current' = current /\ buffer' = <<>>
        /\ serialized_offset' = so + T /\ fragment_index' = fragment_index + 1
        /\ this_fragment_length' = Least(F, S - so - T)
        /\ transmitted' = Append(transmitted, f)
    BY <1>2, <1>6, <2>1 DEF Emptied, ContinueAt, LengthAfter
  <2>3. /\ HeadersOK' /\ Len(transmitted') = Len(transmitted) + 1
        /\ transmitted'[Len(transmitted')].length = T
        /\ \A i \in 1..Len(transmitted) : transmitted'[i] = transmitted[i]
    BY <1>0, <1>2, <1>4, <2>1, <2>2, HeadersMore
  <2>4. Wire' = Wire \o data
    <3>1. f \in FragmentType /\ f.data = data
      BY <1>0, FragmentHas
    <3> HIDE DEF f
    <3> QED BY <2>2, <3>1, WireAppends
  <2>5. Wire' \o buffer' = Upto(so + T) /\ Len(buffer') = 0
    <3>1. Wire' \in Seq(Nat)
      BY <1>0, <2>4, Concats
    <3> QED BY <2>1, <2>2, <2>4, <3>1, Concats, EmptySeq
  <2>6. T = F \/ (T = S - so /\ T <= F)
    BY <1>0, <1>2 DEF Least
  <2>7. (fragment_index + 1) * F = so + F
    BY <1>0, <1>1
  <2>8. FullFragments'
    <3> DEFINE next == (fragment_index + 1) * F
    <3>1. next = so + F /\ ((fragment_index + 1) - 1) * F = so
      <4>1. (fragment_index + 1) - 1 = fragment_index
        BY <1>0
      <4> QED BY <1>1, <2>7, <4>1
    <3> HIDE DEF next
    <3>2. CASE T = F
      <4>1. so + T = next
        BY <3>1, <3>2
      <4> QED BY <2>2, <4>1 DEF FullFragments, next
    <3>3. CASE T = S - so /\ T <= F
      <4>1. so + T = S /\ S <= next /\ so < S /\ fragment_index + 1 > 0
        BY <1>0, <1>3, <3>1, <3>3
      <4> QED BY <1>0, <2>2, <3>1, <4>1 DEF FullFragments, next
    <3> QED BY <2>6, <3>2, <3>3
  <2>9. T = F \/ so + T = S
    BY <1>0, <2>6
  <2>10. ASSUME NEW i \in 2..Len(transmitted')
         PROVE  transmitted'[i].length = F \/ (so + T = S /\ i = Len(transmitted'))
    <3>1. CASE i = Len(transmitted')
      BY <2>3, <2>9, <3>1
    <3>2. CASE i # Len(transmitted')
      <4>1. i \in 2..Len(transmitted) /\ i \in 1..Len(transmitted)
        BY <1>0, <2>3, <3>2
      <4> QED BY <1>4, <2>3, <4>1
    <3> QED BY <3>1, <3>2
  <2>11. S - so - T \in Nat /\ S - (so + T) = S - so - T
    BY <1>0
  <2>12. Len(buffer') < this_fragment_length' \/ this_fragment_length' = 0
    BY <1>0, <2>2, <2>5, <2>11 DEF Least
  <2>13. SeveralOK'
    <3>1. so + T + 0 = so + T
      BY <1>0
    <3>2. Before(current)' + offset' = so + T
      BY <2>1, <2>2
    <3> HIDE DEF f
    <3> QED BY <1>0, <1>2, <2>2, <2>3, <2>5, <2>8, <2>10, <2>11, <2>12, <3>1, <3>2 DEF SeveralOK
  <2> QED BY <2>2, <2>3, <2>13 DEF AllOK, SingleOK, DoneOK
<1>7. ~HeaderRefused(data) /\ ~(Emptied(data, <<>>) /\ Refuses)
  BY <1>0 DEF HeaderRefused, Refuses
<1> QED BY <1>5, <1>6, <1>7, TransmitIfFullIs

LEMMA AllStart ==
  ASSUME TypeInv, TransmitHeader \/ TransmitFirst, refused' = refused, refused = 0,
         number_of_pieces' = number_of_pieces, \A j : Before(j)' = Before(j)
  PROVE  AllOK'
<1>0. fragment_length \in Nat \ {0} /\ 1 > 0 /\ <<>> \in Seq(Nat) /\ Len(<<>>) = 0
  BY ConstantsAssumption, EmptySeq
<1>1. /\ pc = "start" /\ current' = 1 /\ offset' = 0 /\ buffer' = <<>> /\ chunks' = chunks
      /\ serialized_length' = serialized_length /\ serialized_length \in Nat /\ chunks \in Sizes
      /\ serialized_offset' = 0 /\ fragment_index' = 0 /\ this_fragment_length' = fragment_length
  BY TypeInvHas DEF TypeInv, TransmitHeader, TransmitFirst, given
<1> DEFINE f == Fragment(0, serialized_length, <<>>)
<1>2. f \in FragmentType /\ f.index = 0 /\ f.length = serialized_length /\ f.data = <<>>
  BY <1>0, <1>1 DEF Fragment, FragmentType
<1>3. transmitted' = <<f>>
  <2>1. refused \in Nat /\ ~Refuses
    BY DEF Refuses
  <2> QED BY <2>1 DEF TransmitHeader, TransmitFirst
<1> HIDE DEF f
<1>4. Wire' = <<>> /\ Len(transmitted') = 1 /\ transmitted'[1] = f /\ DOMAIN transmitted' = {1}
  <2>1. Wire' = <<>>
    BY <1>2, <1>3, WireBegins
  <2>2. Len(transmitted') = 1 /\ transmitted'[1] = f /\ DOMAIN transmitted' = 1..1
    BY <1>3
  <2> QED BY <2>1, <2>2
<1>5. HeadersOK'
  BY <1>2, <1>4 DEF HeadersOK
<1>6. Before(current)' = 0 /\ Upto(0) = <<>>
  <2>1. Before(1) = 0
    BY <1>1, BeforeIs
  <2> QED BY <1>1, <2>1, UptoNone DEF Before
<1>7. CASE TransmitHeader
  BY <1>1, <1>2, <1>4, <1>5, <1>6, <1>7 DEF TransmitHeader, AllOK, SeveralOK, SingleOK, DoneOK
<1>8. CASE TransmitFirst
  <2>1. pc' = "chunk" /\ number_of_pieces > 1
    BY <1>8 DEF TransmitFirst
  <2>2. fragment_length < serialized_length
    BY <1>0, <1>1, <2>1, PiecesAre
  <2>3. Least(fragment_length, serialized_length' - serialized_offset') = fragment_length
    BY <1>0, <1>1, <2>2 DEF Least
  <2>4. Wire' \o buffer' = <<>> /\ Len(buffer') = 0
    BY <1>0, <1>1, <1>4, Concats
  <2>5. FullFragments'
    <3>1. 0 = 0 * fragment_length
      BY <1>0
    <3> QED BY <1>1, <3>1 DEF FullFragments
  <2>6. ~ \E i \in 2..Len(transmitted') : TRUE
    BY <1>4
  <2>7. serialized_offset' + Len(buffer') = 0 /\ serialized_offset' + Len(buffer') = Before(current)' + offset'
    BY <1>1, <1>6, <2>4
  <2>8. SeveralOK'
    BY <1>0, <1>1, <1>4, <1>6, <2>1, <2>3, <2>4, <2>5, <2>6, <2>7 DEF SeveralOK
  <2> QED BY <1>5, <2>1, <2>8 DEF AllOK, SingleOK, DoneOK
<1> QED BY <1>7, <1>8

LEMMA AllSingle ==
  ASSUME TypeInv, AllOK, TransmitChunk, refused' = refused,
         number_of_pieces' = number_of_pieces, \A j : Before(j)' = Before(j)
  PROVE  AllOK'
<1> DEFINE bytes == Bytes(current, 1, chunks[current])
<1>1. /\ pc = "single" /\ pc' = "single" /\ chunks' = chunks /\ chunks \in Sizes
      /\ current \in 1..Len(chunks) /\ current' = current + 1 /\ chunks[current] \in Nat
      /\ Before(current + 1) = Before(current) + chunks[current] /\ Before(current) \in Nat
      /\ serialized_length' = serialized_length /\ refused \in Nat
  BY TypeInvHas, BeforeIs, ConstantsAssumption, SMTT(20) DEF TransmitChunk, given
<1>2. /\ Wire' = Wire \o bytes /\ transmitted'[1].index = transmitted[1].index
      /\ transmitted'[1].length = transmitted[1].length /\ transmitted' = <<transmitted'[1]>>
  <2>1. ~Refuses
    BY <1>1 DEF Refuses
  <2> QED BY <2>1, SingleIs
<1>3. /\ number_of_pieces = 1 /\ Wire = Upto(Before(current))
      /\ transmitted[1].length = serialized_length /\ HeadersOK
      /\ Len(transmitted) = 1 /\ transmitted \in Seq(FragmentType)
  BY <1>1 DEF AllOK, SingleOK, TypeInv
<1>4. Wire' = Upto(Before(current + 1))
  <2>1. Upto(Before(current) + 0) \o Bytes(current, 0 + 1, chunks[current])
          = Upto(Before(current) + 0 + chunks[current])
    <3>1. 0 + chunks[current] <= chunks[current] /\ 0 \in Nat
      BY <1>1
    <3> QED BY <1>1, <3>1, UptoBytes
  <2>2. Before(current) + 0 = Before(current) /\ 0 + 1 = 1
    BY <1>1
  <2> QED BY <1>1, <1>2, <1>3, <2>1, <2>2
<1>5. DOMAIN transmitted' = {1} /\ Len(transmitted') = 1
  <2>1. DOMAIN <<transmitted'[1]>> = 1..1 /\ Len(<<transmitted'[1]>>) = 1
    OBVIOUS
  <2> QED BY <1>2, <2>1
<1>6. transmitted[1].index = 0
  <2>1. 1 \in DOMAIN transmitted
    BY <1>3
  <2> QED BY <1>3, <2>1 DEF HeadersOK
<1>7. HeadersOK'
  BY <1>2, <1>5, <1>6 DEF HeadersOK
<1>8. Before(current)' = Before(current + 1)
  BY <1>1 DEF Before
<1> QED BY <1>1, <1>2, <1>3, <1>4, <1>7, <1>8 DEF AllOK, SeveralOK, SingleOK, DoneOK

LEMMA AllConsume ==
  ASSUME TypeInv, Clean, AllOK, ConsumeBytes, refused' = refused,
         number_of_pieces' = number_of_pieces, \A j : Before(j)' = Before(j)
  PROVE  AllOK'
<1> DEFINE bytes == Bytes(current, offset + 1, consume_size)
           data == buffer \o bytes
           place == offset + consume_size
<1>1. /\ pc = "loop" /\ pc \in {"chunk", "loop"} /\ current \in 1..Len(chunks)
      /\ offset < chunks[current] /\ offset \in Nat /\ TransmitIfFull(data, place)
      /\ UNCHANGED <<given, result>> /\ chunks \in Sizes /\ Wire \in Seq(Nat)
      /\ buffer \in Seq(Nat) /\ Len(buffer) \in Nat /\ serialized_offset \in Nat
      /\ this_fragment_length \in Nat
  BY TypeInvHas, ConstantsAssumption DEF ConsumeBytes, TypeInv
<1>2. chunks[current] \in Nat /\ Before(current) \in Nat
  BY <1>1, BeforeIs
<1>3. consume_size \in Nat /\ offset + consume_size <= chunks[current]
  BY <1>1, ConsumeFits DEF AllOK
<1>4. /\ data \in Seq(Nat) /\ bytes \in Seq(Nat) /\ Len(data) = Len(buffer) + consume_size
      /\ Len(data) <= this_fragment_length
      /\ consume_size = Least(chunks[current], this_fragment_length - Len(buffer))
  BY <1>1, ConsumeIs
<1>5. /\ Wire \o buffer = Upto(serialized_offset + Len(buffer))
      /\ serialized_offset + Len(buffer) = Before(current) + offset
  BY <1>1 DEF AllOK, SeveralOK
<1> DEFINE n == consume_size
<1>6. Wire \o data = Upto(serialized_offset + Len(data))
        /\ serialized_offset + Len(data) = Before(current) + place
  <2>1. (Wire \o buffer) \o bytes = Upto(Before(current) + offset + n)
    <3>1. Upto(Before(current) + offset) \o Bytes(current, offset + 1, n)
            = Upto(Before(current) + offset + n)
      BY <1>1, <1>3, UptoBytes
    <3> QED BY <1>5, <3>1
  <2> HIDE DEF bytes, n
  <2>2. (Wire \o buffer) \o bytes = Wire \o (buffer \o bytes)
    <3>1. Wire \in Seq(Nat) /\ buffer \in Seq(Nat) /\ bytes \in Seq(Nat)
      BY <1>1, <1>4
    <3> QED BY <3>1, ConcatsThree, Zenon
  <2>3. serialized_offset + Len(data) = Before(current) + offset + n
    <3> HIDE DEF data
    <3> QED BY <1>1, <1>2, <1>3, <1>4, <1>5 DEF n
  <2>4. Before(current) + offset + n = Before(current) + (offset + n)
    BY <1>1, <1>2, <1>3 DEF n
  <2> QED BY <2>1, <2>2, <2>3, <2>4 DEF n
<1>7. Len(data) < this_fragment_length => place \in {0, chunks[current]}
  <2> SUFFICES ASSUME Len(data) < this_fragment_length PROVE place = chunks[current]
    OBVIOUS
  <2> HIDE DEF data
  <2>1. consume_size = chunks[current]
    BY <1>1, <1>2, <1>3, <1>4 DEF Least
  <2> QED BY <1>1, <1>2, <1>3, <2>1
<1>8. place \in Nat
  BY <1>1, <1>3
<1> HIDE DEF data, bytes
<1> QED BY <1>1, <1>3, <1>4, <1>6, <1>7, <1>8, AllIfFull

LEMMA AllEnter ==
  ASSUME TypeInv, Clean, AllOK, EnterChunk, refused' = refused,
         number_of_pieces' = number_of_pieces, \A j : Before(j)' = Before(j)
  PROVE  AllOK'
<1>1. /\ pc = "chunk" /\ pc \in {"chunk", "loop"} /\ current \in 1..Len(chunks) /\ 0 \in Nat
      /\ TransmitIfFull(buffer, 0) /\ UNCHANGED <<given, result>> /\ buffer \in Seq(Nat)
      /\ Len(buffer) <= this_fragment_length /\ 0 <= chunks[current]
  BY TypeInvHas, PlaceIs DEF EnterChunk
<1>2. /\ serialized_offset + Len(buffer) = Before(current) + 0
      /\ Wire \o buffer = Upto(serialized_offset + Len(buffer))
  BY <1>1 DEF AllOK, SeveralOK
<1> QED BY <1>1, <1>2, AllIfFull

LEMMA AllLeave ==
  ASSUME TypeInv, Clean, AllOK, LeaveChunk, refused' = refused,
         number_of_pieces' = number_of_pieces, \A j : Before(j)' = Before(j)
  PROVE  AllOK'
<1>1. /\ pc = "loop" /\ pc' = "chunk" /\ offset' = 0 /\ current' = current + 1
      /\ chunks' = chunks /\ serialized_length' = serialized_length
      /\ UNCHANGED <<buffer, this_fragment_length, serialized_offset, fragment_index, transmitted>>
      /\ current \in 1..Len(chunks) /\ offset >= chunks[current] /\ offset \in Nat
      /\ chunks \in Sizes
  BY TypeInvHas DEF LeaveChunk, GiveUpChunk, given, TypeInv
<1>2. /\ Before(current + 1) = Before(current) + chunks[current] /\ chunks[current] \in Nat
      /\ Before(current) \in Nat
  BY <1>1, BeforeIs
<1>3. offset = chunks[current]
  BY <1>1, <1>2 DEF AllOK, SeveralOK
<1>4. Before(current)' = Before(current + 1) /\ Wire' = Wire
  BY <1>1, WireSame DEF Before
<1>5. Before(current) + offset = Before(current)' + offset'
  BY <1>1, <1>2, <1>3, <1>4
<1>6. SeveralOK'
  BY <1>1, <1>4, <1>5 DEF AllOK, SeveralOK, FullFragments
<1> QED BY <1>1, <1>6 DEF AllOK, SingleOK, DoneOK, HeadersOK

LEMMA AllReturnTrue ==
  ASSUME TypeInv, Clean, AllOK, ReturnTrue, number_of_pieces' = number_of_pieces
  PROVE  AllOK'
<1>1. /\ pc = "single" /\ pc' = "done" /\ current > Len(chunks)
      /\ UNCHANGED <<transmitted, serialized_length>> /\ Len(transmitted) = 1
      /\ current = Len(chunks) + 1
  BY TypeInvHas DEF ReturnTrue, given, TypeInv
<1>2. Wire' = Wire
  BY <1>1, WireSame
<1>3. Wire = Upto(serialized_length) /\ number_of_pieces = 1
      /\ transmitted[1].length = serialized_length
  BY <1>1 DEF AllOK, SingleOK, Clean
<1> QED BY <1>1, <1>2, <1>3 DEF AllOK, SeveralOK, SingleOK, DoneOK, HeadersOK

LEMMA AllReturnFalse ==
  ASSUME TypeInv, Clean, AllOK, ReturnFalse, number_of_pieces' = number_of_pieces
  PROVE  AllOK'
<1> DEFINE F == fragment_length
           S == serialized_length
           T == this_fragment_length
           so == serialized_offset
           q == fragment_index
<1>1. /\ pc = "chunk" /\ pc' = "done" /\ current = Len(chunks) + 1
      /\ UNCHANGED <<transmitted, serialized_length>>
      /\ so \in Nat /\ so <= S /\ S \in Nat /\ Len(buffer) \in Nat /\ q \in Nat
      /\ F \in Nat \ {0} /\ Wire \in Seq(Nat)
  <2>1. /\ pc = "chunk" /\ pc' = "done" /\ current > Len(chunks)
        /\ UNCHANGED <<transmitted, serialized_length>>
    BY DEF ReturnFalse, given
  <2>2. current \in 1..(Len(chunks) + 1) /\ Len(chunks) \in Nat
    BY TypeInvHas
  <2>3. current = Len(chunks) + 1
    BY <2>1, <2>2
  <2>4. so \in Nat /\ so <= S /\ S \in Nat
    BY TypeInvHas
  <2>5. Len(buffer) \in Nat /\ q \in Nat /\ F \in Nat \ {0} /\ Wire \in Seq(Nat)
    BY TypeInvHas, ConstantsAssumption
  <2> QED BY <2>1, <2>3, <2>4, <2>5
<1>2. /\ number_of_pieces > 1 /\ Wire \o buffer = Upto(so + Len(buffer))
      /\ so + Len(buffer) = Before(current) + offset /\ offset = 0
      /\ Len(transmitted) = q + 1 /\ T = Least(F, S - so)
      /\ Len(buffer) < T \/ (T = 0 /\ buffer = <<>>)
      /\ FullFragments
  BY <1>1 DEF AllOK, SeveralOK
<1>3. Before(current) = S
  BY <1>1 DEF Clean
<1>4. Len(buffer) = S - so
  BY <1>1, <1>2, <1>3
<1>5. T = 0 /\ buffer = <<>> /\ Len(buffer) = 0
  <2>1. T <= Len(buffer) /\ T \in Int
    BY <1>1, <1>2, <1>4, LeastIs
  <2>2. T = 0 /\ buffer = <<>>
    BY <1>1, <1>2, <2>1
  <2> QED BY <2>2, EmptySeq
<1>6. so = S /\ so + Len(buffer) = S
  BY <1>1, <1>4, <1>5
<1>7. Wire = Upto(S)
  <2>1. Wire \o buffer = Wire
    BY <1>1, <1>5, Concats
  <2> QED BY <1>2, <1>6, <2>1
<1>8. F < S
  BY <1>1, <1>2, PiecesAre
<1>9. q > 0 /\ (q - 1) * F < S /\ S <= q * F
  <2>1. CASE so = q * F
    <3>1. S = q * F
      BY <1>6, <2>1
    <3>2. q # 0
      <4> SUFFICES ASSUME q = 0 PROVE FALSE
        OBVIOUS
      <4>1. q * F = 0
        BY <1>1
      <4> QED BY <1>1, <1>8, <3>1, <4>1
    <3>3. q * F = (q - 1) * F + F
      <4>1. q = (q - 1) + 1 /\ q - 1 \in Nat
        BY <1>1, <3>2
      <4> QED BY <1>1, <4>1
    <3>4. (q - 1) * F \in Nat
      <4>1. q - 1 \in Nat
        BY <1>1, <3>2
      <4> QED BY <1>1, <4>1, ProductIsNat
    <3> DEFINE x == (q - 1) * F
    <3>5. x \in Nat /\ S = x + F
      BY <3>1, <3>3, <3>4
    <3>6. S <= q * F
      BY <1>1, <3>1
    <3> HIDE DEF x
    <3>7. x < S
      BY <1>1, <3>5
    <3> QED BY <1>1, <3>2, <3>6, <3>7 DEF x
  <2>2. CASE so # q * F
    BY <1>2, <2>2 DEF FullFragments
  <2> QED BY <2>1, <2>2
<1>10. number_of_pieces = q
  BY <1>1, <1>9, CountIs
<1>11. Wire' = Wire
  BY <1>1, WireSame
<1>12. DoneOK'
  BY <1>1, <1>2, <1>7, <1>10, <1>11 DEF DoneOK
<1> QED BY <1>1, <1>12 DEF AllOK, SeveralOK, SingleOK, HeadersOK

LEMMA CleanTransmit ==
  ASSUME TypeInv, CleanOK, Transmit
  PROVE  CleanOK'
<1>1. SUFFICES ASSUME Clean' PROVE AllOK'
  BY DEF CleanOK, AllOK
<1>2. UNCHANGED given
  BY DEF Transmit, TransmitHeader, TransmitChunk, ReturnTrue, TransmitFirst, EnterChunk,
         ConsumeBytes, LeaveChunk, ReturnFalse
<1>3. refused' \in {refused, refused + 1}
  <2>1. CASE EnterChunk
    BY <2>1, TransmitIfFullIs DEF EnterChunk, Kept, HeaderRefused, Refuses
  <2>2. CASE ConsumeBytes
    BY <2>2, TransmitIfFullIs DEF ConsumeBytes, Kept, HeaderRefused, Refuses
  <2>3. CASE ~EnterChunk /\ ~ConsumeBytes
    BY <2>3 DEF Transmit, TransmitHeader, TransmitChunk, ReturnTrue, TransmitFirst, LeaveChunk,
                ReturnFalse, Accepts, Refuses
  <2> QED BY <2>1, <2>2, <2>3
<1>4. /\ Clean /\ refused' = refused /\ number_of_pieces' = number_of_pieces
      /\ \A j : Before(j)' = Before(j)
  BY <1>1, <1>2, <1>3, CleanBefore
<1>5. AllOK /\ refused = 0
  BY <1>4 DEF CleanOK, AllOK, Clean
<1> QED BY <1>4, <1>5, AllStart, AllSingle, AllConsume, AllEnter, AllLeave, AllReturnTrue,
           AllReturnFalse DEF Transmit

LEMMA CleanNew ==
  ASSUME transmitted' = <<>>, pc' \in {"idle", "start"}
  PROVE  CleanOK'
<1>1. DOMAIN transmitted' = {}
  BY EmptySeq
<1> QED BY <1>1 DEF CleanOK, HeadersOK, SeveralOK, SingleOK, DoneOK

LEMMA CleanInit ==
  ASSUME Init
  PROVE  CleanOK
<1>1. transmitted = <<>> /\ pc = "idle"
  BY DEF Init, TransmitterInit
<1>2. DOMAIN transmitted = {}
  BY <1>1, EmptySeq
<1> QED BY <1>1, <1>2 DEF CleanOK, HeadersOK, SeveralOK, SingleOK, DoneOK

LEMMA CleanSent ==
  ASSUME TypeInv, CleanOK, Sent
  PROVE  CleanOK'
<1>1. SUFFICES ASSUME Clean' PROVE AllOK'
  BY DEF CleanOK, AllOK
<1>2. /\ pc' = "idle" /\ UNCHANGED given /\ refused' \in {refused, refused + 1}
      /\ UNCHANGED transmitted
  BY DEF Sent
<1>3. Clean
  BY <1>1, <1>2, CleanBefore
<1>4. HeadersOK'
  BY <1>2, <1>3 DEF CleanOK, HeadersOK
<1> QED BY <1>2, <1>4 DEF AllOK, SeveralOK, SingleOK, DoneOK

LEMMA CleanSame ==
  ASSUME CleanOK, UNCHANGED transmission
  PROVE  CleanOK'
<1>1. UNCHANGED <<chunks, serialized_length, pc, current, offset, buffer, this_fragment_length,
                  serialized_offset, fragment_index, transmitted, result, refused>>
  BY DEF transmission, given
<1>2. Clean' <=> Clean
  BY <1>1 DEF Clean, RunsOver, Before, number_of_pieces, FragmentsForLength
<1>3. /\ HeadersOK => HeadersOK'
      /\ SingleOK => SingleOK'
      /\ DoneOK => DoneOK'
  BY <1>1 DEF HeadersOK, SingleOK, DoneOK, Wire, Before, number_of_pieces, FragmentsForLength
<1>4. SeveralOK => SeveralOK'
  BY <1>1 DEF SeveralOK, FullFragments, Wire, Before, number_of_pieces, FragmentsForLength
<1> QED BY <1>2, <1>3, <1>4 DEF CleanOK

\* The inductive invariant: the message and the locals of TransmitMessage have their
\* types, the bytes on the wire and in the buffer are in order, and, as long as nobody has
\* refused and no chunk runs over its fragment, they are all bytes up to the place.
Inv == MessageInv /\ TypeInv /\ RisingOK /\ CleanOK

\* Every variable of the message and of the transmitter keeps its type, whatever is built
\* and sent, and the buffer never outgrows its fragment.
THEOREM SendingTypes == Spec => []TypeOK
<1>1. Init => MessageInv /\ TypeInv
  BY SendingAssumption, MessageInvInit, TypeInit
<1>2. MessageInv /\ TypeInv /\ [Next]_vars => (MessageInv /\ TypeInv)'
  <2> SUFFICES ASSUME MessageInv, TypeInv, [Next]_vars PROVE (MessageInv /\ TypeInv)'
    OBVIOUS
  <2>1. CASE Build
    <3>1. UNCHANGED transmission
      BY <2>1 DEF Build
    <3> QED BY <2>1, <3>1, SendingAssumption, MessageInvBuild, TypeSame
  <2>2. CASE Send
    BY <2>2, SendingAssumption, MessageInvSend, TypeSend
  <2>3. CASE Sent
    <3>1. UNCHANGED <<message, sends>> /\ UNCHANGED transmitted
      BY <2>3 DEF Sent
    <3> QED BY <2>3, <3>1, MessageInvSame, TypeEnd
  <2>4. CASE Transmit /\ UNCHANGED <<message, sends>>
    BY <2>4, MessageInvSame, TypeTransmit
  <2>5. CASE UNCHANGED vars
    <3>1. UNCHANGED <<message, sends>> /\ UNCHANGED transmission
      BY <2>5 DEF vars
    <3> QED BY <3>1, MessageInvSame, TypeSame
  <2> QED BY <2>1, <2>2, <2>3, <2>4, <2>5 DEF Next
<1>3. MessageInv /\ TypeInv => TypeOK
  BY DEF MessageInv, TypeInv, TypeOK
<1> QED BY <1>1, <1>2, <1>3, PTL DEF Spec

LEMMA InvInit == Init => Inv
  BY SendingAssumption, MessageInvInit, TypeInit, RisingInit, CleanInit DEF Inv

LEMMA InvNext == Inv /\ [Next]_vars => Inv'
<1> SUFFICES ASSUME MessageInv, TypeInv, RisingOK, CleanOK, [Next]_vars
             PROVE  MessageInv' /\ TypeInv' /\ RisingOK' /\ CleanOK'
  BY DEF Inv
<1>1. CASE Build
  <2>1. UNCHANGED transmission
    BY <1>1 DEF Build
  <2> QED BY <1>1, <2>1, SendingAssumption, MessageInvBuild, TypeSame, RisingSame, CleanSame
<1>2. CASE Send
  <2>1. /\ pc' = "start" /\ transmitted' = <<>> /\ chunks' \in Sizes /\ current' = 1
        /\ buffer' = <<>>
    BY <1>2, SendingAssumption, SendIs
  <2>2. pc' # "loop" /\ pc' \in {"idle", "start"}
    BY <2>1
  <2> QED BY <1>2, <2>1, <2>2, SendingAssumption, MessageInvSend, TypeSend, RisingNew, CleanNew
<1>3. CASE Sent
  <2>1. UNCHANGED <<message, sends>> /\ UNCHANGED transmitted
    BY <1>3 DEF Sent
  <2> QED BY <1>3, <2>1, MessageInvSame, TypeEnd, RisingEnd, CleanSent
<1>4. CASE Transmit /\ UNCHANGED <<message, sends>>
  BY <1>4, MessageInvSame, TypeTransmit, RisingTransmit, CleanTransmit
<1>5. CASE UNCHANGED vars
  <2>1. UNCHANGED <<message, sends>> /\ UNCHANGED transmission
    BY <1>5 DEF vars
  <2> QED BY <2>1, MessageInvSame, TypeSame, RisingSame, CleanSame
<1> QED BY <1>1, <1>2, <1>3, <1>4, <1>5 DEF Next

LEMMA CleanHeaders ==
  ASSUME TypeInv, CleanOK
  PROVE  HeadersMatchData
<1> SUFFICES ASSUME Clean, NEW i \in DOMAIN transmitted
    PROVE  /\ transmitted[i].index = i - 1
           /\ (i > 1 \/ (pc = "done" /\ number_of_pieces = 1)) =>
                Len(transmitted[i].data) = transmitted[i].length
           /\ i \in 2..(Len(transmitted) - 1) => transmitted[i].length = fragment_length
           /\ pc = "done" /\ number_of_pieces > 1 => Len(transmitted) = number_of_pieces + 1
  BY DEF HeadersMatchData, Clean
<1>1. HeadersOK /\ DoneOK
  BY DEF CleanOK
<1>2. ASSUME ~(i > 1), pc = "done", number_of_pieces = 1
      PROVE  Len(transmitted[i].data) = transmitted[i].length
  <2>1. Len(transmitted) = 1 /\ transmitted[1].length = serialized_length
        /\ Wire = Upto(serialized_length)
    BY <1>1, <1>2 DEF DoneOK
  <2>2. transmitted \in Seq(FragmentType) /\ serialized_length \in Nat
    BY TypeInvHas
  <2>3. 1 \in 1..Len(transmitted) /\ i = 1
    BY <1>2, <2>1, <2>2
  <2>4. transmitted[1] \in FragmentType
    BY <2>2, <2>3, ElementOfSeq
  <2>5. transmitted = <<transmitted[1]>>
    BY <2>1, <2>2, <2>4, OnlyOne
  <2>6. Wire = transmitted[1].data
    BY <2>4, <2>5, WireBegins
  <2> QED BY <2>1, <2>2, <2>3, <2>6, UptoIs
<1> QED BY <1>1, <1>2 DEF HeadersOK, DoneOK

\* The state of a sending is consistent, and as long as nobody refuses and no chunk runs over
\* its fragment the headers tell the truth: SendingInv, of the loops and callbacks of
\* TransmitMessage, for every size of a fragment and every message.
THEOREM HeadersCorrect == Spec => []SendingInv
<1>1. Inv => SendingInv
  BY CleanHeaders DEF Inv, SendingInv, TypeOK, MessageInv, TypeInv
<1> QED BY <1>1, InvInit, InvNext, PTL DEF Spec

\* However the transport refuses, no byte of a message goes to the wire twice and none
\* overtakes another.
THEOREM NothingRepeated == Spec => []NothingIsRepeated
<1>1. Inv => NothingIsRepeated
  BY RisingWire DEF Inv
<1> QED BY <1>1, InvInit, InvNext, PTL DEF Spec

-----------------------------------------------------------------------------
(* Sequences of sequences *)

\* Concatenation is associative.
Join(x, y) == x \o y

LEMMA Associates == \A T : \A x, y, z \in Seq(T) : Join(Join(x, y), z) = Join(x, Join(y, z))
<1> SUFFICES ASSUME NEW T, NEW x \in Seq(T), NEW y \in Seq(T), NEW z \in Seq(T)
             PROVE  Join(Join(x, y), z) = Join(x, Join(y, z))
  OBVIOUS
<1> QED BY ConcatAssociative, SMTT(60) DEF Join

\* Joining two sequences of sequences one after the other.
LEMMA FlattenConcat ==
  ASSUME NEW S, NEW a \in Seq(Seq(S)), NEW b \in Seq(Seq(S))
  PROVE  FlattenSeq(a \o b) = FlattenSeq(a) \o FlattenSeq(b)
<1> DEFINE joins(c) == FlattenSeq(a \o c) = FlattenSeq(a) \o FlattenSeq(c)
           done == {n \in Nat : \A c \in Seq(Seq(S)) : Len(c) = n => joins(c)}
<1>0. FlattenSeq(a) \in Seq(S)
  BY FlattenIsSeq
<1>j. \A x, y, z \in Seq(S) : (x \o y) \o z = x \o (y \o z)
  <2> SUFFICES ASSUME NEW x \in Seq(S), NEW y \in Seq(S), NEW z \in Seq(S)
               PROVE  Join(Join(x, y), z) = Join(x, Join(y, z))
    BY Zenon DEF Join
  <2> QED BY Associates
<1>1. 0 \in done
  <2>1. ASSUME NEW c \in Seq(Seq(S)), Len(c) = 0 PROVE joins(c)
    <3>1. c = <<>>
      BY <2>1, EmptySeq
    <3>2. a \o c = a /\ FlattenSeq(c) = <<>>
      BY <3>1, FlattenEmpty, ConcatEmptySeq
    <3> QED BY <1>0, <3>2, ConcatEmptySeq
  <2> HIDE DEF joins
  <2> QED BY <2>1
<1>2. ASSUME NEW n \in Nat, n \in done PROVE n + 1 \in done
  <2>1. ASSUME NEW c \in Seq(Seq(S)), Len(c) = n + 1 PROVE joins(c)
    <3>1. c # <<>>
      BY <2>1, EmptySeq
    <3>2. PICK f \in Seq(Seq(S)), s \in Seq(S) : c = Append(f, s)
      BY <3>1, SequenceEmptyOrAppend
    <3>3. Len(f) = n
      <4>1. Len(c) = Len(f) + 1 /\ Len(f) \in Nat
        BY <3>2, AppendProperties, LenProperties
      <4> QED BY <2>1, <4>1
    <3>4. joins(f)
      <4> HIDE DEF joins
      <4> QED BY <1>2, <3>3
    <3>5. FlattenSeq(f) \in Seq(S) /\ a \o f \in Seq(Seq(S))
      BY FlattenIsSeq, ConcatProperties
    <3>6. a \o c = Append(a \o f, s)
      <4>1. c = f \o <<s>> /\ Append(a \o f, s) = (a \o f) \o <<s>>
        BY <3>2, <3>5, AppendIsConcat
      <4>2. PICK one \in Seq(Seq(S)) : one = <<s>>
        <5>1. <<s>> \in Seq(Seq(S))
          OBVIOUS
        <5> QED BY <5>1
      <4>3. (a \o f) \o one = a \o (f \o one)
        <5>1. Join(Join(a, f), one) = Join(a, Join(f, one))
          BY Associates
        <5> QED BY <5>1, Zenon DEF Join
      <4> QED BY <4>1, <4>2, <4>3
    <3>7. FlattenSeq(Append(a \o f, s)) = FlattenSeq(a \o f) \o s
      BY <3>5, FlattenAppend
    <3>8. FlattenSeq(c) = FlattenSeq(f) \o s
      BY <3>2, FlattenAppend
    <3>9. (FlattenSeq(a) \o FlattenSeq(f)) \o s = FlattenSeq(a) \o (FlattenSeq(f) \o s)
      BY <1>0, <1>j, <3>5
    <3> QED BY <3>4, <3>6, <3>7, <3>8, <3>9
  <2> HIDE DEF joins
  <2> QED BY <2>1
<1>3. Nat \subseteq done
  <2> HIDE DEF done
  <2> QED BY <1>1, <1>2, NatSetInduction
<1>4. Len(b) \in Nat
  BY LenProperties
<1>5. joins(b)
  <2> HIDE DEF joins
  <2> QED BY <1>3, <1>4
<1> QED BY <1>5

LEMMA FlattenOne ==
  ASSUME NEW S, NEW s \in Seq(S)
  PROVE  FlattenSeq(<<s>>) = s /\ <<s>> \in Seq(Seq(S))
<1>1. <<>> \in Seq(Seq(S)) /\ <<s>> = Append(<<>>, s)
  BY EmptySeq
<1>2. FlattenSeq(Append(<<>>, s)) = FlattenSeq(<<>>) \o s
  BY <1>1, FlattenAppend
<1>3. <<s>> \in Seq(Seq(S))
  OBVIOUS
<1> QED BY <1>1, <1>2, <1>3, FlattenEmpty, ConcatEmptySeq

LEMMA FlattenTwo ==
  ASSUME NEW S, NEW s \in Seq(S), NEW t \in Seq(S)
  PROVE  FlattenSeq(<<s, t>>) = s \o t
<1>1. <<s>> \in Seq(Seq(S)) /\ <<s, t>> = Append(<<s>>, t)
  OBVIOUS
<1>2. FlattenSeq(Append(<<s>>, t)) = FlattenSeq(<<s>>) \o t
  BY <1>1, FlattenAppend
<1> QED BY <1>1, <1>2, FlattenOne

\* The sequence of what each of them joins to.
EachJoined(seqs) == [i \in DOMAIN seqs |-> FlattenSeq(seqs[i])]

LEMMA EachJoinedAppend ==
  ASSUME NEW S, NEW seqs \in Seq(Seq(Seq(S))), NEW s \in Seq(Seq(S))
  PROVE  /\ EachJoined(seqs) \in Seq(Seq(S)) /\ Len(EachJoined(seqs)) = Len(seqs)
         /\ EachJoined(Append(seqs, s)) = Append(EachJoined(seqs), FlattenSeq(s))
<1> DEFINE more == Append(seqs, s)
<1>1. /\ DOMAIN seqs = 1..Len(seqs) /\ Len(seqs) \in Nat
      /\ more \in Seq(Seq(Seq(S))) /\ Len(more) = Len(seqs) + 1
      /\ DOMAIN more = 1..Len(more)
      /\ \A i \in 1..Len(seqs) : more[i] = seqs[i]
      /\ more[Len(seqs) + 1] = s
  BY AppendProperties, LenProperties
<1> HIDE DEF more
<1>2. FlattenSeq(s) \in Seq(S) /\ \A i \in 1..Len(seqs) : FlattenSeq(seqs[i]) \in Seq(S)
  BY FlattenIsSeq, ElementOfSeq
<1>3. EachJoined(seqs) \in Seq(Seq(S)) /\ Len(EachJoined(seqs)) = Len(seqs)
      /\ \A i \in 1..Len(seqs) : EachJoined(seqs)[i] = FlattenSeq(seqs[i])
  BY <1>1, <1>2 DEF EachJoined
<1>4. /\ EachJoined(more) \in Seq(Seq(S)) /\ Len(EachJoined(more)) = Len(seqs) + 1
      /\ \A i \in 1..(Len(seqs) + 1) : EachJoined(more)[i] = FlattenSeq(more[i])
  <2>1. \A i \in 1..Len(more) : FlattenSeq(more[i]) \in Seq(S)
    <3> TAKE i \in 1..Len(more)
    <3>1. i \in 1..Len(seqs) \/ i = Len(seqs) + 1
      BY <1>1
    <3> QED BY <1>1, <1>2, <3>1
  <2> QED BY <1>1, <2>1 DEF EachJoined
<1> DEFINE want == Append(EachJoined(seqs), FlattenSeq(s))
<1>5. /\ want \in Seq(Seq(S)) /\ Len(want) = Len(seqs) + 1
      /\ \A i \in 1..Len(seqs) : want[i] = EachJoined(seqs)[i]
      /\ want[Len(seqs) + 1] = FlattenSeq(s)
  BY <1>2, <1>3, AppendProperties
<1> HIDE DEF want
<1>6. ASSUME NEW i \in 1..(Len(seqs) + 1) PROVE EachJoined(more)[i] = want[i]
  <2>1. CASE i \in 1..Len(seqs)
    BY <1>1, <1>3, <1>4, <1>5, <2>1
  <2>2. CASE i = Len(seqs) + 1
    BY <1>1, <1>4, <1>5, <2>2
  <2> QED BY <1>1, <2>1, <2>2
<1>7. EachJoined(more) = want
  BY <1>4, <1>5, <1>6, SeqEqual
<1> QED BY <1>3, <1>7 DEF more, want

\* Joining all of them at once, or each of them first.
LEMMA FlattenTwice ==
  ASSUME NEW S, NEW seqs \in Seq(Seq(Seq(S)))
  PROVE  FlattenSeq(FlattenSeq(seqs)) = FlattenSeq(EachJoined(seqs))
<1> DEFINE joins(c) == FlattenSeq(FlattenSeq(c)) = FlattenSeq(EachJoined(c))
           done == {n \in Nat : \A c \in Seq(Seq(Seq(S))) : Len(c) = n => joins(c)}
<1>1. 0 \in done
  <2>1. ASSUME NEW c \in Seq(Seq(Seq(S))), Len(c) = 0 PROVE joins(c)
    <3>1. c = <<>>
      BY <2>1, EmptySeq
    <3>2. EachJoined(c) = <<>>
      <4>1. EachJoined(c) \in Seq(Seq(S)) /\ Len(EachJoined(c)) = 0
        <5>1. DOMAIN c = 1..0
          BY <2>1, LenProperties
        <5> QED BY <5>1 DEF EachJoined
      <4> QED BY <4>1, EmptySeq
    <3> QED BY <3>1, <3>2, FlattenEmpty
  <2> HIDE DEF joins
  <2> QED BY <2>1
<1>2. ASSUME NEW n \in Nat, n \in done PROVE n + 1 \in done
  <2>1. ASSUME NEW c \in Seq(Seq(Seq(S))), Len(c) = n + 1 PROVE joins(c)
    <3>1. c # <<>>
      BY <2>1, EmptySeq
    <3>2. PICK f \in Seq(Seq(Seq(S))), s \in Seq(Seq(S)) : c = Append(f, s)
      BY <3>1, SequenceEmptyOrAppend
    <3>3. Len(f) = n
      <4>1. Len(c) = Len(f) + 1 /\ Len(f) \in Nat
        BY <3>2, AppendProperties, LenProperties
      <4> QED BY <2>1, <4>1
    <3>4. joins(f)
      <4> HIDE DEF joins
      <4> QED BY <1>2, <3>3
    <3>5. FlattenSeq(c) = FlattenSeq(f) \o s /\ FlattenSeq(f) \in Seq(Seq(S))
      BY <3>2, FlattenAppend, FlattenIsSeq
    <3>6. FlattenSeq(FlattenSeq(f) \o s) = FlattenSeq(FlattenSeq(f)) \o FlattenSeq(s)
      BY <3>5, FlattenConcat
    <3>7. EachJoined(f) \in Seq(Seq(S)) /\ EachJoined(c) = Append(EachJoined(f), FlattenSeq(s))
      BY <3>2, EachJoinedAppend
    <3>8. FlattenSeq(Append(EachJoined(f), FlattenSeq(s)))
            = FlattenSeq(EachJoined(f)) \o FlattenSeq(s)
      <4>1. FlattenSeq(s) \in Seq(S)
        BY FlattenIsSeq
      <4> QED BY <3>7, <4>1, FlattenAppend
    <3> QED BY <3>4, <3>5, <3>6, <3>7, <3>8
  <2> HIDE DEF joins
  <2> QED BY <2>1
<1>3. Nat \subseteq done
  <2> HIDE DEF done
  <2> QED BY <1>1, <1>2, NatSetInduction
<1>4. Len(seqs) \in Nat
  BY LenProperties
<1>5. joins(seqs)
  <2> HIDE DEF joins
  <2> QED BY <1>3, <1>4
<1> QED BY <1>5

LEMMA SizesOfAre ==
  ASSUME NEW S, NEW seqs \in Seq(Seq(S))
  PROVE  /\ SizesOf(seqs) \in Seq(Nat) /\ Len(SizesOf(seqs)) = Len(seqs)
         /\ \A j \in 1..Len(seqs) : SizesOf(seqs)[j] = Len(seqs[j])
<1>1. DOMAIN seqs = 1..Len(seqs) /\ Len(seqs) \in Nat
  BY LenProperties
<1>2. \A j \in 1..Len(seqs) : Len(seqs[j]) \in Nat
  <2> TAKE j \in 1..Len(seqs)
  <2>1. seqs[j] \in Seq(S)
    BY ElementOfSeq
  <2> QED BY <2>1, LenProperties
<1> QED BY <1>1, <1>2 DEF SizesOf

\* What is joined is as long as its parts together.
LEMMA LenFlatten ==
  ASSUME NEW S, NEW seqs \in Seq(Seq(S))
  PROVE  Len(FlattenSeq(seqs)) = Total(SizesOf(seqs), Len(seqs))
<1> DEFINE counts(c) == Len(FlattenSeq(c)) = Total(SizesOf(c), Len(c))
           done == {n \in Nat : \A c \in Seq(Seq(S)) : Len(c) = n => counts(c)}
<1>1. 0 \in done
  <2>1. ASSUME NEW c \in Seq(Seq(S)), Len(c) = 0 PROVE counts(c)
    <3>1. c = <<>>
      BY <2>1, EmptySeq
    <3>2. Len(FlattenSeq(c)) = 0
      BY <3>1, FlattenEmpty, EmptySeq
    <3>3. Total(SizesOf(c), 0) = 0
      BY SizesOfAre, TotalNext
    <3> QED BY <2>1, <3>2, <3>3
  <2> HIDE DEF counts
  <2> QED BY <2>1
<1>2. ASSUME NEW n \in Nat, n \in done PROVE n + 1 \in done
  <2>1. ASSUME NEW c \in Seq(Seq(S)), Len(c) = n + 1 PROVE counts(c)
    <3>1. c # <<>>
      BY <2>1, EmptySeq
    <3>2. PICK f \in Seq(Seq(S)), s \in Seq(S) : c = Append(f, s)
      BY <3>1, SequenceEmptyOrAppend
    <3>3. /\ Len(c) = Len(f) + 1 /\ Len(f) \in Nat
          /\ \A i \in 1..Len(f) : c[i] = f[i]
          /\ c[Len(f) + 1] = s
      BY <3>2, AppendProperties, LenProperties
    <3>4. Len(f) = n
      BY <2>1, <3>3
    <3>5. counts(f)
      <4> HIDE DEF counts
      <4> QED BY <1>2, <3>4
    <3>6. Len(FlattenSeq(c)) = Len(FlattenSeq(f)) + Len(s)
      <4>1. FlattenSeq(c) = FlattenSeq(f) \o s /\ FlattenSeq(f) \in Seq(S)
        BY <3>2, FlattenAppend, FlattenIsSeq
      <4> QED BY <4>1, ConcatProperties
    <3> DEFINE fs == SizesOf(f)
               cs == SizesOf(c)
    <3>7. /\ fs \in Seq(Nat) /\ Len(fs) = n /\ cs \in Seq(Nat) /\ Len(cs) = n + 1
          /\ cs[n + 1] = Len(s)
          /\ \A k \in 1..n : fs[k] = cs[k]
      <4>1. /\ fs \in Seq(Nat) /\ Len(fs) = Len(f)
            /\ \A j \in 1..Len(f) : fs[j] = Len(f[j])
        BY SizesOfAre
      <4>2. /\ cs \in Seq(Nat) /\ Len(cs) = Len(c)
            /\ \A j \in 1..Len(c) : cs[j] = Len(c[j])
        BY SizesOfAre
      <4> HIDE DEF fs, cs
      <4>3. n + 1 \in 1..Len(c)
        BY <2>1
      <4>4. cs[n + 1] = Len(s)
        BY <3>3, <3>4, <4>2, <4>3
      <4>5. ASSUME NEW k \in 1..n PROVE fs[k] = cs[k]
        <5>1. k \in 1..Len(f) /\ k \in 1..Len(c)
          BY <2>1, <3>4
        <5> QED BY <3>3, <4>1, <4>2, <5>1
      <4> QED BY <2>1, <3>4, <4>1, <4>2, <4>4, <4>5
    <3>8. Total(fs, n) = Total(cs, n)
      <4> HIDE DEF fs, cs
      <4>1. n <= Len(fs) /\ n <= Len(cs)
        BY <3>7
      <4> QED BY <3>7, <4>1, TotalSame
    <3>9. Total(cs, n + 1) = Total(cs, n) + Len(s)
      <4> HIDE DEF fs, cs
      <4>1. n + 1 \in 1..Len(cs) /\ (n + 1) - 1 = n
        BY <3>7
      <4>2. Total(cs, n + 1) = Total(cs, (n + 1) - 1) + cs[n + 1]
        BY <3>7, <4>1, TotalNext
      <4> QED BY <3>7, <4>1, <4>2
    <3> QED BY <2>1, <3>4, <3>5, <3>6, <3>8, <3>9
  <2> HIDE DEF counts
  <2> QED BY <2>1
<1>3. Nat \subseteq done
  <2> HIDE DEF done
  <2> QED BY <1>1, <1>2, NatSetInduction
<1>4. Len(seqs) \in Nat
  BY LenProperties
<1>5. counts(seqs)
  <2> HIDE DEF counts
  <2> QED BY <1>3, <1>4
<1> QED BY <1>5

-----------------------------------------------------------------------------
(* The cells of a value *)

ItemCells(value) == FlattenSeq(ItemChunks(value))

\* The length word of an empty string or buffer is missing.
NoLength(value) == value.type \in Sized /\ value.data = <<>>

Key == IF as_dict_ THEN <<kEmptyKey>> ELSE <<>>
DataCells(value) ==
  IF value.type \in Sized THEN <<Len(value.data)>> \o value.data ELSE value.data

LEMMA ProgramValueHas ==
  ASSUME NEW value \in ProgramValues
  PROVE  /\ value.type \in Nat /\ value.data \in Seq(Nat) /\ Len(value.data) \in Nat
         /\ value = Value(value.type, value.data)
         /\ value.type = kNull <=> value = Null
         /\ value.type # kNull =>
              \/ value.type \in Sized
              \/ value.type \in OneCell /\ Len(value.data) = 1 /\ value.type \notin Sized
              \/ value.type \in TwoCells /\ Len(value.data) = 2 /\ value.type \notin Sized
<1>1. value \in [type : Nat, data : Seq(Nat)] /\ FromProgram(value)
  BY DEF ProgramValues
<1>2. value.type \in Nat /\ value.data \in Seq(Nat) /\ Len(value.data) \in Nat
  BY <1>1, LenProperties
<1>3. Null.type = kNull
  BY ValueHas DEF Null
<1>4. kNull \notin Sized \cup OneCell \cup TwoCells /\ Sized \cap (OneCell \cup TwoCells) = {}
  BY DEF kNull, Sized, OneCell, TwoCells, kString, kBuffer, kSignedInt32, kInteger
<1> QED BY <1>1, <1>2, <1>3, <1>4 DEF FromProgram

LEMMA NullHasNoCells == ItemCells(Null) = <<>>
<1>1. Null.type = kNull
  BY ValueHas DEF Null
<1> QED BY <1>1, FlattenEmpty DEF ItemCells, ItemChunks

LEMMA ItemCellsIs ==
  ASSUME NEW value \in ProgramValues, as_dict_ \in BOOLEAN, value # Null, ~NoLength(value)
  PROVE  /\ Key \in Seq(Nat) /\ DataCells(value) \in Seq(Nat)
         /\ ItemCells(value) = (Key \o <<value.type>>) \o DataCells(value)
<1>1. /\ value.type \in Nat /\ value.data \in Seq(Nat) /\ Len(value.data) \in Nat
      /\ value.type # kNull
  BY ProgramValueHas
<1>2. value.data # <<>>
  <2>1. value.type \notin Sized => Len(value.data) \in {1, 2}
    BY <1>1, ProgramValueHas
  <2> QED BY <2>1, EmptySeq DEF NoLength
<1> DEFINE keys == IF as_dict_ THEN <<<<kEmptyKey>>>> ELSE <<>>
           type == <<<<value.type>>>>
           datas == IF value.type \in Sized THEN <<<<Len(value.data)>>, value.data>>
                    ELSE <<value.data>>
<1>3. ItemChunks(value) = (keys \o type) \o datas
  <2>1. ItemChunks(value) = keys \o type
          \o CASE value.data = <<>> -> <<>>
               [] value.data # <<>> /\ value.type \in Sized -> <<<<Len(value.data)>>, value.data>>
               [] OTHER -> <<value.data>>
    BY <1>1 DEF ItemChunks
  <2>2. datas = CASE value.data = <<>> -> <<>>
               [] value.data # <<>> /\ value.type \in Sized -> <<<<Len(value.data)>>, value.data>>
               [] OTHER -> <<value.data>>
    BY <1>2
  <2> HIDE DEF keys, type, datas
  <2> QED BY <2>1, <2>2
<1>4. keys \in Seq(Seq(Nat)) /\ FlattenSeq(keys) = Key /\ Key \in Seq(Nat)
  <2>1. CASE as_dict_
    <3>1. keys = <<<<kEmptyKey>>>> /\ Key = <<kEmptyKey>> /\ <<kEmptyKey>> \in Seq(Nat)
      BY <2>1 DEF Key, kEmptyKey
    <3> HIDE DEF keys
    <3>2. PICK s \in Seq(Nat) : s = <<kEmptyKey>>
      BY <3>1
    <3>3. FlattenSeq(<<s>>) = s /\ <<s>> \in Seq(Seq(Nat))
      BY FlattenOne
    <3> QED BY <3>1, <3>2, <3>3
  <2>2. CASE ~as_dict_
    <3>1. keys = <<>> /\ Key = <<>>
      BY <2>2 DEF Key
    <3> HIDE DEF keys
    <3> QED BY <3>1, FlattenEmpty, EmptySeq
  <2> QED BY <2>1, <2>2
<1>5. type \in Seq(Seq(Nat)) /\ FlattenSeq(type) = <<value.type>> /\ <<value.type>> \in Seq(Nat)
  <2>1. PICK s \in Seq(Nat) : s = <<value.type>>
    <3>1. <<value.type>> \in Seq(Nat)
      BY <1>1
    <3> QED BY <3>1
  <2>2. FlattenSeq(<<s>>) = s /\ <<s>> \in Seq(Seq(Nat))
    BY FlattenOne
  <2> QED BY <2>1, <2>2
<1>6. /\ datas \in Seq(Seq(Nat)) /\ FlattenSeq(datas) = DataCells(value)
      /\ DataCells(value) \in Seq(Nat)
  <2>1. <<Len(value.data)>> \in Seq(Nat)
    BY <1>1
  <2>2. CASE value.type \in Sized
    <3>1. datas = <<<<Len(value.data)>>, value.data>>
          /\ DataCells(value) = <<Len(value.data)>> \o value.data
      BY <2>2 DEF DataCells
    <3> HIDE DEF datas
    <3>2. datas \in Seq(Seq(Nat))
      BY <1>1, <2>1, <3>1
    <3>3. FlattenSeq(datas) = <<Len(value.data)>> \o value.data
      BY <1>1, <2>1, <3>1, FlattenTwo
    <3>4. <<Len(value.data)>> \o value.data \in Seq(Nat)
      BY <1>1, <2>1, ConcatProperties
    <3> QED BY <3>1, <3>2, <3>3, <3>4
  <2>3. CASE value.type \notin Sized
    <3>1. datas = <<value.data>> /\ DataCells(value) = value.data
      BY <2>3 DEF DataCells
    <3> HIDE DEF datas
    <3> QED BY <1>1, <3>1, FlattenOne
  <2> QED BY <2>2, <2>3
<1> HIDE DEF keys, type, datas
<1>7. keys \o type \in Seq(Seq(Nat)) /\ FlattenSeq(keys \o type) = Key \o <<value.type>>
  BY <1>4, <1>5, ConcatProperties, FlattenConcat
<1>8. FlattenSeq((keys \o type) \o datas) = (Key \o <<value.type>>) \o DataCells(value)
  <2>1. PICK kt \in Seq(Seq(Nat)) : kt = keys \o type
    BY <1>7
  <2>2. FlattenSeq(kt \o datas) = FlattenSeq(kt) \o FlattenSeq(datas)
    BY <1>6, FlattenConcat
  <2> QED BY <1>6, <1>7, <2>1, <2>2
<1> QED BY <1>3, <1>4, <1>6, <1>8 DEF ItemCells

\* A value takes the cells that are counted for it, but for a missing length word.
LEMMA ItemCellsAre ==
  ASSUME NEW value \in ProgramValues, as_dict_ \in BOOLEAN
  PROVE  /\ ItemChunks(value) \in Seq(Seq(Nat))
         /\ ItemCells(value) \in Seq(Nat)
         /\ ~NoLength(value) => Len(ItemCells(value)) = ItemLength(value)
<1>1. ItemChunks(value) \in Seq(Seq(Nat))
  <2>1. ItemChunks(value) \in Seq(Filled)
    BY ItemChunksAre
  <2>2. Filled \subseteq Seq(Nat)
    BY DEF Filled
  <2> QED BY <2>1, <2>2, SeqMonotonic
<1>2. ItemCells(value) \in Seq(Nat)
  BY <1>1, FlattenIsSeq DEF ItemCells
<1>3. ASSUME ~NoLength(value), value = Null PROVE Len(ItemCells(value)) = ItemLength(value)
  <2>1. Len(ItemCells(value)) = 0 /\ value.type = kNull
    BY <1>3, NullHasNoCells, ProgramValueHas, EmptySeq
  <2> QED BY <2>1 DEF ItemLength
<1>4. ASSUME ~NoLength(value), value # Null PROVE Len(ItemCells(value)) = ItemLength(value)
  <2>1. /\ Key \in Seq(Nat) /\ DataCells(value) \in Seq(Nat)
        /\ ItemCells(value) = (Key \o <<value.type>>) \o DataCells(value)
    BY <1>4, ItemCellsIs
  <2>2. value.type \in Nat /\ value.data \in Seq(Nat) /\ Len(value.data) \in Nat
        /\ value.type # kNull
    BY <1>4, ProgramValueHas
  <2>3. <<value.type>> \in Seq(Nat) /\ Len(<<value.type>>) = 1
        /\ <<Len(value.data)>> \in Seq(Nat) /\ Len(<<Len(value.data)>>) = 1
    BY <2>2
  <2>4. Key \o <<value.type>> \in Seq(Nat) /\ Len(Key \o <<value.type>>) = Len(Key) + 1
    BY <2>1, <2>3, ConcatProperties
  <2>5. Len(ItemCells(value)) = (Len(Key) + 1) + Len(DataCells(value))
    <3>1. PICK kt \in Seq(Nat) : kt = Key \o <<value.type>>
      BY <2>4
    <3>2. Len(kt \o DataCells(value)) = Len(kt) + Len(DataCells(value))
      BY <2>1, ConcatProperties
    <3> QED BY <2>1, <2>4, <3>1, <3>2
  <2>6. Len(Key) = IF as_dict_ THEN 1 ELSE 0
    BY DEF Key
  <2>7. Len(DataCells(value)) = (IF value.type \in Sized THEN 1 ELSE 0) + Len(value.data)
    <3>1. CASE value.type \in Sized
      <4>1. PICK size \in Seq(Nat) : size = <<Len(value.data)>>
        BY <2>3
      <4>2. Len(size \o value.data) = Len(size) + Len(value.data)
        BY <2>2, ConcatProperties
      <4> QED BY <2>3, <3>1, <4>1, <4>2 DEF DataCells
    <3>2. CASE value.type \notin Sized
      BY <2>2, <3>2 DEF DataCells
    <3> QED BY <3>1, <3>2
  <2>8. ItemLength(value) = (IF as_dict_ THEN 1 ELSE 0)
          + 1 + (IF value.type \in Sized THEN 1 ELSE 0) + Len(value.data)
    BY <2>2 DEF ItemLength
  <2> DEFINE key == IF as_dict_ THEN 1 ELSE 0
             size == IF value.type \in Sized THEN 1 ELSE 0
  <2>9. key \in Nat /\ size \in Nat
    OBVIOUS
  <2>10. Len(ItemCells(value)) = (key + 1) + (size + Len(value.data))
    BY <2>5, <2>6, <2>7
  <2>11. ItemLength(value) = key + 1 + size + Len(value.data)
    BY <2>8
  <2> HIDE DEF key, size
  <2>12. PICK length \in Nat : length = Len(value.data)
    BY <2>2
  <2>13. (key + 1) + (size + length) = key + 1 + size + length
    BY <2>9
  <2> QED BY <2>10, <2>11, <2>12, <2>13
<1> QED BY <1>1, <1>2, <1>3, <1>4

-----------------------------------------------------------------------------
(* What DeserializeItems computes *)

Reads(items, bytes) == items = [i \in Nat |-> Read(items, bytes, i)]

LEMMA ReadsAt ==
  ASSUME NEW items, NEW bytes, Reads(items, bytes), NEW i \in Nat
  PROVE  items[i] = Read(items, bytes, i)
<1> DEFINE f == [j \in Nat |-> Read(items, bytes, j)]
<1>1. items = f
  BY Zenon DEF Reads
<1>2. f[i] = Read(items, bytes, i)
  OBVIOUS
<1> HIDE DEF f
<1>3. items[i] = f[i]
  BY <1>1
<1> QED BY <1>2, <1>3

LEMMA TypesApart ==
  /\ Sized \cap OneCell = {} /\ Sized \cap TwoCells = {} /\ OneCell \cap TwoCells = {}
  /\ kEmptyKey \notin Sized /\ kEmptyKey \notin OneCell /\ kEmptyKey \notin TwoCells
  BY DEF Sized, OneCell, TwoCells, kString, kBuffer, kSignedInt32, kInteger, kEmptyKey

LEMMA ReadIs ==
  ASSUME NEW items, NEW bytes, Len(bytes) \in Nat, NEW i \in Nat
  PROVE  /\ i > Len(bytes) => Read(items, bytes, i) = <<>>
         /\ i <= Len(bytes) /\ Cell(bytes, i) \in Sized =>
              Read(items, bytes, i) =
                <<Value(Cell(bytes, i), Cells(bytes, i + 2, Cell(bytes, i + 1)))>>
                  \o items[i + 2 + Cell(bytes, i + 1)]
         /\ i <= Len(bytes) /\ Cell(bytes, i) \in OneCell =>
              Read(items, bytes, i) =
                <<Value(Cell(bytes, i), Cells(bytes, i + 1, 1))>> \o items[i + 2]
         /\ i <= Len(bytes) /\ Cell(bytes, i) \in TwoCells =>
              Read(items, bytes, i) =
                <<Value(Cell(bytes, i), Cells(bytes, i + 1, 2))>> \o items[i + 3]
         /\ i <= Len(bytes) /\ Cell(bytes, i) = kEmptyKey =>
              Read(items, bytes, i) = items[i + 1]
         /\ i <= Len(bytes) /\ Cell(bytes, i) \notin Sized \cup OneCell \cup TwoCells \cup {kEmptyKey} =>
              Read(items, bytes, i) = <<Value(Unread, <<>>)>>
<1>1. i > Len(bytes) <=> ~(i <= Len(bytes))
  OBVIOUS
<1> DEFINE type == Cell(bytes, i)
           length == Cell(bytes, i + 1)
           one == <<Value(type, Cells(bytes, i + 2, length))>> \o items[i + 2 + length]
           two == <<Value(type, Cells(bytes, i + 1, 1))>> \o items[i + 2]
           three == <<Value(type, Cells(bytes, i + 1, 2))>> \o items[i + 3]
           four == items[i + 1]
           five == <<Value(Unread, <<>>)>>
           past == i > Len(bytes)
           here == i <= Len(bytes)
<1>2. Read(items, bytes, i) =
        CASE past -> <<>>
          [] here /\ type \in Sized -> one
          [] here /\ type \in OneCell -> two
          [] here /\ type \in TwoCells -> three
          [] here /\ type = kEmptyKey -> four
          [] OTHER -> five
  BY DEF Read
<1>3. past <=> ~here
  BY <1>1
<1> HIDE DEF type, length, one, two, three, four, five, past, here
<1>4. past => Read(items, bytes, i) = <<>>
  BY <1>2, <1>3
<1>5. here /\ type \in Sized => Read(items, bytes, i) = one
  BY <1>2, <1>3, TypesApart
<1>6. here /\ type \in OneCell => Read(items, bytes, i) = two
  BY <1>2, <1>3, TypesApart
<1>7. here /\ type \in TwoCells => Read(items, bytes, i) = three
  BY <1>2, <1>3, TypesApart
<1>8. here /\ type = kEmptyKey => Read(items, bytes, i) = four
  BY <1>2, <1>3, TypesApart
<1>9. here /\ type \notin Sized \cup OneCell \cup TwoCells \cup {kEmptyKey} =>
        Read(items, bytes, i) = five
  BY <1>2, <1>3
<1> QED BY <1>4, <1>5, <1>6, <1>7, <1>8, <1>9
        DEF type, length, one, two, three, four, five, past, here

LEMMA ReadSized ==
  ASSUME NEW items, NEW bytes, Len(bytes) \in Nat, NEW i \in Nat, i <= Len(bytes),
         Cell(bytes, i) \in Sized
  PROVE  Read(items, bytes, i) =
           <<Value(Cell(bytes, i), Cells(bytes, i + 2, Cell(bytes, i + 1)))>>
             \o items[i + 2 + Cell(bytes, i + 1)]
  BY ReadIs, Zenon

LEMMA CellIs ==
  ASSUME NEW bytes \in Seq(Nat), NEW i \in Int
  PROVE  /\ Cell(bytes, i) \in Nat \cup {-1} /\ Cell(bytes, i) \in Int
         /\ i \in 1..Len(bytes) => Cell(bytes, i) = bytes[i]
<1>1. DOMAIN bytes = 1..Len(bytes) /\ Len(bytes) \in Nat
  BY LenProperties
<1>2. i \in 1..Len(bytes) => bytes[i] \in Nat
  BY ElementOfSeq
<1> QED BY <1>1, <1>2 DEF Cell, Unread

LEMMA CellsAre ==
  ASSUME NEW bytes \in Seq(Nat), NEW i \in Int, NEW n \in Int
  PROVE  /\ Cells(bytes, i, n) \in Seq(Int)
         /\ n \in Nat => Len(Cells(bytes, i, n)) = n
         /\ \A k \in 1..n : Cells(bytes, i, n)[k] = Cell(bytes, i + k - 1)
<1> DEFINE m == IF n < 0 THEN 0 ELSE n
<1>1. m \in Nat /\ 1..m = 1..n
  OBVIOUS
<1>2. \A k \in 1..m : Cell(bytes, i + k - 1) \in Int
  BY CellIs
<1> HIDE DEF m
<1>3. Cells(bytes, i, n) = [k \in 1..m |-> Cell(bytes, i + k - 1)]
  BY <1>1 DEF Cells
<1>4. Cells(bytes, i, n) \in Seq(Int) /\ Len(Cells(bytes, i, n)) = m
  BY <1>1, <1>2, <1>3
<1>5. n \in Nat => m = n
  BY DEF m
<1> QED BY <1>1, <1>3, <1>4, <1>5

\* What is read from a place on depends on what is read from the places behind it.
LEMMA ReadLater ==
  ASSUME NEW bytes \in Seq(Nat), NEW f, NEW g, NEW i \in Nat,
         \A j \in Nat : j > i => f[j] = g[j]
  PROVE  Read(f, bytes, i) = Read(g, bytes, i)
<1>1. Len(bytes) \in Nat
  BY LenProperties
<1>2. PICK length \in Nat \cup {-1} : length = Cell(bytes, i + 1)
  <2>1. PICK next \in Int : next = i + 1
    OBVIOUS
  <2>2. Cell(bytes, next) \in Nat \cup {-1}
    BY CellIs
  <2> QED BY <2>1, <2>2
<1>3. i + 2 + length \in Nat /\ i + 2 + length > i
  BY <1>2
<1>4. f[i + 2 + Cell(bytes, i + 1)] = g[i + 2 + Cell(bytes, i + 1)]
  BY <1>2, <1>3
<1>5. f[i + 1] = g[i + 1] /\ f[i + 2] = g[i + 2] /\ f[i + 3] = g[i + 3]
  <2>1. /\ i + 1 \in Nat /\ i + 1 > i /\ i + 2 \in Nat /\ i + 2 > i
        /\ i + 3 \in Nat /\ i + 3 > i
    OBVIOUS
  <2> QED BY <2>1, Zenon
<1>6. i > Len(bytes) \/ i <= Len(bytes)
  BY <1>1
<1>7. CASE i > Len(bytes)
  BY <1>1, <1>7, ReadIs, Zenon
<1>8. CASE i <= Len(bytes)
  <2>1. CASE Cell(bytes, i) \in Sized
    <3>1. Read(f, bytes, i) = <<Value(Cell(bytes, i), Cells(bytes, i + 2, Cell(bytes, i + 1)))>>
                                \o f[i + 2 + Cell(bytes, i + 1)]
      BY <1>1, <1>8, <2>1, ReadSized, Zenon
    <3>2. Read(g, bytes, i) = <<Value(Cell(bytes, i), Cells(bytes, i + 2, Cell(bytes, i + 1)))>>
                                \o g[i + 2 + Cell(bytes, i + 1)]
      BY <1>1, <1>8, <2>1, ReadSized, Zenon
    <3> QED BY <1>4, <3>1, <3>2
  <2>2. CASE Cell(bytes, i) \in OneCell
    <3>1. /\ Read(f, bytes, i) = <<Value(Cell(bytes, i), Cells(bytes, i + 1, 1))>> \o f[i + 2]
          /\ Read(g, bytes, i) = <<Value(Cell(bytes, i), Cells(bytes, i + 1, 1))>> \o g[i + 2]
      BY <1>1, <1>8, <2>2, ReadIs, Zenon
    <3> QED BY <1>5, <3>1
  <2>3. CASE Cell(bytes, i) \in TwoCells
    <3>1. /\ Read(f, bytes, i) = <<Value(Cell(bytes, i), Cells(bytes, i + 1, 2))>> \o f[i + 3]
          /\ Read(g, bytes, i) = <<Value(Cell(bytes, i), Cells(bytes, i + 1, 2))>> \o g[i + 3]
      BY <1>1, <1>8, <2>3, ReadIs, Zenon
    <3> QED BY <1>5, <3>1
  <2>4. CASE Cell(bytes, i) = kEmptyKey
    <3>1. Read(f, bytes, i) = f[i + 1] /\ Read(g, bytes, i) = g[i + 1]
      BY <1>1, <1>8, <2>4, ReadIs, Zenon
    <3> QED BY <1>5, <3>1
  <2>5. CASE Cell(bytes, i) \notin Sized \cup OneCell \cup TwoCells \cup {kEmptyKey}
    BY <1>1, <1>8, <2>5, ReadIs, Zenon
  <2> QED BY <2>1, <2>2, <2>3, <2>4, <2>5
<1> QED BY <1>6, <1>7, <1>8

\* There is such a function: it is built from behind.
LEMMA ReadsExists ==
  ASSUME NEW bytes \in Seq(Nat)
  PROVE  \E items : Reads(items, bytes)
<1> DEFINE From(f, m) == \A i \in Nat : i + m > Len(bytes) => f[i] = Read(f, bytes, i)
           Done == {m \in Nat : \E f : f = [i \in Nat |-> f[i]] /\ From(f, m)}
<1>0. Len(bytes) \in Nat
  BY LenProperties
<1>1. 0 \in Done
  <2> DEFINE f == [i \in Nat |-> <<>>]
  <2>1. f = [i \in Nat |-> f[i]]
    OBVIOUS
  <2>2. ASSUME NEW i \in Nat, i + 0 > Len(bytes) PROVE f[i] = Read(f, bytes, i)
    <3>1. f[i] = <<>> /\ i > Len(bytes)
      BY <1>0, <2>2
    <3> HIDE DEF f
    <3> QED BY <1>0, <3>1, ReadIs, Zenon
  <2> HIDE DEF f
  <2> QED BY <2>1, <2>2
<1>2. ASSUME NEW m \in Nat, m \in Done PROVE m + 1 \in Done
  <2>1. PICK f : f = [i \in Nat |-> f[i]] /\ From(f, m)
    BY <1>2
  <2> DEFINE k == Len(bytes) - m
             g == [i \in Nat |-> IF i = k THEN Read(f, bytes, i) ELSE f[i]]
  <2>2. g = [i \in Nat |-> g[i]]
    OBVIOUS
  <2>3. ASSUME NEW i \in Nat, i + (m + 1) > Len(bytes) PROVE g[i] = Read(g, bytes, i)
    <3>1. k \in Int /\ (i = k \/ (i > k /\ i + m > Len(bytes)))
      BY <1>0, <2>3
    <3>2. \A j \in Nat : j > i => f[j] = g[j]
      BY <3>1
    <3>3. Read(f, bytes, i) = Read(g, bytes, i)
      <4> HIDE DEF g
      <4> QED BY <3>2, ReadLater
    <3>4. g[i] = IF i = k THEN Read(f, bytes, i) ELSE f[i]
      OBVIOUS
    <3>5. i # k => f[i] = Read(f, bytes, i)
      BY <2>1, <3>1
    <3> HIDE DEF g, k
    <3> QED BY <3>3, <3>4, <3>5
  <2> HIDE DEF g
  <2> QED BY <2>2, <2>3
<1>3. Nat \subseteq Done
  <2> HIDE DEF Done
  <2> QED BY <1>1, <1>2, NatSetInduction
<1>4. Len(bytes) + 1 \in Done
  <2> HIDE DEF Done
  <2> QED BY <1>0, <1>3
<1>5. PICK f : f = [i \in Nat |-> f[i]] /\ From(f, Len(bytes) + 1)
  BY <1>4
<1>6. ASSUME NEW i \in Nat PROVE f[i] = Read(f, bytes, i)
  <2>1. i + (Len(bytes) + 1) > Len(bytes)
    BY <1>0
  <2> QED BY <1>5, <2>1
<1>7. [i \in Nat |-> f[i]] = [i \in Nat |-> Read(f, bytes, i)]
  BY <1>6
<1> QED BY <1>5, <1>7 DEF Reads

LEMMA DeserializeItemsIs ==
  ASSUME NEW bytes \in Seq(Nat)
  PROVE  \E items : Reads(items, bytes) /\ DeserializeItems(bytes) = items[1]
<1> DEFINE chosen == CHOOSE items : Reads(items, bytes)
<1>1. Reads(chosen, bytes)
  BY ReadsExists
<1>2. DeserializeItems(bytes) = chosen[1]
  BY Zenon DEF DeserializeItems, Reads
<1> QED BY <1>1, <1>2
Readable == [type : Int, data : Seq(Int)]

LEMMA ReadIsSeq ==
  ASSUME NEW bytes \in Seq(Nat), NEW f, NEW i \in Nat,
         \A j \in Nat : j > i => f[j] \in Seq(Readable)
  PROVE  Read(f, bytes, i) \in Seq(Readable)
<1>1. Len(bytes) \in Nat
  BY LenProperties
<1>2. PICK length \in Nat \cup {-1} : length = Cell(bytes, i + 1)
  <2>1. PICK next \in Int : next = i + 1
    OBVIOUS
  <2>2. Cell(bytes, next) \in Nat \cup {-1}
    BY CellIs
  <2> QED BY <2>1, <2>2
<1>3. i + 2 + length \in Nat /\ i + 2 + length > i
  BY <1>2
<1>4. f[i + 2 + Cell(bytes, i + 1)] \in Seq(Readable)
  BY <1>2, <1>3
<1>5. f[i + 1] \in Seq(Readable) /\ f[i + 2] \in Seq(Readable) /\ f[i + 3] \in Seq(Readable)
  <2>1. /\ i + 1 \in Nat /\ i + 1 > i /\ i + 2 \in Nat /\ i + 2 > i
        /\ i + 3 \in Nat /\ i + 3 > i
    OBVIOUS
  <2> QED BY <2>1, Zenon
<1>6. i > Len(bytes) \/ i <= Len(bytes)
  BY <1>1
<1>7. ASSUME NEW first \in Int, NEW n \in Int, NEW rest \in Seq(Readable)
      PROVE  <<Value(Cell(bytes, i), Cells(bytes, first, n))>> \o rest \in Seq(Readable)
  <2>1. Cell(bytes, i) \in Int /\ Cells(bytes, first, n) \in Seq(Int)
    BY CellIs, CellsAre
  <2>2. PICK v \in Readable : v = Value(Cell(bytes, i), Cells(bytes, first, n))
    BY <2>1 DEF Value, Readable
  <2>3. <<v>> \in Seq(Readable)
    OBVIOUS
  <2> QED BY <2>2, <2>3, ConcatProperties
<1>8. CASE i > Len(bytes)
  <2>1. Read(f, bytes, i) = <<>>
    BY <1>1, <1>8, ReadIs, Zenon
  <2> QED BY <2>1, EmptySeq
<1>9. CASE i <= Len(bytes)
  <2>1. CASE Cell(bytes, i) \in Sized
    <3>1. Read(f, bytes, i) = <<Value(Cell(bytes, i), Cells(bytes, i + 2, Cell(bytes, i + 1)))>>
                                \o f[i + 2 + Cell(bytes, i + 1)]
      BY <1>1, <1>9, <2>1, ReadSized, Zenon
    <3>2. i + 2 \in Int /\ Cell(bytes, i + 1) \in Int
      BY <1>2
    <3> QED BY <1>4, <1>7, <3>1, <3>2
  <2>2. CASE Cell(bytes, i) \in OneCell
    <3>1. Read(f, bytes, i) = <<Value(Cell(bytes, i), Cells(bytes, i + 1, 1))>> \o f[i + 2]
      BY <1>1, <1>9, <2>2, ReadIs, Zenon
    <3>2. i + 1 \in Int /\ 1 \in Int
      OBVIOUS
    <3> QED BY <1>5, <1>7, <3>1, <3>2
  <2>3. CASE Cell(bytes, i) \in TwoCells
    <3>1. Read(f, bytes, i) = <<Value(Cell(bytes, i), Cells(bytes, i + 1, 2))>> \o f[i + 3]
      BY <1>1, <1>9, <2>3, ReadIs, Zenon
    <3>2. i + 1 \in Int /\ 2 \in Int
      OBVIOUS
    <3> QED BY <1>5, <1>7, <3>1, <3>2
  <2>4. CASE Cell(bytes, i) = kEmptyKey
    <3>1. Read(f, bytes, i) = f[i + 1]
      BY <1>1, <1>9, <2>4, ReadIs, Zenon
    <3> QED BY <1>5, <3>1
  <2>5. CASE Cell(bytes, i) \notin Sized \cup OneCell \cup TwoCells \cup {kEmptyKey}
    <3>1. Read(f, bytes, i) = <<Value(Unread, <<>>)>>
      BY <1>1, <1>9, <2>5, ReadIs, Zenon
    <3>2. Unread \in Int /\ <<>> \in Seq(Int)
      BY EmptySeq DEF Unread
    <3>3. Value(Unread, <<>>) \in Readable
      BY <3>2 DEF Value, Readable
    <3> QED BY <3>1, <3>3
  <2> QED BY <2>1, <2>2, <2>3, <2>4, <2>5
<1> QED BY <1>6, <1>8, <1>9

\* From every place on values are read.
LEMMA ReadsAreSeq ==
  ASSUME NEW bytes \in Seq(Nat), NEW f, Reads(f, bytes)
  PROVE  \A i \in Nat : f[i] \in Seq(Readable)
<1> DEFINE done == {m \in Nat : \A i \in Nat : i + m > Len(bytes) => f[i] \in Seq(Readable)}
<1>0. Len(bytes) \in Nat
  BY LenProperties
<1>1. 0 \in done
  <2>1. ASSUME NEW i \in Nat, i + 0 > Len(bytes) PROVE f[i] \in Seq(Readable)
    <3>1. i > Len(bytes)
      BY <1>0, <2>1
    <3>2. Read(f, bytes, i) = <<>>
      BY <1>0, <3>1, ReadIs, Zenon
    <3>3. f[i] = Read(f, bytes, i)
      BY ReadsAt, Zenon
    <3> QED BY <3>2, <3>3, EmptySeq
  <2> QED BY <2>1
<1>2. ASSUME NEW m \in Nat, m \in done PROVE m + 1 \in done
  <2>1. ASSUME NEW i \in Nat, i + (m + 1) > Len(bytes) PROVE f[i] \in Seq(Readable)
    <3>1. ASSUME NEW j \in Nat, j > i PROVE f[j] \in Seq(Readable)
      <4>1. j + m > Len(bytes)
        BY <1>0, <2>1, <3>1
      <4> QED BY <1>2, <4>1
    <3>2. Read(f, bytes, i) \in Seq(Readable)
      BY <3>1, ReadIsSeq
    <3>3. f[i] = Read(f, bytes, i)
      BY ReadsAt, Zenon
    <3> QED BY <3>2, <3>3
  <2> QED BY <2>1
<1>3. Nat \subseteq done
  <2> HIDE DEF done
  <2> QED BY <1>1, <1>2, NatSetInduction
<1>4. TAKE i \in Nat
<1>5. Len(bytes) + 1 \in done
  <2> HIDE DEF done
  <2> QED BY <1>0, <1>3
<1>6. i + (Len(bytes) + 1) > Len(bytes)
  BY <1>0
<1> QED BY <1>5, <1>6

-----------------------------------------------------------------------------
(* Cells that lie in the bytes behind a place *)

At(bytes, p, cells) ==
  /\ p + Len(cells) <= Len(bytes)
  /\ \A k \in 1..Len(cells) : bytes[p + k] = cells[k]

LEMMA AtParts ==
  ASSUME NEW bytes \in Seq(Nat), NEW p \in Nat, NEW a \in Seq(Nat), NEW b \in Seq(Nat),
         At(bytes, p, a \o b)
  PROVE  At(bytes, p, a) /\ At(bytes, p + Len(a), b)
<1>1. /\ Len(a) \in Nat /\ Len(b) \in Nat /\ Len(bytes) \in Nat
      /\ Len(a \o b) = Len(a) + Len(b)
      /\ \A k \in 1..(Len(a) + Len(b)) :
           (a \o b)[k] = IF k <= Len(a) THEN a[k] ELSE b[k - Len(a)]
  BY LenProperties, ConcatProperties
<1>2. /\ p + (Len(a) + Len(b)) <= Len(bytes)
      /\ \A k \in 1..(Len(a) + Len(b)) : bytes[p + k] = (a \o b)[k]
  BY <1>1 DEF At
<1>3. ASSUME NEW k \in 1..Len(a) PROVE bytes[p + k] = a[k]
  <2>1. k \in 1..(Len(a) + Len(b)) /\ k <= Len(a)
    BY <1>1
  <2> QED BY <1>1, <1>2, <2>1
<1>4. ASSUME NEW k \in 1..Len(b) PROVE bytes[p + Len(a) + k] = b[k]
  <2>1. PICK m \in 1..(Len(a) + Len(b)) : m = Len(a) + k
    <3>1. Len(a) + k \in 1..(Len(a) + Len(b))
      BY <1>1
    <3> QED BY <3>1
  <2>2. ~(m <= Len(a)) /\ m - Len(a) = k /\ p + m = p + Len(a) + k
    BY <1>1, <2>1
  <2> QED BY <1>1, <1>2, <2>2
<1>5. p + Len(a) <= Len(bytes) /\ p + Len(a) + Len(b) <= Len(bytes)
  BY <1>1, <1>2
<1> QED BY <1>3, <1>4, <1>5 DEF At

LEMMA AtCell ==
  ASSUME NEW bytes \in Seq(Nat), NEW p \in Nat, NEW cells \in Seq(Nat), At(bytes, p, cells),
         NEW k \in 1..Len(cells)
  PROVE  /\ p + k \in 1..Len(bytes) /\ p + k <= Len(bytes) /\ p + k \in Nat
         /\ Cell(bytes, p + k) = cells[k]
<1>1. Len(cells) \in Nat /\ Len(bytes) \in Nat
  BY LenProperties
<1>2. p + k \in 1..Len(bytes) /\ p + k <= Len(bytes) /\ p + k \in Nat /\ p + k \in Int
  BY <1>1 DEF At
<1>3. Cell(bytes, p + k) = bytes[p + k]
  BY <1>2, CellIs
<1> QED BY <1>2, <1>3 DEF At

LEMMA AtOne ==
  ASSUME NEW bytes \in Seq(Nat), NEW p \in Nat, NEW cell \in Nat, At(bytes, p, <<cell>>)
  PROVE  p + 1 <= Len(bytes) /\ Cell(bytes, p + 1) = cell
<1>1. PICK cells \in Seq(Nat) : cells = <<cell>>
  <2>1. <<cell>> \in Seq(Nat)
    OBVIOUS
  <2> QED BY <2>1
<1>2. 1 \in 1..Len(cells) /\ cells[1] = cell
  BY <1>1
<1> QED BY <1>1, <1>2, AtCell

LEMMA AtCells ==
  ASSUME NEW bytes \in Seq(Nat), NEW p \in Nat, NEW cells \in Seq(Nat), At(bytes, p, cells)
  PROVE  Cells(bytes, p + 1, Len(cells)) = cells
<1>1. Len(cells) \in Nat
  BY LenProperties
<1>2. PICK n \in Nat : n = Len(cells)
  BY <1>1
<1>3. \A k \in 1..n : Cell(bytes, (p + 1) + k - 1) = cells[k]
  <2> TAKE k \in 1..n
  <2>1. (p + 1) + k - 1 = p + k
    OBVIOUS
  <2> QED BY <1>2, <2>1, AtCell
<1>4. /\ p + 1 \in Int /\ n \in Int
      /\ Cells(bytes, p + 1, n) \in Seq(Int) /\ Len(Cells(bytes, p + 1, n)) = n
      /\ \A k \in 1..n : Cells(bytes, p + 1, n)[k] = Cell(bytes, (p + 1) + k - 1)
  BY CellsAre
<1>5. cells \in Seq(Int)
  OBVIOUS
<1> DEFINE read == Cells(bytes, p + 1, n)
<1>6. read \in Seq(Int) /\ Len(read) = Len(cells) /\ \A k \in 1..Len(read) : read[k] = cells[k]
  BY <1>2, <1>3, <1>4
<1> HIDE DEF read
<1>7. read = cells
  BY <1>5, <1>6, SeqEqual
<1> QED BY <1>2, <1>7 DEF read
\* What SerializeTo has written of a value is read as this value, and the next value is
\* read behind it.
LEMMA ReadItem ==
  ASSUME as_dict_ \in BOOLEAN, NEW bytes \in Seq(Nat), NEW f, Reads(f, bytes),
         NEW value \in ProgramValues, value # Null, ~NoLength(value),
         NEW p \in Nat, At(bytes, p, ItemCells(value))
  PROVE  f[p + 1] = <<value>> \o f[p + Len(ItemCells(value)) + 1]
<1>1. /\ value.type \in Nat /\ value.data \in Seq(Nat) /\ Len(value.data) \in Nat
      /\ value = Value(value.type, value.data)
      /\ \/ value.type \in Sized
         \/ value.type \in OneCell /\ Len(value.data) = 1 /\ value.type \notin Sized
         \/ value.type \in TwoCells /\ Len(value.data) = 2 /\ value.type \notin Sized
  BY ProgramValueHas
<1>2. /\ Key \in Seq(Nat) /\ DataCells(value) \in Seq(Nat)
      /\ ItemCells(value) = (Key \o <<value.type>>) \o DataCells(value)
  BY ItemCellsIs
<1>3. Len(bytes) \in Nat /\ Len(Key) \in Nat /\ Len(DataCells(value)) \in Nat
  BY <1>2, LenProperties
<1>4. PICK type \in Seq(Nat) : type = <<value.type>> /\ Len(type) = 1
  <2>1. <<value.type>> \in Seq(Nat) /\ Len(<<value.type>>) = 1
    BY <1>1
  <2> QED BY <2>1
<1>5. PICK first \in Seq(Nat) : first = Key \o type /\ Len(first) = Len(Key) + 1
  <2>1. Key \o type \in Seq(Nat) /\ Len(Key \o type) = Len(Key) + Len(type)
    BY <1>2, ConcatProperties
  <2> QED BY <1>4, <2>1
<1>6. ItemCells(value) = first \o DataCells(value)
  BY <1>2, <1>4, <1>5
<1>7. At(bytes, p, first) /\ At(bytes, p + Len(first), DataCells(value))
  <2>1. At(bytes, p, first \o DataCells(value))
    BY <1>6
  <2> QED BY <1>2, <2>1, AtParts
<1>8. At(bytes, p, Key) /\ At(bytes, p + Len(Key), type)
  <2>1. At(bytes, p, Key \o type)
    BY <1>5, <1>7
  <2> QED BY <1>2, <2>1, AtParts
<1>9. PICK q \in Nat : q = p + Len(Key)
  <2>1. p + Len(Key) \in Nat
    BY <1>3
  <2> QED BY <2>1
<1>10. PICK i \in Nat : i = q + 1
  OBVIOUS
<1>11. f[p + 1] = f[i]
  <2>1. CASE as_dict_
    <3>1. Key = <<kEmptyKey>> /\ kEmptyKey \in Nat /\ Len(Key) = 1
      BY <2>1 DEF Key, kEmptyKey
    <3>2. p + 1 <= Len(bytes) /\ Cell(bytes, p + 1) = kEmptyKey
      BY <1>8, <3>1, AtOne
    <3>3. p + 1 \in Nat /\ (p + 1) + 1 = i
      BY <1>9, <1>10, <3>1
    <3>4. Read(f, bytes, p + 1) = f[(p + 1) + 1]
      BY <1>3, <3>2, <3>3, ReadIs, Zenon
    <3>5. f[p + 1] = Read(f, bytes, p + 1)
      BY <3>3, ReadsAt, Zenon
    <3> QED BY <3>3, <3>4, <3>5
  <2>2. CASE ~as_dict_
    <3>1. Len(Key) = 0
      BY <2>2 DEF Key
    <3> QED BY <1>9, <1>10, <3>1
  <2> QED BY <2>1, <2>2
<1>12. i <= Len(bytes) /\ Cell(bytes, i) = value.type
  <2>1. At(bytes, q, <<value.type>>)
    BY <1>4, <1>8, <1>9
  <2>2. q + 1 <= Len(bytes) /\ Cell(bytes, q + 1) = value.type
    BY <1>1, <2>1, AtOne
  <2> QED BY <1>10, <2>2
<1>13. At(bytes, i, DataCells(value))
  <2>1. p + Len(first) = i
    BY <1>3, <1>5, <1>9, <1>10
  <2> QED BY <1>7, <2>1
<1>14. p + Len(ItemCells(value)) + 1 = i + Len(DataCells(value)) + 1
  <2>1. Len(first \o DataCells(value)) = Len(first) + Len(DataCells(value))
    BY <1>2, ConcatProperties
  <2> QED BY <1>3, <1>5, <1>6, <1>9, <1>10, <2>1
<1>15. f[i] = Read(f, bytes, i)
  BY ReadsAt, Zenon
<1>16. f[i] = <<value>> \o f[i + Len(DataCells(value)) + 1]
  <2>1. CASE value.type \in Sized
    <3>1. PICK n \in Nat : n = Len(value.data)
      BY <1>1
    <3>2. PICK size \in Seq(Nat) : size = <<n>> /\ Len(size) = 1
      <4>1. <<n>> \in Seq(Nat) /\ Len(<<n>>) = 1
        OBVIOUS
      <4> QED BY <4>1
    <3>3. DataCells(value) = size \o value.data /\ Len(DataCells(value)) = 1 + n
      <4>1. DataCells(value) = size \o value.data
        BY <2>1, <3>1, <3>2 DEF DataCells
      <4>2. Len(size \o value.data) = Len(size) + Len(value.data)
        BY <1>1, ConcatProperties
      <4> QED BY <3>1, <3>2, <4>1, <4>2
    <3>4. At(bytes, i, size) /\ At(bytes, i + 1, value.data)
      <4>1. At(bytes, i, size \o value.data)
        BY <1>13, <3>3
      <4>2. At(bytes, i, size) /\ At(bytes, i + Len(size), value.data)
        BY <1>1, <4>1, AtParts
      <4> QED BY <3>2, <4>2
    <3>5. Cell(bytes, i + 1) = n
      BY <3>2, <3>4, AtOne
    <3>6. Cells(bytes, i + 2, n) = value.data
      <4>1. PICK j \in Nat : j = i + 1
        OBVIOUS
      <4>2. Cells(bytes, j + 1, Len(value.data)) = value.data
        BY <1>1, <3>4, <4>1, AtCells
      <4>3. j + 1 = i + 2
        BY <4>1
      <4> QED BY <3>1, <4>2, <4>3
    <3>7. Cell(bytes, i) \in Sized
      BY <1>12, <2>1
    <3>8. Read(f, bytes, i) =
            <<Value(Cell(bytes, i), Cells(bytes, i + 2, Cell(bytes, i + 1)))>>
              \o f[i + 2 + Cell(bytes, i + 1)]
      BY <1>3, <1>12, <3>7, ReadSized, Zenon
    <3>9. Read(f, bytes, i) = <<Value(value.type, value.data)>> \o f[i + 2 + n]
      BY <1>12, <3>5, <3>6, <3>8
    <3>10. i + 2 + n = i + Len(DataCells(value)) + 1
      BY <3>3
    <3> QED BY <1>1, <1>15, <3>9, <3>10
  <2>2. ASSUME NEW n \in {1, 2}, Len(value.data) = n, value.type \notin Sized
        PROVE  Cells(bytes, i + 1, n) = value.data /\ Len(DataCells(value)) = n
    <3>1. DataCells(value) = value.data
      BY <2>2 DEF DataCells
    <3>2. Cells(bytes, i + 1, Len(value.data)) = value.data
      BY <1>1, <1>13, <3>1, AtCells
    <3> QED BY <2>2, <3>1, <3>2
  <2>3. CASE value.type \in OneCell /\ Len(value.data) = 1 /\ value.type \notin Sized
    <3>1. Cells(bytes, i + 1, 1) = value.data /\ Len(DataCells(value)) = 1
      BY <2>2, <2>3
    <3>2. Cell(bytes, i) \in OneCell
      BY <1>12, <2>3
    <3>3. Read(f, bytes, i) = <<Value(Cell(bytes, i), Cells(bytes, i + 1, 1))>> \o f[i + 2]
      BY <1>3, <1>12, <3>2, ReadIs, Zenon
    <3>4. i + 2 = i + 1 + 1
      OBVIOUS
    <3> QED BY <1>1, <1>12, <1>15, <3>1, <3>3, <3>4
  <2>4. CASE value.type \in TwoCells /\ Len(value.data) = 2 /\ value.type \notin Sized
    <3>1. Cells(bytes, i + 1, 2) = value.data /\ Len(DataCells(value)) = 2
      BY <2>2, <2>4
    <3>2. Cell(bytes, i) \in TwoCells
      BY <1>12, <2>4
    <3>3. Read(f, bytes, i) = <<Value(Cell(bytes, i), Cells(bytes, i + 1, 2))>> \o f[i + 3]
      BY <1>3, <1>12, <3>2, ReadIs, Zenon
    <3>4. i + 3 = i + 2 + 1
      OBVIOUS
    <3> QED BY <1>1, <1>12, <1>15, <3>1, <3>3, <3>4
  <2> QED BY <1>1, <2>1, <2>3, <2>4
<1> QED BY <1>11, <1>14, <1>16
-----------------------------------------------------------------------------
(* The cells of an array *)

CellsOf(array) == [i \in DOMAIN array |-> ItemCells(array[i])]
ItemsOf(array) == FlattenSeq(CellsOf(array))

\* What is shown of an array: its values but for the null values.
ShownOf(value) == IF value = Null THEN <<>> ELSE <<value>>
Shows(array) == [i \in DOMAIN array |-> ShownOf(array[i])]
Shown(array) == FlattenSeq(Shows(array))

LEMMA ShownOfIs ==
  ASSUME NEW value \in ProgramValues
  PROVE  ShownOf(value) \in Seq(ProgramValues)
<1>1. <<value>> \in Seq(ProgramValues) /\ <<>> \in Seq(ProgramValues)
  BY EmptySeq
<1> QED BY <1>1 DEF ShownOf

LEMMA CellsOfAre ==
  ASSUME NEW array \in Seq(ProgramValues), as_dict_ \in BOOLEAN
  PROVE  /\ CellsOf(array) \in Seq(Seq(Nat)) /\ Len(CellsOf(array)) = Len(array)
         /\ \A i \in 1..Len(array) : CellsOf(array)[i] = ItemCells(array[i])
<1>1. DOMAIN array = 1..Len(array) /\ Len(array) \in Nat
  BY LenProperties
<1>2. \A i \in 1..Len(array) : ItemCells(array[i]) \in Seq(Nat)
  BY ElementOfSeq, ItemCellsAre
<1> QED BY <1>1, <1>2 DEF CellsOf

LEMMA ShowsAre ==
  ASSUME NEW array \in Seq(ProgramValues)
  PROVE  /\ Shows(array) \in Seq(Seq(ProgramValues)) /\ Len(Shows(array)) = Len(array)
         /\ \A i \in 1..Len(array) : Shows(array)[i] = ShownOf(array[i])
<1>1. DOMAIN array = 1..Len(array) /\ Len(array) \in Nat
  BY LenProperties
<1>2. \A i \in 1..Len(array) : ShownOf(array[i]) \in Seq(ProgramValues)
  BY ElementOfSeq, ShownOfIs
<1> QED BY <1>1, <1>2 DEF Shows

\* Two sequences whose elements are those of a third one and one more.
LEMMA SameAppended ==
  ASSUME NEW S, NEW long \in Seq(S), NEW short \in Seq(S), NEW last \in S,
         Len(long) = Len(short) + 1, long[Len(short) + 1] = last,
         \A i \in 1..Len(short) : long[i] = short[i]
  PROVE  long = Append(short, last)
<1> DEFINE want == Append(short, last)
<1>1. /\ want \in Seq(S) /\ Len(want) = Len(short) + 1 /\ Len(short) \in Nat
      /\ \A i \in 1..Len(short) : want[i] = short[i]
      /\ want[Len(short) + 1] = last
  BY AppendProperties, LenProperties
<1> HIDE DEF want
<1>2. ASSUME NEW i \in 1..Len(long) PROVE long[i] = want[i]
  <2>1. i \in 1..Len(short) \/ i = Len(short) + 1
    BY <1>1
  <2> QED BY <1>1, <2>1
<1>3. long = want
  BY <1>1, <1>2, SeqEqual
<1> QED BY <1>3 DEF want

LEMMA ArrayAppend ==
  ASSUME NEW array \in Seq(ProgramValues), NEW value \in ProgramValues, as_dict_ \in BOOLEAN
  PROVE  /\ ItemsOf(array) \in Seq(Nat)
         /\ ItemsOf(Append(array, value)) = ItemsOf(array) \o ItemCells(value)
         /\ Shown(array) \in Seq(ProgramValues)
         /\ Shown(Append(array, value)) = Shown(array) \o ShownOf(value)
<1> DEFINE more == Append(array, value)
<1>1. /\ more \in Seq(ProgramValues) /\ Len(more) = Len(array) + 1 /\ Len(array) \in Nat
      /\ \A i \in 1..Len(array) : more[i] = array[i]
      /\ more[Len(array) + 1] = value
  BY AppendProperties, LenProperties
<1> HIDE DEF more
<1>2. \A i \in 1..(Len(array) + 1) : i \in 1..Len(more)
  BY <1>1
<1>3. Len(array) + 1 \in 1..(Len(array) + 1) /\ \A i \in 1..Len(array) : i \in 1..(Len(array) + 1)
  BY <1>1
<1>4. /\ ItemsOf(array) \in Seq(Nat)
      /\ ItemsOf(more) = ItemsOf(array) \o ItemCells(value)
  <2>1. /\ CellsOf(array) \in Seq(Seq(Nat)) /\ Len(CellsOf(array)) = Len(array)
        /\ \A i \in 1..Len(array) : CellsOf(array)[i] = ItemCells(array[i])
    BY CellsOfAre
  <2>2. /\ CellsOf(more) \in Seq(Seq(Nat)) /\ Len(CellsOf(more)) = Len(more)
        /\ \A i \in 1..Len(more) : CellsOf(more)[i] = ItemCells(more[i])
    BY <1>1, CellsOfAre
  <2>3. ItemCells(value) \in Seq(Nat)
    BY ItemCellsAre
  <2>4. CellsOf(more) = Append(CellsOf(array), ItemCells(value))
    BY <1>1, <1>2, <1>3, <2>1, <2>2, <2>3, SameAppended
  <2> QED BY <2>1, <2>3, <2>4, FlattenAppend, FlattenIsSeq DEF ItemsOf
<1>5. /\ Shown(array) \in Seq(ProgramValues)
      /\ Shown(more) = Shown(array) \o ShownOf(value)
  <2>1. /\ Shows(array) \in Seq(Seq(ProgramValues)) /\ Len(Shows(array)) = Len(array)
        /\ \A i \in 1..Len(array) : Shows(array)[i] = ShownOf(array[i])
    BY ShowsAre
  <2>2. /\ Shows(more) \in Seq(Seq(ProgramValues)) /\ Len(Shows(more)) = Len(more)
        /\ \A i \in 1..Len(more) : Shows(more)[i] = ShownOf(more[i])
    BY <1>1, ShowsAre
  <2>3. ShownOf(value) \in Seq(ProgramValues)
    BY ShownOfIs
  <2>4. Shows(more) = Append(Shows(array), ShownOf(value))
    BY <1>1, <1>2, <1>3, <2>1, <2>2, <2>3, SameAppended
  <2> QED BY <2>1, <2>3, <2>4, FlattenAppend, FlattenIsSeq DEF Shown
<1> QED BY <1>4, <1>5 DEF more

LEMMA NoItems == ItemsOf(<<>>) = <<>> /\ Shown(<<>>) = <<>>
<1>1. DOMAIN <<>> = {}
  BY EmptySeq
<1>2. CellsOf(<<>>) = <<>> /\ Shows(<<>>) = <<>>
  BY <1>1 DEF CellsOf, Shows
<1> QED BY <1>2, FlattenEmpty DEF ItemsOf, Shown

LEMMA ReadableJoined ==
  \A x, y, z \in Seq(Readable) : (x \o y) \o z = x \o (y \o z)
<1> TAKE x, y, z \in Seq(Readable)
<1> DEFINE R == Readable
<1>1. x \in Seq(R) /\ y \in Seq(R) /\ z \in Seq(R)
  OBVIOUS
<1> HIDE DEF R
<1> QED BY <1>1, ConcatAssociative

\* An array that SerializeTo has written at the beginning of some bytes is read from them.
LEMMA ReadItems ==
  ASSUME as_dict_ \in BOOLEAN, NEW bytes \in Seq(Nat), NEW f, Reads(f, bytes),
         NEW array \in Seq(ProgramValues), \A i \in 1..Len(array) : ~NoLength(array[i]),
         At(bytes, 0, ItemsOf(array))
  PROVE  f[1] = Shown(array) \o f[Len(ItemsOf(array)) + 1]
<1> DEFINE reads(a) ==
             (\A i \in 1..Len(a) : ~NoLength(a[i])) /\ At(bytes, 0, ItemsOf(a)) =>
               f[1] = Shown(a) \o f[Len(ItemsOf(a)) + 1]
           done == {n \in Nat : \A a \in Seq(ProgramValues) : Len(a) = n => reads(a)}
<1>1. 0 \in done
  <2>1. ASSUME NEW a \in Seq(ProgramValues), Len(a) = 0 PROVE reads(a)
    <3>1. a = <<>>
      BY <2>1, EmptySeq
    <3>2. Shown(a) = <<>> /\ Len(ItemsOf(a)) = 0
      BY <3>1, NoItems, EmptySeq
    <3>3. f[1] \in Seq(Readable) /\ 0 + 1 = 1
      BY ReadsAreSeq
    <3>4. <<>> \o f[1] = f[1]
      BY <3>3, ConcatEmptySeq
    <3> QED BY <3>2, <3>3, <3>4
  <2> HIDE DEF reads
  <2> QED BY <2>1
<1>2. ASSUME NEW n \in Nat, n \in done PROVE n + 1 \in done
  <2>1. ASSUME NEW a \in Seq(ProgramValues), Len(a) = n + 1,
               \A i \in 1..Len(a) : ~NoLength(a[i]), At(bytes, 0, ItemsOf(a))
        PROVE  f[1] = Shown(a) \o f[Len(ItemsOf(a)) + 1]
    <3>1. a # <<>>
      BY <2>1, EmptySeq
    <3>2. PICK b \in Seq(ProgramValues), value \in ProgramValues : a = Append(b, value)
      BY <3>1, SequenceEmptyOrAppend
    <3>3. /\ Len(a) = Len(b) + 1 /\ Len(b) \in Nat
          /\ \A i \in 1..Len(b) : a[i] = b[i]
          /\ a[Len(b) + 1] = value
      BY <3>2, AppendProperties, LenProperties
    <3>4. Len(b) = n
      BY <2>1, <3>3
    <3>5. (\A i \in 1..Len(b) : ~NoLength(b[i])) /\ ~NoLength(value)
      <4>1. Len(b) + 1 \in 1..Len(a) /\ \A i \in 1..Len(b) : i \in 1..Len(a)
        BY <3>3
      <4> QED BY <2>1, <3>3, <4>1
    <3>6. /\ ItemsOf(b) \in Seq(Nat) /\ ItemsOf(a) = ItemsOf(b) \o ItemCells(value)
          /\ Shown(b) \in Seq(ProgramValues) /\ Shown(a) = Shown(b) \o ShownOf(value)
      BY <3>2, ArrayAppend
    <3>7. ItemCells(value) \in Seq(Nat)
      BY ItemCellsAre
    <3>8. At(bytes, 0, ItemsOf(b)) /\ At(bytes, 0 + Len(ItemsOf(b)), ItemCells(value))
      <4>1. At(bytes, 0, ItemsOf(b) \o ItemCells(value)) /\ 0 \in Nat
        BY <2>1, <3>6
      <4> QED BY <3>6, <3>7, <4>1, AtParts
    <3>9. f[1] = Shown(b) \o f[Len(ItemsOf(b)) + 1]
      <4>1. reads(b)
        <5> HIDE DEF reads
        <5> QED BY <1>2, <3>4
      <4> QED BY <3>5, <3>8, <4>1
    <3>10. PICK p \in Nat : p = Len(ItemsOf(b))
      BY <3>6, LenProperties
    <3>11. Len(ItemsOf(a)) = p + Len(ItemCells(value)) /\ Len(ItemCells(value)) \in Nat
      BY <3>6, <3>7, <3>10, ConcatProperties
    <3>12. f[p + 1] = ShownOf(value) \o f[p + Len(ItemCells(value)) + 1]
      <4>1. CASE value = Null
        <5>1. ShownOf(value) = <<>> /\ Len(ItemCells(value)) = 0
          BY <4>1, NullHasNoCells, EmptySeq DEF ShownOf
        <5>2. p + 1 \in Nat /\ p + 0 + 1 = p + 1
          OBVIOUS
        <5>3. f[p + 1] \in Seq(Readable)
          BY <5>2, ReadsAreSeq
        <5>4. <<>> \o f[p + 1] = f[p + 1]
          BY <5>3, ConcatEmptySeq
        <5> QED BY <5>1, <5>2, <5>4
      <4>2. CASE value # Null
        <5>1. ShownOf(value) = <<value>>
          BY <4>2 DEF ShownOf
        <5>2. At(bytes, p, ItemCells(value))
          BY <3>8, <3>10
        <5>3. f[p + 1] = <<value>> \o f[p + Len(ItemCells(value)) + 1]
          BY <3>5, <4>2, <5>2, ReadItem
        <5> QED BY <5>1, <5>3
      <4> QED BY <4>1, <4>2
    <3>13. PICK rest \in Seq(Readable) : rest = f[p + Len(ItemCells(value)) + 1]
      <4>1. p + Len(ItemCells(value)) + 1 \in Nat
        BY <3>11
      <4> QED BY <4>1, ReadsAreSeq
    <3>14. Shown(b) \in Seq(Readable) /\ ShownOf(value) \in Seq(Readable)
      <4>1. ProgramValues \subseteq Readable
        BY DEF ProgramValues, Readable
      <4>2. ShownOf(value) \in Seq(ProgramValues)
        BY ShownOfIs
      <4> QED BY <3>6, <4>1, <4>2, SeqMonotonic
    <3>15. Shown(b) \o (ShownOf(value) \o rest) = (Shown(b) \o ShownOf(value)) \o rest
      BY <3>14, ReadableJoined, Zenon
    <3> QED BY <3>6, <3>9, <3>10, <3>11, <3>12, <3>13, <3>15
  <2>2. \A a \in Seq(ProgramValues) : Len(a) = n + 1 => reads(a)
    BY <2>1
  <2> HIDE DEF reads
  <2> QED BY <2>2
<1>3. Nat \subseteq done
  <2> HIDE DEF done
  <2> QED BY <1>1, <1>2, NatSetInduction
<1>4. Len(array) \in Nat
  BY LenProperties
<1>5. reads(array)
  <2> HIDE DEF reads
  <2> QED BY <1>3, <1>4
<1> QED BY <1>5
-----------------------------------------------------------------------------
(* The cells of a message *)

LEMMA ItemsAreCounted ==
  ASSUME NEW array \in Seq(ProgramValues), \A i \in 1..Len(array) : ~NoLength(array[i]),
         as_dict_ \in BOOLEAN
  PROVE  Len(ItemsOf(array)) = Total([i \in DOMAIN array |-> ItemLength(array[i])], Len(array))
<1>1. /\ CellsOf(array) \in Seq(Seq(Nat)) /\ Len(CellsOf(array)) = Len(array)
      /\ \A i \in 1..Len(array) : CellsOf(array)[i] = ItemCells(array[i])
  BY CellsOfAre
<1>2. Len(ItemsOf(array)) = Total(SizesOf(CellsOf(array)), Len(array))
  BY <1>1, LenFlatten DEF ItemsOf
<1>3. DOMAIN array = 1..Len(array) /\ DOMAIN CellsOf(array) = 1..Len(array)
  BY <1>1, LenProperties
<1>4. \A i \in 1..Len(array) : Len(ItemCells(array[i])) = ItemLength(array[i])
  <2> TAKE i \in 1..Len(array)
  <2>1. array[i] \in ProgramValues
    BY ElementOfSeq
  <2> QED BY <2>1, ItemCellsAre
<1>5. SizesOf(CellsOf(array)) = [i \in 1..Len(array) |-> Len(CellsOf(array)[i])]
  BY <1>3 DEF SizesOf
<1>6. SizesOf(CellsOf(array)) = [i \in DOMAIN array |-> ItemLength(array[i])]
  BY <1>1, <1>3, <1>4, <1>5
<1> QED BY <1>2, <1>6

\* The length in the header of an array is that of the array.
LEMMA ArrayIsCounted ==
  ASSUME NEW array \in Seq(ProgramValues), \A i \in 1..Len(array) : ~NoLength(array[i]),
         as_dict_ \in BOOLEAN, array # <<>>
  PROVE  ArrayLength(array) = 4 + Len(ItemsOf(array)) /\ Len(ItemsOf(array)) \in Nat
<1>1. array \notin {NoArray, <<>>}
  BY NoArrayIsNone
<1>2. ArrayLength(array) =
        4 + Total([i \in DOMAIN array |-> ItemLength(array[i])], Len(array))
  BY <1>1, Zenon DEF ArrayLength, kDTXPrimitiveArrayHeaderSize
<1>3. ItemsOf(array) \in Seq(Nat)
  BY NullIsValue, ArrayAppend
<1> QED BY <1>2, <1>3, ItemsAreCounted, LenProperties

LEMMA JoinedIs ==
  ASSUME NEW a \in Seq(Nat), NEW b \in Seq(Nat), NEW n \in Nat, NEW m \in Nat,
         Len(a) = n, Len(b) = m
  PROVE  /\ a \o b \in Seq(Nat) /\ Len(a \o b) = n + m
         /\ \A i \in 1..n : (a \o b)[i] = a[i]
         /\ \A i \in 1..m : (a \o b)[n + i] = b[i]
<1>1. /\ a \o b \in Seq(Nat) /\ Len(a \o b) = n + m
      /\ \A i \in 1..(n + m) : (a \o b)[i] = IF i <= n THEN a[i] ELSE b[i - n]
  BY ConcatProperties
<1>2. ASSUME NEW i \in 1..n PROVE (a \o b)[i] = a[i]
  <2>1. i \in 1..(n + m) /\ i <= n
    OBVIOUS
  <2> QED BY <1>1, <2>1
<1>3. ASSUME NEW i \in 1..m PROVE (a \o b)[n + i] = b[i]
  <2>1. PICK j \in 1..(n + m) : j = n + i
    <3>1. n + i \in 1..(n + m)
      OBVIOUS
    <3> QED BY <3>1
  <2>2. ~(j <= n) /\ j - n = i
    BY <2>1
  <2>3. (a \o b)[j] = b[j - n]
    BY <1>1, <2>2
  <2> QED BY <2>1, <2>2, <2>3
<1> QED BY <1>1, <1>2, <1>3

LEMMA ArrayContent ==
  ASSUME NEW array \in Seq(ProgramValues), \A i \in 1..Len(array) : ~NoLength(array[i]),
         as_dict_ \in BOOLEAN, array # <<>>
  PROVE  \E head \in Seq(Nat) :
           /\ Len(head) = 4 /\ head[3] = ArrayLength(array) - 4
           /\ ArrayChunks(array) \in Seq(Seq(Nat))
           /\ FlattenSeq(ArrayChunks(array)) = head \o ItemsOf(array)
<1> DEFINE items == [i \in DOMAIN array |-> ItemChunks(array[i])]
<1>1. PICK length \in Nat : length = ArrayLength(array) - 4
  BY ArrayIsCounted
<1>2. PICK a \in Seq(Nat), b \in Seq(Nat) :
        a = <<Capacity, 0>> /\ b = <<length, 0>> /\ Len(a) = 2 /\ Len(b) = 2 /\ b[1] = length
  <2>1. <<Capacity, 0>> \in Seq(Nat) /\ <<length, 0>> \in Seq(Nat)
    BY <1>1 DEF Capacity
  <2> QED BY <2>1
<1>3. ArrayChunks(array) = <<a, b>> \o FlattenSeq(items)
  BY <1>1, <1>2 DEF ArrayChunks, kDTXPrimitiveArrayHeaderSize
<1>4. DOMAIN array = 1..Len(array) /\ Len(array) \in Nat
  BY LenProperties
<1>5. \A i \in 1..Len(array) : ItemChunks(array[i]) \in Seq(Seq(Nat))
  <2> TAKE i \in 1..Len(array)
  <2>1. array[i] \in ProgramValues
    BY ElementOfSeq
  <2> QED BY <2>1, ItemCellsAre
<1>6. items \in Seq(Seq(Seq(Nat))) /\ DOMAIN items = DOMAIN array
      /\ \A i \in DOMAIN array : items[i] = ItemChunks(array[i])
  BY <1>4, <1>5
<1> HIDE DEF items
<1>7. EachJoined(items) = CellsOf(array)
  BY <1>6 DEF EachJoined, CellsOf, ItemCells
<1>8. FlattenSeq(FlattenSeq(items)) = ItemsOf(array)
  BY <1>6, <1>7, FlattenTwice DEF ItemsOf
<1>9. FlattenSeq(items) \in Seq(Seq(Nat))
  BY <1>6, FlattenIsSeq
<1>10. PICK two \in Seq(Seq(Nat)) : two = <<a, b>>
  <2>1. <<a, b>> \in Seq(Seq(Nat))
    OBVIOUS
  <2> QED BY <2>1
<1>11. FlattenSeq(two) = a \o b
  BY <1>10, FlattenTwo
<1>12. FlattenSeq(two \o FlattenSeq(items)) = FlattenSeq(two) \o FlattenSeq(FlattenSeq(items))
  BY <1>9, FlattenConcat
<1>13. PICK head \in Seq(Nat) : head = a \o b /\ Len(head) = 4 /\ head[3] = length
  <2>1. /\ a \o b \in Seq(Nat) /\ Len(a \o b) = 2 + 2
        /\ \A i \in 1..2 : (a \o b)[2 + i] = b[i]
    BY <1>2, JoinedIs
  <2>2. PICK head \in Seq(Nat) : head = a \o b
    BY <2>1
  <2>3. Len(head) = 4 /\ head[3] = b[1]
    <3> 1 \in 1..2 /\ 2 + 1 = 3 /\ 2 + 2 = 4
      OBVIOUS
    <3> QED BY <2>1, <2>2
  <2> QED BY <1>2, <2>2, <2>3, Zenon
<1>14. ArrayChunks(array) \in Seq(Seq(Nat))
  <2>1. two \o FlattenSeq(items) \in Seq(Seq(Nat))
    BY <1>9, ConcatProperties
  <2> QED BY <1>3, <1>10, <2>1
<1>15. FlattenSeq(ArrayChunks(array)) = head \o ItemsOf(array)
  BY <1>3, <1>8, <1>10, <1>11, <1>12, <1>13
<1> QED BY <1>1, <1>13, <1>14, <1>15

LEMMA FlattenThree ==
  ASSUME NEW S, NEW s \in Seq(S), NEW t \in Seq(S), NEW u \in Seq(S)
  PROVE  FlattenSeq(<<s, t, u>>) = (s \o t) \o u /\ <<s, t, u>> \in Seq(Seq(S))
<1>1. <<s, t>> \in Seq(Seq(S)) /\ <<s, t, u>> = Append(<<s, t>>, u)
      /\ <<s, t, u>> \in Seq(Seq(S))
  OBVIOUS
<1>2. FlattenSeq(Append(<<s, t>>, u)) = FlattenSeq(<<s, t>>) \o u
  BY <1>1, FlattenAppend
<1> QED BY <1>1, <1>2, FlattenTwo

\* The values that SerializeTo writes with what is counted for them.
Written(array) ==
  array = NoArray \/ (array \in Seq(ProgramValues) /\ \A i \in 1..Len(array) : ~NoLength(array[i]))

\* What SerializeTo hands out, joined: a header, the array and the payload.
LEMMA MessageContent ==
  ASSUME NEW array, Written(array), NEW bytes \in Seq(Nat), as_dict_ \in BOOLEAN,
         message_type_ \in Nat
  PROVE  \E head \in Seq(Nat), items \in Seq(Nat) :
           /\ Len(head) = 4 /\ head[1] = message_type_ /\ head[2] = ArrayLength(array)
           /\ head[3] = ArrayLength(array) + Len(bytes)
           /\ ArrayLength(array) \in Nat /\ Len(items) = ArrayLength(array)
           /\ ArrayLength(array) > 0 <=> array \notin {NoArray, <<>>}
           /\ ArrayLength(array) > 0 => items = FlattenSeq(ArrayChunks(array))
           /\ FlattenSeq(SerializeTo(array, bytes)) = (head \o items) \o bytes
<1>1. PICK AL \in Nat : AL = ArrayLength(array)
  BY ArrayLengthIs DEF Written
<1>2. PICK LB \in Nat : LB = Len(bytes)
  BY LenProperties
<1>3. PICK a \in Seq(Nat), b \in Seq(Nat), c \in Seq(Nat) :
        /\ a = <<message_type_>> /\ b = <<AL>> /\ c = <<AL + LB, 0>>
        /\ Len(a) = 1 /\ Len(b) = 1 /\ Len(c) = 2
        /\ a[1] = message_type_ /\ b[1] = AL /\ c[1] = AL + LB
  <2>1. <<message_type_>> \in Seq(Nat) /\ <<AL>> \in Seq(Nat) /\ <<AL + LB, 0>> \in Seq(Nat)
    OBVIOUS
  <2> QED BY <2>1
<1>4. PICK three \in Seq(Seq(Nat)) : three = <<a, b, c>> /\ FlattenSeq(three) = (a \o b) \o c
  <2>1. FlattenSeq(<<a, b, c>>) = (a \o b) \o c /\ <<a, b, c>> \in Seq(Seq(Nat))
    BY FlattenThree
  <2> QED BY <2>1
<1>5. PICK ab \in Seq(Nat) :
        /\ ab = a \o b /\ Len(ab) = 2 /\ ab[1] = message_type_ /\ ab[2] = AL
  <2>1. /\ a \o b \in Seq(Nat) /\ Len(a \o b) = 1 + 1
        /\ \A i \in 1..1 : (a \o b)[i] = a[i]
        /\ \A i \in 1..1 : (a \o b)[1 + i] = b[i]
    BY <1>3, JoinedIs
  <2>2. PICK ab \in Seq(Nat) : ab = a \o b
    BY <2>1
  <2>3. Len(ab) = 2 /\ ab[1] = a[1] /\ ab[2] = b[1]
    <3> 1 \in 1..1 /\ 1 + 1 = 2
      OBVIOUS
    <3> QED BY <2>1, <2>2
  <2>4. ab[1] = message_type_ /\ ab[2] = AL
    BY <1>3, <2>3, Zenon
  <2> QED BY <2>2, <2>3, <2>4, Zenon
<1>6. PICK head \in Seq(Nat) :
        /\ head = ab \o c /\ Len(head) = 4
        /\ head[1] = message_type_ /\ head[2] = AL /\ head[3] = AL + LB
  <2>1. /\ ab \o c \in Seq(Nat) /\ Len(ab \o c) = 2 + 2
        /\ \A i \in 1..2 : (ab \o c)[i] = ab[i]
        /\ \A i \in 1..2 : (ab \o c)[2 + i] = c[i]
    BY <1>3, <1>5, JoinedIs
  <2>2. PICK head \in Seq(Nat) : head = ab \o c
    BY <2>1
  <2>3. Len(head) = 4 /\ head[1] = ab[1] /\ head[2] = ab[2] /\ head[3] = c[1]
    <3> 1 \in 1..2 /\ 2 \in 1..2 /\ 2 + 1 = 3 /\ 2 + 2 = 4
      OBVIOUS
    <3> QED BY <2>1, <2>2
  <2>4. head[1] = message_type_ /\ head[2] = AL /\ head[3] = AL + LB
    BY <1>3, <1>5, <2>3, Zenon
  <2> QED BY <2>2, <2>3, <2>4, Zenon
<1> DEFINE middle == IF AL > 0 THEN ArrayChunks(array) ELSE <<>>
           tail == IF LB > 0 THEN <<bytes>> ELSE <<>>
<1>7. SerializeTo(array, bytes) = (three \o middle) \o tail
  BY <1>1, <1>2, <1>3, <1>4 DEF SerializeTo
<1>8. AL > 0 <=> array \notin {NoArray, <<>>}
  <2>1. CASE array \in {NoArray, <<>>}
    BY <1>1, <2>1, ArrayLengthIs DEF Written
  <2>2. CASE array \notin {NoArray, <<>>}
    <3>1. AL = 4 + Len(ItemsOf(array)) /\ Len(ItemsOf(array)) \in Nat
      BY <1>1, <2>2, ArrayIsCounted DEF Written
    <3> QED BY <2>2, <3>1
  <2> QED BY <2>1, <2>2
<1>9. PICK items \in Seq(Nat) :
        /\ Len(items) = AL /\ middle \in Seq(Seq(Nat)) /\ items = FlattenSeq(middle)
  <2>1. CASE AL > 0
    <3>1. array \in Seq(ProgramValues) /\ array # <<>>
          /\ \A i \in 1..Len(array) : ~NoLength(array[i])
      BY <1>8, <2>1 DEF Written
    <3>2. middle = ArrayChunks(array)
      BY <2>1
    <3> HIDE DEF middle
    <3>3. PICK h \in Seq(Nat) :
            /\ Len(h) = 4 /\ middle \in Seq(Seq(Nat))
            /\ FlattenSeq(middle) = h \o ItemsOf(array)
      BY <3>1, <3>2, ArrayContent
    <3>4. AL = 4 + Len(ItemsOf(array)) /\ ItemsOf(array) \in Seq(Nat)
      BY <1>1, <3>1, ArrayIsCounted, ArrayAppend, NullIsValue
    <3>5. PICK list \in Seq(Nat) : list = ItemsOf(array)
      BY <3>4
    <3>6. h \o list \in Seq(Nat) /\ Len(h \o list) = Len(h) + Len(list)
      BY ConcatProperties
    <3> QED BY <3>3, <3>4, <3>5, <3>6
  <2>2. CASE ~(AL > 0)
    <3>1. middle = <<>> /\ AL = 0
      BY <2>2
    <3> HIDE DEF middle
    <3> QED BY <3>1, FlattenEmpty, EmptySeq
  <2> QED BY <2>1, <2>2
<1>10. tail \in Seq(Seq(Nat)) /\ FlattenSeq(tail) = bytes
  <2>1. CASE LB > 0
    <3>1. tail = <<bytes>>
      BY <2>1
    <3> HIDE DEF tail
    <3> QED BY <3>1, FlattenOne
  <2>2. CASE ~(LB > 0)
    <3>1. tail = <<>> /\ bytes = <<>>
      BY <1>2, <2>2, EmptySeq
    <3> HIDE DEF tail
    <3> QED BY <3>1, FlattenEmpty, EmptySeq
  <2> QED BY <2>1, <2>2
<1>11. AL > 0 => items = FlattenSeq(ArrayChunks(array))
  BY <1>9
<1> HIDE DEF middle, tail
<1>12. three \o middle \in Seq(Seq(Nat)) /\ FlattenSeq(three \o middle) = head \o items
  <2>1. FlattenSeq(three \o middle) = FlattenSeq(three) \o FlattenSeq(middle)
    BY <1>9, FlattenConcat
  <2> QED BY <1>4, <1>5, <1>6, <1>9, <2>1, ConcatProperties
<1>13. FlattenSeq((three \o middle) \o tail) = (head \o items) \o bytes
  <2>1. PICK front \in Seq(Seq(Nat)) : front = three \o middle
    BY <1>12
  <2>2. FlattenSeq(front \o tail) = FlattenSeq(front) \o FlattenSeq(tail)
    BY <1>10, FlattenConcat
  <2> QED BY <1>10, <1>12, <2>1, <2>2
<1> QED BY <1>1, <1>2, <1>6, <1>7, <1>8, <1>9, <1>11, <1>13
-----------------------------------------------------------------------------
(* Deserialize of what SerializeTo hands out *)

LEMMA JoinedLengths ==
  ASSUME NEW a \in Seq(Nat), NEW b \in Seq(Nat)
  PROVE  /\ a \o b \in Seq(Nat) /\ Len(a \o b) = Len(a) + Len(b)
         /\ \A i \in 1..Len(b) : (a \o b)[Len(a) + i] = b[i]
<1>1. PICK n \in Nat, m \in Nat : Len(a) = n /\ Len(b) = m
  BY LenProperties
<1>2. /\ a \o b \in Seq(Nat) /\ Len(a \o b) = n + m
      /\ \A i \in 1..(n + m) : (a \o b)[i] = IF i <= n THEN a[i] ELSE b[i - n]
  BY <1>1, ConcatProperties
<1>3. ASSUME NEW i \in 1..m PROVE (a \o b)[n + i] = b[i]
  <2>1. PICK j \in 1..(n + m) : j = n + i
    <3>1. n + i \in 1..(n + m)
      OBVIOUS
    <3> QED BY <3>1
  <2>2. ~(j <= n) /\ j - n = i
    BY <2>1
  <2>3. (a \o b)[j] = b[j - n]
    BY <1>2, <2>2
  <2> QED BY <2>1, <2>2, <2>3
<1> QED BY <1>1, <1>2, <1>3

LEMMA BehindHeader ==
  ASSUME NEW a \in Seq(Nat), NEW b \in Seq(Nat), Len(a) = 4
  PROVE  SubSeq(a \o b, 5, Len(a \o b)) = b
<1>1. PICK n \in Nat : n = Len(b)
  BY LenProperties
<1>2. /\ a \o b \in Seq(Nat) /\ Len(a \o b) = 4 + n
      /\ \A i \in 1..n : (a \o b)[4 + i] = b[i]
  <2>1. /\ a \o b \in Seq(Nat) /\ Len(a \o b) = Len(a) + Len(b)
        /\ \A i \in 1..Len(b) : (a \o b)[Len(a) + i] = b[i]
    BY JoinedLengths
  <2> QED BY <1>1, <2>1
<1>3. PICK all \in Seq(Nat) : all = a \o b
  BY <1>2
<1>4. Len(all) = 4 + n /\ \A i \in 1..n : all[4 + i] = b[i]
  BY <1>2, <1>3
<1> DEFINE rest == SubSeq(all, 5, Len(all))
<1>5. rest = [i \in 1..n |-> all[4 + i]]
  <2>1. rest = [i \in 1..(1 + Len(all) - 5) |-> all[i + 5 - 1]]
    OBVIOUS
  <2>2. 1 + Len(all) - 5 = n
    BY <1>4
  <2>3. \A i \in 1..n : i + 5 - 1 = 4 + i
    OBVIOUS
  <2> HIDE DEF rest
  <2> QED BY <2>1, <2>2, <2>3
<1>6. b = [i \in 1..n |-> b[i]]
  BY <1>1
<1> QED BY <1>3, <1>4, <1>5, <1>6

LEMMA CellInFront ==
  ASSUME NEW a \in Seq(Nat), NEW b \in Seq(Nat), NEW i \in 1..Len(a)
  PROVE  Cell(a \o b, i) = a[i]
<1>1. PICK n \in Nat, m \in Nat : n = Len(a) /\ m = Len(b)
  BY LenProperties
<1>2. /\ a \o b \in Seq(Nat) /\ Len(a \o b) = n + m
      /\ \A k \in 1..n : (a \o b)[k] = a[k]
  BY <1>1, JoinedIs
<1>3. PICK all \in Seq(Nat) : all = a \o b
  BY <1>2
<1>4. i \in 1..Len(all) /\ i \in Int
  BY <1>1, <1>2, <1>3
<1>5. Cell(all, i) = all[i]
  BY <1>4, CellIs
<1> QED BY <1>1, <1>2, <1>3, <1>5

LEMMA AtItself ==
  ASSUME NEW bytes \in Seq(Nat)
  PROVE  At(bytes, 0, bytes)
<1>1. Len(bytes) \in Nat
  BY LenProperties
<1>2. \A k \in 1..Len(bytes) : 0 + k = k
  BY <1>1
<1> QED BY <1>1, <1>2 DEF At

\* An array is read as its values but for the null values.
LEMMA ArrayIsRead ==
  ASSUME NEW array \in Seq(ProgramValues), \A i \in 1..Len(array) : ~NoLength(array[i]),
         as_dict_ \in BOOLEAN, array # <<>>
  PROVE  DeserializeArray(FlattenSeq(ArrayChunks(array))) = Shown(array)
<1>1. PICK head \in Seq(Nat) :
        /\ Len(head) = 4 /\ head[3] = ArrayLength(array) - 4
        /\ FlattenSeq(ArrayChunks(array)) = head \o ItemsOf(array)
  BY ArrayContent
<1>2. PICK items \in Seq(Nat) : items = ItemsOf(array)
  BY ArrayAppend, NullIsValue
<1>3. PICK n \in Nat : n = Len(items) /\ ArrayLength(array) = 4 + n
  BY <1>2, ArrayIsCounted
<1>4. PICK all \in Seq(Nat) : all = head \o items /\ Len(all) = 4 + n
  <2>1. head \o items \in Seq(Nat) /\ Len(head \o items) = 4 + n
    BY <1>1, <1>3, JoinedLengths
  <2> QED BY <2>1
<1>5. Cell(all, 3) = n
  <2>1. 3 \in 1..Len(head)
    BY <1>1
  <2>2. Cell(all, 3) = head[3]
    BY <1>4, <2>1, CellInFront
  <2> QED BY <1>1, <1>3, <2>2
<1>6. DeserializeArray(all) = DeserializeItems(SubSeq(all, 4 + 1, Len(all)))
  <2>1. ~(Len(all) < 4) /\ n + 4 = Len(all)
    BY <1>4
  <2> QED BY <1>5, <2>1 DEF DeserializeArray, kDTXPrimitiveArrayHeaderSize
<1>7. SubSeq(all, 4 + 1, Len(all)) = items
  <2>1. 4 + 1 = 5
    OBVIOUS
  <2> QED BY <1>1, <1>4, <2>1, BehindHeader
<1>8. PICK f : Reads(f, items) /\ DeserializeItems(items) = f[1]
  BY DeserializeItemsIs
<1>9. f[1] = Shown(array) \o f[n + 1]
  <2>1. At(items, 0, ItemsOf(array))
    BY <1>2, AtItself
  <2> QED BY <1>2, <1>3, <1>8, <2>1, ReadItems
<1>10. f[n + 1] = <<>>
  <2>1. n + 1 \in Nat /\ n + 1 > Len(items) /\ Len(items) \in Nat
    BY <1>3
  <2>2. Read(f, items, n + 1) = <<>>
    BY <2>1, ReadIs, Zenon
  <2>3. f[n + 1] = Read(f, items, n + 1)
    BY <1>8, <2>1, ReadsAt, Zenon
  <2> QED BY <2>2, <2>3
<1>11. Shown(array) \o <<>> = Shown(array)
  <2>1. PICK shown \in Seq(ProgramValues) : shown = Shown(array)
    BY ArrayAppend, NullIsValue
  <2> QED BY <2>1, ConcatEmptySeq
<1> QED BY <1>1, <1>2, <1>4, <1>6, <1>7, <1>8, <1>9, <1>10, <1>11

Content(array, bytes) == FlattenSeq(SerializeTo(array, bytes))

\* What is serialized is as long as it says, and Deserialize reads from it what it was made of.
LEMMA MessageIsRead ==
  ASSUME NEW array, Written(array), NEW bytes \in Seq(Nat), as_dict_ \in BOOLEAN,
         message_type_ \in Nat
  PROVE  /\ Content(array, bytes) \in Seq(Nat)
         /\ Len(Content(array, bytes)) = SerializedLength(array, bytes)
         /\ Deserialize(Content(array, bytes)).message_type = message_type_
         /\ Deserialize(Content(array, bytes)).payload = bytes
         /\ Deserialize(Content(array, bytes)).auxiliary =
              IF array \in {NoArray, <<>>} THEN NoArray ELSE Shown(array)
<1>1. PICK head \in Seq(Nat), items \in Seq(Nat) :
        /\ Len(head) = 4 /\ head[1] = message_type_ /\ head[2] = ArrayLength(array)
        /\ head[3] = ArrayLength(array) + Len(bytes)
        /\ ArrayLength(array) \in Nat /\ Len(items) = ArrayLength(array)
        /\ ArrayLength(array) > 0 <=> array \notin {NoArray, <<>>}
        /\ ArrayLength(array) > 0 => items = FlattenSeq(ArrayChunks(array))
        /\ FlattenSeq(SerializeTo(array, bytes)) = (head \o items) \o bytes
  BY MessageContent
<1>2. PICK AL \in Nat, LB \in Nat : AL = ArrayLength(array) /\ LB = Len(bytes)
  BY <1>1, LenProperties
<1>3. PICK front \in Seq(Nat) : front = head \o items /\ Len(front) = 4 + AL
  <2>1. head \o items \in Seq(Nat) /\ Len(head \o items) = Len(head) + Len(items)
    BY JoinedLengths
  <2>2. Len(head) = 4 /\ Len(items) = AL
    BY <1>1, <1>2
  <2> QED BY <2>1, <2>2
<1>4. PICK all \in Seq(Nat) : all = front \o bytes /\ Len(all) = 4 + AL + LB
  <2>1. front \o bytes \in Seq(Nat) /\ Len(front \o bytes) = (4 + AL) + LB
    BY <1>2, <1>3, JoinedLengths
  <2> QED BY <2>1
<1>5. Content(array, bytes) = all
  BY <1>1, <1>3, <1>4 DEF Content
<1>6. SerializedLength(array, bytes) = 4 + AL + LB
  BY <1>2 DEF SerializedLength, kDTXMessagePayloadHeaderSize
<1>7. At(all, 0, front) /\ At(all, 4 + AL, bytes)
  <2>1. At(all, 0, front \o bytes) /\ 0 \in Nat
    BY <1>4, AtItself
  <2>2. At(all, 0, front) /\ At(all, 0 + Len(front), bytes)
    BY <2>1, AtParts
  <2>3. 0 + Len(front) = 4 + AL
    BY <1>3
  <2> QED BY <2>2, <2>3
<1>8. At(all, 0, head) /\ At(all, 4, items)
  <2>1. At(all, 0, head \o items) /\ 0 \in Nat
    BY <1>3, <1>7
  <2>2. At(all, 0, head) /\ At(all, 0 + Len(head), items)
    BY <2>1, AtParts
  <2>3. 0 + Len(head) = 4
    BY <1>1
  <2> QED BY <2>2, <2>3
<1>9. Cell(all, 1) = message_type_ /\ Cell(all, 2) = AL /\ Cell(all, 3) = AL + LB
  <2>1. ASSUME NEW k \in 1..Len(head) PROVE Cell(all, k) = head[k]
    <3>1. Cell(all, 0 + k) = head[k] /\ 0 \in Nat
      BY <1>8, AtCell
    <3>2. 0 + k = k
      BY <1>1
    <3> QED BY <3>1, <3>2
  <2>2. 1 \in 1..Len(head) /\ 2 \in 1..Len(head) /\ 3 \in 1..Len(head)
    BY <1>1
  <2> QED BY <1>1, <1>2, <2>1, <2>2
<1>10. Cells(all, 4 + 1, AL) = items
  <2>1. Cells(all, 4 + 1, Len(items)) = items /\ 4 \in Nat
    BY <1>8, AtCells
  <2> QED BY <1>1, <1>2, <2>1
<1>11. Cells(all, 4 + 1 + AL, AL + LB - AL) = bytes
  <2>1. PICK p \in Nat : p = 4 + AL
    OBVIOUS
  <2>2. Cells(all, p + 1, Len(bytes)) = bytes
    BY <1>7, <2>1, AtCells
  <2>3. 4 + 1 + AL = p + 1
    BY <2>1
  <2>4. AL + LB - AL = LB
    OBVIOUS
  <2> QED BY <1>2, <2>2, <2>3, <2>4
<1>12. Deserialize(all) =
         [message_type |-> Cell(all, 1),
          auxiliary |-> IF AL > 0 THEN DeserializeArray(Cells(all, 4 + 1, AL)) ELSE NoArray,
          payload |-> Cells(all, 4 + 1 + AL, AL + LB - AL)]
  <2> DEFINE message_of(type, AL1, both) ==
        [message_type |-> type,
         auxiliary |-> IF AL1 > 0 THEN DeserializeArray(Cells(all, 4 + 1, AL1)) ELSE NoArray,
         payload |-> Cells(all, 4 + 1 + AL1, both - AL1)]
  <2>1. Deserialize(all) = message_of(Cell(all, 1), Cell(all, 2), Cell(all, 3))
    BY DEF Deserialize, kDTXMessagePayloadHeaderSize
  <2>2. message_of(Cell(all, 1), Cell(all, 2), Cell(all, 3)) =
          message_of(Cell(all, 1), AL, AL + LB)
    <3> HIDE DEF message_of
    <3> QED BY <1>9
  <2> QED BY <2>1, <2>2
<1>13. Deserialize(all) =
         [message_type |-> message_type_,
          auxiliary |-> IF AL > 0 THEN DeserializeArray(items) ELSE NoArray,
          payload |-> bytes]
  BY <1>9, <1>10, <1>11, <1>12
<1>14. /\ Deserialize(all).message_type = message_type_ /\ Deserialize(all).payload = bytes
       /\ Deserialize(all).auxiliary = IF AL > 0 THEN DeserializeArray(items) ELSE NoArray
  BY <1>13
<1>15. ASSUME AL > 0 PROVE DeserializeArray(items) = Shown(array)
  <2>1. /\ array \in Seq(ProgramValues) /\ array # <<>>
        /\ \A i \in 1..Len(array) : ~NoLength(array[i])
        /\ items = FlattenSeq(ArrayChunks(array))
    BY <1>1, <1>2, <1>15 DEF Written
  <2> QED BY <2>1, ArrayIsRead
<1>16. AL > 0 <=> array \notin {NoArray, <<>>}
  BY <1>1, <1>2
<1> QED BY <1>4, <1>5, <1>6, <1>14, <1>15, <1>16
-----------------------------------------------------------------------------
(* What the program has given to the message *)

\* The null values with their objects, and a value that was set, are what it has given.
ArgumentsOK == arguments = IF auxiliary_ = NoArray THEN <<>> ELSE Shown(WithObjects)

PayloadOK ==
  ~late => payload = IF payload_buffer_ # NoBuffer THEN payload_buffer_ ELSE payload_object_

\* What is being sent is what the message has been serialized to.
SentOK ==
  pc # "idle" =>
    /\ chunks = SizesOf(SerializeTo(auxiliary_, payload_buffer_))
    /\ serialized_length = SerializedLength(auxiliary_, payload_buffer_)
    /\ auxiliary_objects_ = {}
    /\ payload_buffer_ # NoBuffer \/ payload_object_ = NoObject

LEMMA WithObjectsAt ==
  ASSUME MessageInv, auxiliary_ # NoArray
  PROVE  /\ auxiliary_ \in Seq(ProgramValues) /\ Len(auxiliary_) \in Nat
         /\ WithObjects \in Seq(ProgramValues) /\ Len(WithObjects) = Len(auxiliary_)
         /\ \A i \in 1..Len(auxiliary_) :
              /\ (\A e \in auxiliary_objects_ : e[1] # i) => WithObjects[i] = auxiliary_[i]
              /\ (\E e \in auxiliary_objects_ : e[1] = i) =>
                   \E e \in auxiliary_objects_ :
                     /\ e[1] = i /\ e = (CHOOSE x \in auxiliary_objects_ : x[1] = i)
                     /\ WithObjects[i] = Value(kBuffer, ArchivedData(e[2]))
<1>1. auxiliary_ \in Seq(ProgramValues)
  BY DEF MessageInv
<1>2. Len(auxiliary_) \in Nat /\ DOMAIN auxiliary_ = 1..Len(auxiliary_)
  BY <1>1, LenProperties
<1>3. WithObjects \in Seq(ProgramValues) /\ Len(WithObjects) = Len(auxiliary_)
  BY WithObjectsIs
<1> DEFINE Chosen(i) == CHOOSE x \in auxiliary_objects_ : x[1] = i
           Has(i) == \E entry \in auxiliary_objects_ : entry[1] = i
           at(i) == IF Has(i) THEN Value(kBuffer, ArchivedData(Chosen(i)[2])) ELSE auxiliary_[i]
<1>4. WithObjects = [i \in DOMAIN auxiliary_ |-> at(i)]
  BY DEF WithObjects
<1>5. ASSUME NEW i \in 1..Len(auxiliary_), Has(i)
      PROVE  Chosen(i) \in auxiliary_objects_ /\ Chosen(i)[1] = i
  BY <1>5
<1> HIDE DEF Chosen
<1>6. ASSUME NEW i \in 1..Len(auxiliary_) PROVE WithObjects[i] = at(i)
  <2> HIDE DEF at
  <2> QED BY <1>2, <1>4
<1>7. ASSUME NEW i \in 1..Len(auxiliary_), \A e \in auxiliary_objects_ : e[1] # i
      PROVE  WithObjects[i] = auxiliary_[i]
  BY <1>6, <1>7
<1>8. ASSUME NEW i \in 1..Len(auxiliary_), \E e \in auxiliary_objects_ : e[1] = i
      PROVE  \E e \in auxiliary_objects_ :
               /\ e[1] = i /\ e = Chosen(i)
               /\ WithObjects[i] = Value(kBuffer, ArchivedData(e[2]))
  <2>1. Has(i)
    BY <1>8
  <2>2. Chosen(i) \in auxiliary_objects_ /\ Chosen(i)[1] = i
    BY <1>5, <2>1
  <2>3. WithObjects[i] = Value(kBuffer, ArchivedData(Chosen(i)[2]))
    BY <1>6, <2>1
  <2> QED BY <2>2, <2>3
<1> QED BY <1>1, <1>2, <1>3, <1>7, <1>8 DEF Chosen

LEMMA NoObjects ==
  ASSUME MessageInv, auxiliary_objects_ = {}
  PROVE  WithObjects = auxiliary_
<1>1. CASE auxiliary_ = NoArray
  BY <1>1, WithObjectsIs
<1>2. CASE auxiliary_ # NoArray
  <2>1. /\ auxiliary_ \in Seq(ProgramValues) /\ WithObjects \in Seq(ProgramValues)
        /\ Len(WithObjects) = Len(auxiliary_)
    BY <1>2, WithObjectsAt
  <2>2. \A i \in 1..Len(auxiliary_) : WithObjects[i] = auxiliary_[i]
    BY <1>2, WithObjectsAt
  <2> DEFINE with == WithObjects
  <2>3. with \in Seq(ProgramValues) /\ Len(with) = Len(auxiliary_)
        /\ \A i \in 1..Len(with) : with[i] = auxiliary_[i]
    BY <2>1, <2>2
  <2> HIDE DEF with
  <2>4. with = auxiliary_
    BY <2>1, <2>3, SeqEqual
  <2> QED BY <2>4 DEF with
<1> QED BY <1>1, <1>2

WithArray ==
  /\ MessageInv /\ auxiliary_ # NoArray =>
       WithObjects \in Seq(ProgramValues) /\ Len(WithObjects) = Len(auxiliary_)
  /\ MessageInv /\ auxiliary_objects_ = {} => WithObjects = auxiliary_

LEMMA WithObjectsThen == WithArray'
<1>1. WithArray
  BY WithObjectsIs, NoObjects DEF WithArray
<1> QED BY <1>1, PTL

\* An entry that was there before is the one for its index afterwards too.
LEMMA WithOneMore ==
  ASSUME MessageInv, MessageInv', auxiliary_ # NoArray, NEW value \in ProgramValues,
         auxiliary_' = Append(auxiliary_, value),
         \/ auxiliary_objects_' = auxiliary_objects_
         \/ \E object : auxiliary_objects_' = auxiliary_objects_ \cup {<<Len(auxiliary_) + 1, object>>}
  PROVE  /\ auxiliary_' # NoArray
         /\ \A i \in 1..Len(auxiliary_) : WithObjects'[i] = WithObjects[i]
         /\ Len(WithObjects') = Len(WithObjects) + 1 /\ WithObjects' \in Seq(ProgramValues)
<1>1. /\ auxiliary_ \in Seq(ProgramValues) /\ Len(auxiliary_) \in Nat
      /\ auxiliary_' \in Seq(ProgramValues) /\ Len(auxiliary_') = Len(auxiliary_) + 1
      /\ \A i \in 1..Len(auxiliary_) : auxiliary_'[i] = auxiliary_[i]
  BY WithObjectsAt, AppendProperties
<1>2. auxiliary_' # NoArray
  BY <1>1, NoArrayIsNone
<1>3. WithObjects' \in Seq(ProgramValues) /\ Len(WithObjects') = Len(auxiliary_')
      /\ Len(WithObjects) = Len(auxiliary_)
  BY <1>2, WithObjectsIs, WithObjectsThen DEF WithArray
<1>4. ASSUME NEW i \in 1..Len(auxiliary_) PROVE WithObjects'[i] = WithObjects[i]
  <2>1. i # Len(auxiliary_) + 1
    BY <1>1
  <2>2. \A e : e \in auxiliary_objects_' /\ e[1] = i <=> e \in auxiliary_objects_ /\ e[1] = i
    BY <2>1
  <2>3. auxiliary_'[i] = auxiliary_[i] /\ i \in DOMAIN auxiliary_ /\ i \in DOMAIN auxiliary_'
    BY <1>1
  <2>4. (\E entry \in auxiliary_objects_' : entry[1] = i)
          <=> (\E entry \in auxiliary_objects_ : entry[1] = i)
    BY <2>2, Zenon
  <2>5. (CHOOSE e \in auxiliary_objects_' : e[1] = i) = (CHOOSE e \in auxiliary_objects_ : e[1] = i)
    BY <2>2, Zenon
  <2> QED BY <1>2, <2>3, <2>4, <2>5 DEF WithObjects
<1> QED BY <1>1, <1>2, <1>3, <1>4
LEMMA GivenInit ==
  ASSUME SendingAssumption, Init
  PROVE  ArgumentsOK /\ PayloadOK /\ SentOK
<1>1. Objects \subseteq Filled /\ Buffers \subseteq Filled /\ MessageInv
  BY MessageInvInit DEF SendingAssumption, Filled
<1>2. auxiliary_objects_ = {} /\ arguments = <<>> /\ pc = "idle"
  BY DEF Init, MessageInit, TransmitterInit
<1>3. WithObjects = auxiliary_
  BY <1>1, <1>2, NoObjects
<1>4. /\ auxiliary_ \in {<<>>, NoArray}
      /\ payload = IF payload_buffer_ # NoBuffer THEN payload_buffer_ ELSE payload_object_
  <2>1. CASE \E selector \in Objects : CreateWithSelector(selector)
    BY <1>1, <2>1 DEF CreateWithSelector, NoBuffer, ArchivedData
  <2>2. CASE \E bytes \in Buffers : CreateWithBuffer(bytes)
    BY <1>1, <2>2 DEF CreateWithBuffer, NoBuffer, Filled
  <2>3. CASE NewReply
    BY <2>3 DEF NewReply, NoObject, NoBuffer
  <2> QED BY <2>1, <2>2, <2>3 DEF Init, MessageInit
<1>5. ArgumentsOK
  <2>1. auxiliary_ # NoArray => Shown(WithObjects) = <<>>
    BY <1>3, <1>4, NoItems
  <2> QED BY <1>2, <2>1 DEF ArgumentsOK
<1> QED BY <1>2, <1>4, <1>5 DEF PayloadOK, SentOK

\* One more argument is shown behind the others.
LEMMA ShownMore ==
  ASSUME NEW before \in Seq(ProgramValues), NEW after \in Seq(ProgramValues),
         NEW value \in ProgramValues,
         Len(after) = Len(before) + 1, after[Len(before) + 1] = value,
         \A i \in 1..Len(before) : after[i] = before[i], as_dict_ \in BOOLEAN
  PROVE  Shown(after) = IF value = Null THEN Shown(before) ELSE Append(Shown(before), value)
<1>1. after = Append(before, value)
  BY SameAppended
<1>2. Shown(before) \in Seq(ProgramValues) /\ Shown(after) = Shown(before) \o ShownOf(value)
  BY <1>1, ArrayAppend
<1>3. PICK shown \in Seq(ProgramValues) : shown = Shown(before)
  BY <1>2
<1>4. CASE value = Null
  <2>1. shown \o <<>> = shown
    BY ConcatEmptySeq
  <2> QED BY <1>2, <1>3, <1>4, <2>1 DEF ShownOf
<1>5. CASE value # Null
  <2>1. shown \o <<value>> = Append(shown, value)
    BY AppendIsConcat
  <2> QED BY <1>2, <1>3, <1>5, <2>1 DEF ShownOf
<1> QED BY <1>4, <1>5

LEMMA ArgumentsBuild ==
  ASSUME SendingAssumption, MessageInv, ArgumentsOK, Build
  PROVE  ArgumentsOK'
<1>1. Objects \subseteq Filled /\ Buffers \subseteq Filled /\ Primitives \subseteq ProgramValues
      /\ MessageInv'
  BY PrimitivesAreValues, MessageInvBuild DEF SendingAssumption, Filled
<1>2. as_dict_ \in BOOLEAN
  BY DEF MessageInv
<1>3. ASSUME auxiliary_ # NoArray PROVE arguments = Shown(WithObjects)
  BY <1>3 DEF ArgumentsOK
<1>4. ASSUME UNCHANGED <<auxiliary_, auxiliary_objects_, arguments>> PROVE ArgumentsOK'
  BY <1>4 DEF ArgumentsOK, WithObjects, Shown, Shows, ShownOf
<1>5. CASE \E value \in Primitives : AppendPrimitive(value)
  <2>1. PICK value \in Primitives : AppendPrimitive(value)
    BY <1>5
  <2>2. value \in ProgramValues /\ auxiliary_ # NoArray /\ auxiliary_' = Append(auxiliary_, value)
        /\ auxiliary_objects_' = auxiliary_objects_
        /\ arguments' = IF value = Null THEN arguments ELSE Append(arguments, value)
    BY <1>1, <2>1 DEF AppendPrimitive
  <2>3. /\ auxiliary_' # NoArray
        /\ \A i \in 1..Len(auxiliary_) : WithObjects'[i] = WithObjects[i]
        /\ Len(WithObjects') = Len(WithObjects) + 1 /\ WithObjects' \in Seq(ProgramValues)
    BY <1>1, <2>2, WithOneMore
  <2>4. /\ WithObjects \in Seq(ProgramValues) /\ Len(WithObjects) = Len(auxiliary_)
        /\ Len(auxiliary_) \in Nat /\ auxiliary_ \in Seq(ProgramValues)
    BY <2>2, WithObjectsAt
  <2>5. WithObjects'[Len(auxiliary_) + 1] = value
    <3>1. /\ Len(auxiliary_') = Len(auxiliary_) + 1
          /\ auxiliary_'[Len(auxiliary_) + 1] = value
          /\ DOMAIN auxiliary_' = 1..(Len(auxiliary_) + 1)
      BY <2>2, <2>4, AppendProperties
    <3>2. \A e \in auxiliary_objects_' : e[1] # Len(auxiliary_) + 1
      BY <2>2, <2>4 DEF MessageInv
    <3>3. Len(auxiliary_) + 1 \in DOMAIN auxiliary_'
      BY <2>4, <3>1
    <3> QED BY <2>3, <3>1, <3>2, <3>3 DEF WithObjects
  <2>6. Shown(WithObjects') =
          IF value = Null THEN Shown(WithObjects) ELSE Append(Shown(WithObjects), value)
    BY <1>2, <2>2, <2>3, <2>4, <2>5, ShownMore
  <2>7. Shown(WithObjects)' = Shown(WithObjects')
    BY DEF Shown, Shows, ShownOf
  <2> QED BY <1>3, <2>2, <2>3, <2>6, <2>7 DEF ArgumentsOK
<1>6. CASE \E object \in Objects : AppendObject(object)
  <2>1. PICK object \in Objects : AppendObject(object)
    BY <1>6
  <2>2. object \in Filled /\ auxiliary_ # NoArray /\ auxiliary_' = Append(auxiliary_, Null)
        /\ auxiliary_objects_' = auxiliary_objects_ \cup {<<Len(auxiliary_) + 1, object>>}
        /\ arguments' = Append(arguments, Value(kBuffer, ArchivedData(object)))
    BY <1>1, <2>1 DEF AppendObject
  <2>3. /\ auxiliary_' # NoArray
        /\ \A i \in 1..Len(auxiliary_) : WithObjects'[i] = WithObjects[i]
        /\ Len(WithObjects') = Len(WithObjects) + 1 /\ WithObjects' \in Seq(ProgramValues)
    BY <1>1, <2>2, NullIsValue, WithOneMore
  <2>4. /\ WithObjects \in Seq(ProgramValues) /\ Len(WithObjects) = Len(auxiliary_)
        /\ Len(auxiliary_) \in Nat /\ auxiliary_ \in Seq(ProgramValues)
    BY <2>2, WithObjectsAt
  <2> DEFINE last == Len(auxiliary_) + 1
             value == Value(kBuffer, ArchivedData(object))
  <2>5. WithObjects'[last] = value
    <3>1. /\ Len(auxiliary_') = last /\ DOMAIN auxiliary_' = 1..last /\ last \in DOMAIN auxiliary_'
      BY <2>2, <2>4, NullIsValue, AppendProperties
    <3>2. \A e \in auxiliary_objects_' : e[1] = last => e = <<last, object>>
      BY <2>2, <2>4 DEF MessageInv
    <3>3. <<last, object>> \in auxiliary_objects_' /\ <<last, object>>[1] = last
          /\ <<last, object>>[2] = object
      BY <2>2
    <3> HIDE DEF last
    <3> DEFINE chosen == CHOOSE e \in auxiliary_objects_' : e[1] = last
    <3>4. \E e \in auxiliary_objects_' : e[1] = last
      BY <3>3
    <3>5. chosen \in auxiliary_objects_' /\ chosen[1] = last
      BY <3>4
    <3>6. chosen[2] = object
      <4> HIDE DEF chosen
      <4> QED BY <3>2, <3>3, <3>5
    <3>7. WithObjects' = [i \in DOMAIN auxiliary_' |->
            IF \E entry \in auxiliary_objects_' : entry[1] = i
            THEN LET entry == CHOOSE e \in auxiliary_objects_' : e[1] = i
                 IN  Value(kBuffer, ArchivedData(entry[2]))
            ELSE auxiliary_'[i]]
      BY <2>3 DEF WithObjects
    <3>8. WithObjects'[last] = Value(kBuffer, ArchivedData(chosen[2]))
      BY <3>1, <3>4, <3>7
    <3> QED BY <3>6, <3>8
  <2>6. value \in ProgramValues /\ value # Null
    <3>1. value \in ProgramValues /\ value.type = kBuffer
      BY <2>2, ArchiveIsValue
    <3>2. Null.type = kNull /\ kNull # kBuffer
      BY ValueHas DEF Null, kNull, kBuffer
    <3> QED BY <3>1, <3>2
  <2> HIDE DEF value
  <2>7. Shown(WithObjects') = Append(Shown(WithObjects), value)
    <3>1. PICK old \in Seq(ProgramValues), new \in Seq(ProgramValues) :
            old = WithObjects /\ new = WithObjects'
      BY <2>3, <2>4
    <3>2. /\ Len(new) = Len(old) + 1 /\ new[Len(old) + 1] = value
          /\ \A i \in 1..Len(old) : new[i] = old[i]
      BY <2>3, <2>4, <2>5, <3>1
    <3>3. Shown(new) = Append(Shown(old), value)
      BY <1>2, <2>6, <3>2, ShownMore
    <3> QED BY <3>1, <3>3
  <2>8. Shown(WithObjects)' = Shown(WithObjects')
    BY DEF Shown, Shows, ShownOf
  <2> QED BY <1>3, <2>2, <2>3, <2>7, <2>8 DEF ArgumentsOK, value
<1>7. CASE \E object \in Objects : SetPayloadObject(object)
  BY <1>4, <1>7 DEF SetPayloadObject
<1>8. CASE \E bytes \in Buffers : SetPayloadBuffer(bytes)
  BY <1>4, <1>8 DEF SetPayloadBuffer
<1> QED BY <1>5, <1>6, <1>7, <1>8 DEF Build
LEMMA PayloadKept ==
  ASSUME SendingAssumption, MessageInv, PayloadOK, Build \/ Send
  PROVE  PayloadOK'
<1>1. Buffers \subseteq Filled /\ <<>> \notin Filled
  BY DEF SendingAssumption, Filled
<1>2. CASE Build
  <2>1. CASE \E value \in Primitives : AppendPrimitive(value)
    BY <2>1 DEF AppendPrimitive, PayloadOK
  <2>2. CASE \E object \in Objects : AppendObject(object)
    BY <2>2 DEF AppendObject, PayloadOK
  <2>3. CASE \E object \in Objects : SetPayloadObject(object)
    BY <2>3 DEF SetPayloadObject, PayloadOK, ArchivedData
  <2>4. CASE \E bytes \in Buffers : SetPayloadBuffer(bytes)
    BY <1>1, <2>4 DEF SetPayloadBuffer, PayloadOK, NoBuffer
  <2> QED BY <1>2, <2>1, <2>2, <2>3, <2>4 DEF Build
<1>3. CASE Send
  BY <1>3 DEF Send, Archive, PayloadOK, ArchivedData, NoBuffer, NoObject
<1> QED BY <1>2, <1>3

LEMMA ArgumentsSend ==
  ASSUME SendingAssumption, MessageInv, ArgumentsOK, Send
  PROVE  ArgumentsOK'
<1>1. /\ MessageInv' /\ auxiliary_' = WithObjects /\ auxiliary_objects_' = {}
      /\ arguments' = arguments
  BY MessageInvSend DEF Send, Archive
<1>2. WithObjects' = WithObjects
  BY <1>1, WithObjectsThen DEF WithArray
<1>3. auxiliary_' = NoArray <=> auxiliary_ = NoArray
  BY <1>1, WithObjectsIs
<1>4. Shown(WithObjects)' = Shown(WithObjects')
  BY DEF Shown, Shows, ShownOf
<1> QED BY <1>1, <1>2, <1>3, <1>4 DEF ArgumentsOK

LEMMA SerializedThen ==
  ASSUME as_dict_' = as_dict_, message_type_' = message_type_
  PROVE  /\ SerializeTo(auxiliary_, payload_buffer_)' = SerializeTo(auxiliary_', payload_buffer_')
         /\ SerializedLength(auxiliary_, payload_buffer_)' =
              SerializedLength(auxiliary_', payload_buffer_')
<1>1. ArrayLength(auxiliary_)' = ArrayLength(auxiliary_')
  BY DEF ArrayLength, ItemLength
<1>2. ArrayChunks(auxiliary_)' = ArrayChunks(auxiliary_')
  BY <1>1 DEF ArrayChunks, ItemChunks
<1> QED BY <1>1, <1>2 DEF SerializeTo, SerializedLength

LEMMA SentSend ==
  ASSUME SendingAssumption, MessageInv, Send
  PROVE  SentOK'
<1>1. /\ chunks' = SizesOf(SerializeTo(auxiliary_', payload_buffer_'))
      /\ serialized_length' = SerializedLength(auxiliary_', payload_buffer_')
  BY SendIs
<1>2. as_dict_' = as_dict_ /\ message_type_' = message_type_ /\ auxiliary_objects_' = {}
      /\ payload_object_' = payload_object_
      /\ payload_buffer_' = IF payload_buffer_ = NoBuffer /\ payload_object_ # NoObject
                            THEN payload_object_ ELSE payload_buffer_
  BY DEF Send, Archive, ArchivedData
<1>3. payload_buffer_' # NoBuffer \/ payload_object_' = NoObject
  BY <1>2 DEF NoBuffer, NoObject
<1>4. SizesOf(SerializeTo(auxiliary_, payload_buffer_))' =
        SizesOf(SerializeTo(auxiliary_, payload_buffer_)')
  BY DEF SizesOf
<1> QED BY <1>1, <1>2, <1>3, <1>4, SerializedThen DEF SentOK

LEMMA SentSame ==
  ASSUME SentOK, UNCHANGED <<message, sends>>, UNCHANGED given, pc # "idle"
  PROVE  SentOK'
<1>1. UNCHANGED <<message_type_, payload_object_, payload_buffer_, auxiliary_, auxiliary_objects_,
                  as_dict_, chunks, serialized_length>>
  BY DEF message, given
<1>2. SizesOf(SerializeTo(auxiliary_, payload_buffer_))' =
        SizesOf(SerializeTo(auxiliary_, payload_buffer_)')
  BY DEF SizesOf
<1>3. /\ SerializeTo(auxiliary_, payload_buffer_)' = SerializeTo(auxiliary_, payload_buffer_)
      /\ SerializedLength(auxiliary_, payload_buffer_)' =
           SerializedLength(auxiliary_, payload_buffer_)
  BY <1>1, SerializedThen
<1> QED BY <1>1, <1>2, <1>3 DEF SentOK

LEMMA GivenSame ==
  ASSUME ArgumentsOK, PayloadOK, UNCHANGED <<message, sends>>
  PROVE  ArgumentsOK' /\ PayloadOK'
<1>1. UNCHANGED <<payload_object_, payload_buffer_, auxiliary_, auxiliary_objects_, arguments,
                  payload, late>>
  BY DEF message
<1>2. ArgumentsOK'
  BY <1>1 DEF ArgumentsOK, WithObjects, Shown, Shows, ShownOf
<1> QED BY <1>1, <1>2 DEF PayloadOK

LEMMA NotIdle ==
  ASSUME Transmit
  PROVE  pc # "idle" /\ UNCHANGED given
  BY DEF Transmit, TransmitHeader, TransmitChunk, ReturnTrue, TransmitFirst, EnterChunk,
         ConsumeBytes, LeaveChunk, ReturnFalse

Given == ArgumentsOK /\ PayloadOK /\ SentOK

LEMMA GivenNext ==
  ASSUME MessageInv, Given, [Next]_vars
  PROVE  Given'
<1>1. CASE Build
  <2>1. UNCHANGED transmission /\ pc = "idle"
    BY <1>1 DEF Build
  <2>2. SentOK'
    BY <2>1 DEF SentOK, transmission
  <2> QED BY <1>1, <2>2, SendingAssumption, ArgumentsBuild, PayloadKept DEF Given
<1>2. CASE Send
  BY <1>2, SendingAssumption, ArgumentsSend, PayloadKept, SentSend DEF Given
<1>3. CASE Sent
  <2>1. UNCHANGED <<message, sends>> /\ pc' = "idle"
    BY <1>3 DEF Sent
  <2>2. SentOK'
    BY <2>1 DEF SentOK
  <2> QED BY <2>1, <2>2, GivenSame DEF Given
<1>4. CASE Transmit /\ UNCHANGED <<message, sends>>
  BY <1>4, NotIdle, GivenSame, SentSame DEF Given
<1>5. CASE UNCHANGED vars
  <2>1. UNCHANGED <<message, sends>> /\ UNCHANGED given /\ UNCHANGED pc
    BY <1>5 DEF vars, transmission
  <2>2. SentOK'
    <3>1. CASE pc = "idle"
      BY <2>1, <3>1 DEF SentOK
    <3>2. CASE pc # "idle"
      BY <2>1, <3>2, SentSame DEF Given
    <3> QED BY <3>1, <3>2
  <2> QED BY <2>1, <2>2, GivenSame DEF Given
<1> QED BY <1>1, <1>2, <1>3, <1>4, <1>5 DEF Next

\* What arrives of a message that nobody refuses and whose chunks do not run over is what
\* the message was serialized to.
LEMMA AllIsDelivered ==
  ASSUME MessageInv, TypeInv, CleanOK, SentOK, pc = "done", refused = 0, ~RunsOver,
         Written(auxiliary_)
  PROVE  Delivered = Content(auxiliary_, payload_buffer_)
<1>1. payload_buffer_ \in Seq(Nat) /\ as_dict_ \in BOOLEAN /\ message_type_ \in Nat
  BY DEF MessageInv, kInterruptionMessage, kDataMessageType, kSelectorMessageType
<1>2. /\ chunks = SizesOf(SerializeTo(auxiliary_, payload_buffer_))
      /\ serialized_length = SerializedLength(auxiliary_, payload_buffer_)
  BY DEF SentOK
<1>3. PICK content \in Seq(Nat) :
        /\ content = Content(auxiliary_, payload_buffer_)
        /\ Len(content) = SerializedLength(auxiliary_, payload_buffer_)
  BY <1>1, MessageIsRead
<1>4. PICK n \in Nat : n = serialized_length /\ n = Len(content)
  BY <1>2, <1>3, LenProperties
<1>5. Before(Len(chunks) + 1) = n
  <2>1. PICK parts \in Seq(Seq(Nat)) : parts = SerializeTo(auxiliary_, payload_buffer_)
    <3>1. SerializeTo(auxiliary_, payload_buffer_) \in Seq(Filled)
      BY <1>1, SerializeToIs DEF Written
    <3>2. Filled \subseteq Seq(Nat)
      BY DEF Filled
    <3>3. SerializeTo(auxiliary_, payload_buffer_) \in Seq(Seq(Nat))
      BY <3>1, <3>2, SeqMonotonic
    <3> QED BY <3>3
  <2>2. Len(FlattenSeq(parts)) = Total(SizesOf(parts), Len(parts))
    BY LenFlatten
  <2>3. Len(SizesOf(parts)) = Len(parts) /\ Len(parts) \in Nat
    BY SizesOfAre, LenProperties
  <2>4. Len(chunks) = Len(parts) /\ (Len(parts) + 1) - 1 = Len(parts)
    BY <1>2, <2>1, <2>3
  <2>5. Before(Len(chunks) + 1) = Total(SizesOf(parts), Len(parts))
    BY <1>2, <2>1, <2>4 DEF Before
  <2>6. content = FlattenSeq(parts)
    BY <1>3, <2>1 DEF Content
  <2> QED BY <1>4, <2>2, <2>5, <2>6
<1>6. Wire = Upto(n)
  <2>1. Clean
    BY <1>4, <1>5 DEF Clean
  <2> QED BY <1>4, <2>1 DEF CleanOK, DoneOK
<1>7. DOMAIN Wire = 1..n /\ \A i \in 1..n : Wire[i] = i /\ Wire[i] # Junk
  <2>1. DOMAIN Wire = 1..n /\ \A i \in 1..n : Wire[i] = i
    BY <1>6 DEF Upto
  <2>2. \A i \in 1..n : i # 0
    OBVIOUS
  <2> QED BY <2>1, <2>2 DEF Junk
<1>8. Delivered = [i \in DOMAIN Wire |-> IF Wire[i] = Junk THEN Unread ELSE content[Wire[i]]]
  BY <1>3 DEF Delivered, Content
<1>9. Delivered = [i \in 1..n |-> content[i]]
  BY <1>7, <1>8
<1>10. content = [i \in 1..n |-> content[i]]
  BY <1>4
<1> QED BY <1>3, <1>9, <1>10

LEMMA ArgumentsAreRead ==
  ASSUME Inv, Given
  PROVE  ArgumentsArrive
<1> SUFFICES ASSUME pc = "done", refused = 0, ~Empties(auxiliary_), ~RunsOver
             PROVE  /\ Deserialize(Delivered).message_type = message_type_
                    /\ arguments = IF Deserialize(Delivered).auxiliary = NoArray THEN <<>>
                                   ELSE Deserialize(Delivered).auxiliary
                    /\ ~late => Deserialize(Delivered).payload = payload
  BY DEF ArgumentsArrive
<1>1. MessageInv /\ TypeInv /\ CleanOK /\ ArgumentsOK /\ PayloadOK /\ SentOK
  BY DEF Inv, Given
<1>2. Written(auxiliary_)
  <2>1. CASE auxiliary_ # NoArray
    <3>1. auxiliary_ \in Seq(ProgramValues) /\ DOMAIN auxiliary_ = 1..Len(auxiliary_)
      BY <1>1, <2>1, LenProperties DEF MessageInv
    <3> QED BY <2>1, <3>1 DEF Empties, NoLength, Written
  <2> QED BY <2>1 DEF Written
<1>3. payload_buffer_ \in Seq(Nat) /\ as_dict_ \in BOOLEAN /\ message_type_ \in Nat
  BY <1>1 DEF MessageInv, kInterruptionMessage, kDataMessageType, kSelectorMessageType
<1>4. /\ Deserialize(Delivered).message_type = message_type_
      /\ Deserialize(Delivered).payload = payload_buffer_
      /\ Deserialize(Delivered).auxiliary =
           IF auxiliary_ \in {NoArray, <<>>} THEN NoArray ELSE Shown(auxiliary_)
  <2>1. Delivered = Content(auxiliary_, payload_buffer_)
    BY <1>1, <1>2, AllIsDelivered
  <2> QED BY <1>2, <1>3, <2>1, MessageIsRead
<1>5. auxiliary_objects_ = {} /\ (payload_buffer_ # NoBuffer \/ payload_object_ = NoObject)
  BY <1>1 DEF SentOK
<1>6. arguments = IF auxiliary_ = NoArray THEN <<>> ELSE Shown(auxiliary_)
  <2>1. WithObjects = auxiliary_
    BY <1>1, <1>5, NoObjects
  <2> QED BY <1>1, <2>1 DEF ArgumentsOK
<1>7. auxiliary_ # NoArray => Shown(auxiliary_) # NoArray
  <2>1. auxiliary_ # NoArray => auxiliary_ \in Seq(ProgramValues)
    BY <1>1 DEF MessageInv
  <2>2. auxiliary_ # NoArray => Shown(auxiliary_) \in Seq(ProgramValues)
    BY <1>3, <2>1, ArrayAppend, NullIsValue
  <2> QED BY <2>2, NoArrayIsNone
<1>8. ~late => payload_buffer_ = payload
  <2>1. CASE payload_buffer_ # NoBuffer
    BY <1>1, <2>1 DEF PayloadOK
  <2>2. CASE payload_buffer_ = NoBuffer
    BY <1>1, <1>5, <2>2 DEF PayloadOK, NoBuffer, NoObject
  <2> QED BY <2>1, <2>2
<1>9. arguments = IF Deserialize(Delivered).auxiliary = NoArray THEN <<>>
                  ELSE Deserialize(Delivered).auxiliary
  <2>1. CASE auxiliary_ = NoArray
    BY <1>4, <1>6, <2>1
  <2>2. CASE auxiliary_ = <<>> /\ auxiliary_ # NoArray
    <3>1. Shown(auxiliary_) = <<>>
      BY <2>2, NoItems
    <3> QED BY <1>4, <1>6, <2>2, <3>1
  <2>3. CASE auxiliary_ \notin {NoArray, <<>>}
    BY <1>4, <1>6, <1>7, <2>3
  <2> QED BY <2>1, <2>2, <2>3
<1> QED BY <1>4, <1>8, <1>9

\* The type, the arguments in their order and the payload that the program has given to a
\* message are what the device reads: ArgumentsArrive, of the archiving, the lengths and the
\* cells that SerializeTo writes, their way through the fragments of TransmitMessage, and
\* Deserialize, for every message, every size of a fragment and every number of sendings.
THEOREM ArgumentsReachTheDevice == Spec => []ArgumentsArrive
<1>1. Init => Inv /\ Given
  BY InvInit, SendingAssumption, GivenInit DEF Given
<1>2. Inv /\ Given /\ [Next]_vars => (Inv /\ Given)'
  BY InvNext, GivenNext DEF Inv
<1>3. Inv /\ Given => ArgumentsArrive
  BY ArgumentsAreRead
<1> QED BY <1>1, <1>2, <1>3, PTL DEF Spec

-----------------------------------------------------------------------------
(* The count of fragments as floats compute it *)

Float == INSTANCE FragmentCount

\* A float has a bit at least beside the first one.
EvenMantissa == Mantissa \in Nat /\ Mantissa > 0 /\ Mantissa % 2 = 0

LEMMA UnitsAre == \A u \in Float!Units : u \in Nat /\ u >= 1
  BY SMT DEF Float!Units

LEMMA FirstUnits == 1 \in Float!Units /\ 2 \in Float!Units
  BY SMT DEF Float!Units

LEMMA FirstUnit == \A u \in Float!Units : u < 2 => u = 1
  BY UnitsAre

LEMMA Half == EvenMantissa => \E h \in Nat : Mantissa = h * 2 /\ h > 0
<1> SUFFICES ASSUME EvenMantissa PROVE \E h \in Nat : Mantissa = h * 2 /\ h > 0
  OBVIOUS
<1>1. PICK h, r \in Nat : r = Mantissa % 2 /\ Mantissa = h * 2 + r
  BY DivRest DEF EvenMantissa
<1>2. r = 0 /\ Mantissa > 0
  BY <1>1 DEF EvenMantissa
<1> QED BY <1>1, <1>2

\* Of two products with the same factor the smaller has the smaller other factor.
LEMMA Cancel ==
  ASSUME NEW a \in Nat, NEW b \in Nat, NEW c \in Nat \ {0}
  PROVE  /\ a * c <= b * c => a <= b
         /\ a * c < b * c => a < b
         /\ a <= b => a * c <= b * c
<1>1. CASE a < b
  <2>1. PICK d \in Nat : b = a + 1 + d
    <3>1. b - a - 1 \in Nat /\ b = a + 1 + (b - a - 1)
      BY <1>1
    <3> QED BY <3>1
  <2>2. b * c = a * c + c + d * c
    BY <2>1
  <2>3. d * c \in Nat /\ a * c \in Nat /\ b * c \in Nat
    BY ProductIsNat
  <2> QED BY <1>1, <2>2, <2>3
<1>2. CASE b < a
  <2>1. PICK d \in Nat : a = b + 1 + d
    <3>1. a - b - 1 \in Nat /\ a = b + 1 + (a - b - 1)
      BY <1>2
    <3> QED BY <3>1
  <2>2. a * c = b * c + c + d * c
    BY <2>1
  <2>3. d * c \in Nat /\ a * c \in Nat /\ b * c \in Nat
    BY ProductIsNat
  <2> QED BY <1>2, <2>2, <2>3
<1>3. CASE a = b
  <2>1. a * c \in Nat
    BY ProductIsNat
  <2> QED BY <1>3, <2>1
<1> QED BY <1>1, <1>2, <1>3

\* Rounded to the nearest: down or up.
LEMMA NearestIs ==
  ASSUME NEW a \in Nat, NEW b \in Nat \ {0}
  PROVE  \E q, r \in Nat :
           /\ a = q * b + r /\ r < b
           /\ Float!Nearest(a, b) \in {q, q + 1}
           /\ 2 * r < b => Float!Nearest(a, b) = q
           /\ 2 * r > b => Float!Nearest(a, b) = q + 1
<1> DEFINE q == a \div b
           r == a % b
<1>1. q \in Nat /\ r \in 0..(b - 1) /\ a = q * b + r
  BY DivMod
<1>2. Float!Nearest(a, b) = IF 2 * r < b \/ (2 * r = b /\ q % 2 = 0) THEN q ELSE q + 1
  BY DEF Float!Nearest
<1> HIDE DEF q, r
<1>3. r \in Nat /\ r < b
  BY <1>1
<1>4. /\ Float!Nearest(a, b) \in {q, q + 1}
      /\ 2 * r < b => Float!Nearest(a, b) = q
  BY <1>2, Zenon
<1>5. ASSUME 2 * r > b PROVE Float!Nearest(a, b) = q + 1
  <2>1. ~(2 * r < b) /\ ~(2 * r = b)
    BY <1>3, <1>5
  <2> QED BY <1>2, <2>1, Zenon
<1> QED BY <1>1, <1>3, <1>4, <1>5

LEMMA NearestExact ==
  ASSUME NEW q \in Nat, NEW b \in Nat \ {0}
  PROVE  Float!Nearest(q * b, b) = q
<1>0. q * b \in Nat
  BY ProductIsNat
<1>1. PICK p, r \in Nat : /\ q * b = p * b + r /\ r < b
                          /\ 2 * r < b => Float!Nearest(q * b, b) = p
  BY <1>0, NearestIs
<1>2. p * b \in Nat
  BY ProductIsNat
<1>3. ~(p * b < q * b)
  <2> SUFFICES ASSUME p * b < q * b PROVE FALSE
    OBVIOUS
  <2>1. p * b + b <= q * b
    BY MultiplesApart
  <2> QED BY <1>0, <1>1, <1>2, <2>1
<1>4. r = 0 /\ p * b = q * b
  BY <1>0, <1>1, <1>2, <1>3
<1>5. p = q
  <2>1. p * b <= q * b /\ q * b <= p * b
    BY <1>0, <1>2, <1>4
  <2>2. p <= q /\ q <= p
    BY <2>1, Cancel
  <2> QED BY <2>2
<1> QED BY <1>1, <1>4, <1>5

\* A length up to the mantissa is a float.
LEMMA FloatIsExact ==
  ASSUME EvenMantissa, NEW n \in 0..Mantissa
  PROVE  Float!FloatOf(n) = n
<1>0. PICK h \in Nat : Mantissa = h * 2 /\ h > 0
  BY Half
<1> DEFINE c == Float!Coarse(n)
           P(u) == u \in Float!Units /\ Float!Fits(n, u)
                   /\ \A v \in Float!Units : v < u => ~Float!Fits(n, v)
<1>1. c = CHOOSE u \in Float!Units : Float!Fits(n, u)
                   /\ \A v \in Float!Units : v < u => ~Float!Fits(n, v)
  BY DEF Float!Coarse
<1>2. CASE n < Mantissa
  <2>1. Float!Fits(n, 1)
    BY <1>0, <1>2 DEF Float!Fits
  <2>2. P(1)
    BY <2>1, FirstUnits, UnitsAre
  <2>3. P(c)
    BY <1>1, <2>2
  <2>4. c = 1
    BY <2>1, <2>3, FirstUnits, UnitsAre
  <2>5. Float!Nearest(n * 1, 1) = n
    BY NearestExact
  <2> QED BY <2>4, <2>5 DEF Float!FloatOf
<1>3. CASE n = Mantissa
  <2>1. ~Float!Fits(n, 1) /\ Float!Fits(n, 2)
    BY <1>0, <1>3 DEF Float!Fits
  <2>2. P(2)
    BY <2>1, FirstUnits, FirstUnit
  <2>3. P(c)
    BY <1>1, <2>2
  <2>4. ~(2 < c) /\ c # 1
    BY <2>1, <2>3, FirstUnits
  <2>5. c = 2
    BY <2>3, <2>4, FirstUnit, UnitsAre
  <2>6. Float!Nearest(h * 2, 2) = h
    BY NearestExact
  <2>7. Float!FloatOf(n) = Float!Nearest(n, 2) * 2
    BY <2>5 DEF Float!FloatOf
  <2>8. Float!FloatOf(n) = h * 2
    BY <1>0, <1>3, <2>6, <2>7
  <2> QED BY <1>0, <1>3, <2>8
<1> QED BY <1>0, <1>2, <1>3

LEMMA FineIs ==
  ASSUME EvenMantissa, NEW a \in Nat, NEW b \in Nat, Float!Fits(a, b)
  PROVE  LET u == Float!Fine(a, b)
         IN  /\ u \in Float!Units /\ Float!Fits(a * u, b)
             /\ u = Float!MaxUnit \/ ~Float!Fits(a * u * 2, b)
<1> DEFINE P(u) == Float!Fits(a * u, b) /\ (u = Float!MaxUnit \/ ~Float!Fits(a * u * 2, b))
<1>1. Mantissa * b \in Nat /\ a < Mantissa * b
  BY ProductIsNat DEF EvenMantissa, Float!Fits
<1>2. \E u \in Float!Units : P(u)
  <2> DEFINE m == Mantissa * b
  <2>1. m \in Nat /\ a < m
    BY <1>1
  <2>2. \A u \in Float!Units : P(u) <=> a * u < m /\ (u = 1048576 \/ ~(a * u * 2 < m))
    BY SMT DEF Float!Fits, Float!MaxUnit
  <2> HIDE DEF m, P
  <2> SUFFICES ASSUME \A u \in Float!Units : a * u < m => u # 1048576 /\ a * u * 2 < m
               PROVE  FALSE
    BY <2>2, SMT
  <2> DEFINE Few == {1, 2, 4, 8, 16, 32, 64, 128, 256, 512, 1024, 2048, 4096, 8192, 16384,
                     32768, 65536, 131072, 262144, 524288, 1048576}
  <2>3. Few \subseteq Float!Units
    BY SMT DEF Float!Units
  <2>4. \A u \in Few : a * u < m => u # 1048576 /\ a * u * 2 < m
    BY <2>3, SMT
  <2>5. a * 1024 < m
    BY <2>1, <2>4, SMT
  <2> QED BY <2>1, <2>4, <2>5, SMT
<1> QED BY <1>2 DEF Float!Fine

\* Rounding a quotient leaves it between the two whole numbers around it, apart from
\* the lower one.
LEMMA RoundedBetween ==
  ASSUME EvenMantissa, NEW n \in 1..Mantissa, NEW f \in Nat \ {0}, f < 2 * Float!MaxUnit,
         NEW u \in Nat \ {0}, u = Float!MaxUnit \/ ~Float!Fits(n * u * 2, f),
         NEW c \in Nat, NEW r \in Nat, n + r = c * f + f, r < f
  PROVE  Float!Nearest(n * u, f) \in Nat /\ c * u < Float!Nearest(n * u, f)
         /\ Float!Nearest(n * u, f) <= c * u + u
<1> DEFINE N == Float!Nearest(n * u, f)
<1>0. n \in Nat /\ n > 0 /\ n <= Mantissa /\ Mantissa \in Nat /\ n * u \in Nat
  BY ProductIsNat DEF EvenMantissa
<1>1. PICK q, s \in Nat :
        /\ n * u = q * f + s /\ s < f
        /\ N \in {q, q + 1}
        /\ 2 * s < f => N = q
        /\ 2 * s > f => N = q + 1
  BY <1>0, NearestIs
<1> HIDE DEF N
<1>2. /\ c * u \in Nat /\ r * u \in Nat /\ q * f \in Nat /\ (c * u) * f \in Nat
      /\ f * u \in Nat
  BY ProductIsNat
<1>3. n * u + r * u = (c * u) * f + f * u
  <2>1. (n + r) * u = (c * f + f) * u
    OBVIOUS
  <2>2. (n + r) * u = n * u + r * u
    BY <1>0
  <2>3. (c * f + f) * u = (c * u) * f + f * u
    OBVIOUS
  <2> QED BY <2>1, <2>2, <2>3
<1>4. r * u + u <= f * u
  <2>1. (r + 1) * u <= f * u
    BY Cancel
  <2>2. (r + 1) * u = r * u + u
    OBVIOUS
  <2> QED BY <2>1, <2>2
<1>5. (c * u) * f + u <= q * f + s /\ q * f + s <= (c * u) * f + f * u
  BY <1>0, <1>1, <1>2, <1>3, <1>4
<1>6. N <= c * u + u
  <2>1. (c * u + u) * f = (c * u) * f + f * u
    BY <1>2
  <2>2. q * f <= (c * u + u) * f
    BY <1>2, <1>5, <2>1
  <2>3. q <= c * u + u
    BY <1>2, <2>2, Cancel
  <2>4. CASE N = q
    BY <2>3, <2>4
  <2>5. CASE N = q + 1
    <3>1. s # 0
      BY <1>1, <2>5
    <3>2. q # c * u + u
      BY <1>2, <1>5, <2>1, <3>1
    <3> QED BY <1>2, <2>3, <2>5, <3>2
  <2> QED BY <1>1, <2>4, <2>5
<1>7. c * u <= q
  <2> SUFFICES ASSUME q < c * u PROVE FALSE
    BY <1>2
  <2>1. (q + 1) * f <= (c * u) * f
    BY <1>2, Cancel
  <2>2. (q + 1) * f = q * f + f
    OBVIOUS
  <2> QED BY <1>1, <1>2, <1>5, <2>1, <2>2
<1>8. c * u < N
  <2>1. CASE c * u < q
    BY <1>1, <1>2, <2>1
  <2>2. CASE c * u = q
    <3>1. u <= s
      BY <1>1, <1>2, <1>5, <2>2
    <3>2. 2 * s > f
      <4>1. CASE u = Float!MaxUnit
        BY <3>1, <4>1
      <4>2. CASE ~Float!Fits(n * u * 2, f)
        <5>1. Mantissa * f <= n * u * 2 /\ Mantissa * f \in Nat /\ n * u * 2 \in Nat
          BY <1>0, <4>2, ProductIsNat DEF Float!Fits
        <5>2. n * u * 2 = (2 * u) * n /\ (2 * u) * n = n * (2 * u)
          BY <1>0
        <5>3. f * n <= Mantissa * f
          <6>1. n * f <= Mantissa * f
            BY <1>0, Cancel
          <6>2. n * f = f * n
            BY <1>0
          <6> QED BY <6>1, <6>2
        <5>4. f * n <= (2 * u) * n
          BY <1>0, <5>1, <5>2, <5>3, ProductIsNat
        <5>5. f <= 2 * u
          BY <1>0, <5>4, Cancel
        <5>6. SUFFICES ASSUME 2 * s <= f PROVE FALSE
          BY <1>1
        <5>7. s = u /\ f = 2 * u
          BY <3>1, <5>5, <5>6
        <5>8. Mantissa <= n
          <6>1. Mantissa * (2 * u) <= n * (2 * u)
            BY <5>1, <5>2, <5>7
          <6> QED BY <1>0, <6>1, Cancel
        <5>9. n = 2 * q + 1
          <6>1. n * u = (2 * q + 1) * u
            <7>1. q * f = (2 * q) * u
              BY <5>7
            <7>2. (2 * q + 1) * u = (2 * q) * u + u
              OBVIOUS
            <7> QED BY <1>1, <5>7, <7>1, <7>2
          <6>2. n * u <= (2 * q + 1) * u /\ (2 * q + 1) * u <= n * u
            BY <1>0, <6>1
          <6>3. n <= 2 * q + 1 /\ 2 * q + 1 <= n
            BY <1>0, <6>2, Cancel
          <6> QED BY <1>0, <6>3
        <5>10. PICK h \in Nat : Mantissa = h * 2
          BY Half
        <5> QED BY <1>0, <5>8, <5>9, <5>10
      <4> QED BY <4>1, <4>2
    <3>3. N = q + 1
      BY <1>1, <3>2
    <3> QED BY <1>2, <2>2, <3>3
  <2> QED BY <1>2, <1>7, <2>1, <2>2
<1> QED BY <1>1, <1>6, <1>8 DEF N

\* Float, division and ceil together lose no fragment and add none, as long as the
\* message is no longer than the mantissa is large: 16 MB in the code, which divides
\* by a float of 24 bits.  So DTXMessageTransmitter may count with whole numbers.
THEOREM FloatsCountFragments ==
  ASSUME EvenMantissa
  PROVE  \A n \in 0..Mantissa, f \in 1..(2 * Float!MaxUnit - 1) :
           Float!FragmentsForLength(n, f) = Float!CeilDiv(n, f)
<1> SUFFICES ASSUME NEW n \in 0..Mantissa, NEW f \in 1..(2 * Float!MaxUnit - 1)
             PROVE  Float!FragmentsForLength(n, f) = Float!CeilDiv(n, f)
  OBVIOUS
<1>0. Mantissa \in Nat /\ Mantissa > 0 /\ n \in Nat /\ n <= Mantissa
  BY DEF EvenMantissa
<1>1. f \in Nat \ {0} /\ f < 2 * Float!MaxUnit
  <2>1. Float!MaxUnit \in Nat
    BY SMT DEF Float!MaxUnit
  <2> QED BY <2>1
<1>2. CASE n = 0
  <2>1. Float!FragmentsForLength(n, f) = 0
    BY <1>2 DEF Float!FragmentsForLength
  <2>2. (n + f - 1) \div f = 0
    <3>1. n + f - 1 \in Nat /\ 0 * f <= n + f - 1 /\ n + f - 1 < 0 * f + f
      BY <1>1, <1>2
    <3> QED BY <1>1, <3>1, QuotientIs
  <2> QED BY <2>1, <2>2 DEF Float!CeilDiv
<1>3. CASE n > 0 /\ Float!Fits(n, f)
  <2> DEFINE u == Float!Fine(n, f)
             N == Float!Nearest(n * u, f)
             k == Float!CeilDiv(n, f)
  <2>1. Float!FragmentsForLength(n, f) = Float!CeilDiv(N, u)
    BY <1>0, <1>3, FloatIsExact DEF Float!FragmentsForLength, Float!CeilOfQuotient
  <2>2. u \in Float!Units /\ (u = Float!MaxUnit \/ ~Float!Fits(n * u * 2, f))
    BY <1>0, <1>1, <1>3, FineIs
  <2>3. u \in Nat \ {0}
    BY <2>2, UnitsAre
  <2> HIDE DEF u
  <2>4. PICK t \in Nat : t < f /\ k \in Nat /\ n + f - 1 = k * f + t
    <3>1. n + f - 1 \in Nat
      BY <1>0, <1>1
    <3>2. /\ (n + f - 1) \div f \in Nat /\ (n + f - 1) % f \in 0..(f - 1)
          /\ n + f - 1 = ((n + f - 1) \div f) * f + ((n + f - 1) % f)
      BY <1>1, <3>1, DivMod
    <3>3. (n + f - 1) % f \in Nat /\ (n + f - 1) % f < f
      BY <1>1, <3>2
    <3> QED BY <3>2, <3>3, Zenon DEF Float!CeilDiv
  <2> HIDE DEF k
  <2>5. k > 0
    <3> SUFFICES ASSUME k = 0 PROVE FALSE
      BY <2>4
    <3>1. k * f = 0
      BY <1>1
    <3> QED BY <1>0, <1>1, <1>3, <2>4, <3>1
  <2>6. PICK c \in Nat : k = c + 1
    <3>1. k - 1 \in Nat /\ k = (k - 1) + 1
      BY <2>4, <2>5
    <3> QED BY <3>1
  <2>7. PICK r \in Nat : r < f /\ n + r = c * f + f
    <3>1. k * f = c * f + f /\ c * f \in Nat
      BY <1>1, <2>6, ProductIsNat
    <3>2. f - 1 - t \in Nat /\ f - 1 - t < f
      BY <1>1, <2>4
    <3>3. n + (f - 1 - t) = c * f + f
      BY <1>0, <1>1, <2>4, <3>1
    <3> QED BY <3>2, <3>3
  <2>8. N \in Nat /\ c * u < N /\ N <= c * u + u
    <3>1. n \in 1..Mantissa
      BY <1>0, <1>3
    <3> QED BY <1>1, <2>2, <2>3, <2>7, <3>1, RoundedBetween
  <2> HIDE DEF N
  <2>9. (N + u - 1) \div u = k
    <3>1. k * u = c * u + u /\ c * u \in Nat
      BY <2>3, <2>6, ProductIsNat
    <3>2. N + u - 1 \in Nat /\ k * u <= N + u - 1 /\ N + u - 1 < k * u + u
      BY <2>3, <2>8, <3>1
    <3> QED BY <2>3, <2>4, <3>2, QuotientIs
  <2>10. Float!CeilDiv(N, u) = k
    BY <2>9 DEF Float!CeilDiv
  <2> QED BY <2>1, <2>10 DEF k
<1>4. CASE n > 0 /\ ~Float!Fits(n, f)
  <2>1. n = Mantissa /\ f = 1
    <3>1. Mantissa * f <= n /\ Mantissa * f \in Nat
      BY <1>0, <1>1, <1>4, ProductIsNat DEF Float!Fits
    <3>2. f = 1
      <4> SUFFICES ASSUME f >= 2 PROVE FALSE
        BY <1>1
      <4>1. 2 * Mantissa <= f * Mantissa
        BY <1>0, <1>1, Cancel
      <4>2. f * Mantissa = Mantissa * f
        BY <1>0, <1>1
      <4> QED BY <1>0, <3>1, <4>1, <4>2
    <3> QED BY <1>0, <3>1, <3>2
  <2>2. PICK h \in Nat : Mantissa = h * 2
    BY Half
  <2> DEFINE w == CHOOSE u \in Float!Units :
                    Float!Fits(n, f * u) /\ \A v \in Float!Units : v < u => ~Float!Fits(n, f * v)
  <2>3. ~Float!Fits(n, f * 1) /\ Float!Fits(n, f * 2)
    BY <1>0, <2>1 DEF Float!Fits
  <2>4. \A v \in Float!Units : v < 2 => ~Float!Fits(n, f * v)
    BY <2>3, FirstUnit
  <2>5. /\ w \in Float!Units /\ Float!Fits(n, f * w)
        /\ \A v \in Float!Units : v < w => ~Float!Fits(n, f * v)
    BY <2>3, <2>4, FirstUnits
  <2>6. Float!FragmentsForLength(n, f) = Float!Nearest(n, f * w) * w
    <3>1. Float!FloatOf(n) = n /\ n # 0
      BY <1>0, <1>4, FloatIsExact
    <3>2. Float!CeilOfQuotient(n, f) = Float!Nearest(n, f * w) * w
      BY <1>4, Zenon DEF Float!CeilOfQuotient
    <3> HIDE DEF w
    <3> QED BY <3>1, <3>2 DEF Float!FragmentsForLength
  <2> HIDE DEF w
  <2>7. w = 2
    <3>1. ~(2 < w) /\ w # 1
      BY <2>3, <2>5, FirstUnits
    <3> QED BY <2>5, <3>1, UnitsAre, FirstUnit
  <2>8. Float!Nearest(h * 2, 2) = h
    BY NearestExact
  <2>9. f * w = 2 /\ n = h * 2
    BY <2>1, <2>2, <2>7
  <2>10. Float!FragmentsForLength(n, f) = h * 2
    BY <2>6, <2>7, <2>8, <2>9
  <2>11. (n + f - 1) \div f = n
    <3>1. n * f = n /\ n + f - 1 = n
      BY <1>0, <2>1
    <3> QED BY <1>0, <1>1, <3>1, QuotientIs
  <2> QED BY <2>9, <2>10, <2>11 DEF Float!CeilDiv
<1> QED BY <1>0, <1>2, <1>3, <1>4

\* TransmitMessage writes the count of number_of_pieces into every header, and the float
\* computation gives just that count for every message that a program builds, up to the
\* mantissa.
THEOREM PiecesAreCounted ==
  ASSUME EvenMantissa, fragment_length < 2 * Float!MaxUnit
  PROVE  Spec => [](serialized_length <= Mantissa =>
                     number_of_pieces = Float!FragmentsForLength(serialized_length, fragment_length))
<1>1. fragment_length \in 1..(2 * Float!MaxUnit - 1)
  <2>1. Float!MaxUnit \in Nat
    BY SMT DEF Float!MaxUnit
  <2> QED BY <2>1, ConstantsAssumption
<1>2. TypeOK /\ serialized_length <= Mantissa =>
        number_of_pieces = Float!FragmentsForLength(serialized_length, fragment_length)
  <2> SUFFICES ASSUME TypeOK, serialized_length <= Mantissa
               PROVE  number_of_pieces
                        = Float!FragmentsForLength(serialized_length, fragment_length)
    OBVIOUS
  <2>1. serialized_length \in 0..Mantissa
    BY DEF TypeOK, TransmitterTypeOK, EvenMantissa
  <2>2. Float!FragmentsForLength(serialized_length, fragment_length)
          = Float!CeilDiv(serialized_length, fragment_length)
    BY <1>1, <2>1, FloatsCountFragments
  <2> QED BY <2>2 DEF number_of_pieces, FragmentsForLength, Float!CeilDiv
<1> QED BY <1>2, SendingTypes, PTL
=============================================================================
