----------------------------- MODULE ToolingProofs -----------------------------
(***************************************************************************)
(* Proofs that the scripts leave the working tree as they promise and that *)
(* their verdicts are true, for any sources, bundles, web, releases and    *)
(* packages.                                                               *)
(***************************************************************************)
EXTENDS Tooling, FiniteSetTheorems, WellFoundedInduction, TLAPS

-----------------------------------------------------------------------------
(* The numbers of a finite set in order.                                   *)

LEMMA LeastExists ==
  ASSUME NEW T, T \subseteq Nat, T # {}
  PROVE  \E m \in T : \A k \in T : m <= k
<1>1. PICK m \in T : \A k \in T : <<k, m>> \notin OpToRel(<, Nat)
  BY WFMin, NatLessThanWellFounded, Zenon
<1>2. \A k \in T : ~(k < m)
  BY <1>1, Zenon DEF OpToRel
<1> QED BY <1>2

LEMMA PlacesFinite ==
  ASSUME NEW n \in Nat, NEW P, P \subseteq 1..n
  PROVE  P \subseteq Int /\ IsFiniteSet(P)
<1>1. IsFiniteSet(1..n)
  BY FS_Interval
<1>2. \A D \in SUBSET (1..n) : IsFiniteSet(D)
  BY <1>1, FS_Subset
<1> QED BY <1>2

(* How many of P are up to p.                                              *)
Rank(P, p) == Cardinality({q \in P : q <= p})

LEMMA RankType ==
  ASSUME NEW P, P \subseteq Int, IsFiniteSet(P), NEW p \in P
  PROVE  Rank(P, p) \in 1..Cardinality(P)
<1> DEFINE B == {q \in P : q <= p}
<1>1. IsFiniteSet(B) /\ Cardinality(B) <= Cardinality(P) /\ B \subseteq P
  BY FS_Subset
<1>2. p \in B
  OBVIOUS
<1>3. Cardinality(B) \in Nat /\ Cardinality(B) # 0 /\ Cardinality(P) \in Nat
  BY <1>1, <1>2, FS_CardinalityType, FS_EmptySet
<1> QED BY <1>1, <1>3 DEF Rank

LEMMA RankMonotone ==
  ASSUME NEW P, P \subseteq Int, IsFiniteSet(P), NEW p \in P, NEW r \in P, p < r
  PROVE  Rank(P, p) < Rank(P, r)
<1> DEFINE A == {q \in P : q <= p}
           B == {q \in P : q <= r}
<1>1. IsFiniteSet(B) /\ IsFiniteSet(A)
  <2>1. B \in SUBSET P /\ A \in SUBSET P
    OBVIOUS
  <2>2. \A T \in SUBSET P : IsFiniteSet(T)
    BY FS_Subset
  <2> QED BY <2>1, <2>2
<1>2. A \subseteq B /\ r \in B /\ r \notin A
  <2>1. p \in Int /\ r \in Int
    OBVIOUS
  <2>2. ASSUME NEW q \in P, q <= p PROVE q <= r
    <3>1. q \in Int
      OBVIOUS
    <3> QED BY <2>1, <2>2, <3>1
  <2>3. r <= r /\ ~(r <= p)
    BY <2>1
  <2> QED BY <2>2, <2>3
<1>3. Cardinality(A) <= Cardinality(B) /\ Cardinality(A) # Cardinality(B)
  <2>1. A \in SUBSET B /\ A # B
    BY <1>2
  <2> HIDE DEF A, B
  <2> QED BY <1>1, <2>1, FS_Subset
<1>4. Cardinality(A) \in Nat /\ Cardinality(B) \in Nat
  BY <1>1, FS_CardinalityType
<1> QED BY <1>3, <1>4 DEF Rank

(* Every rank is that of one member.                                       *)
LEMMA RankOnto ==
  ASSUME NEW P, P \subseteq Int, IsFiniteSet(P), NEW n \in 1..Cardinality(P)
  PROVE  \E p \in P : Rank(P, p) = n
<1> DEFINE f == [p \in P |-> Rank(P, p)]
           R == {f[p] : p \in P}
<1>1. Cardinality(P) \in Nat
  BY FS_CardinalityType
<1>2. R \subseteq 1..Cardinality(P)
  BY RankType
<1>3. f \in Bijection(P, R)
  <2>1. f \in [P -> R] /\ \A r \in R : \E p \in P : f[p] = r
    OBVIOUS
  <2>2. ASSUME NEW p \in P, NEW q \in P, p # q PROVE f[p] # f[q]
    <3>1. p \in Int /\ q \in Int /\ f[p] = Rank(P, p) /\ f[q] = Rank(P, q)
      OBVIOUS
    <3>2. Rank(P, p) \in Int /\ Rank(P, q) \in Int
      <4>1. Rank(P, p) \in 1..Cardinality(P) /\ Rank(P, q) \in 1..Cardinality(P)
        BY RankType, Zenon
      <4> QED BY <1>1, <4>1
    <3>3. p < q => Rank(P, p) < Rank(P, q)
      BY RankMonotone
    <3>4. q < p => Rank(P, q) < Rank(P, p)
      BY RankMonotone
    <3> HIDE DEF f
    <3> QED BY <3>1, <3>2, <3>3, <3>4, <2>2
  <2> QED BY <2>1, <2>2, Zenon DEF Bijection, Injection, Surjection, IsInjective
<1>4. Cardinality(R) = Cardinality(P) /\ IsFiniteSet(R)
  <2>1. ExistsBijection(P, R)
    BY <1>3 DEF ExistsBijection
  <2> HIDE DEF R
  <2> QED BY <2>1, FS_Bijection
<1>5. IsFiniteSet(1..Cardinality(P)) /\ Cardinality(1..Cardinality(P)) = Cardinality(P)
  BY <1>1, FS_Interval
<1>6. R = 1..Cardinality(P)
  BY <1>2, <1>4, <1>5, FS_Subset
<1> QED BY <1>6

(* The member of a rank.                                                   *)
Nth(P, n) == CHOOSE p \in P : Rank(P, p) = n

LEMMA InOrderIs ==
  ASSUME NEW P, P \subseteq Int, IsFiniteSet(P)
  PROVE  /\ Cardinality(P) \in Nat
         /\ InOrder(P) = [n \in 1..Cardinality(P) |-> InOrder(P)[n]]
         /\ \A n \in 1..Cardinality(P) : InOrder(P)[n] \in P /\ Rank(P, InOrder(P)[n]) = n
         /\ \A m, n \in 1..Cardinality(P) : m < n => InOrder(P)[m] < InOrder(P)[n]
         /\ \A p \in P : Rank(P, p) \in 1..Cardinality(P) /\ InOrder(P)[Rank(P, p)] = p
<1> DEFINE C == Cardinality(P)
<1>1. C \in Nat
  BY FS_CardinalityType
<1>2. /\ InOrder(P) = [n \in 1..C |-> InOrder(P)[n]]
      /\ \A n \in 1..C : InOrder(P)[n] = Nth(P, n)
  <2>1. InOrder(P) = [n \in 1..C |-> Nth(P, n)]
    BY DEF InOrder, Nth, Rank
  <2> QED BY <2>1
<1>3. ASSUME NEW n \in 1..C PROVE InOrder(P)[n] \in P /\ Rank(P, InOrder(P)[n]) = n
  <2>1. \E p \in P : Rank(P, p) = n
    BY RankOnto
  <2>2. Nth(P, n) \in P /\ Rank(P, Nth(P, n)) = n
    BY <2>1, Zenon DEF Nth
  <2> QED BY <1>2, <2>2
<1> HIDE DEF C
<1>4. ASSUME NEW p \in P, NEW q \in P, Rank(P, p) <= Rank(P, q) PROVE p <= q
  <2>1. p \in Int /\ q \in Int
    OBVIOUS
  <2>2. Rank(P, p) \in Int /\ Rank(P, q) \in Int
    <3>1. Rank(P, p) \in 1..C /\ Rank(P, q) \in 1..C
      BY RankType, Zenon DEF C
    <3> QED BY <1>1, <3>1
  <2>3. q < p => Rank(P, q) < Rank(P, p)
    BY RankMonotone
  <2> QED BY <2>1, <2>2, <2>3, <1>4
<1>5. ASSUME NEW m \in 1..C, NEW n \in 1..C, m < n PROVE InOrder(P)[m] < InOrder(P)[n]
  <2> DEFINE x == InOrder(P)[m]
             y == InOrder(P)[n]
  <2>1. x \in P /\ Rank(P, x) = m /\ y \in P /\ Rank(P, y) = n
    BY <1>3
  <2> HIDE DEF x, y
  <2>2. m <= n /\ m # n
    BY <1>1, <1>5
  <2>3. x <= y
    BY <1>4, <2>1, <2>2
  <2>4. x \in Int /\ y \in Int /\ x # y
    BY <2>1, <2>2
  <2>5. x < y
    BY <2>3, <2>4
  <2> QED BY <2>5 DEF x, y
<1>6. ASSUME NEW p \in P PROVE Rank(P, p) \in 1..C /\ InOrder(P)[Rank(P, p)] = p
  <2>1. Rank(P, p) \in 1..C
    BY RankType DEF C
  <2> DEFINE q == InOrder(P)[Rank(P, p)]
  <2>2. q \in P /\ Rank(P, q) = Rank(P, p)
    BY <1>3, <2>1
  <2> HIDE DEF q
  <2>3. Rank(P, p) \in Int
    BY <1>1, <2>1
  <2>4. p <= q /\ q <= p
    BY <1>4, <2>2, <2>3
  <2>5. p = q
    BY <2>2, <2>4
  <2> QED BY <2>1, <2>5 DEF q
<1> QED BY <1>1, <1>2, <1>3, <1>5, <1>6 DEF C

(* No other sequence lists them upwards.                                   *)
LEMMA InOrderOnly ==
  ASSUME NEW P, P \subseteq Int, NEW m \in Nat, NEW g,
         g = [n \in 1..m |-> g[n]],
         \A n \in 1..m : g[n] \in P,
         \A p \in P : \E n \in 1..m : g[n] = p,
         \A i, j \in 1..m : i < j => g[i] < g[j]
  PROVE  IsFiniteSet(P) /\ Cardinality(P) = m /\ InOrder(P) = g
<1>1. ASSUME NEW i \in 1..m, NEW j \in 1..m PROVE g[i] <= g[j] <=> i <= j
  <2>1. g[i] \in Int /\ g[j] \in Int
    OBVIOUS
  <2> QED BY <2>1, <1>1
<1>2. ASSUME NEW n \in 0..m PROVE IsFiniteSet({g[k] : k \in 1..n}) /\ Cardinality({g[k] : k \in 1..n}) = n
  <2> DEFINE R == {g[k] : k \in 1..n}
             h == [k \in 1..n |-> g[k]]
  <2>1. h \in [1..n -> R] /\ \A r \in R : \E k \in 1..n : h[k] = r
    OBVIOUS
  <2>2. ASSUME NEW i \in 1..n, NEW j \in 1..n, h[i] = h[j] PROVE i = j
    <3>1. i \in 1..m /\ j \in 1..m /\ g[i] = g[j]
      BY <2>2
    <3>2. g[i] \in Int
      BY <3>1
    <3> QED BY <1>1, <3>1, <3>2
  <2>3. h \in Bijection(1..n, R)
    BY <2>1, <2>2, Zenon DEF Bijection, Injection, Surjection, IsInjective
  <2>4. IsFiniteSet(1..n) /\ Cardinality(1..n) = n
    <3>1. n \in Int /\ 1 \in Int
      OBVIOUS
    <3>2. IsFiniteSet(1..n) /\ Cardinality(1..n) = IF 1 > n THEN 0 ELSE n - 1 + 1
      BY <3>1, FS_Interval, Zenon
    <3> QED BY <3>1, <3>2
  <2>5. ExistsBijection(1..n, R)
    BY <2>3 DEF ExistsBijection
  <2> HIDE DEF R
  <2>6. IsFiniteSet(R) /\ Cardinality(R) = n
    BY <2>4, <2>5, FS_Bijection
  <2> QED BY <2>6 DEF R
<1>3. P = {g[k] : k \in 1..m}
  OBVIOUS
<1>4. IsFiniteSet(P) /\ Cardinality(P) = m
  <2>1. m \in 0..m
    OBVIOUS
  <2> QED BY <1>2, <1>3, <2>1, Zenon
<1>5. ASSUME NEW n \in 1..m PROVE Rank(P, g[n]) = n
  <2>1. {q \in P : q <= g[n]} = {g[k] : k \in 1..n}
    BY <1>1, <1>3
  <2>2. n \in 0..m
    OBVIOUS
  <2> QED BY <1>2, <2>1, <2>2, Zenon DEF Rank
<1>6. ASSUME NEW n \in 1..m PROVE InOrder(P)[n] = g[n]
  <2>1. g[n] \in P /\ Rank(P, g[n]) = n
    BY <1>5
  <2> QED BY <1>4, <2>1, InOrderIs
<1>7. InOrder(P) = [n \in 1..m |-> InOrder(P)[n]]
  BY <1>4, InOrderIs
<1> QED BY <1>4, <1>6, <1>7

-----------------------------------------------------------------------------
(* Sequences.                                                              *)

LEMMA SubSeqIs ==
  ASSUME NEW S, NEW s \in Seq(S), NEW a \in Nat, NEW b \in Nat, 1 <= a, a <= b + 1, b <= Len(s)
  PROVE  /\ SubSeq(s, a, b) \in Seq(S)
         /\ Len(SubSeq(s, a, b)) = b + 1 - a
         /\ DOMAIN SubSeq(s, a, b) = 1..(b + 1 - a)
         /\ \A p \in 1..(b + 1 - a) : SubSeq(s, a, b)[p] = s[a + p - 1]
<1>1. SubSeq(s, a, b) = [p \in 1..(b + 1 - a) |-> s[a + p - 1]]
  <2>1. 1..(b - a + 1) = 1..(b + 1 - a)
    OBVIOUS
  <2> QED BY <2>1
<1>2. b + 1 - a \in Nat /\ Len(s) \in Nat /\ DOMAIN s = 1..Len(s)
  OBVIOUS
<1>3. ASSUME NEW p \in 1..(b + 1 - a) PROVE s[a + p - 1] \in S
  <2>1. a + p - 1 \in 1..Len(s)
    BY <1>2
  <2> QED BY <2>1
<1> DEFINE n == b + 1 - a
<1>4. SubSeq(s, a, b) \in [1..n -> S]
  BY <1>1, <1>3
<1> HIDE DEF n
<1>5. SubSeq(s, a, b) \in Seq(S) /\ Len(SubSeq(s, a, b)) = n /\ n \in Nat
  <2>1. n \in Nat
    BY <1>2 DEF n
  <2> QED BY <1>4, <2>1
<1> QED BY <1>1, <1>5 DEF n

LEMMA ConcatIs ==
  ASSUME NEW S, NEW s \in Seq(S), NEW t \in Seq(S)
  PROVE  /\ s \o t \in Seq(S)
         /\ Len(s \o t) = Len(s) + Len(t)
         /\ DOMAIN (s \o t) = 1..(Len(s) + Len(t))
         /\ s \o t = [p \in 1..(Len(s) + Len(t)) |-> (s \o t)[p]]
         /\ \A p \in 1..(Len(s) + Len(t)) :
              (s \o t)[p] = IF p <= Len(s) THEN s[p] ELSE t[p - Len(s)]
<1>1. s \o t \in Seq(S) /\ Len(s \o t) = Len(s) + Len(t) /\ Len(s) \in Nat /\ Len(t) \in Nat
  OBVIOUS
<1>2. \A p \in 1..(Len(s) + Len(t)) : (s \o t)[p] = IF p <= Len(s) THEN s[p] ELSE t[p - Len(s)]
  OBVIOUS
<1> DEFINE u == s \o t
<1> HIDE DEF u
<1>3. u \in Seq(S) /\ Len(u) = Len(s) + Len(t)
  BY <1>1 DEF u
<1>4. DOMAIN u = 1..Len(u) /\ u = [p \in 1..Len(u) |-> u[p]]
  BY <1>3
<1> QED BY <1>1, <1>2, <1>3, <1>4 DEF u

-----------------------------------------------------------------------------
(* mutate-const-tables: what a removal takes out.                          *)

(* The entries of a list are at its odd places.                            *)
Half(n) == (n + 1) \div 2

LEMMA HalfIs ==
  ASSUME NEW n \in Nat
  PROVE  /\ Half(n) \in Nat
         /\ n = 2 * Half(n) \/ n = 2 * Half(n) - 1
         /\ n % 2 = 0 <=> n = 2 * Half(n)
BY DEF Half

LEMMA EntriesAtOdd ==
  ASSUME NEW tokens, Alternate(tokens)
  PROVE  /\ Len(tokens) \in Nat /\ DOMAIN tokens = 1..Len(tokens)
         /\ Half(Len(tokens)) \in Nat
         /\ Positions(tokens) = [n \in 1..Half(Len(tokens)) |-> 2 * n - 1]
         /\ Entries(tokens) = [n \in 1..Half(Len(tokens)) |-> tokens[2 * n - 1]]
<1> DEFINE L == Len(tokens)
           m == Half(L)
           g == [n \in 1..m |-> 2 * n - 1]
<1>1. L \in Nat /\ DOMAIN tokens = 1..L /\ \A p \in 1..L : tokens[p] = Comma <=> p % 2 = 0
  BY DEF Alternate
<1>2. m \in Nat /\ (L = 2 * m \/ L = 2 * m - 1)
  BY <1>1, HalfIs
<1> HIDE DEF L, m
<1>3. EntryPlaces(tokens) = {p \in 1..L : p % 2 # 0}
  BY <1>1 DEF EntryPlaces
<1>4. ASSUME NEW n \in 1..m PROVE g[n] \in EntryPlaces(tokens)
  <2>1. 2 * n - 1 \in 1..L /\ (2 * n - 1) % 2 # 0
    BY <1>2
  <2> QED BY <1>3, <2>1
<1>5. ASSUME NEW p \in EntryPlaces(tokens) PROVE \E n \in 1..m : g[n] = p
  <2>1. p \in 1..L /\ p \in Nat /\ p % 2 # 0
    BY <1>1, <1>3
  <2>2. Half(p) \in Nat /\ p = 2 * Half(p) - 1
    BY <2>1, HalfIs
  <2>3. Half(p) \in 1..m
    BY <1>2, <2>1, <2>2
  <2> QED BY <2>2, <2>3
<1>6. \A i, j \in 1..m : i < j => g[i] < g[j]
  BY <1>2
<1>7. EntryPlaces(tokens) \subseteq Int
  BY <1>1, <1>3
<1>8. /\ Cardinality(EntryPlaces(tokens)) = m
      /\ InOrder(EntryPlaces(tokens)) = g
  <2>1. g = [n \in 1..m |-> g[n]]
    OBVIOUS
  <2> HIDE DEF g
  <2> QED BY <1>2, <1>4, <1>5, <1>6, <1>7, <2>1, InOrderOnly
<1>9. Entries(tokens) = [n \in 1..m |-> tokens[2 * n - 1]]
  BY <1>8 DEF Entries, Picked
<1> QED BY <1>1, <1>2, <1>8, <1>9 DEF Positions, L, m

(* What is left is a list again, of the other entries.                     *)
LEMMA CutIs ==
  ASSUME NEW tokens, Alternate(tokens), NEW i \in DOMAIN Entries(tokens)
  PROVE  /\ Alternate(WithoutEntry(tokens, i))
         /\ Entries(WithoutEntry(tokens, i)) = RemoveAt(Entries(tokens), i)
<1> DEFINE L   == Len(tokens)
           m   == Half(L)
           cut == WithoutEntry(tokens, i)
           K   == IF i < m THEN L - 2 ELSE IF i = 1 THEN 0 ELSE 2 * i - 3
<1>1. /\ L \in Nat /\ DOMAIN tokens = 1..L /\ m \in Nat /\ i \in 1..m
      /\ \A p \in 1..L : tokens[p] = Comma <=> p % 2 = 0
      /\ tokens \in Seq(ToSet(tokens))
  BY EntriesAtOdd DEF Alternate
<1>2. L = 2 * m \/ L = 2 * m - 1
  BY <1>1, HalfIs
<1>3. Positions(tokens) = [n \in 1..m |-> 2 * n - 1] /\ Len(Positions(tokens)) = m
  BY <1>1, EntriesAtOdd
<1>4. cut = IF i < m THEN SubSeq(tokens, 1, 2 * i - 2) \o SubSeq(tokens, 2 * i + 1, L)
            ELSE SubSeq(tokens, 1, IF i = 1 THEN 0 ELSE 2 * i - 3)
  <2> DEFINE Start(j) == IF j = 1 THEN 1 ELSE Positions(tokens)[j - 1] + 2
  <2>1. \A j \in 1..m : Positions(tokens)[j] = 2 * j - 1
    BY <1>3
  <2>2. Start(i) = 2 * i - 1 /\ (i < m => Start(i + 1) = 2 * i + 1)
    <3>1. i = 1 \/ Positions(tokens)[i - 1] = 2 * i - 3
      BY <1>1, <2>1
    <3>2. Positions(tokens)[i] = 2 * i - 1 /\ i + 1 # 1 /\ i + 1 - 1 = i
      BY <1>1, <2>1
    <3> QED BY <1>1, <3>1, <3>2
  <2>3. i = 1 \/ Positions(tokens)[i - 1] = 2 * i - 3
    BY <1>1, <2>1
  <2>4. cut = IF i < m THEN SubSeq(tokens, 1, Start(i) - 1) \o SubSeq(tokens, Start(i + 1), L)
              ELSE SubSeq(tokens, 1, IF i = 1 THEN 0 ELSE Positions(tokens)[i - 1])
    BY <1>3 DEF WithoutEntry
  <2> HIDE DEF Start, cut
  <2>5. Start(i) - 1 = 2 * i - 2
    BY <1>1, <2>2
  <2> QED BY <2>2, <2>3, <2>4, <2>5
<1> HIDE DEF cut, L, m
<1>5. /\ K \in Nat /\ Len(cut) = K /\ DOMAIN cut = 1..K
      /\ \A p \in 1..K : cut[p] = tokens[IF p <= 2 * i - 2 THEN p ELSE p + 2]
      /\ cut = [p \in 1..K |-> cut[p]]
  <2>1. CASE i < m
    <3> DEFINE s == SubSeq(tokens, 1, 2 * i - 2)
               t == SubSeq(tokens, 2 * i + 1, L)
    <3>1. /\ s \in Seq(ToSet(tokens)) /\ Len(s) = 2 * i - 2 /\ 2 * i - 2 \in Nat
          /\ \A p \in 1..(2 * i - 2) : s[p] = tokens[p]
      <4>1. 2 * i - 2 \in Nat /\ 2 * i - 2 <= L /\ 1 <= 2 * i - 2 + 1 /\ 2 * i - 2 + 1 - 1 = 2 * i - 2
        BY <1>1, <1>2, <2>1
      <4> QED BY <1>1, <4>1, SubSeqIs DEF L
    <3>2. /\ t \in Seq(ToSet(tokens)) /\ Len(t) = L - 2 * i /\ L - 2 * i \in Nat
          /\ \A p \in 1..(L - 2 * i) : t[p] = tokens[2 * i + p]
      <4>1. 2 * i + 1 \in Nat /\ L \in Nat /\ 1 <= 2 * i + 1 /\ 2 * i + 1 <= L + 1 /\ L + 1 - (2 * i + 1) = L - 2 * i
        BY <1>1, <1>2, <2>1
      <4>2. \A p \in 1..(L - 2 * i) : 2 * i + 1 + p - 1 = 2 * i + p
        BY <1>1
      <4>3. /\ t \in Seq(ToSet(tokens)) /\ Len(t) = L + 1 - (2 * i + 1)
            /\ \A p \in 1..(L + 1 - (2 * i + 1)) : t[p] = tokens[2 * i + 1 + p - 1]
        BY <1>1, <4>1, SubSeqIs DEF L
      <4> QED BY <4>1, <4>2, <4>3
    <3>3. cut = s \o t
      BY <1>4, <2>1
    <3> HIDE DEF s, t
    <3>4. K = L - 2 /\ K = Len(s) + Len(t) /\ K \in Nat
      BY <1>1, <1>2, <2>1, <3>1, <3>2
    <3>5. cut \in Seq(ToSet(tokens)) /\ Len(cut) = K
      <4> HIDE DEF K
      <4> QED BY <3>1, <3>2, <3>3, <3>4, ConcatIs
    <3>6. \A p \in 1..K : cut[p] = IF p <= 2 * i - 2 THEN s[p] ELSE t[p - (2 * i - 2)]
      <4> HIDE DEF K
      <4> QED BY <3>1, <3>2, <3>3, <3>4, ConcatIs, SMTT(40)
    <3>7. ASSUME NEW p \in 1..K PROVE cut[p] = tokens[IF p <= 2 * i - 2 THEN p ELSE p + 2]
      <4>1. CASE p <= 2 * i - 2
        BY <3>1, <3>4, <3>6, <4>1
      <4>2. CASE ~(p <= 2 * i - 2)
        <5>1. p - (2 * i - 2) \in 1..(L - 2 * i) /\ 2 * i + (p - (2 * i - 2)) = p + 2
          BY <1>1, <3>4, <4>2
        <5> QED BY <3>2, <3>6, <4>2, <5>1
      <4> QED BY <4>1, <4>2
    <3> HIDE DEF K
    <3> QED BY <3>4, <3>5, <3>7
  <2>2. CASE ~(i < m)
    <3>1. K = (IF i = 1 THEN 0 ELSE 2 * i - 3) /\ K \in Nat /\ K <= L /\ K <= 2 * i - 2
      BY <1>1, <1>2, <2>2
    <3>2. cut = SubSeq(tokens, 1, K)
      BY <1>4, <2>2, <3>1
    <3> HIDE DEF K
    <3>3. cut \in Seq(ToSet(tokens)) /\ Len(cut) = K /\ \A p \in 1..K : cut[p] = tokens[p]
      BY <1>1, <3>1, <3>2 DEF L
    <3>4. \A p \in 1..K : p <= 2 * i - 2
      BY <1>1, <3>1
    <3> QED BY <3>1, <3>3, <3>4
  <2> QED BY <2>1, <2>2
<1>6. ASSUME NEW p \in 1..K PROVE cut[p] = Comma <=> p % 2 = 0
  <2>1. CASE p <= 2 * i - 2
    <3>1. p \in 1..L
      BY <1>1, <1>2, <2>1
    <3> QED BY <1>1, <1>5, <2>1, <3>1
  <2>2. CASE ~(p <= 2 * i - 2)
    <3>1. p + 2 \in 1..L /\ ((p + 2) % 2 = 0 <=> p % 2 = 0)
      BY <1>1, <1>2, <2>2
    <3> QED BY <1>1, <1>5, <2>2, <3>1
  <2> QED BY <2>1, <2>2
<1>7. Alternate(cut)
  <2>1. cut \in Seq(ToSet(cut))
    BY <1>5, SMTT(40) DEF ToSet
  <2> QED BY <1>5, <1>6, <2>1 DEF Alternate
<1>8. /\ Half(K) = m - 1
      /\ Entries(cut) = [n \in 1..(m - 1) |-> cut[2 * n - 1]]
  <2>1. Half(K) = m - 1
    BY <1>1, <1>2 DEF Half
  <2>2. Len(cut) = K
    BY <1>5
  <2> HIDE DEF K
  <2> QED BY <1>7, <2>1, <2>2, EntriesAtOdd
<1>9. RemoveAt(Entries(tokens), i) = [n \in 1..(m - 1) |-> tokens[2 * (IF n < i THEN n ELSE n + 1) - 1]]
  <2> DEFINE E == Entries(tokens)
             s == SubSeq(E, 1, i - 1)
             t == SubSeq(E, i + 1, Len(E))
  <2>1. E = [n \in 1..m |-> tokens[2 * n - 1]]
    BY EntriesAtOdd DEF L, m
  <2>2. /\ E \in Seq(ToSet(tokens)) /\ Len(E) = m
        /\ \A n \in 1..m : E[n] = tokens[2 * n - 1]
    BY <1>1, <1>2, <2>1 DEF ToSet
  <2> HIDE DEF E
  <2>3. s \in Seq(ToSet(tokens)) /\ Len(s) = i - 1 /\ \A n \in 1..(i - 1) : s[n] = E[n]
    BY <1>1, <2>2
  <2>4. t \in Seq(ToSet(tokens)) /\ Len(t) = m - i /\ \A n \in 1..(m - i) : t[n] = E[i + n]
    BY <1>1, <2>2
  <2> HIDE DEF s, t
  <2>5. s \o t = [n \in 1..(m - 1) |-> IF n < i THEN s[n] ELSE t[n - (i - 1)]]
    <3>1. Len(s) + Len(t) = m - 1
      BY <1>1, <2>3, <2>4
    <3>2. /\ s \o t = [p \in 1..(Len(s) + Len(t)) |-> (s \o t)[p]]
          /\ \A p \in 1..(Len(s) + Len(t)) : (s \o t)[p] = IF p <= Len(s) THEN s[p] ELSE t[p - Len(s)]
      BY <2>3, <2>4, ConcatIs, Zenon
    <3>3. \A p \in 1..(m - 1) : p <= Len(s) <=> p < i
      BY <1>1, <2>3
    <3>4. s \o t = [p \in 1..(m - 1) |-> (s \o t)[p]]
      BY <3>1, <3>2
    <3> QED BY <2>3, <3>1, <3>2, <3>3, <3>4
  <2>6. ASSUME NEW n \in 1..(m - 1)
        PROVE  (IF n < i THEN s[n] ELSE t[n - (i - 1)]) = tokens[2 * (IF n < i THEN n ELSE n + 1) - 1]
    <3>1. CASE n < i
      BY <1>1, <2>2, <2>3, <3>1
    <3>2. CASE ~(n < i)
      <4>1. n - (i - 1) \in 1..(m - i) /\ i + (n - (i - 1)) = n + 1 /\ n + 1 \in 1..m
        BY <1>1, <3>2
      <4> QED BY <2>2, <2>4, <3>2, <4>1
    <3> QED BY <3>1, <3>2
  <2>7. RemoveAt(E, i) = s \o t
    BY DEF RemoveAt, s, t
  <2> QED BY <2>5, <2>6, <2>7 DEF E
<1>10. ASSUME NEW n \in 1..(m - 1) PROVE cut[2 * n - 1] = tokens[2 * (IF n < i THEN n ELSE n + 1) - 1]
  <2>1. 2 * n - 1 \in 1..K /\ (2 * n - 1 <= 2 * i - 2 <=> n < i)
    BY <1>1, <1>2
  <2>2. 2 * n - 1 + 2 = 2 * (n + 1) - 1
    BY <1>1
  <2> HIDE DEF K
  <2> QED BY <1>5, <2>1, <2>2
<1> QED BY <1>7, <1>8, <1>9, <1>10 DEF cut

LEMMA ListsRemain == RemovalsAreLists
<1> SUFFICES ASSUME NEW f \in ToSet(Files), NEW t \in DOMAIN Original[f],
                    NEW i \in DOMAIN Entries(Original[f][t].tokens)
             PROVE  LET tokens == Original[f][t].tokens
                        cut == WithoutEntry(tokens, i)
                    IN  /\ Entries(cut) = RemoveAt(Entries(tokens), i)
                        /\ \A p \in DOMAIN cut : cut[p] = Comma => p > 1 /\ cut[p - 1] # Comma
                        /\ \A p \in DOMAIN cut : cut[p] # Comma /\ p > 1 => cut[p - 1] = Comma
  BY DEF RemovalsAreLists
<1> DEFINE tokens == Original[f][t].tokens
           cut == WithoutEntry(tokens, i)
<1>1. Alternate(tokens)
  BY ConstTablesAssumption
<1> HIDE DEF tokens
<1>2. Alternate(cut) /\ Entries(cut) = RemoveAt(Entries(tokens), i)
  BY <1>1, CutIs DEF tokens
<1> HIDE DEF cut
<1>3. Len(cut) \in Nat /\ DOMAIN cut = 1..Len(cut)
  BY <1>2, EntriesAtOdd
<1>4. \A p \in 1..Len(cut) : cut[p] = Comma <=> p % 2 = 0
  BY <1>2, <1>3 DEF Alternate
<1>5. ASSUME NEW p \in 1..Len(cut), p > 1 PROVE p - 1 \in 1..Len(cut) /\ (p % 2 = 0 <=> (p - 1) % 2 # 0)
  BY <1>3, <1>5
<1>6. 1 % 2 # 0
  OBVIOUS
<1>7. ASSUME NEW p \in DOMAIN cut
      PROVE  /\ cut[p] = Comma => p > 1 /\ cut[p - 1] # Comma
             /\ cut[p] # Comma /\ p > 1 => cut[p - 1] = Comma
  <2>1. p \in 1..Len(cut) /\ (p > 1 \/ p = 1)
    BY <1>3
  <2> QED BY <1>4, <1>5, <1>6, <2>1
<1> QED BY <1>2, <1>7 DEF cut, tokens

-----------------------------------------------------------------------------
(* mutate-const-tables: the tree and the verdict.                          *)

MutantsIn(i) == MutantsOf(Files[i], Original[Files[i]])
MutantsUpTo(i) == UNION {MutantsIn(j) : j \in 1..i}

(* The mutants that have been tested, while one is.                        *)
Settled == MutantsUpTo(at - 1) \union (MutantsIn(at) \ (todo \union {mutant}))

(* The verdict on the mutants of a set.                                    *)
Judged(settled, survive, unstarted) ==
  /\ unstarted \subseteq settled
  /\ survive = {mt \in settled \ unstarted : ~Killed(mt)}

MutationInv ==
  /\ exit # "running" => tree = Original
  /\ exit = "running" /\ mutant = NoMutant =>
       tree = Original /\ at = 0 /\ survivors = {} /\ unspawned = {}
  /\ mutant # NoMutant =>
       /\ script = "mutate-const-tables"
       /\ at \in 1..Len(Files) /\ original = Original[Files[at]]
       /\ mutant \in MutantsIn(at) /\ todo \subseteq MutantsIn(at) \ {mutant}
  /\ exit = "running" /\ mutant # NoMutant =>
       /\ tree = [Original EXCEPT ![mutant.file] = Mutated(Original[mutant.file], mutant)]
       /\ Judged(Settled, survivors, unspawned)
  /\ script = "mutate-const-tables" /\ exit \in {"0", "1"} =>
       Judged(MutantsUpTo(Len(Files)), survivors, unspawned) /\ (exit = "0" <=> survivors = {})

LEMMA FilesAre ==
  /\ Len(Files) \in Nat /\ DOMAIN Files = 1..Len(Files)
  /\ DOMAIN Original = ToSet(Files)
  /\ \A i \in 1..Len(Files) : Files[i] \in DOMAIN Original
  /\ \A i, j \in 1..Len(Files) : Files[i] = Files[j] => i = j
<1>1. /\ Files \in Seq(ToSet(Files)) /\ IsInjective(Files)
      /\ Original = [f \in ToSet(Files) |-> Original[f]]
  BY ConstTablesAssumption
<1>2. Len(Files) \in Nat /\ DOMAIN Files = 1..Len(Files)
  BY <1>1
<1>3. DOMAIN Original = ToSet(Files)
  BY <1>1
<1> QED BY <1>1, <1>2, <1>3 DEF ToSet, IsInjective

LEMMA MutantIs ==
  ASSUME NEW i, NEW mt \in MutantsIn(i)
  PROVE  mt.file = Files[i] /\ mt # NoMutant
<1>1. mt \in [file : {Files[i]}, kind : {"remove", "bump"}, table : DOMAIN Original[Files[i]],
              index : 1..Max({0} \union {Len(Original[Files[i]][t].tokens) : t \in DOMAIN Original[Files[i]]})]
  BY DEF MutantsIn, MutantsOf
<1>2. mt.file = Files[i] /\ "kind" \in DOMAIN mt
  BY <1>1
<1>3. "kind" \notin DOMAIN NoMutant
  BY DEF NoMutant
<1> QED BY <1>2, <1>3

LEMMA NoneBefore ==
  ASSUME NEW i \in 1..Len(Files), NEW mt \in MutantsIn(i)
  PROVE  mt \notin MutantsUpTo(i - 1)
<1> SUFFICES ASSUME NEW j \in 1..(i - 1), mt \in MutantsIn(j) PROVE FALSE
  BY DEF MutantsUpTo
<1>1. Files[i] = Files[j] /\ i # j /\ j \in 1..Len(Files)
  <2>1. Files[i] = Files[j]
    BY MutantIs
  <2>2. i # j /\ j \in 1..Len(Files)
    BY FilesAre
  <2> QED BY <2>1, <2>2
<1> QED BY <1>1, FilesAre

LEMMA MutationSafe ==
  ASSUME MutationInv
  PROVE  SourcesRestored /\ SurvivorsAreReal
<1>1. exit # "running" => tree = Original
  BY DEF MutationInv
<1>2. Cardinality({f \in DOMAIN tree : tree[f] # Original[f]}) <= 1
  <2> DEFINE D == {f \in DOMAIN tree : tree[f] # Original[f]}
  <2>1. \E x : D \subseteq {x}
    <3>1. CASE tree = Original
      BY <3>1
    <3>2. CASE tree # Original
      <4>1. tree = [Original EXCEPT ![mutant.file] = Mutated(Original[mutant.file], mutant)]
        BY <3>2 DEF MutationInv
      <4>2. D \subseteq {mutant.file}
        BY <4>1
      <4> HIDE DEF D
      <4> QED BY <4>2
    <3> QED BY <3>1, <3>2
  <2> HIDE DEF D
  <2>2. PICK x : D \subseteq {x}
    BY <2>1
  <2>3. IsFiniteSet({x}) /\ Cardinality({x}) = 1
    BY FS_Singleton
  <2>4. Cardinality(D) <= 1
    BY <2>2, <2>3, FS_Subset
  <2> QED BY <2>4 DEF D
<1>3. SurvivorsAreReal
  <2>1. MutantsUpTo(Len(Files)) = UNION {MutantsOf(f, Original[f]) : f \in ToSet(Files)}
    BY FilesAre DEF MutantsUpTo, MutantsIn, ToSet
  <2> QED BY <2>1 DEF SurvivorsAreReal, MutationInv, Judged
<1> QED BY <1>1, <1>2, <1>3 DEF SourcesRestored

(* A mutant is written.                                                    *)
LEMMA WriteStep ==
  ASSUME NEW files, NEW i \in 1..Len(Files), NEW left, left \subseteq MutantsIn(i),
         WriteMutant(files, Original[Files[i]], left),
         \A mt \in MutantsIn(i) : [files EXCEPT ![mt.file] = Mutated(Original[mt.file], mt)]
                                = [Original EXCEPT ![mt.file] = Mutated(Original[mt.file], mt)],
         Judged(MutantsUpTo(i - 1) \union (MutantsIn(i) \ left), survivors', unspawned'),
         at' = i, exit' = "running", script' = "mutate-const-tables"
  PROVE  MutationInv'
<1>1. PICK mt \in left :
        /\ tree' = [files EXCEPT ![mt.file] = Mutated(Original[Files[i]], mt)]
        /\ mutant' = mt /\ todo' = left \ {mt} /\ original' = Original[Files[i]]
  BY DEF WriteMutant
<1>2. mt \in MutantsIn(i) /\ mt.file = Files[i] /\ mt # NoMutant
  BY MutantIs
<1>3. tree' = [Original EXCEPT ![mutant'.file] = Mutated(Original[mutant'.file], mutant')]
  BY <1>1, <1>2
<1>4. MutantsIn(i) \ (todo' \union {mutant'}) = MutantsIn(i) \ left
  BY <1>1
<1>5. Settled' = MutantsUpTo(i - 1) \union (MutantsIn(i) \ left)
  BY <1>4 DEF Settled
<1>6. mutant' # NoMutant /\ mutant' \in MutantsIn(i) /\ todo' \subseteq MutantsIn(i) \ {mutant'}
  BY <1>1, <1>2
<1> QED BY <1>1, <1>3, <1>5, <1>6 DEF MutationInv

(* The next file that has a mutant, or the verdict.                        *)
LEMMA NextFileStep ==
  ASSUME NEW from \in 1..(Len(Files) + 1), NextFile(Original, from),
         Judged(MutantsUpTo(from - 1), survivors', unspawned'),
         exit = "running", script = "mutate-const-tables", script' = script
  PROVE  MutationInv'
<1> DEFINE ahead == {i \in from..Len(Files) : MutantsIn(i) # {}}
<1>0. Len(Files) \in Nat
  BY FilesAre
<1>1. CASE ahead # {}
  <2>1. ahead \subseteq Nat
    BY <1>0
  <2>2. PICK least \in ahead : \A k \in ahead : least <= k
    BY <1>1, <2>1, LeastExists
  <2>3. Min(ahead) \in ahead /\ \A k \in ahead : Min(ahead) <= k
    <3> HIDE DEF ahead
    <3> QED BY <2>2, Zenon DEF Min
  <2> DEFINE i == Min(ahead)
  <2>4. /\ at' = i /\ exit' = exit
        /\ WriteMutant(Original, Original[Files[i]], MutantsIn(i))
    BY <1>1 DEF NextFile, MutantsIn, Continues
  <2>5. i \in 1..Len(Files) /\ i \in from..Len(Files)
    BY <1>0, <2>3
  <2>6. MutantsUpTo(i - 1) = MutantsUpTo(from - 1)
    <3>1. ASSUME NEW j \in 1..(i - 1), j \notin 1..(from - 1) PROVE MutantsIn(j) = {}
      <4>1. j \in from..Len(Files) /\ ~(i <= j)
        BY <1>0, <2>5, <3>1
      <4> HIDE DEF i
      <4>2. j \notin ahead
        BY <2>3, <4>1 DEF i
      <4> QED BY <4>1, <4>2
    <3> HIDE DEF i, ahead
    <3>2. 1..(from - 1) \subseteq 1..(i - 1)
      BY <1>0, <2>5
    <3> QED BY <3>1, <3>2 DEF MutantsUpTo
  <2> HIDE DEF i
  <2>7. MutantsIn(i) \ MutantsIn(i) = {}
    OBVIOUS
  <2>8. Judged(MutantsUpTo(i - 1) \union (MutantsIn(i) \ MutantsIn(i)), survivors', unspawned')
    BY <2>6, <2>7
  <2> QED BY <2>4, <2>5, <2>8, WriteStep
<1>2. CASE ahead = {}
  <2>1. /\ tree' = Original /\ mutant' = NoMutant /\ UNCHANGED <<at, original, todo>>
        /\ exit' = IF survivors' = {} THEN "0" ELSE "1"
    BY <1>2 DEF NextFile, MutantsIn, Ends
  <2>2. MutantsUpTo(Len(Files)) = MutantsUpTo(from - 1)
    <3>1. ASSUME NEW j \in 1..Len(Files), j \notin 1..(from - 1) PROVE MutantsIn(j) = {}
      <4>1. j \in from..Len(Files)
        BY <1>0, <3>1
      <4> QED BY <1>2, <4>1
    <3>2. 1..(from - 1) \subseteq 1..Len(Files)
      BY <1>0
    <3> QED BY <3>1, <3>2 DEF MutantsUpTo
  <2>3. Judged(MutantsUpTo(Len(Files)), survivors', unspawned')
    BY <2>2
  <2> QED BY <2>1, <2>3 DEF MutationInv
<1> QED BY <1>1, <1>2

LEMMA FileRestored ==
  ASSUME MutationInv, exit = "running", mutant # NoMutant
  PROVE  Restored = Original
<1>1. /\ at \in 1..Len(Files) /\ original = Original[Files[at]] /\ mutant \in MutantsIn(at)
      /\ tree = [Original EXCEPT ![mutant.file] = Mutated(Original[mutant.file], mutant)]
  BY DEF MutationInv
<1>2. mutant.file = Files[at]
  BY <1>1, MutantIs
<1>3. Original = [f \in ToSet(Files) |-> Original[f]]
  BY ConstTablesAssumption
<1>4. tree = [Original EXCEPT ![Files[at]] = Mutated(Original[Files[at]], mutant)]
  BY <1>1, <1>2
<1> DEFINE f == Files[at]
           g == Mutated(Original[f], mutant)
<1>5. [[Original EXCEPT ![f] = g] EXCEPT ![f] = Original[f]] = Original
  <2> HIDE DEF f, g
  <2> QED BY <1>3
<1> QED BY <1>1, <1>4, <1>5 DEF Restored

LEMMA MutationStep ==
  ASSUME MutationInv, MutationNext
  PROVE  MutationInv'
<1>0. exit = "running" /\ script = "mutate-const-tables" /\ script' = script
  BY DEF MutationNext, NoCommand, Baseline, MutantTested, Interrupt, Runs
<1>f. Len(Files) \in Nat
  BY FilesAre
<1>1. CASE NoCommand
  BY <1>0, <1>1 DEF NoCommand, Ends, mutationVars, MutationInv
<1>2. CASE Baseline
  <2>1. PICK outcome \in Outcomes :
          IF outcome = "passed" THEN UNCHANGED <<survivors, unspawned>> /\ NextFile(tree, 1)
          ELSE Ends("2") /\ UNCHANGED mutationVars
    BY <1>2 DEF Baseline
  <2>2. tree = Original /\ survivors = {} /\ unspawned = {} /\ mutant = NoMutant
    BY <1>0, <1>2, <1>f DEF Baseline, MutationInv
  <2>3. CASE outcome = "passed"
    <3>1. survivors' = {} /\ unspawned' = {} /\ NextFile(Original, 1)
      BY <2>1, <2>2, <2>3
    <3>2. MutantsUpTo(1 - 1) = {}
      BY DEF MutantsUpTo
    <3>3. Judged(MutantsUpTo(1 - 1), survivors', unspawned')
      BY <3>1, <3>2 DEF Judged
    <3>4. 1 \in 1..(Len(Files) + 1)
      BY <1>f
    <3> QED BY <1>0, <3>1, <3>3, <3>4, NextFileStep
  <2>4. CASE outcome # "passed"
    <3>1. Ends("2") /\ UNCHANGED mutationVars
      BY <2>1, <2>4
    <3> QED BY <1>0, <2>2, <3>1 DEF Ends, mutationVars, MutationInv
  <2> QED BY <2>3, <2>4
<1>3. CASE MutantTested
  <2>0. /\ mutant # NoMutant /\ at \in 1..Len(Files) /\ original = Original[Files[at]]
        /\ mutant \in MutantsIn(at) /\ todo \subseteq MutantsIn(at) \ {mutant}
        /\ tree = [Original EXCEPT ![mutant.file] = Mutated(Original[mutant.file], mutant)]
        /\ Judged(Settled, survivors, unspawned)
    BY <1>0, <1>3 DEF MutantTested, MutationInv
  <2>1. PICK outcome \in Outcomes :
       IF outcome = "signal"
       THEN /\ tree' = Restored /\ mutant' = NoMutant /\ Ends("2")
            /\ UNCHANGED <<at, original, todo, survivors, unspawned>>
       ELSE /\ survivors' = IF outcome = "passed" THEN survivors \union {mutant} ELSE survivors
            /\ unspawned' = IF outcome = "unspawned" THEN unspawned \union {mutant} ELSE unspawned
            /\ IF todo # {}
               THEN WriteMutant(tree, original, todo) /\ Continues /\ UNCHANGED at
               ELSE NextFile(Restored, at + 1)
    BY <1>3 DEF MutantTested
  <2>2. Restored = Original
    BY <1>0, <2>0, FileRestored
  <2>3. CASE outcome = "signal"
    <3>1. tree' = Original /\ mutant' = NoMutant /\ exit' = "2"
      BY <2>1, <2>2, <2>3 DEF Ends
    <3> QED BY <3>1 DEF MutationInv
  <2>4. CASE outcome # "signal"
    <3>1. outcome = "passed" => ~Killed(mutant)
      <4>1. outcome = "passed" => Passes(tree)
        BY DEF Outcomes
      <4> QED BY <2>0, <4>1 DEF Killed
    <3>2. outcome = "failed" => Killed(mutant)
      <4>1. outcome = "failed" => ~Passes(tree)
        BY DEF Outcomes
      <4> QED BY <2>0, <4>1 DEF Killed
    <3>3. outcome \in {"passed", "failed", "unspawned"}
      BY <2>4 DEF Outcomes
    <3>4. mutant \notin Settled
      BY <2>0, NoneBefore DEF Settled
    <3>5. /\ survivors' = IF outcome = "passed" THEN survivors \union {mutant} ELSE survivors
          /\ unspawned' = IF outcome = "unspawned" THEN unspawned \union {mutant} ELSE unspawned
      BY <2>1, <2>4
    <3>6. Judged(Settled \union {mutant}, survivors', unspawned')
      BY <2>0, <3>1, <3>2, <3>3, <3>4, <3>5 DEF Judged
    <3>7. Settled \union {mutant} = MutantsUpTo(at - 1) \union (MutantsIn(at) \ todo)
      BY <2>0 DEF Settled
    <3>8. CASE todo # {}
      <4>1. WriteMutant(tree, Original[Files[at]], todo) /\ exit' = "running" /\ at' = at
        BY <1>0, <2>0, <2>1, <2>4, <3>8 DEF Continues
      <4>2. ASSUME NEW mt \in MutantsIn(at)
            PROVE  [tree EXCEPT ![mt.file] = Mutated(Original[mt.file], mt)]
                   = [Original EXCEPT ![mt.file] = Mutated(Original[mt.file], mt)]
        <5>1. mt.file = mutant.file
          BY <2>0, MutantIs
        <5> DEFINE f == mutant.file
                   g == Mutated(Original[mt.file], mt)
                   h == Mutated(Original[f], mutant)
        <5>2. [[Original EXCEPT ![f] = h] EXCEPT ![f] = g] = [Original EXCEPT ![f] = g]
          <6> HIDE DEF f, g, h
          <6> QED OBVIOUS
        <5> QED BY <2>0, <5>1, <5>2
      <4>3. Judged(MutantsUpTo(at - 1) \union (MutantsIn(at) \ todo), survivors', unspawned')
        BY <3>6, <3>7
      <4>4. todo \subseteq MutantsIn(at)
        BY <2>0
      <4> QED BY <1>0, <2>0, <4>1, <4>2, <4>3, <4>4, WriteStep
    <3>9. CASE todo = {}
      <4>1. NextFile(Original, at + 1)
        BY <2>1, <2>2, <2>4, <3>9
      <4>2. Settled \union {mutant} = MutantsUpTo(at)
        <5>1. 1..at = 1..(at - 1) \union {at}
          BY <2>0, <1>f
        <5> QED BY <3>7, <3>9, <5>1 DEF MutantsUpTo
      <4>3. Judged(MutantsUpTo(at), survivors', unspawned')
        BY <3>6, <4>2
      <4>4. at + 1 \in 1..(Len(Files) + 1)
        BY <1>f, <2>0
      <4>5. PICK n \in 1..(Len(Files) + 1) : n = at + 1
        BY <4>4
      <4>6. NextFile(Original, n)
        BY <4>1, <4>5
      <4>7. Judged(MutantsUpTo(n - 1), survivors', unspawned')
        <5>1. n - 1 = at
          BY <2>0, <4>5, <1>f
        <5> QED BY <4>3, <5>1
      <4> QED BY <1>0, <4>6, <4>7, NextFileStep
    <3> QED BY <3>8, <3>9
  <2> QED BY <2>3, <2>4
<1>4. CASE Interrupt
  <2>1. exit' \in {"2", "signal"} /\ UNCHANGED <<at, original, mutant, todo, survivors, unspawned>>
    BY <1>4 DEF Interrupt, Ends
  <2>2. tree' = Original
    <3>1. CASE mutant = NoMutant
      BY <1>0, <1>4, <3>1 DEF Interrupt, MutationInv
    <3>2. CASE mutant # NoMutant
      BY <1>0, <1>4, <3>2, FileRestored DEF Interrupt
    <3> QED BY <3>1, <3>2
  <2> QED BY <1>0, <2>1, <2>2 DEF MutationInv
<1> QED BY <1>1, <1>2, <1>3, <1>4 DEF MutationNext

LEMMA MutationRest ==
  ASSUME MutationInv, UNCHANGED <<script, mutationVars>>,
         (script # "mutate-const-tables" /\ exit = "running") \/ UNCHANGED exit
  PROVE  MutationInv'
<1>1. UNCHANGED <<tree, at, original, mutant, todo, survivors, unspawned>> /\ script' = script
  BY DEF mutationVars
<1>2. CASE exit' = exit
  <2>1. Settled' = Settled
    BY <1>1 DEF Settled
  <2> QED BY <1>1, <1>2, <2>1 DEF MutationInv
<1>3. CASE script # "mutate-const-tables" /\ exit = "running"
  <2>1. mutant = NoMutant /\ tree = Original /\ at = 0 /\ survivors = {} /\ unspawned = {}
    BY <1>3 DEF MutationInv
  <2> QED BY <1>1, <1>3, <2>1 DEF MutationInv
<1> QED BY <1>2, <1>3

-----------------------------------------------------------------------------
(* strip-bundle-comments: what is written.                                 *)

SafeStrips == \A p \in DOMAIN built : SameProgram(built[p], Strip(built[p]))

BundlesInv ==
  /\ script # "strip-bundle-comments" => StripIdle
  /\ built = <<>> \/ built \in Builds
  /\ DOMAIN dist = DOMAIN built /\ unwritten \subseteq DOMAIN dist
  /\ exit = "running" /\ unwritten = {} => dist = built
  /\ unwritten # {} => SafeStrips
  /\ exit = "running" => \A p \in DOMAIN dist :
       IF p \in unwritten THEN dist[p] = built[p] ELSE unwritten # {} => dist[p] = Strip(built[p])
  /\ BundlesKeepProgram

LEMMA StripStep ==
  ASSUME BundlesInv, StripNext
  PROVE  BundlesInv'
<1>0. /\ script = "strip-bundle-comments" /\ exit = "running"
      /\ script' = script /\ strip' = strip /\ built' = built
  BY DEF StripNext, StripDirectory, WriteBundle, WriteFails, Runs, stripVars
<1>a. \A text : Strip(text)' = Strip(text)
  BY <1>0 DEF Strip
<1>b. SafeStrips' = SafeStrips
  BY <1>0, <1>a, Zenon DEF SafeStrips
<1>c. \A text : SameProgram(text, text)
  BY DEF SameProgram
<1>d. /\ DOMAIN dist = DOMAIN built /\ unwritten \subseteq DOMAIN dist
      /\ built = <<>> \/ built \in Builds
  BY DEF BundlesInv
<1>1. CASE StripDirectory
  <2>1. dist' = dist /\ unwritten' \in {unwritten, Changed} /\ unwritten = {} /\ dist = built
    BY <1>0, <1>1 DEF StripDirectory, BundlesInv
  <2>2. Broken' = {}
    BY <1>0, <1>c, <2>1 DEF Broken
  <2>3. CASE unwritten' = {}
    <3>1. exit' \in {"0", "1"} /\ (exit' = "0" => Changed = {})
      BY <1>1, <2>1, <2>3 DEF StripDirectory, Ends, Continues
    <3>2. exit' = "0" => \A p \in DOMAIN dist : dist[p] = Strip(built[p])
      BY <2>1, <3>1 DEF Changed
    <3>3. BundlesKeepProgram'
      BY <1>0, <1>a, <2>1, <2>2, <3>2 DEF BundlesKeepProgram
    <3> QED BY <1>0, <1>d, <2>1, <2>3, <3>1, <3>3 DEF BundlesInv
  <2>4. CASE unwritten' # {}
    <3>1. /\ exit' = exit /\ unwritten' = Changed
          /\ \A p \in Changed : SameProgram(dist[p], Strip(dist[p]))
      BY <1>1, <2>1, <2>4 DEF StripDirectory, Continues
    <3>2. SafeStrips
      BY <1>c, <2>1, <3>1 DEF SafeStrips, Changed
    <3>3. \A p \in DOMAIN dist : p \notin unwritten' => dist[p] = Strip(built[p])
      BY <2>1, <3>1 DEF Changed
    <3>4. BundlesKeepProgram'
      BY <1>0, <2>1, <2>2, <3>1 DEF BundlesKeepProgram
    <3>5. unwritten' \subseteq DOMAIN dist
      BY <3>1 DEF Changed
    <3>6. \A p \in DOMAIN dist' :
            IF p \in unwritten' THEN dist'[p] = built'[p] ELSE dist'[p] = Strip(built[p])
      BY <1>0, <2>1, <3>3
    <3> QED BY <1>0, <1>a, <1>b, <1>d, <2>1, <2>4, <3>1, <3>2, <3>4, <3>5, <3>6 DEF BundlesInv
  <2> QED BY <2>3, <2>4
<1>2. CASE WriteBundle
  <2>1. PICK p \in unwritten : /\ dist' = [dist EXCEPT ![p] = Strip(dist[p])]
                               /\ unwritten' = unwritten \ {p}
    BY <1>2 DEF WriteBundle
  <2>2. /\ p \in DOMAIN dist /\ DOMAIN dist' = DOMAIN dist /\ dist'[p] = Strip(dist[p])
        /\ \A q \in DOMAIN dist : q # p => dist'[q] = dist[q]
    BY <1>d, <2>1
  <2>3. /\ SafeStrips
        /\ \A q \in DOMAIN dist : IF q \in unwritten THEN dist[q] = built[q] ELSE dist[q] = Strip(built[q])
    BY <1>0, <2>1 DEF BundlesInv
  <2>4. \A q \in DOMAIN dist' : IF q \in unwritten' THEN dist'[q] = built[q] ELSE dist'[q] = Strip(built[q])
    <3> SUFFICES ASSUME NEW q \in DOMAIN dist'
                 PROVE  IF q \in unwritten' THEN dist'[q] = built[q] ELSE dist'[q] = Strip(built[q])
      OBVIOUS
    <3>1. CASE q = p
      <4>1. dist[p] = built[p]
        BY <2>1, <2>2, <2>3
      <4> QED BY <2>1, <2>2, <3>1, <4>1
    <3>2. CASE q # p
      BY <2>1, <2>2, <2>3, <3>2
    <3> QED BY <3>1, <3>2
  <2>5. \A q \in DOMAIN dist' : SameProgram(built[q], dist'[q])
    BY <1>c, <1>d, <2>2, <2>3, <2>4 DEF SafeStrips
  <2>6. Broken' = {}
    BY <1>0, <2>5 DEF Broken, SameProgram
  <2>7. exit' = "0" => unwritten' = {}
    BY <1>0, <1>2 DEF WriteBundle, Ends, Continues
  <2>8. BundlesKeepProgram'
    <3>1. exit' = "0" => \A q \in DOMAIN dist' : dist'[q] = Strip(built[q])
      BY <2>4, <2>7
    <3>2. SafeStrips'
      BY <1>b, <2>3
    <3> QED BY <1>0, <1>a, <2>6, <3>1, <3>2 DEF BundlesKeepProgram, SafeStrips
  <2>9. exit' = "running" => unwritten' # {}
    BY <1>0, <1>2 DEF WriteBundle, Ends, Continues
  <2> QED BY <1>0, <1>a, <1>b, <1>d, <2>1, <2>2, <2>3, <2>4, <2>8, <2>9 DEF BundlesInv
<1>3. CASE WriteFails
  <2>1. PICK p \in unwritten :
          \/ UNCHANGED dist
          \/ \E n \in 0..Len(Strip(dist[p])) : dist' = [dist EXCEPT ![p] = SubSeq(Strip(dist[p]), 1, n)]
    BY <1>3 DEF WriteFails
  <2>2. unwritten' = unwritten /\ exit' \in {"1", "signal"}
    BY <1>3 DEF WriteFails, Ends
  <2>3. DOMAIN dist' = DOMAIN dist /\ \A q \in DOMAIN dist : q # p => dist'[q] = dist[q]
    BY <2>1
  <2>4. /\ SafeStrips
        /\ \A q \in DOMAIN dist : IF q \in unwritten THEN dist[q] = built[q] ELSE dist[q] = Strip(built[q])
    BY <1>0, <2>1 DEF BundlesInv
  <2>5. ASSUME NEW q \in DOMAIN dist', q # p
        PROVE  SameProgram(built[q], dist'[q])
    BY <1>c, <1>d, <2>3, <2>4, <2>5 DEF SafeStrips
  <2>6. Broken' \subseteq {p}
    BY <1>0, <2>5 DEF Broken, SameProgram
  <2>7. SafeStrips'
    BY <1>b, <2>4
  <2>8. BundlesKeepProgram'
    <3>1. Broken' \subseteq unwritten' /\ \A q, r \in Broken' : q = r
      BY <2>1, <2>2, <2>6
    <3> QED BY <2>2, <2>7, <3>1 DEF BundlesKeepProgram, SafeStrips
  <2> QED BY <1>0, <1>d, <2>2, <2>3, <2>7, <2>8 DEF BundlesInv
<1> QED BY <1>1, <1>2, <1>3 DEF StripNext

LEMMA BundlesRest ==
  ASSUME BundlesInv, UNCHANGED <<script, stripVars>>,
         script # "strip-bundle-comments" \/ UNCHANGED exit
  PROVE  BundlesInv'
<1>1. UNCHANGED <<built, dist, strip, unwritten>> /\ script' = script
  BY DEF stripVars
<1>2. Broken' = Broken /\ SafeStrips' = SafeStrips /\ \A text : Strip(text)' = Strip(text)
  BY <1>1 DEF Broken, SafeStrips, Strip, SameProgram
<1>3. CASE exit' = exit
  <2>1. BundlesKeepProgram' = BundlesKeepProgram
    BY <1>1, <1>2, <1>3 DEF BundlesKeepProgram, SafeStrips
  <2> QED BY <1>1, <1>2, <1>3, <2>1 DEF BundlesInv, StripIdle
<1>4. CASE script # "strip-bundle-comments"
  <2>1. built = <<>> /\ dist = <<>> /\ unwritten = {} /\ StripIdle'
    BY <1>1, <1>4 DEF BundlesInv, StripIdle
  <2>2. Broken = {}
    BY <2>1 DEF Broken
  <2>3. BundlesKeepProgram'
    BY <1>1, <1>2, <1>4, <2>1, <2>2 DEF BundlesKeepProgram
  <2> QED BY <1>1, <1>4, <2>1, <2>3 DEF BundlesInv
<1> QED BY <1>3, <1>4

-----------------------------------------------------------------------------
(* dogfood-smoke-test: what has been found, section by section.            *)

Usable ==
  /\ Bundles \subseteq package.files \intersect package.loads \intersect package.exports
  /\ Subpaths \subseteq package.resolves
  /\ "stray" \notin package.packed

SmokeInv ==
  /\ script # "dogfood-smoke-test" => SmokeIdle
  /\ section \in {"artifacts", "exports", "tarball", "consumer", "install", "cleanup", "done"}
  /\ section \in {"artifacts", "exports", "tarball", "consumer"} => consumerDir = "none"
  /\ exit = "running" \/ section = "done" =>
       /\ section # "artifacts" => Bundles \subseteq package.files
       /\ section \notin {"artifacts", "exports"} =>
            /\ Bundles \subseteq package.loads
            /\ failures = {} => Bundles \subseteq package.exports
       /\ section \notin {"artifacts", "exports", "tarball"} /\ failures = {} => "stray" \notin package.packed
       /\ section \in {"cleanup", "done"} /\ failures = {} => Subpaths \subseteq package.resolves
  /\ sound /\ failures # {} => ~Usable
  /\ script = "dogfood-smoke-test" =>
       /\ exit = "0" => section = "done" /\ failures = {}
       /\ exit \in {"1", "2"} /\ sound => ~Usable
       /\ exit # "running" => consumerDir # "there"

LEMMA SmokeSafe ==
  ASSUME SmokeInv
  PROVE  SmokePassesUsable /\ SmokeRefusesBroken /\ ConsumerRemoved
<1>1. SmokePassesUsable
  BY DEF SmokeInv, SmokePassesUsable
<1>2. SmokeRefusesBroken
  BY DEF SmokeInv, SmokeRefusesBroken, Usable
<1>3. ConsumerRemoved
  BY DEF SmokeInv, SmokeIdle, ConsumerRemoved
<1> QED BY <1>1, <1>2, <1>3

LEMMA SmokeStep ==
  ASSUME SmokeInv, SmokeNext
  PROVE  SmokeInv'
<1>0. /\ script = "dogfood-smoke-test" /\ script' = script /\ exit = "running" /\ package' = package
      /\ Usable' = Usable
  BY DEF SmokeNext, Artifacts, Exports, Tarball, Scaffold, ScaffoldFails, Install, Cleanup, Section, Runs, Usable
<1>1. CASE Artifacts
  BY <1>0, <1>1 DEF Artifacts, Section, Continues, Ends, SmokeInv, Usable
<1>2. CASE Exports
  <2>1. section = "exports" /\ section' = "tarball" /\ consumerDir' = consumerDir /\ sound' = sound
    BY <1>2 DEF Exports, Section
  <2>2. CASE Bundles \subseteq package.loads
    <3>1. /\ exit' = exit
          /\ failures' = IF \E b \in Bundles : b \notin package.exports THEN failures \union {"exports"} ELSE failures
      BY <1>2, <2>1, <2>2 DEF Exports, Continues, Records
    <3>2. failures' # {} => failures # {} \/ ~Usable
      BY <3>1 DEF Usable
    <3>3. failures' = {} => Bundles \subseteq package.exports
      BY <3>1
    <3> QED BY <1>0, <2>1, <2>2, <3>1, <3>2, <3>3 DEF SmokeInv
  <2>3. CASE ~(Bundles \subseteq package.loads)
    <3>1. exit' = "1" /\ failures' = failures
      BY <1>2, <2>3 DEF Exports, Ends
    <3>2. ~Usable
      BY <2>3 DEF Usable
    <3> QED BY <1>0, <2>1, <3>1, <3>2 DEF SmokeInv
  <2> QED BY <2>2, <2>3
<1>3. CASE Tarball
  <2>1. section = "tarball" /\ section' = "consumer" /\ consumerDir' = consumerDir /\ exit' = exit
    BY <1>3 DEF Tarball, Section, Continues
  <2>2. PICK packs \in BOOLEAN :
          /\ failures' = IF ~packs \/ "stray" \in package.packed THEN failures \union {section} ELSE failures
          /\ sound' = (sound /\ packs)
    BY <1>3 DEF Tarball, Records
  <2>3. sound' /\ failures' # {} => ~Usable
    BY <2>2 DEF SmokeInv, Usable
  <2>4. failures' = {} => failures = {} /\ "stray" \notin package.packed
    BY <2>2
  <2> QED BY <1>0, <2>1, <2>3, <2>4 DEF SmokeInv
<1>4. CASE Scaffold
  BY <1>0, <1>4 DEF Scaffold, Section, Continues, SmokeInv
<1>5. CASE ScaffoldFails
  <2>1. /\ section = "consumer" /\ section' = "cleanup" /\ exit' = exit /\ sound' = FALSE
        /\ failures' # {}
    BY <1>5 DEF ScaffoldFails, Section, Continues, Records
  <2> QED BY <1>0, <2>1 DEF SmokeInv
<1>6. CASE Install
  <2>1. section = "install" /\ section' = "cleanup" /\ exit' = exit
    BY <1>6 DEF Install, Section, Continues
  <2>2. PICK works \in BOOLEAN :
          /\ failures' = IF ~works \/ ~(Subpaths \subseteq package.resolves)
                         THEN failures \union {section} ELSE failures
          /\ sound' = (sound /\ works)
    BY <1>6 DEF Install, Records
  <2>3. sound' /\ failures' # {} => ~Usable
    BY <2>2 DEF SmokeInv, Usable
  <2>4. failures' = {} => failures = {} /\ Subpaths \subseteq package.resolves
    BY <2>2
  <2> QED BY <1>0, <2>1, <2>3, <2>4 DEF SmokeInv
<1>7. CASE Cleanup
  <2>1. /\ section = "cleanup" /\ section' = "done" /\ failures' = failures
        /\ exit' = IF failures = {} THEN "0" ELSE "1"
    BY <1>7 DEF Cleanup, Section, Ends
  <2>2. consumerDir' # "there" /\ sound' = sound
    BY <1>7 DEF Cleanup
  <2> QED BY <1>0, <2>1, <2>2 DEF SmokeInv
<1> QED BY <1>1, <1>2, <1>3, <1>4, <1>5, <1>6, <1>7 DEF SmokeNext

LEMMA SmokeRest ==
  ASSUME SmokeInv, UNCHANGED <<script, smokeVars>>,
         script # "dogfood-smoke-test" \/ UNCHANGED exit
  PROVE  SmokeInv'
<1>1. UNCHANGED <<package, section, failures, consumerDir, sound>> /\ script' = script
  BY DEF smokeVars
<1>2. Usable' = Usable
  BY <1>1 DEF Usable
<1>3. CASE exit' = exit
  BY <1>1, <1>2, <1>3 DEF SmokeInv, SmokeIdle
<1>4. CASE script # "dogfood-smoke-test"
  <2>1. SmokeIdle
    BY <1>4 DEF SmokeInv
  <2> QED BY <1>1, <1>4, <2>1 DEF SmokeInv, SmokeIdle
<1> QED BY <1>3, <1>4

-----------------------------------------------------------------------------
(* check-file-length.                                                      *)

LengthInv ==
  script = "check-file-length" =>
    LengthInit /\ (exit = "0" => Gate(lengths, baseline, base.baseline))

LEMMA LengthSafe ==
  ASSUME LengthInv
  PROVE  OffendersOnlyShrink
<1> SUFFICES ASSUME script = "check-file-length", exit = "0"
             PROVE  /\ ProblemsOf(lengths, baseline) = {} /\ Parses(baseline)
                    /\ base.baseline # NoBaseline =>
                         \A f \in Oversize(lengths) :
                           f \in Oversize(base.lengths) /\ lengths[f] <= base.lengths[f]
  BY DEF OffendersOnlyShrink
<1>1. LengthInit /\ Gate(lengths, baseline, base.baseline)
  BY DEF LengthInv
<1>2. ProblemsOf(lengths, baseline) = {} /\ Parses(baseline)
  BY <1>1 DEF Gate
<1>3. ASSUME base.baseline # NoBaseline, NEW f \in Oversize(lengths)
      PROVE  f \in Oversize(base.lengths) /\ lengths[f] <= base.lengths[f]
  <2>1. Widening(baseline, base.baseline) = {} /\ ProblemsOf(base.lengths, base.baseline) = {}
    BY <1>1, <1>3 DEF Gate, LengthInit
  <2>2. f \in DOMAIN baseline /\ lengths[f] = baseline[f]
    BY <1>2, <1>3 DEF ProblemsOf
  <2>3. f \in DOMAIN base.baseline /\ ~(baseline[f] > base.baseline[f])
    BY <2>1, <2>2 DEF Widening
  <2>4. f \in Oversize(base.lengths) /\ base.lengths[f] = base.baseline[f]
    BY <2>1, <2>3 DEF ProblemsOf
  <2>5. lengths[f] \in Int
    <3>1. PICK P \in SUBSET Sources : lengths \in [P -> 1..MaxLines]
      BY <1>1 DEF LengthInit, Tables
    <3> QED BY <1>3, <3>1 DEF Oversize
  <2>6. base.lengths[f] \in Int
    <3>1. base.lengths \in Tables(1..MaxLines)
      BY <1>1 DEF LengthInit
    <3>2. PICK P \in SUBSET Sources : base.lengths \in [P -> 1..MaxLines]
      BY <3>1 DEF Tables
    <3> QED BY <2>4, <3>2 DEF Oversize
  <2> QED BY <2>2, <2>3, <2>4, <2>5, <2>6
<1> QED BY <1>2, <1>3

LEMMA LengthStep ==
  ASSUME LengthInv, CheckFileLength
  PROVE  LengthInv'
BY DEF LengthInv, CheckFileLength, Runs, Ends, lengthVars, LengthInit

LEMMA LengthRest ==
  ASSUME LengthInv, UNCHANGED <<script, lengthVars>>,
         script # "check-file-length" \/ UNCHANGED exit
  PROVE  LengthInv'
BY DEF LengthInv, lengthVars, LengthInit

-----------------------------------------------------------------------------
(* check-published-surface: where a link leads.                            *)

(* fate[n][v] is what is met at v after n hops.                            *)
FateTable(fate) ==
  fate = [n \in 0..MaxHops |->
           [v \in DOMAIN Web |->
              IF UnroutableReason(v, TRUE) THEN "unroutable"
              ELSE IF Web[v].page = "moved"
                   THEN IF n = MaxHops THEN "endless" ELSE fate[n + 1][Web[v].to]
                   ELSE Web[v].page]]

(* A page, when what is met a hop later is known.                          *)
Met(n, later) ==
  [v \in DOMAIN Web |->
     IF UnroutableReason(v, TRUE) THEN "unroutable"
     ELSE IF Web[v].page = "moved"
          THEN IF n = MaxHops THEN "endless" ELSE later[Web[v].to]
          ELSE Web[v].page]

LEMMA FateExists == \E fate : FateTable(fate)
<1> DEFINE f5 == Met(5, <<>>)
           f4 == Met(4, f5)
           f3 == Met(3, f4)
           f2 == Met(2, f3)
           f1 == Met(1, f2)
           f0 == Met(0, f1)
           fate == [n \in 0..MaxHops |-> IF n = 0 THEN f0 ELSE IF n = 1 THEN f1 ELSE IF n = 2 THEN f2
                                         ELSE IF n = 3 THEN f3 ELSE IF n = 4 THEN f4 ELSE f5]
<1>1. \A n \in 0..MaxHops : n \in {0, 1, 2, 3, 4, 5}
  BY DEF MaxHops
<1>2. \A later : Met(5, later) = Met(5, <<>>)
  BY DEF Met, MaxHops
<1>3. /\ fate[0] = Met(0, fate[1]) /\ fate[1] = Met(1, fate[2]) /\ fate[2] = Met(2, fate[3])
      /\ fate[3] = Met(3, fate[4]) /\ fate[4] = Met(4, fate[5]) /\ fate[5] = Met(5, fate[6])
  <2>1. f0 = Met(0, f1) /\ f1 = Met(1, f2) /\ f2 = Met(2, f3) /\ f3 = Met(3, f4) /\ f4 = Met(4, f5)
    OBVIOUS
  <2>2. f5 = Met(5, fate[6])
    BY <1>2, Zenon
  <2> HIDE DEF f0, f1, f2, f3, f4, f5
  <2>3. /\ fate[0] = f0 /\ fate[1] = f1 /\ fate[2] = f2 /\ fate[3] = f3 /\ fate[4] = f4 /\ fate[5] = f5
    BY DEF MaxHops
  <2> HIDE DEF fate
  <2> QED BY <2>1, <2>2, <2>3
<1>4. fate = [n \in 0..MaxHops |-> fate[n]]
  OBVIOUS
<1> HIDE DEF fate
<1>5. \A n \in 0..MaxHops : fate[n] = Met(n, fate[n + 1])
  BY <1>1, <1>3
<1>6. fate = [n \in 0..MaxHops |-> Met(n, fate[n + 1])]
  BY <1>4, <1>5
<1>7. FateTable(fate)
  BY <1>6, Zenon DEF FateTable, Met
<1> QED BY <1>7

Fates == CHOOSE fate : FateTable(fate)

(* A reader who follows u meets this, but for the name of a dead registry. *)
Direct(u) == IF UnroutableReason(u, TRUE) THEN "unroutable" ELSE Fates[0][Probe(u)]

LEMMA FateIs ==
  /\ \A u : Fate(u) = IF Direct(u) = "dead" /\ Probe(u) # u THEN "unborn" ELSE Direct(u)
  /\ \A n \in 0..MaxHops : \A v \in DOMAIN Web :
       Fates[n][v] = IF UnroutableReason(v, TRUE) THEN "unroutable"
                     ELSE IF Web[v].page = "moved"
                          THEN IF n = MaxHops THEN "endless" ELSE Fates[n + 1][Web[v].to]
                          ELSE Web[v].page
<1>1. FateTable(Fates)
  BY FateExists, Zenon DEF Fates
<1>2. \A u : Fate(u) = IF Direct(u) = "dead" /\ Probe(u) # u THEN "unborn" ELSE Direct(u)
  BY Zenon DEF Fate, Direct, Fates, FateTable
<1>3. \A n \in 0..MaxHops :
        Fates[n] = [v \in DOMAIN Web |->
              IF UnroutableReason(v, TRUE) THEN "unroutable"
              ELSE IF Web[v].page = "moved"
                   THEN IF n = MaxHops THEN "endless" ELSE Fates[n + 1][Web[v].to]
                   ELSE Web[v].page]
  BY <1>1, Zenon DEF FateTable
<1>4. ASSUME NEW n \in 0..MaxHops, NEW v \in DOMAIN Web
      PROVE  Fates[n][v] = IF UnroutableReason(v, TRUE) THEN "unroutable"
                           ELSE IF Web[v].page = "moved"
                                THEN IF n = MaxHops THEN "endless" ELSE Fates[n + 1][Web[v].to]
                                ELSE Web[v].page
  <2>1. Fates[n] = Met(n, Fates[n + 1])
    BY <1>3, Zenon DEF Met
  <2> QED BY <2>1 DEF Met
<1> QED BY <1>2, <1>4, Zenon

-----------------------------------------------------------------------------
(* check-published-surface: the progress of a link.                        *)

Followed(u) == Fate(u) \in {"live", "headless", "unborn"}

(* A reader finds nothing there, or a rule of the gate is broken.          *)
Excused(u) == ~Web[u].found \/ Fate(u) \in {"unroutable", "endless", "denied"}

(* The link leads where no request may go, and the lookup did not tell.    *)
Lost(u, lost) == Direct(u) = "unroutable" /\ u \in lost

LinkStates ==
  [at : {"written", "rewritten", "requested", "hop", "live", "noted", "failed"}, url : DOMAIN Web,
   method : {"HEAD", "GET"}, hops : 0..MaxHops, late : BOOLEAN, checked : SUBSET DOMAIN Web]

(* What the check of u knows when it is at l, lost being the hindered links.*)
LinkSound(u, l, lost) ==
  /\ l \in LinkStates
  /\ l.at = "written" => l.url = u
  /\ l.at = "rewritten" => l.url = Probe(u) /\ (Lost(u, lost) \/ ~UnroutableReason(u, TRUE))
  /\ l.at \in {"requested", "hop"} => Probe(u) \in l.checked
  /\ l.at = "requested" =>
       /\ l.url \in l.checked
       /\ \/ Lost(u, lost)
          \/ Direct(u) = Fates[l.hops][l.url] /\ ~UnroutableReason(l.url, TRUE)
  /\ l.at = "hop" =>
       \/ Lost(u, lost)
       \/ Direct(u) = IF l.hops = MaxHops THEN "endless" ELSE Fates[l.hops + 1][l.url]
  /\ Web[l.url].found = Web[u].found
  /\ l.at = "failed" => ~Followed(u) /\ Excused(u)
  /\ l.at = "live" => Web[u].found /\ (Followed(u) \/ u \in lost)
  /\ l.at = "noted" => Fate(u) = "unborn" \/ u \in lost

LEMMA ProbeType == \A u \in DOMAIN Web : Probe(u) \in DOMAIN Web /\ Web[Probe(u)].found = Web[u].found
BY WebAssumption DEF Probe

LEMMA LostExcused ==
  ASSUME NEW u, Direct(u) \in {"unroutable", "endless", "denied"}
  PROVE  Excused(u)
<1>1. Fate(u) = IF Direct(u) = "dead" /\ Probe(u) # u THEN "unborn" ELSE Direct(u)
  BY FateIs, Zenon
<1> HIDE DEF Direct
<1>2. Fate(u) = Direct(u)
  BY <1>1
<1> QED BY <1>2 DEF Excused

LEMMA LostNotFollowed ==
  ASSUME NEW u,
         \/ Direct(u) \in {"unroutable", "endless", "denied", "garbled"}
         \/ Direct(u) = "dead" /\ Probe(u) = u
  PROVE  ~Followed(u)
<1>1. Fate(u) = IF Direct(u) = "dead" /\ Probe(u) # u THEN "unborn" ELSE Direct(u)
  BY FateIs, Zenon
<1>2. Fate(u) = Direct(u)
  BY <1>1
<1>3. Direct(u) \in {"unroutable", "endless", "denied", "garbled", "dead"}
  OBVIOUS
<1> HIDE DEF Direct
<1> QED BY <1>2, <1>3 DEF Followed

LEMMA FatePage ==
  ASSUME NEW n \in 0..MaxHops, NEW v \in DOMAIN Web
  PROVE  /\ UnroutableReason(v, TRUE) => Fates[n][v] = "unroutable"
         /\ ~UnroutableReason(v, TRUE) /\ Web[v].page # "moved" => Fates[n][v] = Web[v].page
         /\ ~UnroutableReason(v, TRUE) /\ Web[v].page = "moved" =>
              Fates[n][v] = IF n = MaxHops THEN "endless" ELSE Fates[n + 1][Web[v].to]
<1>1. Fates[n][v] = IF UnroutableReason(v, TRUE) THEN "unroutable"
                    ELSE IF Web[v].page = "moved"
                         THEN IF n = MaxHops THEN "endless" ELSE Fates[n + 1][Web[v].to]
                         ELSE Web[v].page
  BY FateIs, Zenon
<1> QED BY <1>1

LEMMA LinkGrows ==
  ASSUME NEW u, NEW l, NEW lost, NEW more, lost \subseteq more, LinkSound(u, l, lost)
  PROVE  LinkSound(u, l, more)
<1>1. Lost(u, lost) => Lost(u, more)
  BY DEF Lost
<1> QED BY <1>1 DEF LinkSound

Shaped(l) ==
  l = [at |-> l.at, url |-> l.url, method |-> l.method, hops |-> l.hops, late |-> l.late, checked |-> l.checked]

LEMMA LinkFields == \A l \in LinkStates : Shaped(l)
BY DEF LinkStates, Shaped

LEMMA LinkCounted ==
  ASSUME NEW l, Shaped(l), NEW x, NEW y
  PROVE  [l EXCEPT !.checked = x, !.hops = y] =
           [at |-> l.at, url |-> l.url, method |-> l.method, hops |-> y, late |-> l.late, checked |-> x]
<1>1. [l EXCEPT !.checked = x, !.hops = y] = [[l EXCEPT !.checked = x] EXCEPT !.hops = y]
  OBVIOUS
<1>2. [l EXCEPT !.checked = x] =
        [at |-> l.at, url |-> l.url, method |-> l.method, hops |-> l.hops, late |-> l.late, checked |-> x]
  BY DEF Shaped
<1>3. [[at |-> l.at, url |-> l.url, method |-> l.method, hops |-> l.hops, late |-> l.late, checked |-> x]
         EXCEPT !.hops = y] =
        [at |-> l.at, url |-> l.url, method |-> l.method, hops |-> y, late |-> l.late, checked |-> x]
  OBVIOUS
<1> QED BY <1>1, <1>2, <1>3, Zenon

LEMMA LinkGoes ==
  ASSUME NEW l, Shaped(l), NEW x, NEW y
  PROVE  [l EXCEPT !.at = x, !.url = y] =
           [at |-> x, url |-> y, method |-> l.method, hops |-> l.hops, late |-> l.late, checked |-> l.checked]
<1>1. [l EXCEPT !.at = x, !.url = y] = [[l EXCEPT !.at = x] EXCEPT !.url = y]
  OBVIOUS
<1>2. [l EXCEPT !.at = x] =
        [at |-> x, url |-> l.url, method |-> l.method, hops |-> l.hops, late |-> l.late, checked |-> l.checked]
  BY DEF Shaped
<1>3. [[at |-> x, url |-> l.url, method |-> l.method, hops |-> l.hops, late |-> l.late, checked |-> l.checked]
         EXCEPT !.url = y] =
        [at |-> x, url |-> y, method |-> l.method, hops |-> l.hops, late |-> l.late, checked |-> l.checked]
  OBVIOUS
<1> QED BY <1>1, <1>2, <1>3, Zenon

LEMMA LinkRepeats ==
  ASSUME NEW l, Shaped(l), NEW x
  PROVE  [l EXCEPT !.url = x, !.method = "GET", !.hops = 0] =
           [at |-> l.at, url |-> x, method |-> "GET", hops |-> 0, late |-> l.late, checked |-> l.checked]
<1>1. [l EXCEPT !.url = x, !.method = "GET", !.hops = 0] =
        [[[l EXCEPT !.url = x] EXCEPT !.method = "GET"] EXCEPT !.hops = 0]
  OBVIOUS
<1>2. [l EXCEPT !.url = x] =
        [at |-> l.at, url |-> x, method |-> l.method, hops |-> l.hops, late |-> l.late, checked |-> l.checked]
  BY DEF Shaped
<1>3. [[at |-> l.at, url |-> x, method |-> l.method, hops |-> l.hops, late |-> l.late, checked |-> l.checked]
         EXCEPT !.method = "GET"] =
        [at |-> l.at, url |-> x, method |-> "GET", hops |-> l.hops, late |-> l.late, checked |-> l.checked]
  OBVIOUS
<1>4. [[at |-> l.at, url |-> x, method |-> "GET", hops |-> l.hops, late |-> l.late, checked |-> l.checked]
         EXCEPT !.hops = 0] =
        [at |-> l.at, url |-> x, method |-> "GET", hops |-> 0, late |-> l.late, checked |-> l.checked]
  OBVIOUS
<1> QED BY <1>1, <1>2, <1>3, <1>4, Zenon

LEMMA LinkEnds ==
  ASSUME NEW l, Shaped(l), NEW x
  PROVE  [l EXCEPT !.at = x] =
           [at |-> x, url |-> l.url, method |-> l.method, hops |-> l.hops, late |-> l.late, checked |-> l.checked]
BY DEF Shaped

(* A url that is checked is refused, or its page is asked for.             *)
LEMMA LinkChecked ==
  ASSUME NEW u \in DOMAIN link, u \in DOMAIN Web, LinkSound(u, link[u], hindered), Checked(u)
  PROVE  /\ hindered \subseteq hindered'
         /\ \E l : link' = [link EXCEPT ![u] = l] /\ LinkSound(u, l, hindered')
<1>1. PICK step \in {"written", "rewritten", "hop"}, answers \in BOOLEAN :
        LET l == [link[u] EXCEPT !.checked = @ \union {link[u].url}, !.hops = NextHops(link[u], step)]
        IN  /\ Probing(u, step)
            /\ IF UnroutableReason(l.url, answers) \/ l.hops > MaxHops
               THEN Settles(u, "failed") /\ UNCHANGED hindered
               ELSE /\ IF step = "written" /\ Probe(u) # u
                       THEN Goes(u, [l EXCEPT !.at = "rewritten", !.url = Probe(u)])
                       ELSE Goes(u, [l EXCEPT !.at = IF l.late THEN "noted" ELSE "requested"])
                    /\ hindered' = IF answers /\ ~l.late THEN hindered ELSE hindered \union {u}
  BY DEF Checked
<1> DEFINE l0 == link[u]
           l1 == [l0 EXCEPT !.checked = @ \union {l0.url}, !.hops = NextHops(l0, step)]
<1>2. /\ l0 \in LinkStates /\ l0.at = step
      /\ l0.url \in DOMAIN Web /\ l0.hops \in 0..MaxHops /\ l0.checked \subseteq DOMAIN Web
  BY <1>1 DEF LinkSound, LinkStates, Probing
<1>3. /\ l1.url = l0.url /\ l1.late = l0.late /\ l1.at = step /\ l1.method = l0.method
      /\ l1.hops = NextHops(l0, step) /\ l1.checked = l0.checked \union {l0.url}
      /\ l1 = [at |-> step, url |-> l0.url, method |-> l0.method, hops |-> NextHops(l0, step),
               late |-> l0.late, checked |-> l0.checked \union {l0.url}]
  <2>1. l1 = [at |-> l0.at, url |-> l0.url, method |-> l0.method, hops |-> NextHops(l0, step),
               late |-> l0.late, checked |-> l0.checked \union {l0.url}]
    <3>1. Shaped(l0)
      BY <1>2, LinkFields, Zenon
    <3> HIDE DEF l0
    <3> QED BY <3>1, LinkCounted, Zenon
  <2> HIDE DEF l1
  <2> QED BY <1>2, <2>1
<1>4. NextHops(l0, step) \in 0..(MaxHops + 1)
  BY <1>2 DEF NextHops, MaxHops
<1>5. \/ Lost(u, hindered)
      \/ /\ step = "written" => l0.url = u
         /\ step = "rewritten" => l0.url = Probe(u) /\ ~UnroutableReason(u, TRUE)
         /\ step = "hop" => Direct(u) = IF l0.hops = MaxHops THEN "endless" ELSE Fates[l0.hops + 1][l0.url]
  BY <1>2 DEF LinkSound
(* What the check is of is what the reader meets.                          *)
<1>6. \/ Lost(u, hindered)
      \/ UnroutableReason(l0.url, TRUE) /\ Direct(u) \in {"unroutable", "endless"}
      \/ NextHops(l0, step) > MaxHops /\ Direct(u) = "endless"
      \/ /\ ~UnroutableReason(l0.url, TRUE) /\ NextHops(l0, step) \in 0..MaxHops
         /\ step = "written" => ~UnroutableReason(u, TRUE)
         /\ (step = "written" /\ Probe(u) # u) \/ Direct(u) = Fates[NextHops(l0, step)][l0.url]
  <2>1. CASE Lost(u, hindered)
    BY <2>1
  <2>2. CASE ~Lost(u, hindered) /\ step = "written"
    <3>1. l0.url = u /\ NextHops(l0, step) = 0 /\ 0 \in 0..MaxHops
      BY <1>5, <2>2 DEF NextHops, MaxHops
    <3>2. UnroutableReason(u, TRUE) => Direct(u) = "unroutable"
      BY DEF Direct
    <3>3. ~UnroutableReason(u, TRUE) => Direct(u) = Fates[0][Probe(u)]
      BY DEF Direct
    <3> QED BY <2>2, <3>1, <3>2, <3>3
  <2>3. CASE ~Lost(u, hindered) /\ step = "rewritten"
    <3>0. l0.url = Probe(u) /\ ~UnroutableReason(u, TRUE)
      BY <1>5, <2>3
    <3>1. NextHops(l0, step) = 0 /\ 0 \in 0..MaxHops /\ Direct(u) = Fates[0][l0.url]
      BY <2>3, <3>0 DEF NextHops, MaxHops, Direct
    <3>2. UnroutableReason(l0.url, TRUE) => Fates[0][l0.url] = "unroutable"
      BY <1>2, <3>1, FatePage
    <3> QED BY <2>3, <3>0, <3>1, <3>2
  <2>4. CASE ~Lost(u, hindered) /\ step = "hop"
    <3>1. /\ NextHops(l0, step) = l0.hops + 1
          /\ Direct(u) = IF l0.hops = MaxHops THEN "endless" ELSE Fates[l0.hops + 1][l0.url]
      BY <1>5, <2>4 DEF NextHops
    <3>2. CASE l0.hops = MaxHops
      BY <3>1, <3>2 DEF MaxHops
    <3>3. CASE l0.hops # MaxHops
      <4>1. NextHops(l0, step) \in 0..MaxHops /\ Direct(u) = Fates[NextHops(l0, step)][l0.url]
        BY <1>2, <3>1, <3>3 DEF MaxHops
      <4>2. UnroutableReason(l0.url, TRUE) => Fates[NextHops(l0, step)][l0.url] = "unroutable"
        BY <1>2, <4>1, FatePage
      <4> QED BY <2>4, <4>1, <4>2
    <3> QED BY <3>2, <3>3
  <2> QED BY <1>1, <2>1, <2>2, <2>3, <2>4
<1>8. Probe(u) \in DOMAIN Web /\ Web[Probe(u)].found = Web[u].found
  BY ProbeType
<1>f. Web[l0.url].found = Web[u].found
  BY DEF LinkSound
<1>9. UnroutableReason(l0.url, answers) => UnroutableReason(l0.url, TRUE)
  BY DEF UnroutableReason
<1>10. CASE UnroutableReason(l0.url, answers) \/ NextHops(l0, step) > MaxHops
  <2>1. hindered' = hindered /\ link' = [link EXCEPT ![u] = [l0 EXCEPT !.at = "failed"]]
    BY <1>1, <1>3, <1>10 DEF Settles, Goes
  <2>2. [l0 EXCEPT !.at = "failed"] \in LinkStates /\ [l0 EXCEPT !.at = "failed"].at = "failed"
    BY <1>2 DEF LinkStates
  <2>3. Lost(u, hindered) \/ Direct(u) \in {"unroutable", "endless"}
    <3>1. CASE Lost(u, hindered)
      BY <3>1
    <3>2. CASE ~Lost(u, hindered) /\ UnroutableReason(l0.url, TRUE)
      <4>1. ~Lost(u, hindered) /\ UnroutableReason(l0.url, TRUE)
        BY <3>2
      <4> HIDE DEF Lost, Direct
      <4> QED BY <1>6, <4>1
    <3>3. CASE ~Lost(u, hindered) /\ ~UnroutableReason(l0.url, TRUE)
      <4>1. NextHops(l0, step) > MaxHops /\ ~(NextHops(l0, step) \in 0..MaxHops)
        <5>1. ~UnroutableReason(l0.url, answers)
          BY <1>9, <3>3
        <5>2. NextHops(l0, step) > MaxHops
          BY <1>10, <5>1
        <5> HIDE DEF l0
        <5> QED BY <5>2 DEF MaxHops
      <4> QED BY <1>6, <3>3, <4>1
    <3> QED BY <3>1, <3>2, <3>3
  <2>4. ~Followed(u) /\ Excused(u)
    <3>1. Direct(u) \in {"unroutable", "endless"}
      BY <2>3 DEF Lost
    <3> HIDE DEF Direct
    <3> QED BY <3>1, LostNotFollowed, LostExcused
  <2>5. LinkSound(u, [l0 EXCEPT !.at = "failed"], hindered')
    <3> DEFINE l2 == [l0 EXCEPT !.at = "failed"]
    <3>1. l2 \in LinkStates /\ l2.at = "failed" /\ Web[l2.url].found = Web[u].found
      BY <1>2, <1>f, <2>2 DEF LinkStates
    <3> HIDE DEF l2
    <3>2. LinkSound(u, l2, hindered')
      BY <2>4, <3>1 DEF LinkSound
    <3> QED BY <3>2 DEF l2
  <2> QED BY <2>1, <2>5
<1>11. CASE ~UnroutableReason(l0.url, answers) /\ ~(NextHops(l0, step) > MaxHops)
  <2>1. /\ hindered' = IF answers /\ ~l0.late THEN hindered ELSE hindered \union {u}
        /\ IF step = "written" /\ Probe(u) # u
           THEN Goes(u, [l1 EXCEPT !.at = "rewritten", !.url = Probe(u)])
           ELSE Goes(u, [l1 EXCEPT !.at = IF l1.late THEN "noted" ELSE "requested"])
    BY <1>1, <1>3, <1>11
  <2>2. NextHops(l0, step) \in 0..MaxHops
    BY <1>4, <1>11 DEF MaxHops
  <2>3. hindered \subseteq hindered' /\ (l0.late => u \in hindered')
    BY <2>1
  <2>4. UnroutableReason(l0.url, TRUE) => u \in hindered'
    BY <1>1, <1>11, <2>1
  <2>5. \/ Lost(u, hindered')
        \/ /\ ~UnroutableReason(l0.url, TRUE)
           /\ step = "written" => ~UnroutableReason(u, TRUE)
           /\ (step = "written" /\ Probe(u) # u) \/ Direct(u) = Fates[NextHops(l0, step)][l0.url]
    <3>1. CASE Lost(u, hindered)
      BY <2>3, <3>1 DEF Lost
    <3>2. CASE ~Lost(u, hindered) /\ UnroutableReason(l0.url, TRUE)
      <4>1. u \in hindered'
        BY <2>4, <3>2
      <4>2. Direct(u) = "unroutable"
        <5>1. CASE step = "written"
          BY <1>5, <3>2, <5>1 DEF Direct
        <5>2. CASE step = "rewritten"
          <6>0. l0.url = Probe(u) /\ ~UnroutableReason(u, TRUE)
            BY <1>5, <3>2, <5>2
          <6>1. Direct(u) = Fates[0][l0.url] /\ 0 \in 0..MaxHops
            BY <6>0 DEF Direct, MaxHops
          <6> QED BY <1>2, <3>2, <6>1, FatePage
        <5>3. CASE step = "hop"
          <6>1. l0.hops # MaxHops /\ NextHops(l0, step) = l0.hops + 1
            BY <1>2, <2>2, <5>3 DEF NextHops, MaxHops
          <6>2. Direct(u) = Fates[NextHops(l0, step)][l0.url]
            BY <1>5, <3>2, <5>3, <6>1
          <6> QED BY <1>2, <2>2, <3>2, <6>2, FatePage
        <5> QED BY <1>1, <5>1, <5>2, <5>3
      <4> QED BY <4>1, <4>2 DEF Lost
    <3>3. CASE ~Lost(u, hindered) /\ ~UnroutableReason(l0.url, TRUE)
      BY <1>6, <1>11, <3>3
    <3> QED BY <3>1, <3>2, <3>3
  <2>6. CASE step = "written" /\ Probe(u) # u
    <3> DEFINE l2 == [at |-> "rewritten", url |-> Probe(u), method |-> l0.method, hops |-> NextHops(l0, step),
                      late |-> l0.late, checked |-> l0.checked \union {l0.url}]
    <3>1. link' = [link EXCEPT ![u] = l2]
      <4>1. [l1 EXCEPT !.at = "rewritten", !.url = Probe(u)] = l2
        <5> HIDE DEF l0, l1
        <5>1. Shaped(l1)
          BY <1>3 DEF Shaped
        <5>2. [l1 EXCEPT !.at = "rewritten", !.url = Probe(u)] =
                [at |-> "rewritten", url |-> Probe(u), method |-> l1.method, hops |-> l1.hops, late |-> l1.late,
                 checked |-> l1.checked]
          BY <5>1, LinkGoes, Zenon
        <5> QED BY <1>3, <5>2, Zenon
      <4> HIDE DEF l1, l2
      <4> QED BY <2>1, <2>6, <4>1 DEF Goes
    <3>2. l2 \in LinkStates /\ l2.at = "rewritten" /\ l2.url = Probe(u)
      BY <1>2, <1>8, <2>2 DEF LinkStates
    <3> HIDE DEF l2
    <3>3. LinkSound(u, l2, hindered')
      BY <1>8, <2>5, <2>6, <3>2 DEF LinkSound
    <3> QED BY <2>3, <3>1, <3>3
  <2>7. CASE ~(step = "written" /\ Probe(u) # u)
    <3> DEFINE l2 == [at |-> IF l0.late THEN "noted" ELSE "requested", url |-> l0.url, method |-> l0.method,
                      hops |-> NextHops(l0, step), late |-> l0.late, checked |-> l0.checked \union {l0.url}]
    <3>1. link' = [link EXCEPT ![u] = l2]
      <4>1. [l1 EXCEPT !.at = IF l1.late THEN "noted" ELSE "requested"] = l2
        <5> HIDE DEF l0, l1
        <5>1. Shaped(l1)
          BY <1>3 DEF Shaped
        <5>2. [l1 EXCEPT !.at = IF l1.late THEN "noted" ELSE "requested"] =
                [at |-> IF l1.late THEN "noted" ELSE "requested", url |-> l1.url, method |-> l1.method,
                 hops |-> l1.hops, late |-> l1.late, checked |-> l1.checked]
          BY <5>1, LinkEnds, Zenon
        <5> QED BY <1>3, <5>2, Zenon
      <4> HIDE DEF l1, l2
      <4> QED BY <2>1, <2>7, <4>1 DEF Goes
    <3>2. /\ l2 \in LinkStates /\ l2.at = (IF l0.late THEN "noted" ELSE "requested") /\ l2.url = l0.url
          /\ l2.hops = NextHops(l0, step) /\ l2.checked = l0.checked \union {l0.url}
      BY <1>2, <2>2 DEF LinkStates
    <3> HIDE DEF l2
    <3>3. Probe(u) \in l2.checked
      <4>1. CASE step = "written"
        BY <1>2, <2>7, <3>2, <4>1 DEF LinkSound
      <4>2. CASE step = "rewritten"
        BY <1>2, <3>2, <4>2 DEF LinkSound
      <4>3. CASE step = "hop"
        BY <1>2, <3>2, <4>3 DEF LinkSound
      <4> QED BY <1>1, <4>1, <4>2, <4>3
    <3>4. LinkSound(u, l2, hindered')
      <4>1. CASE l0.late
        BY <1>f, <2>3, <3>2, <4>1 DEF LinkSound
      <4>2. CASE ~l0.late
        <5>1. l2.at = "requested" /\ l2.url \in l2.checked
          BY <3>2, <4>2
        <5>2. Lost(u, hindered') \/ (Direct(u) = Fates[l2.hops][l2.url] /\ ~UnroutableReason(l2.url, TRUE))
          BY <2>5, <2>7, <3>2
        <5> QED BY <1>f, <3>2, <3>3, <5>1, <5>2 DEF LinkSound
      <4> QED BY <4>1, <4>2
    <3> QED BY <2>3, <3>1, <3>4
  <2> QED BY <2>6, <2>7
<1> QED BY <1>10, <1>11

(* A page that answers: what is asked for was checked, and is what the     *)
(* reader meets, unless the link is lost.                                  *)
LEMMA LinkAnswered ==
  ASSUME NEW u \in DOMAIN link, u \in DOMAIN Web, LinkSound(u, link[u], hindered), Answered(u)
  PROVE  \E l : link' = [link EXCEPT ![u] = l] /\ LinkSound(u, l, hindered)
<1> DEFINE l0 == link[u]
<1>1. /\ l0 \in LinkStates /\ l0.at = "requested" /\ l0.url \in DOMAIN Web /\ l0.hops \in 0..MaxHops
      /\ l0.method \in {"HEAD", "GET"} /\ Shaped(l0)
      /\ Probe(u) \in l0.checked /\ l0.url \in l0.checked
  BY LinkFields DEF Answered, Probing, LinkSound, LinkStates
<1>2. Lost(u, hindered) \/ (Direct(u) = Fates[l0.hops][l0.url] /\ ~UnroutableReason(l0.url, TRUE))
  BY <1>1 DEF LinkSound
<1>3. /\ Web[l0.url].page \in {"live", "headless", "dead", "denied", "moved", "garbled"}
      /\ Web[l0.url].page = "moved" => Web[l0.url].to \in DOMAIN Web /\ Web[Web[l0.url].to].found = Web[u].found
      /\ Web[l0.url].page \in {"live", "headless"} => Web[u].found
      /\ Web[l0.url].page \in {"dead", "garbled"} => ~Web[u].found
      /\ Web[l0.url].found = Web[u].found
  <2>1. Web[l0.url].found = Web[u].found
    BY DEF LinkSound
  <2> HIDE DEF l0
  <2> QED BY <1>1, <2>1, WebAssumption
<1>4. Lost(u, hindered) => ~Followed(u) /\ u \in hindered
  BY LostNotFollowed DEF Lost
<1>5. \/ Lost(u, hindered)
      \/ Web[l0.url].page # "moved" /\ Direct(u) = Web[l0.url].page
      \/ /\ Web[l0.url].page = "moved"
         /\ Direct(u) = IF l0.hops = MaxHops THEN "endless" ELSE Fates[l0.hops + 1][Web[l0.url].to]
  BY <1>1, <1>2, FatePage
<1>6. Probe(u) \in DOMAIN Web /\ Web[Probe(u)].found = Web[u].found
  BY ProbeType
(* The link ends with a result that is true.                               *)
<1>7. ASSUME NEW result \in {"live", "noted", "failed"},
             Settles(u, result),
             result = "failed" => ~Followed(u) /\ Excused(u),
             result = "live" => Web[u].found /\ (Followed(u) \/ u \in hindered),
             result = "noted" => Fate(u) = "unborn" \/ u \in hindered
      PROVE  \E l : link' = [link EXCEPT ![u] = l] /\ LinkSound(u, l, hindered)
  <2> DEFINE l1 == [l0 EXCEPT !.at = result]
  <2>1. link' = [link EXCEPT ![u] = l1]
    BY <1>7 DEF Settles, Goes
  <2>2. l1 \in LinkStates /\ l1.at = result /\ Web[l1.url].found = Web[u].found
    BY <1>1, <1>3 DEF LinkStates
  <2> HIDE DEF l1
  <2>3. LinkSound(u, l1, hindered)
    BY <1>7, <2>2 DEF LinkSound
  <2> QED BY <2>1, <2>3
<1>8. CASE Web[l0.url].page = "moved"
  <2> DEFINE l1 == [l0 EXCEPT !.at = "hop", !.url = Web[l0.url].to]
  <2>1. link' = [link EXCEPT ![u] = l1]
    <3>1. Goes(u, l1)
      BY <1>8 DEF Answered, Status
    <3> HIDE DEF l1
    <3> QED BY <3>1 DEF Goes
  <2>2. l1 = [at |-> "hop", url |-> Web[l0.url].to, method |-> l0.method, hops |-> l0.hops, late |-> l0.late,
              checked |-> l0.checked]
    <3> HIDE DEF l0
    <3> QED BY <1>1, LinkGoes, Zenon
  <2> HIDE DEF l1
  <2>3. /\ l1 \in LinkStates /\ l1.at = "hop" /\ l1.url = Web[l0.url].to /\ l1.hops = l0.hops
        /\ l1.checked = l0.checked
    BY <1>1, <1>3, <1>8, <2>2 DEF LinkStates
  <2>4. Lost(u, hindered) \/ Direct(u) = IF l1.hops = MaxHops THEN "endless" ELSE Fates[l1.hops + 1][l1.url]
    BY <1>5, <1>8, <2>3
  <2>5. LinkSound(u, l1, hindered)
    BY <1>1, <1>3, <1>8, <2>3, <2>4 DEF LinkSound
  <2> QED BY <2>1, <2>5
<1>9. CASE Web[l0.url].page = "garbled"
  <2>1. Settles(u, "failed")
    BY <1>9 DEF Answered, Status
  <2>2. ~Followed(u) /\ Excused(u)
    BY <1>3, <1>4, <1>5, <1>9, LostNotFollowed DEF Excused
  <2> QED BY <1>7, <2>1, <2>2
<1>10. CASE Web[l0.url].page \in {"headless", "denied"} /\ l0.method = "HEAD"
  <2> DEFINE l1 == [l0 EXCEPT !.url = Probe(u), !.method = "GET", !.hops = 0]
  <2>1. link' = [link EXCEPT ![u] = l1]
    <3>1. CASE Web[l0.url].page = "headless"
      <4>1. Goes(u, l1)
        BY <1>10, <3>1 DEF Answered, Status
      <4> HIDE DEF l1
      <4> QED BY <4>1 DEF Goes
    <3>2. CASE Web[l0.url].page = "denied"
      <4>1. Goes(u, l1)
        BY <1>10, <3>2 DEF Answered, Status
      <4> HIDE DEF l1
      <4> QED BY <4>1 DEF Goes
    <3> QED BY <1>10, <3>1, <3>2
  <2>2. l1 \in LinkStates /\ l1.at = "requested" /\ l1.url = Probe(u) /\ l1.hops = 0 /\ l1.checked = l0.checked
    <3>1. l1 = [at |-> l0.at, url |-> Probe(u), method |-> "GET", hops |-> 0, late |-> l0.late,
                checked |-> l0.checked]
      <4> HIDE DEF l0
      <4> QED BY <1>1, LinkRepeats, Zenon
    <3> HIDE DEF l1
    <3> QED BY <1>1, <1>6, <3>1 DEF LinkStates, MaxHops
  <2> HIDE DEF l1
  <2>3. Lost(u, hindered) \/ (Direct(u) = Fates[0][Probe(u)] /\ ~UnroutableReason(Probe(u), TRUE))
    <3>1. CASE Lost(u, hindered)
      BY <3>1
    <3>2. CASE ~Lost(u, hindered)
      <4>1. Direct(u) \in {"headless", "denied"}
        BY <1>5, <1>10, <3>2
      <4>2. Direct(u) = Fates[0][Probe(u)]
        BY <4>1 DEF Direct
      <4>3. 0 \in 0..MaxHops
        BY DEF MaxHops
      <4>4. UnroutableReason(Probe(u), TRUE) => Fates[0][Probe(u)] = "unroutable"
        BY <1>6, <4>3, FatePage
      <4> HIDE DEF Direct
      <4> QED BY <4>1, <4>2, <4>4
    <3> QED BY <3>1, <3>2
  <2>4. LinkSound(u, l1, hindered)
    BY <1>1, <1>6, <2>2, <2>3 DEF LinkSound
  <2> QED BY <2>1, <2>4
<1>11. CASE Web[l0.url].page = "live" \/ (Web[l0.url].page = "headless" /\ l0.method = "GET")
  <2>1. Settles(u, "live")
    <3>1. Status(l0.url, l0.method) = 200
      <4>1. CASE Web[l0.url].page = "live"
        BY <4>1 DEF Status
      <4>2. CASE Web[l0.url].page = "headless" /\ l0.method = "GET"
        BY <4>2 DEF Status
      <4> QED BY <1>11, <4>1, <4>2
    <3> QED BY <1>11, <3>1 DEF Answered
  <2>2. Followed(u) \/ u \in hindered
    <3>1. CASE Lost(u, hindered)
      BY <1>4, <3>1
    <3>2. CASE ~Lost(u, hindered)
      <4>1. Direct(u) \in {"live", "headless"}
        BY <1>5, <1>11, <3>2
      <4>2. Fate(u) = IF Direct(u) = "dead" /\ Probe(u) # u THEN "unborn" ELSE Direct(u)
        BY FateIs, Zenon
      <4> QED BY <4>1, <4>2 DEF Followed
    <3> QED BY <3>1, <3>2
  <2>3. Web[u].found
    BY <1>3, <1>11
  <2> QED BY <1>7, <2>1, <2>2, <2>3
<1>12. CASE Web[l0.url].page = "dead" /\ Probe(u) # u
  <2>1. Settles(u, "noted")
    BY <1>12 DEF Answered, Status
  <2>2. Fate(u) = "unborn" \/ u \in hindered
    <3>1. CASE Lost(u, hindered)
      BY <1>4, <3>1
    <3>2. CASE ~Lost(u, hindered)
      <4>1. Direct(u) = "dead"
        BY <1>5, <1>12, <3>2
      <4>2. Fate(u) = IF Direct(u) = "dead" /\ Probe(u) # u THEN "unborn" ELSE Direct(u)
        BY FateIs, Zenon
      <4> QED BY <1>12, <4>1, <4>2
    <3> QED BY <3>1, <3>2
  <2> QED BY <1>7, <2>1, <2>2
<1>13. CASE (Web[l0.url].page = "dead" /\ Probe(u) = u) \/ (Web[l0.url].page = "denied" /\ l0.method = "GET")
  <2>1. Settles(u, "failed")
    <3>1. CASE Web[l0.url].page = "dead" /\ Probe(u) = u
      <4>1. Status(l0.url, l0.method) = 404
        BY <3>1 DEF Status
      <4> QED BY <3>1, <4>1 DEF Answered
    <3>2. CASE Web[l0.url].page = "denied" /\ l0.method = "GET"
      <4>1. Status(l0.url, l0.method) = 403
        BY <3>2 DEF Status
      <4> QED BY <3>2, <4>1 DEF Answered
    <3> QED BY <1>13, <3>1, <3>2
  <2>2. ~Followed(u)
    BY <1>4, <1>5, <1>13, LostNotFollowed
  <2>3. Excused(u)
    <3>1. CASE Lost(u, hindered)
      BY <3>1, LostExcused DEF Lost
    <3>2. CASE Web[l0.url].page = "dead"
      BY <1>3, <3>2 DEF Excused
    <3>3. CASE ~Lost(u, hindered) /\ Web[l0.url].page = "denied"
      <4>1. Direct(u) = "denied"
        BY <1>5, <3>3
      <4> HIDE DEF Direct
      <4> QED BY <4>1, LostExcused
    <3> QED BY <1>13, <3>1, <3>2, <3>3
  <2> QED BY <1>7, <2>1, <2>2, <2>3
<1> QED BY <1>1, <1>3, <1>8, <1>9, <1>10, <1>11, <1>12, <1>13

LEMMA LinkUnreached ==
  ASSUME NEW u \in DOMAIN link, u \in DOMAIN Web, LinkSound(u, link[u], hindered), Unreached(u)
  PROVE  \E l : link' = [link EXCEPT ![u] = l] /\ LinkSound(u, l, hindered \union {u})
<1> DEFINE l1 == [link[u] EXCEPT !.at = "noted"]
<1>1. link' = [link EXCEPT ![u] = l1]
  BY DEF Unreached, Settles, Goes
<1>2. l1 \in LinkStates /\ l1.at = "noted" /\ Web[l1.url].found = Web[u].found
  BY DEF LinkStates, LinkSound
<1> HIDE DEF l1
<1>3. LinkSound(u, l1, hindered \union {u})
  BY <1>2 DEF LinkSound
<1> QED BY <1>1, <1>3

LEMMA LinkLate ==
  ASSUME NEW u \in DOMAIN link, LinkSound(u, link[u], hindered), DeadlinePasses(u)
  PROVE  \E l : link' = [link EXCEPT ![u] = l] /\ LinkSound(u, l, hindered)
<1> DEFINE l0 == link[u]
           l1 == [l0 EXCEPT !.late = TRUE]
<1>1. link' = [link EXCEPT ![u] = l1] /\ l0.at = "hop"
  BY DEF DeadlinePasses, Goes, Probing
<1>2. l0 \in LinkStates
  BY DEF LinkSound
<1>3. l1 \in LinkStates /\ l1.at = "hop" /\ l1.url = l0.url /\ l1.hops = l0.hops /\ l1.checked = l0.checked
  BY <1>1, <1>2 DEF LinkStates
<1>4. Probe(u) \in l0.checked /\ Web[l0.url].found = Web[u].found
  BY <1>1 DEF LinkSound
<1>5. Lost(u, hindered) \/ Direct(u) = IF l0.hops = MaxHops THEN "endless" ELSE Fates[l0.hops + 1][l0.url]
  BY <1>1 DEF LinkSound
<1> HIDE DEF l1, l0
<1>6. LinkSound(u, l1, hindered)
  BY <1>3, <1>4, <1>5 DEF LinkSound
<1> QED BY <1>1, <1>6

-----------------------------------------------------------------------------
(* check-published-surface: the gate.                                      *)

Results == {"live", "noted", "failed"}

(* What the check of the CHANGELOG has established if it found nothing.    *)
ChangelogHolds ==
  /\ Current \in Documented
  /\ \A v \in Documented : ~ReleaseNotes(v).short
  /\ repository.local \subseteq Documented
  /\ "fetch" \in gitAnswered => repository.remote \subseteq Documented
  /\ repository.shallow /\ "rev-parse" \in gitAnswered =>
       repository.local # {} \/ ("fetch" \in gitAnswered /\ repository.remote # {})

SurfaceInv ==
  /\ script # "check-published-surface" => SurfaceIdle
  /\ script = "check-published-surface" =>
       /\ \E p \in Published : readme = p.readme
       /\ check \in {"links", "probing", "changelog", "snippets", "compile", "done"}
       /\ check = "links" => link = <<>>
       /\ check # "links" =>
            DOMAIN link = readme.links /\ \A u \in DOMAIN link : LinkSound(u, link[u], hindered)
       /\ check \notin {"links", "probing"} =>
            \A u \in DOMAIN link :
              link[u].at \in Results /\ (link[u].at = "failed" => "links" \in problems)
       /\ check \in {"snippets", "compile", "done"} /\ "changelog" \notin problems => ChangelogHolds
       /\ exit = "0" =>
            check = "done" /\ problems = {} /\ \A b \in readme.snippets : Real(b) = {}
       /\ check = "done" /\ gateDir => unwritable \/ ~\E b \in readme.snippets : b.imports

LEMMA SurfaceSafe ==
  ASSUME SurfaceInv
  PROVE  RequestsAreChecked /\ LinkVerdicts /\ GreenMeansPublishable /\ GateDirRemoved
<1>1. CASE script # "check-published-surface"
  <2>1. link = <<>> /\ check = "links"
    BY <1>1 DEF SurfaceInv, SurfaceIdle
  <2>2. DOMAIN link = {}
    BY <2>1
  <2> QED BY <1>1, <2>1, <2>2 DEF RequestsAreChecked, LinkVerdicts, GreenMeansPublishable, GateDirRemoved
<1>2. CASE script = "check-published-surface"
  <2>1. \A u \in DOMAIN link : LinkSound(u, link[u], hindered)
    <3>1. CASE check = "links"
      <4>1. link = <<>>
        BY <1>2, <3>1 DEF SurfaceInv
      <4> QED BY <4>1
    <3>2. CASE check # "links"
      BY <1>2, <3>2 DEF SurfaceInv
    <3> QED BY <3>1, <3>2
  <2>2. RequestsAreChecked
    BY <2>1 DEF RequestsAreChecked, LinkSound
  <2>3. LinkVerdicts
    BY <2>1 DEF LinkVerdicts, LinkSound, Followed, Excused
  <2>4. GateDirRemoved
    BY <1>2 DEF SurfaceInv, GateDirRemoved
  <2>5. GreenMeansPublishable
    <3> SUFFICES ASSUME exit = "0"
                 PROVE  /\ \A u \in readme.links : Web[u].found \/ Fate(u) = "unborn" \/ u \in hindered
                        /\ ChangelogHolds
                        /\ \A b \in readme.snippets : \A d \in b.diagnostics :
                             d.pos \in b.elisions \/ d.module = "peer" \/ d.type \in b.locals
      BY DEF GreenMeansPublishable, ChangelogHolds
    <3>1. /\ check = "done" /\ problems = {} /\ DOMAIN link = readme.links
          /\ \A b \in readme.snippets : Real(b) = {}
      BY <1>2 DEF SurfaceInv
    <3>2. ASSUME NEW u \in readme.links
          PROVE  Web[u].found \/ Fate(u) = "unborn" \/ u \in hindered
      <4>1. link[u].at \in {"live", "noted"}
        BY <1>2, <3>1 DEF SurfaceInv, Results
      <4> QED BY <2>1, <3>1, <4>1 DEF LinkSound
    <3>3. ChangelogHolds
      BY <1>2, <3>1 DEF SurfaceInv
    <3>4. ASSUME NEW b \in readme.snippets, NEW d \in b.diagnostics
          PROVE  d.pos \in b.elisions \/ d.module = "peer" \/ d.type \in b.locals
      <4>1. IsParseElision(b, d) \/ IsForeignModule(d) \/ IsAbbreviatedLocalType(b, d)
        BY <3>1 DEF Real
      <4> QED BY <4>1 DEF IsParseElision, IsForeignModule, IsAbbreviatedLocalType
    <3> QED BY <3>2, <3>3, <3>4
  <2> QED BY <2>2, <2>3, <2>4, <2>5
<1> QED BY <1>1, <1>2

(* A step of the checks of the links.                                      *)
LEMMA LinkMoves ==
  ASSUME SurfaceInv, NEW u \in DOMAIN link, LinkSettles(u) \/ DeadlinePasses(u)
  PROVE  SurfaceInv'
<1>1. /\ script = "check-published-surface" /\ script' = script /\ exit = "running" /\ exit' = exit
      /\ check = "probing" /\ check' = check /\ UNCHANGED <<readme, changelog, repository>>
      /\ problems' = problems /\ gateDir' = gateDir /\ unwritable' = unwritable /\ gitAnswered' = gitAnswered
  BY DEF LinkSettles, Checked, Answered, Unreached, DeadlinePasses, Probing, Runs, Continues, inputs
<1>2. /\ DOMAIN link = readme.links
      /\ \A v \in DOMAIN link : LinkSound(v, link[v], hindered)
      /\ \E p \in Published : readme = p.readme
  BY <1>1 DEF SurfaceInv
<1>3. u \in DOMAIN Web
  BY <1>2, WebAssumption
<1>4. /\ hindered \subseteq hindered'
      /\ \E l : link' = [link EXCEPT ![u] = l] /\ LinkSound(u, l, hindered')
  <2>1. CASE Checked(u)
    BY <1>2, <1>3, <2>1, LinkChecked
  <2>2. CASE Answered(u)
    <3>1. hindered' = hindered
      BY <2>2 DEF Answered
    <3> QED BY <1>2, <1>3, <2>2, <3>1, LinkAnswered
  <2>3. CASE Unreached(u)
    <3>1. hindered' = hindered \union {u}
      BY <2>3 DEF Unreached
    <3> QED BY <1>2, <1>3, <2>3, <3>1, LinkUnreached
  <2>4. CASE DeadlinePasses(u)
    <3>1. hindered' = hindered
      BY <2>4 DEF DeadlinePasses
    <3> QED BY <1>2, <1>3, <2>4, <3>1, LinkLate
  <2> QED BY <2>1, <2>2, <2>3, <2>4 DEF LinkSettles
<1>5. PICK l : link' = [link EXCEPT ![u] = l] /\ LinkSound(u, l, hindered')
  BY <1>4
<1>6. DOMAIN link' = readme'.links
  BY <1>1, <1>2, <1>5
<1>7. ASSUME NEW v \in DOMAIN link'
      PROVE  LinkSound(v, link'[v], hindered')
  <2>1. CASE v = u
    <3>1. link'[v] = l
      BY <1>5, <1>7, <2>1
    <3> QED BY <1>5, <2>1, <3>1
  <2>2. CASE v # u
    <3>1. v \in DOMAIN link /\ link'[v] = link[v]
      BY <1>5, <1>7, <2>2
    <3> QED BY <1>2, <1>4, <3>1, LinkGrows
  <2> QED BY <2>1, <2>2
<1> QED BY <1>1, <1>2, <1>6, <1>7 DEF SurfaceInv

LEMMA SurfaceNextRuns ==
  ASSUME SurfaceNext
  PROVE  /\ script = "check-published-surface" /\ script' = script /\ exit = "running"
         /\ UNCHANGED <<readme, changelog, repository>>
<1>1. CASE StaticLinks
  BY <1>1 DEF StaticLinks, Runs, inputs
<1>2. ASSUME NEW u \in DOMAIN link, LinkSettles(u) \/ DeadlinePasses(u)
      PROVE  /\ script = "check-published-surface" /\ script' = script /\ exit = "running"
           /\ UNCHANGED <<readme, changelog, repository>>
  BY <1>2 DEF LinkSettles, Checked, Answered, Unreached, DeadlinePasses, Probing, Runs, inputs
<1>3. CASE LinksDone \/ CheckChangelog
  BY <1>3 DEF LinksDone, CheckChangelog, Runs, inputs
<1>4. CASE NoSnippet \/ ScaffoldConsumer \/ CompileGate
  BY <1>4 DEF NoSnippet, ScaffoldConsumer, CompileGate, Runs, inputs
<1> QED BY <1>1, <1>2, <1>3, <1>4 DEF SurfaceNext

LEMMA SurfaceStep ==
  ASSUME SurfaceInv, SurfaceNext
  PROVE  SurfaceInv'
<1>0. /\ script = "check-published-surface" /\ script' = script /\ exit = "running"
      /\ UNCHANGED <<readme, changelog, repository>>
  BY SurfaceNextRuns
<1>1. \E p \in Published : readme = p.readme
  BY <1>0 DEF SurfaceInv
<1>2. CASE StaticLinks
  <2>1. /\ check = "links" /\ check' = "probing" /\ exit' = exit
        /\ link' = [u \in readme.links |->
             [at |-> "written", url |-> u, method |-> "HEAD", hops |-> 0, late |-> FALSE, checked |-> {}]]
    BY <1>2 DEF StaticLinks, Continues
  <2>2. DOMAIN link' = readme'.links
    BY <1>0, <2>1
  <2>3. ASSUME NEW u \in DOMAIN link'
        PROVE  LinkSound(u, link'[u], hindered')
    <3> DEFINE l == [at |-> "written", url |-> u, method |-> "HEAD", hops |-> 0, late |-> FALSE, checked |-> {}]
    <3>1. u \in DOMAIN Web /\ link'[u] = l
      BY <1>1, <2>1, <2>3, WebAssumption
    <3>2. l \in LinkStates /\ l.at = "written" /\ l.url = u
      BY <3>1 DEF LinkStates, MaxHops
    <3> HIDE DEF l
    <3> QED BY <3>1, <3>2 DEF LinkSound
  <2> QED BY <1>0, <1>1, <2>1, <2>2, <2>3 DEF SurfaceInv
<1>3. CASE \E u \in DOMAIN link : LinkSettles(u) \/ DeadlinePasses(u)
  BY <1>3, LinkMoves
<1>4. CASE LinksDone
  <2>1. /\ check = "probing" /\ check' = "changelog" /\ exit' = exit /\ link' = link /\ hindered' = hindered
        /\ \A u \in DOMAIN link : link[u].at \in Results
    BY <1>4 DEF LinksDone, Continues, Results
  <2>2. \A u \in DOMAIN link : link[u].at = "failed" => "links" \in problems'
    BY <1>4 DEF LinksDone, Fail
  <2> QED BY <1>0, <1>1, <2>1, <2>2 DEF SurfaceInv
<1>5. CASE CheckChangelog
  <2>1. /\ check = "changelog" /\ check' = "snippets" /\ exit' = exit /\ link' = link /\ hindered' = hindered
        /\ Documented' = Documented /\ \A v : ReleaseNotes(v)' = ReleaseNotes(v)
    BY <1>0, <1>5 DEF CheckChangelog, Continues, Documented, ReleaseNotes
  <2>2. PICK answered \in SUBSET {"fetch", "tag", "rev-parse"} :
          LET released == repository.local \union (IF "fetch" \in answered THEN repository.remote ELSE {})
              shallow  == "rev-parse" \in answered /\ repository.shallow
          IN  /\ gitAnswered' = answered
              /\ Fail("changelog",
                   IF Current \notin Documented THEN TRUE
                   ELSE \/ \E v \in Documented : ReleaseNotes(v).short \/ v \notin changelog.defined
                        \/ "tag" \notin answered
                        \/ MissingSections(released, shallow))
    BY <1>5, Zenon DEF CheckChangelog
  <2>3. problems \subseteq problems'
    BY <2>2 DEF Fail
  <2>4. ASSUME "changelog" \notin problems'
        PROVE  ChangelogHolds'
    <3> DEFINE fetched  == "fetch" \in answered
               released == repository.local \union (IF fetched THEN repository.remote ELSE {})
               shallow  == "rev-parse" \in answered /\ repository.shallow
    <3>0. Fail("changelog",
            IF Current \notin Documented THEN TRUE
            ELSE \/ \E v \in Documented : ReleaseNotes(v).short \/ v \notin changelog.defined
                 \/ "tag" \notin answered
                 \/ MissingSections(released, shallow))
      BY <2>2
    <3>1. /\ Current \in Documented
          /\ \A v \in Documented : ~ReleaseNotes(v).short
          /\ ~MissingSections(released, shallow)
      <4> HIDE DEF released, shallow
      <4> QED BY <2>4, <3>0 DEF Fail
    <3>2. released = {} => ~shallow
      <4> HIDE DEF released, shallow
      <4> QED BY <3>1, Zenon DEF MissingSections
    <3>3. released \subseteq Documented
      <4> HIDE DEF released, shallow
      <4>1. released # {} => released \subseteq Documented
        BY <3>1, Zenon DEF MissingSections
      <4> QED BY <4>1
    <3>4. fetched => released = repository.local \union repository.remote
      OBVIOUS
    <3>5. ~fetched => released = repository.local
      OBVIOUS
    <3>6. shallow = ("rev-parse" \in answered /\ repository.shallow) /\ fetched = ("fetch" \in gitAnswered')
          /\ answered = gitAnswered' /\ repository.local \subseteq released
      BY <2>2
    <3> HIDE DEF released, fetched, shallow
    <3>7. repository.local \subseteq Documented /\ ("fetch" \in gitAnswered' => repository.remote \subseteq Documented)
      BY <3>3, <3>4, <3>6
    <3>8. repository.shallow /\ "rev-parse" \in gitAnswered' =>
            repository.local # {} \/ ("fetch" \in gitAnswered' /\ repository.remote # {})
      <4> SUFFICES ASSUME repository.shallow, "rev-parse" \in gitAnswered'
                   PROVE  repository.local # {} \/ ("fetch" \in gitAnswered' /\ repository.remote # {})
        OBVIOUS
      <4>1. shallow
        BY <3>6
      <4>2. released # {}
        BY <3>2, <4>1
      <4> QED BY <3>4, <3>5, <3>6, <4>2
    <3> QED BY <1>0, <2>1, <3>1, <3>7, <3>8 DEF ChangelogHolds
  <2>5. \A u \in DOMAIN link : link[u].at \in Results /\ (link[u].at = "failed" => "links" \in problems')
    BY <1>0, <2>1, <2>3 DEF SurfaceInv
  <2> QED BY <1>0, <1>1, <2>1, <2>4, <2>5 DEF SurfaceInv
<1>6. ASSUME check \in {"snippets", "compile"}, check' \in {"compile", "done"},
             link' = link, hindered' = hindered, gitAnswered' = gitAnswered,
             problems \subseteq problems',
             exit' = "0" =>
               check' = "done" /\ problems' = {} /\ \A b \in readme.snippets : Real(b) = {},
             check' = "done" /\ gateDir' => unwritable' \/ ~\E b \in readme.snippets : b.imports
      PROVE  SurfaceInv'
  <2>1. ChangelogHolds' = ChangelogHolds
    BY <1>0, <1>6 DEF ChangelogHolds, Documented, ReleaseNotes
  <2>2. "changelog" \notin problems' => ChangelogHolds'
    BY <1>0, <1>6, <2>1 DEF SurfaceInv
  <2>3. \A u \in DOMAIN link : link[u].at \in Results /\ (link[u].at = "failed" => "links" \in problems')
    BY <1>0, <1>6 DEF SurfaceInv
  <2>4. DOMAIN link = readme.links /\ \A u \in DOMAIN link : LinkSound(u, link[u], hindered)
    BY <1>0, <1>6 DEF SurfaceInv
  <2>5. \A b : Real(b)' = Real(b)
    BY DEF Real
  <2> QED BY <1>0, <1>1, <1>6, <2>2, <2>3, <2>4, <2>5 DEF SurfaceInv
<1>7. CASE NoSnippet
  <2>1. /\ check = "snippets" /\ check' = "done" /\ link' = link /\ hindered' = hindered
        /\ gitAnswered' = gitAnswered /\ problems' = problems \union {"snippets"}
        /\ exit' = IF problems' = {} THEN "0" ELSE "1"
        /\ ~\E b \in readme.snippets : b.imports
    BY <1>7 DEF NoSnippet, Fail, Verdict, Ends
  <2>2. exit' = "1"
    BY <2>1
  <2> QED BY <1>6, <2>1, <2>2
<1>8. CASE ScaffoldConsumer
  <2>1. /\ check = "snippets" /\ link' = link /\ hindered' = hindered
        /\ gitAnswered' = gitAnswered /\ problems' = problems
        /\ \/ check' = "compile" /\ exit' = exit
           \/ check' = "done" /\ exit' = "1" /\ unwritable' = TRUE
    BY <1>8 DEF ScaffoldConsumer, Ends, Continues
  <2> QED BY <1>0, <1>6, <2>1
<1>9. CASE CompileGate
  <2>1. /\ check = "compile" /\ check' = "done" /\ link' = link /\ hindered' = hindered
        /\ gitAnswered' = gitAnswered /\ gateDir' = FALSE
    BY <1>9 DEF CompileGate
  <2>2. CASE Fail("snippets", \E b \in readme.snippets : Real(b) # {}) /\ Verdict
    <3>1. /\ problems' = IF \E b \in readme.snippets : Real(b) # {} THEN problems \union {"snippets"} ELSE problems
          /\ exit' = IF problems' = {} THEN "0" ELSE "1"
      BY <2>2 DEF Fail, Verdict, Ends
    <3>2. exit' = "0" => problems' = {}
      BY <3>1
    <3>3. problems' = {} => \A b \in readme.snippets : Real(b) = {}
      BY <3>1
    <3>4. problems \subseteq problems'
      BY <3>1
    <3> QED BY <1>6, <2>1, <3>2, <3>3, <3>4
  <2>3. CASE UNCHANGED problems /\ Ends("1")
    <3>1. problems' = problems /\ exit' = "1"
      BY <2>3 DEF Ends
    <3> QED BY <1>6, <2>1, <3>1
  <2> QED BY <1>9, <2>2, <2>3 DEF CompileGate
<1> QED BY <1>2, <1>3, <1>4, <1>5, <1>7, <1>8, <1>9 DEF SurfaceNext

LEMMA SurfaceRest ==
  ASSUME SurfaceInv, UNCHANGED <<script, surfaceVars>>,
         script # "check-published-surface" \/ UNCHANGED exit
  PROVE  SurfaceInv'
<1>1. /\ UNCHANGED <<readme, changelog, repository, check, link, hindered, gitAnswered, problems, gateDir, unwritable>>
      /\ script' = script
  BY DEF surfaceVars, inputs
<1>2. ChangelogHolds' = ChangelogHolds /\ \A b : Real(b)' = Real(b)
  BY <1>1 DEF ChangelogHolds, Documented, ReleaseNotes, Real
<1>3. CASE script # "check-published-surface"
  <2>1. SurfaceIdle
    BY <1>3 DEF SurfaceInv
  <2>2. SurfaceIdle'
    BY <1>1, <2>1 DEF SurfaceIdle
  <2> QED BY <1>1, <1>3, <2>2 DEF SurfaceInv
<1>4. CASE script = "check-published-surface" /\ exit' = exit
  BY <1>1, <1>2, <1>4 DEF SurfaceInv
<1> QED BY <1>3, <1>4

-----------------------------------------------------------------------------
(* strip-bundle-comments: a passage of a text in another's place.          *)

(* t is s with what is after the first a and up to b in s replaced by what *)
(* is after the first a and up to c in t.                                  *)
Replaces(s, t, a, b, c) ==
  /\ s \in Seq(Pieces) /\ t \in Seq(Pieces)
  /\ a \in Nat /\ b \in Nat /\ c \in Nat
  /\ a <= b /\ b <= Len(s) /\ a <= c /\ c <= Len(t) /\ Len(s) - b = Len(t) - c
  /\ \A q \in 1..a : s[q] = t[q]
  /\ \A r \in 1..(Len(s) - b) : s[b + r] = t[c + r]

(* Where a place of s outside the passage is in t.                         *)
Moved(a, b, c, p) == IF p <= a THEN p ELSE p - b + c

PlacesOf(text, T) == {p \in DOMAIN text : text[p] \in T}

LEMMA ReplacedPlaces ==
  ASSUME NEW s, NEW t, NEW a, NEW b, NEW c, Replaces(s, t, a, b, c), NEW T,
         \A q \in (a + 1)..b : s[q] \notin T,
         \A q \in (a + 1)..c : t[q] \notin T
  PROVE  /\ PlacesOf(s, T) \subseteq Int /\ IsFiniteSet(PlacesOf(s, T))
         /\ Cardinality(PlacesOf(s, T)) \in Nat
         /\ Cardinality(PlacesOf(t, T)) = Cardinality(PlacesOf(s, T))
         /\ \A p \in PlacesOf(s, T) : (p <= a \/ b < p) /\ t[Moved(a, b, c, p)] = s[p]
         /\ InOrder(PlacesOf(t, T)) =
              [n \in 1..Cardinality(PlacesOf(s, T)) |-> Moved(a, b, c, InOrder(PlacesOf(s, T))[n])]
<1> DEFINE P == {p \in DOMAIN s : s[p] \in T}
           Q == {p \in DOMAIN t : t[p] \in T}
           C == Cardinality(P)
           g == [n \in 1..C |-> Moved(a, b, c, InOrder(P)[n])]
<1>0. /\ a \in Nat /\ b \in Nat /\ c \in Nat /\ Len(s) \in Nat /\ Len(t) \in Nat
      /\ a <= b /\ b <= Len(s) /\ a <= c /\ c <= Len(t) /\ Len(s) - b = Len(t) - c
      /\ DOMAIN s = 1..Len(s) /\ DOMAIN t = 1..Len(t)
  BY DEF Replaces
<1>1. P \subseteq Int /\ Q \subseteq Int /\ IsFiniteSet(P)
  <2>1. PICK n \in Nat : n = Len(s)
    BY <1>0
  <2>2. P \subseteq 1..n
    BY <1>0, <2>1
  <2>3. Q \subseteq Int
    BY <1>0
  <2> HIDE DEF P, Q
  <2>4. P \subseteq Int /\ IsFiniteSet(P)
    BY <2>2, PlacesFinite
  <2> QED BY <2>3, <2>4
<1>2. /\ C \in Nat
      /\ \A n \in 1..C : InOrder(P)[n] \in P
      /\ \A m, n \in 1..C : m < n => InOrder(P)[m] < InOrder(P)[n]
      /\ \A p \in P : \E n \in 1..C : InOrder(P)[n] = p
  <2> HIDE DEF P
  <2> QED BY <1>1, InOrderIs
<1>3. \A p \in P : p \in 1..Len(s) /\ s[p] \in T /\ (p <= a \/ b < p)
  BY <1>0
<1>4. ASSUME NEW p \in P PROVE Moved(a, b, c, p) \in Q /\ t[Moved(a, b, c, p)] = s[p]
  <2>1. CASE p <= a
    <3>1. p \in 1..Len(t) /\ t[p] = s[p]
      BY <1>0, <1>3, <2>1 DEF Replaces
    <3> QED BY <1>0, <1>3, <2>1, <3>1 DEF Moved
  <2>2. CASE b < p
    <3>1. PICK r \in 1..(Len(s) - b) : p = b + r
      <4>1. p - b \in 1..(Len(s) - b) /\ p = b + (p - b)
        BY <1>0, <1>3, <2>2
      <4> QED BY <4>1
    <3>2. t[c + r] = s[p] /\ c + r \in 1..Len(t) /\ Moved(a, b, c, p) = c + r
      BY <1>0, <1>3, <2>2, <3>1 DEF Replaces, Moved
    <3> QED BY <1>0, <1>3, <3>2
  <2> QED BY <1>3, <2>1, <2>2
<1>5. ASSUME NEW q \in Q PROVE \E p \in P : Moved(a, b, c, p) = q
  <2>0. q \in 1..Len(t) /\ t[q] \in T /\ (q <= a \/ c < q)
    BY <1>0
  <2>1. CASE q <= a
    <3>1. q \in 1..Len(s) /\ t[q] = s[q]
      BY <1>0, <2>0, <2>1 DEF Replaces
    <3>2. q \in P /\ Moved(a, b, c, q) = q
      BY <1>0, <2>0, <2>1, <3>1 DEF Moved
    <3> QED BY <3>2
  <2>2. CASE c < q
    <3>1. PICK r \in 1..(Len(s) - b) : q = c + r
      <4>1. q - c \in 1..(Len(s) - b) /\ q = c + (q - c)
        BY <1>0, <2>0, <2>2
      <4> QED BY <4>1
    <3>2. s[b + r] = t[q] /\ b + r \in 1..Len(s) /\ Moved(a, b, c, b + r) = q
      BY <1>0, <2>0, <3>1 DEF Replaces, Moved
    <3>3. b + r \in P
      BY <1>0, <2>0, <3>2
    <3> QED BY <3>2, <3>3
  <2> QED BY <2>0, <2>1, <2>2
<1>6. ASSUME NEW p \in P, NEW r \in P, p < r PROVE Moved(a, b, c, p) < Moved(a, b, c, r)
  <2>1. p \in Int /\ r \in Int /\ (p <= a \/ b < p) /\ (r <= a \/ b < r)
    BY <1>0, <1>3
  <2> QED BY <1>0, <1>6, <2>1 DEF Moved
<1> HIDE DEF P, Q, C
<1>7. /\ g = [n \in 1..C |-> g[n]]
      /\ \A n \in 1..C : g[n] = Moved(a, b, c, InOrder(P)[n])
  OBVIOUS
<1> HIDE DEF g
<1>8. /\ \A n \in 1..C : g[n] \in Q
      /\ \A m, n \in 1..C : m < n => g[m] < g[n]
  BY <1>2, <1>4, <1>6, <1>7
<1>9. \A q \in Q : \E n \in 1..C : g[n] = q
  <2> TAKE q \in Q
  <2>1. PICK p \in P : Moved(a, b, c, p) = q
    BY <1>5
  <2>2. PICK n \in 1..C : InOrder(P)[n] = p
    BY <1>2
  <2> QED BY <1>7, <2>1, <2>2
<1>10. IsFiniteSet(Q) /\ Cardinality(Q) = C /\ InOrder(Q) = g
  <2>1. Q \subseteq Int
    BY <1>1
  <2>2. C \in Nat
    BY <1>2
  <2>3. g = [n \in 1..C |-> g[n]]
    BY <1>7
  <2>4. \A n \in 1..C : g[n] \in Q
    BY <1>8
  <2>5. \A i, j \in 1..C : i < j => g[i] < g[j]
    BY <1>8
  <2> QED BY <1>9, <2>1, <2>2, <2>3, <2>4, <2>5, InOrderOnly, SMTT(30)
<1> QED BY <1>1, <1>2, <1>3, <1>4, <1>10 DEF P, Q, C, g, PlacesOf

CodeAt(text) == PlacesOf(text, Code)

(* A token as PrintProgram tells it: at p, after the one at u.             *)
Joins(text, p, u) == p = u + 1 /\ text[p] = "a" /\ text[u] = "a"
Parts(text, p, u) == text[u] = "a" /\ \E q \in (u + 1)..(p - 1) : Breaks(text[q])

LEMMA ProgramIs ==
  ASSUME NEW s, NEW t,
         InOrder(CodeAt(s)) = [n \in 1..Cardinality(CodeAt(s)) |-> InOrder(CodeAt(s))[n]],
         InOrder(CodeAt(t)) = [n \in 1..Cardinality(CodeAt(t)) |-> InOrder(CodeAt(t))[n]],
         Cardinality(CodeAt(t)) = Cardinality(CodeAt(s)), Cardinality(CodeAt(s)) \in Nat,
         \A n \in 1..Cardinality(CodeAt(s)) : s[InOrder(CodeAt(s))[n]] = t[InOrder(CodeAt(t))[n]],
         \A n \in 1..Cardinality(CodeAt(s)) : n > 1 =>
           LET p == InOrder(CodeAt(s))[n]
               u == InOrder(CodeAt(s))[n - 1]
               r == InOrder(CodeAt(t))[n]
               v == InOrder(CodeAt(t))[n - 1]
           IN  (Joins(s, p, u) <=> Joins(t, r, v)) /\ (Parts(s, p, u) <=> Parts(t, r, v))
  PROVE  SameProgram(s, t)
<1> DEFINE f == InOrder(CodeAt(s))
           g == InOrder(CodeAt(t))
           C == Cardinality(CodeAt(s))
           J(text, h, n) == n > 1 /\ h[n] = (IF n = 1 THEN 0 ELSE h[n - 1]) + 1 /\ text[h[n]] = "a"
                              /\ text[IF n = 1 THEN 0 ELSE h[n - 1]] = "a"
           B(text, h, n) == /\ n > 1 /\ text[IF n = 1 THEN 0 ELSE h[n - 1]] = "a"
                            /\ \E q \in ((IF n = 1 THEN 0 ELSE h[n - 1]) + 1)..(h[n] - 1) : Breaks(text[q])
<1>1. PrintProgram(s) = [n \in DOMAIN f |-> [token |-> s[f[n]], joined |-> J(s, f, n), broken |-> B(s, f, n)]]
  BY Zenon DEF PrintProgram, CodeAt, PlacesOf
<1>2. PrintProgram(t) = [n \in DOMAIN g |-> [token |-> t[g[n]], joined |-> J(t, g, n), broken |-> B(t, g, n)]]
  BY Zenon DEF PrintProgram, CodeAt, PlacesOf
<1>3. ASSUME NEW n \in 1..C
      PROVE  s[f[n]] = t[g[n]] /\ J(s, f, n) = J(t, g, n) /\ B(s, f, n) = B(t, g, n)
  <2>1. s[f[n]] = t[g[n]]
    OBVIOUS
  <2>2. CASE n = 1
    <3>1. ~J(s, f, n) /\ ~J(t, g, n) /\ ~B(s, f, n) /\ ~B(t, g, n)
      BY <2>2
    <3> QED BY <2>1, <3>1
  <2>3. CASE n > 1
    <3>1. /\ Joins(s, f[n], f[n - 1]) <=> Joins(t, g[n], g[n - 1])
          /\ Parts(s, f[n], f[n - 1]) <=> Parts(t, g[n], g[n - 1])
      BY <2>3
    <3>2. /\ J(s, f, n) <=> Joins(s, f[n], f[n - 1])
          /\ J(t, g, n) <=> Joins(t, g[n], g[n - 1])
          /\ B(s, f, n) <=> Parts(s, f[n], f[n - 1])
          /\ B(t, g, n) <=> Parts(t, g[n], g[n - 1])
      <4> HIDE DEF f, g
      <4> QED BY <2>3 DEF Joins, Parts
    <3>3. (J(s, f, n) <=> J(t, g, n)) /\ (B(s, f, n) <=> B(t, g, n))
      BY <3>1, <3>2
    <3>4. J(s, f, n) = J(t, g, n) /\ B(s, f, n) = B(t, g, n)
      BY <3>3
    <3> QED BY <2>1, <3>4
  <2> QED BY <2>2, <2>3
<1>4. DOMAIN f = 1..C /\ DOMAIN g = 1..C
  OBVIOUS
<1> HIDE DEF f, g, C, J, B
<1>5. PrintProgram(s) = PrintProgram(t)
  BY <1>1, <1>2, <1>3, <1>4
<1> QED BY <1>5 DEF SameProgram

LEMMA ReplacedProgram ==
  ASSUME NEW s, NEW t, NEW a, NEW b, NEW c, Replaces(s, t, a, b, c), a < b,
         \A q \in (a + 1)..b : s[q] \notin Code,
         \A q \in (a + 1)..c : t[q] \notin Code,
         a = c /\ 1 <= a /\ b < Len(s) => ~(s[a] = "a" /\ s[b + 1] = "a"),
         \/ (\E q \in (a + 1)..b : Breaks(s[q])) <=> (\E q \in (a + 1)..c : Breaks(t[q]))
         \/ \A u \in 1..a, p \in (b + 1)..Len(s) : s[u] \in Code /\ s[p] \in Code =>
              \/ \E q \in (u + 1)..a : Breaks(s[q])
              \/ \E q \in (b + 1)..(p - 1) : Breaks(s[q])
  PROVE  SameProgram(s, t)
<1> DEFINE P == CodeAt(s)
           C == Cardinality(P)
           f == InOrder(P)
           g == InOrder(CodeAt(t))
           M(p) == Moved(a, b, c, p)
<1>0. /\ a \in Nat /\ b \in Nat /\ c \in Nat /\ Len(s) \in Nat /\ Len(t) \in Nat
      /\ a < b /\ b <= Len(s) /\ a <= c /\ c <= Len(t) /\ Len(s) - b = Len(t) - c
      /\ DOMAIN s = 1..Len(s) /\ DOMAIN t = 1..Len(t)
  BY DEF Replaces
<1>1. /\ P \subseteq Int /\ IsFiniteSet(P)
      /\ Cardinality(CodeAt(t)) = C
      /\ \A p \in P : (p <= a \/ b < p) /\ t[M(p)] = s[p]
      /\ g = [n \in 1..C |-> M(f[n])]
  <2>1. /\ CodeAt(s) \subseteq Int /\ IsFiniteSet(CodeAt(s))
        /\ Cardinality(CodeAt(t)) = Cardinality(CodeAt(s))
        /\ \A p \in CodeAt(s) : (p <= a \/ b < p) /\ t[Moved(a, b, c, p)] = s[p]
        /\ InOrder(CodeAt(t)) = [n \in 1..Cardinality(CodeAt(s)) |-> Moved(a, b, c, InOrder(CodeAt(s))[n])]
    BY ReplacedPlaces DEF CodeAt
  <2> QED BY <2>1
<1>2. /\ C \in Nat /\ f = [n \in 1..C |-> f[n]]
      /\ \A n \in 1..C : f[n] \in P
      /\ \A m, n \in 1..C : m < n => f[m] < f[n]
  <2> HIDE DEF P
  <2> QED BY <1>1, InOrderIs
<1>3. \A p \in P : p \in 1..Len(s) /\ s[p] \in Code
  BY <1>0 DEF CodeAt, PlacesOf
<1> HIDE DEF P, C, f, g
<1>4. \A n \in 1..C : g[n] = M(f[n])
  BY <1>1
<1>5. g = [n \in 1..C |-> g[n]]
  BY <1>1
<1>6. \A n \in 1..C : s[f[n]] = t[g[n]]
  BY <1>1, <1>2, <1>4
(* Where s and t agree they break alike.                                   *)
<1>7. ASSUME NEW u \in P, NEW p \in P, u < p
      PROVE  /\ Joins(s, p, u) <=> Joins(t, M(p), M(u))
             /\ Parts(s, p, u) <=> Parts(t, M(p), M(u))
  <2>0. /\ u \in 1..Len(s) /\ p \in 1..Len(s) /\ s[u] \in Code /\ s[p] \in Code
        /\ t[M(u)] = s[u] /\ t[M(p)] = s[p]
    BY <1>1, <1>3
  <2>1. CASE p <= a
    <3>1. M(p) = p /\ M(u) = u /\ u <= a
      BY <1>0, <1>7, <2>0, <2>1 DEF Moved
    <3>2. \A q \in (u + 1)..(p - 1) : s[q] = t[q]
      BY <1>0, <2>0, <2>1, <3>1 DEF Replaces
    <3> QED BY <2>0, <3>1, <3>2 DEF Joins, Parts
  <2>2. CASE b < u
    <3>1. M(p) = p - b + c /\ M(u) = u - b + c /\ p > b
      BY <1>0, <1>7, <2>0, <2>2 DEF Moved
    <3>2. ASSUME NEW q \in (u + 1)..(p - 1)
          PROVE  q - b + c \in (M(u) + 1)..(M(p) - 1) /\ t[q - b + c] = s[q]
      <4>1. PICK r \in 1..(Len(s) - b) : q = b + r
        <5>1. q - b \in 1..(Len(s) - b) /\ q = b + (q - b)
          BY <1>0, <2>0, <2>2
        <5> QED BY <5>1
      <4>2. t[c + r] = s[b + r] /\ q - b + c = c + r
        BY <1>0, <4>1 DEF Replaces
      <4> QED BY <1>0, <2>0, <3>1, <4>1, <4>2
    <3>3. ASSUME NEW q \in (M(u) + 1)..(M(p) - 1)
          PROVE  q - c + b \in (u + 1)..(p - 1) /\ s[q - c + b] = t[q]
      <4>1. PICK r \in 1..(Len(s) - b) : q = c + r
        <5>1. q - c \in 1..(Len(s) - b) /\ q = c + (q - c)
          BY <1>0, <2>0, <2>2, <3>1
        <5> QED BY <5>1
      <4>2. t[c + r] = s[b + r] /\ q - c + b = b + r
        BY <1>0, <4>1 DEF Replaces
      <4> QED BY <1>0, <2>0, <3>1, <4>1, <4>2
    <3>4. (\E q \in (u + 1)..(p - 1) : Breaks(s[q])) <=> (\E q \in (M(u) + 1)..(M(p) - 1) : Breaks(t[q]))
      BY <3>2, <3>3
    <3>5. p = u + 1 <=> M(p) = M(u) + 1
      BY <1>0, <2>0, <3>1
    <3> QED BY <2>0, <3>4, <3>5 DEF Joins, Parts
  <2>3. CASE u <= a /\ b < p
    <3>1. M(p) = p - b + c /\ M(u) = u /\ M(p) > c
      BY <1>0, <2>0, <2>3 DEF Moved
    <3>2. ~Joins(s, p, u)
      BY <1>0, <2>0, <2>3 DEF Joins
    <3>3. ~Joins(t, M(p), M(u))
      <4> SUFFICES ASSUME M(p) = M(u) + 1, s[p] = "a", s[u] = "a" PROVE FALSE
        BY <2>0 DEF Joins
      <4>1. u = a /\ a = c /\ p = b + 1
        BY <1>0, <2>0, <2>3, <3>1
      <4>2. 1 <= a /\ b < Len(s)
        BY <1>0, <2>0, <4>1
      <4> QED BY <4>1, <4>2
    <3>4. (\E q \in (u + 1)..(p - 1) : Breaks(s[q])) <=>
            \/ \E q \in (u + 1)..a : Breaks(s[q])
            \/ \E q \in (a + 1)..b : Breaks(s[q])
            \/ \E q \in (b + 1)..(p - 1) : Breaks(s[q])
      <4>1. \A q \in (u + 1)..(p - 1) : q \in (u + 1)..a \/ q \in (a + 1)..b \/ q \in (b + 1)..(p - 1)
        BY <1>0, <2>0, <2>3
      <4>2. /\ \A q \in (u + 1)..a : q \in (u + 1)..(p - 1)
            /\ \A q \in (a + 1)..b : q \in (u + 1)..(p - 1)
            /\ \A q \in (b + 1)..(p - 1) : q \in (u + 1)..(p - 1)
        BY <1>0, <2>0, <2>3
      <4> QED BY <4>1, <4>2
    <3>5. (\E q \in (M(u) + 1)..(M(p) - 1) : Breaks(t[q])) <=>
            \/ \E q \in (u + 1)..a : Breaks(t[q])
            \/ \E q \in (a + 1)..c : Breaks(t[q])
            \/ \E q \in (c + 1)..(M(p) - 1) : Breaks(t[q])
      <4>1. \A q \in (u + 1)..(M(p) - 1) : q \in (u + 1)..a \/ q \in (a + 1)..c \/ q \in (c + 1)..(M(p) - 1)
        BY <1>0, <2>0, <2>3, <3>1
      <4>2. /\ \A q \in (u + 1)..a : q \in (u + 1)..(M(p) - 1)
            /\ \A q \in (a + 1)..c : q \in (u + 1)..(M(p) - 1)
            /\ \A q \in (c + 1)..(M(p) - 1) : q \in (u + 1)..(M(p) - 1)
        BY <1>0, <2>0, <2>3, <3>1
      <4> QED BY <3>1, <4>1, <4>2
    <3>6. \A q \in (u + 1)..a : s[q] = t[q]
      BY <1>0, <2>0 DEF Replaces
    <3>7. ASSUME NEW q \in (b + 1)..(p - 1)
          PROVE  q - b + c \in (c + 1)..(M(p) - 1) /\ t[q - b + c] = s[q]
      <4>1. PICK r \in 1..(Len(s) - b) : q = b + r
        <5>1. q - b \in 1..(Len(s) - b) /\ q = b + (q - b)
          BY <1>0, <2>0, <2>3
        <5> QED BY <5>1
      <4>2. t[c + r] = s[b + r] /\ q - b + c = c + r
        BY <1>0, <4>1 DEF Replaces
      <4> QED BY <1>0, <2>0, <3>1, <4>1, <4>2
    <3>8. ASSUME NEW q \in (c + 1)..(M(p) - 1)
          PROVE  q - c + b \in (b + 1)..(p - 1) /\ s[q - c + b] = t[q]
      <4>1. PICK r \in 1..(Len(s) - b) : q = c + r
        <5>1. q - c \in 1..(Len(s) - b) /\ q = c + (q - c)
          BY <1>0, <2>0, <2>3, <3>1
        <5> QED BY <5>1
      <4>2. t[c + r] = s[b + r] /\ q - c + b = b + r
        BY <1>0, <4>1 DEF Replaces
      <4> QED BY <1>0, <2>0, <3>1, <4>1, <4>2
    <3>9. (\E q \in (b + 1)..(p - 1) : Breaks(s[q])) <=> (\E q \in (c + 1)..(M(p) - 1) : Breaks(t[q]))
      BY <3>7, <3>8
    <3>10. (\E q \in (u + 1)..a : Breaks(s[q])) <=> (\E q \in (u + 1)..a : Breaks(t[q]))
      BY <3>6
    <3>11. u \in 1..a /\ p \in (b + 1)..Len(s)
      BY <1>0, <2>0, <2>3
    <3>12. \/ (\E q \in (a + 1)..b : Breaks(s[q])) <=> (\E q \in (a + 1)..c : Breaks(t[q]))
           \/ \E q \in (u + 1)..a : Breaks(s[q])
           \/ \E q \in (b + 1)..(p - 1) : Breaks(s[q])
      BY <2>0, <3>11
    <3>13. (\E q \in (u + 1)..(p - 1) : Breaks(s[q])) <=> (\E q \in (M(u) + 1)..(M(p) - 1) : Breaks(t[q]))
      BY <3>4, <3>5, <3>9, <3>10, <3>12
    <3> QED BY <2>0, <3>2, <3>3, <3>13 DEF Parts
  <2> QED BY <1>1, <2>0, <2>1, <2>2, <2>3
<1>8. ASSUME NEW n \in 1..C, n > 1
      PROVE  /\ Joins(s, f[n], f[n - 1]) <=> Joins(t, g[n], g[n - 1])
             /\ Parts(s, f[n], f[n - 1]) <=> Parts(t, g[n], g[n - 1])
  <2>1. n - 1 \in 1..C /\ n - 1 < n
    BY <1>2, <1>8
  <2>2. f[n - 1] \in P /\ f[n] \in P /\ f[n - 1] < f[n]
    BY <1>2, <2>1
  <2>3. g[n] = M(f[n]) /\ g[n - 1] = M(f[n - 1])
    BY <1>4, <2>1
  <2> HIDE DEF M
  <2> QED BY <1>7, <2>2, <2>3
<1> QED BY <1>1, <1>2, <1>5, <1>6, <1>8, ProgramIs DEF P, C, f, g

LEMMA MaxIs ==
  ASSUME NEW S, S \subseteq Nat, S # {}, NEW k \in Nat, \A x \in S : x <= k
  PROVE  Max(S) \in S /\ \A x \in S : x <= Max(S)
<1> DEFINE T == {k - x : x \in S}
<1>1. T \subseteq Nat /\ T # {}
  <2>1. \A x \in S : k - x \in Nat
    OBVIOUS
  <2>2. PICK x \in S : TRUE
    OBVIOUS
  <2>3. k - x \in T
    OBVIOUS
  <2> QED BY <2>1, <2>3
<1> HIDE DEF T
<1>2. PICK m \in T : \A j \in T : m <= j
  BY <1>1, LeastExists
<1> USE DEF T
<1>3. PICK y \in S : m = k - y
  BY <1>2
<1>4. \A x \in S : y >= x
  <2> TAKE x \in S
  <2>1. k - y <= k - x /\ x \in Nat /\ y \in Nat
    BY <1>2, <1>3
  <2> QED BY <2>1
<1>5. Max(S) \in S /\ \A x \in S : Max(S) >= x
  BY <1>4 DEF Max
<1>6. \A x \in S : x \in Nat
  OBVIOUS
<1> QED BY <1>5, <1>6

LEMMA MinIs ==
  ASSUME NEW S, S \subseteq Nat, S # {}
  PROVE  Min(S) \in S /\ \A x \in S : Min(S) <= x
<1>1. \E m \in S : \A x \in S : m <= x
  BY LeastExists
<1> QED BY <1>1 DEF Min

(* f in the place of what is after a and up to b in s.                     *)
TakesPlace(s, f, a, b) ==
  /\ Replaces(s, SubSeq(s, 1, a) \o f \o SubSeq(s, b + 1, Len(s)), a, b, a + Len(f))
  /\ \A q \in 1..Len(f) : (SubSeq(s, 1, a) \o f \o SubSeq(s, b + 1, Len(s)))[a + q] = f[q]

LEMMA Spliced ==
  ASSUME NEW s \in Seq(Pieces), NEW f \in Seq(Pieces), NEW a \in Nat, NEW b \in Nat,
         a <= b, b <= Len(s)
  PROVE  TakesPlace(s, f, a, b)
<1> DEFINE L == Len(s)
           k == SubSeq(s, 1, a)
           v == SubSeq(s, b + 1, L)
           F == Len(f)
<1>0. L \in Nat /\ F \in Nat /\ a <= L /\ b <= L
  OBVIOUS
<1>1. k \in Seq(Pieces) /\ Len(k) = a /\ \A q \in 1..a : k[q] = s[q]
  <2>1. 1 \in Nat /\ 1 <= 1 /\ 1 <= a + 1 /\ a <= Len(s)
    BY <1>0
  <2>2. /\ k \in Seq(Pieces) /\ Len(k) = a + 1 - 1
        /\ \A q \in 1..(a + 1 - 1) : k[q] = s[1 + q - 1]
    BY <2>1, SubSeqIs
  <2>3. a + 1 - 1 = a /\ \A q \in 1..a : 1 + q - 1 = q
    BY <1>0
  <2> HIDE DEF k
  <2> QED BY <2>2, <2>3
<1>2. v \in Seq(Pieces) /\ Len(v) = L - b /\ \A q \in 1..(L - b) : v[q] = s[b + q]
  <2>1. b + 1 \in Nat /\ L \in Nat /\ 1 <= b + 1 /\ b + 1 <= L + 1 /\ L <= Len(s)
    BY <1>0
  <2>2. /\ v \in Seq(Pieces) /\ Len(v) = L + 1 - (b + 1)
        /\ \A q \in 1..(L + 1 - (b + 1)) : v[q] = s[b + 1 + q - 1]
    BY <2>1, SubSeqIs
  <2> HIDE DEF v, L
  <2>3. L + 1 - (b + 1) = L - b
    BY <1>0
  <2>4. ASSUME NEW q \in 1..(L - b) PROVE v[q] = s[b + q]
    <3>1. q \in 1..(L + 1 - (b + 1)) /\ b + 1 + q - 1 = b + q
      BY <1>0
    <3>2. v[q] = s[b + 1 + q - 1]
      BY <2>2, <3>1
    <3> QED BY <3>1, <3>2
  <2> QED BY <2>2, <2>3, <2>4
<1> HIDE DEF k, v, F, L
<1>3. /\ k \o f \in Seq(Pieces) /\ Len(k \o f) = a + F
      /\ \A q \in 1..(a + F) : (k \o f)[q] = IF q <= a THEN k[q] ELSE f[q - a]
  <2>1. /\ k \o f \in Seq(Pieces) /\ Len(k \o f) = Len(k) + Len(f)
        /\ \A q \in 1..(Len(k) + Len(f)) : (k \o f)[q] = IF q <= Len(k) THEN k[q] ELSE f[q - Len(k)]
    <3>1. k \in Seq(Pieces) /\ f \in Seq(Pieces)
      BY <1>1
    <3> HIDE DEF F
    <3> QED BY <3>1, ConcatIs
  <2>2. Len(k) = a /\ Len(f) = F
    BY <1>1 DEF F
  <2> HIDE DEF F
  <2> QED BY <2>1, <2>2
<1> DEFINE h == k \o f
           t == h \o v
<1>4. /\ t \in Seq(Pieces) /\ Len(t) = a + F + (L - b)
      /\ \A q \in 1..(a + F + (L - b)) : t[q] = IF q <= a + F THEN h[q] ELSE v[q - (a + F)]
  <2> HIDE DEF h
  <2>1. h \in Seq(Pieces) /\ Len(h) = a + F
    BY <1>3 DEF h
  <2>2. /\ h \o v \in Seq(Pieces) /\ Len(h \o v) = Len(h) + Len(v)
        /\ \A q \in 1..(Len(h) + Len(v)) : (h \o v)[q] = IF q <= Len(h) THEN h[q] ELSE v[q - Len(h)]
    <3>1. h \in Seq(Pieces) /\ v \in Seq(Pieces)
      BY <1>2, <2>1
    <3> QED BY <3>1, ConcatIs
  <2>3. Len(h) = a + F /\ Len(v) = L - b
    BY <1>2, <2>1
  <2>4. /\ t \in Seq(Pieces) /\ Len(t) = a + F + (L - b)
    BY <2>2, <2>3
  <2>5. ASSUME NEW q \in 1..(a + F + (L - b)) PROVE t[q] = IF q <= a + F THEN h[q] ELSE v[q - (a + F)]
    <3>1. q \in 1..(Len(h) + Len(v))
      BY <2>3
    <3>2. (h \o v)[q] = IF q <= Len(h) THEN h[q] ELSE v[q - Len(h)]
      BY <2>2, <3>1
    <3> QED BY <2>3, <3>2
  <2> QED BY <2>4, <2>5
<1> HIDE DEF h, t
<1>5. \A q \in 1..(a + F) : h[q] = IF q <= a THEN k[q] ELSE f[q - a]
  BY <1>3 DEF h
<1>6. ASSUME NEW q \in 1..a PROVE s[q] = t[q]
  <2>1. q \in 1..(a + F) /\ q \in 1..(a + F + (L - b)) /\ q <= a /\ q <= a + F
    BY <1>0
  <2> QED BY <1>1, <1>4, <1>5, <2>1
<1>7. ASSUME NEW q \in 1..F PROVE t[a + q] = f[q]
  <2>1. a + q \in 1..(a + F) /\ a + q \in 1..(a + F + (L - b)) /\ ~(a + q <= a) /\ a + q <= a + F
        /\ a + q - a = q
    BY <1>0
  <2> QED BY <1>4, <1>5, <2>1
<1>8. ASSUME NEW q \in 1..(L - b) PROVE s[b + q] = t[a + F + q]
  <2>1. a + F + q \in 1..(a + F + (L - b)) /\ ~(a + F + q <= a + F) /\ a + F + q - (a + F) = q
    BY <1>0
  <2>2. v[q] = s[b + q]
    BY <1>2
  <2>3. PICK w \in Int : w = a + F + q
    BY <1>0
  <2>4. w \in 1..(a + F + (L - b)) /\ ~(w <= a + F) /\ w - (a + F) = q
    BY <1>0, <2>1, <2>3
  <2>5. t[w] = v[w - (a + F)]
    BY <1>4, <2>4
  <2> QED BY <2>2, <2>3, <2>4, <2>5
<1>9. Replaces(s, t, a, b, a + F)
  <2>1. /\ a + F \in Nat /\ a <= a + F /\ a + F <= Len(t) /\ Len(s) = L
        /\ L - b = Len(t) - (a + F)
    BY <1>0, <1>4 DEF L
  <2> QED BY <1>0, <1>4, <1>6, <1>8, <2>1 DEF Replaces
<1> QED BY <1>7, <1>9 DEF TakesPlace, t, h, k, v, F, L

(* What RemoveComment puts in the place of the comment at pos.             *)
Removal(text, pos, t, a, b, c) ==
  /\ Replaces(text, t, a, b, c)
  /\ a < pos /\ pos <= b
  /\ \A q \in (a + 1)..(pos - 1) : text[q] = "sp"
  /\ \A q \in (a + 1)..b : q # pos => text[q] \in {"sp", "nl"}
  /\ \A q \in (a + 1)..c : t[q] \in {"sp", "nl"}
  /\ a = c /\ 1 <= a /\ b < Len(text) => ~(text[a] = "a" /\ text[b + 1] = "a")
  /\ \/ (\E q \in (a + 1)..b : Breaks(text[q])) <=> (\E q \in (a + 1)..c : Breaks(t[q]))
     \/ \A u \in 1..a, p \in (b + 1)..Len(text) : text[u] \in Code /\ text[p] \in Code =>
          \/ \E q \in (u + 1)..a : Breaks(text[q])
          \/ \E q \in (b + 1)..(p - 1) : Breaks(text[q])

LEMMA Removed ==
  ASSUME NEW text \in Seq(Pieces), NEW pos \in 1..Len(text), text[pos] \in Dropped
  PROVE  \E a, b, c \in Nat : Removal(text, pos, RemoveComment(text, pos), a, b, c)
<1> DEFINE L == Len(text)
           lineStart == Max({0} \union {q \in 1..(pos - 1) : Breaks(text[q])})
           lineEnd   == Min({L + 1} \union {q \in (pos + 1)..L : Breaks(text[q])})
           before    == SubSeq(text, lineStart + 1, pos - 1)
           after     == SubSeq(text, pos + 1, lineEnd - 1)
           clearBefore == Blank(before) /\ (lineStart \in DOMAIN text => text[lineStart] = "nl")
           clearAfter  == Blank(after) /\ (lineEnd \in DOMAIN text => text[lineEnd] = "nl")
           trimmed   == Max({lineStart} \union {q \in (lineStart + 1)..(pos - 1) : text[q] # "sp"})
           kept      == SubSeq(text, 1, trimmed)
           rest      == SubSeq(text, pos + 1, L)
           filler    == IF ~clearBefore /\ ~clearAfter /\ Breaks(text[pos]) THEN <<"nl">>
                        ELSE IF NeedsSpace(kept, rest) THEN <<"sp">> ELSE <<>>
           t         == RemoveComment(text, pos)
<1>1. t = IF clearBefore /\ clearAfter
          THEN SubSeq(text, 1, lineStart) \o SubSeq(text, lineEnd + 1, L)
          ELSE kept \o filler \o rest
  BY Zenon DEF RemoveComment
<1>2. L \in Nat /\ DOMAIN text = 1..L /\ pos \in Nat /\ 1 <= pos /\ pos <= L
  OBVIOUS
<1>3. /\ lineStart \in Nat /\ lineStart < pos
      /\ lineStart >= 1 => Breaks(text[lineStart])
      /\ \A q \in (lineStart + 1)..(pos - 1) : ~Breaks(text[q])
  <2> DEFINE S == {0} \union {q \in 1..(pos - 1) : Breaks(text[q])}
  <2>1. S \subseteq Nat /\ S # {} /\ pos - 1 \in Nat /\ \A x \in S : x <= pos - 1
    BY <1>2
  <2> HIDE DEF S
  <2>2. Max(S) \in S /\ \A x \in S : x <= Max(S)
    BY <2>1, MaxIs
  <2> USE DEF S
  <2>3. ASSUME NEW q \in (lineStart + 1)..(pos - 1) PROVE ~Breaks(text[q])
    <3>1. q \in Nat /\ lineStart \in Nat /\ lineStart < q /\ q \in 1..(pos - 1)
      BY <1>2, <2>2
    <3>2. Breaks(text[q]) => q <= lineStart
      BY <2>2, <3>1
    <3> QED BY <3>1, <3>2
  <2> QED BY <1>2, <2>2, <2>3
<1>4. /\ lineEnd \in Nat /\ pos < lineEnd /\ lineEnd <= L + 1
      /\ lineEnd <= L => Breaks(text[lineEnd])
  <2> DEFINE S == {L + 1} \union {q \in (pos + 1)..L : Breaks(text[q])}
  <2>1. S \subseteq Nat /\ S # {}
    BY <1>2
  <2> HIDE DEF S
  <2>2. Min(S) \in S /\ \A x \in S : Min(S) <= x
    BY <2>1, MinIs
  <2> USE DEF S
  <2> QED BY <1>2, <2>2
<1> HIDE DEF L, lineStart, lineEnd
<1>5. /\ trimmed \in Nat /\ lineStart <= trimmed /\ trimmed < pos
      /\ \A q \in (trimmed + 1)..(pos - 1) : text[q] = "sp"
  <2> DEFINE Full(q) == text[q] # "sp"
             S == {lineStart} \union {q \in (lineStart + 1)..(pos - 1) : Full(q)}
  <2>0. trimmed = Max(S)
    OBVIOUS
  <2> HIDE DEF Full, trimmed
  <2>1. S \subseteq Nat /\ S # {} /\ pos - 1 \in Nat /\ \A x \in S : x <= pos - 1
    BY <1>2, <1>3
  <2> HIDE DEF S
  <2>2. Max(S) \in S /\ \A x \in S : x <= Max(S)
    BY <2>1, MaxIs
  <2> USE DEF S
  <2>3. trimmed \in Nat /\ lineStart <= trimmed /\ trimmed < pos
    BY <1>2, <1>3, <2>0, <2>2
  <2>4. ASSUME NEW q \in (trimmed + 1)..(pos - 1) PROVE text[q] = "sp"
    <3>1. q \in Nat /\ trimmed < q /\ q \in (lineStart + 1)..(pos - 1)
      BY <1>2, <1>3, <2>3
    <3>2. Full(q) => q <= trimmed
      BY <2>0, <2>2, <3>1
    <3>3. ~Full(q)
      BY <2>3, <3>1, <3>2
    <3> QED BY <3>3 DEF Full
  <2> QED BY <2>3, <2>4
<1>6. Blank(before) => \A q \in (lineStart + 1)..(pos - 1) : text[q] = "sp"
  <2> SUFFICES ASSUME Blank(before), NEW q \in (lineStart + 1)..(pos - 1) PROVE text[q] = "sp"
    OBVIOUS
  <2>1. PICK k \in 1..(pos - 1 + 1 - (lineStart + 1)) : q = lineStart + k
    <3>1. q - lineStart \in 1..(pos - 1 + 1 - (lineStart + 1)) /\ q = lineStart + (q - lineStart)
      BY <1>2, <1>3
    <3> QED BY <3>1
  <2>2. /\ DOMAIN before = 1..(pos - 1 + 1 - (lineStart + 1))
        /\ before[k] = text[lineStart + 1 + k - 1]
    <3>1. lineStart + 1 \in Nat /\ pos - 1 \in Nat /\ 1 <= lineStart + 1 /\ lineStart + 1 <= pos - 1 + 1
          /\ pos - 1 <= Len(text)
      BY <1>2, <1>3
    <3> QED BY <3>1, SubSeqIs
  <2>3. lineStart + 1 + k - 1 = q
    BY <1>2, <1>3, <2>1
  <2>4. before[k] \in ToSet(before)
    BY <2>2 DEF ToSet
  <2> QED BY <2>2, <2>3, <2>4 DEF Blank
<1>7. Blank(after) => \A q \in (pos + 1)..(lineEnd - 1) : text[q] = "sp"
  <2> SUFFICES ASSUME Blank(after), NEW q \in (pos + 1)..(lineEnd - 1) PROVE text[q] = "sp"
    OBVIOUS
  <2>1. PICK k \in 1..(lineEnd - 1 + 1 - (pos + 1)) : q = pos + k
    <3>1. q - pos \in 1..(lineEnd - 1 + 1 - (pos + 1)) /\ q = pos + (q - pos)
      BY <1>2, <1>4
    <3> QED BY <3>1
  <2>2. /\ DOMAIN after = 1..(lineEnd - 1 + 1 - (pos + 1))
        /\ after[k] = text[pos + 1 + k - 1]
    <3>1. pos + 1 \in Nat /\ lineEnd - 1 \in Nat /\ 1 <= pos + 1 /\ pos + 1 <= lineEnd - 1 + 1
          /\ lineEnd - 1 <= Len(text)
      BY <1>2, <1>4 DEF L
    <3> QED BY <3>1, SubSeqIs
  <2>3. pos + 1 + k - 1 = q
    BY <1>2, <1>4, <2>1
  <2>4. after[k] \in ToSet(after)
    BY <2>2 DEF ToSet
  <2> QED BY <2>2, <2>3, <2>4 DEF Blank
<1> HIDE DEF trimmed, t
<1> HIDE DEF clearBefore, clearAfter, before, after
<1>8. /\ lineStart >= 1 /\ clearBefore => text[lineStart] = "nl"
      /\ lineEnd <= L /\ clearAfter => text[lineEnd] = "nl"
      /\ clearBefore => Blank(before)
      /\ clearAfter => Blank(after)
  <2>1. (lineStart >= 1 => lineStart \in DOMAIN text) /\ (lineEnd <= L => lineEnd \in DOMAIN text)
    BY <1>2, <1>3, <1>4
  <2> QED BY <2>1 DEF clearBefore, clearAfter
<1>9. ~Breaks("a") /\ ~Breaks("op") /\ ~Breaks("sp") /\ Breaks("nl") /\ Code = {"a", "op"}
  BY DEF Breaks, Code
<1>10. \A q \in 1..L : text[q] \in Code => ~Breaks(text[q]) /\ text[q] # "sp" /\ text[q] # "nl"
  BY <1>9
(* The comment has its line for itself.                                    *)
<1>11. CASE clearBefore /\ clearAfter
  <2> DEFINE end == IF lineEnd <= L THEN lineEnd ELSE L
  <2>1. /\ end \in Nat /\ pos <= end /\ end <= L /\ lineStart <= end
        /\ lineEnd <= L => end = lineEnd
        /\ lineEnd > L => end = L
    BY <1>2, <1>3, <1>4
  <2>2. t = SubSeq(text, 1, lineStart) \o <<>> \o SubSeq(text, end + 1, L)
    <3>1. t = SubSeq(text, 1, lineStart) \o SubSeq(text, lineEnd + 1, L)
      BY <1>1, <1>11
    <3>2. SubSeq(text, lineEnd + 1, L) = SubSeq(text, end + 1, L)
      <4>1. CASE lineEnd <= L
        BY <2>1, <4>1
      <4>2. CASE lineEnd > L
        <5>1. lineEnd = L + 1 /\ end = L
          BY <1>2, <1>4, <2>1, <4>2
        <5>2. \A n \in Nat : 1..(L - (L + 1 + n) + 1) = {}
          BY <1>2
        <5> HIDE DEF end
        <5>3. SubSeq(text, L + 2, L) = <<>> /\ SubSeq(text, L + 1, L) = <<>>
          BY <1>2, <5>2
        <5>4. lineEnd + 1 = L + 2 /\ end + 1 = L + 1
          BY <1>2, <5>1
        <5> QED BY <5>3, <5>4
      <4> QED BY <1>2, <1>4, <4>1, <4>2
    <3>3. SubSeq(text, 1, lineStart) \in Seq(Pieces)
      <4>1. 1 \in Nat /\ 1 <= 1 /\ 1 <= lineStart + 1 /\ lineStart <= Len(text)
        BY <1>2, <1>3 DEF L
      <4> QED BY <1>3, <4>1, SubSeqIs
    <3>4. SubSeq(text, 1, lineStart) \o <<>> = SubSeq(text, 1, lineStart)
      <4> DEFINE k == SubSeq(text, 1, lineStart)
      <4> HIDE DEF k
      <4>1. k \in Seq(Pieces)
        BY <3>3 DEF k
      <4>2. k \o <<>> = k
        BY <4>1
      <4> QED BY <4>2 DEF k
    <3> QED BY <3>1, <3>2, <3>4
  <2> HIDE DEF end
  <2>3. Replaces(text, t, lineStart, end, lineStart)
    <3>1. <<>> \in Seq(Pieces) /\ lineStart + Len(<<>>) = lineStart
      BY <1>3
    <3>2. Replaces(text, SubSeq(text, 1, lineStart) \o <<>> \o SubSeq(text, end + 1, Len(text)),
                   lineStart, end, lineStart + Len(<<>>))
      <4>1. lineStart <= end /\ end <= Len(text) /\ text \in Seq(Pieces) /\ lineStart \in Nat /\ end \in Nat
        BY <1>2, <1>3, <2>1 DEF L
      <4>2. TakesPlace(text, <<>>, lineStart, end)
        BY <3>1, <4>1, Spliced
      <4> QED BY <4>2, Zenon DEF TakesPlace
    <3> QED BY <2>2, <3>1, <3>2 DEF L
  <2>4. \A q \in (lineStart + 1)..(pos - 1) : text[q] = "sp"
    BY <1>6, <1>8, <1>11
  <2>5. \A q \in (pos + 1)..(lineEnd - 1) : text[q] = "sp"
    BY <1>7, <1>8, <1>11
  <2>6. ASSUME NEW q \in (lineStart + 1)..end, q # pos PROVE text[q] \in {"sp", "nl"}
    <3>1. q \in (lineStart + 1)..(pos - 1) \/ q \in (pos + 1)..(lineEnd - 1) \/ (q = lineEnd /\ lineEnd <= L)
      BY <1>2, <1>3, <1>4, <2>1, <2>6
    <3> QED BY <1>8, <1>11, <2>4, <2>5, <3>1
  <2>7. \A q \in (lineStart + 1)..lineStart : FALSE
    BY <1>3
  <2>8. 1 <= lineStart => text[lineStart] = "nl"
    BY <1>8, <1>11
  <2>9. ASSUME NEW u \in 1..lineStart, text[u] \in Code
        PROVE  \E q \in (u + 1)..lineStart : Breaks(text[q])
    <3>1. text[lineStart] = "nl"
      BY <1>3, <2>8
    <3>2. "nl" \notin Code
      BY <1>9
    <3>3. u # lineStart
      BY <2>9, <3>1, <3>2
    <3>4. lineStart \in (u + 1)..lineStart
      BY <1>3, <3>3
    <3> QED BY <1>9, <3>1, <3>4
  <2>10. Removal(text, pos, t, lineStart, end, lineStart)
    BY <1>3, <2>1, <2>3, <2>4, <2>6, <2>7, <2>8, <2>9 DEF Removal
  <2> QED BY <1>3, <2>1, <2>10 DEF t
<1>12. CASE ~(clearBefore /\ clearAfter)
  <2>1. t = kept \o filler \o rest
    BY <1>1, <1>12
  <2>2. filler \in {<<>>, <<"sp">>, <<"nl">>}
    OBVIOUS
  <2> DEFINE c == trimmed + Len(filler)
  <2>0. c = trimmed + Len(filler)
    OBVIOUS
  <2> HIDE DEF c
  <2>3. /\ filler \in Seq(Pieces) /\ Len(filler) \in {0, 1}
        /\ Len(filler) = 1 => filler[1] \in {"sp", "nl"}
        /\ Len(filler) = 0 => filler = <<>>
    <3> HIDE DEF filler, c
    <3>1. "sp" \in Pieces /\ "nl" \in Pieces
      BY DEF Pieces
    <3>2. <<>> \in Seq(Pieces) /\ <<"sp">> \in Seq(Pieces) /\ <<"nl">> \in Seq(Pieces)
      BY <3>1
    <3>3. Len(<<>>) = 0 /\ Len(<<"sp">>) = 1 /\ Len(<<"nl">>) = 1
      OBVIOUS
    <3>4. <<"sp">>[1] = "sp" /\ <<"nl">>[1] = "nl"
      OBVIOUS
    <3>5. CASE filler = <<>>
      BY <3>2, <3>3, <3>5
    <3>6. CASE filler = <<"sp">>
      BY <3>2, <3>3, <3>4, <3>6
    <3>7. CASE filler = <<"nl">>
      BY <3>2, <3>3, <3>4, <3>7
    <3> QED BY <2>2, <3>5, <3>6, <3>7
  <2>4. Replaces(text, t, trimmed, pos, c) /\ \A r \in 1..Len(filler) : t[trimmed + r] = filler[r]
    <3>1. trimmed <= pos /\ pos <= Len(text)
      BY <1>2, <1>5 DEF L
    <3> HIDE DEF filler, c
    <3>2. /\ Replaces(text, SubSeq(text, 1, trimmed) \o filler \o SubSeq(text, pos + 1, Len(text)),
                      trimmed, pos, trimmed + Len(filler))
          /\ \A r \in 1..Len(filler) :
                (SubSeq(text, 1, trimmed) \o filler \o SubSeq(text, pos + 1, Len(text)))[trimmed + r] = filler[r]
      <4>1. text \in Seq(Pieces) /\ trimmed \in Nat /\ pos \in Nat /\ filler \in Seq(Pieces)
        BY <1>2, <1>5, <2>3
      <4>2. TakesPlace(text, filler, trimmed, pos)
        BY <3>1, <4>1, Spliced
      <4> QED BY <4>2, Zenon DEF TakesPlace
    <3> QED BY <2>0, <2>1, <3>2 DEF L
  <2>5. \A r \in (trimmed + 1)..c : t[r] \in {"sp", "nl"} /\ Len(filler) = 1 /\ t[r] = filler[1]
    <3> HIDE DEF filler, c
    <3> TAKE r \in (trimmed + 1)..c
    <3>1. r = trimmed + 1 /\ Len(filler) = 1
      <4>1. CASE Len(filler) = 0
        BY <1>5, <2>0, <4>1
      <4>2. CASE Len(filler) = 1
        BY <1>5, <2>0, <4>2
      <4> QED BY <2>3, <4>1, <4>2
    <3>2. t[trimmed + 1] = filler[1]
      BY <2>4, <3>1
    <3> QED BY <2>3, <3>1, <3>2
  <2>6. ASSUME NEW q \in (trimmed + 1)..pos, q # pos PROVE text[q] = "sp"
    <3>1. q \in (trimmed + 1)..(pos - 1)
      BY <1>2, <1>5, <2>6
    <3> QED BY <1>5, <3>1
  <2>7. /\ trimmed >= 1 => kept # <<>> /\ Last(kept) = text[trimmed]
        /\ pos < L => rest # <<>> /\ Head(rest) = text[pos + 1]
    <3>1. trimmed >= 1 => kept # <<>> /\ Last(kept) = text[trimmed]
      <4> SUFFICES ASSUME trimmed >= 1 PROVE kept # <<>> /\ Last(kept) = text[trimmed]
        OBVIOUS
      <4>1. 1 \in Nat /\ trimmed \in Nat /\ 1 <= 1 /\ 1 <= trimmed + 1 /\ trimmed <= Len(text)
        BY <1>2, <1>5 DEF L
      <4>2. /\ kept \in Seq(Pieces) /\ Len(kept) = trimmed + 1 - 1
            /\ \A k \in 1..(trimmed + 1 - 1) : kept[k] = text[1 + k - 1]
        BY <4>1, SubSeqIs
      <4> HIDE DEF kept
      <4>3. trimmed \in 1..(trimmed + 1 - 1) /\ trimmed + 1 - 1 = trimmed /\ 1 + trimmed - 1 = trimmed
        BY <4>1
      <4>4. Len(kept) = trimmed /\ kept[trimmed] = text[trimmed]
        BY <4>2, <4>3
      <4>5. kept # <<>>
        BY <4>1, <4>4
      <4> QED BY <4>4, <4>5 DEF Last
    <3>2. pos < L => rest # <<>> /\ Head(rest) = text[pos + 1]
      <4> SUFFICES ASSUME pos < L PROVE rest # <<>> /\ Head(rest) = text[pos + 1]
        OBVIOUS
      <4>1. pos + 1 \in Nat /\ L \in Nat /\ 1 <= pos + 1 /\ pos + 1 <= L + 1 /\ L <= Len(text)
        BY <1>2 DEF L
      <4>2. /\ rest \in Seq(Pieces) /\ Len(rest) = L + 1 - (pos + 1)
            /\ \A k \in 1..(L + 1 - (pos + 1)) : rest[k] = text[pos + 1 + k - 1]
        BY <4>1, SubSeqIs
      <4> HIDE DEF rest
      <4>3. 1 \in 1..(L + 1 - (pos + 1)) /\ pos + 1 + 1 - 1 = pos + 1 /\ L + 1 - (pos + 1) >= 1
        BY <4>1
      <4>4. rest[1] = text[pos + 1] /\ Len(rest) >= 1
        BY <4>2, <4>3
      <4> QED BY <4>2, <4>4
    <3> QED BY <3>1, <3>2
  <2>8. ASSUME trimmed = c, 1 <= trimmed, pos < L, text[trimmed] = "a", text[pos + 1] = "a" PROVE FALSE
    <3>1. kept # <<>> /\ Last(kept) = "a" /\ rest # <<>> /\ Head(rest) = "a"
      BY <1>5, <2>7, <2>8
    <3>2. NeedsSpace(kept, rest)
      <4> HIDE DEF kept, rest
      <4> QED BY <3>1 DEF NeedsSpace
    <3>3. filler # <<>>
      BY <3>2
    <3> HIDE DEF filler, c
    <3> QED BY <1>5, <2>0, <2>3, <2>8, <3>3
  <2>9. (\E q \in (trimmed + 1)..pos : Breaks(text[q])) <=> Breaks(text[pos])
    <3>1. pos \in (trimmed + 1)..pos
      BY <1>2, <1>5
    <3> QED BY <1>9, <2>6, <3>1
  <2>10. ASSUME ~clearBefore, ~clearAfter, Breaks(text[pos])
         PROVE  (\E q \in (trimmed + 1)..pos : Breaks(text[q])) <=> (\E q \in (trimmed + 1)..c : Breaks(t[q]))
    <3>1. filler = <<"nl">>
      BY <2>10
    <3>2. Len(filler) = 1 /\ filler[1] = "nl"
      BY <3>1
    <3> HIDE DEF filler, c
    <3>3. trimmed + 1 \in (trimmed + 1)..c
      BY <1>5, <2>0, <3>2
    <3>4. t[trimmed + 1] = "nl"
      BY <2>5, <3>2, <3>3
    <3>5. Breaks(t[trimmed + 1])
      BY <1>9, <3>4
    <3> QED BY <2>9, <2>10, <3>3, <3>5
  <2>11. ASSUME ~Breaks(text[pos])
         PROVE  (\E q \in (trimmed + 1)..pos : Breaks(text[q])) <=> (\E q \in (trimmed + 1)..c : Breaks(t[q]))
    <3>1. filler \in {<<>>, <<"sp">>}
      BY <2>11
    <3>2. Len(filler) = 1 => filler[1] = "sp"
      <4>1. Len(<<>>) = 0 /\ <<"sp">>[1] = "sp"
        OBVIOUS
      <4> HIDE DEF filler
      <4>2. CASE filler = <<>>
        BY <4>1, <4>2
      <4>3. CASE filler = <<"sp">>
        BY <4>1, <4>3
      <4> QED BY <3>1, <4>2, <4>3
    <3> HIDE DEF filler, c
    <3>3. ASSUME NEW q \in (trimmed + 1)..c PROVE ~Breaks(t[q])
      <4>1. t[q] = "sp"
        BY <2>5, <3>2
      <4> QED BY <1>9, <4>1
    <3> QED BY <2>9, <2>11, <3>3
  <2>12. ASSUME clearBefore, NEW u \in 1..trimmed, text[u] \in Code
         PROVE  \E q \in (u + 1)..trimmed : Breaks(text[q])
    <3>1. \A q \in (lineStart + 1)..(pos - 1) : text[q] = "sp"
      BY <1>6, <1>8, <2>12
    <3>2. u \in Nat /\ u < pos /\ u \in 1..L
      BY <1>2, <1>5
    <3>3. u <= lineStart
      <4>1. CASE u > lineStart
        <5>1. u \in (lineStart + 1)..(pos - 1)
          BY <1>2, <1>3, <3>2, <4>1
        <5> QED BY <1>10, <2>12, <3>1, <3>2, <5>1
      <4> QED BY <1>3, <3>2, <4>1
    <3>4. text[lineStart] = "nl" /\ "nl" \notin Code
      BY <1>3, <1>8, <1>9, <2>12, <3>2, <3>3
    <3>5. u # lineStart
      BY <2>12, <3>4
    <3>6. lineStart \in (u + 1)..trimmed
      BY <1>3, <1>5, <3>2, <3>3, <3>5
    <3> QED BY <1>9, <3>4, <3>6
  <2>13. ASSUME clearAfter, NEW p \in (pos + 1)..L, text[p] \in Code
         PROVE  \E q \in (pos + 1)..(p - 1) : Breaks(text[q])
    <3>1. \A q \in (pos + 1)..(lineEnd - 1) : text[q] = "sp"
      BY <1>7, <1>8, <2>13
    <3>2. p \in Nat /\ pos < p /\ p <= L /\ p \in 1..L
      BY <1>2
    <3>3. lineEnd <= p
      <4>1. CASE p < lineEnd
        <5>1. p \in (pos + 1)..(lineEnd - 1)
          BY <1>2, <1>4, <3>2, <4>1
        <5> QED BY <1>10, <2>13, <3>1, <3>2, <5>1
      <4> QED BY <1>4, <3>2, <4>1
    <3>4. text[lineEnd] = "nl" /\ "nl" \notin Code
      BY <1>2, <1>4, <1>8, <1>9, <2>13, <3>2, <3>3
    <3>5. p # lineEnd
      BY <2>13, <3>4
    <3>6. lineEnd \in (pos + 1)..(p - 1)
      BY <1>2, <1>4, <3>2, <3>3, <3>5
    <3> QED BY <1>9, <3>4, <3>6
  <2> DEFINE Alike == (\E q \in (trimmed + 1)..pos : Breaks(text[q])) <=> (\E q \in (trimmed + 1)..c : Breaks(t[q]))
             Apart == \A u \in 1..trimmed, p \in (pos + 1)..L : text[u] \in Code /\ text[p] \in Code =>
                        \/ \E q \in (u + 1)..trimmed : Breaks(text[q])
                        \/ \E q \in (pos + 1)..(p - 1) : Breaks(text[q])
  <2>14. Alike \/ Apart
    <3>1. CASE clearBefore
      BY <2>12, <3>1
    <3>2. CASE clearAfter
      BY <2>13, <3>2
    <3> HIDE DEF Alike, Apart
    <3>3. Breaks(text[pos]) /\ ~clearBefore /\ ~clearAfter => Alike
      BY <2>10 DEF Alike
    <3>4. ~Breaks(text[pos]) => Alike
      BY <2>11 DEF Alike
    <3> QED BY <3>1, <3>2, <3>3, <3>4 DEF Apart
  <2> HIDE DEF filler, c, kept, rest
  <2>15. /\ \A q \in (trimmed + 1)..pos : q # pos => text[q] \in {"sp", "nl"}
         /\ \A q \in (trimmed + 1)..c : t[q] \in {"sp", "nl"}
         /\ \A q \in (trimmed + 1)..(pos - 1) : text[q] = "sp"
    BY <1>5, <2>5, <2>6
  <2>16. trimmed < pos /\ pos <= pos /\ c \in Nat
    BY <1>2, <1>5, <2>0, <2>3
  <2>17. trimmed = c /\ 1 <= trimmed /\ pos < L => ~(text[trimmed] = "a" /\ text[pos + 1] = "a")
    BY <2>8
  <2>18. Removal(text, pos, t, trimmed, pos, c)
    BY <2>4, <2>14, <2>15, <2>16, <2>17 DEF Removal, L, Alike, Apart
  <2> QED BY <1>2, <1>5, <2>16, <2>18 DEF t
<1> QED BY <1>11, <1>12

(* table[n] is what is left when the last n places have had their turn.    *)
StripTable(source, m, table) ==
  table = [n \in 0..m |->
             IF n = 0 THEN source
             ELSE LET pos == Len(source) + 1 - n
                  IN  IF source[pos] \in Dropped
                      THEN RemoveComment(table[n - 1], pos)
                      ELSE table[n - 1]]

PassOver(source, n, text) ==
  IF source[Len(source) + 1 - n] \in Dropped THEN RemoveComment(text, Len(source) + 1 - n) ELSE text

LEMMA StripTableIs ==
  ASSUME NEW source, NEW m, NEW g,
         g = [n \in 0..m |-> g[n]],
         \A n \in 0..m : g[n] = IF n = 0 THEN source ELSE PassOver(source, n, g[n - 1])
  PROVE  StripTable(source, m, g)
<1>1. g = [n \in 0..m |-> IF n = 0 THEN source ELSE PassOver(source, n, g[n - 1])]
  OBVIOUS
<1> QED BY <1>1, Zenon DEF StripTable, PassOver

LEMMA StripTableRows ==
  ASSUME NEW source, NEW m, NEW g, StripTable(source, m, g), NEW n \in 0..m
  PROVE  g[n] = IF n = 0 THEN source ELSE PassOver(source, n, g[n - 1])
<1>1. g = [k \in 0..m |-> IF k = 0 THEN source ELSE PassOver(source, k, g[k - 1])]
  BY Zenon DEF StripTable, PassOver
<1> QED BY <1>1, Zenon

LEMMA StripTableExists ==
  ASSUME NEW source, NEW m \in Nat
  PROVE  \E g : StripTable(source, m, g)
<1> DEFINE Bad == {k \in Nat : ~\E g : StripTable(source, k, g)}
<1> SUFFICES ASSUME Bad # {} PROVE FALSE
  OBVIOUS
<1>1. PICK k \in Bad : \A j \in Bad : k <= j
  <2>1. Bad \subseteq Nat /\ Bad # {}
    OBVIOUS
  <2> HIDE DEF Bad
  <2> QED BY <2>1, LeastExists
<1>2. k \in Nat /\ ~\E g : StripTable(source, k, g)
  OBVIOUS
<1>3. CASE k = 0
  <2> DEFINE h == [n \in 0..k |-> source]
  <2>1. h = [n \in 0..k |-> h[n]] /\ \A n \in 0..k : h[n] = source /\ n = 0
    BY <1>3
  <2> HIDE DEF h
  <2>2. \A n \in 0..k : h[n] = IF n = 0 THEN source ELSE PassOver(source, n, h[n - 1])
    BY <2>1
  <2>3. StripTable(source, k, h)
    BY <2>1, <2>2, StripTableIs
  <2> QED BY <1>2, <2>3
<1>4. CASE k > 0
  <2>1. k - 1 \in Nat /\ k - 1 \notin Bad
    BY <1>1, <1>2, <1>4
  <2>2. PICK g : StripTable(source, k - 1, g)
    BY <2>1
  <2> DEFINE h == [n \in 0..k |-> IF n = 0 THEN source ELSE PassOver(source, n, g[n - 1])]
  <2>3. \A n \in 0..(k - 1) : g[n] = IF n = 0 THEN source ELSE PassOver(source, n, g[n - 1])
    BY <2>2, StripTableRows
  <2>4. h = [n \in 0..k |-> h[n]]
        /\ \A n \in 0..k : h[n] = IF n = 0 THEN source ELSE PassOver(source, n, g[n - 1])
    OBVIOUS
  <2> HIDE DEF h
  <2>5. \A n \in 0..(k - 1) : h[n] = g[n]
    BY <1>2, <2>3, <2>4
  <2>6. ASSUME NEW n \in 0..k PROVE h[n] = IF n = 0 THEN source ELSE PassOver(source, n, h[n - 1])
    <3>1. n = 0 \/ n - 1 \in 0..(k - 1)
      BY <1>2
    <3> QED BY <2>4, <2>5, <3>1
  <2>7. StripTable(source, k, h)
    BY <2>4, <2>6, StripTableIs
  <2> QED BY <1>2, <2>7
<1> QED BY <1>2, <1>3, <1>4

StripsOf(source) == CHOOSE g : StripTable(source, Len(source), g)

LEMMA StripCommentsIs ==
  ASSUME NEW source \in Seq(Pieces)
  PROVE  /\ StripComments(source) = StripsOf(source)[Len(source)]
         /\ StripsOf(source)[0] = source
         /\ \A n \in 1..Len(source) : StripsOf(source)[n] = PassOver(source, n, StripsOf(source)[n - 1])
<1>1. StripComments(source) = StripsOf(source)[Len(source)]
  BY Zenon DEF StripComments, StripsOf, StripTable
<1>2. Len(source) \in Nat
  OBVIOUS
<1>3. StripTable(source, Len(source), StripsOf(source))
  BY <1>2, StripTableExists, Zenon DEF StripsOf
<1> DEFINE g == StripsOf(source)
<1>4. \A n \in 0..Len(source) : g[n] = IF n = 0 THEN source ELSE PassOver(source, n, g[n - 1])
  BY <1>3, StripTableRows
<1> HIDE DEF g
<1>5. g[0] = source
  BY <1>2, <1>4
<1>6. ASSUME NEW n \in 1..Len(source) PROVE g[n] = PassOver(source, n, g[n - 1])
  <2>1. n \in 0..Len(source) /\ n # 0
    BY <1>2
  <2> QED BY <1>4, <2>1
<1> QED BY <1>1, <1>5, <1>6 DEF g

Kinds(text) == PlacesOf(text, {"k", "K"})

LEMMA RemovedKeeps ==
  ASSUME NEW text \in Seq(Pieces), NEW pos \in 1..Len(text), text[pos] \in Dropped,
         NEW t, NEW a, NEW b, NEW c, Removal(text, pos, t, a, b, c)
  PROVE  SameProgram(text, t) /\ Licences(t) = Licences(text)
<1>1. /\ Replaces(text, t, a, b, c) /\ a < b /\ a \in Nat /\ b \in Nat /\ c \in Nat
      /\ \A q \in (a + 1)..b : text[q] \in Dropped \union {"sp", "nl"}
      /\ \A q \in (a + 1)..c : t[q] \in {"sp", "nl"}
  <2>1. Replaces(text, t, a, b, c) /\ a < pos /\ pos <= b
    BY DEF Removal
  <2>2. a \in Nat /\ b \in Nat /\ c \in Nat
    BY <2>1 DEF Replaces
  <2>3. \A q \in (a + 1)..b : q # pos => text[q] \in {"sp", "nl"}
    BY DEF Removal
  <2>4. \A q \in (a + 1)..c : t[q] \in {"sp", "nl"}
    BY DEF Removal
  <2> QED BY <2>1, <2>2, <2>3, <2>4
<1>2. /\ \A x \in Dropped \union {"sp", "nl"} : x \notin Code /\ x \notin {"k", "K"}
      /\ \A x \in {"sp", "nl"} : x \notin Code /\ x \notin {"k", "K"}
  BY DEF Dropped, Code
<1>3. /\ \A q \in (a + 1)..b : text[q] \notin Code
      /\ \A q \in (a + 1)..c : t[q] \notin Code
      /\ \A q \in (a + 1)..b : text[q] \notin {"k", "K"}
      /\ \A q \in (a + 1)..c : t[q] \notin {"k", "K"}
  BY <1>1, <1>2
<1>4. SameProgram(text, t)
  <2>1. a = c /\ 1 <= a /\ b < Len(text) => ~(text[a] = "a" /\ text[b + 1] = "a")
    BY DEF Removal
  <2>2. \/ (\E q \in (a + 1)..b : Breaks(text[q])) <=> (\E q \in (a + 1)..c : Breaks(t[q]))
        \/ \A u \in 1..a, p \in (b + 1)..Len(text) : text[u] \in Code /\ text[p] \in Code =>
             \/ \E q \in (u + 1)..a : Breaks(text[q])
             \/ \E q \in (b + 1)..(p - 1) : Breaks(text[q])
    BY DEF Removal
  <2>3. /\ \A q \in (a + 1)..b : text[q] \notin Code
        /\ \A q \in (a + 1)..c : t[q] \notin Code
    BY <1>3
  <2> QED BY <1>1, <2>1, <2>2, <2>3, ReplacedProgram
<1>5. /\ Cardinality(Kinds(text)) \in Nat
      /\ Kinds(text) \subseteq Int /\ IsFiniteSet(Kinds(text))
      /\ \A p \in Kinds(text) : t[Moved(a, b, c, p)] = text[p]
      /\ InOrder(Kinds(t)) = [n \in 1..Cardinality(Kinds(text)) |-> Moved(a, b, c, InOrder(Kinds(text))[n])]
  <2>1. /\ \A q \in (a + 1)..b : text[q] \notin {"k", "K"}
        /\ \A q \in (a + 1)..c : t[q] \notin {"k", "K"}
    BY <1>3
  <2>2. /\ PlacesOf(text, {"k", "K"}) \subseteq Int /\ IsFiniteSet(PlacesOf(text, {"k", "K"}))
        /\ Cardinality(PlacesOf(text, {"k", "K"})) \in Nat
        /\ \A p \in PlacesOf(text, {"k", "K"}) : (p <= a \/ b < p) /\ t[Moved(a, b, c, p)] = text[p]
        /\ InOrder(PlacesOf(t, {"k", "K"})) =
             [n \in 1..Cardinality(PlacesOf(text, {"k", "K"})) |->
                Moved(a, b, c, InOrder(PlacesOf(text, {"k", "K"}))[n])]
    BY <1>1, <2>1, ReplacedPlaces
  <2> QED BY <2>2 DEF Kinds
<1> DEFINE C == Cardinality(Kinds(text))
           f == InOrder(Kinds(text))
           g == InOrder(Kinds(t))
<1>6. DOMAIN f = 1..C /\ \A n \in 1..C : f[n] \in Kinds(text)
  <2>1. /\ f = [n \in 1..C |-> f[n]]
        /\ \A n \in 1..C : f[n] \in Kinds(text)
    BY <1>5, InOrderIs
  <2> HIDE DEF f, C
  <2> QED BY <2>1
<1>7. Licences(text) = [n \in DOMAIN f |-> text[f[n]]] /\ Licences(t) = [n \in DOMAIN g |-> t[g[n]]]
  BY Zenon DEF Licences, Picked, Kinds, PlacesOf
<1>8. DOMAIN g = 1..C /\ \A n \in 1..C : g[n] = Moved(a, b, c, f[n])
  BY <1>5
<1> HIDE DEF f, g, C
<1>9. \A n \in 1..C : t[g[n]] = text[f[n]]
  BY <1>5, <1>6, <1>8
<1> QED BY <1>4, <1>6, <1>7, <1>8, <1>9

(* When n places from the end have had their turn: before them the text is *)
(* the source, but for blanks that went with a comment.                    *)
Stripped(source, n, text) ==
  /\ text \in Seq(Pieces)
  /\ \E k \in 0..(Len(source) - n) :
       /\ k <= Len(text)
       /\ \A q \in 1..k : text[q] = source[q]
       /\ \A q \in (k + 1)..(Len(source) - n) : source[q] = "sp"
       /\ \A q \in (k + 1)..Len(text) : text[q] \notin Dropped
  /\ SameProgram(source, text)
  /\ Licences(text) = Licences(source)

LEMMA PassedOver ==
  ASSUME NEW source \in Seq(Pieces), NEW n \in 1..Len(source), NEW text, Stripped(source, n - 1, text)
  PROVE  Stripped(source, n, PassOver(source, n, text))
<1> DEFINE L == Len(source)
           pos == L + 1 - n
<1>0. L \in Nat /\ n \in Nat /\ 1 <= n /\ n <= L /\ pos \in Nat /\ 1 <= pos /\ pos <= L
      /\ L - (n - 1) = pos /\ L - n = pos - 1
  OBVIOUS
<1>1. PICK k \in 0..pos :
        /\ k <= Len(text)
        /\ \A q \in 1..k : text[q] = source[q]
        /\ \A q \in (k + 1)..pos : source[q] = "sp"
        /\ \A q \in (k + 1)..Len(text) : text[q] \notin Dropped
  <2>1. \E k \in 0..(L - (n - 1)) :
          /\ k <= Len(text)
          /\ \A q \in 1..k : text[q] = source[q]
          /\ \A q \in (k + 1)..(L - (n - 1)) : source[q] = "sp"
          /\ \A q \in (k + 1)..Len(text) : text[q] \notin Dropped
    BY DEF Stripped
  <2> HIDE DEF L, pos
  <2> QED BY <1>0, <2>1
<1>2. text \in Seq(Pieces) /\ Len(text) \in Nat /\ SameProgram(source, text) /\ Licences(text) = Licences(source)
  BY DEF Stripped
<1>3. CASE source[pos] \in Dropped
  <2>0. "sp" \notin Dropped
    BY DEF Dropped
  <2>1. k = pos
    <3>1. CASE k < pos
      <4>1. pos \in (k + 1)..pos
        BY <1>0, <3>1
      <4> QED BY <1>1, <1>3, <2>0, <4>1
    <3> QED BY <1>0, <3>1
  <2>2. pos \in 1..Len(text) /\ pos \in 1..k /\ text[pos] = source[pos]
    BY <1>0, <1>1, <2>1
  <2> DEFINE t == RemoveComment(text, pos)
  <2>3. PassOver(source, n, text) = t
    BY <1>3 DEF PassOver
  <2> HIDE DEF pos, L
  <2>4. PICK a \in Nat, b \in Nat, c \in Nat : Removal(text, pos, t, a, b, c)
    BY <1>2, <1>3, <2>2, Removed
  <2> HIDE DEF t
  <2>5. SameProgram(text, t) /\ Licences(t) = Licences(text)
    BY <1>2, <1>3, <2>2, <2>4, RemovedKeeps
  <2>6. /\ t \in Seq(Pieces) /\ Len(t) \in Nat /\ a <= c /\ c <= Len(t)
        /\ b <= Len(text) /\ Len(text) - b = Len(t) - c
        /\ \A q \in 1..a : text[q] = t[q]
        /\ \A v \in 1..(Len(text) - b) : text[b + v] = t[c + v]
        /\ a < pos /\ pos <= b
    <3>1. Replaces(text, t, a, b, c) /\ a < pos /\ pos <= b
      BY <2>4 DEF Removal
    <3>2. t \in Seq(Pieces) => Len(t) \in Nat
      OBVIOUS
    <3> QED BY <3>1, <3>2 DEF Replaces
  <2>7. /\ \A q \in (a + 1)..(pos - 1) : text[q] = "sp"
        /\ \A q \in (a + 1)..c : t[q] \in {"sp", "nl"}
    BY <2>4 DEF Removal
  <2>8. a \in 0..(pos - 1)
    BY <1>0, <2>6
  <2>9. ASSUME NEW q \in 1..a PROVE t[q] = source[q]
    <3>1. q \in 1..k
      BY <1>0, <2>1, <2>6
    <3> QED BY <1>1, <2>6, <3>1
  <2>10. ASSUME NEW q \in (a + 1)..(pos - 1) PROVE source[q] = "sp"
    <3>1. q \in 1..k
      BY <1>0, <2>1, <2>6
    <3> QED BY <1>1, <2>7, <3>1
  <2>11. ASSUME NEW q \in (a + 1)..Len(t) PROVE t[q] \notin Dropped
    <3>1. CASE q <= c
      <4>1. q \in (a + 1)..c
        BY <2>6, <3>1
      <4>2. "sp" \notin Dropped /\ "nl" \notin Dropped
        BY DEF Dropped
      <4> QED BY <2>7, <4>1, <4>2
    <3>2. CASE q > c
      <4>1. PICK v \in 1..(Len(t) - c) : q = c + v
        <5>1. q - c \in 1..(Len(t) - c) /\ q = c + (q - c)
          BY <2>6, <3>2
        <5> QED BY <5>1
      <4>2. t[q] = text[b + v] /\ b + v \in (k + 1)..Len(text)
        BY <1>0, <1>2, <2>1, <2>6, <4>1
      <4> QED BY <1>1, <4>2
    <3> QED BY <2>6, <3>1, <3>2
  <2>12. SameProgram(source, t) /\ Licences(t) = Licences(source)
    BY <1>2, <2>5 DEF SameProgram
  <2>13. Stripped(source, n, t)
    <3>1. a <= Len(t)
      BY <2>6
    <3>2. \E j \in 0..(pos - 1) :
            /\ j <= Len(t)
            /\ \A q \in 1..j : t[q] = source[q]
            /\ \A q \in (j + 1)..(pos - 1) : source[q] = "sp"
            /\ \A q \in (j + 1)..Len(t) : t[q] \notin Dropped
      BY <2>8, <2>9, <2>10, <2>11, <3>1
    <3>3. Len(source) - n = pos - 1
      BY <1>0 DEF L
    <3> QED BY <2>6, <2>12, <3>2, <3>3 DEF Stripped
  <2> QED BY <2>3, <2>13
<1>4. CASE source[pos] \notin Dropped
  <2>1. PassOver(source, n, text) = text
    BY <1>4 DEF PassOver
  <2> DEFINE j == IF k = pos THEN pos - 1 ELSE k
  <2>2. j \in 0..(pos - 1) /\ j <= k /\ (j # k => j + 1 = k /\ k = pos)
    BY <1>0
  <2> HIDE DEF j, pos, L
  <2>3. \A q \in 1..j : text[q] = source[q]
    BY <1>1, <2>2
  <2>4. \A q \in (j + 1)..(pos - 1) : source[q] = "sp"
    BY <1>0, <1>1, <2>2
  <2>5. ASSUME NEW q \in (j + 1)..Len(text) PROVE text[q] \notin Dropped
    <3>1. q \in (k + 1)..Len(text) \/ (q = pos /\ k = pos)
      BY <1>0, <1>2, <2>2
    <3>2. k = pos => text[pos] = source[pos]
      BY <1>0, <1>1
    <3> QED BY <1>1, <1>4, <3>1, <3>2
  <2>6. j <= Len(text)
    BY <1>0, <1>1, <1>2, <2>2
  <2>7. Len(source) - n = pos - 1
    BY <1>0 DEF L
  <2>8. Stripped(source, n, text)
    BY <1>2, <2>2, <2>3, <2>4, <2>5, <2>6, <2>7 DEF Stripped
  <2> QED BY <2>1, <2>8
<1> QED BY <1>3, <1>4

LEMMA AllPassedOver ==
  ASSUME NEW source \in Seq(Pieces), NEW n \in 0..Len(source)
  PROVE  Stripped(source, n, StripsOf(source)[n])
<1> DEFINE g == StripsOf(source)
           Bad == {k \in 0..Len(source) : ~Stripped(source, k, g[k])}
<1>0. Len(source) \in Nat
  OBVIOUS
<1>1. g[0] = source /\ \A k \in 1..Len(source) : g[k] = PassOver(source, k, g[k - 1])
  BY StripCommentsIs
<1> HIDE DEF g
<1> SUFFICES ASSUME Bad # {} PROVE FALSE
  BY DEF g
<1>2. PICK k \in Bad : \A j \in Bad : k <= j
  <2>1. Bad \subseteq Nat /\ Bad # {}
    OBVIOUS
  <2> HIDE DEF Bad
  <2> QED BY <2>1, LeastExists
<1>3. k \in 0..Len(source) /\ ~Stripped(source, k, g[k])
  OBVIOUS
<1>4. CASE k = 0
  <2>1. Len(source) - 0 \in 0..(Len(source) - 0) /\ Len(source) - 0 = Len(source)
    BY <1>0
  <2>2. \A q \in (Len(source) + 1)..Len(source) : FALSE
    BY <1>0
  <2>3. Stripped(source, 0, source)
    BY <1>0, <2>1, <2>2 DEF Stripped, SameProgram
  <2> QED BY <1>1, <1>3, <1>4, <2>3
<1>5. CASE k > 0
  <2>1. k \in 1..Len(source) /\ k - 1 \in 0..Len(source) /\ ~(k <= k - 1)
    BY <1>0, <1>3, <1>5
  <2>2. Stripped(source, k - 1, g[k - 1])
    BY <1>2, <2>1
  <2> HIDE DEF Bad
  <2>3. Stripped(source, k, PassOver(source, k, g[k - 1]))
    BY <2>1, <2>2, PassedOver
  <2> QED BY <1>1, <1>3, <2>1, <2>3
<1> QED BY <1>0, <1>3, <1>4, <1>5

LEMMA NothingDropped ==
  ASSUME NEW source \in Seq(Pieces), \A q \in 1..Len(source) : source[q] \notin Dropped
  PROVE  StripComments(source) = source
<1> DEFINE g == StripsOf(source)
           Bad == {k \in 0..Len(source) : g[k] # source}
<1>0. Len(source) \in Nat
  OBVIOUS
<1>1. g[0] = source /\ \A k \in 1..Len(source) : g[k] = PassOver(source, k, g[k - 1])
  BY StripCommentsIs
<1>2. StripComments(source) = g[Len(source)]
  BY StripCommentsIs
<1> HIDE DEF g
<1> SUFFICES ASSUME Bad # {} PROVE FALSE
  BY <1>0, <1>2
<1>3. PICK k \in Bad : \A j \in Bad : k <= j
  <2>1. Bad \subseteq Nat /\ Bad # {}
    OBVIOUS
  <2> HIDE DEF Bad
  <2> QED BY <2>1, LeastExists
<1>4. k \in 0..Len(source) /\ g[k] # source
  OBVIOUS
<1>5. k \in 1..Len(source) /\ k - 1 \in 0..Len(source) /\ ~(k <= k - 1) /\ Len(source) + 1 - k \in 1..Len(source)
  <2>1. k # 0
    BY <1>1, <1>4
  <2> QED BY <1>0, <1>4, <2>1
<1>6. g[k - 1] = source
  BY <1>3, <1>5
<1>7. g[k] = g[k - 1]
  BY <1>1, <1>5 DEF PassOver
<1> QED BY <1>4, <1>6, <1>7

(* The strip of any bundle is safe: it is the same program with the same   *)
(* licences, no comment is left, and another strip changes nothing.        *)
LEMMA StripSafe ==
  ASSUME BundlesInv
  PROVE  StripIsSafe
<1>1. ASSUME NEW source \in Seq(Pieces)
      PROVE  /\ SameProgram(source, StripComments(source))
             /\ ToSet(StripComments(source)) \intersect Dropped = {}
             /\ StripComments(StripComments(source)) = StripComments(source)
             /\ Licences(StripComments(source)) = Licences(source)
  <2> DEFINE once == StripComments(source)
  <2>0. Len(source) \in Nat
    OBVIOUS
  <2>1. Stripped(source, Len(source), once)
    BY <2>0, StripCommentsIs, AllPassedOver
  <2> HIDE DEF once
  <2>2. once \in Seq(Pieces) /\ SameProgram(source, once) /\ Licences(once) = Licences(source)
    BY <2>1 DEF Stripped
  <2>3. PICK k \in 0..(Len(source) - Len(source)) : \A q \in (k + 1)..Len(once) : once[q] \notin Dropped
    BY <2>1 DEF Stripped
  <2>4. \A q \in 1..Len(once) : once[q] \notin Dropped
    <3>1. k = 0
      BY <2>0
    <3> QED BY <2>3, <3>1
  <2>5. ToSet(once) \intersect Dropped = {}
    <3>1. DOMAIN once = 1..Len(once)
      BY <2>2
    <3> QED BY <2>4, <3>1 DEF ToSet
  <2>6. StripComments(once) = once
    BY <2>2, <2>4, NothingDropped
  <2> QED BY <2>2, <2>5, <2>6 DEF once
<1>2. \A p \in DOMAIN built : built[p] \in Seq(Pieces)
  <2>1. CASE built = <<>>
    BY <2>1
  <2>2. CASE built \in Builds
    BY <2>2, BuildsAssumption
  <2> QED BY <2>1, <2>2 DEF BundlesInv
<1> QED BY <1>1, <1>2, Zenon DEF StripIsSafe

-----------------------------------------------------------------------------
(* check-api-surface: the verdict.                                         *)

(* What the comparison with a version finds.                               *)
Found(previous) ==
  [previous |-> previous, differences |-> CompareDist(release.dists[previous], release.dist),
   bump |-> ClassifyBump(previous, release.version)]

Unchanged(previous) == DOMAIN CompareDist(release.dists[previous], release.dist) = {}

ApiInv ==
  /\ script # "check-api-surface" => ApiIdle
  /\ script = "check-api-surface" =>
       /\ release \in Releases
       /\ answer = <<>> \/ (~Unparsable /\ \E previous \in ResolvePrevious : answer = Found(previous))
       /\ exit = "0" =>
            /\ ~Unparsable
            /\ \/ ResolvePrevious = {}
               \/ \E previous \in ResolvePrevious : Unchanged(previous) \/ NoteFound

LEMMA ApiStep ==
  ASSUME ApiInv, ApiNext
  PROVE  ApiInv'
<1>1. /\ script = "check-api-surface" /\ script' = script /\ exit = "running"
      /\ release' = release /\ release \in Releases
  BY DEF ApiInv, ApiNext, Unresolved, Compare, Runs, apiVars
<1>2. /\ Unparsable' = Unparsable /\ ResolvePrevious' = ResolvePrevious /\ NoteFound' = NoteFound
  BY <1>1 DEF Unparsable, ResolvePrevious, NoteFound, ChangelogSection
<1>3. \A previous : Found(previous)' = Found(previous) /\ Unchanged(previous)' = Unchanged(previous)
  BY <1>1 DEF Found, Unchanged
<1>4. CASE Unresolved
  <2>1. answer' = answer /\ exit' = "1"
    BY <1>4 DEF Unresolved, apiVars, Ends
  <2> QED BY <1>1, <1>2, <1>3, <2>1 DEF ApiInv
<1>5. CASE Compare
  <2>1. CASE Unparsable
    <3>1. answer' = answer /\ exit' = "1"
      BY <1>5, <2>1 DEF Compare, Ends
    <3> QED BY <1>1, <1>2, <1>3, <3>1 DEF ApiInv
  <2>2. CASE ~Unparsable /\ ResolvePrevious = {}
    <3>1. answer' = answer
      BY <1>5, <2>2 DEF Compare
    <3> QED BY <1>1, <1>2, <1>3, <2>2, <3>1 DEF ApiInv
  <2>3. CASE ~Unparsable /\ ResolvePrevious # {}
    <3>1. PICK previous \in ResolvePrevious :
            /\ answer' = Found(previous)
            /\ exit' = IF Unchanged(previous) \/ NoteFound THEN "0" ELSE "1"
      BY <1>5, <2>3 DEF Compare, Found, Unchanged, Ends
    <3>2. exit' = "0" => Unchanged(previous) \/ NoteFound
      BY <3>1
    <3> QED BY <1>1, <1>2, <1>3, <2>3, <3>1, <3>2 DEF ApiInv
  <2> QED BY <2>1, <2>2, <2>3
<1> QED BY <1>4, <1>5 DEF ApiNext

LEMMA ApiRest ==
  ASSUME ApiInv, UNCHANGED <<script, apiVars>>,
         script # "check-api-surface" \/ UNCHANGED exit
  PROVE  ApiInv'
<1>1. release' = release /\ answer' = answer /\ script' = script
  BY DEF apiVars
<1>2. /\ Unparsable' = Unparsable /\ ResolvePrevious' = ResolvePrevious /\ NoteFound' = NoteFound
  BY <1>1 DEF Unparsable, ResolvePrevious, NoteFound, ChangelogSection
<1>3. \A previous : Found(previous)' = Found(previous) /\ Unchanged(previous)' = Unchanged(previous)
  BY <1>1 DEF Found, Unchanged
<1>4. CASE script # "check-api-surface"
  BY <1>1, <1>4 DEF ApiInv, ApiIdle
<1>5. CASE script = "check-api-surface" /\ exit' = exit
  BY <1>1, <1>2, <1>3, <1>5 DEF ApiInv
<1> QED BY <1>4, <1>5

LEMMA BelowOrder ==
  ASSUME NEW v \in Nat \X Nat \X Nat, NEW w \in Nat \X Nat \X Nat
  PROVE  (v = w \/ Below(v, w) \/ Below(w, v)) /\ ~(Below(v, w) /\ (Below(w, v) \/ v = w))
<1>1. PICK a \in Nat, b \in Nat, c \in Nat : v = <<a, b, c>>
  OBVIOUS
<1>2. PICK x \in Nat, y \in Nat, z \in Nat : w = <<x, y, z>>
  OBVIOUS
<1>3. Below(v, w) <=> a < x \/ (a = x /\ b < y) \/ (a = x /\ b = y /\ c < z)
  BY <1>1, <1>2 DEF Below
<1>4. Below(w, v) <=> x < a \/ (x = a /\ y < b) \/ (x = a /\ y = b /\ z < c)
  BY <1>1, <1>2 DEF Below
<1>5. v = w <=> a = x /\ b = y /\ c = z
  BY <1>1, <1>2
<1> QED BY <1>3, <1>4, <1>5

(* A version with none between it and this one is the one compared with.   *)
LEMMA PreviousIs ==
  ASSUME release \in Releases, release.against = {}, Stable(release.version),
         NEW v \in Earlier(release.published, release.version),
         ~\E w \in Earlier(release.published, release.version) : Below(v, w)
  PROVE  ResolvePrevious = {v}
<1> DEFINE E == Earlier(release.published, release.version)
           p == PreviousVersion(release.published, release.version)
<1>1. \A w \in E : w \in Nat \X Nat \X Nat
  BY ReleasesAssumption DEF Earlier, Stable
<1>2. \A w \in E : w = v \/ Below(w, v)
  BY <1>1, BelowOrder
<1>3. p \in E /\ \A w \in E : w = p \/ Below(w, p)
  BY <1>2 DEF PreviousVersion
<1>4. p = v
  <2>1. v = p \/ Below(v, p)
    BY <1>3
  <2> QED BY <1>3, <2>1
<1>5. ResolvePrevious = {w \in E : w = p}
  BY DEF ResolvePrevious
<1> HIDE DEF E, p
<1> QED BY <1>3, <1>4, <1>5

LEMMA UnchangedIs ==
  ASSUME NEW previous, Unchanged(previous)
  PROVE  SameTypes(release.dists[previous], release.dist)
<1> DEFINE f == release.dists[previous]
           g == release.dist
<1>1. \A n \in DOMAIN f \union DOMAIN g :
        ~(n \in DOMAIN f \intersect DOMAIN g => NormalizeDeclarations(f[n]) # NormalizeDeclarations(g[n]))
  <2>1. {n \in DOMAIN f \union DOMAIN g :
           n \in DOMAIN f \intersect DOMAIN g => NormalizeDeclarations(f[n]) # NormalizeDeclarations(g[n])} = {}
    BY DEF Unchanged, CompareDist
  <2> HIDE DEF f, g
  <2> QED BY <2>1
<1> HIDE DEF f, g
<1>2. DOMAIN f = DOMAIN g /\ \A n \in DOMAIN f : NormalizeDeclarations(f[n]) = NormalizeDeclarations(g[n])
  BY <1>1
<1> QED BY <1>2 DEF SameTypes, f, g

LEMMA ApiSafe ==
  ASSUME ApiInv
  PROVE  ChangesAreNoted
<1> SUFFICES ASSUME script = "check-api-surface", exit = "0", release.against = {}, ~NoteFound,
                    NEW v \in {w \in release.published : Stable(w) /\ Below(w, release.version)},
                    ~\E w \in release.published : Stable(w) /\ Below(v, w) /\ Below(w, release.version)
             PROVE  SameTypes(release.dists[v], release.dist)
  BY DEF ChangesAreNoted
<1>1. /\ release \in Releases /\ ~Unparsable
      /\ \/ ResolvePrevious = {}
         \/ \E previous \in ResolvePrevious : Unchanged(previous)
  BY DEF ApiInv
<1>2. Stable(release.version)
  BY <1>1 DEF Unparsable
<1>3. v \in Earlier(release.published, release.version)
  BY <1>2 DEF Earlier
<1>4. ~\E w \in Earlier(release.published, release.version) : Below(v, w)
  BY <1>2 DEF Earlier
<1>5. ResolvePrevious = {v}
  BY <1>1, <1>2, <1>3, <1>4, PreviousIs
<1>6. Unchanged(v)
  BY <1>1, <1>5
<1> QED BY <1>6, UnchangedIs

LEMMA PickedIs ==
  ASSUME NEW s, NEW P, P \subseteq Int, IsFiniteSet(P)
  PROVE  /\ Cardinality(P) \in Nat
         /\ DOMAIN Picked(s, P) = 1..Cardinality(P)
         /\ \A n \in 1..Cardinality(P) : InOrder(P)[n] \in P /\ Picked(s, P)[n] = s[InOrder(P)[n]]
<1> DEFINE f == InOrder(P)
           C == Cardinality(P)
<1>1. C \in Nat /\ f = [n \in 1..C |-> f[n]] /\ \A n \in 1..C : f[n] \in P
  BY InOrderIs
<1>2. Picked(s, P) = [n \in DOMAIN f |-> s[f[n]]]
  BY DEF Picked
<1> HIDE DEF f, C
<1>3. DOMAIN f = 1..C
  BY <1>1
<1> QED BY <1>1, <1>2, <1>3 DEF f, C

LEMMA PickedCount ==
  ASSUME NEW P, P \subseteq Int, IsFiniteSet(P), NEW R, R \subseteq P
  PROVE  Cardinality({n \in 1..Cardinality(P) : InOrder(P)[n] \in R}) = Cardinality(R)
<1> DEFINE f == InOrder(P)
           C == Cardinality(P)
           N == {n \in 1..C : f[n] \in R}
           h == [n \in N |-> f[n]]
<1>1. /\ C \in Nat
      /\ \A m, n \in 1..C : m < n => f[m] < f[n]
      /\ \A n \in 1..C : f[n] \in P
      /\ \A p \in P : Rank(P, p) \in 1..C /\ f[Rank(P, p)] = p
  BY InOrderIs
<1> HIDE DEF f, C
<1>2. h \in [N -> R]
  OBVIOUS
<1>3. \A r \in R : \E n \in N : h[n] = r
  <2> TAKE r \in R
  <2>1. Rank(P, r) \in 1..C /\ f[Rank(P, r)] = r
    BY <1>1
  <2>2. Rank(P, r) \in N /\ h[Rank(P, r)] = r
    BY <2>1
  <2> QED BY <2>2
<1>4. ASSUME NEW i \in N, NEW j \in N, h[i] = h[j] PROVE i = j
  <2>1. i \in 1..C /\ j \in 1..C /\ f[i] = f[j] /\ f[i] \in Int
    BY <1>1, <1>4
  <2>2. i \in Int /\ j \in Int /\ ~(f[i] < f[j]) /\ ~(f[j] < f[i])
    BY <1>1, <2>1
  <2>3. ~(i < j) /\ ~(j < i)
    BY <1>1, <2>1, <2>2
  <2> QED BY <2>2, <2>3
<1>5. h \in Bijection(N, R)
  BY <1>2, <1>3, <1>4, Zenon DEF Bijection, Injection, Surjection, IsInjective
<1>6. ExistsBijection(N, R)
  BY <1>5, Zenon DEF ExistsBijection
<1>7. IsFiniteSet(N)
  <2>1. N \subseteq 1..C
    OBVIOUS
  <2> HIDE DEF N
  <2> QED BY <1>1, <2>1, PlacesFinite
<1> HIDE DEF N
<1>8. Cardinality(R) = Cardinality(N)
  BY <1>6, <1>7, FS_Bijection
<1> QED BY <1>8 DEF N, f, C

(* A declaration file as the compiler reads it.                            *)
IsFile(file) ==
  /\ file.statements \in Seq(ToSet(file.statements))
  /\ \A st \in ToSet(file.statements) :
       ~IsLocalNamedExport(st) => st = [name |-> st.name, body |-> st.body]

LEMMA KeptIs ==
  ASSUME NEW file, IsFile(file)
  PROVE  \E n \in Nat : /\ DOMAIN Kept(file) = 1..n
                        /\ \A i \in 1..n : Kept(file)[i] = [name |-> Kept(file)[i].name,
                                                            body |-> Kept(file)[i].body]
<1> DEFINE s == file.statements
           P == {i \in DOMAIN s : ~IsLocalNamedExport(s[i])}
<1>1. /\ s \in Seq(ToSet(s))
      /\ \A st \in ToSet(s) : ~IsLocalNamedExport(st) => st = [name |-> st.name, body |-> st.body]
  BY DEF IsFile
<1>2. Kept(file) = Picked(s, P)
  BY DEF Kept
<1> HIDE DEF s
<1>3. Len(s) \in Nat /\ DOMAIN s = 1..Len(s)
  BY <1>1
<1>4. P \subseteq Int /\ IsFiniteSet(P)
  <2>1. P \subseteq 1..Len(s)
    BY <1>3
  <2> HIDE DEF P
  <2> QED BY <1>3, <2>1, PlacesFinite
<1>5. \A i \in P : s[i] \in ToSet(s) /\ ~IsLocalNamedExport(s[i])
  BY DEF ToSet
<1> HIDE DEF P
<1>6. /\ Cardinality(P) \in Nat
      /\ DOMAIN Picked(s, P) = 1..Cardinality(P)
      /\ \A n \in 1..Cardinality(P) : InOrder(P)[n] \in P /\ Picked(s, P)[n] = s[InOrder(P)[n]]
  BY <1>4, PickedIs
<1>7. \A i \in 1..Cardinality(P) : Kept(file)[i] = [name |-> Kept(file)[i].name, body |-> Kept(file)[i].body]
  BY <1>1, <1>2, <1>5, <1>6
<1> QED BY <1>2, <1>6, <1>7

(* How often a statement occurs, told by the texts of its name.            *)
LEMMA DeclarationCount ==
  ASSUME NEW file, IsFile(file), NEW id, NEW y
  PROVE  /\ id \in DOMAIN DeclarationsByName(file) <=>
              \E i \in DOMAIN Kept(file) : Kept(file)[i].name = id
         /\ id \in DOMAIN DeclarationsByName(file) =>
              Cardinality({i \in DOMAIN Kept(file) : Kept(file)[i] = [name |-> id, body |-> y]}) =
              Cardinality({k \in DOMAIN DeclarationsByName(file)[id] :
                             DeclarationsByName(file)[id][k] = y})
<1> DEFINE x == [name |-> id, body |-> y]
           s == Kept(file)
           P == {i \in DOMAIN s : s[i].name = id}
           R == {i \in DOMAIN s : s[i] = x}
           f == InOrder(P)
           C == Cardinality(P)
           D == DeclarationsByName(file)
<1>1. PICK m \in Nat : DOMAIN s = 1..m /\ \A i \in 1..m : s[i] = [name |-> s[i].name, body |-> s[i].body]
  BY KeptIs
<1>2. DOMAIN D = {st.name : st \in ToSet(s)}
  BY DEF DeclarationsByName
<1>3. id \in DOMAIN D <=> \E i \in DOMAIN s : s[i].name = id
  <2> HIDE DEF D, s
  <2> QED BY <1>2 DEF ToSet
<1>4. ASSUME id \in DOMAIN D
      PROVE  D[id] = [i \in DOMAIN Picked(s, P) |-> Picked(s, P)[i].body]
  <2>1. \A v \in DOMAIN D :
          D[v] = [i \in DOMAIN Picked(s, {j \in DOMAIN s : s[j].name = v}) |->
                    Picked(s, {j \in DOMAIN s : s[j].name = v})[i].body]
    BY Zenon DEF DeclarationsByName
  <2> HIDE DEF D, s
  <2> QED BY <1>4, <2>1, Zenon
<1> HIDE DEF D, s
<1>5. P \subseteq Int /\ IsFiniteSet(P)
  <2>1. P \subseteq 1..m
    BY <1>1
  <2> HIDE DEF P
  <2> QED BY <2>1, PlacesFinite
<1>6. R \subseteq P
  OBVIOUS
<1>7. \A i \in P : s[i] = x <=> s[i].body = y
  BY <1>1
<1>8. \A i \in P : i \in R <=> s[i] = x
  OBVIOUS
<1> HIDE DEF P, R
<1>9. /\ C \in Nat /\ DOMAIN Picked(s, P) = 1..C
      /\ \A k \in 1..C : f[k] \in P /\ Picked(s, P)[k] = s[f[k]]
  <2> HIDE DEF f, C, x
  <2>1. P \subseteq Int /\ IsFiniteSet(P)
    BY <1>5
  <2>2. /\ Cardinality(P) \in Nat /\ DOMAIN Picked(s, P) = 1..Cardinality(P)
        /\ \A k \in 1..Cardinality(P) : InOrder(P)[k] \in P
    BY <2>1, PickedIs
  <2>3. /\ DOMAIN InOrder(P) = 1..Cardinality(P)
        /\ Picked(s, P) = [n \in DOMAIN InOrder(P) |-> s[InOrder(P)[n]]]
    <3>1. InOrder(P) = [k \in 1..Cardinality(P) |-> InOrder(P)[k]]
      BY <2>1, InOrderIs
    <3> QED BY <3>1 DEF Picked
  <2>4. \A k \in 1..Cardinality(P) : Picked(s, P)[k] = s[InOrder(P)[k]]
    BY <2>3
  <2> QED BY <2>2, <2>4 DEF f, C
<1>10. Cardinality({k \in 1..C : f[k] \in R}) = Cardinality(R)
  BY <1>5, <1>6, PickedCount
<1> HIDE DEF f, C
<1>11. ASSUME id \in DOMAIN D
       PROVE  {k \in DOMAIN D[id] : D[id][k] = y} = {k \in 1..C : f[k] \in R}
  <2>1. DOMAIN D[id] = 1..C /\ \A k \in 1..C : D[id][k] = s[f[k]].body
    BY <1>4, <1>9, <1>11
  <2>2. \A k \in 1..C : D[id][k] = y <=> f[k] \in R
    BY <1>7, <1>8, <1>9, <2>1
  <2> QED BY <2>1, <2>2
<1>12. id \in DOMAIN D =>
         Cardinality(R) = Cardinality({k \in DOMAIN D[id] : D[id][k] = y})
  BY <1>10, <1>11
<1> QED BY <1>3, <1>12 DEF R, D, s

LEMMA UnnamedIsOrder ==
  ASSUME NEW before, IsFile(before), NEW after, IsFile(after), ChangedNames(before, after) = {}
  PROVE  IsPermutation(Kept(before), Kept(after))
<1> DEFINE D == DeclarationsByName(before)
           E == DeclarationsByName(after)
<1>1. \A n \in DOMAIN D \union DOMAIN E : n \in DOMAIN D /\ n \in DOMAIN E /\ D[n] = E[n]
  <2>1. {<<"", n>> : n \in Differing(D, E)} = {}
    BY Zenon DEF ChangedNames
  <2>2. Differing(D, E) = {}
    <3> HIDE DEF D, E
    <3> QED BY <2>1
  <2> HIDE DEF D, E
  <2> QED BY <2>2 DEF Differing
<1>2. ASSUME NEW x \in ToSet(Kept(before)) \union ToSet(Kept(after))
      PROVE  Cardinality({i \in DOMAIN Kept(before) : Kept(before)[i] = x}) =
             Cardinality({i \in DOMAIN Kept(after) : Kept(after)[i] = x})
  <2>1. \/ \E i \in DOMAIN Kept(before) : Kept(before)[i] = x
        \/ \E i \in DOMAIN Kept(after) : Kept(after)[i] = x
    BY DEF ToSet
  <2>2. PICK n, y : x = [name |-> n, body |-> y]
    <3>1. CASE \E i \in DOMAIN Kept(before) : Kept(before)[i] = x
      BY <3>1, KeptIs
    <3>2. CASE \E i \in DOMAIN Kept(after) : Kept(after)[i] = x
      BY <3>2, KeptIs
    <3> QED BY <2>1, <3>1, <3>2
  <2>3. /\ n \in DOMAIN D <=> \E i \in DOMAIN Kept(before) : Kept(before)[i].name = n
        /\ n \in DOMAIN D =>
             Cardinality({i \in DOMAIN Kept(before) : Kept(before)[i] = [name |-> n, body |-> y]}) =
             Cardinality({k \in DOMAIN D[n] : D[n][k] = y})
    BY DeclarationCount
  <2>4. /\ n \in DOMAIN E <=> \E i \in DOMAIN Kept(after) : Kept(after)[i].name = n
        /\ n \in DOMAIN E =>
             Cardinality({i \in DOMAIN Kept(after) : Kept(after)[i] = [name |-> n, body |-> y]}) =
             Cardinality({k \in DOMAIN E[n] : E[n][k] = y})
    BY DeclarationCount
  <2> HIDE DEF D, E
  <2>5. n \in DOMAIN D \union DOMAIN E
    BY <2>1, <2>2, <2>3, <2>4
  <2>6. n \in DOMAIN D /\ n \in DOMAIN E /\ D[n] = E[n]
    BY <1>1, <2>5
  <2> QED BY <2>2, <2>3, <2>4, <2>6
<1> QED BY <1>2, Zenon DEF IsPermutation

-----------------------------------------------------------------------------
(* check-api-surface: the line diff.                                       *)

(* The places of the tables of LineDiff, the last m diagonals of them.     *)
Diagonals(a, b, m) ==
  {p \in (1..(Len(a) + 1)) \X (1..(Len(b) + 1)) : p[1] + p[2] + m > Len(a) + Len(b) + 2}

Common(a, b, p, t) ==
  IF p[1] > Len(a) \/ p[2] > Len(b) THEN 0
  ELSE IF a[p[1]] = b[p[2]] THEN t[<<p[1] + 1, p[2] + 1>>] + 1
  ELSE Max({t[<<p[1] + 1, p[2]>>], t[<<p[1], p[2] + 1>>]})

Marked(a, b, lcs, p, t) ==
  IF p[1] > Len(a) /\ p[2] > Len(b) THEN <<>>
  ELSE IF p[1] <= Len(a) /\ p[2] <= Len(b) /\ a[p[1]] = b[p[2]] THEN t[<<p[1] + 1, p[2] + 1>>]
  ELSE IF p[2] <= Len(b) /\ (p[1] > Len(a) \/ lcs[<<p[1], p[2] + 1>>] >= lcs[<<p[1] + 1, p[2]>>])
  THEN <<<<"+", b[p[2]]>>>> \o t[<<p[1], p[2] + 1>>]
  ELSE <<<<"-", a[p[1]]>>>> \o t[<<p[1] + 1, p[2]>>]

CommonTable(a, b, t) ==
  t = [p \in (1..(Len(a) + 1)) \X (1..(Len(b) + 1)) |-> Common(a, b, p, t)]
CommonOf(a, b) == CHOOSE t : CommonTable(a, b, t)

MarkedTable(a, b, lcs, t) ==
  t = [p \in (1..(Len(a) + 1)) \X (1..(Len(b) + 1)) |-> Marked(a, b, lcs, p, t)]
MarkedOf(a, b) == CHOOSE t : MarkedTable(a, b, CommonOf(a, b), t)

LEMMA LineDiffIs == \A a, b : LineDiff(a, b) = MarkedOf(a, b)[<<1, 1>>]
BY Zenon DEF LineDiff, MarkedOf, MarkedTable, CommonOf, CommonTable, Common, Marked

Cell(kind, a, b, lcs, p, t) == IF kind = "common" THEN Common(a, b, p, t) ELSE Marked(a, b, lcs, p, t)

CellTable(kind, a, b, lcs, m, t) ==
  t = [p \in Diagonals(a, b, m) |-> Cell(kind, a, b, lcs, p, t)]

(* A cell looks no further than at its neighbours.                         *)
LEMMA CellLocal ==
  ASSUME NEW kind, NEW a, NEW b, NEW lcs, NEW t, NEW u, Len(a) \in Nat, Len(b) \in Nat,
         NEW p \in (1..(Len(a) + 1)) \X (1..(Len(b) + 1)),
         \A q \in (1..(Len(a) + 1)) \X (1..(Len(b) + 1)) : q[1] + q[2] > p[1] + p[2] => t[q] = u[q]
  PROVE  Cell(kind, a, b, lcs, p, t) = Cell(kind, a, b, lcs, p, u)
<1> DEFINE i == p[1]
           j == p[2]
           A == Len(a)
           B == Len(b)
<1>1. i \in 1..(A + 1) /\ j \in 1..(B + 1)
  OBVIOUS
<1>2. \A k \in 1..(A + 1), l \in 1..(B + 1) : k + l > i + j => t[<<k, l>>] = u[<<k, l>>]
  <2> TAKE k \in 1..(A + 1), l \in 1..(B + 1)
  <2> HAVE k + l > i + j
  <2>1. <<k, l>> \in (1..(A + 1)) \X (1..(B + 1)) /\ <<k, l>>[1] = k /\ <<k, l>>[2] = l
    OBVIOUS
  <2> HIDE DEF A, B, i, j
  <2>2. <<k, l>>[1] + <<k, l>>[2] > i + j
    BY <2>1
  <2> QED BY <2>1, <2>2 DEF A, B, i, j
<1> HIDE DEF i, j, A, B
<1>3. /\ i <= A => t[<<i + 1, j>>] = u[<<i + 1, j>>]
      /\ j <= B => t[<<i, j + 1>>] = u[<<i, j + 1>>]
      /\ i <= A /\ j <= B => t[<<i + 1, j + 1>>] = u[<<i + 1, j + 1>>]
  <2>0. A \in Nat /\ B \in Nat /\ i \in Nat /\ j \in Nat
    BY <1>1 DEF A, B
  <2>1. ASSUME i <= A PROVE t[<<i + 1, j>>] = u[<<i + 1, j>>]
    <3>1. i + 1 \in 1..(A + 1)
      BY <2>0, <2>1
    <3>2. i + 1 + j > i + j
      BY <2>0
    <3> QED BY <1>1, <1>2, <3>1, <3>2, Zenon
  <2>2. ASSUME j <= B PROVE t[<<i, j + 1>>] = u[<<i, j + 1>>]
    <3>1. j + 1 \in 1..(B + 1) /\ i + (j + 1) > i + j
      BY <1>1, <2>0, <2>2
    <3> QED BY <1>1, <1>2, <3>1, Zenon
  <2>3. ASSUME i <= A, j <= B PROVE t[<<i + 1, j + 1>>] = u[<<i + 1, j + 1>>]
    <3>1. i + 1 \in 1..(A + 1) /\ j + 1 \in 1..(B + 1)
      BY <2>0, <2>3
    <3>2. i + 1 + (j + 1) > i + j
      BY <2>0
    <3> QED BY <1>2, <3>1, <3>2, Zenon
  <2> QED BY <2>1, <2>2, <2>3
<1>4. i > A <=> ~(i <= A)
  BY <1>1 DEF A
<1>5. j > B <=> ~(j <= B)
  BY <1>1 DEF B
<1>6. Common(a, b, p, t) = Common(a, b, p, u)
  BY <1>3, <1>4, <1>5, Zenon DEF Common, i, j, A, B
<1>7. Marked(a, b, lcs, p, t) = Marked(a, b, lcs, p, u)
  BY <1>3, <1>4, <1>5, Zenon DEF Marked, i, j, A, B
<1> QED BY <1>6, <1>7, Zenon DEF Cell

LEMMA DiagonalsGrow ==
  ASSUME NEW a, NEW b, Len(a) \in Nat, Len(b) \in Nat, NEW m \in Nat
  PROVE  /\ Diagonals(a, b, m) \subseteq (1..(Len(a) + 1)) \X (1..(Len(b) + 1))
         /\ Diagonals(a, b, 0) = {}
         /\ Diagonals(a, b, Len(a) + Len(b) + 1) = (1..(Len(a) + 1)) \X (1..(Len(b) + 1))
         /\ \A p \in Diagonals(a, b, m) : \A q \in (1..(Len(a) + 1)) \X (1..(Len(b) + 1)) :
              q[1] + q[2] > p[1] + p[2] => q \in Diagonals(a, b, m - 1)
<1> DEFINE A == Len(a)
           B == Len(b)
           S == (1..(A + 1)) \X (1..(B + 1))
<1>1. \A p \in S : p[1] \in 1..(A + 1) /\ p[2] \in 1..(B + 1)
  OBVIOUS
<1>2. \A k : \A p : p \in Diagonals(a, b, k) <=> p \in S /\ p[1] + p[2] + k > A + B + 2
  BY DEF Diagonals
<1>3. A \in Nat /\ B \in Nat
  OBVIOUS
<1> HIDE DEF A, B, S
<1>4. Diagonals(a, b, m) \subseteq S
  BY <1>2
<1>5. Diagonals(a, b, 0) = {}
  <2>1. \A p \in S : ~(p[1] + p[2] + 0 > A + B + 2)
    BY <1>1, <1>3
  <2> QED BY <1>2, <2>1
<1>6. Diagonals(a, b, A + B + 1) = S
  <2>1. \A p \in S : p[1] + p[2] + (A + B + 1) > A + B + 2
    BY <1>1, <1>3
  <2> QED BY <1>2, <2>1
<1>7. ASSUME NEW p \in Diagonals(a, b, m), NEW q \in S, q[1] + q[2] > p[1] + p[2]
      PROVE  q \in Diagonals(a, b, m - 1)
  <2>1. p[1] + p[2] + m > A + B + 2 /\ p \in S
    BY <1>2
  <2>2. p[1] \in Int /\ p[2] \in Int /\ q[1] \in Int /\ q[2] \in Int
    BY <1>1, <1>3, <2>1
  <2>3. q[1] + q[2] + (m - 1) > A + B + 2
    BY <1>3, <1>7, <2>1, <2>2, SMTT(40)
  <2> QED BY <1>2, <2>3
<1> QED BY <1>4, <1>5, <1>6, <1>7 DEF A, B, S

LEMMA CellTableExists ==
  ASSUME NEW kind, NEW a, NEW b, NEW lcs, Len(a) \in Nat, Len(b) \in Nat, NEW m \in Nat
  PROVE  \E t : CellTable(kind, a, b, lcs, m, t)
<1> DEFINE Bad == {k \in Nat : ~\E t : CellTable(kind, a, b, lcs, k, t)}
<1> SUFFICES ASSUME Bad # {} PROVE FALSE
  OBVIOUS
<1>1. PICK k \in Bad : \A j \in Bad : k <= j
  <2>1. Bad \subseteq Nat /\ Bad # {}
    OBVIOUS
  <2> HIDE DEF Bad
  <2> QED BY <2>1, LeastExists
<1>2. k \in Nat /\ ~\E t : CellTable(kind, a, b, lcs, k, t)
  OBVIOUS
<1>3. CASE k = 0
  <2> DEFINE h == [p \in Diagonals(a, b, k) |-> 0]
  <2>1. Diagonals(a, b, k) = {}
    BY <1>3, DiagonalsGrow
  <2>2. h = [p \in Diagonals(a, b, k) |-> Cell(kind, a, b, lcs, p, h)]
    BY <2>1
  <2>3. CellTable(kind, a, b, lcs, k, h)
    BY <2>2, Zenon DEF CellTable
  <2> QED BY <1>2, <2>3, Zenon
<1>4. CASE k > 0
  <2>1. k - 1 \in Nat /\ k - 1 \notin Bad
    BY <1>1, <1>2, <1>4
  <2>2. PICK g : CellTable(kind, a, b, lcs, k - 1, g)
    BY <2>1
  <2> DEFINE D == Diagonals(a, b, k)
             E == Diagonals(a, b, k - 1)
             h == [p \in D |-> Cell(kind, a, b, lcs, p, g)]
             S == (1..(Len(a) + 1)) \X (1..(Len(b) + 1))
  <2>3. g = [p \in E |-> Cell(kind, a, b, lcs, p, g)]
    BY <2>2, Zenon DEF CellTable
  <2>4. \A p \in D : h[p] = Cell(kind, a, b, lcs, p, g)
    OBVIOUS
  <2>5. \A p \in E : g[p] = Cell(kind, a, b, lcs, p, g)
    <3> HIDE DEF E
    <3>1. DOMAIN g = E /\ \A p \in E : g[p] = [r \in E |-> Cell(kind, a, b, lcs, r, g)][p]
      BY <2>3, Zenon
    <3> QED BY <3>1, Zenon
  <2>6. D \subseteq S /\ E \subseteq S /\ \A p \in D : \A q \in S : q[1] + q[2] > p[1] + p[2] => q \in E
    BY <1>2, <2>1, DiagonalsGrow, Zenon
  <2>7. E \subseteq D
    BY <1>2 DEF Diagonals
  <2> HIDE DEF h
  <2>8. \A q \in E : g[q] = h[q]
    BY <2>4, <2>5, <2>7, Zenon
  <2>9. ASSUME NEW p \in D PROVE Cell(kind, a, b, lcs, p, g) = Cell(kind, a, b, lcs, p, h)
    <3>1. p \in S /\ \A q \in S : q[1] + q[2] > p[1] + p[2] => g[q] = h[q]
      BY <2>6, <2>8, Zenon
    <3>2. p \in (1..(Len(a) + 1)) \X (1..(Len(b) + 1))
      BY <3>1
    <3>3. \A q \in (1..(Len(a) + 1)) \X (1..(Len(b) + 1)) : q[1] + q[2] > p[1] + p[2] => g[q] = h[q]
      BY <3>1
    <3> HIDE DEF D, E, S
    <3> QED BY <3>2, <3>3, CellLocal
  <2>10. h = [p \in D |-> Cell(kind, a, b, lcs, p, h)]
    <3>1. h = [p \in D |-> Cell(kind, a, b, lcs, p, g)]
      BY DEF h
    <3> QED BY <2>9, <3>1, Zenon
  <2>11. CellTable(kind, a, b, lcs, k, h)
    BY <2>10, Zenon DEF CellTable
  <2> QED BY <1>2, <2>11, Zenon
<1> QED BY <1>2, <1>3, <1>4

LEMMA TablesAre ==
  ASSUME NEW a, NEW b, Len(a) \in Nat, Len(b) \in Nat,
         NEW p \in (1..(Len(a) + 1)) \X (1..(Len(b) + 1))
  PROVE  /\ CommonOf(a, b)[p] = Common(a, b, p, CommonOf(a, b))
         /\ MarkedOf(a, b)[p] = Marked(a, b, CommonOf(a, b), p, MarkedOf(a, b))
<1> DEFINE S == (1..(Len(a) + 1)) \X (1..(Len(b) + 1))
           n == Len(a) + Len(b) + 1
           lcs == CommonOf(a, b)
           t == MarkedOf(a, b)
<1>1. n \in Nat /\ Diagonals(a, b, n) = S
  <2>1. n \in Nat
    OBVIOUS
  <2> QED BY <2>1, DiagonalsGrow
<1> HIDE DEF S, n
<1>2. \A c : \E g : CellTable("common", a, b, c, n, g)
  BY <1>1, CellTableExists
<1>3. \A c : \E g : CellTable("lines", a, b, c, n, g)
  BY <1>1, CellTableExists
<1>4. \A c, g : CellTable("common", a, b, c, n, g) => g = [q \in S |-> Common(a, b, q, g)]
  BY <1>1, Zenon DEF CellTable, Cell
<1>5. \A c, g : CellTable("lines", a, b, c, n, g) => g = [q \in S |-> Marked(a, b, c, q, g)]
  <2>1. "lines" # "common"
    OBVIOUS
  <2>2. \A c, q, g : Cell("lines", a, b, c, q, g) = Marked(a, b, c, q, g)
    BY <2>1, Zenon DEF Cell
  <2> TAKE c, g
  <2>3. [q \in S |-> Cell("lines", a, b, c, q, g)] = [q \in S |-> Marked(a, b, c, q, g)]
    BY <2>2
  <2> QED BY <1>1, <2>3, Zenon DEF CellTable
<1>6. \E g : CommonTable(a, b, g)
  BY <1>2, <1>4, Zenon DEF CommonTable, S
<1>7. CommonTable(a, b, lcs)
  BY <1>6, Zenon DEF CommonOf
<1>8. \E g : MarkedTable(a, b, lcs, g)
  <2> HIDE DEF lcs
  <2>1. PICK g : CellTable("lines", a, b, lcs, n, g)
    BY <1>3, Zenon
  <2>2. g = [q \in S |-> Marked(a, b, lcs, q, g)]
    BY <1>5, <2>1, Zenon
  <2>3. MarkedTable(a, b, lcs, g)
    BY <2>2, Zenon DEF MarkedTable, S
  <2> QED BY <2>3, Zenon
<1>9. MarkedTable(a, b, lcs, t)
  BY <1>8, Zenon DEF MarkedOf
<1> HIDE DEF lcs, t
<1>10. lcs = [q \in S |-> Common(a, b, q, lcs)] /\ t = [q \in S |-> Marked(a, b, lcs, q, t)]
  BY <1>7, <1>9, Zenon DEF CommonTable, MarkedTable, S
<1>11. p \in S
  BY DEF S
<1>12. lcs[p] = Common(a, b, p, lcs)
  <2>1. lcs[p] = [q \in S |-> Common(a, b, q, lcs)][p]
    BY <1>10, Zenon
  <2> QED BY <1>11, <2>1, Zenon
<1>13. t[p] = Marked(a, b, lcs, p, t)
  <2>1. t[p] = [q \in S |-> Marked(a, b, lcs, q, t)][p]
    BY <1>10, Zenon
  <2> QED BY <1>11, <2>1, Zenon
<1> QED BY <1>12, <1>13 DEF lcs, t

(* x before the n elements of t.                                           *)
Ahead(x, n, t) == [k \in 1..(n + 1) |-> IF k = 1 THEN x ELSE t[k - 1]]

LEMMA InOrderAhead ==
  ASSUME NEW P, P \subseteq Int, IsFiniteSet(P), NEW m \in Int, \A p \in P : m < p
  PROVE  /\ {m} \union P \subseteq Int /\ IsFiniteSet({m} \union P)
         /\ Cardinality(P) \in Nat /\ Cardinality({m} \union P) = Cardinality(P) + 1
         /\ InOrder({m} \union P) = Ahead(m, Cardinality(P), InOrder(P))
<1> DEFINE C == Cardinality(P)
           f == InOrder(P)
           g == Ahead(m, C, f)
           R == {m} \union P
           n == C + 1
<1>1. /\ C \in Nat
      /\ \A k \in 1..C : f[k] \in P
      /\ \A k, l \in 1..C : k < l => f[k] < f[l]
      /\ \A p \in P : Rank(P, p) \in 1..C /\ f[Rank(P, p)] = p
  BY InOrderIs
<1> HIDE DEF C, f
<1>2. n \in Nat /\ g = [k \in 1..n |-> g[k]] /\ g[1] = m /\ \A k \in 1..C : k + 1 \in 1..n /\ g[k + 1] = f[k]
  BY <1>1 DEF Ahead
<1>3. \A k \in 1..n : k = 1 \/ \E l \in 1..C : k = l + 1
  <2> TAKE k \in 1..n
  <2>1. k = 1 \/ (k - 1 \in 1..C /\ k = (k - 1) + 1)
    BY <1>1
  <2> QED BY <2>1
<1>4. R \subseteq Int
  OBVIOUS
<1> HIDE DEF g
<1>5. ASSUME NEW k \in 1..n PROVE g[k] \in R
  <2>1. CASE k = 1
    BY <1>2, <2>1
  <2>2. CASE k # 1
    <3>1. PICK l \in 1..C : k = l + 1
      BY <1>3, <2>2
    <3>2. f[l] \in P /\ g[k] = f[l]
      BY <1>1, <1>2, <3>1
    <3> QED BY <3>2
  <2> QED BY <2>1, <2>2
<1>6. \A p \in R : \E k \in 1..n : g[k] = p
  <2> TAKE p \in R
  <2>1. CASE p = m
    <3>1. 1 \in 1..n
      BY <1>1
    <3> QED BY <1>2, <2>1, <3>1
  <2>2. CASE p \in P
    <3>1. Rank(P, p) \in 1..C /\ f[Rank(P, p)] = p
      BY <1>1, <2>2
    <3> QED BY <1>2, <3>1
  <2> QED BY <2>1, <2>2
<1>7. ASSUME NEW i \in 1..n, NEW j \in 1..n, i < j PROVE g[i] < g[j]
  <2>1. PICK l \in 1..C : j = l + 1
    BY <1>3, <1>7
  <2>2. CASE i = 1
    <3>1. f[l] \in P /\ m < f[l]
      BY <1>1
    <3> QED BY <1>2, <2>1, <2>2, <3>1
  <2>3. CASE i # 1
    <3>1. PICK k \in 1..C : i = k + 1
      BY <1>3, <2>3
    <3>2. k < l
      BY <1>7, <2>1, <3>1
    <3>3. f[k] < f[l]
      BY <1>1, <3>2
    <3> QED BY <1>2, <2>1, <3>1, <3>3
  <2> QED BY <2>2, <2>3
<1> HIDE DEF n, R
<1>8. IsFiniteSet(R) /\ Cardinality(R) = n /\ InOrder(R) = g
  BY <1>2, <1>4, <1>5, <1>6, <1>7, InOrderOnly, SMTT(40)
<1> QED BY <1>1, <1>4, <1>8 DEF g, R, n, C, f

LEMMA PickedAhead ==
  ASSUME NEW s, NEW P, P \subseteq Int, IsFiniteSet(P), NEW m \in Int, \A p \in P : m < p
  PROVE  Picked(s, {m} \union P) = Ahead(s[m], Cardinality(P), Picked(s, P))
<1> DEFINE C == Cardinality(P)
           f == InOrder(P)
           R == {m} \union P
           g == InOrder(R)
<1>1. C \in Nat /\ g = Ahead(m, C, f)
  BY InOrderAhead
<1>2. f = [k \in 1..C |-> f[k]]
  BY InOrderIs
<1>3. Picked(s, R) = [k \in DOMAIN g |-> s[g[k]]] /\ Picked(s, P) = [k \in DOMAIN f |-> s[f[k]]]
  BY DEF Picked
<1> HIDE DEF C, f, R, g
<1>4. DOMAIN g = 1..(C + 1) /\ \A k \in 1..(C + 1) : g[k] = IF k = 1 THEN m ELSE f[k - 1]
  BY <1>1 DEF Ahead
<1>5. \A k \in 1..(C + 1) : s[g[k]] = IF k = 1 THEN s[m] ELSE Picked(s, P)[k - 1]
  <2> TAKE k \in 1..(C + 1)
  <2>1. CASE k = 1
    BY <1>4, <2>1
  <2>2. CASE k # 1
    <3>1. k - 1 \in 1..C /\ k - 1 \in DOMAIN f
      BY <1>1, <1>2, <2>2
    <3>2. Picked(s, P)[k - 1] = s[f[k - 1]]
      BY <1>3, <3>1
    <3> QED BY <1>4, <2>2, <3>2
  <2> QED BY <2>1, <2>2
<1>6. Picked(s, R) = [k \in 1..(C + 1) |-> IF k = 1 THEN s[m] ELSE Picked(s, P)[k - 1]]
  BY <1>3, <1>4, <1>5
<1> QED BY <1>6 DEF Ahead, R, C

(* R is P, a place further.                                                *)
Shifted(P, R) == (\A p \in P : p + 1 \in R) /\ (\A r \in R : \E p \in P : r = p + 1)

LEMMA InOrderShift ==
  ASSUME NEW P, P \subseteq Nat, IsFiniteSet(P), NEW R, Shifted(P, R)
  PROVE  /\ R \subseteq Int /\ IsFiniteSet(R) /\ Cardinality(P) \in Nat /\ Cardinality(R) = Cardinality(P)
         /\ InOrder(R) = [k \in 1..Cardinality(P) |-> InOrder(P)[k] + 1]
         /\ \A k \in 1..Cardinality(P) : InOrder(P)[k] \in P
<1> DEFINE C == Cardinality(P)
           f == InOrder(P)
           g == [k \in 1..C |-> f[k] + 1]
<1>0. P \subseteq Int
  OBVIOUS
<1>1. /\ C \in Nat
      /\ \A k \in 1..C : f[k] \in P
      /\ \A k, l \in 1..C : k < l => f[k] < f[l]
      /\ \A p \in P : Rank(P, p) \in 1..C /\ f[Rank(P, p)] = p
  BY <1>0, InOrderIs
<1> HIDE DEF C, f
<1>2. g = [k \in 1..C |-> g[k]] /\ \A k \in 1..C : g[k] = f[k] + 1
  OBVIOUS
<1> HIDE DEF g
<1>3. R \subseteq Int
  BY DEF Shifted
<1>4. \A k \in 1..C : g[k] \in R
  BY <1>1, <1>2 DEF Shifted
<1>5. \A r \in R : \E k \in 1..C : g[k] = r
  BY <1>1, <1>2 DEF Shifted
<1>6. ASSUME NEW i \in 1..C, NEW j \in 1..C, i < j PROVE g[i] < g[j]
  <2>1. f[i] < f[j]
    BY <1>1, <1>6, Zenon
  <2>2. f[i] \in P /\ f[j] \in P
    BY <1>1
  <2>3. f[i] \in Int /\ f[j] \in Int
    BY <1>0, <2>2
  <2>4. g[i] = f[i] + 1 /\ g[j] = f[j] + 1
    BY <1>2
  <2> QED BY <2>1, <2>3, <2>4
<1>7. \A i, j \in 1..C : i < j => g[i] < g[j]
  BY <1>6
<1>8. IsFiniteSet(R) /\ Cardinality(R) = C /\ InOrder(R) = g
  <2>1. C \in Nat
    BY <1>1
  <2>2. g = [k \in 1..C |-> g[k]]
    BY <1>2
  <2> QED BY <1>3, <1>4, <1>5, <1>7, <2>1, <2>2, InOrderOnly, SMTT(40)
<1> QED BY <1>1, <1>3, <1>8 DEF g, C, f

(* The lines of a diff with this sign, and what they say.                  *)
Signed(d, sign) == {k \in DOMAIN d : d[k][1] = sign}
Texts(d, sign) ==
  [i \in DOMAIN Picked(d, Signed(d, sign)) |-> Picked(d, Signed(d, sign))[i][2]]

LEMMA TextsAre ==
  ASSUME NEW n \in Nat, NEW d, DOMAIN d = 1..n, NEW sign
  PROVE  /\ Signed(d, sign) \subseteq 1..n
         /\ Cardinality(Signed(d, sign)) \in Nat
         /\ Texts(d, sign) =
              [i \in 1..Cardinality(Signed(d, sign)) |-> d[InOrder(Signed(d, sign))[i]][2]]
<1> DEFINE K == Signed(d, sign)
<1>1. K \subseteq 1..n
  BY DEF Signed
<1> HIDE DEF K
<1>2. K \subseteq Int /\ IsFiniteSet(K)
  BY <1>1, PlacesFinite
<1>3. /\ Cardinality(K) \in Nat
      /\ InOrder(K) = [k \in 1..Cardinality(K) |-> InOrder(K)[k]]
  BY <1>2, InOrderIs
<1>4. Picked(d, K) = [i \in 1..Cardinality(K) |-> d[InOrder(K)[i]]]
  BY <1>3 DEF Picked
<1>5. Texts(d, sign) = [i \in DOMAIN Picked(d, K) |-> Picked(d, K)[i][2]]
  BY DEF Texts, K
<1>6. Texts(d, sign) = [i \in 1..Cardinality(K) |-> d[InOrder(K)[i]][2]]
  BY <1>4, <1>5
<1> QED BY <1>1, <1>3, <1>6 DEF K

LEMMA TextsAhead ==
  ASSUME NEW n \in Nat, NEW d, DOMAIN d = 1..n, NEW e, DOMAIN e = 1..(n + 1),
         \A k \in 1..n : e[k + 1] = d[k], NEW sign
  PROVE  Texts(e, sign) = IF e[1][1] = sign
                          THEN Ahead(e[1][2], Cardinality(Signed(d, sign)), Texts(d, sign))
                          ELSE Texts(d, sign)
<1> DEFINE K == Signed(d, sign)
           L == Signed(e, sign)
           C == Cardinality(K)
           f == InOrder(K)
           R == {k + 1 : k \in K}
<1>1. K \subseteq 1..n /\ C \in Nat /\ Texts(d, sign) = [i \in 1..C |-> d[f[i]][2]]
  BY TextsAre
<1>2. Texts(e, sign) = [i \in 1..Cardinality(L) |-> e[InOrder(L)[i]][2]]
  <2>1. n + 1 \in Nat
    OBVIOUS
  <2> QED BY <2>1, TextsAre
<1>3. \A k \in K : k \in 1..n /\ d[k][1] = sign
  BY <1>1 DEF Signed
<1> HIDE DEF K, L
<1>0. (\A k \in K : k + 1 \in R) /\ (\A r \in R : \E k \in K : r = k + 1)
  OBVIOUS
<1> HIDE DEF R
<1>4. \A k \in 1..(n + 1) : k = 1 \/ k - 1 \in 1..n
  OBVIOUS
<1>5. L \subseteq {1} \union R
  <2> SUFFICES ASSUME NEW k \in L, k # 1 PROVE k \in R
    OBVIOUS
  <2>1. k \in 1..(n + 1) /\ e[k][1] = sign
    BY DEF Signed, L
  <2>2. PICK l \in 1..n : k = l + 1
    <3>1. k - 1 \in 1..n /\ k = (k - 1) + 1
      BY <1>4, <2>1
    <3> QED BY <3>1
  <2>3. l \in K
    <3>1. d[l] = e[k]
      BY <2>2
    <3> QED BY <2>1, <2>2, <3>1 DEF Signed, K
  <2> QED BY <1>0, <2>2, <2>3
<1>6. ASSUME NEW r \in R PROVE r \in L
  <2>1. PICK k \in K : r = k + 1
    BY <1>0
  <2>2. r \in 1..(n + 1) /\ e[r] = d[k]
    BY <1>3, <2>1
  <2>3. e[r][1] = sign
    BY <1>3, <2>2
  <2> QED BY <2>2, <2>3 DEF Signed, L
<1>7. 1 \in L <=> e[1][1] = sign
  BY DEF Signed, L
<1>8. K \subseteq Nat /\ IsFiniteSet(K)
  <2>1. IsFiniteSet(K)
    BY <1>1, PlacesFinite
  <2> QED BY <1>1, <2>1
<1>9. \A r \in R : 1 < r
  BY <1>0, <1>3
<1>10. /\ R \subseteq Int /\ IsFiniteSet(R) /\ Cardinality(R) = C
       /\ InOrder(R) = [k \in 1..C |-> f[k] + 1]
       /\ \A k \in 1..C : f[k] \in K
  BY <1>0, <1>8, InOrderShift DEF Shifted
<1> HIDE DEF C, f
<1>11. \A k \in 1..C : e[f[k] + 1] = d[f[k]]
  BY <1>3, <1>10
<1>12. CASE e[1][1] = sign
  <2>1. L = {1} \union R
    BY <1>5, <1>6, <1>7, <1>12
  <2>2. Cardinality(L) = C + 1 /\ InOrder(L) = Ahead(1, C, InOrder(R))
    <3>1. 1 \in Int
      OBVIOUS
    <3> QED BY <1>9, <1>10, <2>1, <3>1, InOrderAhead
  <2>3. \A i \in 1..(C + 1) :
          e[InOrder(L)[i]][2] = IF i = 1 THEN e[1][2] ELSE Texts(d, sign)[i - 1]
    <3> TAKE i \in 1..(C + 1)
    <3>1. InOrder(L)[i] = IF i = 1 THEN 1 ELSE InOrder(R)[i - 1]
      BY <2>2 DEF Ahead
    <3>2. CASE i = 1
      BY <3>1, <3>2
    <3>3. CASE i # 1
      <4>1. i - 1 \in 1..C
        BY <1>1, <3>3
      <4>2. InOrder(L)[i] = f[i - 1] + 1
        BY <1>10, <3>1, <3>3, <4>1
      <4>3. Texts(d, sign)[i - 1] = d[f[i - 1]][2]
        BY <1>1, <4>1
      <4> QED BY <1>11, <3>3, <4>1, <4>2, <4>3
    <3> QED BY <3>2, <3>3
  <2>4. Texts(e, sign) = [i \in 1..(C + 1) |-> IF i = 1 THEN e[1][2] ELSE Texts(d, sign)[i - 1]]
    BY <1>2, <2>2, <2>3
  <2> QED BY <1>12, <2>4 DEF Ahead, C, K
<1>13. CASE e[1][1] # sign
  <2>1. L = R
    BY <1>5, <1>6, <1>7, <1>13
  <2>2. \A i \in 1..C : e[InOrder(L)[i]][2] = d[f[i]][2]
    BY <1>10, <1>11, <2>1
  <2>3. Texts(e, sign) = [i \in 1..C |-> d[f[i]][2]]
    BY <1>2, <1>10, <2>1, <2>2
  <2> QED BY <1>1, <1>13, <2>3
<1> QED BY <1>12, <1>13

(* Places from i on, in a sequence of n elements.                          *)
Within(P, i, n) == P \subseteq i..n

LEMMA WithinFinite ==
  ASSUME NEW n \in Nat, NEW i \in Nat, i > 0, NEW P, Within(P, i, n)
  PROVE  P \subseteq Int /\ IsFiniteSet(P) /\ Cardinality(P) \in Nat
<1>1. P \subseteq 1..n
  BY DEF Within
<1>2. P \subseteq Int /\ IsFiniteSet(P)
  BY <1>1, PlacesFinite
<1> QED BY <1>2, InOrderIs

(* A sequence of n elements.                                               *)
Spans(f, n) == f = [k \in 1..n |-> f[k]]

LEMMA PickedSpans ==
  ASSUME NEW s, NEW n \in Nat, NEW i \in Nat, i > 0, NEW P, Within(P, i, n)
  PROVE  Cardinality(P) \in Nat /\ Spans(Picked(s, P), Cardinality(P))
<1>2. P \subseteq Int /\ IsFiniteSet(P)
  BY WithinFinite
<1>3. Cardinality(P) \in Nat /\ InOrder(P) = [k \in 1..Cardinality(P) |-> InOrder(P)[k]]
  BY <1>2, InOrderIs
<1>4. Picked(s, P) = [k \in 1..Cardinality(P) |-> s[InOrder(P)[k]]]
  BY <1>3 DEF Picked
<1>5. Picked(s, P) = [k \in 1..Cardinality(P) |-> Picked(s, P)[k]]
  BY <1>4
<1> QED BY <1>3, <1>5 DEF Spans

LEMMA SameCount ==
  ASSUME NEW m \in Nat, NEW n \in Nat, NEW f, Spans(f, m), Spans(f, n)
  PROVE  m = n
<1>1. 1..m = 1..n
  BY DEF Spans
<1>2. ~(m < n)
  <2>1. n \in 1..n => n \in 1..m
    BY <1>1
  <2> QED BY <2>1
<1>3. ~(n < m)
  <2>1. m \in 1..m => m \in 1..n
    BY <1>1
  <2> QED BY <2>1
<1> QED BY <1>2, <1>3

LEMMA AheadFirst ==
  ASSUME NEW n \in Nat, NEW x, NEW t
  PROVE  Ahead(x, n, t)[1] = x
BY DEF Ahead

LEMMA AheadAgrees ==
  ASSUME NEW n \in Nat, NEW x, NEW y, NEW t, NEW u,
         Spans(t, n), Spans(u, n), Ahead(x, n, t) = Ahead(y, n, u)
  PROVE  x = y /\ t = u
<1> DEFINE f == Ahead(x, n, t)
           g == Ahead(y, n, u)
<1>1. \A k \in 1..(n + 1) : f[k] = (IF k = 1 THEN x ELSE t[k - 1]) /\ g[k] = (IF k = 1 THEN y ELSE u[k - 1])
  BY DEF Ahead
<1> HIDE DEF f, g
<1>2. f = g
  BY DEF f, g
<1>3. x = y
  <2>1. 1 \in 1..(n + 1)
    OBVIOUS
  <2> QED BY <1>1, <1>2, <2>1
<1>4. ASSUME NEW k \in 1..n PROVE t[k] = u[k]
  <2>1. PICK q \in 1..(n + 1) : q # 1 /\ q - 1 = k
    <3>1. k + 1 \in 1..(n + 1) /\ k + 1 # 1 /\ (k + 1) - 1 = k
      OBVIOUS
    <3> QED BY <3>1
  <2>2. f[q] = t[q - 1] /\ g[q] = u[q - 1]
    BY <1>1, <2>1
  <2> QED BY <1>2, <2>1, <2>2
<1>5. [k \in 1..n |-> t[k]] = [k \in 1..n |-> u[k]]
  BY <1>4
<1> QED BY <1>3, <1>5 DEF Spans

Beyond(P, i, n) == P \subseteq (i + 1)..n

LEMMA BeyondWithin ==
  ASSUME NEW n \in Nat, NEW i \in 1..n, NEW P, Beyond(P, i, n)
  PROVE  /\ Within(P, i, n) /\ Within({i} \union P, i, n)
         /\ P \subseteq Int /\ IsFiniteSet(P) /\ i \in Int /\ \A p \in P : i < p
<1>0. P \subseteq (i + 1)..n
  BY DEF Beyond
<1>1. Within(P, i, n) /\ Within({i} \union P, i, n)
  BY <1>0 DEF Within
<1>2. P \subseteq Int /\ IsFiniteSet(P)
  <2>1. i \in Nat /\ i > 0
    OBVIOUS
  <2> QED BY <1>1, <2>1, WithinFinite
<1>3. i \in Int /\ \A p \in P : i < p
  BY <1>0
<1> QED BY <1>1, <1>2, <1>3

LEMMA BeyondPicked ==
  ASSUME NEW s, NEW n \in Nat, NEW i \in 1..n, NEW P, Beyond(P, i, n)
  PROVE  Picked(s, {i} \union P) = Ahead(s[i], Cardinality(P), Picked(s, P))
<1>1. P \subseteq Int /\ IsFiniteSet(P) /\ i \in Int /\ \A p \in P : i < p
  BY BeyondWithin
<1> QED BY <1>1, PickedAhead

(* What is picked at P is what is at one of its places and then the rest.  *)
Headed(s, n, i, P) ==
  \E m, R : /\ Within(R, i + 1, n)
            /\ i \in P => m = i
            /\ Cardinality(P) = Cardinality(R) + 1
            /\ Picked(s, P) = Ahead(s[m], Cardinality(R), Picked(s, R))

LEMMA LeastPlace ==
  ASSUME NEW s, NEW n \in Nat, NEW i \in 1..n, NEW P, Within(P, i, n), P # {}
  PROVE  Headed(s, n, i, P)
<1>0. P \subseteq i..n
  BY DEF Within
<1>1. P \subseteq Nat
  BY <1>0
<1>2. PICK m \in P : \A k \in P : m <= k
  BY <1>1, LeastExists
<1> DEFINE R == P \ {m}
<1>3. m \in i..n /\ m \in Int
  BY <1>0
<1>4. \A r \in R : r \in (i + 1)..n /\ m < r
  BY <1>0, <1>2, <1>3
<1>5. P = {m} \union R
  OBVIOUS
<1> HIDE DEF R
<1>6. Within(R, i + 1, n)
  BY <1>4 DEF Within
<1>7. R \subseteq Int /\ IsFiniteSet(R)
  <2>1. i + 1 \in Nat /\ i + 1 > 0
    OBVIOUS
  <2> QED BY <1>6, <2>1, WithinFinite
<1>8. \A r \in R : m < r
  BY <1>4
<1>9. Cardinality({m} \union R) = Cardinality(R) + 1
  BY <1>3, <1>7, <1>8, InOrderAhead
<1>10. Picked(s, {m} \union R) = Ahead(s[m], Cardinality(R), Picked(s, R))
  BY <1>3, <1>7, <1>8, PickedAhead
<1>11. i \in P => m = i
  <2>1. i \in P => m <= i
    BY <1>2
  <2> QED BY <1>3, <2>1
<1> QED BY <1>5, <1>6, <1>9, <1>10, <1>11, Zenon DEF Headed

(* No common subsequence of a from i on and b from j on is longer.         *)
Longest(a, b, A, B, i, j, c) ==
  \A P, Q : Within(P, i, A) /\ Within(Q, j, B) /\ Picked(a, P) = Picked(b, Q)
             => Cardinality(P) <= c

LEMMA LongestAtEnd ==
  ASSUME NEW a, NEW b, NEW A \in Nat, NEW B \in Nat, NEW i \in Nat, i > 0, NEW j \in Nat, j > 0,
         i > A \/ j > B
  PROVE  Longest(a, b, A, B, i, j, 0)
<1> SUFFICES ASSUME NEW P, Within(P, i, A), NEW Q, Within(Q, j, B), Picked(a, P) = Picked(b, Q)
             PROVE  Cardinality(P) <= 0
  BY DEF Longest
<1>1. Cardinality(P) \in Nat /\ Spans(Picked(a, P), Cardinality(P))
  BY PickedSpans
<1>2. Cardinality(Q) \in Nat /\ Spans(Picked(b, Q), Cardinality(Q))
  BY PickedSpans
<1>3. Cardinality(P) = Cardinality(Q)
  BY <1>1, <1>2, SameCount
<1>4. P = {} \/ Q = {}
  <2>1. CASE i > A
    <3>1. i..A = {}
      BY <2>1
    <3> QED BY <3>1 DEF Within
  <2>2. CASE j > B
    <3>1. j..B = {}
      BY <2>2
    <3> QED BY <3>1 DEF Within
  <2> QED BY <2>1, <2>2
<1>5. Cardinality(P) = 0 \/ Cardinality(Q) = 0
  BY <1>4, FS_EmptySet
<1> QED BY <1>3, <1>5

LEMMA LongestSame ==
  ASSUME NEW a, NEW b, NEW A \in Nat, NEW B \in Nat, NEW i \in 1..A, NEW j \in 1..B,
         NEW c \in Nat, Longest(a, b, A, B, i + 1, j + 1, c)
  PROVE  Longest(a, b, A, B, i, j, c + 1)
<1> SUFFICES ASSUME NEW P, Within(P, i, A), NEW Q, Within(Q, j, B), Picked(a, P) = Picked(b, Q)
             PROVE  Cardinality(P) <= c + 1
  BY DEF Longest
<1>0. i \in Nat /\ i > 0 /\ j \in Nat /\ j > 0 /\ i + 1 \in Nat /\ i + 1 > 0 /\ j + 1 \in Nat /\ j + 1 > 0
  OBVIOUS
<1>1. Cardinality(P) \in Nat /\ Spans(Picked(a, P), Cardinality(P))
  BY <1>0, PickedSpans
<1>2. Cardinality(Q) \in Nat /\ Spans(Picked(b, Q), Cardinality(Q))
  BY <1>0, PickedSpans
<1>3. Cardinality(P) = Cardinality(Q)
  BY <1>1, <1>2, SameCount
<1>4. CASE P = {} \/ Q = {}
  <2>1. Cardinality(P) = 0 \/ Cardinality(Q) = 0
    BY <1>4, FS_EmptySet
  <2> QED BY <1>3, <2>1
<1>5. CASE P # {} /\ Q # {}
  <2>1. PICK m, R :
          /\ Within(R, i + 1, A)
          /\ Cardinality(P) = Cardinality(R) + 1
          /\ Picked(a, P) = Ahead(a[m], Cardinality(R), Picked(a, R))
    <3>1. Headed(a, A, i, P)
      BY <1>5, LeastPlace
    <3> QED BY <1>5, <3>1, Zenon DEF Headed
  <2>2. PICK l, S :
          /\ Within(S, j + 1, B)
          /\ Cardinality(Q) = Cardinality(S) + 1
          /\ Picked(b, Q) = Ahead(b[l], Cardinality(S), Picked(b, S))
    <3>1. Headed(b, B, j, Q)
      BY <1>5, LeastPlace
    <3> QED BY <1>5, <3>1, Zenon DEF Headed
  <2>3. Cardinality(R) \in Nat /\ Spans(Picked(a, R), Cardinality(R))
    BY <1>0, <2>1, PickedSpans
  <2>4. Cardinality(S) \in Nat /\ Spans(Picked(b, S), Cardinality(S))
    BY <1>0, <2>2, PickedSpans
  <2>5. Cardinality(R) = Cardinality(S)
    <3>1. Cardinality(R) + 1 = Cardinality(S) + 1
      BY <1>3, <2>1, <2>2, Zenon
    <3>2. \A x, y \in Nat : x + 1 = y + 1 => x = y
      OBVIOUS
    <3> QED BY <2>3, <2>4, <3>1, <3>2, Zenon
  <2>6. Spans(Picked(b, S), Cardinality(R))
    BY <2>4, <2>5, Zenon
  <2>7. Ahead(a[m], Cardinality(R), Picked(a, R)) = Ahead(b[l], Cardinality(R), Picked(b, S))
    BY <2>1, <2>2, <2>5, Zenon
  <2>8. Picked(a, R) = Picked(b, S)
    BY <2>3, <2>6, <2>7, AheadAgrees
  <2>9. Cardinality(R) <= c
    BY <2>1, <2>2, <2>8 DEF Longest
  <2> QED BY <2>1, <2>3, <2>9
<1> QED BY <1>4, <1>5

LEMMA LongestApart ==
  ASSUME NEW a, NEW b, NEW A \in Nat, NEW B \in Nat, NEW i \in 1..A, NEW j \in 1..B,
         a[i] # b[j], NEW c \in Nat, NEW e \in Nat, NEW m \in Nat, c <= m, e <= m,
         Longest(a, b, A, B, i + 1, j, c), Longest(a, b, A, B, i, j + 1, e)
  PROVE  Longest(a, b, A, B, i, j, m)
<1> SUFFICES ASSUME NEW P, Within(P, i, A), NEW Q, Within(Q, j, B), Picked(a, P) = Picked(b, Q)
             PROVE  Cardinality(P) <= m
  BY DEF Longest
<1>0. i \in Nat /\ i > 0 /\ j \in Nat /\ j > 0 /\ i + 1 \in Nat /\ i + 1 > 0 /\ j + 1 \in Nat /\ j + 1 > 0
  OBVIOUS
<1>1. Cardinality(P) \in Nat /\ Spans(Picked(a, P), Cardinality(P))
  BY <1>0, PickedSpans
<1>2. CASE i \notin P
  <2>1. Within(P, i + 1, A)
    BY <1>0, <1>2 DEF Within
  <2>2. Cardinality(P) <= c
    BY <2>1 DEF Longest
  <2> QED BY <1>1, <2>2
<1>3. CASE j \notin Q
  <2>1. Within(Q, j + 1, B)
    BY <1>0, <1>3 DEF Within
  <2>2. Cardinality(P) <= e
    BY <2>1 DEF Longest
  <2> QED BY <1>1, <2>2
<1>4. CASE i \in P /\ j \in Q
  <2>1. PICK R : Within(R, i + 1, A) /\ Picked(a, P) = Ahead(a[i], Cardinality(R), Picked(a, R))
    <3>1. Headed(a, A, i, P)
      BY <1>4, LeastPlace
    <3> QED BY <1>4, <3>1, Zenon DEF Headed
  <2>2. PICK S : Within(S, j + 1, B) /\ Picked(b, Q) = Ahead(b[j], Cardinality(S), Picked(b, S))
    <3>1. Headed(b, B, j, Q)
      BY <1>4, LeastPlace
    <3> QED BY <1>4, <3>1, Zenon DEF Headed
  <2>3. Cardinality(R) \in Nat /\ Cardinality(S) \in Nat
    BY <1>0, <2>1, <2>2, WithinFinite
  <2>4. Picked(a, P)[1] = a[i] /\ Picked(b, Q)[1] = b[j]
    <3>1. /\ Ahead(a[i], Cardinality(R), Picked(a, R))[1] = a[i]
          /\ Ahead(b[j], Cardinality(S), Picked(b, S))[1] = b[j]
      BY <2>3, AheadFirst
    <3> QED BY <2>1, <2>2, <3>1
  <2> QED BY <2>4
<1> QED BY <1>2, <1>3, <1>4

(* The lines of d lead from a, from i on, to b, from j on.                 *)
Split(a, b, A, B, i, j, d) ==
  \E P, Q : /\ Within(P, i, A) /\ Within(Q, j, B)
            /\ Picked(a, P) = Texts(d, "-") /\ Picked(b, Q) = Texts(d, "+")
            /\ Picked(a, (i..A) \ P) = Picked(b, (j..B) \ Q)

LEMMA NothingPicked ==
  ASSUME NEW s, NEW t
  PROVE  Picked(s, {}) = Picked(t, {})
<1>1. {} \subseteq Int /\ IsFiniteSet({}) /\ Cardinality({}) = 0
  BY FS_EmptySet
<1>2. InOrder({}) = [k \in 1..Cardinality({}) |-> InOrder({})[k]]
  BY <1>1, InOrderIs
<1>3. DOMAIN InOrder({}) = {}
  <2>1. DOMAIN InOrder({}) = 1..Cardinality({})
    BY <1>2
  <2> QED BY <1>1, <2>1
<1>4. [k \in DOMAIN InOrder({}) |-> s[InOrder({})[k]]] = [k \in DOMAIN InOrder({}) |-> t[InOrder({})[k]]]
  BY <1>3
<1> QED BY <1>4, Zenon DEF Picked

LEMMA NoTexts ==
  ASSUME NEW sign, NEW s
  PROVE  Texts(<<>>, sign) = Picked(s, {})
<1>1. Signed(<<>>, sign) = {}
  BY DEF Signed
<1>2. Texts(<<>>, sign) = [i \in DOMAIN Picked(<<>>, {}) |-> Picked(<<>>, {})[i][2]]
  BY <1>1 DEF Texts
<1>3. Spans(Picked(<<>>, {}), 0) /\ Spans(Picked(s, {}), 0)
  <2>1. Within({}, 1, 0) /\ 0 \in Nat /\ 1 \in Nat /\ 1 > 0
    BY DEF Within
  <2>2. Cardinality({}) = 0
    BY FS_EmptySet
  <2>3. Spans(Picked(<<>>, {}), Cardinality({})) /\ Spans(Picked(s, {}), Cardinality({}))
    BY <2>1, PickedSpans
  <2> QED BY <2>2, <2>3
<1> DEFINE u == Picked(<<>>, {})
           v == Picked(s, {})
<1> HIDE DEF u, v
<1>4. u = [k \in {} |-> u[k]] /\ v = [k \in {} |-> v[k]]
  <2>1. 1..0 = {}
    OBVIOUS
  <2> QED BY <1>3, <2>1 DEF Spans, u, v
<1>5. [i \in DOMAIN u |-> u[i][2]] = v
  BY <1>4
<1> QED BY <1>2, <1>5 DEF u, v

LEMMA SplitAtEnd ==
  ASSUME NEW a, NEW b, NEW A \in Nat, NEW B \in Nat
  PROVE  Split(a, b, A, B, A + 1, B + 1, <<>>)
<1>1. Within({}, A + 1, A) /\ Within({}, B + 1, B)
  BY DEF Within
<1>2. Picked(a, {}) = Texts(<<>>, "-") /\ Picked(b, {}) = Texts(<<>>, "+")
  BY NoTexts
<1>3. Picked(a, ((A + 1)..A) \ {}) = Picked(b, ((B + 1)..B) \ {})
  <2>1. ((A + 1)..A) \ {} = {} /\ ((B + 1)..B) \ {} = {}
    OBVIOUS
  <2>2. Picked(a, {}) = Picked(b, {})
    BY NothingPicked
  <2> QED BY <2>1, <2>2
<1> QED BY <1>1, <1>2, <1>3, Zenon DEF Split

LEMMA SplitSame ==
  ASSUME NEW a, NEW b, NEW A \in Nat, NEW B \in Nat, NEW i \in 1..A, NEW j \in 1..B, a[i] = b[j],
         NEW d, Split(a, b, A, B, i + 1, j + 1, d)
  PROVE  Split(a, b, A, B, i, j, d)
<1>0. i + 1 \in Nat /\ i + 1 > 0 /\ j + 1 \in Nat /\ j + 1 > 0
  OBVIOUS
<1>1. PICK P, Q : /\ Within(P, i + 1, A) /\ Within(Q, j + 1, B)
                  /\ Picked(a, P) = Texts(d, "-") /\ Picked(b, Q) = Texts(d, "+")
                  /\ Picked(a, ((i + 1)..A) \ P) = Picked(b, ((j + 1)..B) \ Q)
  BY Zenon DEF Split
<1> DEFINE X == ((i + 1)..A) \ P
           Y == ((j + 1)..B) \ Q
<1>2. Within(P, i, A) /\ Beyond(X, i, A) /\ (i..A) \ P = {i} \union X
  <2>1. Beyond(P, i, A)
    BY <1>1 DEF Within, Beyond
  <2>2. Within(P, i, A)
    BY <2>1, BeyondWithin
  <2>3. Beyond(X, i, A)
    BY DEF Beyond
  <2>4. (i..A) \ P = {i} \union X
    <3>1. \A k : k \in i..A <=> k = i \/ k \in (i + 1)..A
      OBVIOUS
    <3>2. i \notin P
      BY <2>1 DEF Beyond
    <3> QED BY <3>1, <3>2
  <2> QED BY <2>2, <2>3, <2>4
<1>3. Within(Q, j, B) /\ Beyond(Y, j, B) /\ (j..B) \ Q = {j} \union Y
  <2>1. Beyond(Q, j, B)
    BY <1>1 DEF Within, Beyond
  <2>2. Within(Q, j, B)
    BY <2>1, BeyondWithin
  <2>3. Beyond(Y, j, B)
    BY DEF Beyond
  <2>4. (j..B) \ Q = {j} \union Y
    <3>1. \A k : k \in j..B <=> k = j \/ k \in (j + 1)..B
      OBVIOUS
    <3>2. j \notin Q
      BY <2>1 DEF Beyond
    <3> QED BY <3>1, <3>2
  <2> QED BY <2>2, <2>3, <2>4
<1>4. Picked(a, X) = Picked(b, Y)
  BY <1>1
<1> HIDE DEF X, Y
<1>5. Cardinality(X) \in Nat /\ Spans(Picked(a, X), Cardinality(X))
  <2>1. Within(X, i + 1, A)
    BY <1>2 DEF Within, Beyond
  <2> QED BY <1>0, <2>1, PickedSpans
<1>6. Cardinality(Y) \in Nat /\ Spans(Picked(b, Y), Cardinality(Y))
  <2>1. Within(Y, j + 1, B)
    BY <1>3 DEF Within, Beyond
  <2> QED BY <1>0, <2>1, PickedSpans
<1>7. Cardinality(X) = Cardinality(Y)
  BY <1>4, <1>5, <1>6, SameCount
<1>8. Picked(a, {i} \union X) = Ahead(a[i], Cardinality(X), Picked(a, X))
  BY <1>2, BeyondPicked
<1>9. Picked(b, {j} \union Y) = Ahead(b[j], Cardinality(Y), Picked(b, Y))
  BY <1>3, BeyondPicked
<1>10. Picked(a, (i..A) \ P) = Picked(b, (j..B) \ Q)
  BY <1>2, <1>3, <1>4, <1>7, <1>8, <1>9
<1> QED BY <1>1, <1>2, <1>3, <1>10, Zenon DEF Split

LEMMA TextsSpan ==
  ASSUME NEW n \in Nat, NEW d, DOMAIN d = 1..n, NEW sign
  PROVE  Cardinality(Signed(d, sign)) \in Nat /\ Spans(Texts(d, sign), Cardinality(Signed(d, sign)))
BY TextsAre DEF Spans

(* e is one line and then the n lines of d.                                *)
OneMore(d, e, n) == DOMAIN d = 1..n /\ DOMAIN e = 1..(n + 1) /\ \A k \in 1..n : e[k + 1] = d[k]

LEMMA TextsOneMore ==
  ASSUME NEW n \in Nat, NEW d, NEW e, OneMore(d, e, n), NEW sign
  PROVE  /\ e[1][1] = sign =>
              Texts(e, sign) = Ahead(e[1][2], Cardinality(Signed(d, sign)), Texts(d, sign))
         /\ e[1][1] # sign => Texts(e, sign) = Texts(d, sign)
<1>1. DOMAIN d = 1..n
  BY DEF OneMore
<1>2. DOMAIN e = 1..(n + 1)
  BY DEF OneMore
<1>3. \A k \in 1..n : e[k + 1] = d[k]
  BY DEF OneMore
<1>4. Texts(e, sign) = IF e[1][1] = sign
                       THEN Ahead(e[1][2], Cardinality(Signed(d, sign)), Texts(d, sign))
                       ELSE Texts(d, sign)
  BY <1>1, <1>2, <1>3, TextsAhead
<1> QED BY <1>4, Zenon

LEMMA SplitAdded ==
  ASSUME NEW a, NEW b, NEW A \in Nat, NEW B \in Nat, NEW i \in Nat, i > 0, NEW j \in 1..B,
         NEW n \in Nat, NEW d, DOMAIN d = 1..n, NEW e, DOMAIN e = 1..(n + 1),
         e[1] = <<"+", b[j]>>, \A k \in 1..n : e[k + 1] = d[k],
         Split(a, b, A, B, i, j + 1, d)
  PROVE  Split(a, b, A, B, i, j, e)
<1>0. j + 1 \in Nat /\ j + 1 > 0
  OBVIOUS
<1>1. PICK P, Q : /\ Within(P, i, A) /\ Within(Q, j + 1, B)
                  /\ Picked(a, P) = Texts(d, "-") /\ Picked(b, Q) = Texts(d, "+")
                  /\ Picked(a, (i..A) \ P) = Picked(b, ((j + 1)..B) \ Q)
  BY Zenon DEF Split
<1>2. e[1][1] = "+" /\ e[1][2] = b[j]
  OBVIOUS
<1>3. OneMore(d, e, n) /\ "+" # "-"
  BY DEF OneMore
<1>10. Texts(e, "-") = Texts(d, "-")
  BY <1>2, <1>3, TextsOneMore
<1>4. Texts(e, "+") = Ahead(b[j], Cardinality(Signed(d, "+")), Texts(d, "+"))
  <2>1. Texts(e, "+") = Ahead(e[1][2], Cardinality(Signed(d, "+")), Texts(d, "+"))
    BY <1>2, <1>3, TextsOneMore
  <2> QED BY <1>2, <2>1, Zenon
<1>5. Cardinality(Signed(d, "+")) \in Nat /\ Spans(Texts(d, "+"), Cardinality(Signed(d, "+")))
  BY TextsSpan
<1>6. Cardinality(Q) \in Nat /\ Spans(Picked(b, Q), Cardinality(Q))
  BY <1>0, <1>1, PickedSpans
<1>7. Cardinality(Q) = Cardinality(Signed(d, "+"))
  BY <1>1, <1>5, <1>6, SameCount
<1>8. /\ Within({j} \union Q, j, B) /\ (j..B) \ ({j} \union Q) = ((j + 1)..B) \ Q
      /\ Picked(b, {j} \union Q) = Ahead(b[j], Cardinality(Q), Picked(b, Q))
  <2>1. Beyond(Q, j, B)
    BY <1>1 DEF Within, Beyond
  <2>2. Within({j} \union Q, j, B)
    BY <2>1, BeyondWithin
  <2>3. (j..B) \ ({j} \union Q) = ((j + 1)..B) \ Q
    <3>1. \A k : k \in j..B <=> k = j \/ k \in (j + 1)..B
      OBVIOUS
    <3>2. j \notin (j + 1)..B
      OBVIOUS
    <3> QED BY <3>1, <3>2
  <2>4. Picked(b, {j} \union Q) = Ahead(b[j], Cardinality(Q), Picked(b, Q))
    BY <2>1, BeyondPicked
  <2> QED BY <2>2, <2>3, <2>4
<1>9. Picked(b, {j} \union Q) = Texts(e, "+")
  BY <1>1, <1>4, <1>7, <1>8
<1> QED BY <1>1, <1>8, <1>9, <1>10, Zenon DEF Split

LEMMA SplitRemoved ==
  ASSUME NEW a, NEW b, NEW A \in Nat, NEW B \in Nat, NEW i \in 1..A, NEW j \in Nat, j > 0,
         NEW n \in Nat, NEW d, DOMAIN d = 1..n, NEW e, DOMAIN e = 1..(n + 1),
         e[1] = <<"-", a[i]>>, \A k \in 1..n : e[k + 1] = d[k],
         Split(a, b, A, B, i + 1, j, d)
  PROVE  Split(a, b, A, B, i, j, e)
<1>0. i + 1 \in Nat /\ i + 1 > 0
  OBVIOUS
<1>1. PICK P, Q : /\ Within(P, i + 1, A) /\ Within(Q, j, B)
                  /\ Picked(a, P) = Texts(d, "-") /\ Picked(b, Q) = Texts(d, "+")
                  /\ Picked(a, ((i + 1)..A) \ P) = Picked(b, (j..B) \ Q)
  BY Zenon DEF Split
<1>2. e[1][1] = "-" /\ e[1][2] = a[i]
  OBVIOUS
<1>3. OneMore(d, e, n) /\ "+" # "-"
  BY DEF OneMore
<1>10. Texts(e, "+") = Texts(d, "+")
  BY <1>2, <1>3, TextsOneMore
<1>4. Texts(e, "-") = Ahead(a[i], Cardinality(Signed(d, "-")), Texts(d, "-"))
  <2>1. Texts(e, "-") = Ahead(e[1][2], Cardinality(Signed(d, "-")), Texts(d, "-"))
    BY <1>2, <1>3, TextsOneMore, SMTT(40)
  <2> QED BY <1>2, <2>1, Zenon
<1>5. Cardinality(Signed(d, "-")) \in Nat /\ Spans(Texts(d, "-"), Cardinality(Signed(d, "-")))
  BY TextsSpan
<1>6. Cardinality(P) \in Nat /\ Spans(Picked(a, P), Cardinality(P))
  BY <1>0, <1>1, PickedSpans
<1>7. Cardinality(P) = Cardinality(Signed(d, "-"))
  BY <1>1, <1>5, <1>6, SameCount
<1>8. /\ Within({i} \union P, i, A) /\ (i..A) \ ({i} \union P) = ((i + 1)..A) \ P
      /\ Picked(a, {i} \union P) = Ahead(a[i], Cardinality(P), Picked(a, P))
  <2>1. Beyond(P, i, A)
    BY <1>1 DEF Within, Beyond
  <2>2. Within({i} \union P, i, A)
    BY <2>1, BeyondWithin
  <2>3. (i..A) \ ({i} \union P) = ((i + 1)..A) \ P
    <3>1. \A k : k \in i..A <=> k = i \/ k \in (i + 1)..A
      OBVIOUS
    <3>2. i \notin (i + 1)..A
      OBVIOUS
    <3> QED BY <3>1, <3>2
  <2>4. Picked(a, {i} \union P) = Ahead(a[i], Cardinality(P), Picked(a, P))
    BY <2>1, BeyondPicked
  <2> QED BY <2>2, <2>3, <2>4
<1>9. Picked(a, {i} \union P) = Texts(e, "-")
  BY <1>1, <1>4, <1>7, <1>8
<1> QED BY <1>1, <1>8, <1>9, <1>10, Zenon DEF Split

Lines(T) == {"+", "-"} \X T

(* A diff d of a, from i on, and b, from j on, that keeps c elements.      *)
DiffOf(a, b, A, B, T, i, j, c, d) ==
  /\ d \in Seq(Lines(T))
  /\ Len(d) + 2 * c = (A + 1 - i) + (B + 1 - j)
  /\ Longest(a, b, A, B, i, j, c)
  /\ Split(a, b, A, B, i, j, d)

LEMMA DiffAtEnd ==
  ASSUME NEW a, NEW b, NEW T, NEW A \in Nat, NEW B \in Nat
  PROVE  DiffOf(a, b, A, B, T, A + 1, B + 1, 0, <<>>)
<1>1. Longest(a, b, A, B, A + 1, B + 1, 0)
  <2>1. A + 1 \in Nat /\ A + 1 > 0 /\ B + 1 \in Nat /\ B + 1 > 0 /\ A + 1 > A
    OBVIOUS
  <2> QED BY <2>1, LongestAtEnd
<1>2. Split(a, b, A, B, A + 1, B + 1, <<>>)
  BY SplitAtEnd
<1>3. <<>> \in Seq(Lines(T))
  OBVIOUS
<1>4. Len(<<>>) + 2 * 0 = (A + 1 - (A + 1)) + (B + 1 - (B + 1))
  OBVIOUS
<1> QED BY <1>1, <1>2, <1>3, <1>4 DEF DiffOf

LEMMA DiffSame ==
  ASSUME NEW a, NEW b, NEW T, NEW A \in Nat, NEW B \in Nat, NEW i \in 1..A, NEW j \in 1..B, a[i] = b[j],
         NEW c \in Nat, NEW d, DiffOf(a, b, A, B, T, i + 1, j + 1, c, d)
  PROVE  DiffOf(a, b, A, B, T, i, j, c + 1, d)
<1>1. /\ d \in Seq(Lines(T))
      /\ Len(d) + 2 * c = (A + 1 - (i + 1)) + (B + 1 - (j + 1))
      /\ Longest(a, b, A, B, i + 1, j + 1, c)
      /\ Split(a, b, A, B, i + 1, j + 1, d)
  BY DEF DiffOf
<1>2. Longest(a, b, A, B, i, j, c + 1)
  BY <1>1, LongestSame, Zenon
<1>3. Split(a, b, A, B, i, j, d)
  BY <1>1, SplitSame, Zenon
<1>4. Len(d) + 2 * (c + 1) = (A + 1 - i) + (B + 1 - j)
  <2>1. PICK n \in Nat : Len(d) = n
    BY <1>1
  <2>2. n + 2 * c = (A + 1 - (i + 1)) + (B + 1 - (j + 1))
    BY <1>1, <2>1
  <2>3. n + 2 * (c + 1) = (A + 1 - i) + (B + 1 - j)
    BY <2>2
  <2> QED BY <2>1, <2>3
<1> QED BY <1>1, <1>2, <1>3, <1>4 DEF DiffOf

(* e is the line x and then the diff d.                                    *)
Longer(x, d, e) ==
  /\ Len(d) \in Nat /\ DOMAIN d = 1..Len(d)
  /\ Len(e) = Len(d) + 1 /\ DOMAIN e = 1..(Len(d) + 1)
  /\ e[1] = x /\ \A k \in 1..Len(d) : e[k + 1] = d[k]

LEMMA LineAheadOf ==
  ASSUME NEW S, NEW t \in Seq(S), NEW d \in Seq(S)
  PROVE  Len(t) = 1 => Longer(t[1], d, t \o d) /\ t \o d \in Seq(S)
<1> DEFINE e == t \o d
<1>1. e \in Seq(S) /\ Len(e) = Len(t) + Len(d) /\ Len(t) \in Nat /\ Len(d) \in Nat
  OBVIOUS
<1>2. \A p \in 1..(Len(t) + Len(d)) : e[p] = IF p <= Len(t) THEN t[p] ELSE d[p - Len(t)]
  OBVIOUS
<1> HIDE DEF e
<1> HAVE Len(t) = 1
<1>3. DOMAIN d = 1..Len(d) /\ DOMAIN e = 1..Len(e)
  BY <1>1
<1>4. Len(e) = Len(d) + 1
  BY <1>1
<1>5. e[1] = t[1]
  BY <1>1, <1>2
<1>6. ASSUME NEW k \in 1..Len(d) PROVE e[k + 1] = d[k]
  <2>1. k + 1 \in 1..(Len(t) + Len(d)) /\ ~(k + 1 <= Len(t)) /\ (k + 1) - Len(t) = k
    BY <1>1
  <2> QED BY <1>2, <2>1
<1>7. Longer(t[1], d, e)
  BY <1>1, <1>3, <1>4, <1>5, <1>6 DEF Longer
<1> QED BY <1>1, <1>7 DEF e

LEMMA LineAhead ==
  ASSUME NEW T, NEW d \in Seq(Lines(T)), NEW x \in Lines(T)
  PROVE  Longer(x, d, <<x>> \o d) /\ <<x>> \o d \in Seq(Lines(T))
<1>1. PICK t \in Seq(Lines(T)) : t = <<x>> /\ Len(t) = 1 /\ t[1] = x
  <2>1. <<x>> \in Seq(Lines(T))
    OBVIOUS
  <2>2. Len(<<x>>) = 1
    OBVIOUS
  <2>3. <<x>>[1] = x
    OBVIOUS
  <2> QED BY <2>1, <2>2, <2>3
<1>2. Longer(t[1], d, t \o d) /\ t \o d \in Seq(Lines(T))
  BY <1>1, LineAheadOf, Zenon
<1> QED BY <1>1, <1>2, Zenon

LEMMA DiffAdded ==
  ASSUME NEW a, NEW b, NEW T, NEW A \in Nat, NEW B \in Nat, NEW i \in 1..(A + 1), NEW j \in 1..B, b[j] \in T,
         NEW c \in Nat, NEW d, DiffOf(a, b, A, B, T, i, j + 1, c, d), Longest(a, b, A, B, i, j, c)
  PROVE  DiffOf(a, b, A, B, T, i, j, c, <<<<"+", b[j]>>>> \o d)
<1> DEFINE e == <<<<"+", b[j]>>>> \o d
<1>1. /\ d \in Seq(Lines(T))
      /\ Len(d) + 2 * c = (A + 1 - i) + (B + 1 - (j + 1))
      /\ Split(a, b, A, B, i, j + 1, d)
  BY DEF DiffOf
<1>2. <<"+", b[j]>> \in Lines(T)
  BY DEF Lines
<1>3. /\ Len(d) \in Nat /\ DOMAIN d = 1..Len(d)
      /\ e \in Seq(Lines(T))
      /\ Len(e) = Len(d) + 1 /\ DOMAIN e = 1..(Len(d) + 1)
      /\ e[1] = <<"+", b[j]>> /\ \A k \in 1..Len(d) : e[k + 1] = d[k]
  <2>1. Longer(<<"+", b[j]>>, d, e) /\ e \in Seq(Lines(T))
    BY <1>1, <1>2, LineAhead, Zenon
  <2> HIDE DEF e
  <2> QED BY <2>1 DEF Longer
<1> HIDE DEF e
<1>4. Split(a, b, A, B, i, j, e)
  <2>1. i \in Nat /\ i > 0
    OBVIOUS
  <2> QED BY <1>1, <1>3, <2>1, SplitAdded
<1>5. Len(e) + 2 * c = (A + 1 - i) + (B + 1 - j)
  <2>1. PICK n \in Nat : Len(d) = n
    BY <1>3
  <2>2. n + 2 * c = (A + 1 - i) + (B + 1 - (j + 1))
    BY <1>1, <2>1
  <2>3. n + 1 + 2 * c = (A + 1 - i) + (B + 1 - j)
    BY <2>2
  <2> QED BY <1>3, <2>1, <2>3
<1> QED BY <1>1, <1>3, <1>4, <1>5 DEF DiffOf, e

LEMMA DiffRemoved ==
  ASSUME NEW a, NEW b, NEW T, NEW A \in Nat, NEW B \in Nat, NEW i \in 1..A, NEW j \in 1..(B + 1), a[i] \in T,
         NEW c \in Nat, NEW d, DiffOf(a, b, A, B, T, i + 1, j, c, d), Longest(a, b, A, B, i, j, c)
  PROVE  DiffOf(a, b, A, B, T, i, j, c, <<<<"-", a[i]>>>> \o d)
<1> DEFINE e == <<<<"-", a[i]>>>> \o d
<1>1. /\ d \in Seq(Lines(T))
      /\ Len(d) + 2 * c = (A + 1 - (i + 1)) + (B + 1 - j)
      /\ Split(a, b, A, B, i + 1, j, d)
  BY DEF DiffOf
<1>2. <<"-", a[i]>> \in Lines(T)
  BY DEF Lines
<1>3. /\ Len(d) \in Nat /\ DOMAIN d = 1..Len(d)
      /\ e \in Seq(Lines(T))
      /\ Len(e) = Len(d) + 1 /\ DOMAIN e = 1..(Len(d) + 1)
      /\ e[1] = <<"-", a[i]>> /\ \A k \in 1..Len(d) : e[k + 1] = d[k]
  <2>1. Longer(<<"-", a[i]>>, d, e) /\ e \in Seq(Lines(T))
    BY <1>1, <1>2, LineAhead, Zenon
  <2> HIDE DEF e
  <2> QED BY <2>1 DEF Longer
<1> HIDE DEF e
<1>4. Split(a, b, A, B, i, j, e)
  <2>1. j \in Nat /\ j > 0
    OBVIOUS
  <2> QED BY <1>1, <1>3, <2>1, SplitRemoved
<1>5. Len(e) + 2 * c = (A + 1 - i) + (B + 1 - j)
  <2>1. PICK n \in Nat : Len(d) = n
    BY <1>3
  <2>2. n + 2 * c = (A + 1 - (i + 1)) + (B + 1 - j)
    BY <1>1, <2>1
  <2>3. n + 1 + 2 * c = (A + 1 - i) + (B + 1 - j)
    BY <2>2
  <2> QED BY <1>3, <2>1, <2>3
<1> QED BY <1>1, <1>3, <1>4, <1>5 DEF DiffOf, e

CommonAt(a, b, i, j) == CommonOf(a, b)[<<i, j>>]
LinesAt(a, b, i, j)  == MarkedOf(a, b)[<<i, j>>]

(* A cell of either table, from the cells it looks at.                     *)
CellFromNext(a, b, A, B, i, j) ==
  /\ CommonAt(a, b, i, j) =
       IF i > A \/ j > B THEN 0
       ELSE IF a[i] = b[j] THEN CommonAt(a, b, i + 1, j + 1) + 1
       ELSE Max({CommonAt(a, b, i + 1, j), CommonAt(a, b, i, j + 1)})
  /\ LinesAt(a, b, i, j) =
       IF i > A /\ j > B THEN <<>>
       ELSE IF i <= A /\ j <= B /\ a[i] = b[j] THEN LinesAt(a, b, i + 1, j + 1)
       ELSE IF j <= B /\ (i > A \/ CommonAt(a, b, i, j + 1) >= CommonAt(a, b, i + 1, j))
       THEN <<<<"+", b[j]>>>> \o LinesAt(a, b, i, j + 1)
       ELSE <<<<"-", a[i]>>>> \o LinesAt(a, b, i + 1, j)

LEMMA CellIs ==
  ASSUME NEW a, NEW b, NEW A \in Nat, NEW B \in Nat, Len(a) = A, Len(b) = B,
         NEW i \in 1..(A + 1), NEW j \in 1..(B + 1)
  PROVE  CellFromNext(a, b, A, B, i, j)
<1>1. PICK p \in (1..(Len(a) + 1)) \X (1..(Len(b) + 1)) : p = <<i, j>> /\ p[1] = i /\ p[2] = j
  <2>1. <<i, j>> \in (1..(Len(a) + 1)) \X (1..(Len(b) + 1))
    OBVIOUS
  <2>2. <<i, j>>[1] = i
    OBVIOUS
  <2>3. <<i, j>>[2] = j
    OBVIOUS
  <2> QED BY <2>1, <2>2, <2>3, Zenon
<1>2. Len(a) \in Nat /\ Len(b) \in Nat
  OBVIOUS
<1>3. CommonOf(a, b)[p] = Common(a, b, p, CommonOf(a, b))
  BY <1>1, <1>2, TablesAre
<1>4. MarkedOf(a, b)[p] = Marked(a, b, CommonOf(a, b), p, MarkedOf(a, b))
  BY <1>1, <1>2, TablesAre
<1>5. CommonAt(a, b, i, j) =
              IF i > A \/ j > B THEN 0
              ELSE IF a[i] = b[j] THEN CommonAt(a, b, i + 1, j + 1) + 1
              ELSE Max({CommonAt(a, b, i + 1, j), CommonAt(a, b, i, j + 1)})
  BY <1>1, <1>3, Zenon DEF Common, CommonAt
<1>6. LinesAt(a, b, i, j) =
              IF i > A /\ j > B THEN <<>>
              ELSE IF i <= A /\ j <= B /\ a[i] = b[j] THEN LinesAt(a, b, i + 1, j + 1)
              ELSE IF j <= B /\ (i > A \/ CommonAt(a, b, i, j + 1) >= CommonAt(a, b, i + 1, j))
              THEN <<<<"+", b[j]>>>> \o LinesAt(a, b, i, j + 1)
              ELSE <<<<"-", a[i]>>>> \o LinesAt(a, b, i + 1, j)
  BY <1>1, <1>4, Zenon DEF Marked, CommonAt, LinesAt
<1> QED BY <1>5, <1>6, Zenon DEF CellFromNext

(* The cell at i and j holds the diff of what is left of a and b there.    *)
CellHolds(a, b, A, B, T, i, j) ==
  CommonAt(a, b, i, j) \in Nat /\ DiffOf(a, b, A, B, T, i, j, CommonAt(a, b, i, j), LinesAt(a, b, i, j))

LEMMA CellFollows ==
  ASSUME NEW T, NEW a \in Seq(T), NEW b \in Seq(T), NEW A \in Nat, NEW B \in Nat, Len(a) = A, Len(b) = B,
         NEW i \in 1..(A + 1), NEW j \in 1..(B + 1),
         i <= A => CellHolds(a, b, A, B, T, i + 1, j),
         j <= B => CellHolds(a, b, A, B, T, i, j + 1),
         i <= A /\ j <= B => CellHolds(a, b, A, B, T, i + 1, j + 1)
  PROVE  CellHolds(a, b, A, B, T, i, j)
<1> DEFINE c == CommonAt(a, b, i, j)
           d == LinesAt(a, b, i, j)
           right == CommonAt(a, b, i + 1, j)
           down  == CommonAt(a, b, i, j + 1)
           next  == CommonAt(a, b, i + 1, j + 1)
<1>0. (i <= A => a[i] \in T) /\ (j <= B => b[j] \in T)
  OBVIOUS
<1>10. CellFromNext(a, b, A, B, i, j)
  BY CellIs
<1>1. c = IF i > A \/ j > B THEN 0 ELSE IF a[i] = b[j] THEN next + 1 ELSE Max({right, down})
  BY <1>10, Zenon DEF CellFromNext
<1>2. d = IF i > A /\ j > B THEN <<>>
          ELSE IF i <= A /\ j <= B /\ a[i] = b[j] THEN LinesAt(a, b, i + 1, j + 1)
          ELSE IF j <= B /\ (i > A \/ down >= right)
          THEN <<<<"+", b[j]>>>> \o LinesAt(a, b, i, j + 1)
          ELSE <<<<"-", a[i]>>>> \o LinesAt(a, b, i + 1, j)
  BY <1>10, Zenon DEF CellFromNext
<1>3. /\ i <= A => right \in Nat /\ DiffOf(a, b, A, B, T, i + 1, j, right, LinesAt(a, b, i + 1, j))
      /\ j <= B => down \in Nat /\ DiffOf(a, b, A, B, T, i, j + 1, down, LinesAt(a, b, i, j + 1))
      /\ i <= A /\ j <= B => next \in Nat /\ DiffOf(a, b, A, B, T, i + 1, j + 1, next, LinesAt(a, b, i + 1, j + 1))
  BY Zenon DEF CellHolds
<1> HIDE DEF c, d, right, down, next
<1>4. (~(i <= A) <=> i > A) /\ (~(j <= B) <=> j > B)
  OBVIOUS
<1> SUFFICES c \in Nat /\ DiffOf(a, b, A, B, T, i, j, c, d)
  BY Zenon DEF CellHolds, c, d
<1>5. CASE i > A /\ j > B
  <2>1. c = 0 /\ d = <<>>
    BY <1>1, <1>2, <1>5, Zenon
  <2>2. i = A + 1 /\ j = B + 1
    BY <1>5
  <2>3. DiffOf(a, b, A, B, T, A + 1, B + 1, 0, <<>>)
    BY DiffAtEnd
  <2>4. DiffOf(a, b, A, B, T, i, j, c, d)
    BY <2>1, <2>2, <2>3, Zenon
  <2> QED BY <2>1, <2>4
<1>6. CASE i > A /\ j <= B
  <2>1. c = 0 /\ d = <<<<"+", b[j]>>>> \o LinesAt(a, b, i, j + 1)
    BY <1>1, <1>2, <1>4, <1>6, Zenon
  <2>2. down = 0
    <3>1. j + 1 \in 1..(B + 1)
      BY <1>6
    <3>2. PICK k \in 1..(B + 1) : k = j + 1
      BY <3>1
    <3>3. CellFromNext(a, b, A, B, i, k)
      BY <3>2, CellIs
    <3>4. CommonAt(a, b, i, k) = 0
      BY <1>6, <3>3, Zenon DEF CellFromNext
    <3> QED BY <3>2, <3>4, Zenon DEF down
  <2>3. DiffOf(a, b, A, B, T, i, j + 1, 0, LinesAt(a, b, i, j + 1))
    BY <1>3, <1>6, <2>2
  <2>4. j \in 1..B /\ i \in Nat /\ i > 0 /\ j \in Nat /\ j > 0 /\ (i > A \/ j > B)
    BY <1>6
  <2>5. Longest(a, b, A, B, i, j, 0)
    BY <2>4, LongestAtEnd
  <2>6. b[j] \in T /\ 0 \in Nat
    BY <1>0, <1>6
  <2>7. DiffOf(a, b, A, B, T, i, j, 0, <<<<"+", b[j]>>>> \o LinesAt(a, b, i, j + 1))
    BY <2>3, <2>4, <2>5, <2>6, DiffAdded, Zenon
  <2> QED BY <2>1, <2>7
<1>7. CASE i <= A /\ j > B
  <2>1. c = 0 /\ d = <<<<"-", a[i]>>>> \o LinesAt(a, b, i + 1, j)
    BY <1>1, <1>2, <1>4, <1>7, Zenon
  <2>2. right = 0
    <3>1. i + 1 \in 1..(A + 1)
      BY <1>7
    <3>2. PICK k \in 1..(A + 1) : k = i + 1
      BY <3>1
    <3>3. CellFromNext(a, b, A, B, k, j)
      BY <3>2, CellIs
    <3>4. CommonAt(a, b, k, j) = 0
      BY <1>7, <3>3, Zenon DEF CellFromNext
    <3> QED BY <3>2, <3>4, Zenon DEF right
  <2>3. DiffOf(a, b, A, B, T, i + 1, j, 0, LinesAt(a, b, i + 1, j))
    BY <1>3, <1>7, <2>2
  <2>4. i \in 1..A /\ i \in Nat /\ i > 0 /\ j \in Nat /\ j > 0 /\ (i > A \/ j > B)
    BY <1>7
  <2>5. Longest(a, b, A, B, i, j, 0)
    BY <2>4, LongestAtEnd
  <2>6. a[i] \in T /\ 0 \in Nat
    BY <1>0, <1>7
  <2>7. DiffOf(a, b, A, B, T, i, j, 0, <<<<"-", a[i]>>>> \o LinesAt(a, b, i + 1, j))
    BY <2>3, <2>4, <2>5, <2>6, DiffRemoved, Zenon
  <2> QED BY <2>1, <2>7
<1>8. CASE i <= A /\ j <= B /\ a[i] = b[j]
  <2>1. c = next + 1 /\ d = LinesAt(a, b, i + 1, j + 1)
    BY <1>1, <1>2, <1>4, <1>8, Zenon
  <2>2. next \in Nat /\ DiffOf(a, b, A, B, T, i + 1, j + 1, next, d)
    BY <1>3, <1>8, <2>1
  <2>3. i \in 1..A /\ j \in 1..B
    BY <1>8
  <2>4. DiffOf(a, b, A, B, T, i, j, next + 1, d)
    BY <1>8, <2>2, <2>3, DiffSame, Zenon
  <2> QED BY <2>1, <2>2, <2>4
<1>9. CASE i <= A /\ j <= B /\ a[i] # b[j]
  <2>1. c = Max({right, down})
    BY <1>1, <1>4, <1>9, Zenon
  <2>2. right \in Nat /\ down \in Nat
    BY <1>3, <1>9
  <2>3. c \in Nat /\ c = (IF down >= right THEN down ELSE right)
    <3> DEFINE S == {right, down}
    <3>1. S \subseteq Nat /\ S # {} /\ right + down \in Nat /\ \A x \in S : x <= right + down
      BY <2>2
    <3> HIDE DEF S
    <3>2. Max(S) \in S /\ \A x \in S : x <= Max(S)
      BY <3>1, MaxIs
    <3>3. c \in {right, down} /\ right <= c /\ down <= c
      BY <2>1, <3>2 DEF S
    <3> QED BY <2>2, <3>3
  <2>4. i \in 1..A /\ j \in 1..B /\ i \in 1..(A + 1) /\ j \in 1..(B + 1)
    BY <1>9
  <2>5. Longest(a, b, A, B, i + 1, j, right) /\ Longest(a, b, A, B, i, j + 1, down)
    BY <1>3, <1>9, Zenon DEF DiffOf
  <2>6. right <= c /\ down <= c
    BY <2>2, <2>3
  <2>7. Longest(a, b, A, B, i, j, c)
    BY <1>9, <2>2, <2>3, <2>4, <2>5, <2>6, LongestApart, Zenon
  <2>8. CASE down >= right
    <3>1. c = down /\ d = <<<<"+", b[j]>>>> \o LinesAt(a, b, i, j + 1)
      BY <1>2, <1>4, <1>9, <2>3, <2>8, Zenon
    <3>2. DiffOf(a, b, A, B, T, i, j + 1, c, LinesAt(a, b, i, j + 1)) /\ b[j] \in T
      BY <1>0, <1>3, <1>9, <3>1
    <3>3. DiffOf(a, b, A, B, T, i, j, c, <<<<"+", b[j]>>>> \o LinesAt(a, b, i, j + 1))
      BY <2>3, <2>4, <2>7, <3>2, DiffAdded, Zenon
    <3> QED BY <2>3, <3>1, <3>3
  <2>9. CASE ~(down >= right)
    <3>1. c = right /\ d = <<<<"-", a[i]>>>> \o LinesAt(a, b, i + 1, j)
      BY <1>2, <1>4, <1>9, <2>3, <2>9, Zenon
    <3>2. DiffOf(a, b, A, B, T, i + 1, j, c, LinesAt(a, b, i + 1, j)) /\ a[i] \in T
      BY <1>0, <1>3, <1>9, <3>1
    <3>3. DiffOf(a, b, A, B, T, i, j, c, <<<<"-", a[i]>>>> \o LinesAt(a, b, i + 1, j))
      BY <2>3, <2>4, <2>7, <3>2, DiffRemoved, Zenon
    <3> QED BY <2>3, <3>1, <3>3
  <2> QED BY <2>8, <2>9
<1> QED BY <1>4, <1>5, <1>6, <1>7, <1>8, <1>9, Zenon

(* From the last cell to the first.                                        *)
LEMMA CellsHold ==
  ASSUME NEW T, NEW a \in Seq(T), NEW b \in Seq(T), NEW A \in Nat, NEW B \in Nat, Len(a) = A, Len(b) = B
  PROVE  \A i \in 1..(A + 1), j \in 1..(B + 1) : CellHolds(a, b, A, B, T, i, j)
<1> DEFINE Fails(i, j) == ~CellHolds(a, b, A, B, T, i, j)
           Left == {n \in Nat : \E i \in 1..(A + 1), j \in 1..(B + 1) :
                      n = (A + 1 - i) + (B + 1 - j) /\ Fails(i, j)}
<1> HIDE DEF Fails
<1> SUFFICES ASSUME NEW i0 \in 1..(A + 1), NEW j0 \in 1..(B + 1), Fails(i0, j0) PROVE FALSE
  BY DEF Fails
<1>1. Left \subseteq Nat /\ Left # {}
  <2>1. (A + 1 - i0) + (B + 1 - j0) \in Nat
    OBVIOUS
  <2> QED BY <2>1
<1>2. PICK m \in Left : \A k \in Left : m <= k
  <2> HIDE DEF Left
  <2> QED BY <1>1, LeastExists
<1>3. PICK i \in 1..(A + 1), j \in 1..(B + 1) : m = (A + 1 - i) + (B + 1 - j) /\ Fails(i, j)
  BY <1>2
<1>4. ASSUME NEW k \in 1..(A + 1), NEW l \in 1..(B + 1), k + l > i + j PROVE ~Fails(k, l)
  <2> SUFFICES ASSUME Fails(k, l) PROVE FALSE
    OBVIOUS
  <2>1. (A + 1 - k) + (B + 1 - l) \in Left
    <3>1. (A + 1 - k) + (B + 1 - l) \in Nat
      OBVIOUS
    <3> QED BY <3>1
  <2>2. m <= (A + 1 - k) + (B + 1 - l)
    BY <1>2, <2>1
  <2> QED BY <1>3, <1>4, <2>2
<1>5. i <= A => CellHolds(a, b, A, B, T, i + 1, j)
  <2> HAVE i <= A
  <2>1. i + 1 \in 1..(A + 1) /\ i + 1 + j > i + j
    OBVIOUS
  <2>2. ~Fails(i + 1, j)
    BY <1>4, <2>1
  <2> QED BY <2>2 DEF Fails
<1>6. j <= B => CellHolds(a, b, A, B, T, i, j + 1)
  <2> HAVE j <= B
  <2>1. j + 1 \in 1..(B + 1) /\ i + (j + 1) > i + j
    OBVIOUS
  <2>2. ~Fails(i, j + 1)
    BY <1>4, <2>1
  <2> QED BY <2>2 DEF Fails
<1>7. i <= A /\ j <= B => CellHolds(a, b, A, B, T, i + 1, j + 1)
  <2> HAVE i <= A /\ j <= B
  <2>1. i + 1 \in 1..(A + 1) /\ j + 1 \in 1..(B + 1) /\ i + 1 + (j + 1) > i + j
    OBVIOUS
  <2>2. ~Fails(i + 1, j + 1)
    BY <1>4, <2>1
  <2> QED BY <2>2 DEF Fails
<1>8. CellHolds(a, b, A, B, T, i, j)
  BY <1>5, <1>6, <1>7, CellFollows
<1> QED BY <1>3, <1>8 DEF Fails

LEMMA SpansSequence ==
  ASSUME NEW n \in Nat, NEW f, Spans(f, n), NEW T, \A k \in 1..n : f[k] \in T
  PROVE  f \in Seq(T) /\ Len(f) = n
<1>1. f \in [1..n -> T]
  <2>1. f = [k \in 1..n |-> f[k]]
    BY DEF Spans
  <2> DEFINE g == [k \in 1..n |-> f[k]]
  <2>2. g \in [1..n -> T]
    OBVIOUS
  <2> QED BY <2>1, <2>2, Zenon
<1> QED BY <1>1

(* The diff of a and b names the elements to take from a and to put into   *)
(* b, and no other diff is shorter.                                        *)
LEMMA DiffIsShortest ==
  ASSUME NEW T, NEW a \in Seq(T), NEW b \in Seq(T)
  PROVE  /\ \E P \in SUBSET DOMAIN a, Q \in SUBSET DOMAIN b :
              /\ Picked(a, P) = Texts(LineDiff(a, b), "-")
              /\ Picked(b, Q) = Texts(LineDiff(a, b), "+")
              /\ Picked(a, DOMAIN a \ P) = Picked(b, DOMAIN b \ Q)
         /\ \A P \in SUBSET DOMAIN a, Q \in SUBSET DOMAIN b :
              Picked(a, DOMAIN a \ P) = Picked(b, DOMAIN b \ Q) =>
                Len(a) + Len(b) - Len(LineDiff(a, b)) >= 2 * Len(Picked(a, DOMAIN a \ P))
<1>1. PICK A \in Nat, B \in Nat : Len(a) = A /\ Len(b) = B /\ DOMAIN a = 1..A /\ DOMAIN b = 1..B
  OBVIOUS
<1> DEFINE d == LineDiff(a, b)
<1>2. PICK c \in Nat : DiffOf(a, b, A, B, T, 1, 1, c, d)
  <2>1. 1 \in 1..(A + 1) /\ 1 \in 1..(B + 1)
    OBVIOUS
  <2>2. CellHolds(a, b, A, B, T, 1, 1)
    BY <1>1, <2>1, CellsHold
  <2>3. d = LinesAt(a, b, 1, 1)
    BY LineDiffIs, Zenon DEF LinesAt
  <2> HIDE DEF d
  <2> QED BY <2>2, <2>3, Zenon DEF CellHolds
<1> HIDE DEF d
<1>3. /\ d \in Seq(Lines(T)) /\ Len(d) + 2 * c = (A + 1 - 1) + (B + 1 - 1)
      /\ Longest(a, b, A, B, 1, 1, c) /\ Split(a, b, A, B, 1, 1, d)
  BY <1>2, Zenon DEF DiffOf
<1>4. \E P \in SUBSET DOMAIN a, Q \in SUBSET DOMAIN b :
        /\ Picked(a, P) = Texts(d, "-") /\ Picked(b, Q) = Texts(d, "+")
        /\ Picked(a, DOMAIN a \ P) = Picked(b, DOMAIN b \ Q)
  BY <1>1, <1>3, Zenon DEF Split, Within
<1>5. ASSUME NEW P \in SUBSET DOMAIN a, NEW Q \in SUBSET DOMAIN b,
             Picked(a, DOMAIN a \ P) = Picked(b, DOMAIN b \ Q)
      PROVE  Len(a) + Len(b) - Len(d) >= 2 * Len(Picked(a, DOMAIN a \ P))
  <2> DEFINE R == DOMAIN a \ P
             W == DOMAIN b \ Q
  <2>1. Within(R, 1, A) /\ Within(W, 1, B)
    BY <1>1 DEF Within
  <2> HIDE DEF R, W
  <2>2. Picked(a, R) = Picked(b, W)
    BY <1>5 DEF R, W
  <2>3. Cardinality(R) <= c
    BY <1>3, <2>1, <2>2, Zenon DEF Longest
  <2>4. Cardinality(R) \in Nat /\ Spans(Picked(a, R), Cardinality(R))
    BY <2>1, PickedSpans
  <2>5. Len(Picked(a, R)) = Cardinality(R)
    <3> DEFINE f == Picked(a, R)
               V == {f[k] : k \in 1..Cardinality(R)}
    <3>1. \A k \in 1..Cardinality(R) : f[k] \in V
      OBVIOUS
    <3> HIDE DEF f, V
    <3>2. Spans(f, Cardinality(R))
      BY <2>4 DEF f
    <3>3. Len(f) = Cardinality(R)
      BY <2>4, <3>1, <3>2, SpansSequence
    <3> QED BY <3>3 DEF f
  <2>6. PICK n \in Nat : n = Len(d)
    BY <1>3
  <2>7. A + B - n >= 2 * Cardinality(R)
    BY <1>3, <2>3, <2>4, <2>6
  <2> QED BY <1>1, <2>5, <2>6, <2>7 DEF R
<1> QED BY <1>4, <1>5 DEF d

(* The texts of the declarations of a file.                                *)
LEMMA TextsSequence ==
  ASSUME NEW file, IsFile(file)
  PROVE  \E n \in Nat : Spans(NormalizeDeclarations(file).kept, n)
<1>1. PICK n \in Nat : DOMAIN Kept(file) = 1..n
  BY KeptIs
<1>2. NormalizeDeclarations(file).kept = [i \in 1..n |-> Kept(file)[i].body]
  BY <1>1 DEF NormalizeDeclarations
<1>3. Spans(NormalizeDeclarations(file).kept, n)
  BY <1>2 DEF Spans
<1> QED BY <1>3

LEMMA FilesOfRelease ==
  ASSUME release \in Releases, ~Unparsable, NEW previous \in ResolvePrevious
  PROVE  /\ \A f \in DOMAIN release.dist : IsFile(release.dist[f])
         /\ \A f \in DOMAIN release.dists[previous] : IsFile(release.dists[previous][f])
<1>1. previous \in DOMAIN release.dists
  <2>1. previous \in release.published \union release.against /\ previous # NoTriple
    <3>1. CASE release.against # {}
      BY <3>1 DEF ResolvePrevious, Unparsable, Stable
    <3>2. CASE release.against = {}
      BY <3>2 DEF ResolvePrevious, Earlier, Stable
    <3> QED BY <3>1, <3>2
  <2>2. (release.published \union release.against) \ {NoTriple} \subseteq DOMAIN release.dists
    BY ReleasesAssumption
  <2> QED BY <2>1, <2>2
<1>2. ASSUME NEW d \in {release.dist} \union {release.dists[v] : v \in DOMAIN release.dists},
             NEW f \in DOMAIN d
      PROVE  IsFile(d[f])
  <2>1. /\ d[f].statements \in Seq(ToSet(d[f].statements))
        /\ \A st \in ToSet(d[f].statements) :
             ~IsLocalNamedExport(st) => st = [name |-> st.name, body |-> st.body]
    BY ReleasesAssumption, Zenon
  <2> QED BY <2>1, Zenon DEF IsFile
<1> QED BY <1>1, <1>2

LEMMA DifferencesNamed ==
  ASSUME ApiInv
  PROVE  DifferencesAreNamed
<1> SUFFICES ASSUME answer # <<>> PROVE DifferencesAreNamed
  BY DEF DifferencesAreNamed
<1>1. PICK previous : previous \in ResolvePrevious /\ ~Unparsable /\ answer = Found(previous) /\ release \in Releases
  BY DEF ApiInv, ApiIdle
<1>2. answer.previous = previous /\ answer.differences = CompareDist(release.dists[previous], release.dist)
  BY <1>1 DEF Found
<1>3. ASSUME NEW f \in DOMAIN answer.differences, f \in DOMAIN release.dist, f \in DOMAIN release.dists[previous]
      PROVE  /\ answer.differences[f].diff =
                  LineDiff(NormalizeDeclarations(release.dists[previous][f]).kept,
                           NormalizeDeclarations(release.dist[f]).kept)
             /\ answer.differences[f].changed = ChangedNames(release.dists[previous][f], release.dist[f])
  <2> DEFINE r == [diff |-> LineDiff(NormalizeDeclarations(release.dists[previous][f]).kept,
                                     NormalizeDeclarations(release.dist[f]).kept),
                   changed |-> ChangedNames(release.dists[previous][f], release.dist[f])]
  <2>1. f \in DOMAIN release.dists[previous] \intersect DOMAIN release.dist
    BY <1>3
  <2>2. answer.differences[f] = r
    BY <1>2, <1>3, <2>1, Zenon DEF CompareDist
  <2>3. r.diff = LineDiff(NormalizeDeclarations(release.dists[previous][f]).kept,
                          NormalizeDeclarations(release.dist[f]).kept)
    OBVIOUS
  <2>4. r.changed = ChangedNames(release.dists[previous][f], release.dist[f])
    OBVIOUS
  <2> HIDE DEF r
  <2> QED BY <2>2, <2>3, <2>4, Zenon
<1>5. SUFFICES ASSUME NEW f \in DOMAIN answer.differences, f \in DOMAIN release.dist,
                      f \in DOMAIN release.dists[previous],
                      NEW before, before = release.dists[previous][f], NEW after, after = release.dist[f],
                      NEW a, a = NormalizeDeclarations(before).kept, NEW b, b = NormalizeDeclarations(after).kept,
                      NEW diff, diff = answer.differences[f].diff
               PROVE  /\ answer.differences[f].changed = {} => IsPermutation(Kept(before), Kept(after))
                      /\ \E P \in {P \in SUBSET DOMAIN a : Picked(a, P) = Texts(diff, "-")},
                            Q \in {P \in SUBSET DOMAIN b : Picked(b, P) = Texts(diff, "+")} :
                           Picked(a, DOMAIN a \ P) = Picked(b, DOMAIN b \ Q)
                      /\ \A c \in {Picked(a, DOMAIN a \ P) : P \in SUBSET DOMAIN a} \intersect
                                  {Picked(b, DOMAIN b \ P) : P \in SUBSET DOMAIN b} :
                           Len(a) + Len(b) - Len(diff) >= 2 * Len(c)
  BY <1>2, ZenonT(60) DEF DifferencesAreNamed, Texts, Signed
<1>6. /\ answer.differences[f].changed = {} => IsPermutation(Kept(before), Kept(after))
      /\ \E P \in SUBSET DOMAIN a, Q \in SUBSET DOMAIN b :
           /\ Picked(a, P) = Texts(diff, "-")
           /\ Picked(b, Q) = Texts(diff, "+")
           /\ Picked(a, DOMAIN a \ P) = Picked(b, DOMAIN b \ Q)
      /\ \A P \in SUBSET DOMAIN a, Q \in SUBSET DOMAIN b :
           Picked(a, DOMAIN a \ P) = Picked(b, DOMAIN b \ Q) =>
             Len(a) + Len(b) - Len(diff) >= 2 * Len(Picked(a, DOMAIN a \ P))
  <2>1. IsFile(before) /\ IsFile(after)
    BY <1>1, <1>5, FilesOfRelease
  <2>2. answer.differences[f].changed = ChangedNames(before, after) /\ diff = LineDiff(a, b)
    BY <1>3, <1>5, Zenon
  <2>3. answer.differences[f].changed = {} => IsPermutation(Kept(before), Kept(after))
    BY <2>1, <2>2, UnnamedIsOrder
  <2>4. PICK m \in Nat : Spans(a, m)
    BY <1>5, <2>1, TextsSequence
  <2>5. PICK n \in Nat : Spans(b, n)
    BY <1>5, <2>1, TextsSequence
  <2> DEFINE T == {a[k] : k \in 1..m} \union {b[k] : k \in 1..n}
  <2>6. (\A k \in 1..m : a[k] \in T) /\ (\A k \in 1..n : b[k] \in T)
    OBVIOUS
  <2> HIDE DEF T
  <2>7. a \in Seq(T)
    BY <2>4, <2>6, SpansSequence
  <2>8. b \in Seq(T)
    BY <2>5, <2>6, SpansSequence
  <2>9. /\ \E P \in SUBSET DOMAIN a, Q \in SUBSET DOMAIN b :
             /\ Picked(a, P) = Texts(LineDiff(a, b), "-")
             /\ Picked(b, Q) = Texts(LineDiff(a, b), "+")
             /\ Picked(a, DOMAIN a \ P) = Picked(b, DOMAIN b \ Q)
        /\ \A P \in SUBSET DOMAIN a, Q \in SUBSET DOMAIN b :
             Picked(a, DOMAIN a \ P) = Picked(b, DOMAIN b \ Q) =>
               Len(a) + Len(b) - Len(LineDiff(a, b)) >= 2 * Len(Picked(a, DOMAIN a \ P))
    BY <2>7, <2>8, DiffIsShortest
  <2> QED BY <2>2, <2>3, <2>9, Zenon
<1>7. \E P \in {P \in SUBSET DOMAIN a : Picked(a, P) = Texts(diff, "-")},
         Q \in {P \in SUBSET DOMAIN b : Picked(b, P) = Texts(diff, "+")} :
        Picked(a, DOMAIN a \ P) = Picked(b, DOMAIN b \ Q)
  BY <1>6, Zenon
<1>8. ASSUME NEW c \in {Picked(a, DOMAIN a \ P) : P \in SUBSET DOMAIN a} \intersect
                      {Picked(b, DOMAIN b \ P) : P \in SUBSET DOMAIN b}
      PROVE  Len(a) + Len(b) - Len(diff) >= 2 * Len(c)
  <2>1. PICK P \in SUBSET DOMAIN a : c = Picked(a, DOMAIN a \ P)
    BY <1>8, Zenon
  <2>2. PICK Q \in SUBSET DOMAIN b : c = Picked(b, DOMAIN b \ Q)
    BY <1>8, Zenon
  <2> QED BY <1>6, <2>1, <2>2, Zenon
<1> QED BY <1>6, <1>7, <1>8, Zenon

-----------------------------------------------------------------------------
(* The scripts, one at a time.                                             *)

ScriptsInv == MutationInv /\ BundlesInv /\ SurfaceInv /\ ApiInv /\ SmokeInv /\ LengthInv

LEMMA ScriptsStart == Init => ScriptsInv
<1> SUFFICES ASSUME Init PROVE ScriptsInv
  OBVIOUS
<1>1. exit = "running"
  BY DEF Init
<1>2. MutationInv
  BY <1>1 DEF Init, MutationInit, MutationInv
<1>3. BundlesInv
  <2>1. dist = built /\ unwritten = {} /\ (built = <<>> \/ built \in Builds)
        /\ (script # "strip-bundle-comments" => StripIdle)
    BY DEF Init, StripInit, StripIdle
  <2>2. Broken = {}
    BY <2>1 DEF Broken, SameProgram
  <2>3. BundlesKeepProgram
    BY <1>1, <2>1, <2>2 DEF BundlesKeepProgram
  <2> QED BY <1>1, <2>1, <2>3 DEF BundlesInv
<1>4. SurfaceInv
  <2>1. CASE script # "check-published-surface"
    BY <2>1 DEF Init, SurfaceInv
  <2>2. CASE script = "check-published-surface"
    <3>1. (\E p \in Published : readme = p.readme) /\ check = "links" /\ link = <<>>
      BY <2>2 DEF Init, SurfaceInit
    <3> QED BY <1>1, <2>2, <3>1 DEF SurfaceInv
  <2> QED BY <2>1, <2>2
<1>5. SmokeInv
  <2>1. /\ script # "dogfood-smoke-test" => SmokeIdle
        /\ section = "artifacts" /\ consumerDir = "none" /\ failures = {}
    BY DEF Init, SmokeInit, SmokeIdle
  <2> QED BY <1>1, <2>1 DEF SmokeInv
<1>6. LengthInv
  BY <1>1 DEF Init, LengthInv
<1>7. ApiInv
  <2>1. CASE script # "check-api-surface"
    BY <2>1 DEF Init, ApiInv
  <2>2. CASE script = "check-api-surface"
    BY <1>1, <2>2 DEF Init, ApiInit, ApiInv
  <2> QED BY <2>1, <2>2
<1> QED BY <1>2, <1>3, <1>4, <1>5, <1>6, <1>7 DEF ScriptsInv

LEMMA ScriptsGoOn == ScriptsInv /\ [Next]_vars => ScriptsInv'
<1> SUFFICES ASSUME ScriptsInv, [Next]_vars PROVE ScriptsInv'
  OBVIOUS
<1> USE DEF ScriptsInv
<1>1. CASE Mutate
  <2>1. /\ script = "mutate-const-tables" /\ script' = script /\ exit = "running"
        /\ UNCHANGED <<stripVars, surfaceVars, apiVars, smokeVars, lengthVars>> /\ MutationNext
    BY <1>1 DEF Mutate, MutationNext, NoCommand, Baseline, MutantTested, Interrupt, Runs
  <2> QED BY <2>1, MutationStep, BundlesRest, SurfaceRest, ApiRest, SmokeRest, LengthRest
<1>2. CASE StripBundles
  <2>1. /\ script = "strip-bundle-comments" /\ script' = script /\ exit = "running"
        /\ UNCHANGED <<mutationVars, surfaceVars, apiVars, smokeVars, lengthVars>> /\ StripNext
    BY <1>2 DEF StripBundles, StripNext, StripDirectory, WriteBundle, WriteFails, Runs
  <2> QED BY <2>1, StripStep, MutationRest, SurfaceRest, ApiRest, SmokeRest, LengthRest
<1>3. CASE CheckSurface
  <2>1. /\ script = "check-published-surface" /\ script' = script /\ exit = "running"
        /\ UNCHANGED <<mutationVars, stripVars, apiVars, smokeVars, lengthVars>> /\ SurfaceNext
    BY <1>3, SurfaceNextRuns DEF CheckSurface
  <2> QED BY <2>1, SurfaceStep, MutationRest, BundlesRest, ApiRest, SmokeRest, LengthRest
<1>4. CASE CheckApi
  <2>1. /\ script = "check-api-surface" /\ script' = script /\ exit = "running"
        /\ UNCHANGED <<mutationVars, stripVars, surfaceVars, smokeVars, lengthVars>> /\ ApiNext
    BY <1>4 DEF CheckApi, ApiNext, Unresolved, Compare, Runs
  <2> QED BY <2>1, ApiStep, MutationRest, BundlesRest, SurfaceRest, SmokeRest, LengthRest
<1>5. CASE Smoke
  <2>1. /\ script = "dogfood-smoke-test" /\ script' = script /\ exit = "running"
        /\ UNCHANGED <<mutationVars, stripVars, surfaceVars, apiVars, lengthVars>> /\ SmokeNext
    BY <1>5 DEF Smoke, SmokeNext, Artifacts, Exports, Tarball, Scaffold, ScaffoldFails, Install, Cleanup,
                Section, Runs
  <2> QED BY <2>1, SmokeStep, MutationRest, BundlesRest, SurfaceRest, ApiRest, LengthRest
<1>6. CASE CheckLength
  <2>1. /\ script = "check-file-length" /\ script' = script /\ exit = "running"
        /\ UNCHANGED <<mutationVars, stripVars, surfaceVars, apiVars, smokeVars>> /\ CheckFileLength
    BY <1>6 DEF CheckLength, CheckFileLength, Runs
  <2> QED BY <2>1, LengthStep, MutationRest, BundlesRest, SurfaceRest, ApiRest, SmokeRest
<1>7. CASE UNCHANGED vars
  BY <1>7, MutationRest, BundlesRest, SurfaceRest, ApiRest, SmokeRest, LengthRest DEF vars
<1> QED BY <1>1, <1>2, <1>3, <1>4, <1>5, <1>6, <1>7 DEF Next

(* Wherever a script of the model stops, it leaves the tree as promised:   *)
(* the sources as they were, each bundle the program that was built but    *)
(* for the one whose write was cut, .docs-gate and the consumer removed    *)
(* unless they could not be filled or removed.                             *)
THEOREM TreeLeft == Spec => []TreeLeftAsPromised
<1>1. ScriptsInv => TreeLeftAsPromised
  BY MutationSafe, ListsRemain, SurfaceSafe, SmokeSafe DEF ScriptsInv, BundlesInv, TreeLeftAsPromised
<1> QED BY <1>1, ScriptsStart, ScriptsGoOn, PTL DEF Spec

(* Whatever a script reports is so: the survivors are the entries that no  *)
(* test pins, a strip of any bundle keeps program and licences, a link     *)
(* passes as live only when it leads to a page and fails only when it      *)
(* leads to none or breaks a rule of the gate, a green release says in its *)
(* CHANGELOG what changed in its types and a red one names it with the     *)
(* shortest diff there is, the smoke test passes what works, and no file   *)
(* over the limit grows.                                                   *)
THEOREM Verdicts == Spec => []VerdictsHold
<1>1. ScriptsInv => VerdictsHold
  BY MutationSafe, StripSafe, SurfaceSafe, ApiSafe, DifferencesNamed, SmokeSafe, LengthSafe
     DEF ScriptsInv, VerdictsHold
<1> QED BY <1>1, ScriptsStart, ScriptsGoOn, PTL DEF Spec
=============================================================================
