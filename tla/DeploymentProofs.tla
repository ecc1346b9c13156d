-------------------------- MODULE DeploymentProofs --------------------------
(***************************************************************************)
(* Proofs about applications that share a Redis, for every choice of       *)
(* applications, options and texts. IInv is about names: every key has the *)
(* prefix of its writer, whose namespace validation let pass. With it, the *)
(* keys of two namespaces never mix, a pattern stays behind its prefix and *)
(* a flush takes its own. StartInv is about starts: what an application    *)
(* that fails failed of, and what one that runs was built of. With it, the *)
(* clients are as promised, and a scope decides what Redis decides.        *)
(***************************************************************************)
EXTENDS Deployment, FiniteSetTheorems, WellFoundedInduction, NaturalsInduction, TLAPS

-----------------------------------------------------------------------------
(* Texts.                                                                  *)

(* A text is a prefix of another if they agree, character by character.    *)
LEMMA PrefixIs ==
  ASSUME NEW C, NEW p \in Seq(C), NEW key \in Seq(C)
  PROVE  IsPrefix(p, key) <=> \A i \in 1 .. Len(p) : i \in DOMAIN key /\ key[i] = p[i]
<1>1. Len(p) \in Nat /\ Len(key) \in Nat /\ DOMAIN key = 1 .. Len(key)
  OBVIOUS
<1>2. ASSUME IsPrefix(p, key) PROVE \A i \in 1 .. Len(p) : i \in DOMAIN key /\ key[i] = p[i]
  <2>1. Len(p) <= Len(key) /\ SubSeq(p, 1, Len(p)) = SubSeq(key, 1, Len(p))
    BY <1>2 DEF IsPrefix
  <2>2. \A i \in 1 .. Len(p) : SubSeq(p, 1, Len(p))[i] = p[i] /\ SubSeq(key, 1, Len(p))[i] = key[i]
    BY <2>1
  <2> QED BY <1>1, <2>1, <2>2
<1>3. ASSUME \A i \in 1 .. Len(p) : i \in DOMAIN key /\ key[i] = p[i] PROVE IsPrefix(p, key)
  <2>1. Len(p) <= Len(key)
    BY <1>1, <1>3
  <2>2. SubSeq(p, 1, Len(p)) = SubSeq(key, 1, Len(p))
    BY <1>1, <1>3, <2>1
  <2> QED BY <2>1, <2>2 DEF IsPrefix
<1> QED BY <1>2, <1>3

(* Two texts without a character c are the same if one of them, with c     *)
(* behind it, is a prefix of what begins with the other and c.             *)
LEMMA MarkedPrefix ==
  ASSUME NEW C, NEW m \in Seq(C), NEW n \in Seq(C), NEW c \in C, NEW x \in Seq(C),
         \A i \in DOMAIN m : m[i] # c,
         \A i \in DOMAIN n : n[i] # c,
         IsPrefix(m \o <<c>>, (n \o <<c>>) \o x)
  PROVE  m = n
<1> DEFINE p == m \o <<c>>
           q == n \o <<c>>
           k == q \o x
<1>1. /\ p \in Seq(C) /\ q \in Seq(C) /\ k \in Seq(C)
      /\ Len(p) = Len(m) + 1 /\ Len(q) = Len(n) + 1 /\ Len(k) = Len(q) + Len(x)
  OBVIOUS
<1>2. /\ \A i \in 1 .. Len(m) : p[i] = m[i]
      /\ p[Len(m) + 1] = c
  OBVIOUS
<1>3. /\ \A i \in 1 .. Len(n) : q[i] = n[i]
      /\ q[Len(n) + 1] = c
  OBVIOUS
<1>4. \A i \in 1 .. Len(q) : k[i] = q[i]
  BY <1>1
<1> HIDE DEF p, q, k
<1>5. IsPrefix(p, k)
  BY DEF p, q, k
<1>6. \A i \in 1 .. Len(p) : k[i] = p[i]
  BY <1>1, <1>5, PrefixIs
<1>7. Len(m) \in Nat /\ Len(n) \in Nat /\ DOMAIN m = 1 .. Len(m) /\ DOMAIN n = 1 .. Len(n)
  OBVIOUS
<1>8. ~(Len(m) < Len(n))
  <2> SUFFICES ASSUME Len(m) < Len(n) PROVE FALSE
    OBVIOUS
  <2>1. Len(m) + 1 \in 1 .. Len(p) /\ Len(m) + 1 \in 1 .. Len(q) /\ Len(m) + 1 \in 1 .. Len(n)
    BY <1>1, <1>7
  <2>2. k[Len(m) + 1] = n[Len(m) + 1]
    BY <2>1, <1>3, <1>4
  <2> QED BY <2>1, <2>2, <1>2, <1>6, <1>7
<1>9. ~(Len(n) < Len(m))
  <2> SUFFICES ASSUME Len(n) < Len(m) PROVE FALSE
    OBVIOUS
  <2>1. Len(n) + 1 \in 1 .. Len(p) /\ Len(n) + 1 \in 1 .. Len(q) /\ Len(n) + 1 \in 1 .. Len(m)
    BY <1>1, <1>7
  <2>2. k[Len(n) + 1] = c
    BY <2>1, <1>3, <1>4
  <2> QED BY <2>1, <2>2, <1>2, <1>6, <1>7
<1>10. Len(m) = Len(n)
  <2>1. \A a, b \in Nat : ~(a < b) /\ ~(b < a) => a = b
    OBVIOUS
  <2> QED BY <2>1, <1>7, <1>8, <1>9
<1>11. \A i \in 1 .. Len(m) : m[i] = n[i]
  <2> SUFFICES ASSUME NEW i \in 1 .. Len(m) PROVE m[i] = n[i]
    OBVIOUS
  <2>1. i \in 1 .. Len(p) /\ i \in 1 .. Len(q) /\ i \in 1 .. Len(n)
    BY <1>1, <1>7, <1>10
  <2> QED BY <2>1, <1>2, <1>3, <1>4, <1>6
<1> QED BY <1>7, <1>10, <1>11

(* A text that does not include a separator of one character has it at no  *)
(* position.                                                               *)
LEMMA NotIncluded ==
  ASSUME NEW C, NEW n \in Seq(C), NEW s \in Seq(C), Len(s) = 1, ~Includes(n, s)
  PROVE  \A i \in DOMAIN n : n[i] # s[1]
<1> SUFFICES ASSUME NEW i \in DOMAIN n, n[i] = s[1] PROVE FALSE
  OBVIOUS
<1>1. i - 1 \in 0 .. Len(n) - Len(s) /\ DOMAIN s = {1} /\ (i - 1) + 1 = i
  OBVIOUS
<1> QED BY <1>1 DEF Includes

-----------------------------------------------------------------------------
(* What a glob matches, by the table of the places where it may.           *)

(* A set of numbers that is not empty has a least one.                     *)
LEMMA LeastExists ==
  ASSUME NEW T, T \subseteq Nat, T # {}
  PROVE  \E m \in T : \A k \in T : m <= k
<1>1. PICK m \in T : \A k \in T : <<k, m>> \notin OpToRel(<, Nat)
  BY WFMin, NatLessThanWellFounded, Zenon
<1>2. \A k \in T : ~(k < m)
  BY <1>1, Zenon DEF OpToRel
<1> QED BY <1>2

(* Where the pattern may match from its i-th character on.                 *)
Row(pattern, key, from, i) ==
  IF i > Len(pattern) THEN {Len(key) + 1} ELSE Places(pattern, key, i, from[i + 1], from[i + 2])

(* from says of each character of the pattern where it may match.          *)
Rows(pattern, key, first, from) ==
  from = [i \in first .. Len(pattern) + 1 |-> Row(pattern, key, from, i)]

Tabulates(pattern, key, from) == \A i \in 1 .. Len(pattern) + 1 : from[i] = Row(pattern, key, from, i)

(* There is such a table: it is filled from the end of the pattern.        *)
LEMMA RowsExist ==
  ASSUME NEW pattern, NEW key, Len(pattern) \in Nat
  PROVE  \E from : Rows(pattern, key, 1, from)
<1> DEFINE n == Len(pattern)
           missing == {m \in 0 .. n : ~\E from : Rows(pattern, key, n + 1 - m, from)}
<1>1. ASSUME missing # {} PROVE FALSE
  <2>0. missing \subseteq Nat
    OBVIOUS
  <2> HIDE DEF missing
  <2>1. PICK m \in missing : \A k \in missing : m <= k
    BY <1>1, <2>0, LeastExists
  <2> USE DEF missing
  <2>2. CASE m = 0
    <3> DEFINE f == [i \in n + 1 .. n + 1 |-> {Len(key) + 1}]
    <3>1. \A i \in n + 1 .. n + 1 : Row(pattern, key, f, i) = {Len(key) + 1}
      BY DEF Row
    <3>2. Rows(pattern, key, n + 1, f)
      BY <3>1 DEF Rows
    <3> QED BY <2>2, <3>2
  <2>3. CASE m # 0
    <3>1. m \in Nat /\ m - 1 \in 0 .. n /\ ~(m <= m - 1)
      BY <2>3
    <3>2. m - 1 \notin missing
      <4> HIDE DEF missing
      <4> QED BY <3>1, <2>1
    <3>3. PICK f : Rows(pattern, key, n + 1 - (m - 1), f)
      BY <3>1, <3>2
    <3> DEFINE l == n + 1 - m
               g == [i \in l .. n + 1 |-> IF i = l THEN Row(pattern, key, f, l) ELSE f[i]]
    <3>4. l \in 1 .. n /\ n + 1 - (m - 1) = l + 1
      BY <3>1, <2>3
    <3> HIDE DEF l
    <3>5. \A i \in l + 1 .. n + 1 : f[i] = Row(pattern, key, f, i)
      BY <3>3, <3>4 DEF Rows
    <3>6. g[l] = Row(pattern, key, f, l) /\ \A i \in l + 1 .. n + 1 : g[i] = f[i]
      BY <3>4
    <3> HIDE DEF g
    <3>7. \A i \in l .. n + 1 : Row(pattern, key, g, i) = Row(pattern, key, f, i)
      <4> SUFFICES ASSUME NEW i \in l .. n + 1 PROVE Row(pattern, key, g, i) = Row(pattern, key, f, i)
        OBVIOUS
      <4>1. CASE i > n
        BY <4>1 DEF Row
      <4>2. CASE i < n
        BY <4>2, <3>4, <3>6 DEF Row
      <4>3. CASE i = n
        <5>1. g[n + 1] = f[n + 1]
          BY <3>4, <3>6
        <5>2. \A u, v : Places(pattern, key, n, f[n + 1], u) = Places(pattern, key, n, f[n + 1], v)
          BY DEF Places
        <5>3. ~(n > Len(pattern))
          OBVIOUS
        <5>4. /\ Row(pattern, key, g, n) = Places(pattern, key, n, g[n + 1], g[n + 2])
              /\ Row(pattern, key, f, n) = Places(pattern, key, n, f[n + 1], f[n + 2])
          BY <5>3, Zenon DEF Row
        <5> QED BY <4>3, <5>1, <5>2, <5>4, Zenon
      <4> QED BY <4>1, <4>2, <4>3, <3>4
    <3>8. \A i \in l .. n + 1 : g[i] = Row(pattern, key, g, i)
      <4> TAKE i \in l .. n + 1
      <4>1. i = l \/ i \in l + 1 .. n + 1
        BY <3>4
      <4> QED BY <4>1, <3>5, <3>6, <3>7
    <3>9. g = [i \in l .. n + 1 |-> g[i]]
      BY Zenon DEF g
    <3>10. Rows(pattern, key, l, g)
      BY <3>8, <3>9 DEF Rows
    <3> QED BY <3>10 DEF l
  <2> QED BY <2>2, <2>3
<1>2. n \in 0 .. n /\ n \notin missing /\ n + 1 - n = 1
  BY <1>1
<1> QED BY <1>2

(* Whether a glob matches can be read off its table.                       *)
LEMMA GlobRows ==
  ASSUME NEW pattern, NEW key, Len(pattern) \in Nat
  PROVE  \E from : /\ GlobMatches(pattern, key) <=> 1 \in from[1]
                   /\ Tabulates(pattern, key, from)
<1> DEFINE from == CHOOSE f : Rows(pattern, key, 1, f)
<1>1. Rows(pattern, key, 1, from)
  BY RowsExist
<1>2. GlobMatches(pattern, key) <=> 1 \in from[1]
  BY DEF GlobMatches, Rows, Row
<1>3. \A i \in 1 .. Len(pattern) + 1 : from[i] = Row(pattern, key, from, i)
  <2> HIDE DEF from
  <2> QED BY <1>1 DEF Rows
<1> QED BY <1>2, <1>3 DEF Tabulates

(* What a character that is no glob character matches: itself.             *)
LEMMA LiteralRow ==
  ASSUME NEW pattern, NEW key, NEW from, NEW i \in 1 .. Len(pattern), Len(pattern) \in Nat,
         pattern[i] \notin GlobMetacharacters
  PROVE  Row(pattern, key, from, i) = {j \in DOMAIN key : key[j] = pattern[i] /\ j + 1 \in from[i + 1]}
BY DEF Row, Places, GlobMetacharacters

(* The first l characters of the pattern are literal; the first l of the    *)
(* key are those.                                                          *)
Opens(pattern, l)       == \A i \in 1 .. l : pattern[i] \notin GlobMetacharacters
Agrees(pattern, key, l) == \A i \in 1 .. l : i \in DOMAIN key /\ key[i] = pattern[i]

(* A pattern matches through l literal characters if they are the first of *)
(* the key and the rest matches behind them.                               *)
LEMMA LiteralRows ==
  ASSUME NEW pattern, NEW key, NEW from, NEW l \in Nat, Len(pattern) \in Nat, l <= Len(pattern),
         Len(key) \in Nat, DOMAIN key = 1 .. Len(key), Opens(pattern, l), Tabulates(pattern, key, from)
  PROVE  1 \in from[1] <=> Agrees(pattern, key, l) /\ l + 1 \in from[l + 1]
<1> USE DEF Opens, Agrees, Tabulates
<1>1. ASSUME NEW i \in 1 .. l
      PROVE  from[i] = {j \in DOMAIN key : key[j] = pattern[i] /\ j + 1 \in from[i + 1]}
  <2>1. i \in 1 .. Len(pattern) /\ pattern[i] \notin GlobMetacharacters
    OBVIOUS
  <2>2. Row(pattern, key, from, i) = {j \in DOMAIN key : key[j] = pattern[i] /\ j + 1 \in from[i + 1]}
    BY <2>1, LiteralRow
  <2>3. from[i] = Row(pattern, key, from, i)
    BY <2>1
  <2> QED BY <2>2, <2>3
<1>2. ASSUME 1 \in from[1] PROVE \A i \in 1 .. l + 1 : i \in from[i]
  <2> DEFINE bad == {i \in 1 .. l + 1 : i \notin from[i]}
  <2>1. bad \subseteq Nat
    OBVIOUS
  <2>2. ASSUME bad # {} PROVE FALSE
    <3> HIDE DEF bad
    <3>1. PICK m \in bad : \A k \in bad : m <= k
      BY <2>1, <2>2, LeastExists
    <3> USE DEF bad
    <3>2. m - 1 \in 1 .. l /\ ~(m <= m - 1)
      BY <1>2
    <3>3. m - 1 \in from[m - 1]
      BY <3>1, <3>2
    <3> QED BY <1>1, <3>2, <3>3
  <2> QED BY <2>2
<1>3. ASSUME \A i \in 1 .. l : i \in DOMAIN key /\ key[i] = pattern[i], l + 1 \in from[l + 1]
      PROVE  1 \in from[1]
  <2> DEFINE good == {i \in 1 .. l + 1 : i \in from[i]}
  <2>1. good \subseteq Nat /\ l + 1 \in good
    BY <1>3
  <2> HIDE DEF good
  <2>2. PICK m \in good : \A k \in good : m <= k
    BY <2>1, LeastExists
  <2> USE DEF good
  <2>3. CASE m = 1
    BY <2>3
  <2>4. CASE m # 1
    <3>1. m - 1 \in 1 .. l /\ ~(m <= m - 1) /\ m - 1 \in DOMAIN key /\ key[m - 1] = pattern[m - 1]
      BY <1>3, <2>4
    <3>2. m - 1 \in from[m - 1]
      BY <1>1, <3>1
    <3>3. m - 1 \in good
      BY <3>1, <3>2
    <3> HIDE DEF good
    <3> QED BY <2>2, <3>1, <3>3
  <2> QED BY <2>3, <2>4
<1>4. 1 \in from[1] => (\A i \in 1 .. l : i \in DOMAIN key /\ key[i] = pattern[i]) /\ l + 1 \in from[l + 1]
  BY <1>1, <1>2
<1> QED BY <1>3, <1>4

(* A text without glob characters.                                        *)
Literal(p) == ToSet(p) \cap GlobMetacharacters = {}

(* A key that a pattern with a literal beginning matches begins with it.   *)
LEMMA LiteralBeginning ==
  ASSUME NEW C, NEW p \in Seq(C), NEW rest \in Seq(C), NEW key \in Seq(C), Literal(p),
         GlobMatches(p \o rest, key)
  PROVE  IsPrefix(p, key)
<1> DEFINE pattern == p \o rest
<1>1. /\ Len(pattern) \in Nat /\ Len(p) <= Len(pattern) /\ Len(p) \in Nat /\ Len(key) \in Nat
      /\ DOMAIN key = 1 .. Len(key)
      /\ Opens(pattern, Len(p)) /\ \A i \in 1 .. Len(p) : pattern[i] = p[i]
  BY DEF ToSet, Literal, Opens
<1>2. GlobMatches(pattern, key)
  OBVIOUS
<1> HIDE DEF pattern
<1>3. PICK from : /\ GlobMatches(pattern, key) <=> 1 \in from[1]
                  /\ Tabulates(pattern, key, from)
  BY <1>1, GlobRows
<1>4. Agrees(pattern, key, Len(p))
  BY <1>1, <1>2, <1>3, LiteralRows, Zenon
<1> QED BY <1>1, <1>4, PrefixIs DEF Agrees

(* A literal with a * behind it matches what begins with it.               *)
LEMMA StarMatches ==
  ASSUME NEW C, NEW p \in Seq(C), NEW key \in Seq(C), Literal(p), IsPrefix(p, key)
  PROVE  GlobMatches(p \o <<"*">>, key)
<1> DEFINE pattern == p \o <<"*">>
           n == Len(p) + 1
<1>1. /\ Len(pattern) = n /\ n \in Nat /\ Len(p) \in Nat /\ Len(p) <= Len(pattern)
      /\ Len(key) \in Nat /\ DOMAIN key = 1 .. Len(key) /\ pattern[n] = "*"
      /\ Opens(pattern, Len(p)) /\ \A i \in 1 .. Len(p) : pattern[i] = p[i]
  BY DEF ToSet, Literal, Opens
<1> HIDE DEF pattern
<1>2. PICK from : /\ GlobMatches(pattern, key) <=> 1 \in from[1]
                  /\ Tabulates(pattern, key, from)
  BY <1>1, GlobRows
<1>3. Agrees(pattern, key, Len(p))
  BY <1>1, PrefixIs DEF Agrees
<1>4. Len(p) <= Len(key)
  BY <1>1, <1>3 DEF Agrees
<1>5. from[n + 1] = {Len(key) + 1}
  BY <1>1, <1>2 DEF Row, Tabulates
<1>6. from[n] = Places(pattern, key, n, from[n + 1], from[n + 2])
  BY <1>1, <1>2 DEF Row, Tabulates
<1>7. from[n] = {j \in 1 .. Len(key) + 1 : \E k \in {Len(key) + 1} : j <= k}
  BY <1>1, <1>5, <1>6 DEF Places
<1>8. Len(p) + 1 \in from[Len(p) + 1]
  BY <1>1, <1>4, <1>7
<1>9. 1 \in from[1]
  BY <1>1, <1>2, <1>3, <1>8, LiteralRows, Zenon
<1> QED BY <1>2, <1>9 DEF pattern

(* A literal matches itself alone.                                         *)
LEMMA LiteralMatches ==
  ASSUME NEW C, NEW p \in Seq(C), NEW key \in Seq(C), Literal(p)
  PROVE  GlobMatches(p, key) <=> key = p
<1>1. /\ Len(p) \in Nat /\ Len(key) \in Nat /\ DOMAIN key = 1 .. Len(key) /\ DOMAIN p = 1 .. Len(p)
      /\ Opens(p, Len(p)) /\ Len(p) <= Len(p)
  BY DEF ToSet, Literal, Opens
<1>2. PICK from : /\ GlobMatches(p, key) <=> 1 \in from[1]
                  /\ Tabulates(p, key, from)
  BY <1>1, GlobRows
<1>3. from[Len(p) + 1] = {Len(key) + 1}
  BY <1>1, <1>2 DEF Row, Tabulates
<1>4. GlobMatches(p, key) <=> Agrees(p, key, Len(p)) /\ Len(p) + 1 \in from[Len(p) + 1]
  BY <1>1, <1>2, LiteralRows, Zenon
<1>5. Len(p) + 1 \in from[Len(p) + 1] <=> Len(p) = Len(key)
  <2>1. Len(p) + 1 \in {Len(key) + 1} <=> Len(p) = Len(key)
    <3>1. \A a, b \in Nat : a + 1 \in {b + 1} <=> a = b
      OBVIOUS
    <3> QED BY <1>1, <3>1, Zenon
  <2> QED BY <1>3, <2>1, Zenon
<1>6. ASSUME Agrees(p, key, Len(p)), Len(p) = Len(key) PROVE key = p
  <2>1. \A i \in 1 .. Len(p) : key[i] = p[i]
    BY <1>6, Zenon DEF Agrees
  <2> QED BY <1>1, <1>6, <2>1
<1>7. ASSUME key = p PROVE Agrees(p, key, Len(p)) /\ Len(p) = Len(key)
  <2>1. \A i \in 1 .. Len(p) : i \in DOMAIN p /\ p[i] = p[i]
    BY <1>1
  <2> QED BY <1>7, <2>1, Zenon DEF Agrees
<1> QED BY <1>4, <1>5, <1>6, <1>7, Zenon

-----------------------------------------------------------------------------
(* The inductive invariant.                                                *)

Text(t) == t \in Seq(Chars)

(* Resolved options that validation let pass.                              *)
Good(options) ==
  /\ Text(options.namespace) /\ Text(options.keySeparator)
  /\ NamespaceHolds(options.namespace, options.keySeparator)

FunctionInv ==
  /\ entry = [a \in Apps |-> entry[a]] /\ made = [a \in Apps |-> made[a]]
  /\ resolved = [a \in Apps |-> resolved[a]] /\ failure = [a \in Apps |-> failure[a]]

GivenInv == \E d \in Deployments :
  raw = [a \in Apps |-> d[a].cache] /\ admin = [a \in Apps |-> d[a].admin]

EntryInv == \A a \in Apps :
  /\ entry[a] = Null => made[a] = {}
  /\ entry[a] # Null => raw[a] # Null
  /\ entry[a] \in {Null, "forRoot", "forRootAsync"}

RefusalInv == \A a \in Apps :
  entry[a] = "forRoot" /\ failure[a] = Null => Refusal(raw[a]) = Null

ResolvedInv == \A a \in Apps : "OPTIONS" \in made[a] => Good(resolved[a])

StoreInv == \A w \in store :
  /\ w.owner \in Apps /\ "OPTIONS" \in made[w.owner]
  /\ \E x \in Seq(Chars) : w.key = GetNamespacePrefix(resolved[w.owner]) \o x

IInv == FunctionInv /\ GivenInv /\ EntryInv /\ RefusalInv /\ ResolvedInv /\ StoreInv

LEMMA NullDiffers ==
  /\ Null \notin {"forRoot", "forRootAsync", "tls"}
  /\ Null \notin {"INVALID_NAMESPACE", "SENTINEL_MISCONFIGURED", "CLUSTER_MISCONFIGURED", "CONNECTION_FAILED",
                 "INVALID_SCOPE", "Error", "unresolved dependency"}
BY NullAssumption, Zenon DEF NullAssumption

(* The options that are given are typed, and stay what they are.           *)
LEMMA RawTyped ==
  ASSUME GivenInv, NEW a \in Apps
  PROVE  /\ raw[a] # Null => CacheOptionsTyped(raw[a])
         /\ admin[a] # Null => AdminOptionsTyped(admin[a])
<1>1. PICK d \in Deployments : raw = [b \in Apps |-> d[b].cache] /\ admin = [b \in Apps |-> d[b].admin]
  BY Zenon DEF GivenInv
<1>2. /\ d[a].cache # Null => CacheOptionsTyped(d[a].cache)
      /\ d[a].admin # Null => AdminOptionsTyped(d[a].admin)
  BY DeploymentAssumption, Zenon DEF DeploymentAssumption
<1>3. raw[a] = d[a].cache /\ admin[a] = d[a].admin
  BY <1>1
<1> QED BY <1>2, <1>3, Zenon

LEMMA GivenStays ==
  ASSUME GivenInv, UNCHANGED <<raw, admin>>
  PROVE  GivenInv'
BY DEF GivenInv

(* Options that are not refused have a namespace that holds.               *)
LEMMA AcceptedHolds ==
  ASSUME NEW o, Refusal(o) = Null,
         {o.namespace, o.keySeparator} \subseteq Seq(Chars) \union {Null}
  PROVE  Good(ApplyDefaults(o))
<1>1. "INVALID_NAMESPACE" # Null
  BY NullDiffers
<1>2. NamespaceHolds(Or(o.namespace, DefaultNamespace), Or(o.keySeparator, DefaultKeySeparator))
  BY <1>1, Zenon DEF Refusal
<1>3. <<"a">> \in Seq(Chars) /\ <<":">> \in Seq(Chars)
  <2>1. "a" \in Chars /\ ":" \in Chars
    BY DeploymentAssumption
  <2> QED BY <2>1
<1>4. Text(Or(o.namespace, DefaultNamespace)) /\ Text(Or(o.keySeparator, DefaultKeySeparator))
  BY <1>3 DEF Or, Text, DefaultNamespace, DefaultKeySeparator
<1> QED BY <1>2, <1>4 DEF Good, ApplyDefaults

(* The resolved options are a provider of every application that runs.     *)
LEMMA OptionsProvided ==
  ASSUME NEW a, Running(a)
  PROVE  "OPTIONS" \in made[a]
<1>1. made[a] = DOMAIN Providers(a)
  BY DEF Running
<1>2. \A f, g : DOMAIN Also(f, g) = DOMAIN f \union DOMAIN g
  BY DEF Also
<1>3. "OPTIONS" \in DOMAIN SyncProviders /\ "OPTIONS" \in DOMAIN AsyncProviders
  BY <1>2 DEF SyncProviders, AsyncProviders
<1>4. "OPTIONS" \in DOMAIN Providers(a)
  BY <1>2, <1>3, ZenonT(40) DEF Providers
<1> QED BY <1>1, <1>4

-----------------------------------------------------------------------------
(* The steps.                                                              *)

(* The invariant holds at the start.                                       *)
LEMMA InitHolds ==
  ASSUME Init
  PROVE  IInv
<1>1. FunctionInv
  BY DEF Init, FunctionInv
<1>2. GivenInv
  BY DEF Init, GivenInv
<1>3. EntryInv /\ RefusalInv /\ ResolvedInv /\ StoreInv
  <2>1. "forRoot" # Null
    BY NullDiffers
  <2> QED BY <2>1 DEF Init, EntryInv, RefusalInv, ResolvedInv, StoreInv
<1> QED BY <1>1, <1>2, <1>3 DEF IInv

(* A registration leaves an application that was not registered before     *)
(* without providers, and with forRoot with options that were accepted.    *)
LEMMA Registered ==
  ASSUME IInv, NEW a \in Apps, ForRoot(a) \/ ForRootAsync(a)
  PROVE  /\ made[a] = {} /\ UNCHANGED <<raw, admin, made, store>>
         /\ \A b \in Apps \ {a} : /\ entry'[b] = entry[b] /\ failure'[b] = failure[b]
                                  /\ resolved'[b] = resolved[b]
         /\ FunctionInv' /\ raw[a] # Null /\ entry'[a] \in {"forRoot", "forRootAsync"}
         /\ entry'[a] = "forRoot" /\ failure'[a] = Null => Refusal(raw[a]) = Null
<1> DEFINE code == Or(Refusal(raw[a]), IF admin[a] = Null THEN Null ELSE AdminRefusal(admin[a]))
<1>1. /\ entry = [b \in Apps |-> entry[b]] /\ made = [b \in Apps |-> made[b]]
      /\ resolved = [b \in Apps |-> resolved[b]] /\ failure = [b \in Apps |-> failure[b]]
      /\ entry[a] = Null => made[a] = {}
  BY DEF IInv, FunctionInv, EntryInv
<1>2. CASE ForRootAsync(a)
  BY <1>1, <1>2 DEF ForRootAsync, clients, FunctionInv
<1>3. CASE ForRoot(a)
  <2>1. /\ raw[a] # Null /\ entry[a] = Null /\ entry' = [entry EXCEPT ![a] = "forRoot"]
        /\ UNCHANGED <<raw, admin, store>>
    BY <1>3 DEF ForRoot
  <2>2. CASE code # Null
    <3>1. failure' = [failure EXCEPT ![a] = code] /\ UNCHANGED <<resolved, made>>
      BY <1>3, <2>2 DEF ForRoot, Fail
    <3> HIDE DEF code
    <3> QED BY <1>1, <2>1, <2>2, <3>1 DEF FunctionInv
  <2>3. CASE code = Null
    <3>1. resolved' = [resolved EXCEPT ![a] = ApplyDefaults(raw[a])] /\ UNCHANGED <<made, failure>>
      BY <1>3, <2>3 DEF ForRoot
    <3>2. Refusal(raw[a]) = Null
      BY <2>3 DEF Or
    <3> QED BY <1>1, <2>1, <3>1, <3>2 DEF FunctionInv
  <2> QED BY <2>2, <2>3
<1> QED BY <1>2, <1>3

LEMMA RegistrationHolds ==
  ASSUME IInv, NEW a \in Apps, ForRoot(a) \/ ForRootAsync(a)
  PROVE  IInv'
<1>1. /\ made[a] = {} /\ UNCHANGED <<raw, admin, made, store>>
      /\ \A b \in Apps \ {a} : /\ entry'[b] = entry[b] /\ failure'[b] = failure[b]
                               /\ resolved'[b] = resolved[b]
      /\ FunctionInv' /\ raw[a] # Null /\ entry'[a] \in {"forRoot", "forRootAsync"}
      /\ entry'[a] = "forRoot" /\ failure'[a] = Null => Refusal(raw[a]) = Null
  BY Registered
<1>2. GivenInv' /\ EntryInv' /\ RefusalInv'
  BY <1>1, GivenStays DEF IInv, EntryInv, RefusalInv
<1>3. ResolvedInv'
  <2> SUFFICES ASSUME NEW b \in Apps, "OPTIONS" \in made[b] PROVE Good(resolved'[b])
    BY <1>1 DEF ResolvedInv
  <2>1. b # a /\ Good(resolved[b])
    BY <1>1 DEF IInv, ResolvedInv
  <2> QED BY <1>1, <2>1
<1>4. StoreInv'
  <2> SUFFICES ASSUME NEW w \in store
               PROVE  /\ w.owner \in Apps /\ "OPTIONS" \in made[w.owner]
                      /\ \E x \in Seq(Chars) : w.key = GetNamespacePrefix(resolved'[w.owner]) \o x
    BY <1>1 DEF StoreInv
  <2>1. w.owner \in Apps /\ "OPTIONS" \in made[w.owner] /\ w.owner # a
    BY <1>1 DEF IInv, StoreInv
  <2>2. resolved'[w.owner] = resolved[w.owner]
    BY <1>1, <2>1
  <2>3. \E x \in Seq(Chars) : w.key = GetNamespacePrefix(resolved[w.owner]) \o x
    BY DEF IInv, StoreInv
  <2> QED BY <2>1, <2>2, <2>3
<1> QED BY <1>1, <1>2, <1>3, <1>4 DEF IInv

(* Building providers: it fails, or some are added, and the options are    *)
(* resolved when their provider is.                                        *)
LEMMA Built ==
  ASSUME IInv, NEW a \in Apps, Instantiate(a)
  PROVE  /\ entry[a] # Null /\ failure[a] = Null /\ UNCHANGED <<entry, raw, admin, store>>
         /\ \/ /\ \E code : failure' = [failure EXCEPT ![a] = code]
               /\ UNCHANGED <<resolved, made>> /\ failure'[a] # Null
            \/ /\ made' = [made EXCEPT ![a] = @ \union Ready(a)] /\ UNCHANGED failure
               /\ resolved' = [resolved EXCEPT ![a] = IF "OPTIONS" \in Ready(a) THEN ApplyDefaults(raw[a]) ELSE @]
               /\ Throwing(a) = {}
<1>1. /\ entry[a] # Null /\ failure[a] = Null /\ UNCHANGED <<entry, raw, admin, store>>
  BY DEF Instantiate
<1>2. failure = [b \in Apps |-> failure[b]]
  BY DEF IInv, FunctionInv
<1>3. CASE Ready(a) = {}
  <2>0. Throwing(a) = {}
    BY <1>3 DEF Throwing
  <2>1. Fail(a, "unresolved dependency")
    BY <1>3, <2>0 DEF Instantiate
  <2>3. "unresolved dependency" # Null
    BY NullDiffers
  <2>4. failure' = [failure EXCEPT ![a] = "unresolved dependency"] /\ UNCHANGED <<resolved, made>>
    BY <2>1 DEF Fail
  <2>5. failure'[a] = "unresolved dependency"
    BY <2>4, <1>2
  <2> QED BY <1>1, <2>3, <2>4, <2>5
<1>4. CASE Throwing(a) # {}
  <2>1. Ready(a) # {}
    BY <1>4 DEF Throwing
  <2>2. \E p \in Throwing(a) : Fail(a, BuildError(a, p))
    BY <1>4, <2>1 DEF Instantiate
  <2>3. PICK p \in Throwing(a) : Fail(a, BuildError(a, p))
    BY <2>2
  <2>4. BuildError(a, p) # Null
    BY <2>3 DEF Throwing
  <2>5. failure' = [failure EXCEPT ![a] = BuildError(a, p)] /\ UNCHANGED <<resolved, made>>
    BY <2>3 DEF Fail
  <2>6. failure'[a] = BuildError(a, p)
    BY <2>5, <1>2
  <2> QED BY <1>1, <2>4, <2>5, <2>6
<1>5. CASE Ready(a) # {} /\ Throwing(a) = {}
  BY <1>1, <1>5 DEF Instantiate
<1> QED BY <1>3, <1>4, <1>5

(* The options that a provider is built of are accepted.                   *)
LEMMA BuildingAccepts ==
  ASSUME IInv, NEW a \in Apps, entry[a] # Null, failure[a] = Null,
         "OPTIONS" \in Ready(a), Throwing(a) = {}
  PROVE  Good(ApplyDefaults(raw[a]))
<1>1. raw[a] # Null /\ entry[a] \in {"forRoot", "forRootAsync"}
  BY DEF IInv, EntryInv
<1>2. {raw[a].namespace, raw[a].keySeparator} \subseteq Seq(Chars) \union {Null}
  BY <1>1, RawTyped, Zenon DEF IInv, CacheOptionsTyped
<1>3. Refusal(raw[a]) = Null
  <2>1. CASE entry[a] = "forRoot"
    BY <2>1 DEF IInv, RefusalInv
  <2>2. CASE entry[a] = "forRootAsync"
    <3>1. BuildError(a, "OPTIONS") = Null
      BY DEF Throwing
    <3>2. BuildError(a, "OPTIONS") = Refusal(raw[a])
      BY <2>2 DEF BuildError
    <3> QED BY <3>1, <3>2
  <2> QED BY <1>1, <2>1, <2>2
<1> QED BY <1>2, <1>3, AcceptedHolds

LEMMA BuildingHolds ==
  ASSUME IInv, NEW a \in Apps, Instantiate(a)
  PROVE  IInv'
<1>1. entry[a] # Null /\ failure[a] = Null /\ UNCHANGED <<entry, raw, admin, store>>
  BY Built
<1>2. FunctionInv
  BY DEF IInv
<1>3. GivenInv'
  BY <1>1, GivenStays DEF IInv
<1>4. CASE /\ \E code : failure' = [failure EXCEPT ![a] = code]
           /\ UNCHANGED <<resolved, made>> /\ failure'[a] # Null
  <2>1. FunctionInv' /\ \A b \in Apps \ {a} : failure'[b] = failure[b]
    BY <1>1, <1>2, <1>4 DEF FunctionInv
  <2>2. EntryInv' /\ RefusalInv'
    BY <1>1, <1>4, <2>1 DEF IInv, EntryInv, RefusalInv
  <2>3. ResolvedInv' /\ StoreInv'
    BY <1>1, <1>4 DEF IInv, ResolvedInv, StoreInv
  <2> QED BY <1>3, <2>1, <2>2, <2>3 DEF IInv
<1>5. CASE /\ made' = [made EXCEPT ![a] = @ \union Ready(a)] /\ UNCHANGED failure
           /\ resolved' = [resolved EXCEPT ![a] = IF "OPTIONS" \in Ready(a) THEN ApplyDefaults(raw[a]) ELSE @]
           /\ Throwing(a) = {}
  <2>1. /\ FunctionInv' /\ made'[a] = made[a] \union Ready(a)
        /\ \A b \in Apps \ {a} : made'[b] = made[b] /\ resolved'[b] = resolved[b]
        /\ resolved'[a] = IF "OPTIONS" \in Ready(a) THEN ApplyDefaults(raw[a]) ELSE resolved[a]
    BY <1>1, <1>2, <1>5 DEF FunctionInv
  <2>2. EntryInv' /\ RefusalInv'
    BY <1>1, <1>5, <2>1 DEF IInv, EntryInv, RefusalInv
  <2>3. \A b \in Apps : "OPTIONS" \in made[b] => "OPTIONS" \in made'[b] /\ resolved'[b] = resolved[b]
    <3>1. "OPTIONS" \in made[a] => "OPTIONS" \notin Ready(a)
      BY DEF Ready
    <3> QED BY <2>1, <3>1
  <2>4. ResolvedInv'
    <3> SUFFICES ASSUME NEW b \in Apps, "OPTIONS" \in made'[b] PROVE Good(resolved'[b])
      BY DEF ResolvedInv
    <3>1. CASE "OPTIONS" \in made[b]
      <4>1. Good(resolved[b])
        BY <3>1 DEF IInv, ResolvedInv
      <4> QED BY <2>3, <3>1, <4>1
    <3>2. CASE "OPTIONS" \notin made[b]
      <4>1. b = a /\ "OPTIONS" \in Ready(a)
        BY <2>1, <3>2
      <4>2. Good(ApplyDefaults(raw[a]))
        BY <1>1, <1>5, <4>1, BuildingAccepts
      <4> QED BY <2>1, <4>1, <4>2
    <3> QED BY <3>1, <3>2
  <2>5. StoreInv'
    <3> SUFFICES ASSUME NEW w \in store
                 PROVE  /\ w.owner \in Apps /\ "OPTIONS" \in made'[w.owner]
                        /\ \E x \in Seq(Chars) : w.key = GetNamespacePrefix(resolved'[w.owner]) \o x
      BY <1>1 DEF StoreInv
    <3>1. /\ w.owner \in Apps /\ "OPTIONS" \in made[w.owner]
          /\ \E x \in Seq(Chars) : w.key = GetNamespacePrefix(resolved[w.owner]) \o x
      BY DEF IInv, StoreInv
    <3> QED BY <2>3, <3>1
  <2> QED BY <1>3, <2>1, <2>2, <2>4, <2>5 DEF IInv
<1> QED BY <1>4, <1>5, Built

(* A key that is written has the prefix of its writer.                     *)
LEMMA WriteHolds ==
  ASSUME IInv, NEW a \in Apps, NEW key, Write(a, key),
         \E x \in Seq(Chars) : key = GetNamespacePrefix(resolved[a]) \o x
  PROVE  IInv'
<1>1. /\ UNCHANGED <<entry, raw, admin, resolved, made, failure>> /\ Running(a)
      /\ store' = store \union {[owner |-> a, key |-> key]}
  BY DEF Write, starting
<1>2. "OPTIONS" \in made[a]
  BY <1>1, OptionsProvided
<1>3. FunctionInv' /\ GivenInv' /\ EntryInv' /\ RefusalInv' /\ ResolvedInv'
  BY <1>1 DEF IInv, FunctionInv, GivenInv, EntryInv, RefusalInv, ResolvedInv
<1>4. StoreInv'
  <2> SUFFICES ASSUME NEW w \in store'
               PROVE  /\ w.owner \in Apps /\ "OPTIONS" \in made[w.owner]
                      /\ \E x \in Seq(Chars) : w.key = GetNamespacePrefix(resolved[w.owner]) \o x
    BY <1>1 DEF StoreInv
  <2>1. CASE w \in store
    BY <2>1 DEF IInv, StoreInv
  <2>2. CASE w = [owner |-> a, key |-> key]
    BY <1>2, <2>2
  <2> QED BY <1>1, <2>1, <2>2
<1> QED BY <1>3, <1>4 DEF IInv

(* The options of an application that runs are good.                       *)
LEMMA RunningGood ==
  ASSUME IInv, NEW a \in Apps, Running(a)
  PROVE  Good(resolved[a])
BY OptionsProvided DEF IInv, ResolvedInv

LEMMA SetBareHolds ==
  ASSUME IInv, NEW a \in Apps, NEW key \in Texts, SetBare(a, key)
  PROVE  IInv'
<1>1. key \in Seq(Chars)
  BY DeploymentAssumption, Zenon DEF DeploymentAssumption
<1>2. Write(a, ApplyNamespace(resolved[a], key))
  BY DEF SetBare
<1>3. \E x \in Seq(Chars) : ApplyNamespace(resolved[a], key) = GetNamespacePrefix(resolved[a]) \o x
  BY <1>1 DEF ApplyNamespace
<1> QED BY <1>2, <1>3, WriteHolds

LEMMA SetKeyHolds ==
  ASSUME IInv, NEW a \in Apps, NEW prefix \in Texts, NEW id \in Texts, SetKey(a, prefix, id)
  PROVE  IInv'
<1> DEFINE sep == resolved[a].keySeparator
           x   == (prefix \o sep) \o id
<1>1. prefix \in Seq(Chars) /\ id \in Seq(Chars)
  BY DeploymentAssumption, Zenon DEF DeploymentAssumption
<1>2. Write(a, Build(resolved[a], prefix, id))
  BY DEF SetKey
<1>3. Good(resolved[a])
  BY <1>2, RunningGood DEF Write
<1>4. sep \in Seq(Chars) /\ GetNamespacePrefix(resolved[a]) \in Seq(Chars)
  BY <1>3 DEF Good, Text, GetNamespacePrefix
<1>5. x \in Seq(Chars)
  BY <1>1, <1>4
<1>6. Build(resolved[a], prefix, id) = GetNamespacePrefix(resolved[a]) \o x
  BY DEF Build
<1> QED BY <1>2, <1>5, <1>6, WriteHolds

(* Every step keeps the invariant.                                         *)
LEMMA StepHolds ==
  ASSUME IInv, [Next]_vars
  PROVE  IInv'
<1>1. ASSUME NEW a \in Apps, ForRoot(a) \/ ForRootAsync(a) PROVE IInv'
  BY <1>1, RegistrationHolds
<1>2. ASSUME NEW a \in Apps, Instantiate(a) PROVE IInv'
  BY <1>2, BuildingHolds
<1>3. ASSUME NEW a \in Apps, OpenClient(a) \/ OpenSubscriber(a) PROVE IInv'
  <2>1. UNCHANGED <<entry, raw, admin, resolved, made, failure, store>>
    BY <1>3 DEF OpenClient, OpenSubscriber, starting
  <2> QED BY <2>1 DEF IInv, FunctionInv, GivenInv, EntryInv, RefusalInv, ResolvedInv, StoreInv
<1>4. ASSUME NEW a \in Apps, Flush(a) PROVE IInv'
  <2>1. UNCHANGED <<entry, raw, admin, resolved, made, failure>> /\ store' \subseteq store
    BY <1>4 DEF Flush, starting
  <2> QED BY <2>1 DEF IInv, FunctionInv, GivenInv, EntryInv, RefusalInv, ResolvedInv, StoreInv
<1>5. ASSUME NEW a \in Apps, NEW key \in Texts, SetBare(a, key) PROVE IInv'
  BY <1>5, SetBareHolds
<1>6. ASSUME NEW a \in Apps, NEW prefix \in Texts, NEW id \in Texts, SetKey(a, prefix, id) PROVE IInv'
  BY <1>6, SetKeyHolds
<1>7. CASE UNCHANGED vars
  <2>1. UNCHANGED <<entry, raw, admin, resolved, made, failure, store>>
    BY <1>7 DEF vars, starting
  <2> QED BY <2>1 DEF IInv, FunctionInv, GivenInv, EntryInv, RefusalInv, ResolvedInv, StoreInv
<1> QED BY <1>1, <1>2, <1>3, <1>4, <1>5, <1>6, <1>7 DEF Next

-----------------------------------------------------------------------------
(* The theorem.                                                            *)

(* Good options with one separator, and a key of another namespace.        *)
LEMMA Apart ==
  ASSUME IInv
  PROVE  KeysApart
<1> SUFFICES ASSUME NEW a \in Apps, NEW w \in store, Comparable(a, w.owner),
                    IsPrefix(GetNamespacePrefix(resolved[a]), w.key)
             PROVE  SameNamespace(a, w.owner)
  BY DEF KeysApart
<1> DEFINE o == resolved[a]
           p == resolved[w.owner]
           s == o.keySeparator
           c == s[1]
<1>1. PICK x \in Seq(Chars) : w.key = GetNamespacePrefix(p) \o x
  BY DEF IInv, StoreInv
<1>2. Good(o) /\ Good(p)
  BY RunningGood DEF Comparable, IInv, StoreInv
<1>3. Len(s) = 1 /\ p.keySeparator = s
  BY DEF Comparable, PlainSeparator
<1>4. /\ s \in Seq(Chars) /\ o.namespace \in Seq(Chars) /\ p.namespace \in Seq(Chars)
      /\ ~Includes(o.namespace, s) /\ ~Includes(p.namespace, s)
  BY <1>2, <1>3 DEF Good, Text, NamespaceHolds
<1>5. s = <<c>> /\ c \in Chars
  BY <1>3, <1>4
<1>6. (\A i \in DOMAIN o.namespace : o.namespace[i] # c) /\ (\A i \in DOMAIN p.namespace : p.namespace[i] # c)
  BY <1>3, <1>4, NotIncluded
<1>7. IsPrefix(o.namespace \o <<c>>, (p.namespace \o <<c>>) \o x)
  BY <1>1, <1>3, <1>5 DEF GetNamespacePrefix
<1>8. o.namespace = p.namespace
  BY <1>4, <1>5, <1>6, <1>7, MarkedPrefix
<1> QED BY <1>8 DEF SameNamespace

(* With one plain separator, no key of a namespace begins with the prefix  *)
(* of another, whatever the applications, their options and their keys     *)
(* (default-options.ts:93-134, key-builder.ts:45-69).                      *)
THEOREM NamespacesDoNotMix == Spec => []KeysApart
<1>1. Init => IInv
  BY InitHolds
<1>2. IInv /\ [Next]_vars => IInv'
  BY StepHolds
<1>3. IInv => KeysApart
  BY Apart
<1> QED BY <1>1, <1>2, <1>3, PTL DEF Spec

-----------------------------------------------------------------------------
(* The patterns, with the invariant of the names.                          *)

(* The prefix of good options is literal.                                  *)
LEMMA PrefixLiteral ==
  ASSUME NEW o, Good(o), PlainSeparator(o)
  PROVE  GetNamespacePrefix(o) \in Seq(Chars) /\ Literal(GetNamespacePrefix(o))
<1> DEFINE n == o.namespace
           s == o.keySeparator
           c == s[1]
           p == n \o <<c>>
<1>1. n \in Seq(Chars) /\ s \in Seq(Chars) /\ ToSet(n) \cap GlobMetacharacters = {}
  BY DEF Good, Text, NamespaceHolds
<1>2. Len(s) = 1 /\ c \notin GlobMetacharacters
  BY <1>1 DEF PlainSeparator
<1>3. c \in Chars /\ s = <<c>>
  BY <1>1, <1>2
<1>4. GetNamespacePrefix(o) = p
  BY <1>3, Zenon DEF GetNamespacePrefix
<1> HIDE DEF c, n
<1>5. \A i \in DOMAIN n : n[i] \notin GlobMetacharacters
  BY <1>1 DEF ToSet
<1>6. /\ p \in Seq(Chars) /\ DOMAIN p = 1 .. Len(n) + 1 /\ DOMAIN n = 1 .. Len(n) /\ Len(n) \in Nat
      /\ \A i \in 1 .. Len(n) : p[i] = n[i]
      /\ p[Len(n) + 1] = c
  BY <1>1, <1>3
<1> HIDE DEF p
<1>7. \A i \in DOMAIN p : p[i] \notin GlobMetacharacters
  <2> TAKE i \in DOMAIN p
  <2>1. i \in 1 .. Len(n) \/ i = Len(n) + 1
    BY <1>6
  <2> QED BY <1>2, <1>5, <1>6, <2>1
<1>8. Literal(p)
  BY <1>7 DEF Literal, ToSet
<1> QED BY <1>4, <1>6, <1>8, Zenon

(* Every key has the prefix of its writer.                                 *)
LEMMA KeyPrefixed ==
  ASSUME IInv, NEW w \in store, Running(w.owner)
  PROVE  /\ w.key \in Seq(Chars)
         /\ IsPrefix(GetNamespacePrefix(resolved[w.owner]), w.key)
<1> DEFINE p == GetNamespacePrefix(resolved[w.owner])
<1>1. PICK x \in Seq(Chars) : w.key = p \o x
  BY DEF IInv, StoreInv
<1>2. Good(resolved[w.owner])
  BY RunningGood DEF IInv, StoreInv
<1>3. p \in Seq(Chars)
  BY <1>2 DEF Good, Text, GetNamespacePrefix
<1> HIDE DEF p
<1>4. w.key \in Seq(Chars) /\ \A i \in 1 .. Len(p) : i \in DOMAIN w.key /\ w.key[i] = p[i]
  BY <1>1, <1>3
<1>5. IsPrefix(p, w.key)
  BY <1>3, <1>4, PrefixIs
<1> QED BY <1>4, <1>5 DEF p

(* Every key is a text.                                                    *)
LEMMA KeyIsText ==
  ASSUME IInv, NEW w \in store
  PROVE  w.key \in Seq(Chars)
<1> DEFINE p == GetNamespacePrefix(resolved[w.owner])
<1>1. PICK x \in Seq(Chars) : w.key = p \o x
  BY DEF IInv, StoreInv
<1>2. Good(resolved[w.owner])
  BY DEF IInv, StoreInv, ResolvedInv
<1>3. p \in Seq(Chars)
  BY <1>2 DEF Good, Text, GetNamespacePrefix
<1> HIDE DEF p
<1> QED BY <1>1, <1>3

(* Patterns have the characters of texts, and the * that the library adds. *)
LEMMA Widened ==
  ASSUME NEW t \in Seq(Chars)
  PROVE  t \in Seq(Chars \union {"*"})
OBVIOUS

(* What a pattern of an application reaches has its prefix.                *)
LEMMA PatternsKept ==
  ASSUME IInv
  PROVE  PatternsKeepPrefix
<1> SUFFICES ASSUME NEW a \in Apps, NEW w \in store, Running(a), PlainSeparator(resolved[a])
             PROVE  LET Reached == {FlushPattern(resolved[a])} \union {ApplyNamespace(resolved[a], glob) : glob \in Globs}
                       \union {Build(resolved[a], prefix, glob) : prefix \in Texts, glob \in Globs}
                    IN  \A pattern \in Reached :
                      GlobMatches(pattern, w.key) => IsPrefix(GetNamespacePrefix(resolved[a]), w.key)
  BY DEF PatternsKeepPrefix
<1> DEFINE C == Chars \union {"*"}
           p == GetNamespacePrefix(resolved[a])
           s == resolved[a].keySeparator
<1>1. Good(resolved[a])
  BY RunningGood
<1>2. p \in Seq(Chars) /\ Literal(p)
  BY <1>1, PrefixLiteral
<1>3. s \in Seq(Chars)
  BY <1>1 DEF Good, Text
<1>4. w.key \in Seq(Chars)
  BY KeyIsText
<1>5. Texts \subseteq Seq(Chars) /\ Globs \subseteq Seq(Chars)
  BY DeploymentAssumption, Zenon DEF DeploymentAssumption
<1>6. FlushPattern(resolved[a]) = p \o <<"*">>
  BY DEF FlushPattern
<1>7. \A glob : ApplyNamespace(resolved[a], glob) = p \o glob
  BY DEF ApplyNamespace
<1>8. \A prefix, glob : Build(resolved[a], prefix, glob) = p \o ((prefix \o s) \o glob)
  BY DEF Build
<1> HIDE DEF p, s
<1>9. ASSUME NEW rest \in Seq(C), GlobMatches(p \o rest, w.key) PROVE IsPrefix(p, w.key)
  <2>1. p \in Seq(C) /\ w.key \in Seq(C)
    BY <1>2, <1>4
  <2> QED BY <1>2, <1>9, <2>1, LiteralBeginning
<1>10. GlobMatches(FlushPattern(resolved[a]), w.key) => IsPrefix(p, w.key)
  <2>1. <<"*">> \in Seq(C)
    OBVIOUS
  <2> QED BY <1>6, <1>9, <2>1
<1>11. ASSUME NEW glob \in Globs, GlobMatches(ApplyNamespace(resolved[a], glob), w.key) PROVE IsPrefix(p, w.key)
  <2>1. glob \in Seq(C)
    BY <1>5
  <2> QED BY <1>7, <1>9, <1>11, <2>1
<1>12. ASSUME NEW prefix \in Texts, NEW glob \in Globs, GlobMatches(Build(resolved[a], prefix, glob), w.key)
       PROVE  IsPrefix(p, w.key)
  <2>1. prefix \in Seq(Chars) /\ glob \in Seq(Chars)
    BY <1>5
  <2>2. (prefix \o s) \o glob \in Seq(Chars)
    BY <1>3, <2>1
  <2>3. (prefix \o s) \o glob \in Seq(C)
    BY <2>2, Widened
  <2> QED BY <1>8, <1>9, <1>12, <2>3
<1> QED BY <1>10, <1>11, <1>12 DEF p

(* A flush of an application takes from its own namespace and no other.    *)
LEMMA FlushTakes ==
  ASSUME IInv, NEW a \in Apps, PlainSeparator(resolved[a]), Flush(a),
         NEW w \in store, Comparable(a, w.owner)
  PROVE  w \in store' <=> ~SameNamespace(a, w.owner)
<1> DEFINE C == Chars \union {"*"}
           p == GetNamespacePrefix(resolved[a])
<1>1. Running(a) /\ Running(w.owner) /\ resolved[a].keySeparator = resolved[w.owner].keySeparator
  BY DEF Comparable
<1>2. p \in Seq(Chars) /\ Literal(p)
  BY <1>1, RunningGood, PrefixLiteral
<1>3. w \in store' <=> ~GlobMatches(p \o <<"*">>, w.key)
  BY DEF Flush, FlushPattern
<1>4. w.key \in Seq(Chars)
  BY KeyIsText
<1>5. CASE SameNamespace(a, w.owner)
  <2>1. p = GetNamespacePrefix(resolved[w.owner])
    BY <1>1, <1>5 DEF SameNamespace, GetNamespacePrefix
  <2>2. IsPrefix(p, w.key)
    BY <1>1, <2>1, KeyPrefixed
  <2> HIDE DEF p
  <2>3. GlobMatches(p \o <<"*">>, w.key)
    BY <1>2, <1>4, <2>2, StarMatches
  <2> QED BY <1>3, <1>5, <2>3
<1>6. CASE ~SameNamespace(a, w.owner)
  <2>1. ~IsPrefix(p, w.key)
    BY <1>6, Apart DEF KeysApart
  <2> HIDE DEF p
  <2>2. p \in Seq(C) /\ w.key \in Seq(C) /\ <<"*">> \in Seq(C)
    BY <1>2, <1>4
  <2>3. ~GlobMatches(p \o <<"*">>, w.key)
    BY <1>2, <2>1, <2>2, LiteralBeginning
  <2> QED BY <1>3, <1>6, <2>3
<1> QED BY <1>5, <1>6

(* A flush takes every key of its namespace, whoever wrote it, and none of *)
(* another, for all applications with one plain separator                  *)
(* (cache.service.ts:613-638).                                             *)
THEOREM FlushTakesItsOwn == Spec => FlushExact
<1> DEFINE Takes == \A a \in Apps :
             Running(a) /\ PlainSeparator(resolved[a]) /\ Flush(a) =>
               \A w \in store : Comparable(a, w.owner) =>
                 (w \in store' <=> ~SameNamespace(a, w.owner))
<1>1. Init => IInv
  BY InitHolds
<1>2. IInv /\ [Next]_vars => IInv'
  BY StepHolds
<1>3. IInv => Takes
  BY FlushTakes
<1> HIDE DEF Takes
<1>4. Spec => [][Takes]_vars
  BY <1>1, <1>2, <1>3, PTL DEF Spec
<1> QED BY <1>4 DEF FlushExact, Takes

-----------------------------------------------------------------------------
(* The providers.                                                          *)

(* The providers of an application.                                        *)
Base(a) == IF entry[a] = "forRoot" THEN SyncProviders ELSE AsyncProviders

(* Two sets of providers together.                                         *)
LEMMA AlsoIs ==
  ASSUME NEW f, NEW g
  PROVE  /\ DOMAIN Also(f, g) = DOMAIN f \union DOMAIN g
         /\ \A p \in DOMAIN f : Also(f, g)[p] = f[p]
         /\ \A p \in DOMAIN Also(f, g) \ DOMAIN f : Also(f, g)[p] = g[p]
BY DEF Also

(* A name that is written keeps its value, one that is not has the default. *)
Spread(f, name, default) == IF name \in DOMAIN f THEN f[name] ELSE default

LEMMA SpreadIs ==
  ASSUME NEW f, NEW g, NEW name, name \in DOMAIN g
  PROVE  Also(f, g)[name] = Spread(f, name, g[name])
BY DEF Also, Spread

(* The names of the providers.                                             *)
LEMMA CommonNames ==
  /\ DOMAIN CommonProviders =
       {"ConnectionManager", "KeyBuilder", "CacheService", "PubSubService", "ScriptManagerService",
        "KEY_BUILDER", "SCRIPT_REGISTRY", "CONNECTION"}
  /\ DOMAIN AdminProviders = {"ADMIN_OPTIONS", "CacheStatusService", "CacheAdminService"}
  /\ DOMAIN SyncProviders = {"OPTIONS", "EVENTS", "SERIALIZER"} \union DOMAIN CommonProviders
  /\ DOMAIN AsyncProviders = {"OPTIONS", "EVENTS", "JsonSerializer", "SERIALIZER"} \union DOMAIN CommonProviders
<1>1. DOMAIN CommonProviders =
       {"ConnectionManager", "KeyBuilder", "CacheService", "PubSubService", "ScriptManagerService",
        "KEY_BUILDER", "SCRIPT_REGISTRY", "CONNECTION"}
  BY DEF CommonProviders
<1>2. DOMAIN AdminProviders = {"ADMIN_OPTIONS", "CacheStatusService", "CacheAdminService"}
  BY DEF AdminProviders
<1>3. DOMAIN SyncProviders = {"OPTIONS", "EVENTS", "SERIALIZER"} \union DOMAIN CommonProviders
  BY DEF SyncProviders, Also
<1>4. DOMAIN AsyncProviders = {"OPTIONS", "EVENTS", "JsonSerializer", "SERIALIZER"} \union DOMAIN CommonProviders
  BY DEF AsyncProviders, Also
<1> QED BY <1>1, <1>2, <1>3, <1>4, Zenon

(* What is provided: of the cache module, and of the administration module *)
(* where there is one.                                                     *)
LEMMA ProvidersAre ==
  ASSUME NEW a
  PROVE  /\ DOMAIN Providers(a) = DOMAIN Base(a) \union (IF admin[a] = Null THEN {} ELSE DOMAIN AdminProviders)
         /\ \A p \in DOMAIN Base(a) : Providers(a)[p] = Base(a)[p]
         /\ \A p \in DOMAIN Providers(a) \ DOMAIN Base(a) : Providers(a)[p] = AdminProviders[p]
<1> DEFINE more == IF admin[a] = Null THEN <<>> ELSE AdminProviders
<1>1. DOMAIN <<>> = {}
  OBVIOUS
<1>2. Providers(a) = Also(Base(a), more)
  BY Zenon DEF Providers, Base
<1>3. DOMAIN more = IF admin[a] = Null THEN {} ELSE DOMAIN AdminProviders
  BY <1>1, Zenon
<1>4. \A p \in DOMAIN more : more[p] = AdminProviders[p]
  BY <1>1, Zenon
<1> HIDE DEF more
<1>5. /\ DOMAIN Also(Base(a), more) = DOMAIN Base(a) \union DOMAIN more
      /\ \A p \in DOMAIN Base(a) : Also(Base(a), more)[p] = Base(a)[p]
      /\ \A p \in DOMAIN Also(Base(a), more) \ DOMAIN Base(a) : Also(Base(a), more)[p] = more[p]
  BY AlsoIs, Zenon
<1>6. /\ DOMAIN Providers(a) = DOMAIN Base(a) \union DOMAIN more
      /\ \A p \in DOMAIN Base(a) : Providers(a)[p] = Base(a)[p]
      /\ \A p \in DOMAIN Providers(a) \ DOMAIN Base(a) : Providers(a)[p] = more[p]
  BY <1>2, <1>5, Zenon
<1> QED BY <1>3, <1>4, <1>6

(* What each provider of the cache module needs.                           *)
LEMMA Needs ==
  ASSUME NEW a
  PROVE  /\ Base(a)["OPTIONS"] = {}
         /\ Base(a)["EVENTS"] \subseteq {"OPTIONS"}
         /\ "JsonSerializer" \in DOMAIN Base(a) => Base(a)["JsonSerializer"] = {}
         /\ Base(a)["SERIALIZER"] \subseteq {"OPTIONS", "JsonSerializer"} \intersect DOMAIN Base(a)
         /\ \A p \in DOMAIN CommonProviders : Base(a)[p] = CommonProviders[p]
<1>2. CASE entry[a] = "forRoot"
  <2>1. Base(a) = SyncProviders
    BY <1>2 DEF Base
  <2>2. /\ SyncProviders["OPTIONS"] = {} /\ SyncProviders["EVENTS"] = {} /\ SyncProviders["SERIALIZER"] = {}
        /\ \A p \in DOMAIN CommonProviders : SyncProviders[p] = CommonProviders[p]
        /\ "JsonSerializer" \notin DOMAIN SyncProviders
    BY CommonNames DEF SyncProviders, Also
  <2> QED BY <2>1, <2>2
<1>3. CASE entry[a] # "forRoot"
  <2>1. Base(a) = AsyncProviders
    BY <1>3 DEF Base
  <2>2. /\ AsyncProviders["OPTIONS"] = {} /\ AsyncProviders["EVENTS"] = {"OPTIONS"}
        /\ AsyncProviders["JsonSerializer"] = {}
        /\ AsyncProviders["SERIALIZER"] = {"OPTIONS", "JsonSerializer"}
        /\ \A p \in DOMAIN CommonProviders : AsyncProviders[p] = CommonProviders[p]
        /\ {"OPTIONS", "JsonSerializer"} \subseteq DOMAIN AsyncProviders
    BY CommonNames DEF AsyncProviders, Also
  <2> QED BY <2>1, <2>2
<1> QED BY <1>2, <1>3

(* An application of which nothing more can be built is built, but for an  *)
(* administration module that does not see the cache module.               *)
LEMMA Completed ==
  ASSUME NEW a, Ready(a) = {}, made[a] \subseteq DOMAIN Providers(a), admin[a] = Null \/ IsGlobal(a)
  PROVE  made[a] = DOMAIN Providers(a)
<1>1. ASSUME NEW p \in DOMAIN Providers(a), Providers(a)[p] \subseteq made[a] PROVE p \in made[a]
  <2>1. p \in DOMAIN AdminProviders => IsGlobal(a)
    BY ProvidersAre, CommonNames DEF Base
  <2> QED BY <1>1, <2>1 DEF Ready, Injectable
<1>2. /\ {"OPTIONS", "EVENTS", "SERIALIZER"} \union DOMAIN CommonProviders \subseteq DOMAIN Base(a)
      /\ DOMAIN Base(a) \subseteq {"OPTIONS", "EVENTS", "SERIALIZER", "JsonSerializer"} \union DOMAIN CommonProviders
  BY CommonNames DEF Base
<1>3. ASSUME NEW p \in DOMAIN Base(a), Base(a)[p] \subseteq made[a] PROVE p \in made[a]
  BY <1>1, <1>3, ProvidersAre
<1>4. "OPTIONS" \in made[a]
  BY <1>2, <1>3, Needs
<1>5. "JsonSerializer" \in DOMAIN Base(a) => "JsonSerializer" \in made[a]
  BY <1>3, Needs
<1>6. "EVENTS" \in made[a] /\ "SERIALIZER" \in made[a]
  BY <1>2, <1>3, <1>4, <1>5, Needs
<1>7. /\ CommonProviders["ConnectionManager"] = {"OPTIONS", "EVENTS"}
      /\ CommonProviders["KeyBuilder"] = {"OPTIONS"}
      /\ CommonProviders["CacheService"] = {"OPTIONS", "ConnectionManager", "KeyBuilder", "SERIALIZER", "ScriptManagerService"}
      /\ CommonProviders["PubSubService"] = {"OPTIONS", "ConnectionManager", "KeyBuilder", "SERIALIZER", "EVENTS"}
      /\ CommonProviders["ScriptManagerService"] = {"OPTIONS", "ConnectionManager"}
      /\ CommonProviders["KEY_BUILDER"] = {"KeyBuilder"}
      /\ CommonProviders["SCRIPT_REGISTRY"] = {"ScriptManagerService"}
      /\ CommonProviders["CONNECTION"] = {"ConnectionManager"}
  BY DEF CommonProviders
<1>8. ASSUME NEW p \in DOMAIN CommonProviders, CommonProviders[p] \subseteq made[a] PROVE p \in made[a]
  BY <1>2, <1>3, <1>8, Needs
<1>9. "ConnectionManager" \in made[a] /\ "KeyBuilder" \in made[a]
  BY <1>4, <1>6, <1>7, <1>8, CommonNames
<1>10. "ScriptManagerService" \in made[a] /\ "KEY_BUILDER" \in made[a] /\ "CONNECTION" \in made[a]
  BY <1>4, <1>7, <1>8, <1>9, CommonNames
<1>11. "CacheService" \in made[a] /\ "PubSubService" \in made[a] /\ "SCRIPT_REGISTRY" \in made[a]
  BY <1>4, <1>6, <1>7, <1>8, <1>9, <1>10, CommonNames
<1>12. DOMAIN Base(a) \subseteq made[a]
  BY <1>2, <1>4, <1>5, <1>6, <1>9, <1>10, <1>11, CommonNames
<1>13. ASSUME NEW p \in DOMAIN Providers(a) \ DOMAIN Base(a) PROVE p \in made[a]
  <2>1. p \in DOMAIN AdminProviders /\ Providers(a)[p] = AdminProviders[p] /\ p \in DOMAIN Providers(a)
        /\ DOMAIN AdminProviders \subseteq DOMAIN Providers(a)
    BY <1>13, ProvidersAre
  <2>2. /\ AdminProviders["ADMIN_OPTIONS"] = {}
        /\ AdminProviders["CacheStatusService"] = {"CacheService", "OPTIONS", "ADMIN_OPTIONS", "SERIALIZER"}
        /\ AdminProviders["CacheAdminService"] = {"CacheService", "ADMIN_OPTIONS"}
    BY DEF AdminProviders
  <2>3. \A q \in DOMAIN AdminProviders : q \in DOMAIN Providers(a) \ DOMAIN Base(a)
    BY <1>2, <2>1, CommonNames
  <2>4. "ADMIN_OPTIONS" \in made[a]
    BY <1>1, <2>2, <2>3, ProvidersAre, CommonNames
  <2>5. \A q \in DOMAIN AdminProviders : Providers(a)[q] = AdminProviders[q]
    BY <2>3, ProvidersAre
  <2> QED BY <1>1, <1>4, <1>6, <1>11, <2>1, <2>2, <2>4, <2>5, CommonNames
<1> QED BY <1>12, <1>13

-----------------------------------------------------------------------------
(* The invariant of the starts: what an application that fails, one that   *)
(* runs and its clients can rely on.                                       *)

(* It has providers of its own, and fails only once it is registered.      *)
Wired(a) ==
  /\ entry[a] = Null => failure[a] = Null
  /\ entry[a] # Null => made[a] \subseteq DOMAIN Providers(a)

(* Its options were accepted before their providers were built.            *)
Accepted(a) ==
  /\ "OPTIONS" \in made[a] => Refusal(raw[a]) = Null /\ resolved[a] = ApplyDefaults(raw[a])
  /\ "ADMIN_OPTIONS" \in made[a] => AdminRefusal(admin[a]) = Null

(* It failed before it was built, and of what it was given.                *)
Explained(a) ==
  /\ failure[a] # Null => made[a] # DOMAIN Providers(a)
  /\ failure[a] = "Error" => Mode(raw[a]) # "standalone"
  /\ failure[a] = "unresolved dependency" => admin[a] # Null /\ ~IsGlobal(a)

(* Its clients are those that its options create.                          *)
Served(a) ==
  /\ main[a] # Null => Running(a) /\ main[a] = CreateClient(resolved[a], Null)
  /\ subscriber[a] # Null => Running(a) /\ subscriber[a] = CreateClient(resolved[a], TRUE)

AppInv(a) == Wired(a) /\ Accepted(a) /\ Explained(a) /\ Served(a)

ClientsInv == main = [a \in Apps |-> main[a]] /\ subscriber = [a \in Apps |-> subscriber[a]]

KeysInv ==
  /\ IsFiniteSet(store) /\ Cardinality(store) <= MaxKeys
  /\ \A w \in store : w.owner \in Apps /\ main[w.owner] # Null

StartInv == IInv /\ ClientsInv /\ KeysInv /\ \A a \in Apps : AppInv(a)

(* An application that a step leaves alone.                                *)
LeftAlone(a) ==
  /\ entry'[a] = entry[a] /\ raw'[a] = raw[a] /\ admin'[a] = admin[a] /\ resolved'[a] = resolved[a]
  /\ made'[a] = made[a] /\ failure'[a] = failure[a]

(* What is known of an application depends on it alone.                    *)
LEMMA SameApp ==
  ASSUME NEW a, LeftAlone(a)
  PROVE  /\ Providers(a)' = Providers(a) /\ (IsGlobal(a)' <=> IsGlobal(a)) /\ (Running(a)' <=> Running(a))
         /\ (Wired(a)' <=> Wired(a)) /\ (Accepted(a)' <=> Accepted(a)) /\ (Explained(a)' <=> Explained(a))
<1>1. Providers(a)' = Providers(a)
  BY DEF LeftAlone, Providers
<1>2. IsGlobal(a)' <=> IsGlobal(a)
  BY Zenon DEF LeftAlone, IsGlobal
<1>3. Running(a)' <=> Running(a)
  BY <1>1, Zenon DEF LeftAlone, Running
<1>4. Wired(a)' <=> Wired(a)
  BY <1>1, Zenon DEF LeftAlone, Wired
<1>5. Accepted(a)' <=> Accepted(a)
  BY Zenon DEF LeftAlone, Accepted
<1>6. Explained(a)' <=> Explained(a)
  BY <1>1, <1>2, Zenon DEF LeftAlone, Explained
<1> QED BY <1>1, <1>2, <1>3, <1>4, <1>5, <1>6

LEMMA SameAppInv ==
  ASSUME NEW a, LeftAlone(a), AppInv(a), main'[a] = main[a], subscriber'[a] = subscriber[a]
  PROVE  AppInv(a)'
<1>1. /\ Wired(a)' /\ Accepted(a)' /\ Explained(a)' /\ (Running(a)' <=> Running(a))
  BY SameApp, Zenon DEF AppInv
<1>2. Served(a)
  BY DEF AppInv
<1>3. resolved'[a] = resolved[a]
  BY DEF LeftAlone
<1>4. Served(a)'
  <2>1. main'[a] # Null => Running(a)' /\ main'[a] = CreateClient(resolved[a], Null)
    BY <1>1, <1>2, Zenon DEF Served
  <2>2. subscriber'[a] # Null => Running(a)' /\ subscriber'[a] = CreateClient(resolved[a], TRUE)
    BY <1>1, <1>2, Zenon DEF Served
  <2> QED BY <1>3, <2>1, <2>2, Zenon DEF Served
<1> QED BY <1>1, <1>4, Zenon DEF AppInv

(* Codes of refusals.                                                      *)
LEMMA Codes ==
  ASSUME NEW o, NEW d
  PROVE  /\ Refusal(o) \in {Null, "INVALID_NAMESPACE", "SENTINEL_MISCONFIGURED", "CLUSTER_MISCONFIGURED", "CONNECTION_FAILED"}
         /\ AdminRefusal(d) \in {Null, "INVALID_SCOPE"}
         /\ Refusal(o) \notin {"Error", "unresolved dependency"}
         /\ AdminRefusal(d) \notin {"Error", "unresolved dependency"}
<1>0. Null \notin {"Error", "unresolved dependency"}
  BY NullDiffers
<1>1. ModeRefusal(o) \in {Null, "SENTINEL_MISCONFIGURED", "CLUSTER_MISCONFIGURED", "CONNECTION_FAILED"}
  <2> DEFINE m == Mode(o)
             A == m = "sentinel" /\ (o.sentinel = Null \/ o.sentinel.sentinels = 0 \/ o.sentinel.name \in {Null, ""})
             B == m = "cluster" /\ (o.cluster = Null \/ o.cluster.nodes = 0)
             C == m = "standalone" /\ ~StandaloneHolds(o.connection)
  <2>1. ModeRefusal(o) = CASE A -> "SENTINEL_MISCONFIGURED" [] B -> "CLUSTER_MISCONFIGURED" [] C -> "CONNECTION_FAILED" [] OTHER -> Null
    BY Zenon DEF ModeRefusal
  <2>2. ~(A /\ B) /\ ~(A /\ C) /\ ~(B /\ C)
    OBVIOUS
  <2> HIDE DEF A, B, C
  <2> QED BY <2>1, <2>2
<1>2. Refusal(o) \in {Null, "INVALID_NAMESPACE", "SENTINEL_MISCONFIGURED", "CLUSTER_MISCONFIGURED", "CONNECTION_FAILED"}
  BY <1>1, Zenon DEF Refusal
<1>3. AdminRefusal(d) \in {Null, "INVALID_SCOPE"}
  BY Zenon DEF AdminRefusal
<1> QED BY <1>0, <1>2, <1>3

(* Options that were accepted have the block of their mode.                *)
LEMMA AcceptedModes ==
  ASSUME NEW o, Refusal(o) = Null
  PROVE  /\ Mode(o) = "sentinel" => o.sentinel # Null
         /\ Mode(o) = "cluster" => o.cluster # Null
         /\ Mode(o) = "standalone" => StandaloneHolds(o.connection)
<1>1. ModeRefusal(o) = Null
  BY Zenon DEF Refusal
<1>2. Null \notin {"SENTINEL_MISCONFIGURED", "CLUSTER_MISCONFIGURED", "CONNECTION_FAILED"}
  BY NullDiffers
<1> DEFINE m == Mode(o)
           A == m = "sentinel" /\ (o.sentinel = Null \/ o.sentinel.sentinels = 0 \/ o.sentinel.name \in {Null, ""})
           B == m = "cluster" /\ (o.cluster = Null \/ o.cluster.nodes = 0)
           C == m = "standalone" /\ ~StandaloneHolds(o.connection)
<1>3. ModeRefusal(o) = CASE A -> "SENTINEL_MISCONFIGURED" [] B -> "CLUSTER_MISCONFIGURED" [] C -> "CONNECTION_FAILED" [] OTHER -> Null
  BY Zenon DEF ModeRefusal
<1>4. ~(A /\ B) /\ ~(A /\ C) /\ ~(B /\ C)
  OBVIOUS
<1>5. ~A /\ ~B /\ ~C
  <2> HIDE DEF A, B, C
  <2> QED BY <1>1, <1>2, <1>3, <1>4
<1> QED BY <1>5

(* Those of a standalone Redis are merged without an error.                *)
LEMMA StandaloneConstructs ==
  ASSUME NEW o, Refusal(o) = Null, Mode(o) = "standalone"
  PROVE  Constructs(ApplyDefaults(o))
<1>1. StandaloneHolds(o.connection)
  BY AcceptedModes
<1>2. ApplyDefaults(o).connection = o.connection
  BY DEF ApplyDefaults
<1> QED BY <1>1, <1>2, Zenon DEF StandaloneHolds, Constructs, Connection, Or

(* The invariant of the starts holds at the start.                         *)
LEMMA InitStarts ==
  ASSUME Init
  PROVE  StartInv
<1>1. IInv
  BY InitHolds
<1>2. ClientsInv
  BY DEF Init, ClientsInv
<1>3. KeysInv
  BY DeploymentAssumption, FS_EmptySet DEF Init, KeysInv, DeploymentAssumption
<1>4. ASSUME NEW a \in Apps PROVE AppInv(a)
  <2>1. entry[a] = Null /\ made[a] = {} /\ failure[a] = Null /\ main[a] = Null /\ subscriber[a] = Null
    BY DEF Init
  <2>2. Null \notin {"Error", "unresolved dependency"}
    BY NullDiffers
  <2> QED BY <2>1, <2>2, Zenon DEF AppInv, Wired, Accepted, Explained, Served
<1> QED BY <1>1, <1>2, <1>3, <1>4 DEF StartInv

(* Some provider is there to be built.                                     *)
Stocked == \A a \in Apps : DOMAIN Providers(a) # {}

LEMMA SomeProvider == Stocked
<1> SUFFICES ASSUME NEW a \in Apps PROVE DOMAIN Providers(a) # {}
  BY DEF Stocked
<1>1. "OPTIONS" \in DOMAIN Base(a)
  BY CommonNames DEF Base
<1> QED BY <1>1, ProvidersAre

(* A registration keeps it.                                                *)
LEMMA RegistrationStarts ==
  ASSUME StartInv, NEW a \in Apps, ForRoot(a) \/ ForRootAsync(a)
  PROVE  StartInv'
<1> DEFINE code == Or(Refusal(raw[a]), IF admin[a] = Null THEN Null ELSE AdminRefusal(admin[a]))
<1>1. /\ made[a] = {} /\ UNCHANGED <<raw, admin, made, store, main, subscriber>>
      /\ \A b \in Apps \ {a} : /\ entry'[b] = entry[b] /\ failure'[b] = failure[b]
                               /\ resolved'[b] = resolved[b]
      /\ entry'[a] \in {"forRoot", "forRootAsync"} /\ entry[a] = Null
  BY Registered DEF ForRoot, ForRootAsync, clients, StartInv
<1>2. IInv'
  BY RegistrationHolds DEF StartInv
<1>3. ClientsInv' /\ KeysInv'
  BY <1>1 DEF StartInv, ClientsInv, KeysInv
<1>4. ASSUME NEW b \in Apps \ {a} PROVE AppInv(b)'
  BY <1>1, SameAppInv DEF StartInv, LeftAlone
<1>5. AppInv(a)'
  <2>1. entry[a] = Null /\ failure[a] = Null /\ ~Running(a)
    BY <1>1, Zenon DEF StartInv, AppInv, Wired, Running
  <2>2. main[a] = Null /\ subscriber[a] = Null
    BY <2>1, Zenon DEF StartInv, AppInv, Served
  <2>3. failure'[a] \notin {"Error", "unresolved dependency"}
    <3>1. Null \notin {"Error", "unresolved dependency"}
      BY NullDiffers
    <3>2. CASE ForRootAsync(a)
      BY <2>1, <3>1, <3>2 DEF ForRootAsync
    <3>3. CASE ForRoot(a) /\ code = Null
      BY <2>1, <3>1, <3>3 DEF ForRoot
    <3>4. CASE ForRoot(a) /\ code # Null
      <4>1. failure' = [failure EXCEPT ![a] = code]
        BY <3>4 DEF ForRoot, Fail
      <4>2. code \notin {"Error", "unresolved dependency"}
        BY <3>1, Codes, Zenon DEF Or
      <4>3. failure'[a] = code
        BY <4>1 DEF StartInv, IInv, FunctionInv
      <4> QED BY <4>2, <4>3
    <3> QED BY <3>2, <3>3, <3>4
  <2>4. made'[a] = {} /\ main'[a] = Null /\ subscriber'[a] = Null /\ entry'[a] # Null
    BY <1>1, <2>2, NullDiffers
  <2>5. DOMAIN Providers(a)' # {}
    <3>1. Stocked'
      BY SomeProvider, PTL
    <3> QED BY <3>1, Zenon DEF Stocked
  <2>6. Wired(a)' /\ Accepted(a)'
    BY <2>4 DEF Wired, Accepted
  <2>7. Explained(a)'
    BY <2>3, <2>4, <2>5 DEF Explained
  <2>8. Served(a)'
    BY <2>4 DEF Served
  <2> QED BY <2>6, <2>7, <2>8 DEF AppInv
<1> QED BY <1>2, <1>3, <1>4, <1>5 DEF StartInv

(* The options that building their provider does not refuse.               *)
LEMMA BuildingRefusesNot ==
  ASSUME IInv, NEW a \in Apps, entry[a] # Null, failure[a] = Null, "OPTIONS" \in Ready(a), Throwing(a) = {}
  PROVE  Refusal(raw[a]) = Null
<1>1. entry[a] \in {"forRoot", "forRootAsync"}
  BY DEF IInv, EntryInv
<1>2. CASE entry[a] = "forRoot"
  BY <1>2 DEF IInv, RefusalInv
<1>3. CASE entry[a] = "forRootAsync"
  <2>1. BuildError(a, "OPTIONS") = Null
    BY DEF Throwing
  <2>2. BuildError(a, "OPTIONS") = Refusal(raw[a])
    BY <1>3 DEF BuildError
  <2> QED BY <2>1, <2>2
<1> QED BY <1>1, <1>2, <1>3

(* What building a provider throws.                                        *)
LEMMA Throws ==
  ASSUME NEW a, NEW p, BuildError(a, p) # Null
  PROVE  /\ BuildError(a, p) # "unresolved dependency"
         /\ BuildError(a, p) = "Error" => p = "ConnectionManager" /\ ~Constructs(resolved[a])
<1>1. CASE p = "OPTIONS" /\ entry[a] = "forRootAsync"
  <2>1. BuildError(a, p) = Refusal(raw[a])
    BY <1>1 DEF BuildError
  <2> QED BY <2>1, Codes
<1>2. CASE p = "ADMIN_OPTIONS"
  <2>1. BuildError(a, p) = AdminRefusal(admin[a])
    BY <1>2 DEF BuildError
  <2> QED BY <2>1, Codes
<1>3. CASE p = "ConnectionManager"
  <2>1. BuildError(a, p) = IF Constructs(resolved[a]) THEN Null ELSE "Error"
    BY <1>3 DEF BuildError
  <2> QED BY <1>3, <2>1
<1>4. CASE ~(p = "OPTIONS" /\ entry[a] = "forRootAsync") /\ p # "ADMIN_OPTIONS" /\ p # "ConnectionManager"
  BY <1>4 DEF BuildError
<1> QED BY <1>1, <1>2, <1>3, <1>4

(* The connection manager is built of the resolved options.                *)
LEMMA ManagerNeedsOptions ==
  ASSUME NEW a, "ConnectionManager" \in Ready(a)
  PROVE  "OPTIONS" \in made[a]
<1>1. Providers(a)["ConnectionManager"] \subseteq made[a]
  BY DEF Ready, Injectable
<1>2. "ConnectionManager" \in DOMAIN CommonProviders /\ "ConnectionManager" \in DOMAIN Base(a)
  BY CommonNames DEF Base
<1>3. Providers(a)["ConnectionManager"] = CommonProviders["ConnectionManager"]
  <2>1. Providers(a)["ConnectionManager"] = Base(a)["ConnectionManager"]
    BY <1>2, ProvidersAre, Zenon
  <2>2. Base(a)["ConnectionManager"] = CommonProviders["ConnectionManager"]
    BY <1>2, Needs, Zenon
  <2> QED BY <2>1, <2>2, Zenon
<1>4. "OPTIONS" \in CommonProviders["ConnectionManager"]
  BY DEF CommonProviders
<1> QED BY <1>1, <1>3, <1>4

(* Building providers keeps it, and so does failing to.                    *)
LEMMA BuildingStarts ==
  ASSUME StartInv, NEW a \in Apps, Instantiate(a)
  PROVE  StartInv'
<1>1. /\ entry[a] # Null /\ failure[a] = Null /\ ~Running(a)
      /\ UNCHANGED <<entry, raw, admin, store, main, subscriber>>
  BY DEF Instantiate, clients
<1>2. IInv'
  BY BuildingHolds DEF StartInv
<1>3. ClientsInv' /\ KeysInv'
  BY <1>1 DEF StartInv, ClientsInv, KeysInv
<1>4. /\ made = [b \in Apps |-> made[b]] /\ resolved = [b \in Apps |-> resolved[b]]
      /\ failure = [b \in Apps |-> failure[b]]
  BY DEF StartInv, IInv, FunctionInv
<1>5. \/ Ready(a) = {} /\ Fail(a, "unresolved dependency")
      \/ \E p \in Throwing(a) : Fail(a, BuildError(a, p))
      \/ /\ Throwing(a) = {} /\ made' = [made EXCEPT ![a] = @ \union Ready(a)] /\ UNCHANGED failure
         /\ resolved' = [resolved EXCEPT ![a] = IF "OPTIONS" \in Ready(a) THEN ApplyDefaults(raw[a]) ELSE @]
  <2>1. Ready(a) = {} => Throwing(a) = {}
    BY DEF Throwing
  <2>2. CASE Ready(a) = {}
    BY <2>1, <2>2 DEF Instantiate
  <2>3. CASE Throwing(a) # {}
    BY <2>1, <2>3 DEF Instantiate
  <2>4. CASE Ready(a) # {} /\ Throwing(a) = {}
    BY <2>4 DEF Instantiate
  <2> QED BY <2>2, <2>3, <2>4
<1>6. ASSUME NEW b \in Apps \ {a} PROVE AppInv(b)'
  <2>1. made'[b] = made[b] /\ resolved'[b] = resolved[b] /\ failure'[b] = failure[b]
    BY <1>4, <1>5 DEF Fail
  <2> QED BY <1>1, <2>1, SameAppInv DEF StartInv, LeftAlone
<1>7. AppInv(a)'
  <2>1. Wired(a) /\ Accepted(a) /\ Explained(a) /\ Served(a)
    BY DEF StartInv, AppInv
  <2>2. main'[a] = Null /\ subscriber'[a] = Null
    BY <1>1, <2>1, Zenon DEF Served
  <2>3. Served(a)'
    BY <2>2 DEF Served
  <2>4. Providers(a)' = Providers(a) /\ (IsGlobal(a)' <=> IsGlobal(a))
    BY <1>1, Zenon DEF Providers, IsGlobal
  <2>5. made[a] \subseteq DOMAIN Providers(a) /\ made[a] # DOMAIN Providers(a)
    BY <1>1, <2>1, Zenon DEF Wired, Running
  <2>6. ASSUME NEW code, Fail(a, code), code # Null,
               code = "Error" => Mode(raw[a]) # "standalone",
               code = "unresolved dependency" => admin[a] # Null /\ ~IsGlobal(a)
        PROVE  Wired(a)' /\ Accepted(a)' /\ Explained(a)'
    <3>1. UNCHANGED <<resolved, made>> /\ failure' = [failure EXCEPT ![a] = code]
      BY <2>6 DEF Fail
    <3>2. failure'[a] = code
      BY <1>4, <3>1
    <3>3. Wired(a)'
      BY <1>1, <2>4, <2>5, <3>1, Zenon DEF Wired
    <3>4. Accepted(a)'
      BY <1>1, <2>1, <3>1, Zenon DEF Accepted
    <3>5. Explained(a)'
      BY <1>1, <2>4, <2>5, <2>6, <3>1, <3>2, Zenon DEF Explained
    <3> QED BY <3>3, <3>4, <3>5
  <2>7. CASE Ready(a) = {} /\ Fail(a, "unresolved dependency")
    <3>1. admin[a] # Null /\ ~IsGlobal(a)
      BY <2>5, <2>7, Completed, Zenon
    <3>2. "unresolved dependency" # Null /\ "unresolved dependency" # "Error"
      BY NullDiffers
    <3>3. Wired(a)' /\ Accepted(a)' /\ Explained(a)'
      BY <2>6, <2>7, <3>1, <3>2
    <3> QED BY <2>3, <3>3 DEF AppInv
  <2>8. CASE \E p \in Throwing(a) : Fail(a, BuildError(a, p))
    <3>1. PICK p \in Throwing(a) : Fail(a, BuildError(a, p))
      BY <2>8
    <3>2. p \in Ready(a) /\ BuildError(a, p) # Null
      BY DEF Throwing
    <3>3. /\ BuildError(a, p) # "unresolved dependency"
          /\ BuildError(a, p) = "Error" => p = "ConnectionManager" /\ ~Constructs(resolved[a])
      BY <3>2, Throws, Zenon
    <3>4. ASSUME BuildError(a, p) = "Error" PROVE Mode(raw[a]) # "standalone"
      <4>1. "OPTIONS" \in made[a]
        BY <3>2, <3>3, <3>4, ManagerNeedsOptions, Zenon
      <4>2. Refusal(raw[a]) = Null /\ ~Constructs(ApplyDefaults(raw[a]))
        BY <2>1, <3>3, <3>4, <4>1, Zenon DEF Accepted
      <4> QED BY <4>2, StandaloneConstructs, Zenon
    <3>5. Wired(a)' /\ Accepted(a)' /\ Explained(a)'
      BY <2>6, <3>1, <3>2, <3>3, <3>4, Zenon
    <3> QED BY <2>3, <3>5 DEF AppInv
  <2>9. CASE /\ Throwing(a) = {} /\ made' = [made EXCEPT ![a] = @ \union Ready(a)] /\ UNCHANGED failure
             /\ resolved' = [resolved EXCEPT ![a] = IF "OPTIONS" \in Ready(a) THEN ApplyDefaults(raw[a]) ELSE @]
    <3>1. /\ made'[a] = made[a] \union Ready(a) /\ failure'[a] = Null
          /\ resolved'[a] = IF "OPTIONS" \in Ready(a) THEN ApplyDefaults(raw[a]) ELSE resolved[a]
      BY <1>1, <1>4, <2>9
    <3>2. Ready(a) \subseteq DOMAIN Providers(a) \ made[a]
      BY DEF Ready
    <3>3. Wired(a)'
      BY <1>1, <2>4, <2>5, <3>1, <3>2 DEF Wired
    <3>4. Explained(a)'
      <4>1. Null \notin {"Error", "unresolved dependency"}
        BY NullDiffers
      <4> QED BY <3>1, <4>1 DEF Explained
    <3>5. "OPTIONS" \in made'[a] => Refusal(raw[a]) = Null /\ resolved'[a] = ApplyDefaults(raw[a])
      <4>1. CASE "OPTIONS" \in Ready(a)
        BY <1>1, <2>9, <3>1, <4>1, BuildingRefusesNot DEF StartInv
      <4>2. CASE "OPTIONS" \notin Ready(a)
        BY <2>1, <3>1, <4>2 DEF Accepted
      <4> QED BY <4>1, <4>2
    <3>6. "ADMIN_OPTIONS" \in made'[a] => AdminRefusal(admin[a]) = Null
      <4>1. CASE "ADMIN_OPTIONS" \in Ready(a)
        <5>1. BuildError(a, "ADMIN_OPTIONS") = AdminRefusal(admin[a])
          BY DEF BuildError
        <5>2. BuildError(a, "ADMIN_OPTIONS") = Null
          BY <2>9, <4>1 DEF Throwing
        <5> QED BY <5>1, <5>2
      <4>2. CASE "ADMIN_OPTIONS" \notin Ready(a)
        BY <2>1, <3>1, <4>2 DEF Accepted
      <4> QED BY <4>1, <4>2
    <3>7. Accepted(a)'
      BY <1>1, <3>5, <3>6, Zenon DEF Accepted
    <3> QED BY <2>3, <3>3, <3>4, <3>7 DEF AppInv
  <2> QED BY <1>5, <2>7, <2>8, <2>9
<1> QED BY <1>2, <1>3, <1>6, <1>7 DEF StartInv

(* Opening a client keeps it.                                              *)
LEMMA OpeningStarts ==
  ASSUME StartInv, NEW a \in Apps, OpenClient(a) \/ OpenSubscriber(a)
  PROVE  StartInv'
<1>1. UNCHANGED <<entry, raw, admin, resolved, made, failure, store>> /\ Running(a)
  BY DEF OpenClient, OpenSubscriber, starting
<1>2. IInv'
  BY <1>1, GivenStays DEF StartInv, IInv, FunctionInv, EntryInv, RefusalInv, ResolvedInv, StoreInv
<1>3. main = [b \in Apps |-> main[b]] /\ subscriber = [b \in Apps |-> subscriber[b]]
  BY DEF StartInv, ClientsInv
<1>4. /\ main'[a] \in {main[a], CreateClient(resolved[a], Null)}
      /\ main[a] # Null => main'[a] = main[a]
      /\ subscriber'[a] \in {subscriber[a], CreateClient(resolved[a], TRUE)}
      /\ \A b \in Apps \ {a} : main'[b] = main[b] /\ subscriber'[b] = subscriber[b]
      /\ ClientsInv'
  <2>1. CASE OpenClient(a)
    <3>1. /\ main[a] = Null /\ UNCHANGED subscriber
          /\ main' = [main EXCEPT ![a] = CreateClient(resolved[a], Null)]
      BY <2>1 DEF OpenClient
    <3> QED BY <1>3, <3>1 DEF ClientsInv
  <2>2. CASE OpenSubscriber(a)
    <3>1. /\ UNCHANGED main
          /\ subscriber' = [subscriber EXCEPT ![a] = CreateClient(resolved[a], TRUE)]
      BY <2>2 DEF OpenSubscriber
    <3> QED BY <1>3, <3>1 DEF ClientsInv
  <2> QED BY <2>1, <2>2
<1>5. ASSUME NEW b \in Apps PROVE LeftAlone(b)
  BY <1>1, Zenon DEF LeftAlone
<1>6. ASSUME NEW b \in Apps \ {a} PROVE AppInv(b)'
  BY <1>4, <1>5, SameAppInv DEF StartInv
<1>7. AppInv(a)'
  <2>1. Wired(a)' /\ Accepted(a)' /\ Explained(a)' /\ Running(a)'
    BY <1>1, <1>5, SameApp, Zenon DEF StartInv, AppInv
  <2>2. Served(a)
    BY DEF StartInv, AppInv
  <2>3. main'[a] # Null => main'[a] = CreateClient(resolved[a], Null)
    BY <1>4, <2>2, Zenon DEF Served
  <2>4. subscriber'[a] # Null => subscriber'[a] = CreateClient(resolved[a], TRUE)
    BY <1>4, <2>2, Zenon DEF Served
  <2>5. resolved'[a] = resolved[a]
    BY <1>1, Zenon
  <2>6. Served(a)'
    BY <2>1, <2>3, <2>4, <2>5, Zenon DEF Served
  <2> QED BY <2>1, <2>6 DEF AppInv
<1>8. KeysInv'
  <2>1. \A b \in Apps : main[b] # Null => main'[b] = main[b]
    BY <1>4
  <2> QED BY <1>1, <2>1 DEF StartInv, KeysInv
<1> QED BY <1>2, <1>4, <1>6, <1>7, <1>8 DEF StartInv

(* A step that leaves every application alone.                             *)
LEMMA KeysStart ==
  ASSUME StartInv, UNCHANGED <<entry, raw, admin, resolved, made, failure, main, subscriber>>, IInv', KeysInv'
  PROVE  StartInv'
<1>1. ASSUME NEW b \in Apps PROVE AppInv(b)'
  <2>1. LeftAlone(b) /\ main'[b] = main[b] /\ subscriber'[b] = subscriber[b]
    BY Zenon DEF LeftAlone
  <2> QED BY <2>1, SameAppInv DEF StartInv
<1>2. ClientsInv'
  BY DEF StartInv, ClientsInv
<1> QED BY <1>1, <1>2 DEF StartInv

(* A write keeps it.                                                       *)
LEMMA WriteStarts ==
  ASSUME StartInv, NEW a \in Apps, NEW key, Write(a, key), IInv'
  PROVE  StartInv'
<1>1. /\ UNCHANGED <<entry, raw, admin, resolved, made, failure, main, subscriber>>
      /\ main[a] # Null /\ Cardinality(store) < MaxKeys
      /\ store' = store \union {[owner |-> a, key |-> key]}
  BY DEF Write, starting, clients
<1>2. IsFiniteSet(store) /\ \A w \in store : w.owner \in Apps /\ main[w.owner] # Null
  BY DEF StartInv, KeysInv
<1> DEFINE new == [owner |-> a, key |-> key]
<1>3. /\ IsFiniteSet(store \union {new}) /\ Cardinality(store) \in Nat
      /\ Cardinality(store \union {new}) \in {Cardinality(store), Cardinality(store) + 1}
  <2> HIDE DEF new
  <2> QED BY <1>2, FS_AddElement, FS_CardinalityType
<1>4. \A w \in store' : w.owner \in Apps /\ main'[w.owner] # Null
  BY <1>1, <1>2
<1>5. MaxKeys \in Nat
  BY DeploymentAssumption, Zenon DEF DeploymentAssumption
<1>6. KeysInv'
  BY <1>1, <1>3, <1>4, <1>5 DEF KeysInv
<1> QED BY <1>1, <1>6, KeysStart

(* Every step keeps it.                                                    *)
LEMMA StepStarts ==
  ASSUME StartInv, [Next]_vars
  PROVE  StartInv'
<1>0. IInv'
  BY StepHolds DEF StartInv
<1>1. ASSUME NEW a \in Apps, ForRoot(a) \/ ForRootAsync(a) PROVE StartInv'
  BY <1>1, RegistrationStarts
<1>2. ASSUME NEW a \in Apps, Instantiate(a) PROVE StartInv'
  BY <1>2, BuildingStarts
<1>3. ASSUME NEW a \in Apps, OpenClient(a) \/ OpenSubscriber(a) PROVE StartInv'
  BY <1>3, OpeningStarts
<1>4. ASSUME NEW a \in Apps, Flush(a) PROVE StartInv'
  <2>1. UNCHANGED <<entry, raw, admin, resolved, made, failure, main, subscriber>> /\ store' \subseteq store
    BY <1>4 DEF Flush, starting, clients
  <2>2. IsFiniteSet(store') /\ Cardinality(store') <= Cardinality(store) /\ Cardinality(store') \in Nat
        /\ Cardinality(store) \in Nat
    BY <2>1, FS_Subset, FS_CardinalityType DEF StartInv, KeysInv
  <2>3. MaxKeys \in Nat
    BY DeploymentAssumption, Zenon DEF DeploymentAssumption
  <2>4. KeysInv'
    BY <2>1, <2>2, <2>3 DEF StartInv, KeysInv
  <2> QED BY <1>0, <2>1, <2>4, KeysStart
<1>5. ASSUME NEW a \in Apps, NEW key \in Texts, SetBare(a, key) PROVE StartInv'
  BY <1>0, <1>5, WriteStarts DEF SetBare
<1>6. ASSUME NEW a \in Apps, NEW prefix \in Texts, NEW id \in Texts, SetKey(a, prefix, id) PROVE StartInv'
  BY <1>0, <1>6, WriteStarts DEF SetKey
<1>7. CASE UNCHANGED vars
  <2>1. UNCHANGED <<entry, raw, admin, resolved, made, failure, main, subscriber, store>>
    BY <1>7 DEF vars, starting, clients
  <2>2. KeysInv'
    BY <2>1 DEF StartInv, KeysInv
  <2> QED BY <1>0, <2>1, <2>2, KeysStart
<1> QED BY <1>1, <1>2, <1>3, <1>4, <1>5, <1>6, <1>7 DEF Next

-----------------------------------------------------------------------------
(* What the invariant of the starts means.                                 *)

(* What an application that runs resolved its options from.                *)
LEMMA RunningAccepted ==
  ASSUME StartInv, NEW a \in Apps, Running(a)
  PROVE  /\ Refusal(raw[a]) = Null /\ resolved[a] = ApplyDefaults(raw[a])
         /\ raw[a] # Null /\ CacheOptionsTyped(raw[a])
         /\ admin[a] # Null => AdminRefusal(admin[a]) = Null /\ AdminOptionsTyped(admin[a])
<1>1. "OPTIONS" \in made[a]
  BY OptionsProvided
<1>2. entry[a] # Null /\ made[a] = DOMAIN Providers(a)
  BY DEF Running
<1>3. raw[a] # Null
  BY <1>2 DEF StartInv, IInv, EntryInv
<1>4. CacheOptionsTyped(raw[a]) /\ (admin[a] # Null => AdminOptionsTyped(admin[a]))
  BY <1>3, RawTyped, Zenon DEF StartInv, IInv
<1>5. Accepted(a)
  BY DEF StartInv, AppInv
<1>6. admin[a] # Null => "ADMIN_OPTIONS" \in made[a]
  BY <1>2, ProvidersAre, CommonNames
<1> QED BY <1>1, <1>3, <1>4, <1>5, <1>6, Zenon DEF Accepted

(* The invariant of the starts gives each part of what is promised.        *)
LEMMA TypeHolds ==
  ASSUME StartInv
  PROVE  TypeOK
<1>1. entry \in [Apps -> {Null, "forRoot", "forRootAsync"}] /\ DOMAIN made = Apps
  <2>1. entry = [a \in Apps |-> entry[a]] /\ made = [a \in Apps |-> made[a]]
    BY DEF StartInv, IInv, FunctionInv
  <2>2. \A a \in Apps : entry[a] \in {Null, "forRoot", "forRootAsync"}
    BY DEF StartInv, IInv, EntryInv
  <2> QED BY <2>1, <2>2
<1>2. \A a \in Apps : Wired(a) /\ Explained(a) /\ Served(a)
  BY DEF StartInv, AppInv
<1>3. \A a \in Apps : entry[a] # Null => made[a] \subseteq DOMAIN Providers(a)
  BY <1>2, Zenon DEF Wired
<1>4. \A a \in Apps : failure[a] # Null => made[a] # DOMAIN Providers(a) /\ main[a] = Null /\ subscriber[a] = Null
  BY <1>2, Zenon DEF Explained, Served, Running
<1>5. ASSUME NEW a \in Apps, Running(a) PROVE resolved[a] # Null
  BY <1>5, RunningAccepted, Zenon DEF CacheOptionsTyped
<1>6. (\A w \in store : w.owner \in Apps /\ main[w.owner] # Null) /\ Cardinality(store) <= MaxKeys
  BY DEF StartInv, KeysInv
<1> QED BY <1>1, <1>3, <1>4, <1>5, <1>6 DEF TypeOK

LEMMA RefusalsHold ==
  ASSUME StartInv
  PROVE  StandaloneRefusalIsCoded /\ Resolves
BY Zenon DEF StandaloneRefusalIsCoded, Resolves, StartInv, AppInv, Explained

(* Defaults are values.                                                    *)
LEMMA NullIsNoValue ==
  /\ TRUE # Null /\ FALSE # Null /\ "tls" # Null
  /\ DefaultCommandTimeout # Null /\ DefaultMaxRetries # Null /\ DefaultPort # Null
  /\ DefaultMaxRetries # Nil /\ Nil \notin Nat
<1>1. Null \notin BOOLEAN /\ Null \notin Nat /\ Nil \notin Nat
  BY NullAssumption, Zenon DEF NullAssumption
<1>2. TRUE # Null /\ FALSE # Null
  BY <1>1, Zenon
<1>3. "tls" # Null
  BY NullDiffers
<1>4. DefaultCommandTimeout \in Nat /\ DefaultMaxRetries \in Nat /\ DefaultPort \in Nat
  BY DEF DefaultCommandTimeout, DefaultMaxRetries, DefaultPort
<1> QED BY <1>1, <1>2, <1>3, <1>4, Zenon

(* The options of a client of a Redis that is no cluster.                  *)
RedisOptions(o, queue) == [BuildRedisOptions(o) EXCEPT !.enableOfflineQueue = Or(queue, @)]

(* The client of each mode.                                                *)
LEMMA ClientIs ==
  ASSUME NEW o, NEW queue
  PROVE  /\ o.mode = "sentinel" => CreateClient(o, queue) = SentinelClient(o.sentinel, RedisOptions(o, queue))
         /\ o.mode = "cluster" => CreateClient(o, queue) = ClusterClient(o.cluster, queue)
         /\ o.mode = "standalone" => CreateClient(o, queue) = Also(RedisOptions(o, queue), [driver |-> "redis"])
BY DEF CreateClient, RedisOptions

(* What a client is given, driver and role aside.                          *)
LEMMA RedisOptionsAre ==
  ASSUME NEW o, NEW queue
  PROVE  LET r == RedisOptions(o, queue)
             b == BuildRedisOptions(o)
         IN  /\ {"host", "port", "tls", "commandTimeout", "maxRetriesPerRequest", "enableOfflineQueue"} \subseteq DOMAIN r
             /\ r.host = b.host /\ r.port = b.port /\ r.tls = b.tls
             /\ r.commandTimeout = Or(Connection(o).commandTimeout, DefaultCommandTimeout)
             /\ r.maxRetriesPerRequest = Or(Connection(o).maxRetriesPerRequest, DefaultMaxRetries)
             /\ r.enableOfflineQueue = Or(queue, Or(Connection(o).enableOfflineQueue, FALSE))
BY DEF RedisOptions, BuildRedisOptions

(* The fields that every client has, and the modes they come with.         *)
SharedFields == {"host", "port", "tls", "commandTimeout", "maxRetriesPerRequest", "enableOfflineQueue"}

Unclustered(o) == o.mode \in {"standalone", "sentinel"}
Moded(o)       == Unclustered(o) \/ o.mode = "cluster"

(* The fields of a client that is no cluster are those it is given.        *)
LEMMA ClientFields ==
  ASSUME NEW o, NEW queue, Unclustered(o)
  PROVE  /\ \A f \in SharedFields : CreateClient(o, queue)[f] = RedisOptions(o, queue)[f]
         /\ CreateClient(o, queue).driver # "cluster"
<1> DEFINE r == RedisOptions(o, queue)
<1>1. SharedFields \subseteq DOMAIN r
  BY RedisOptionsAre, Zenon DEF SharedFields
<1>0. "driver" \notin DOMAIN r
  BY DEF RedisOptions, BuildRedisOptions
<1>2. CASE o.mode = "standalone"
  <2> DEFINE g == [driver |-> "redis"]
  <2>1. CreateClient(o, queue) = Also(r, g)
    BY <1>2, ClientIs
  <2>3. DOMAIN g = {"driver"} /\ g["driver"] # "cluster"
    OBVIOUS
  <2> HIDE DEF r, g
  <2>2. \A f \in DOMAIN r : Also(r, g)[f] = r[f]
    BY AlsoIs
  <2>4. Also(r, g)["driver"] = g["driver"]
    <3>1. "driver" \in DOMAIN g
      BY <2>3
    <3>2. Also(r, g)["driver"] = Spread(r, "driver", g["driver"])
      BY <3>1, SpreadIs, Zenon
    <3> QED BY <1>0, <3>2, Zenon DEF Spread, r
  <2>5. CreateClient(o, queue)["driver"] # "cluster"
    BY <2>1, <2>3, <2>4, Zenon
  <2> QED BY <1>1, <2>1, <2>2, <2>5, Zenon DEF r
<1>3. CASE o.mode = "sentinel"
  <2> DEFINE s == o.sentinel
             h == [r EXCEPT !.password = Or(s.password, @)]
             g == [driver |-> "sentinel", role |-> IF s.role = "replica" THEN "slave" ELSE s.role]
  <2>1. CreateClient(o, queue) = Also(h, g)
    BY <1>3, ClientIs DEF SentinelClient
  <2>2. DOMAIN h = DOMAIN r /\ \A f \in SharedFields : h[f] = r[f]
    <3> HIDE DEF r
    <3> QED BY <1>1 DEF SharedFields
  <2>4. DOMAIN g = {"driver", "role"} /\ g["driver"] # "cluster"
    OBVIOUS
  <2> HIDE DEF r, g, h
  <2>3. \A f \in DOMAIN h : Also(h, g)[f] = h[f]
    BY AlsoIs
  <2>5. Also(h, g)["driver"] = g["driver"]
    <3>1. "driver" \in DOMAIN g /\ "driver" \notin DOMAIN h
      BY <1>0, <2>2, <2>4 DEF r
    <3>2. Also(h, g)["driver"] = Spread(h, "driver", g["driver"])
      BY <3>1, SpreadIs, Zenon
    <3> QED BY <3>1, <3>2, Zenon DEF Spread
  <2>6. CreateClient(o, queue)["driver"] # "cluster"
    BY <2>1, <2>4, <2>5, Zenon
  <2> QED BY <1>1, <2>1, <2>2, <2>3, <2>6, Zenon DEF r
<1> QED BY <1>2, <1>3 DEF Unclustered

(* The options that a cluster is given.                                    *)
LEMMA ClusterFields ==
  ASSUME NEW c, NEW queue
  PROVE  LET k == ClusterClient(c, queue)
         IN  /\ k.driver = "cluster"
             /\ k.enableOfflineQueue = Or(queue, Spread(c.options, "enableOfflineQueue", FALSE))
             /\ k.redisOptions.commandTimeout = Spread(c.redisOptions, "commandTimeout", DefaultCommandTimeout)
             /\ k.redisOptions.maxRetriesPerRequest = Spread(c.redisOptions, "maxRetriesPerRequest", DefaultMaxRetries)
             /\ \A f \in DOMAIN c.redisOptions : k.redisOptions[f] = c.redisOptions[f]
<1> DEFINE k == ClusterClient(c, queue)
           d == [enableOfflineQueue |-> FALSE]
<1>1. k.driver = "cluster" /\ k.enableOfflineQueue = Or(queue, Also(c.options, d).enableOfflineQueue)
      /\ k.redisOptions = Also(c.redisOptions, ClusterDefaults)
  BY DEF ClusterClient
<1>2. DOMAIN d = {"enableOfflineQueue"} /\ d["enableOfflineQueue"] = FALSE
  OBVIOUS
<1>3. /\ DOMAIN ClusterDefaults = {"connectTimeout", "commandTimeout", "maxRetriesPerRequest"}
      /\ ClusterDefaults["commandTimeout"] = DefaultCommandTimeout
      /\ ClusterDefaults["maxRetriesPerRequest"] = DefaultMaxRetries
  BY DEF ClusterDefaults
<1> HIDE DEF k, d
<1>4. /\ "enableOfflineQueue" \in DOMAIN d /\ "commandTimeout" \in DOMAIN ClusterDefaults
      /\ "maxRetriesPerRequest" \in DOMAIN ClusterDefaults
  BY <1>2, <1>3
<1>5. Also(c.options, d)["enableOfflineQueue"] = Spread(c.options, "enableOfflineQueue", FALSE)
  <2>1. Also(c.options, d)["enableOfflineQueue"] = Spread(c.options, "enableOfflineQueue", d["enableOfflineQueue"])
    BY <1>4, SpreadIs
  <2> QED BY <1>2, <2>1, Zenon
<1>6. /\ Also(c.redisOptions, ClusterDefaults)["commandTimeout"] = Spread(c.redisOptions, "commandTimeout", DefaultCommandTimeout)
      /\ Also(c.redisOptions, ClusterDefaults)["maxRetriesPerRequest"] = Spread(c.redisOptions, "maxRetriesPerRequest", DefaultMaxRetries)
  <2> DEFINE g == ClusterDefaults
  <2>1. Also(c.redisOptions, g)["commandTimeout"] = Spread(c.redisOptions, "commandTimeout", g["commandTimeout"])
    BY <1>4, SpreadIs
  <2>2. Also(c.redisOptions, g)["maxRetriesPerRequest"] = Spread(c.redisOptions, "maxRetriesPerRequest", g["maxRetriesPerRequest"])
    BY <1>4, SpreadIs
  <2> QED BY <1>3, <2>1, <2>2, Zenon
<1>7. \A f \in DOMAIN c.redisOptions : Also(c.redisOptions, ClusterDefaults)[f] = c.redisOptions[f]
  BY AlsoIs
<1>8. k.enableOfflineQueue = Or(queue, Spread(c.options, "enableOfflineQueue", FALSE))
  BY <1>1, <1>5, Zenon
<1> QED BY <1>1, <1>6, <1>7, <1>8, Zenon DEF k

(* A client that is no cluster: what it queues, gives up and retries.      *)
LEMMA UnclusteredIs ==
  ASSUME NEW o, NEW queue, Unclustered(o),
         Connection(o).maxRetriesPerRequest \in {Null} \union Nat
  PROVE  LET c == CreateClient(o, queue)
         IN  /\ GivesUp(c) /\ Redis(c).maxRetriesPerRequest # Nil
             /\ c.enableOfflineQueue = Or(queue, Or(Connection(o).enableOfflineQueue, FALSE))
<1> DEFINE c == CreateClient(o, queue)
           r == RedisOptions(o, queue)
<1>1. (\A f \in SharedFields : c[f] = r[f]) /\ c.driver # "cluster"
  BY ClientFields, Zenon
<1>2. /\ c.commandTimeout = r.commandTimeout /\ c.maxRetriesPerRequest = r.maxRetriesPerRequest
      /\ c.enableOfflineQueue = r.enableOfflineQueue
  <2> HIDE DEF c, r
  <2> QED BY <1>1 DEF SharedFields
<1>3. /\ r.commandTimeout = Or(Connection(o).commandTimeout, DefaultCommandTimeout)
      /\ r.maxRetriesPerRequest = Or(Connection(o).maxRetriesPerRequest, DefaultMaxRetries)
      /\ r.enableOfflineQueue = Or(queue, Or(Connection(o).enableOfflineQueue, FALSE))
  BY RedisOptionsAre, Zenon
<1>4. \A x : Or(x, DefaultCommandTimeout) # Null
  BY NullIsNoValue, Zenon DEF Or
<1>5. Or(Connection(o).maxRetriesPerRequest, DefaultMaxRetries) # Nil
  <2>1. CASE Connection(o).maxRetriesPerRequest = Null
    BY <2>1, NullIsNoValue, Zenon DEF Or
  <2>2. CASE Connection(o).maxRetriesPerRequest \in Nat
    BY <2>2, NullIsNoValue, Zenon DEF Or
  <2> QED BY <2>1, <2>2
<1> HIDE DEF c, r
<1>6. Redis(c) = c
  BY <1>1, Zenon DEF Redis
<1>7. GivesUp(c)
  BY <1>1, <1>2, <1>3, <1>4, <1>6, Zenon DEF GivesUp
<1>8. Redis(c).maxRetriesPerRequest # Nil
  BY <1>2, <1>3, <1>5, <1>6, Zenon
<1> QED BY <1>2, <1>3, <1>7, <1>8, Zenon DEF c

(* The mode of an application that runs.                                   *)
LEMMA RunningMode ==
  ASSUME StartInv, NEW a \in Apps, Running(a)
  PROVE  /\ Moded(resolved[a])
         /\ resolved[a].mode = Mode(raw[a])
         /\ resolved[a].connection = raw[a].connection /\ resolved[a].cluster = raw[a].cluster
<1>1. resolved[a] = ApplyDefaults(raw[a]) /\ raw[a].mode \in {Null, "standalone", "sentinel", "cluster"}
  BY RunningAccepted, Zenon DEF CacheOptionsTyped
<1>2. Mode(raw[a]) \in {"standalone", "sentinel", "cluster"}
  BY <1>1 DEF Mode, Or
<1>3. /\ ApplyDefaults(raw[a]).mode = Mode(raw[a])
      /\ ApplyDefaults(raw[a]).connection = raw[a].connection
      /\ ApplyDefaults(raw[a]).cluster = raw[a].cluster
  BY DEF ApplyDefaults
<1>4. resolved[a].mode = Mode(raw[a])
  BY <1>1, <1>3, Zenon
<1> QED BY <1>1, <1>2, <1>3, <1>4 DEF Moded, Unclustered

(* Clients give up and queue as their options say.                         *)
ClientHeld(a) ==
  LET o         == resolved[a]
      inCluster == o.mode = "cluster"
  IN  /\ main[a] # Null =>
           /\ GivesUp(main[a]) \/ (inCluster /\ (AsksToQueue(o.cluster) \/ AsksToWait(o.cluster)))
           /\ main[a].enableOfflineQueue # FALSE =>
                IF inCluster THEN AsksToQueue(o.cluster) ELSE o.connection.enableOfflineQueue = TRUE
           /\ Redis(main[a]).maxRetriesPerRequest = Nil => inCluster /\ AsksToRetry(o.cluster)
           /\ inCluster => \A f \in DOMAIN o.cluster.redisOptions : main[a].redisOptions[f] = o.cluster.redisOptions[f]
      /\ subscriber[a] # Null =>
           /\ subscriber[a].enableOfflineQueue = TRUE
           /\ GivesUp(subscriber[a]) \/ inCluster

(* A cluster client.                                                       *)
LEMMA ClusterHeld ==
  ASSUME NEW a \in Apps, resolved[a].mode = "cluster",
         main[a] # Null => main[a] = CreateClient(resolved[a], Null),
         subscriber[a] # Null => subscriber[a] = CreateClient(resolved[a], TRUE)
  PROVE  ClientHeld(a)
<1> DEFINE c    == resolved[a].cluster
           k(q) == ClusterClient(c, q)
<1>1. \A q : CreateClient(resolved[a], q) = k(q)
  BY ClientIs, Zenon
<1>2. \A q : /\ k(q).driver = "cluster"
             /\ k(q).enableOfflineQueue = Or(q, Spread(c.options, "enableOfflineQueue", FALSE))
             /\ k(q).redisOptions.commandTimeout = Spread(c.redisOptions, "commandTimeout", DefaultCommandTimeout)
             /\ k(q).redisOptions.maxRetriesPerRequest = Spread(c.redisOptions, "maxRetriesPerRequest", DefaultMaxRetries)
             /\ \A f \in DOMAIN c.redisOptions : k(q).redisOptions[f] = c.redisOptions[f]
  BY ClusterFields, Zenon
<1> HIDE DEF k
<1>3. ASSUME main[a] # Null
      PROVE  /\ GivesUp(main[a]) \/ AsksToQueue(c) \/ AsksToWait(c)
             /\ main[a].enableOfflineQueue # FALSE => AsksToQueue(c)
             /\ Redis(main[a]).maxRetriesPerRequest = Nil => AsksToRetry(c)
             /\ \A f \in DOMAIN c.redisOptions : main[a].redisOptions[f] = c.redisOptions[f]
  <2> DEFINE m == main[a]
  <2>1. m = k(Null)
    BY <1>1, <1>3, Zenon
  <2>2. /\ m.driver = "cluster"
        /\ m.enableOfflineQueue = Or(Null, Spread(c.options, "enableOfflineQueue", FALSE))
        /\ m.redisOptions.commandTimeout = Spread(c.redisOptions, "commandTimeout", DefaultCommandTimeout)
        /\ m.redisOptions.maxRetriesPerRequest = Spread(c.redisOptions, "maxRetriesPerRequest", DefaultMaxRetries)
        /\ \A f \in DOMAIN c.redisOptions : m.redisOptions[f] = c.redisOptions[f]
    BY <1>2, <2>1, Zenon
  <2> HIDE DEF m, c
  <2>3. Redis(m) = m.redisOptions
    BY <2>2, Zenon DEF Redis
  <2>4. m.enableOfflineQueue # FALSE => AsksToQueue(c)
    <3>1. Or(Null, Spread(c.options, "enableOfflineQueue", FALSE)) = Spread(c.options, "enableOfflineQueue", FALSE)
          \/ Or(Null, Spread(c.options, "enableOfflineQueue", FALSE)) = FALSE
      BY Zenon DEF Or
    <3> QED BY <2>2, <3>1, Zenon DEF AsksToQueue, Spread
  <2>5. m.redisOptions.commandTimeout # Null \/ AsksToWait(c)
    BY <2>2, NullIsNoValue, Zenon DEF AsksToWait, Spread
  <2>6. m.redisOptions.maxRetriesPerRequest = Nil => AsksToRetry(c)
    BY <2>2, NullIsNoValue, Zenon DEF AsksToRetry, Spread
  <2>7. GivesUp(m) \/ AsksToQueue(c) \/ AsksToWait(c)
    BY <2>3, <2>4, <2>5, Zenon DEF GivesUp
  <2>8. Redis(m).maxRetriesPerRequest = Nil => AsksToRetry(c)
    BY <2>3, <2>6, Zenon
  <2> QED BY <2>2, <2>4, <2>7, <2>8, Zenon DEF m
<1>4. ASSUME subscriber[a] # Null PROVE subscriber[a].enableOfflineQueue = TRUE
  <2>1. subscriber[a].enableOfflineQueue = Or(TRUE, Spread(c.options, "enableOfflineQueue", FALSE))
    BY <1>1, <1>2, <1>4, Zenon
  <2> QED BY <2>1, NullIsNoValue, Zenon DEF Or
<1> QED BY <1>3, <1>4, Zenon DEF ClientHeld

(* A client of a Redis that is no cluster.                                 *)
LEMMA UnclusteredHeld ==
  ASSUME NEW a \in Apps, Unclustered(resolved[a]),
         main[a] # Null => main[a] = CreateClient(resolved[a], Null),
         subscriber[a] # Null => subscriber[a] = CreateClient(resolved[a], TRUE),
         resolved[a].connection # Null =>
           /\ resolved[a].connection.enableOfflineQueue \in {Null} \union BOOLEAN
           /\ resolved[a].connection.maxRetriesPerRequest \in {Null} \union Nat
  PROVE  ClientHeld(a)
<1> DEFINE o == resolved[a]
           c == Connection(o)
<1>1. /\ o.connection = Null => c.enableOfflineQueue = Null /\ c.maxRetriesPerRequest = Null
      /\ o.connection # Null => c = o.connection
  BY DEF Connection, Or
<1>2. c.maxRetriesPerRequest \in {Null} \union Nat
  BY <1>1, Zenon
<1>3. \A q : /\ GivesUp(CreateClient(o, q)) /\ Redis(CreateClient(o, q)).maxRetriesPerRequest # Nil
             /\ CreateClient(o, q).enableOfflineQueue = Or(q, Or(c.enableOfflineQueue, FALSE))
  BY <1>2, UnclusteredIs, Zenon
<1>4. o.mode # "cluster"
  BY DEF Unclustered
<1>5. ASSUME main[a] # Null
      PROVE  /\ GivesUp(main[a]) /\ Redis(main[a]).maxRetriesPerRequest # Nil
             /\ main[a].enableOfflineQueue # FALSE => o.connection.enableOfflineQueue = TRUE
  <2>1. /\ GivesUp(main[a]) /\ Redis(main[a]).maxRetriesPerRequest # Nil
        /\ main[a].enableOfflineQueue = Or(Null, Or(c.enableOfflineQueue, FALSE))
    BY <1>3, <1>5, Zenon
  <2>2. Or(Null, Or(c.enableOfflineQueue, FALSE)) = Or(c.enableOfflineQueue, FALSE)
    BY Zenon DEF Or
  <2>3. CASE o.connection = Null
    BY <1>1, <2>1, <2>2, <2>3, Zenon DEF Or
  <2>4. CASE o.connection # Null
    <3>1. c.enableOfflineQueue \in {Null, TRUE, FALSE} /\ c.enableOfflineQueue = o.connection.enableOfflineQueue
      BY <1>1, <2>4, Zenon
    <3> QED BY <2>1, <2>2, <3>1, Zenon DEF Or
  <2> QED BY <2>3, <2>4
<1>6. ASSUME subscriber[a] # Null
      PROVE  GivesUp(subscriber[a]) /\ subscriber[a].enableOfflineQueue = TRUE
  <2>1. GivesUp(subscriber[a]) /\ subscriber[a].enableOfflineQueue = Or(TRUE, Or(c.enableOfflineQueue, FALSE))
    BY <1>3, <1>6, Zenon
  <2> QED BY <2>1, NullIsNoValue, Zenon DEF Or
<1> QED BY <1>4, <1>5, <1>6, Zenon DEF ClientHeld

LEMMA ClientsHold ==
  ASSUME StartInv
  PROVE  ClientsAsPromised
<1>1. ASSUME NEW a \in Apps PROVE ClientHeld(a)
  <2>1. CASE main[a] = Null /\ subscriber[a] = Null
    BY <2>1, Zenon DEF ClientHeld
  <2>2. CASE main[a] # Null \/ subscriber[a] # Null
    <3>1. /\ Running(a)
          /\ main[a] # Null => main[a] = CreateClient(resolved[a], Null)
          /\ subscriber[a] # Null => subscriber[a] = CreateClient(resolved[a], TRUE)
      BY <2>2, Zenon DEF StartInv, AppInv, Served
    <3>2. Moded(resolved[a]) /\ resolved[a].connection = raw[a].connection
      BY <3>1, RunningMode, Zenon
    <3>3. raw[a].connection # Null =>
            /\ raw[a].connection.enableOfflineQueue \in {Null} \union BOOLEAN
            /\ raw[a].connection.maxRetriesPerRequest \in {Null} \union Nat
      BY <3>1, RunningAccepted, Zenon DEF CacheOptionsTyped
    <3>4. CASE resolved[a].mode = "cluster"
      BY <3>1, <3>4, ClusterHeld, Zenon
    <3>5. CASE Unclustered(resolved[a])
      BY <3>1, <3>2, <3>3, <3>5, UnclusteredHeld, Zenon
    <3> QED BY <3>2, <3>4, <3>5, Zenon DEF Moded
  <2> QED BY <2>1, <2>2
<1> QED BY <1>1, Zenon DEF ClientsAsPromised, ClientHeld

(* What a standalone client connects to, with a URL and without one.       *)
LEMMA WithUrl ==
  ASSUME NEW o, UrlParses(Connection(o).url)
  PROVE  LET b   == BuildRedisOptions(o)
             url == Connection(o).url
         IN  /\ b.host = url.host /\ b.port = Or(url.port, DefaultPort)
             /\ url.protocol = "rediss" => b.tls # Null
<1> DEFINE c   == Connection(o)
           url == c.url
           p   == ParseRedisUrl(url)
           b   == BuildRedisOptions(o)
<1>1. IsUrl(url) /\ url.host # Null
  BY DEF UrlParses
<1>2. url \notin {Null, EmptyUrl}
  BY <1>1 DEF IsUrl
<1>3. b.host = Or(p.host, c.host) /\ b.port = Or(p.port, c.port) /\ b.tls = Or(p.tls, c.tls)
  BY <1>2 DEF BuildRedisOptions
<1>4. p.host = url.host /\ p.port = Or(url.port, DefaultPort) /\ (url.protocol = "rediss" => p.tls = "tls")
  BY DEF ParseRedisUrl
<1>5. Or(url.port, DefaultPort) # Null /\ "tls" # Null
  BY NullIsNoValue, Zenon DEF Or
<1> HIDE DEF b, p, url, c
<1> QED BY <1>1, <1>3, <1>4, <1>5, Zenon DEF Or, b, url, c

LEMMA WithoutUrl ==
  ASSUME NEW o, Connection(o).url \in {Null, EmptyUrl}
  PROVE  LET b == BuildRedisOptions(o)
             c == Connection(o)
         IN  b.host = c.host /\ b.port = c.port /\ b.tls = c.tls
BY DEF BuildRedisOptions, NoUrl, Or

(* What is shown of accepted options of a standalone Redis.                *)
ShownOfUrl(url)  == [host |-> url.host, port |-> Or(url.port, DefaultPort), isTls |-> url.protocol = "rediss"]
ShownOfFields(c) == [host |-> c.host, port |-> c.port, isTls |-> c.tls # Null]

LEMMA ShownIs ==
  ASSUME NEW o
  PROVE  /\ o.mode # "standalone" => ReadEndpoint(o) = Withheld
         /\ o.mode = "standalone" /\ StandaloneHolds(o.connection) =>
              \/ UrlParses(o.connection.url) /\ ReadEndpoint(o) = ShownOfUrl(o.connection.url)
              \/ o.connection.url \in {Null, EmptyUrl} /\ ReadEndpoint(o) \in {Withheld, ShownOfFields(o.connection)}
<1> DEFINE c == o.connection
           A == o.mode # "standalone" \/ c = Null
           B == o.mode = "standalone" /\ c # Null /\ c.url \in {EmptyUrl, BadUrl}
           C == o.mode = "standalone" /\ c # Null /\ IsUrl(c.url)
<1>1. ReadEndpoint(o) = CASE A -> Withheld [] B -> Withheld [] C -> ShownOfUrl(c.url) [] OTHER -> ShownOfFields(c)
  BY Zenon DEF ReadEndpoint, ShownOfUrl, ShownOfFields
<1>2. ~(A /\ B) /\ ~(A /\ C) /\ ~(B /\ C)
  BY DEF IsUrl
<1>3. o.mode # "standalone" => A
  OBVIOUS
<1>4. o.mode = "standalone" /\ StandaloneHolds(c) =>
        \/ UrlParses(c.url) /\ C
        \/ c.url \in {Null, EmptyUrl} /\ ~A /\ ~C
  BY DEF StandaloneHolds, UrlParses, IsUrl
<1> HIDE DEF A, B, C
<1>5. A => ReadEndpoint(o) = Withheld
  BY <1>1, <1>2
<1>6. C => ReadEndpoint(o) = ShownOfUrl(c.url)
  BY <1>1, <1>2
<1>7. ~A /\ ~C => ReadEndpoint(o) \in {Withheld, ShownOfFields(c)}
  BY <1>1, <1>2
<1> QED BY <1>3, <1>4, <1>5, <1>6, <1>7, Zenon

(* The endpoint that is shown is the one the client is given.              *)
LEMMA EndpointHolds ==
  ASSUME StartInv
  PROVE  EndpointTrue
<1> SUFFICES ASSUME NEW a \in Apps, main[a] # Null
             PROVE  LET shown == ReadEndpoint(resolved[a])
                    IN  /\ shown.host # Null => shown.host = main[a].host
                        /\ shown.port # Null => shown.port = main[a].port
                        /\ shown.isTls => main[a].tls # Null
  BY DEF EndpointTrue
<1> DEFINE o     == resolved[a]
           c     == o.connection
           b     == BuildRedisOptions(o)
           shown == ReadEndpoint(o)
<1>1. Running(a) /\ main[a] = CreateClient(o, Null)
  BY Zenon DEF StartInv, AppInv, Served
<1>2. Withheld.host = Null /\ Withheld.port = Null /\ ~Withheld.isTls
  BY DEF Withheld
<1>3. CASE shown = Withheld
  BY <1>2, <1>3, Zenon
<1>4. CASE shown # Withheld
  <2>1. o.mode = "standalone"
    BY <1>4, ShownIs, Zenon
  <2>2. StandaloneHolds(c)
    <3>1. Mode(raw[a]) = "standalone" /\ o.connection = raw[a].connection
      BY <1>1, <2>1, RunningMode, Zenon
    <3>2. Refusal(raw[a]) = Null
      BY <1>1, RunningAccepted, Zenon
    <3> QED BY <3>1, <3>2, AcceptedModes, Zenon
  <2>3. c # Null /\ Connection(o) = c
    BY <2>2, Zenon DEF StandaloneHolds, Connection, Or
  <2>4. main[a].host = b.host /\ main[a].port = b.port /\ main[a].tls = b.tls
    <3> DEFINE client == CreateClient(o, Null)
               r      == RedisOptions(o, Null)
    <3>1. \A f \in SharedFields : client[f] = r[f]
      BY <2>1, ClientFields DEF Unclustered
    <3>2. r.host = b.host /\ r.port = b.port /\ r.tls = b.tls
      BY RedisOptionsAre, Zenon
    <3>3. client.host = r.host /\ client.port = r.port /\ client.tls = r.tls
      <4> HIDE DEF client, r
      <4> QED BY <3>1 DEF SharedFields
    <3>4. main[a] = client
      BY <1>1
    <3> HIDE DEF client, r, b
    <3> QED BY <3>2, <3>3, <3>4, Zenon
  <2>5. CASE UrlParses(c.url) /\ shown = ShownOfUrl(c.url)
    <3>1. /\ b.host = c.url.host /\ b.port = Or(c.url.port, DefaultPort)
          /\ c.url.protocol = "rediss" => b.tls # Null
      BY <2>3, <2>5, WithUrl, Zenon
    <3>2. /\ shown.host = c.url.host /\ shown.port = Or(c.url.port, DefaultPort)
          /\ shown.isTls <=> c.url.protocol = "rediss"
      <4> HIDE DEF c, shown
      <4> QED BY <2>5 DEF ShownOfUrl
    <3> HIDE DEF b, c, shown
    <3> QED BY <2>4, <3>1, <3>2, Zenon DEF shown
  <2>6. CASE c.url \in {Null, EmptyUrl} /\ shown = ShownOfFields(c)
    <3>1. b.host = c.host /\ b.port = c.port /\ b.tls = c.tls
      <4>1. Connection(o).url \in {Null, EmptyUrl}
        BY <2>3, <2>6
      <4>2. /\ b.host = Connection(o).host /\ b.port = Connection(o).port /\ b.tls = Connection(o).tls
        BY <4>1, WithoutUrl
      <4> QED BY <2>3, <4>2
    <3>2. shown.host = c.host /\ shown.port = c.port /\ (shown.isTls <=> c.tls # Null)
      <4> HIDE DEF c, shown
      <4> QED BY <2>6 DEF ShownOfFields
    <3> HIDE DEF b, c, shown
    <3> QED BY <2>4, <3>1, <3>2, Zenon DEF shown
  <2> QED BY <1>4, <2>1, <2>2, <2>5, <2>6, ShownIs, Zenon
<1> QED BY <1>3, <1>4

(* A scope that was accepted decides what Redis decides.                   *)
LEMMA ScopeDecides ==
  ASSUME NEW pattern \in Seq(Chars), NEW key \in Seq(Chars), ScopePatternShape(pattern)
  PROVE  IsKeyInScope(pattern, key) <=> GlobMatches(pattern, key)
<1>1. pattern # <<>> /\ Literal(LiteralPart(pattern))
  BY DEF ScopePatternShape, Literal
<1>2. CASE ~IsPrefixMatch(pattern)
  <2>1. LiteralPart(pattern) = pattern /\ (IsKeyInScope(pattern, key) <=> key = pattern)
    BY <1>2, Zenon DEF LiteralPart, IsKeyInScope
  <2> QED BY <1>1, <2>1, LiteralMatches
<1>3. CASE IsPrefixMatch(pattern)
  <2> DEFINE p == Front(pattern)
             C == Chars \union {"*"}
  <2>1. LiteralPart(pattern) = p /\ (IsKeyInScope(pattern, key) <=> IsPrefix(p, key))
    BY <1>3, Zenon DEF LiteralPart, IsKeyInScope
  <2>2. pattern = p \o <<"*">> /\ p \in Seq(Chars)
    BY <1>1, <1>3 DEF Front, IsPrefixMatch, Last
  <2> HIDE DEF p
  <2>3. Literal(p)
    BY <1>1, <2>1
  <2>4. IsPrefix(p, key) => GlobMatches(p \o <<"*">>, key)
    BY <2>2, <2>3, StarMatches
  <2>5. GlobMatches(p \o <<"*">>, key) => IsPrefix(p, key)
    <3>1. p \in Seq(C) /\ key \in Seq(C) /\ <<"*">> \in Seq(C)
      BY <2>2
    <3> QED BY <2>3, <3>1, LiteralBeginning
  <2> QED BY <2>1, <2>2, <2>4, <2>5
<1> QED BY <1>2, <1>3

(* Every scope of an application that runs does.                           *)
LEMMA ScopesExact ==
  ASSUME StartInv
  PROVE  ScopeExact
<1> SUFFICES ASSUME NEW a \in Apps, Running(a), admin[a] # Null, NEW i \in DOMAIN admin[a].scopes, NEW w \in store
             PROVE  IsKeyInScope(admin[a].scopes[i].pattern, w.key) <=> GlobMatches(admin[a].scopes[i].pattern, w.key)
  BY DEF ScopeExact
<1>1. AdminRefusal(admin[a]) = Null /\ AdminOptionsTyped(admin[a])
  BY RunningAccepted, Zenon
<1>2. admin[a].scopes[i].pattern \in Seq(Chars)
  BY <1>1, Zenon DEF AdminOptionsTyped
<1>3. ScopePatternShape(admin[a].scopes[i].pattern)
  <2>1. "INVALID_SCOPE" # Null
    BY NullDiffers
  <2>2. ScopesHold(admin[a].scopes)
    BY <1>1, <2>1, Zenon DEF AdminRefusal
  <2> QED BY <2>2, Zenon DEF ScopesHold
<1>4. w.key \in Seq(Chars)
  BY KeyIsText DEF StartInv
<1> QED BY <1>2, <1>3, <1>4, ScopeDecides, Zenon

LEMMA SpecStarts == Spec => []StartInv
<1>1. Init => StartInv
  BY InitStarts
<1>2. StartInv /\ [Next]_vars => StartInv'
  BY StepStarts
<1> QED BY <1>1, <1>2, PTL DEF Spec

(* No pattern of an application, a flush or a glob, reaches a key without  *)
(* its prefix, and a scope of the administration surface decides of a key  *)
(* what Redis decides (key-builder.ts:45-78, validate-scopes.ts:69-72).    *)
THEOREM PatternsStayInScope == Spec => []PatternsExact
<1>1. StartInv => PatternsExact
  BY PatternsKept, ScopesExact DEF PatternsExact, StartInv
<1> QED BY <1>1, SpecStarts, PTL

(* Whatever options applications are given: one that starts has the clients *)
(* they promise and shows the endpoint it uses, one that does not start is *)
(* refused for a reason, and providers are missing only where the cache    *)
(* module is not seen (default-options.ts:73-248,                          *)
(* connection.manager.ts:151-311).                                         *)
THEOREM ApplicationsStart == Spec => []StartsAsPromised
<1>1. StartInv => StartsAsPromised
  BY TypeHolds, ClientsHold, EndpointHolds, RefusalsHold DEF StartsAsPromised
<1> QED BY <1>1, SpecStarts, PTL
=============================================================================
