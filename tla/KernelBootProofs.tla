-------------------------- MODULE KernelBootProofs --------------------------
(* What update --kernel and remove leave for the next boot, for every set   *)
(* of versions and any number of commands, failures and power losses.      *)
EXTENDS KernelBoot, FiniteSetTheorems, TLAPS

-----------------------------------------------------------------------------
(* The order of versions.                                                  *)

\* The inductions below are arguments about a least number.
LEMMA LeastNat ==
    ASSUME NEW T \in SUBSET Nat, T # {}
    PROVE  \E x \in T : \A y \in T : x <= y
<1> DEFINE R == OpToRel(<, Nat)
<1>1. PICK x \in T : \A y \in T : ~ (<<y, x>> \in R)
  BY NatLessThanWellFounded, WFMin, Zenon
<1>2. R = {ss \in Nat \X Nat : ss[1] < ss[2]}
  BY Zenon DEF OpToRel
<1> HIDE DEF R
<1>3. ASSUME NEW y \in T PROVE x <= y
  <2>1. ~ (<<y, x>> \in R)
    BY <1>1, Zenon
  <2> QED
    BY <1>2, <2>1
<1> QED
  BY <1>3, Zenon

LEMMA MinFacts ==
    ASSUME NEW T \in SUBSET Nat, T # {}
    PROVE  Min(T) \in T /\ \A y \in T : Min(T) <= y
  BY LeastNat, Zenon DEF Min

LEMMA SeqFacts ==
    ASSUME NEW S, NEW s \in Seq(S)
    PROVE  /\ Len(s) \in Nat /\ s \in [1..Len(s) -> S]
           /\ \A k \in 1..Len(s) : s[k] \in S
  OBVIOUS

\* No token of the one differs from that of the other.
Alike(a, b) == \A k \in 1..Len(a) : k <= Len(b) => a[k] = b[k]

\* Token d is the first that differs.
Differ(a, b, d) ==
    /\ d \in 1..Len(a) /\ d \in 1..Len(b) /\ a[d] # b[d]
    /\ \A k \in 1..(d - 1) : a[k] = b[k]

LEMMA DifferOrAlike ==
    ASSUME NEW a \in Seq(Int), NEW b \in Seq(Int)
    PROVE  /\ Len(a) \in Nat /\ Len(b) \in Nat
           /\ \/ Alike(a, b) /\ CompareTokens(a, b) = Len(a) - Len(b)
              \/ \E d \in Nat : Differ(a, b, d) /\ CompareTokens(a, b) = a[d] - b[d]
<1> DEFINE la == Len(a)
           lb == Len(b)
           m == Min({la, lb})
           differ == {k \in 1..m : a[k] # b[k]}
<1>1. la \in Nat /\ lb \in Nat
  BY SeqFacts, Zenon
<1>2. m \in Nat /\ m <= la /\ m <= lb /\ (m = la \/ m = lb)
  <2> HIDE DEF la, lb
  <2>1. {la, lb} \in SUBSET Nat /\ {la, lb} # {}
    BY <1>1, Zenon
  <2>2. m \in {la, lb} /\ \A y \in {la, lb} : m <= y
    BY <2>1, MinFacts, Zenon
  <2> QED
    BY <1>1, <2>2, Zenon
<1>3. CASE differ = {}
  <2>1. CompareTokens(a, b) = la - lb
    BY <1>3, Zenon DEF CompareTokens
  <2>2. Alike(a, b)
    <3> SUFFICES ASSUME NEW k \in 1..la, k <= lb PROVE a[k] = b[k]
      BY Zenon DEF Alike
    <3> HIDE DEF m, la, lb
    <3>1. k \in 1..m
      BY <1>1, <1>2
    <3> QED
      BY <3>1, <1>3, Zenon
  <2> QED
    BY <1>1, <2>1, <2>2, Zenon
<1>4. CASE differ # {}
  <2> DEFINE d == Min(differ)
  <2>1. d \in differ /\ \A y \in differ : d <= y
    <3> HIDE DEF m
    <3>1. differ \in SUBSET Nat
      BY <1>2
    <3> HIDE DEF differ
    <3> QED
      BY <3>1, <1>4, MinFacts, Zenon
  <2>2. CompareTokens(a, b) = a[d] - b[d]
    BY <1>4, Zenon DEF CompareTokens
  <2> HIDE DEF d, m
  <2>4. d \in Nat /\ d \in 1..la /\ d \in 1..lb /\ a[d] # b[d]
    <3> HIDE DEF la, lb
    <3> QED
      BY <1>1, <1>2, <2>1
  <2>5. ASSUME NEW k \in 1..(d - 1) PROVE a[k] = b[k]
    <3>1. d \in 1..m /\ ~(d <= k)
      BY <1>2, <2>1, <2>4
    <3>2. k \in 1..m
      BY <1>2, <3>1
    <3> QED
      BY <2>1, <3>1, <3>2, Zenon
  <2> QED
    BY <1>1, <2>2, <2>4, <2>5, Zenon DEF Differ
<1> QED
  BY <1>3, <1>4, Zenon

\* The first difference is one in both directions, and there is only one.
LEMMA CompareAt ==
    ASSUME NEW a \in Seq(Int), NEW b \in Seq(Int), NEW d \in Nat, Differ(a, b, d)
    PROVE  /\ CompareTokens(a, b) = a[d] - b[d]
           /\ Differ(b, a, d)
           /\ a[d] \in Int /\ b[d] \in Int
<1>1. ~Alike(a, b)
  BY DifferOrAlike DEF Alike, Differ
<1>2. \A e \in Nat : Differ(a, b, e) => e = d
  BY DEF Differ
<1>3. Differ(b, a, d)
  BY Zenon DEF Differ
<1>4. a[d] \in Int /\ b[d] \in Int
  BY SeqFacts, Zenon DEF Differ
<1> QED
  BY <1>1, <1>2, <1>3, <1>4, DifferOrAlike, Zenon

LEMMA CompareAlike ==
    ASSUME NEW a \in Seq(Int), NEW b \in Seq(Int), Alike(a, b)
    PROVE  /\ CompareTokens(a, b) = Len(a) - Len(b)
           /\ Alike(b, a)
<1>1. Len(a) \in Nat /\ Len(b) \in Nat
  BY DifferOrAlike, Zenon
<1>2. \A d \in Nat : ~Differ(a, b, d)
  BY <1>1 DEF Alike, Differ
<1>3. Alike(b, a)
  BY <1>1 DEF Alike
<1> QED
  BY <1>2, <1>3, DifferOrAlike, Zenon

LEMMA TokensSwap ==
    ASSUME NEW a \in Seq(Int), NEW b \in Seq(Int)
    PROVE  /\ CompareTokens(a, b) \in Int
           /\ CompareTokens(b, a) = - CompareTokens(a, b)
<1>1. Len(a) \in Nat /\ Len(b) \in Nat
  BY DifferOrAlike, Zenon
<1>2. CASE Alike(a, b)
  BY <1>1, <1>2, CompareAlike
<1>3. ASSUME NEW d \in Nat, Differ(a, b, d)
      PROVE  /\ CompareTokens(a, b) \in Int
             /\ CompareTokens(b, a) = - CompareTokens(a, b)
  <2>1. /\ CompareTokens(a, b) = a[d] - b[d] /\ CompareTokens(b, a) = b[d] - a[d]
        /\ a[d] \in Int /\ b[d] \in Int
    BY <1>3, CompareAt, Zenon
  <2> QED
    BY <2>1
<1> QED
  BY <1>2, <1>3, DifferOrAlike, Zenon

LEMMA UpTo ==
    ASSUME NEW d \in Nat, NEW n \in Nat, d > 0, d <= n
    PROVE  /\ d \in 1..n /\ d \in 1..d
           /\ \A k \in 1..d : k \in 1..n /\ k <= n
           /\ \A k \in 1..(d - 1) : k \in 1..d
  OBVIOUS

LEMMA TokensTrans ==
    ASSUME NEW a \in Seq(Int), NEW b \in Seq(Int), NEW c \in Seq(Int)
    PROVE  CompareTokens(a, b) >= 0 /\ CompareTokens(b, c) >= 0 => CompareTokens(a, c) >= 0
<1> DEFINE Goal == CompareTokens(a, b) >= 0 /\ CompareTokens(b, c) >= 0 =>
                       CompareTokens(a, c) >= 0
<1>1. Len(a) \in Nat /\ Len(b) \in Nat /\ Len(c) \in Nat
  BY DifferOrAlike, Zenon
<1>2. CASE Alike(a, b) /\ Alike(b, c)
  <2>1. Len(a) >= Len(b) /\ Len(b) >= Len(c) => Alike(a, c)
    <3> SUFFICES ASSUME Len(a) >= Len(b), Len(b) >= Len(c), NEW k \in 1..Len(a), k <= Len(c)
                 PROVE  a[k] = c[k]
      BY Zenon DEF Alike
    <3>1. k <= Len(b) /\ k \in 1..Len(b)
      BY <1>1
    <3> QED
      BY <1>2, <3>1, Zenon DEF Alike
  <2> QED
    BY <1>1, <1>2, <2>1, CompareAlike
<1>3. ASSUME NEW d \in Nat, Differ(a, b, d), Alike(b, c) PROVE Goal
  <2>1. CASE d <= Len(c)
    <3>1. /\ d \in 1..Len(a) /\ d \in 1..Len(b) /\ a[d] # b[d]
          /\ \A k \in 1..(d - 1) : a[k] = b[k]
      BY <1>3, Zenon DEF Differ
    <3>2. d > 0 /\ d <= Len(b)
      BY <1>1, <3>1
    <3>4. /\ d \in 1..Len(c) /\ d \in 1..d /\ \A k \in 1..(d - 1) : k \in 1..d
          /\ \A k \in 1..d : k \in 1..Len(b) /\ k <= Len(c)
      BY <1>1, <2>1, <3>2, UpTo, Zenon
    <3>3. \A k \in 1..d : b[k] = c[k]
      BY <1>3, <3>4, Zenon DEF Alike
    <3>5. Differ(a, c, d) /\ c[d] = b[d]
      BY <3>1, <3>3, <3>4, Zenon DEF Differ
    <3> QED
      BY <1>3, <3>5, CompareAt
  <2>2. CASE d > Len(c)
    <3>1. Alike(a, c) /\ Len(a) > Len(c)
      BY <1>1, <1>3, <2>2, SMTT(30) DEF Alike, Differ
    <3> QED
      BY <1>1, <3>1, CompareAlike
  <2> QED
    BY <1>1, <2>1, <2>2
<1>4. ASSUME NEW e \in Nat, Alike(a, b), Differ(b, c, e) PROVE Goal
  <2>1. ASSUME Len(a) >= Len(b) PROVE Differ(a, c, e) /\ a[e] = b[e]
    <3>1. /\ e \in 1..Len(b) /\ e \in 1..Len(c) /\ b[e] # c[e]
          /\ \A k \in 1..(e - 1) : b[k] = c[k]
      BY <1>4, Zenon DEF Differ
    <3>0. e > 0 /\ e <= Len(b) /\ e <= Len(a)
      BY <1>1, <2>1, <3>1
    <3>2. \A k \in 1..e : k \in 1..Len(a) /\ k <= Len(b)
      BY <1>1, <3>0, UpTo, Zenon
    <3>3. \A k \in 1..e : a[k] = b[k]
      BY <1>4, <3>2, Zenon DEF Alike
    <3>4. e \in 1..e /\ \A k \in 1..(e - 1) : k \in 1..e
      BY <1>1, <3>0, UpTo, Zenon
    <3> QED
      BY <3>1, <3>2, <3>3, <3>4, Zenon DEF Differ
  <2>2. CompareTokens(a, b) >= 0 => Len(a) >= Len(b)
    BY <1>1, <1>4, CompareAlike
  <2> QED
    BY <1>4, <2>1, <2>2, CompareAt
<1>5. ASSUME NEW d \in Nat, NEW e \in Nat, Differ(a, b, d), Differ(b, c, e) PROVE Goal
  <2>1. /\ CompareTokens(a, b) = a[d] - b[d] /\ CompareTokens(b, c) = b[e] - c[e]
        /\ a[d] \in Int /\ b[d] \in Int /\ b[e] \in Int /\ c[e] \in Int
    BY <1>5, CompareAt, Zenon
  <2>2. CASE d < e
    <3>0. d > 0 /\ d <= Len(c) /\ e - 1 \in Nat /\ d <= e - 1
      BY <1>1, <1>5, <2>2 DEF Differ
    <3>2. d \in 1..(e - 1) /\ d \in 1..Len(c) /\ \A k \in 1..(d - 1) : k \in 1..(e - 1)
      BY <1>1, <3>0, UpTo, Zenon
    <3>1. Differ(a, c, d) /\ c[d] = b[d]
      BY <1>5, <3>2, Zenon DEF Differ
    <3> QED
      BY <1>5, <3>1, CompareAt
  <2>3. CASE e < d
    <3>0. e > 0 /\ e <= Len(a) /\ d - 1 \in Nat /\ e <= d - 1
      BY <1>1, <1>5, <2>3 DEF Differ
    <3>1. e \in 1..(d - 1) /\ e \in 1..Len(a) /\ \A k \in 1..(e - 1) : k \in 1..(d - 1)
      BY <1>1, <3>0, UpTo, ZenonT(60)
    <3>2. Differ(a, c, e) /\ a[e] = b[e]
      BY <1>5, <3>1, Zenon DEF Differ
    <3> QED
      BY <1>5, <3>2, CompareAt
  <2>4. CASE d = e
    <3>1. a[d] # c[d] => Differ(a, c, d)
      BY <1>1, <1>5, <2>4, Zenon DEF Differ
    <3>2. a[d] # c[d] => CompareTokens(a, c) = a[d] - c[d]
      BY <3>1, CompareAt, Zenon
    <3>3. a[d] # b[d] /\ b[d] # c[d]
      BY <1>5, <2>4, Zenon DEF Differ
    <3> QED
      BY <2>1, <2>4, <3>2, <3>3, SMTT(30)
  <2> QED
    BY <2>2, <2>3, <2>4
<1> QED
  BY <1>2, <1>3, <1>4, <1>5, DifferOrAlike, Zenon

-----------------------------------------------------------------------------
(* What latest_boot_version returns, in whatever order the entries come.   *)

LEMMA VersionFacts ==
    ASSUME NEW v \in Versions
    PROVE  /\ v.tokens \in Seq(Int) /\ Len(v.tokens) \in Nat /\ Len(v.tokens) # 0
           /\ \A k \in 1..Len(v.tokens) : v.tokens[k] # syspckg
           /\ Left(v).tokens \in Seq(Int) /\ Len(Left(v).tokens) = Len(v.tokens) + 1
           /\ Left(v).tokens[Len(v.tokens) + 1] = syspckg
           /\ \A k \in 1..Len(v.tokens) : Left(v).tokens[k] = v.tokens[k]
<1>1. v.tokens \in Seq(Int \ {syspckg}) /\ v.tokens # <<>>
  BY KernelBootAssumption, Zenon
<1> DEFINE t == v.tokens
           w == Append(t, syspckg)
<1>2. Left(v).tokens = w
  BY Zenon DEF Left
<1> HIDE DEF t
<1>3. t \in Seq(Int \ {syspckg}) /\ t # <<>>
  BY <1>1, Zenon DEF t
<1>4. /\ t \in [1..Len(t) -> Int \ {syspckg}] /\ Len(t) \in Nat
      /\ \A k \in 1..Len(t) : t[k] \in Int \ {syspckg}
  BY <1>3, SeqFacts, Zenon
<1>5. t \in Seq(Int) /\ Len(t) # 0
  BY <1>3, <1>4
<1>6. /\ w \in Seq(Int) /\ Len(w) = Len(t) + 1 /\ w[Len(t) + 1] = syspckg
      /\ \A k \in 1..Len(t) : w[k] = t[k]
  BY <1>4, <1>5 DEF syspckg
<1> HIDE DEF w
<1>7. \A k \in 1..Len(t) : t[k] # syspckg
  BY <1>4, Zenon
<1> QED
  BY <1>2, <1>4, <1>5, <1>6, <1>7, Zenon DEF t

LEMMA NamesFacts ==
    /\ \A name \in Names : name.tokens \in Seq(Int)
    /\ None \notin Names /\ Plain \notin Versions /\ Versions \subseteq Names
    /\ \A v \in Versions : Left(v) \in Names \ Versions
<1>1. ASSUME NEW v \in Versions PROVE v # None /\ Left(v) # None
  <2>1. Len(None.tokens) = 0
    BY DEF None
  <2>2. Len(v.tokens) # 0 /\ Len(Left(v).tokens) # 0
    BY VersionFacts
  <2> QED
    BY <2>1, <2>2, Zenon
<1>2. Plain \notin Versions
  <2>1. Len(Plain.tokens) = 1 /\ Plain.tokens[1] = syspckg /\ 1 \in 1..1
    BY DEF Plain
  <2> QED
    BY <2>1, VersionFacts, Zenon
<1>3. ASSUME NEW v \in Versions PROVE Left(v) \notin Versions
  <2> SUFFICES ASSUME Left(v) \in Versions PROVE FALSE
    BY Zenon
  <2> DEFINE w == Left(v)
  <2>1. /\ Len(v.tokens) \in Nat /\ Len(w.tokens) = Len(v.tokens) + 1
        /\ w.tokens[Len(v.tokens) + 1] = syspckg
    BY VersionFacts, Zenon
  <2>2. w \in Versions
    BY Zenon
  <2> HIDE DEF w
  <2>3. \A k \in 1..Len(w.tokens) : w.tokens[k] # syspckg
    BY <2>2, VersionFacts, Zenon
  <2>4. Len(v.tokens) + 1 \in 1..Len(w.tokens)
    BY <2>1
  <2> QED
    BY <2>1, <2>3, <2>4, Zenon
<1> QED
  BY <1>1, <1>2, <1>3, VersionFacts, Zenon DEF Names

LEMMA CompareSwap ==
    ASSUME NEW a \in Names, NEW b \in Names
    PROVE  /\ compare_versions(a, b) \in Int
           /\ compare_versions(b, a) = - compare_versions(a, b)
  BY NamesFacts, TokensSwap, Zenon DEF compare_versions

LEMMA CompareTrans ==
    ASSUME NEW a \in Names, NEW b \in Names, NEW c \in Names,
           compare_versions(a, b) >= 0, compare_versions(b, c) >= 0
    PROVE  compare_versions(a, c) >= 0
<1>1. a.tokens \in Seq(Int) /\ b.tokens \in Seq(Int) /\ c.tokens \in Seq(Int)
  BY NamesFacts, Zenon
<1> QED
  BY <1>1, TokensTrans, Zenon DEF compare_versions

\* What is kept is as new as what was kept before and as what is looked at.
LEMMA LookFacts ==
    ASSUME NEW names \in SUBSET Names, NEW latest \in names \cup {None}, NEW name \in names
    PROVE  /\ Look(latest, name) \in names
           /\ compare_versions(Look(latest, name), name) >= 0
           /\ latest # None => compare_versions(Look(latest, name), latest) >= 0
<1>1. \A x \in names : x \in Names /\ x # None
  BY NamesFacts, Zenon
<1>2. \A x \in names : compare_versions(x, x) = 0
  BY <1>1, CompareSwap
<1>3. \A x, y \in names : /\ compare_versions(x, y) \in Int
                          /\ compare_versions(y, x) = - compare_versions(x, y)
  BY <1>1, CompareSwap, Zenon
<1> QED
  BY <1>1, <1>2, <1>3 DEF Look

\* The value of latest after k entries.
IsScan(f, names, order, n) ==
    /\ f \in [0..n -> names \cup {None}]
    /\ f[0] = None
    /\ \A k \in 1..n : f[k] = Look(f[k - 1], order[k])

LEMMA ScanExists ==
    ASSUME NEW names \in SUBSET Names, NEW n \in Nat, NEW order \in [1..n -> names]
    PROVE  \E f : IsScan(f, names, order, n)
<1> SUFFICES ASSUME ~ \E f : IsScan(f, names, order, n) PROVE FALSE
  BY Zenon
<1> DEFINE Bad == {m \in 0..n : ~ \E f : IsScan(f, names, order, m)}
<1>1. Bad \in SUBSET Nat /\ n \in Bad
  OBVIOUS
<1>2. PICK m \in Bad : \A y \in Bad : m <= y
  BY <1>1, LeastNat, Zenon
<1>3. m # 0
  <2>1. IsScan([k \in 0..0 |-> None], names, order, 0)
    BY DEF IsScan
  <2> QED
    BY <2>1, Zenon
<1>4. m - 1 \in 0..n /\ m \in 1..n /\ ~(m <= m - 1) /\ m \in Nat
  BY <1>2, <1>3
<1>5. PICK f : IsScan(f, names, order, m - 1)
  BY <1>2, <1>4, Zenon
<1> DEFINE g == [k \in 0..m |-> IF k = m THEN Look(f[m - 1], order[m]) ELSE f[k]]
<1>6. \A k \in 0..m : k # m => k \in 0..(m - 1)
  BY <1>4
<1>7. f[m - 1] \in names \cup {None} /\ order[m] \in names
  BY <1>4, <1>5 DEF IsScan
<1>8. Look(f[m - 1], order[m]) \in names
  BY <1>7, LookFacts, Zenon
<1>9. g \in [0..m -> names \cup {None}]
  BY <1>5, <1>6, <1>8, Zenon DEF IsScan
<1>10. g[0] = None
  BY <1>4, <1>5 DEF IsScan
<1>11. ASSUME NEW k \in 1..m PROVE g[k] = Look(g[k - 1], order[k])
  <2>1. k \in 0..m /\ k - 1 \in 0..m /\ k - 1 # m
    BY <1>4
  <2>2. CASE k = m
    BY <2>1, <2>2, Zenon
  <2>3. CASE k # m
    <3>1. k \in 1..(m - 1)
      BY <1>4, <2>3
    <3> QED
      BY <1>5, <2>1, <2>3, <3>1, Zenon DEF IsScan
  <2> QED
    BY <2>2, <2>3, Zenon
<1>12. IsScan(g, names, order, m)
  BY <1>9, <1>10, <1>11, Zenon DEF IsScan
<1> QED
  BY <1>2, <1>12, Zenon

\* The definition of Scan has a solution.
LEMMA ScanIs ==
    ASSUME NEW names \in SUBSET Names, NEW n \in Nat, NEW order \in [1..n -> names]
    PROVE  \E f : IsScan(f, names, order, n) /\ Scan(order) = f[n]
<1>1. Len(order) = n
  OBVIOUS
<1>2. PICK f : IsScan(f, names, order, n)
  BY ScanExists, Zenon
<1> DEFINE Body(g) == [k \in 0..n |-> IF k = 0 THEN None ELSE Look(g[k - 1], order[k])]
           g0 == CHOOSE g : g = Body(g)
<1>3. f = Body(f)
  <2>1. \A k \in 0..n : k # 0 => k \in 1..n
    OBVIOUS
  <2> QED
    BY <1>2, <2>1, Zenon DEF IsScan
<1>4. g0 = Body(g0)
  BY <1>3, Zenon
<1>5. Scan(order) = g0[n]
  BY <1>1, Zenon DEF Scan
<1> HIDE DEF g0
<1>6. g0[0] = None /\ \A k \in 1..n : g0[k] = Look(g0[k - 1], order[k])
  <2>1. 0 \in 0..n /\ \A k \in 1..n : k \in 0..n /\ k # 0
    OBVIOUS
  <2> QED
    BY <1>4, <2>1, Zenon
<1>7. \A k \in 0..n : g0[k] = f[k]
  <2> SUFFICES ASSUME NEW j \in 0..n, g0[j] # f[j] PROVE FALSE
    BY Zenon
  <2> DEFINE Bad == {k \in 0..n : g0[k] # f[k]}
  <2>1. Bad \in SUBSET Nat /\ j \in Bad
    OBVIOUS
  <2>2. PICK m \in Bad : \A y \in Bad : m <= y
    BY <2>1, LeastNat, Zenon
  <2>3. m # 0
    BY <1>2, <1>6, <2>2, Zenon DEF IsScan
  <2>4. m - 1 \in 0..n /\ m \in 1..n /\ ~(m <= m - 1)
    BY <2>2, <2>3
  <2>5. g0[m - 1] = f[m - 1]
    BY <2>2, <2>4, Zenon
  <2> QED
    BY <1>2, <1>6, <2>2, <2>4, <2>5, Zenon DEF IsScan
<1> QED
  BY <1>2, <1>5, <1>7

\* latest is as new as everything looked at so far.
LEMMA ScanFacts ==
    ASSUME NEW names \in SUBSET Names, NEW n \in Nat, NEW order \in [1..n -> names]
    PROVE  /\ n = 0 => Scan(order) = None
           /\ n > 0 => /\ Scan(order) \in names
                       /\ \A j \in 1..n : compare_versions(Scan(order), order[j]) >= 0
<1>1. PICK f : IsScan(f, names, order, n) /\ Scan(order) = f[n]
  BY ScanIs, Zenon
<1> DEFINE Good(k) == /\ f[k] \in names
                      /\ \A j \in 1..k : compare_versions(f[k], order[j]) >= 0
<1>2. \A k \in 1..n : Good(k)
  <2> SUFFICES ASSUME NEW i \in 1..n, ~Good(i) PROVE FALSE
    BY Zenon
  <2> DEFINE Bad == {k \in 1..n : ~Good(k)}
  <2>1. Bad \in SUBSET Nat /\ i \in Bad
    OBVIOUS
  <2>2. PICK m \in Bad : \A y \in Bad : m <= y
    BY <2>1, LeastNat, Zenon
  <2>3. /\ f[m - 1] \in names \cup {None} /\ order[m] \in names
        /\ f[m] = Look(f[m - 1], order[m]) /\ m \in 1..n
    <3>1. m - 1 \in 0..n /\ m \in 1..n
      BY <2>2
    <3> QED
      BY <1>1, <3>1, Zenon DEF IsScan
  <2>4. /\ f[m] \in names /\ compare_versions(f[m], order[m]) >= 0
        /\ f[m - 1] # None => compare_versions(f[m], f[m - 1]) >= 0
    <3> DEFINE l == f[m - 1]
               e == order[m]
    <3>1. l \in names \cup {None} /\ e \in names /\ f[m] = Look(l, e)
      BY <2>3, Zenon
    <3> HIDE DEF l, e
    <3>2. /\ Look(l, e) \in names /\ compare_versions(Look(l, e), e) >= 0
          /\ l # None => compare_versions(Look(l, e), l) >= 0
      BY <3>1, LookFacts, Zenon
    <3> QED
      BY <3>1, <3>2, Zenon DEF l, e
  <2>5. CASE m = 1
    BY <2>2, <2>4, <2>5
  <2>6. CASE m # 1
    <3>1. m - 1 \in 1..n /\ ~(m <= m - 1)
      BY <2>3, <2>6
    <3>2. Good(m - 1)
      BY <2>2, <3>1, Zenon
    <3>3. f[m - 1] # None
      BY <3>2, NamesFacts, Zenon
    <3>4. ASSUME NEW j \in 1..m PROVE compare_versions(f[m], order[j]) >= 0
      <4>1. CASE j = m
        BY <2>4, <4>1, Zenon
      <4>2. CASE j # m
        <5>1. j \in 1..(m - 1) /\ j \in 1..n
          BY <2>3, <4>2
        <5>2. compare_versions(f[m - 1], order[j]) >= 0
          BY <3>2, <5>1, Zenon
        <5>3. order[j] \in Names /\ f[m] \in Names /\ f[m - 1] \in Names
          BY <2>4, <3>2, <5>1, NamesFacts, Zenon
        <5> QED
          BY <2>4, <3>3, <5>2, <5>3, CompareTrans, Zenon
      <4> QED
        BY <4>1, <4>2, Zenon
    <3> QED
      BY <2>2, <2>4, <3>4, Zenon
  <2> QED
    BY <2>5, <2>6, Zenon
<1>3. n > 0 => n \in 1..n
  OBVIOUS
<1> QED
  BY <1>1, <1>2, <1>3, Zenon DEF IsScan

LEMMA LatestFacts ==
    ASSUME NEW names \in SUBSET Names, IsFiniteSet(names)
    PROVE  /\ latest_boot_version(names) # {}
           /\ \A local \in latest_boot_version(names) :
                 \/ names = {} /\ local = None
                 \/ /\ names # {} /\ local \in names /\ local # None
                    /\ \A name \in names : compare_versions(local, name) >= 0
<1> DEFINE n == Cardinality(names)
           D == 1..n
<1>1. n \in Nat /\ Bijection(D, names) # {} /\ (n = 0 <=> names = {})
  BY FS_CardinalityType, FS_EmptySet, Zenon DEF ExistsBijection
<1> HIDE DEF n
<1>2. ASSUME NEW order \in Bijection(D, names)
      PROVE  /\ order \in [D -> names]
             /\ \A name \in names : \E j \in D : order[j] = name
  BY Zenon DEF Bijection, Injection, Surjection
<1>3. ASSUME NEW order \in Bijection(D, names)
      PROVE  \/ names = {} /\ Scan(order) = None
             \/ /\ names # {} /\ Scan(order) \in names /\ Scan(order) # None
                /\ \A name \in names : compare_versions(Scan(order), name) >= 0
  <2>1. /\ n = 0 => Scan(order) = None
        /\ n > 0 => /\ Scan(order) \in names
                    /\ \A j \in D : compare_versions(Scan(order), order[j]) >= 0
    BY <1>1, <1>2, ScanFacts, Zenon
  <2>2. CASE names = {}
    BY <1>1, <2>1, <2>2, Zenon
  <2>3. CASE names # {}
    <3>1. /\ Scan(order) \in names
          /\ \A j \in D : compare_versions(Scan(order), order[j]) >= 0
      BY <1>1, <2>1, <2>3
    <3>2. \A name \in names : compare_versions(Scan(order), name) >= 0
      BY <1>2, <3>1, Zenon
    <3> QED
      BY <2>3, <3>1, <3>2, NamesFacts, Zenon
  <2> QED
    BY <2>2, <2>3, Zenon
<1> QED
  BY <1>1, <1>3, Zenon DEF latest_boot_version, n

-----------------------------------------------------------------------------
(* The boot menu.                                                          *)

\* A finite set has a first member in the order of sort -V.
LEMMA NewestExists ==
    ASSUME NEW names \in SUBSET Names, IsFiniteSet(names), names # {}
    PROVE  \E m \in names : \A other \in names \ {m} : sort_V(m, other)
<1> DEFINE Has(T) == \E m \in T : \A other \in T \ {m} : sort_V(m, other)
<1> SUFFICES ASSUME ~Has(names) PROVE FALSE
  BY Zenon
<1> DEFINE Bad == {T \in SUBSET names : T # {} /\ ~Has(T)}
           Sizes == {Cardinality(T) : T \in Bad}
<1>1. \A T \in Bad : IsFiniteSet(T) /\ Cardinality(T) \in Nat
  BY FS_Subset, FS_CardinalityType, Zenon
<1>2. Sizes \in SUBSET Nat /\ Sizes # {}
  BY <1>1
<1>3. PICK n \in Sizes : \A y \in Sizes : n <= y
  BY <1>2, LeastNat, Zenon
<1>4. PICK T \in Bad : Cardinality(T) = n
  BY <1>3, Zenon
<1>5. PICK x \in T : TRUE
  BY <1>4, Zenon
<1> DEFINE U == T \ {x}
<1>6. U \in SUBSET names /\ Cardinality(U) = n - 1 /\ n \in Nat
  BY <1>1, <1>4, <1>5, FS_RemoveElement, Zenon
<1>7. U # {}
  BY <1>4, <1>5, Zenon
<1>8. Has(U)
  <2>1. ~(n <= n - 1)
    BY <1>6
  <2> QED
    BY <1>3, <1>6, <1>7, <2>1, Zenon
<1>9. PICK m \in U : \A other \in U \ {m} : sort_V(m, other)
  BY <1>8, Zenon
<1>10. T \subseteq Names /\ x \in Names /\ m \in Names
  BY <1>4, <1>5, <1>9, NamesFacts, Zenon
<1>11. CASE sort_V(m, x)
  BY <1>4, <1>5, <1>9, <1>11
<1>12. CASE sort_V(x, m)
  <2>1. ASSUME NEW other \in T \ {x} PROVE sort_V(x, other)
    BY <1>9, <1>10, <1>12, SortAssumption, Zenon
  <2> QED
    BY <1>4, <1>5, <2>1, Zenon
<1> QED
  BY <1>9, <1>10, <1>11, <1>12, SortAssumption, Zenon

-----------------------------------------------------------------------------
(* The invariant.                                                          *)

\* The kernel of the installation has no manifest and no ramdisk of its own, and
\* no command is about it.
FirstKept ==
    /\ first \in images /\ first \in menu.images
    /\ first \notin listed /\ first \notin initrds /\ first \notin menu.own
    /\ pc \in {"copy", "copying", "hook"} => new # first
    /\ pc = "remove" => victim # first

\* What the menu and the link name is there, or a removal has taken it.
FilesKept ==
    /\ IsFiniteSet(images) /\ IsFiniteSet(initrds)
    /\ initrds \subseteq WithInitrd /\ menu.own \subseteq WithInitrd
    /\ initrd \in WithInitrd \cup {None, Plain}
    /\ initrd \in Versions => initrd \in initrds \cup removed
    /\ menu.latest \in menu.images
    /\ menu.images \cap Versions \subseteq images \cup removed
    /\ menu.own \subseteq initrds \cup removed
    /\ pc \in {"copy", "copying"} =>
           /\ "image" \in todo \/ new \in images
           /\ "initrd" \in todo => new \in WithInitrd
           /\ new \in WithInitrd => "initrd" \in todo \/ new \in initrds

\* The places after the files were copied, after vmlinuz was linked, and after
\* initramfs-disk.gz was.
Linked     == {"defaults", "generators", "mkconfig", "done"}
Relinked   == {"initrd", "link_initrd"} \cup Linked
Configures == {"vmlinuz", "link_vmlinuz"} \cup Relinked
Updates    == {"copy", "copying", "hook"} \cup Configures

\* Every other image is older than that of the update, which is in /boot unless
\* its manifest was left over by a removal.
UpdateIsNewest ==
    /\ \A v \in listed : v \in images \/ torn \/ (pc = "remove" /\ victim = v)
    /\ pc \in Updates =>
           \A name \in images : \/ name = new \/ compare_versions(new, name) > 0
                                \/ pc = "copying" /\ name = Left(new)
    /\ pc \in {"hook"} \cup Configures => new \in images \/ torn

\* A name that is no version is that of the copy under way, or of one in which
\* power was lost.
LeftOver ==
    \A name \in images : \/ name \in Versions
                         \/ pc = "copying" /\ name = Left(new)
                         \/ \E v \in cut : name = Left(v)

\* How far configure_kernel_update_boot is.
BootConfigured ==
    /\ pc \in Relinked => /\ vmlinuz \in images
                          /\ \A name \in images : compare_versions(vmlinuz, name) >= 0
    /\ pc \in Linked => initrds = {} \/ initrd \in initrds
    /\ pc \in {"generators", "mkconfig", "done"} => defaults # "none"
    /\ defaults = "empty" \/ menu.root = "empty" => menu.header
    /\ pc = "mkconfig" => ~standard
    /\ pc = "done" =>
           /\ menu.images = images /\ menu.own = initrds \cap images
           /\ menu.root # "none" /\ ~menu.standard
           /\ \A other \in images \ {menu.latest} : sort_V(menu.latest, other)

IInv ==
    /\ TypeOK
    /\ FirstKept
    /\ FilesKept
    /\ UpdateIsNewest
    /\ LeftOver
    /\ BootConfigured

-----------------------------------------------------------------------------
LEMMA InitInv == Init => IInv
<1> SUFFICES ASSUME Init PROVE IInv
  BY Zenon
<1>1. /\ first \in Versions /\ first \in Names /\ first # None
      /\ images = {first} /\ images \subseteq Names /\ initrds = {}
  BY NamesFacts, Zenon DEF Init
<1>2. PICK root \in Roots \ {"empty"}, header \in BOOLEAN :
          menu = [images |-> {first}, latest |-> first, own |-> {}, root |-> root,
                  header |-> header, standard |-> FALSE]
  BY Zenon DEF Init
<1>3. TypeOK
  <2>1. menu \in [images : SUBSET Names, latest : Names, own : SUBSET Versions,
                  root : Roots, header : BOOLEAN, standard : BOOLEAN]
    BY <1>1, <1>2, Zenon
  <2>2. commands \in 0..MaxCommands /\ polls \in 0..MaxPolls
    BY KernelBootAssumption DEF Init
  <2>3. standard \in BOOLEAN /\ torn \in BOOLEAN /\ device \in BOOLEAN
    BY Zenon DEF Init
  <2> QED
    BY <1>1, <2>1, <2>2, <2>3, Zenon DEF Init, TypeOK, CommandPcs
<1>4. FirstKept
  BY <1>1, <1>2, Zenon DEF Init, FirstKept
<1>5. FilesKept
  <2>1. IsFiniteSet(images) /\ IsFiniteSet(initrds)
    BY <1>1, FS_Singleton, FS_EmptySet, Zenon
  <2>2. initrd = Plain /\ Plain \notin Versions
    BY NamesFacts, Zenon DEF Init
  <2> QED
    BY <1>1, <1>2, <2>1, <2>2, Zenon DEF Init, FilesKept
<1>6. UpdateIsNewest /\ LeftOver
  BY <1>1, Zenon DEF Init, UpdateIsNewest, LeftOver, Updates, Configures, Relinked, Linked
<1>7. BootConfigured
  <2>1. defaults # "empty" /\ menu.root # "empty" /\ pc = "idle"
    BY <1>2, Zenon DEF Init
  <2> QED
    BY <2>1, Zenon DEF BootConfigured, Relinked, Linked
<1> QED
  BY <1>3, <1>4, <1>5, <1>6, <1>7, Zenon DEF IInv

\* The ramdisk, grub and the kernel leave the disk alone.
LEMMA DiskSteps ==
    ASSUME [Next]_vars
    PROVE  \/ \E v \in Versions :
                  SayUpToDate(v) \/ BeginUpdate(v) \/ UpdateListed(v) \/ BeginRemove(v)
           \/ Command \/ Restart \/ UNCHANGED Disk
<1>1. Ramdisk \/ Load \/ Appear => UNCHANGED Disk
  BY Zenon DEF Ramdisk, Load, Appear, mount_essential_fs, parse_cmdline, resolve_root_spec,
         wait_for_root, mount_root, CheckInit, SwitchRoot, panic_shell, At
<1>2. UNCHANGED vars => UNCHANGED Disk
  BY Zenon DEF vars, Disk
<1> QED
  BY <1>1, <1>2, Zenon DEF Next

\* A command that is not "up to date" is for a version over all images.
LEMMA NotUpToDate ==
    ASSUME TypeOK, FilesKept, NEW v \in Versions, ~UpToDate(v)
    PROVE  \A name \in images : compare_versions(v, name) > 0
<1>1. images \in SUBSET Names /\ IsFiniteSet(images) /\ v \in Names
  BY NamesFacts, Zenon DEF TypeOK, FilesKept
<1>2. PICK local \in latest_boot_version(images) : TRUE
  BY <1>1, LatestFacts
<1> SUFFICES ASSUME NEW name \in images, ~(compare_versions(v, name) > 0) PROVE FALSE
  BY Zenon
<1>3. local \in images /\ local # None /\ compare_versions(local, name) >= 0
  BY <1>1, LatestFacts, Zenon
<1>4. ~(compare_versions(v, local) <= 0)
  BY <1>3, Zenon DEF UpToDate
<1>5. local \in Names /\ name \in Names
  BY <1>1, <1>3, Zenon
<1>6. compare_versions(name, v) >= 0
  BY <1>1, <1>5, CompareSwap
<1>7. compare_versions(local, v) >= 0
  BY <1>1, <1>3, <1>5, <1>6, CompareTrans, Zenon
<1> QED
  BY <1>1, <1>4, <1>5, <1>7, CompareSwap

LEMMA FirstIsUpToDate ==
    ASSUME TypeOK, FilesKept, FirstKept
    PROVE  UpToDate(first)
<1>1. images \in SUBSET Names /\ IsFiniteSet(images) /\ first \in Names /\ first \in images
  BY NamesFacts, Zenon DEF TypeOK, FilesKept, FirstKept
<1>2. PICK local \in latest_boot_version(images) : TRUE
  BY <1>1, LatestFacts
<1>3. local \in images /\ local # None /\ compare_versions(local, first) >= 0
  BY <1>1, LatestFacts, Zenon
<1>4. local \in Names
  BY <1>1, <1>3, NamesFacts, Zenon
<1>5. compare_versions(first, local) <= 0
  BY <1>1, <1>3, <1>4, CompareSwap
<1> QED
  BY <1>3, <1>5, Zenon DEF UpToDate

LEMMA NewestFacts ==
    ASSUME TypeOK, FilesKept, FirstKept
    PROVE  Newest \in images /\ \A other \in images \ {Newest} : sort_V(Newest, other)
<1>1. images \in SUBSET Names /\ IsFiniteSet(images) /\ images # {}
  BY Zenon DEF TypeOK, FilesKept, FirstKept
<1>2. \E m \in images : \A other \in images \ {m} : sort_V(m, other)
  BY <1>1, NewestExists, Zenon
<1> QED
  BY <1>2, Zenon DEF Newest

LEMMA TypeStep ==
    ASSUME IInv, [Next]_vars
    PROVE  TypeOK'
<1> USE DEF TypeOK, files, grub, args, command, ghost, boot, Disk, Goto, Exit
<1>0. TypeOK /\ FilesKept /\ FirstKept /\ Versions \subseteq Names
  BY NamesFacts, Zenon DEF IInv
<1>1. ASSUME NEW v \in Versions, SayUpToDate(v) PROVE TypeOK'
  <2>1. commands' \in 0..MaxCommands
    BY <1>0, <1>1, KernelBootAssumption DEF SayUpToDate, Running
  <2> QED
    BY <1>0, <1>1, <2>1, ZenonT(60) DEF SayUpToDate
<1>2. ASSUME NEW v \in Versions, BeginUpdate(v) PROVE TypeOK'
  <2>1. commands' \in 0..MaxCommands
    BY <1>0, <1>2, KernelBootAssumption DEF BeginUpdate, Running
  <2>2. pc' \in CommandPcs /\ todo' \subseteq {"image", "initrd"}
    BY <1>2, Zenon DEF BeginUpdate, CommandPcs, Files
  <2> QED
    BY <1>0, <1>2, <2>1, <2>2, ZenonT(60) DEF BeginUpdate
<1>3. ASSUME NEW v \in Versions, UpdateListed(v) PROVE TypeOK'
  <2>1. commands' \in 0..MaxCommands
    BY <1>0, <1>3, KernelBootAssumption DEF UpdateListed, Running
  <2>2. pc' \in CommandPcs /\ new' \in Versions
    BY <1>0, <1>3, Zenon DEF UpdateListed, CommandPcs
  <2>3. standard' \in BOOLEAN
    BY <1>0, <1>3, Zenon DEF UpdateListed
  <2> QED
    BY <1>0, <1>3, <2>1, <2>2, <2>3, ZenonT(60) DEF UpdateListed
<1>4. ASSUME NEW v \in Versions, BeginRemove(v) PROVE TypeOK'
  <2>1. commands' \in 0..MaxCommands
    BY <1>0, <1>4, KernelBootAssumption DEF BeginRemove, Running
  <2> QED
    BY <1>0, <1>4, <2>1, ZenonT(60) DEF BeginRemove, CommandPcs
<1>5. CASE UnlinkFile
  BY <1>0, <1>5, ZenonT(60) DEF UnlinkFile
<1>6. CASE UnlinkManifest
  BY <1>0, <1>6, ZenonT(60) DEF UnlinkManifest, CommandPcs
<1>7. CASE CopyImage
  <2>1. Left(new) \in Names
    BY <1>0, NamesFacts, Zenon
  <2> QED
    BY <1>0, <1>7, <2>1, ZenonT(60) DEF CopyImage, CommandPcs
<1>8. CASE RenameImage
  BY <1>0, <1>8, ZenonT(60) DEF RenameImage, CommandPcs
<1>9. CASE CopyInitrd
  BY <1>0, <1>9, ZenonT(60) DEF CopyInitrd
<1>10. CASE WriteManifest
  BY <1>0, <1>10, ZenonT(60) DEF WriteManifest, CommandPcs
<1>11. CASE HookSucceeds
  BY <1>0, <1>11, ZenonT(60) DEF HookSucceeds, CommandPcs
<1>12. CASE HookFails
  BY <1>0, <1>12, ZenonT(60) DEF HookFails, CommandPcs
<1>13. CASE UnlinkVmlinuz
  BY <1>0, <1>13, ZenonT(60) DEF UnlinkVmlinuz, CommandPcs
<1>14. CASE LinkVmlinuz
  <2>1. vmlinuz' \in images \cup {None}
    BY <1>0, <1>14, LatestFacts, Zenon DEF LinkVmlinuz, IInv, FilesKept
  <2> QED
    BY <1>0, <1>14, <2>1, ZenonT(60) DEF LinkVmlinuz, CommandPcs
<1>15. CASE UnlinkInitrd
  BY <1>0, <1>15, ZenonT(60) DEF UnlinkInitrd, CommandPcs
<1>16. CASE LinkInitrd
  <2>1. initrd' \in initrds \cup {None}
    BY <1>0, <1>16, LatestFacts, Zenon DEF LinkInitrd, IInv, FilesKept
  <2> QED
    BY <1>0, <1>16, <2>1, ZenonT(60) DEF LinkInitrd, CommandPcs
<1>17. CASE write_default_grub
  <2>1. menu.root \in Roots
    BY <1>0, Zenon
  <2>2. defaults' \in Roots
    BY <1>0, <1>17, <2>1, Zenon DEF write_default_grub, root_arg_of_menu, Roots
  <2> QED
    BY <1>0, <1>17, <2>2, ZenonT(60) DEF write_default_grub, CommandPcs
<1>18. CASE disable_standard_grub_generators
  BY <1>0, <1>18, ZenonT(60) DEF disable_standard_grub_generators, CommandPcs
<1>19. CASE run_grub_mkconfig
  <2>1. Newest \in images
    BY <1>0, <1>19, NewestFacts, Zenon
  <2>2. menu' \in [images : SUBSET Names, latest : Names, own : SUBSET Versions,
                   root : Roots, header : BOOLEAN, standard : BOOLEAN]
    BY <1>0, <1>19, <2>1, Zenon DEF run_grub_mkconfig, Generated
  <2> QED
    BY <1>0, <1>19, <2>2, ZenonT(60) DEF run_grub_mkconfig, CommandPcs
<1>20. CASE Return
  BY <1>0, <1>20, ZenonT(60) DEF Return, CommandPcs
<1>21. CASE CommandFails
  <2>1. standard' \in BOOLEAN /\ torn' \in BOOLEAN /\ images' \subseteq Names
    BY <1>0, <1>21, Zenon DEF CommandFails
  <2> QED
    BY <1>0, <1>21, <2>1, Zenon DEF CommandFails, CommandPcs
<1>22. CASE mount_essential_fs
  BY <1>0, <1>22, Zenon DEF mount_essential_fs, At, panic_shell, InitPcs
<1>23. CASE parse_cmdline
  BY <1>0, <1>23, Zenon DEF parse_cmdline, At, panic_shell, InitPcs
<1>24. CASE resolve_root_spec
  BY <1>0, <1>24, Zenon DEF resolve_root_spec, At, panic_shell, InitPcs
<1>25. CASE wait_for_root
  <2>1. polls' \in 0..MaxPolls
    BY <1>0, <1>25, KernelBootAssumption, SMTT(30) DEF wait_for_root
  <2> QED
    BY <1>0, <1>25, <2>1, ZenonT(60) DEF wait_for_root, InitPcs
<1>26. CASE mount_root
  BY <1>0, <1>26, Zenon DEF mount_root, At, panic_shell, InitPcs
<1>27. CASE CheckInit
  BY <1>0, <1>27, Zenon DEF CheckInit, At, panic_shell, InitPcs
<1>28. CASE SwitchRoot
  BY <1>0, <1>28, Zenon DEF SwitchRoot, At, panic_shell, InitPcs
<1>29. CASE Load
  BY <1>0, <1>29, Zenon DEF Load, InitPcs
<1>30. CASE Appear
  BY <1>0, <1>30, Zenon DEF Appear
<1>31. CASE Restart
  <2>1. polls' \in 0..MaxPolls
    BY <1>0, <1>31, KernelBootAssumption, SMTT(30) DEF Restart
  <2>2. device' \in BOOLEAN /\ torn' \in BOOLEAN
    BY <1>0, <1>31, Zenon DEF Restart
  <2>3. cut' \subseteq Versions
    BY <1>0, <1>31, Zenon DEF Restart
  <2> QED
    BY <1>0, <1>31, <2>1, <2>2, <2>3, ZenonT(60) DEF Restart, CommandPcs
<1>32. CASE UNCHANGED vars
  BY <1>0, <1>32, ZenonT(60) DEF vars
<1> QED
  BY <1>1, <1>2, <1>3, <1>4, <1>5, <1>6, <1>7, <1>8, <1>9, <1>10, <1>11, <1>12, <1>13,
     <1>14, <1>15, <1>16, <1>17, <1>18, <1>19, <1>20, <1>21, <1>22, <1>23, <1>24, <1>25, <1>26,
     <1>27, <1>28, <1>29, <1>30, <1>31, <1>32, ZenonT(60)
  DEF Next, Command, Ramdisk

LEMMA FirstStep ==
    ASSUME IInv, [Next]_vars
    PROVE  FirstKept'
<1> USE DEF files, grub, args, command, ghost, Disk, Goto, Exit, FirstKept
<1>0. /\ FirstKept /\ first \in Versions /\ new \in Versions /\ listed \subseteq Versions
      /\ Left(new) \notin Versions
  BY NamesFacts, Zenon DEF IInv, TypeOK
<1>1. ASSUME NEW v \in Versions, SayUpToDate(v) PROVE FirstKept'
  BY <1>0, <1>1, Zenon DEF SayUpToDate
<1>2. ASSUME NEW v \in Versions, BeginUpdate(v) PROVE FirstKept'
  <2>1. v # first
    BY <1>2, FirstIsUpToDate, Zenon DEF BeginUpdate, IInv
  <2> QED
    BY <1>0, <1>2, <2>1, Zenon DEF BeginUpdate
<1>3. ASSUME NEW v \in Versions, UpdateListed(v) PROVE FirstKept'
  BY <1>0, <1>3, Zenon DEF UpdateListed
<1>4. ASSUME NEW v \in Versions, BeginRemove(v) PROVE FirstKept'
  BY <1>0, <1>4, Zenon DEF BeginRemove
<1>5. CASE UnlinkFile
  BY <1>0, <1>5, Zenon DEF UnlinkFile
<1>6. CASE UnlinkManifest
  BY <1>0, <1>6, Zenon DEF UnlinkManifest
<1>7. CASE CopyImage
  BY <1>0, <1>7, Zenon DEF CopyImage
<1>8. CASE RenameImage
  BY <1>0, <1>8, Zenon DEF RenameImage
<1>9. CASE CopyInitrd
  BY <1>0, <1>9, Zenon DEF CopyInitrd
<1>10. CASE WriteManifest
  BY <1>0, <1>10, Zenon DEF WriteManifest
<1>11. CASE HookSucceeds
  BY <1>0, <1>11, Zenon DEF HookSucceeds
<1>12. CASE HookFails
  BY <1>0, <1>12, Zenon DEF HookFails
<1>13. CASE UnlinkVmlinuz
  BY <1>0, <1>13, Zenon DEF UnlinkVmlinuz
<1>14. CASE LinkVmlinuz
  BY <1>0, <1>14, Zenon DEF LinkVmlinuz
<1>15. CASE UnlinkInitrd
  BY <1>0, <1>15, Zenon DEF UnlinkInitrd
<1>16. CASE LinkInitrd
  BY <1>0, <1>16, Zenon DEF LinkInitrd
<1>17. CASE write_default_grub
  BY <1>0, <1>17, Zenon DEF write_default_grub
<1>18. CASE disable_standard_grub_generators
  BY <1>0, <1>18, Zenon DEF disable_standard_grub_generators
<1>19. CASE run_grub_mkconfig
  BY <1>0, <1>19, Zenon DEF run_grub_mkconfig, Generated
<1>20. CASE Return
  BY <1>0, <1>20, Zenon DEF Return
<1>21. CASE CommandFails
  BY <1>0, <1>21, Zenon DEF CommandFails
<1>22. CASE Restart
  BY <1>0, <1>22, Zenon DEF Restart
<1>23. CASE UNCHANGED Disk
  BY <1>0, <1>23, Zenon
<1> QED
  BY <1>1, <1>2, <1>3, <1>4, <1>5, <1>6, <1>7, <1>8, <1>9, <1>10, <1>11, <1>12,
     <1>13, <1>14, <1>15, <1>16, <1>17, <1>18, <1>19, <1>20, <1>21, <1>22, <1>23, DiskSteps,
     Zenon DEF Command

LEMMA FilesStep ==
    ASSUME IInv, [Next]_vars
    PROVE  FilesKept'
<1> USE DEF files, grub, args, command, ghost, Disk, Goto, Exit
<1>0. /\ TypeOK /\ FilesKept /\ FirstKept /\ new \in Versions /\ Left(new) \notin Versions
      /\ None \notin Versions /\ Plain \notin Versions /\ WithInitrd \subseteq Versions
  BY NamesFacts, KernelBootAssumption, Zenon DEF IInv, TypeOK, None
<1>1. ASSUME NEW v \in Versions, SayUpToDate(v) PROVE FilesKept'
  BY <1>0, <1>1, Zenon DEF FilesKept, SayUpToDate
<1>2. ASSUME NEW v \in Versions, BeginUpdate(v) PROVE FilesKept'
  BY <1>0, <1>2, Zenon DEF FilesKept, BeginUpdate, Files
<1>3. ASSUME NEW v \in Versions, UpdateListed(v) PROVE FilesKept'
  BY <1>0, <1>3, Zenon DEF FilesKept, UpdateListed
<1>4. ASSUME NEW v \in Versions, BeginRemove(v) PROVE FilesKept'
  BY <1>0, <1>4, Zenon DEF FilesKept, BeginRemove
<1>5. CASE UnlinkFile
  <2>1. IsFiniteSet(images') /\ IsFiniteSet(initrds')
    BY <1>0, <1>5, FS_RemoveElement, ZenonT(60) DEF FilesKept, UnlinkFile
  <2> QED
    BY <1>0, <1>5, <2>1, Zenon DEF FilesKept, UnlinkFile
<1>6. CASE UnlinkManifest
  BY <1>0, <1>6, Zenon DEF FilesKept, UnlinkManifest
<1>7. CASE CopyImage
  <2>1. IsFiniteSet(images')
    BY <1>0, <1>7, FS_AddElement, Zenon DEF FilesKept, CopyImage
  <2> QED
    BY <1>0, <1>7, <2>1, Zenon DEF FilesKept, CopyImage
<1>8. CASE RenameImage
  <2>1. IsFiniteSet(images')
    BY <1>0, <1>8, FS_AddElement, FS_RemoveElement, Zenon DEF FilesKept, RenameImage
  <2> QED
    BY <1>0, <1>8, <2>1, Zenon DEF FilesKept, RenameImage
<1>9. CASE CopyInitrd
  <2>1. IsFiniteSet(initrds')
    BY <1>0, <1>9, FS_AddElement, Zenon DEF FilesKept, CopyInitrd
  <2>2. new \in WithInitrd
    BY <1>0, <1>9, Zenon DEF FilesKept, CopyInitrd
  <2> QED
    BY <1>0, <1>9, <2>1, <2>2, Zenon DEF FilesKept, CopyInitrd
<1>10. CASE WriteManifest
  BY <1>0, <1>10, Zenon DEF FilesKept, WriteManifest
<1>11. CASE HookSucceeds
  BY <1>0, <1>11, Zenon DEF FilesKept, HookSucceeds
<1>12. CASE HookFails
  BY <1>0, <1>12, Zenon DEF FilesKept, HookFails
<1>13. CASE UnlinkVmlinuz
  BY <1>0, <1>13, Zenon DEF FilesKept, UnlinkVmlinuz
<1>14. CASE LinkVmlinuz
  <2>1. pc' \notin {"copy", "copying"}
    BY <1>14, Zenon DEF LinkVmlinuz
  <2> QED
    BY <1>0, <1>14, <2>1, Zenon DEF FilesKept, LinkVmlinuz
<1>15. CASE UnlinkInitrd
  BY <1>0, <1>15, Zenon DEF FilesKept, UnlinkInitrd
<1>16. CASE LinkInitrd
  <2>1. initrd' \in initrds \cup {None}
    BY <1>0, <1>16, NamesFacts, LatestFacts, Zenon DEF LinkInitrd, FilesKept, TypeOK
  <2> QED
    BY <1>0, <1>16, <2>1, Zenon DEF FilesKept, LinkInitrd
<1>17. CASE write_default_grub
  BY <1>0, <1>17, Zenon DEF FilesKept, write_default_grub
<1>18. CASE disable_standard_grub_generators
  BY <1>0, <1>18, Zenon DEF FilesKept, disable_standard_grub_generators
<1>19. CASE run_grub_mkconfig
  <2>1. Newest \in images
    BY <1>0, NewestFacts, Zenon
  <2> QED
    BY <1>0, <1>19, <2>1, Zenon DEF FilesKept, run_grub_mkconfig, Generated
<1>20. CASE Return
  BY <1>0, <1>20, Zenon DEF FilesKept, Return
<1>21. CASE CommandFails
  <2>1. IsFiniteSet(images')
    BY <1>0, <1>21, FS_RemoveElement, Zenon DEF FilesKept, CommandFails
  <2> QED
    BY <1>0, <1>21, <2>1, Zenon DEF FilesKept, CommandFails
<1>22. CASE Restart
  BY <1>0, <1>22, Zenon DEF FilesKept, Restart
<1>23. CASE UNCHANGED Disk
  BY <1>0, <1>23, Zenon DEF FilesKept
<1> QED
  BY <1>1, <1>2, <1>3, <1>4, <1>5, <1>6, <1>7, <1>8, <1>9, <1>10, <1>11, <1>12,
     <1>13, <1>14, <1>15, <1>16, <1>17, <1>18, <1>19, <1>20, <1>21, <1>22, <1>23,
     DiskSteps, SMTT(30) DEF Command

LEMMA NewestStep ==
    ASSUME IInv, [Next]_vars
    PROVE  UpdateIsNewest'
<1> USE DEF files, grub, args, command, ghost, Disk, Goto, Exit
<1>0. /\ TypeOK /\ UpdateIsNewest /\ FilesKept
      /\ new \in Versions /\ Left(new) \notin Versions /\ listed \subseteq Versions
  BY NamesFacts, Zenon DEF IInv, TypeOK
<1> USE DEF UpdateIsNewest, Updates, Configures, Relinked, Linked
<1>1. ASSUME NEW v \in Versions, SayUpToDate(v) PROVE UpdateIsNewest'
  BY <1>0, <1>1, Zenon DEF SayUpToDate, Running
<1>2. ASSUME NEW v \in Versions, BeginUpdate(v) PROVE UpdateIsNewest'
  <2>1. \A name \in images : compare_versions(v, name) > 0
    BY <1>0, <1>2, NotUpToDate, Zenon DEF BeginUpdate
  <2> QED
    BY <1>0, <1>2, <2>1, Zenon DEF BeginUpdate, Running
<1>3. ASSUME NEW v \in Versions, UpdateListed(v) PROVE UpdateIsNewest'
  <2>1. \A name \in images : compare_versions(v, name) > 0
    BY <1>0, <1>3, NotUpToDate, Zenon DEF UpdateListed
  <2> QED
    BY <1>0, <1>3, <2>1, Zenon DEF UpdateListed, Running
<1>4. ASSUME NEW v \in Versions, BeginRemove(v) PROVE UpdateIsNewest'
  BY <1>0, <1>4, Zenon DEF BeginRemove, Running
<1>5. CASE UnlinkFile
  BY <1>0, <1>5, Zenon DEF UnlinkFile
<1>6. CASE UnlinkManifest
  BY <1>0, <1>6, Zenon DEF UnlinkManifest
<1>7. CASE CopyImage
  BY <1>0, <1>7, Zenon DEF CopyImage
<1>8. CASE RenameImage
  BY <1>0, <1>8, Zenon DEF RenameImage
<1>9. CASE CopyInitrd
  BY <1>0, <1>9, Zenon DEF CopyInitrd
<1>10. CASE WriteManifest
  <2>1. new \in images
    BY <1>0, <1>10, Zenon DEF WriteManifest, FilesKept
  <2> QED
    BY <1>0, <1>10, <2>1, Zenon DEF WriteManifest
<1>11. CASE HookSucceeds
  BY <1>0, <1>11, Zenon DEF HookSucceeds
<1>12. CASE HookFails
  BY <1>0, <1>12, Zenon DEF HookFails
<1>13. CASE UnlinkVmlinuz
  BY <1>0, <1>13, Zenon DEF UnlinkVmlinuz
<1>14. CASE LinkVmlinuz
  BY <1>0, <1>14, Zenon DEF LinkVmlinuz
<1>15. CASE UnlinkInitrd
  BY <1>0, <1>15, Zenon DEF UnlinkInitrd
<1>16. CASE LinkInitrd
  BY <1>0, <1>16, Zenon DEF LinkInitrd
<1>17. CASE write_default_grub
  BY <1>0, <1>17, Zenon DEF write_default_grub
<1>18. CASE disable_standard_grub_generators
  BY <1>0, <1>18, Zenon DEF disable_standard_grub_generators
<1>19. CASE run_grub_mkconfig
  BY <1>0, <1>19, Zenon DEF run_grub_mkconfig
<1>20. CASE Return
  BY <1>0, <1>20, Zenon DEF Return
<1>21. CASE CommandFails
  BY <1>0, <1>21, Zenon DEF CommandFails
<1>22. CASE Restart
  BY <1>0, <1>22, Zenon DEF Restart
<1>23. CASE UNCHANGED Disk
  BY <1>0, <1>23, Zenon
<1> QED
  BY <1>1, <1>2, <1>3, <1>4, <1>5, <1>6, <1>7, <1>8, <1>9, <1>10, <1>11, <1>12,
     <1>13, <1>14, <1>15, <1>16, <1>17, <1>18, <1>19, <1>20, <1>21, <1>22, <1>23, DiskSteps,
     ZenonT(60) DEF Command

LEMMA LeftStep ==
    ASSUME IInv, [Next]_vars
    PROVE  LeftOver'
<1> USE DEF files, grub, args, command, ghost, Disk, Goto, Exit
<1>0. LeftOver /\ new \in Versions
  BY Zenon DEF IInv, TypeOK
<1>1. CASE CopyImage
  BY <1>0, <1>1, Zenon DEF LeftOver, CopyImage
<1>2. CASE RenameImage
  BY <1>0, <1>2, Zenon DEF LeftOver, RenameImage
<1>3. CASE CommandFails
  BY <1>0, <1>3, Zenon DEF LeftOver, CommandFails
<1>4. CASE Restart
  BY <1>0, <1>4, Zenon DEF LeftOver, Restart
<1>5. CASE UNCHANGED Disk
  BY <1>0, <1>5, Zenon DEF LeftOver
<1> DEFINE Keeps == images' \subseteq images /\ cut' = cut /\ pc # "copying"
<1>6. Keeps => LeftOver'
  BY <1>0, Zenon DEF LeftOver
<1>7. ASSUME NEW v \in Versions,
             SayUpToDate(v) \/ BeginUpdate(v) \/ UpdateListed(v) \/ BeginRemove(v)
      PROVE  Keeps
  BY <1>7, Zenon DEF SayUpToDate, BeginUpdate, UpdateListed, BeginRemove, Running
<1>8. UnlinkFile \/ UnlinkManifest \/ CopyInitrd \/ WriteManifest \/ HookSucceeds
      \/ HookFails => Keeps
  BY Zenon DEF UnlinkFile, UnlinkManifest, CopyInitrd, WriteManifest, HookSucceeds, HookFails
<1>9. UnlinkVmlinuz \/ LinkVmlinuz \/ UnlinkInitrd \/ LinkInitrd => Keeps
  BY Zenon DEF UnlinkVmlinuz, LinkVmlinuz, UnlinkInitrd, LinkInitrd
<1>10. write_default_grub \/ disable_standard_grub_generators \/ run_grub_mkconfig
       \/ Return => Keeps
  BY Zenon DEF write_default_grub, disable_standard_grub_generators, run_grub_mkconfig, Return
<1> HIDE DEF Keeps
<1> QED
  BY <1>1, <1>2, <1>3, <1>4, <1>5, <1>6, <1>7, <1>8, <1>9, <1>10, DiskSteps, ZenonT(60) DEF Command

LEMMA ConfiguredStep ==
    ASSUME IInv, [Next]_vars
    PROVE  BootConfigured'
<1> USE DEF files, grub, args, command, ghost, Disk, Goto, Exit
<1>0. /\ TypeOK /\ BootConfigured /\ FilesKept /\ FirstKept
      /\ images \in SUBSET Names /\ initrds \in SUBSET Names /\ images # {}
  BY NamesFacts, Zenon DEF IInv, TypeOK, FirstKept
<1> USE DEF BootConfigured, Relinked, Linked
<1>1. ASSUME NEW v \in Versions, SayUpToDate(v) PROVE BootConfigured'
  BY <1>0, <1>1, Zenon DEF SayUpToDate, Running
<1>2. ASSUME NEW v \in Versions, BeginUpdate(v) PROVE BootConfigured'
  BY <1>0, <1>2, Zenon DEF BeginUpdate, Running
<1>3. ASSUME NEW v \in Versions, UpdateListed(v) PROVE BootConfigured'
  BY <1>0, <1>3, Zenon DEF UpdateListed, Running
<1>4. ASSUME NEW v \in Versions, BeginRemove(v) PROVE BootConfigured'
  BY <1>0, <1>4, Zenon DEF BeginRemove, Running
<1>5. CASE UnlinkFile
  BY <1>0, <1>5, Zenon DEF UnlinkFile
<1>6. CASE UnlinkManifest
  BY <1>0, <1>6, Zenon DEF UnlinkManifest
<1>7. CASE CopyImage
  BY <1>0, <1>7, Zenon DEF CopyImage
<1>8. CASE RenameImage
  BY <1>0, <1>8, Zenon DEF RenameImage
<1>9. CASE CopyInitrd
  BY <1>0, <1>9, Zenon DEF CopyInitrd
<1>10. CASE WriteManifest
  BY <1>0, <1>10, Zenon DEF WriteManifest
<1>11. CASE HookSucceeds
  BY <1>0, <1>11, Zenon DEF HookSucceeds
<1>12. CASE HookFails
  BY <1>0, <1>12, Zenon DEF HookFails
<1>13. CASE UnlinkVmlinuz
  BY <1>0, <1>13, Zenon DEF UnlinkVmlinuz
<1>14. CASE LinkVmlinuz
  <2>1. vmlinuz' \in images /\ \A name \in images : compare_versions(vmlinuz', name) >= 0
    BY <1>0, <1>14, LatestFacts, Zenon DEF LinkVmlinuz, FilesKept
  <2> QED
    BY <1>0, <1>14, <2>1, Zenon DEF LinkVmlinuz
<1>15. CASE UnlinkInitrd
  BY <1>0, <1>15, Zenon DEF UnlinkInitrd
<1>16. CASE LinkInitrd
  <2>1. initrds = {} \/ initrd' \in initrds
    BY <1>0, <1>16, LatestFacts, Zenon DEF LinkInitrd, FilesKept
  <2> QED
    BY <1>0, <1>16, <2>1, Zenon DEF LinkInitrd
<1>17. CASE write_default_grub
  BY <1>0, <1>17, Zenon DEF write_default_grub, root_arg_of_menu
<1>18. CASE disable_standard_grub_generators
  BY <1>0, <1>18, Zenon DEF disable_standard_grub_generators
<1>19. CASE run_grub_mkconfig
  <2>1. \A other \in images \ {Newest} : sort_V(Newest, other)
    BY <1>0, NewestFacts, Zenon
  <2>2. /\ menu'.images = images /\ menu'.own = initrds \cap images /\ menu'.latest = Newest
        /\ menu'.root = defaults /\ menu'.header = menu.header
        /\ menu'.standard = standard
    BY <1>19, Zenon DEF run_grub_mkconfig, Generated
  <2> QED
    BY <1>0, <1>19, <2>1, <2>2, Zenon DEF run_grub_mkconfig
<1>20. CASE Return
  BY <1>0, <1>20, Zenon DEF Return
<1>21. CASE CommandFails
  BY <1>0, <1>21, Zenon DEF CommandFails
<1>22. CASE Restart
  BY <1>0, <1>22, Zenon DEF Restart
<1>23. CASE UNCHANGED Disk
  BY <1>0, <1>23, Zenon
<1> QED
  BY <1>1, <1>2, <1>3, <1>4, <1>5, <1>6, <1>7, <1>8, <1>9, <1>10, <1>11, <1>12,
     <1>13, <1>14, <1>15, <1>16, <1>17, <1>18, <1>19, <1>20, <1>21, <1>22, <1>23, DiskSteps,
     ZenonT(60) DEF Command

LEMMA IInvHolds == Spec => []IInv
<1>1. IInv /\ [Next]_vars => IInv'
  BY TypeStep, FirstStep, FilesStep, NewestStep, LeftStep, ConfiguredStep, Zenon DEF IInv
<1> QED
  BY InitInv, <1>1, PTL DEF Spec

-----------------------------------------------------------------------------
(* Theorems.                                                               *)

\* The kernel of the installation can always be fallen back on: latest_boot_version
\* never returns less than it, so that no update is for it and no manifest comes
\* that a removal could follow.
THEOREM FallbackLoadsHolds == Spec => []FallbackLoads
<1>1. IInv => FallbackLoads
  BY Zenon DEF IInv, TypeOK, FirstKept, FilesKept, FallbackLoads, Loadable, InitrdOf
<1> QED
  BY <1>1, IInvHolds, PTL

\* The default entry of the menu loads, wherever a command was cut, but for the
\* cases that DefaultLoads names.
THEOREM DefaultLoadsHolds == Spec => []DefaultLoads
<1>1. IInv => DefaultLoads
  BY Zenon DEF IInv, TypeOK, FilesKept, DefaultLoads, Loadable, InitrdOf
<1> QED
  BY <1>1, IInvHolds, PTL

\* configure_kernel_update_boot leads to the kernel of the update, for all
\* versions and in whatever order readdir gives the entries of /boot.
THEOREM DoneMeansBootableHolds == Spec => []DoneMeansBootable
<1>1. IInv => DoneMeansBootable
  <2> SUFFICES ASSUME IInv, pc = "done" PROVE DoneMeansBootable
    BY Zenon DEF DoneMeansBootable
  <2>1. /\ vmlinuz \in images /\ \A name \in images : compare_versions(vmlinuz, name) >= 0
        /\ menu.images = images /\ menu.own = initrds \cap images
        /\ menu.root # "none" /\ ~menu.standard /\ (menu.root = "empty" => menu.header)
        /\ \A other \in images \ {menu.latest} : sort_V(menu.latest, other)
        /\ initrds = {} \/ initrd \in initrds
        /\ menu.latest \in images
    BY Zenon DEF IInv, BootConfigured, Relinked, Linked, FilesKept
  <2>2. images \subseteq Names
    BY NamesFacts, Zenon DEF IInv, TypeOK
  <2>3. vmlinuz = new \/ torn
    <3> SUFFICES ASSUME ~torn, vmlinuz # new PROVE FALSE
      BY Zenon
    <3>1. /\ new \in images /\ compare_versions(new, vmlinuz) > 0
          /\ compare_versions(vmlinuz, new) >= 0
      BY <2>1, Zenon DEF IInv, UpdateIsNewest, Updates, Configures, Relinked, Linked
    <3> QED
      BY <2>1, <2>2, <3>1, CompareSwap
  <2>4. menu.latest.canonical /\ vmlinuz.canonical => menu.latest = vmlinuz
    <3> SUFFICES ASSUME menu.latest.canonical, vmlinuz.canonical, menu.latest # vmlinuz
                 PROVE  FALSE
      BY Zenon
    <3>1. compare_versions(menu.latest, vmlinuz) > 0
      BY <2>1, <2>2, SortAssumption, Zenon
    <3>2. compare_versions(vmlinuz, menu.latest) >= 0
      BY <2>1, Zenon
    <3> QED
      BY <2>1, <2>2, <3>1, <3>2, CompareSwap
  <2>5. ASSUME initrds # {} \/ initrd = Plain, NEW name \in menu.images \cap Versions
        PROVE  Loadable(name)
    BY <2>1, <2>5, Zenon DEF Loadable, InitrdOf
  <2> QED
    BY <2>1, <2>3, <2>4, <2>5, Zenon DEF DoneMeansBootable
<1> QED
  BY <1>1, IInvHolds, PTL

\* "Kernel is up to date" is said because of a whole image, or of a copy in which
\* power was lost: no failure of copy_file_contents, no removal and no failed hook
\* leaves a name in /boot that latest_boot_version takes for a kernel.
THEOREM ToldTruthHolds == Spec => ToldTruth
<1>1. IInv => \A v \in Versions : SayUpToDate(v) => WholeImage(v)
  <2> SUFFICES ASSUME IInv, NEW v \in Versions, SayUpToDate(v) PROVE WholeImage(v)
    BY Zenon
  <2>1. images \in SUBSET Names /\ IsFiniteSet(images) /\ LeftOver /\ pc = "idle"
    BY Zenon DEF IInv, TypeOK, FilesKept, SayUpToDate, Running
  <2>2. PICK local \in latest_boot_version(images) :
            local # None /\ compare_versions(v, local) <= 0
    BY Zenon DEF SayUpToDate, UpToDate
  <2>3. local \in images
    BY <2>1, <2>2, LatestFacts, Zenon
  <2> QED
    BY <2>1, <2>2, <2>3, Zenon DEF LeftOver, WholeImage
<1> QED
  BY <1>1, IInvHolds, PTL DEF ToldTruth
=============================================================================
