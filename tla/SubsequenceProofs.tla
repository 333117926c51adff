-------------------------- MODULE SubsequenceProofs --------------------------
(***************************************************************************)
(* What a recursive definition over the naturals computes, for every n;    *)
(* what Those returns for every sequence; and what a reader of characters  *)
(* comes to.                                                               *)
(***************************************************************************)
EXTENDS Subsequence, FiniteSetTheorems, SequenceTheorems, WellFoundedInduction, TLAPS

Once(s) == \A i, j \in 1 .. Len(s) : s[i] = s[j] => i = j
------------------------------------------------------------------------------
(* Induction and recursion over the naturals, with sets and functions in   *)
(* the place of formulas and operators.                                    *)
LEMMA Least ==
  ASSUME NEW T \in SUBSET Nat, T # {}
  PROVE  \E n \in T : \A m \in T : n <= m
<1> DEFINE Below == {0 .. n : n \in T}
           R == StrictSubsetOrdering(Nat)
<1>1. Below \subseteq FiniteSubsetsOf(Nat) /\ Below # {}
  <2>1. ASSUME NEW n \in T PROVE 0 .. n \in SUBSET Nat /\ IsFiniteSet(0 .. n)
    BY FS_Interval
  <2>2. QED
    BY <2>1 DEF FiniteSubsetsOf
<1>2. PICK B \in Below : \A C \in Below : <<C, B>> \notin R
  <2> HIDE DEF Below, R
  <2>1. IsWellFoundedOn(R, FiniteSubsetsOf(Nat))
    BY FS_StrictSubsetOrderingWellFounded DEF R
  <2>2. QED
    BY <1>1, <2>1, WFMin
<1>3. PICK n \in T : B = 0 .. n
  BY <1>2
<1>4. ASSUME NEW m \in T, m < n PROVE FALSE
  <2>1. 0 .. m \in Below /\ 0 .. m \subseteq 0 .. n /\ n \in 0 .. n /\ n \notin 0 .. m
    BY <1>4
  <2>2. 0 .. m \in SUBSET Nat /\ 0 .. n \in SUBSET Nat /\ 0 .. m # 0 .. n
    BY <2>1
  <2>3. <<0 .. m, 0 .. n>> \in R
    BY <2>1, <2>2 DEF StrictSubsetOrdering
  <2>4. QED
    BY <1>2, <1>3, <2>1, <2>3
<1>5. QED
  BY <1>4

LEMMA Induction ==
  ASSUME NEW N \in Nat, NEW T, 0 \in T,
         \A n \in 0 .. N : n < N /\ n \in T => n + 1 \in T
  PROVE  0 .. N \subseteq T
<1> DEFINE Out == (0 .. N) \ T
<1> SUFFICES ASSUME Out # {} PROVE FALSE
  OBVIOUS
<1>1. Out \in SUBSET Nat
  OBVIOUS
<1>2. PICK n \in Out : \A m \in Out : n <= m
  <2> HIDE DEF Out
  <2>1. QED
    BY <1>1, Least
<1>3. n # 0 /\ n - 1 \in 0 .. N /\ n - 1 < N /\ n - 1 \notin Out
  BY <1>2
<1>4. QED
  BY <1>2, <1>3

Computes(f, N, base, G) == f[0] = base /\ \A n \in 1 .. N : f[n] = G[<<f[n - 1], n>>]

LEMMA Recursion ==
  ASSUME NEW N \in Nat, NEW X, NEW base \in X, NEW G \in [X \X (1 .. N) -> X]
  PROVE  \E f \in [0 .. N -> X] : Computes(f, N, base, G)
<1> DEFINE T == {k \in 0 .. N : \E f \in [0 .. k -> X] : Computes(f, k, base, G)}
<1>1. 0 \in T
  <2> DEFINE f == [n \in 0 .. 0 |-> base]
  <2>1. f \in [0 .. 0 -> X] /\ Computes(f, 0, base, G)
    BY DEF Computes
  <2>2. QED
    BY <2>1
<1>2. ASSUME NEW k \in 0 .. N, k < N, k \in T PROVE k + 1 \in T
  <2>1. PICK f \in [0 .. k -> X] : Computes(f, k, base, G)
    BY <1>2
  <2> DEFINE g == [n \in 0 .. k + 1 |-> IF n = k + 1 THEN G[<<f[k], k + 1>>] ELSE f[n]]
  <2>2. f[k] \in X /\ <<f[k], k + 1>> \in X \X (1 .. N)
    BY <1>2
  <2>3. g \in [0 .. k + 1 -> X]
    BY <1>2, <2>2
  <2>4. Computes(g, k + 1, base, G)
    <3>1. g[0] = base
      BY <2>1 DEF Computes
    <3>2. ASSUME NEW n \in 1 .. k + 1 PROVE g[n] = G[<<g[n - 1], n>>]
      <4>1. CASE n = k + 1
        BY <4>1
      <4>2. CASE n # k + 1
        <5>1. n \in 1 .. k /\ n \in 0 .. k + 1 /\ n - 1 \in 0 .. k + 1 /\ n - 1 # k + 1
          BY <4>2
        <5>2. g[n] = f[n] /\ g[n - 1] = f[n - 1]
          BY <4>2, <5>1
        <5>3. QED
          BY <2>1, <5>1, <5>2 DEF Computes
      <4>3. QED
        BY <4>1, <4>2
    <3>3. QED
      BY <3>1, <3>2 DEF Computes
  <2> HIDE DEF g
  <2>5. k + 1 \in 0 .. N
    BY <1>2
  <2>6. QED
    BY <2>3, <2>4, <2>5
<1> HIDE DEF T
<1>3. N \in T
  BY <1>1, <1>2, Induction
<1>4. QED
  BY <1>3 DEF T
------------------------------------------------------------------------------
(* The function by which Those is defined, step by step.                    *)
Steps(f, s, S) ==
  /\ f[0] = <<>>
  /\ \A n \in 1 .. Len(s) : f[n] = IF s[n] \in S THEN Append(f[n - 1], s[n]) ELSE f[n - 1]

LEMMA ThoseSteps ==
  ASSUME NEW X, NEW s \in Seq(X), NEW S
  PROVE  \E f : Steps(f, s, S) /\ Those(s, S) = f[Len(s)]
<1> DEFINE N == Len(s)
           P(f) == f = [n \in 0 .. N |->
                          IF n = 0 THEN <<>>
                          ELSE IF s[n] \in S THEN Append(f[n - 1], s[n]) ELSE f[n - 1]]
           G == [y \in Seq(X) \X (1 .. N) |->
                   IF s[y[2]] \in S THEN Append(y[1], s[y[2]]) ELSE y[1]]
           kept == CHOOSE f : P(f)
<1>1. N \in Nat /\ G \in [Seq(X) \X (1 .. N) -> Seq(X)] /\ <<>> \in Seq(X)
  OBVIOUS
<1>2. PICK h \in [0 .. N -> Seq(X)] : Computes(h, N, <<>>, G)
  <2> HIDE DEF G, N
  <2>1. QED
    BY <1>1, Recursion
<1>3. ASSUME NEW n \in 1 .. N
      PROVE  h[n] = IF s[n] \in S THEN Append(h[n - 1], s[n]) ELSE h[n - 1]
  <2>1. n - 1 \in 0 .. N
    BY <1>1
  <2>2. <<h[n - 1], n>> \in Seq(X) \X (1 .. N)
    BY <2>1
  <2>3. h[n] = G[<<h[n - 1], n>>]
    BY <1>2 DEF Computes
  <2> HIDE DEF N
  <2>4. QED
    BY <2>2, <2>3
<1>4. P(h)
  <2>1. h[0] = <<>>
    BY <1>2 DEF Computes
  <2>2. ASSUME NEW n \in 0 .. N
        PROVE  h[n] = IF n = 0 THEN <<>>
                      ELSE IF s[n] \in S THEN Append(h[n - 1], s[n]) ELSE h[n - 1]
    <3>1. n = 0 \/ n \in 1 .. N
      BY <1>1
    <3> HIDE DEF N, G
    <3>2. QED
      BY <1>3, <2>1, <3>1
  <2> HIDE DEF N, G
  <2>3. QED
    BY <2>2
<1>5. P(kept)
  <2> HIDE DEF P
  <2>1. QED
    BY <1>4
<1>6. Those(s, S) = kept[N]
  BY DEF Those
<1>7. Steps(kept, s, S)
  <2>1. ASSUME NEW f, P(f)
        PROVE  Steps(f, s, S)
    <3> HIDE DEF N
    <3>1. 0 \in 0 .. N /\ \A n \in 1 .. N : n \in 0 .. N /\ n # 0
      BY <1>1
    <3>2. f[0] = <<>> /\ \A n \in 1 .. N : f[n] = IF s[n] \in S THEN Append(f[n - 1], s[n])
                                                 ELSE f[n - 1]
      BY <2>1, <3>1
    <3>3. QED
      BY <3>2 DEF Steps, N
  <2> HIDE DEF P, kept
  <2>2. QED
    BY <1>5, <2>1
<1>8. QED
  BY <1>6, <1>7

(* No element more often than before, and none before its place.           *)
LEMMA ThoseOf ==
  ASSUME NEW X, NEW s \in Seq(X), NEW S
  PROVE  /\ Those(s, S) \in Seq(X) /\ Len(Those(s, S)) <= Len(s)
         /\ \A i \in 1 .. Len(Those(s, S)) :
              /\ Those(s, S)[i] \in S
              /\ \E j \in 1 .. Len(s) : i <= j /\ Those(s, S)[i] = s[j]
         /\ Once(s) => Once(Those(s, S))
<1> DEFINE N == Len(s)
<1>1. N \in Nat /\ <<>> \in Seq(X)
  OBVIOUS
<1>2. PICK kept : Steps(kept, s, S) /\ Those(s, S) = kept[N]
  BY ThoseSteps
<1> DEFINE Good(n) ==
             /\ kept[n] \in Seq(X) /\ Len(kept[n]) <= n /\ (Once(s) => Once(kept[n]))
             /\ \A i \in 1 .. Len(kept[n]) :
                  kept[n][i] \in S /\ \E j \in 1 .. n : i <= j /\ kept[n][i] = s[j]
           T == {n \in 0 .. N : Good(n)}
<1>7. /\ kept[0] = <<>>
      /\ \A n \in 1 .. N : kept[n] = IF s[n] \in S THEN Append(kept[n - 1], s[n])
                                     ELSE kept[n - 1]
  BY <1>2 DEF Steps
<1>8. 0 \in T
  <2>1. <<>> \in Seq(X) /\ Once(<<>>) /\ Len(<<>>) = 0 /\ 0 <= 0
    BY DEF Once
  <2>2. kept[0] \in Seq(X) /\ Once(kept[0]) /\ Len(kept[0]) = 0
    BY <1>7, <2>1
  <2>3. Good(0)
    <3> HIDE DEF N
    <3>1. QED
      BY <2>2
  <2>4. QED
    BY <1>1, <2>3
<1>9. ASSUME NEW n \in 0 .. N, n < N, n \in T PROVE n + 1 \in T
  <2> DEFINE k == n + 1
  <2>1. k \in 1 .. N /\ k - 1 = n /\ Good(n) /\ s[k] \in X
    BY <1>9
  <2>2. CASE s[k] \notin S
    <3>1. kept[k] = kept[n]
      BY <1>7, <2>1, <2>2
    <3>2. \A j \in 1 .. n : j \in 1 .. k
      OBVIOUS
    <3>3. n <= k /\ Len(kept[n]) <= k
      BY <2>1
    <3> DEFINE t == kept[n]
    <3> HIDE DEF t
    <3>4. Good(k)
      <4> SUFFICES t \in Seq(X) /\ Len(t) <= k /\ (Once(s) => Once(t))
                   /\ \A i \in 1 .. Len(t) :
                        t[i] \in S /\ \E j \in 1 .. k : i <= j /\ t[i] = s[j]
        BY <3>1 DEF t
      <4> HIDE DEF k
      <4>1. QED
        BY <2>1, <3>2, <3>3 DEF t
    <3>5. QED
      BY <1>1, <2>1, <3>4
  <2>3. CASE s[k] \in S
    <3>1. kept[k] = Append(kept[n], s[k])
      BY <1>7, <2>1, <2>3
    <3> DEFINE t == kept[n]
    <3> HIDE DEF t
    <3>2. t \in Seq(X) /\ Len(t) <= n /\ (Once(s) => Once(t))
          /\ \A i \in 1 .. Len(t) : t[i] \in S /\ \E j \in 1 .. n : i <= j /\ t[i] = s[j]
      BY <2>1 DEF t
    <3>3. /\ Append(t, s[k]) \in Seq(X) /\ Len(Append(t, s[k])) = Len(t) + 1
          /\ \A i \in 1 .. Len(t) + 1 :
               Append(t, s[k])[i] = IF i <= Len(t) THEN t[i] ELSE s[k]
          /\ Len(t) \in Nat
      BY <2>1, <3>2
    <3>4. Once(s) => \A i \in 1 .. Len(t) : t[i] # s[k]
      BY <1>9, <2>1, <3>2 DEF Once
    <3>5. Once(s) => Once(Append(t, s[k]))
      <4> DEFINE u == Append(t, s[k])
      <4> SUFFICES ASSUME Once(s), NEW i \in 1 .. Len(t) + 1, NEW j \in 1 .. Len(t) + 1,
                          u[i] = u[j]
                   PROVE  i = j
        BY <3>3 DEF Once
      <4>1. /\ u[i] = (IF i <= Len(t) THEN t[i] ELSE s[k])
            /\ u[j] = (IF j <= Len(t) THEN t[j] ELSE s[k])
        BY <3>3
      <4> HIDE DEF u, k
      <4>2. \A x, y \in 1 .. Len(t) : t[x] = t[y] => x = y
        BY <3>2 DEF Once
      <4>3. \A x \in 1 .. Len(t) + 1 : x \in 1 .. Len(t) \/ (x = Len(t) + 1 /\ ~ x <= Len(t))
        BY <3>3
      <4>4. \A x \in 1 .. Len(t) : x <= Len(t) /\ t[x] # s[k]
        BY <3>3, <3>4
      <4>5. CASE i \in 1 .. Len(t) /\ j \in 1 .. Len(t)
        BY <4>1, <4>2, <4>4, <4>5
      <4>6. CASE i = Len(t) + 1 /\ j = Len(t) + 1
        BY <4>6
      <4>7. CASE i \in 1 .. Len(t) /\ ~ j <= Len(t)
        BY <4>1, <4>4, <4>7
      <4>8. CASE ~ i <= Len(t) /\ j \in 1 .. Len(t)
        BY <4>1, <4>4, <4>8
      <4>9. QED
        BY <4>3, <4>5, <4>6, <4>7, <4>8
    <3>6. ASSUME NEW i \in 1 .. Len(t) + 1
          PROVE  /\ Append(t, s[k])[i] \in S
                 /\ \E j \in 1 .. k : i <= j /\ Append(t, s[k])[i] = s[j]
      <4>1. CASE i <= Len(t)
        <5>1. i \in 1 .. Len(t) /\ Append(t, s[k])[i] = t[i]
          BY <3>3, <4>1
        <5>2. PICK j \in 1 .. n : i <= j /\ t[i] = s[j]
          BY <3>2, <5>1
        <5>3. j \in 1 .. k
          BY <2>1
        <5> HIDE DEF k
        <5>4. QED
          BY <3>2, <5>1, <5>2, <5>3
      <4>2. CASE ~ i <= Len(t)
        <5>1. i <= k /\ k \in 1 .. k /\ Append(t, s[k])[i] = s[k]
          BY <2>1, <3>2, <3>3, <4>2
        <5> HIDE DEF k
        <5>2. QED
          BY <2>3, <5>1
      <4>3. QED
        BY <4>1, <4>2
    <3>7. Len(Append(t, s[k])) <= k
      BY <2>1, <3>2, <3>3
    <3>8. Good(k)
      <4> SUFFICES LET u == Append(t, s[k])
                   IN  /\ u \in Seq(X) /\ Len(u) <= k /\ (Once(s) => Once(u))
                       /\ \A i \in 1 .. Len(u) :
                            u[i] \in S /\ \E j \in 1 .. k : i <= j /\ u[i] = s[j]
        BY <3>1 DEF t
      <4> HIDE DEF k
      <4>1. QED
        BY <3>3, <3>5, <3>6, <3>7
    <3>9. QED
      BY <1>1, <2>1, <3>8
  <2>4. QED
    BY <2>2, <2>3
<1>10. N \in T
  <2> HIDE DEF T, N
  <2>1. 0 .. N \subseteq T
    BY <1>1, <1>8, <1>9, Induction
  <2>2. QED
    BY <1>1, <2>1
<1>11. QED
  BY <1>2, <1>10

(* None of those in S is left out.                                         *)
LEMMA ThoseAll ==
  ASSUME NEW X, NEW s \in Seq(X), NEW S, NEW i \in 1 .. Len(s), s[i] \in S
  PROVE  \E j \in 1 .. Len(Those(s, S)) : Those(s, S)[j] = s[i]
<1> DEFINE N == Len(s)
<1>1. N \in Nat /\ <<>> \in Seq(X) /\ i \in 1 .. N
  OBVIOUS
<1>2. PICK kept : Steps(kept, s, S) /\ Those(s, S) = kept[N]
  BY ThoseSteps
<1> DEFINE Has(n) == /\ kept[n] \in Seq(X)
                     /\ i <= n => \E j \in 1 .. Len(kept[n]) : kept[n][j] = s[i]
           T == {n \in 0 .. N : Has(n)}
<1>3. 0 \in T
  <2>1. kept[0] = <<>> /\ 0 \in 0 .. N /\ ~ i <= 0
    BY <1>1, <1>2 DEF Steps
  <2> HIDE DEF N
  <2>2. QED
    BY <1>1, <2>1
<1>4. ASSUME NEW n \in 0 .. N, n < N, n \in T PROVE n + 1 \in T
  <2> DEFINE k == n + 1
             t == kept[n]
  <2>1. k \in 1 .. N /\ k - 1 = n /\ t \in Seq(X) /\ s[k] \in X
    BY <1>4
  <2>2. kept[k] = IF s[k] \in S THEN Append(t, s[k]) ELSE t
    BY <1>2, <2>1 DEF Steps
  <2>3. i <= k => i <= n \/ i = k
    BY <2>1
  <2>4. i <= n => \E j \in 1 .. Len(t) : t[j] = s[i]
    BY <1>4
  <2> HIDE DEF k, t
  <2>5. /\ Append(t, s[k]) \in Seq(X) /\ Len(Append(t, s[k])) = Len(t) + 1 /\ Len(t) \in Nat
        /\ Append(t, s[k])[Len(t) + 1] = s[k]
        /\ \A j \in 1 .. Len(t) : Append(t, s[k])[j] = t[j]
    BY <2>1
  <2>6. Len(t) + 1 \in 1 .. Len(t) + 1 /\ \A j \in 1 .. Len(t) : j \in 1 .. Len(t) + 1
    BY <2>5
  <2>7. kept[k] \in Seq(X)
    BY <2>1, <2>2, <2>5
  <2>8. ASSUME i <= k PROVE \E j \in 1 .. Len(kept[k]) : kept[k][j] = s[i]
    BY <2>2, <2>3, <2>4, <2>5, <2>6, <2>8
  <2>9. QED
    BY <2>1, <2>7, <2>8 DEF k
<1> HIDE DEF T
<1>5. 0 .. N \subseteq T
  <2> HIDE DEF N
  <2>1. QED
    BY <1>1, <1>3, <1>4, Induction
<1>6. N \in T
  BY <1>1, <1>5
<1>7. QED
  BY <1>1, <1>2, <1>6 DEF T

(* Of two sequences, one behind the other.                                 *)
LEMMA ThoseJoin ==
  ASSUME NEW X, NEW s \in Seq(X), NEW t \in Seq(X), NEW S
  PROVE  Those(s \o t, S) = Those(s, S) \o Those(t, S)
<1> DEFINE M == Len(s)
           N == Len(t)
           x == s \o t
<1>1. /\ M \in Nat /\ N \in Nat /\ x \in Seq(X) /\ Len(x) = M + N
      /\ \A n \in 1 .. M : x[n] = s[n]
      /\ \A n \in 1 .. N : x[M + n] = t[n]
      /\ \A n \in 1 .. N : t[n] \in X
  OBVIOUS
<1>2. PICK f : Steps(f, s, S) /\ Those(s, S) = f[M]
  BY ThoseSteps
<1>3. PICK g : Steps(g, t, S) /\ Those(t, S) = g[N]
  BY ThoseSteps
<1> HIDE DEF x
<1>4. PICK h : Steps(h, x, S) /\ Those(x, S) = h[M + N]
  BY <1>1, ThoseSteps
<1>5. f[M] \in Seq(X)
  BY <1>2, ThoseOf
<1> HIDE DEF M, N
<1> DEFINE T == {n \in 0 .. M : h[n] = f[n]}
           U == {n \in 0 .. N : g[n] \in Seq(X) /\ h[M + n] = f[M] \o g[n]}
<1>6. 0 \in T
  BY <1>1, <1>2, <1>4 DEF Steps
<1>7. ASSUME NEW n \in 0 .. M, n < M, n \in T PROVE n + 1 \in T
  <2>1. n + 1 \in 1 .. M /\ n + 1 \in 1 .. M + N /\ n + 1 \in 0 .. M /\ (n + 1) - 1 = n
    BY <1>1, <1>7
  <2>2. f[n + 1] = IF s[n + 1] \in S THEN Append(f[n], s[n + 1]) ELSE f[n]
    BY <1>2, <2>1 DEF Steps, M
  <2>3. h[n + 1] = IF x[n + 1] \in S THEN Append(h[n], x[n + 1]) ELSE h[n]
    BY <1>1, <1>4, <2>1 DEF Steps
  <2>4. QED
    BY <1>1, <1>7, <2>1, <2>2, <2>3
<1>8. M \in T
  <2> HIDE DEF T
  <2>1. 0 .. M \subseteq T
    BY <1>1, <1>6, <1>7, Induction
  <2>2. QED
    BY <1>1, <2>1
<1>9. 0 \in U
  <2>1. g[0] = <<>> /\ M + 0 = M /\ h[M] = f[M]
    BY <1>1, <1>3, <1>8 DEF Steps
  <2>2. \A u \in Seq(X) : u \o <<>> = u /\ <<>> \in Seq(X)
    OBVIOUS
  <2>3. g[0] \in Seq(X) /\ h[M] = f[M] \o g[0]
    BY <1>5, <2>1, <2>2
  <2>4. \A n : n = 0 => h[M + n] = f[M] \o g[n]
    BY <2>1, <2>3
  <2>5. 0 \in 0 .. N
    BY <1>1
  <2>6. QED
    BY <2>3, <2>4, <2>5
<1>10. ASSUME NEW n \in 0 .. N, n < N, n \in U PROVE n + 1 \in U
  <2>1. /\ n + 1 \in 1 .. N /\ M + (n + 1) \in 1 .. M + N /\ n + 1 \in 0 .. N
        /\ (n + 1) - 1 = n /\ (M + (n + 1)) - 1 = M + n
    BY <1>1, <1>10
  <2>2. g[n + 1] = IF t[n + 1] \in S THEN Append(g[n], t[n + 1]) ELSE g[n]
    BY <1>3, <2>1 DEF Steps, N
  <2>3. h[M + (n + 1)] = IF t[n + 1] \in S THEN Append(h[M + n], t[n + 1]) ELSE h[M + n]
    BY <1>1, <1>4, <2>1 DEF Steps
  <2>4. h[M + n] = f[M] \o g[n] /\ g[n] \in Seq(X) /\ t[n + 1] \in X
    BY <1>1, <1>10, <2>1
  <2>5. ASSUME NEW u \in Seq(X), NEW v \in Seq(X), NEW e \in X
        PROVE  Append(u \o v, e) = u \o Append(v, e)
    <3>1. <<e>> \in Seq(X) /\ u \o v \in Seq(X)
      OBVIOUS
    <3>2. Append(u \o v, e) = (u \o v) \o <<e>> /\ Append(v, e) = v \o <<e>>
      BY <3>1, AppendIsConcat
    <3>3. QED
      BY <3>1, <3>2, ConcatAssociative
  <2>6. Append(f[M] \o g[n], t[n + 1]) = f[M] \o Append(g[n], t[n + 1])
    BY <1>5, <2>4, <2>5
  <2> DEFINE e == t[n + 1]
             p == n + 1
  <2> HIDE DEF e, p
  <2>7. g[p] \in Seq(X) /\ h[M + p] = f[M] \o g[p]
    <3>0. Append(g[n], e) \in Seq(X)
      BY <2>4 DEF e
    <3>1. CASE e \in S
      BY <3>0, <2>2, <2>3, <2>4, <2>6, <3>1 DEF e, p
    <3>2. CASE e \notin S
      BY <2>2, <2>3, <2>4, <3>2 DEF e, p
    <3>3. QED
      BY <3>1, <3>2
  <2>8. QED
    BY <2>1, <2>7 DEF p
<1>11. N \in U
  <2> HIDE DEF U
  <2>1. 0 .. N \subseteq U
    BY <1>1, <1>9, <1>10, Induction
  <2>2. QED
    BY <1>1, <2>1
<1>12. QED
  BY <1>2, <1>3, <1>4, <1>11 DEF x

LEMMA ThoseNone ==
  ASSUME NEW X, NEW s \in Seq(X), NEW S, \A i \in 1 .. Len(s) : s[i] \notin S
  PROVE  Those(s, S) = <<>>
<1>1. /\ Those(s, S) \in Seq(X)
      /\ \A i \in 1 .. Len(Those(s, S)) :
           /\ Those(s, S)[i] \in S
           /\ \E j \in 1 .. Len(s) : Those(s, S)[i] = s[j]
  BY ThoseOf
<1> DEFINE k == Those(s, S)
<1> HIDE DEF k
<1>2. ~ \E i \in 1 .. Len(k) : TRUE
  BY <1>1 DEF k
<1>3. k \in Seq(X)
  BY <1>1 DEF k
<1>4. k = <<>>
  BY <1>2, <1>3
<1>5. QED
  BY <1>4 DEF k
------------------------------------------------------------------------------
(* A reader with the states S takes one character after another: from s,   *)
(* with the characters of t, it comes to u.                                *)
Scans(f, D, s, t) == f[0] = s /\ \A n \in 1 .. Len(t) : f[n] = D[<<f[n - 1], t[n]>>]
Leads(D, S, s, t, u) ==
  \E f \in [0 .. Len(t) -> S] : Scans(f, D, s, t) /\ f[Len(t)] = u

LEMMA ReadsAll ==
  ASSUME NEW S, NEW C, NEW D \in [S \X C -> S], NEW s \in S, NEW t \in Seq(C)
  PROVE  \E f \in [0 .. Len(t) -> S] : Scans(f, D, s, t)
<1> DEFINE N == Len(t)
           G == [y \in S \X (1 .. N) |-> D[<<y[1], t[y[2]]>>]]
<1>1. N \in Nat /\ \A n \in 1 .. N : t[n] \in C
  OBVIOUS
<1>2. G \in [S \X (1 .. N) -> S]
  <2> HIDE DEF N
  <2>1. QED
    BY <1>1
<1>3. PICK f \in [0 .. N -> S] : Computes(f, N, s, G)
  <2> HIDE DEF G, N
  <2>1. QED
    BY <1>1, <1>2, Recursion
<1>4. ASSUME NEW n \in 1 .. N PROVE f[n] = D[<<f[n - 1], t[n]>>]
  <2>1. n - 1 \in 0 .. N
    BY <1>1
  <2>2. f[n - 1] \in S /\ f[n] = G[<<f[n - 1], n>>]
    BY <1>3, <2>1 DEF Computes
  <2> HIDE DEF N
  <2>3. QED
    BY <2>2
<1>5. QED
  BY <1>3, <1>4 DEF Scans, Computes

LEMMA ReadsOne ==
  ASSUME NEW S, NEW C, NEW D \in [S \X C -> S], NEW s \in S, NEW t \in Seq(C),
         NEW f, Scans(f, D, s, t), NEW u, Leads(D, S, s, t, u)
  PROVE  f[Len(t)] = u
<1> DEFINE N == Len(t)
<1>1. N \in Nat
  OBVIOUS
<1>2. PICK g \in [0 .. N -> S] : Scans(g, D, s, t) /\ g[N] = u
  BY DEF Leads
<1> DEFINE T == {n \in 0 .. N : f[n] = g[n]}
<1>3. 0 \in T
  BY <1>1, <1>2 DEF Scans
<1>4. ASSUME NEW n \in 0 .. N, n < N, n \in T PROVE n + 1 \in T
  <2>1. n + 1 \in 1 .. N /\ (n + 1) - 1 = n
    BY <1>1, <1>4
  <2>2. f[n + 1] = D[<<f[n], t[n + 1]>>] /\ g[n + 1] = D[<<g[n], t[n + 1]>>]
    BY <1>2, <2>1 DEF Scans
  <2>3. QED
    BY <1>4, <2>1, <2>2
<1>5. N \in T
  <2> HIDE DEF T, N
  <2>1. 0 .. N \subseteq T
    BY <1>1, <1>3, <1>4, Induction
  <2>2. QED
    BY <1>1, <2>1
<1>6. QED
  BY <1>2, <1>5

LEMMA LeadsNone ==
  ASSUME NEW S, NEW D, NEW s \in S PROVE Leads(D, S, s, <<>>, s)
<1> DEFINE f == [n \in 0 .. 0 |-> s]
<1>1. f \in [0 .. Len(<<>>) -> S] /\ Scans(f, D, s, <<>>) /\ f[Len(<<>>)] = s
  BY DEF Scans
<1>2. QED
  BY <1>1 DEF Leads

LEMMA LeadsOne ==
  ASSUME NEW S, NEW C, NEW D \in [S \X C -> S], NEW s \in S, NEW c \in C
  PROVE  Leads(D, S, s, <<c>>, D[<<s, c>>])
<1> DEFINE f == [n \in 0 .. 1 |-> IF n = 0 THEN s ELSE D[<<s, c>>]]
<1>1. f \in [0 .. 1 -> S] /\ f[0] = s /\ f[1] = D[<<s, c>>]
  OBVIOUS
<1>2. Len(<<c>>) = 1 /\ <<c>>[1] = c
  OBVIOUS
<1> HIDE DEF f
<1>3. Scans(f, D, s, <<c>>)
  BY <1>1, <1>2 DEF Scans
<1>4. QED
  BY <1>1, <1>2, <1>3 DEF Leads

LEMMA LeadsOn ==
  ASSUME NEW S, NEW C, NEW D, NEW s, NEW t \in Seq(C), NEW u, NEW w \in Seq(C), NEW v,
         Leads(D, S, s, t, u), Leads(D, S, u, w, v)
  PROVE  Leads(D, S, s, t \o w, v)
<1> DEFINE M == Len(t)
           N == Len(w)
<1>1. /\ M \in Nat /\ N \in Nat /\ Len(t \o w) = M + N
      /\ \A n \in 1 .. M : (t \o w)[n] = t[n]
      /\ \A n \in M + 1 .. M + N : (t \o w)[n] = w[n - M]
  OBVIOUS
<1>2. PICK f \in [0 .. M -> S] : Scans(f, D, s, t) /\ f[M] = u
  BY DEF Leads
<1>3. PICK g \in [0 .. N -> S] : Scans(g, D, u, w) /\ g[N] = v
  BY DEF Leads
<1> DEFINE h == [n \in 0 .. M + N |-> IF n <= M THEN f[n] ELSE g[n - M]]
           x == t \o w
<1> HIDE DEF M, N, x
<1>4. h \in [0 .. M + N -> S] /\ \A n \in 0 .. N : h[M + n] = g[n]
  <2>1. ASSUME NEW n \in 0 .. M + N PROVE h[n] \in S
    BY <1>1
  <2>2. h[M] = g[0]
    BY <1>1, <1>2, <1>3 DEF Scans
  <2>3. ASSUME NEW n \in 1 .. N PROVE h[M + n] = g[n]
    BY <1>1
  <2>4. \A n \in 0 .. N : n = 0 \/ n \in 1 .. N
    BY <1>1
  <2>5. h \in [0 .. M + N -> S]
    BY <2>1
  <2>6. M + 0 = M
    BY <1>1
  <2> HIDE DEF h
  <2>7. QED
    BY <2>2, <2>3, <2>4, <2>5, <2>6
<1>5. ASSUME NEW n \in 1 .. M + N PROVE h[n] = D[<<h[n - 1], x[n]>>]
  <2>1. CASE n \in 1 .. M
    <3>1. n - 1 \in 0 .. M /\ n - 1 <= M /\ n <= M /\ n \in 0 .. M + N /\ n - 1 \in 0 .. M + N
      BY <1>1, <2>1
    <3>2. f[n] = D[<<f[n - 1], t[n]>>] /\ x[n] = t[n]
      BY <1>1, <1>2, <2>1 DEF Scans, M, x
    <3>3. QED
      BY <3>1, <3>2
  <2>2. CASE n \in M + 1 .. M + N
    <3> DEFINE k == n - M
    <3>1. k \in 1 .. N /\ k \in 0 .. N /\ k - 1 \in 0 .. N /\ n = M + k /\ n - 1 = M + (k - 1)
      BY <1>1, <2>2
    <3>2. x[n] = w[k]
      BY <1>1, <2>2 DEF x
    <3> HIDE DEF k, h
    <3>3. g[k] = D[<<g[k - 1], w[k]>>]
      BY <1>3, <3>1 DEF Scans, N
    <3>4. h[n] = g[k] /\ h[n - 1] = g[k - 1]
      BY <1>4, <3>1
    <3>5. QED
      BY <3>2, <3>3, <3>4
  <2>3. QED
    BY <1>1, <2>1, <2>2
<1>6. h[0] = s /\ h[M + N] = v
  <2>1. h[0] = s
    BY <1>1, <1>2 DEF Scans
  <2>2. N \in 0 .. N
    BY <1>1
  <2> HIDE DEF h
  <2>3. QED
    BY <1>3, <1>4, <2>1, <2>2
<1>7. Len(x) = M + N
  BY <1>1 DEF x
<1> HIDE DEF h
<1>8. Scans(h, D, s, x)
  BY <1>5, <1>6, <1>7 DEF Scans
<1>9. QED
  BY <1>4, <1>6, <1>7, <1>8 DEF Leads, x

Spliced(s, p, t) == SubSeq(s, 1, p) \o t \o SubSeq(s, p + 1, Len(s))

(* Inserting in s a text t that holds none of S keeps those of S in s.     *)
LEMMA ThoseInserted ==
  ASSUME NEW X, NEW s \in Seq(X), NEW p \in 0 .. Len(s), NEW t \in Seq(X), NEW S,
         Those(t, S) = <<>>
  PROVE  /\ Spliced(s, p, t) \in Seq(X) /\ Len(Spliced(s, p, t)) = Len(s) + Len(t)
         /\ Those(Spliced(s, p, t), S) = Those(s, S)
<1> DEFINE front == SubSeq(s, 1, p)
           back == SubSeq(s, p + 1, Len(s))
           all == front \o t
<1>1. Len(s) \in Nat /\ p \in Nat /\ p <= Len(s) /\ Len(t) \in Nat
  OBVIOUS
<1>2. front \in Seq(X) /\ Len(front) = p
  <2>1. \A i \in 1 .. p : s[i] \in X
    OBVIOUS
  <2>2. QED
    BY <1>1, <2>1
<1>3. back \in Seq(X) /\ Len(back) = Len(s) - p
  <2>1. \A i \in p + 1 .. Len(s) : s[i] \in X
    OBVIOUS
  <2>2. QED
    BY <1>1, <2>1
<1>4. \A i \in 1 .. p : front[i] = s[i]
  BY <1>1
<1>5. \A i \in 1 .. Len(s) - p : back[i] = s[p + i]
  BY <1>1
<1> HIDE DEF front, back
<1>6. front \o back = s
  <2>1. front \o back \in Seq(X) /\ Len(front \o back) = Len(s)
    <3>1. \A u, v \in Seq(X) : u \o v \in Seq(X) /\ Len(u \o v) = Len(u) + Len(v)
      OBVIOUS
    <3>2. Len(front \o back) = p + (Len(s) - p)
      BY <1>2, <1>3, <3>1
    <3>3. QED
      BY <1>1, <1>2, <1>3, <3>1, <3>2
  <2>2. ASSUME NEW i \in 1 .. Len(s) PROVE (front \o back)[i] = s[i]
    <3>1. CASE i <= p
      BY <1>1, <1>2, <1>3, <1>4, <3>1
    <3>2. CASE i > p
      <4>1. (front \o back)[i] = back[i - p] /\ i - p \in 1 .. Len(s) - p
        BY <1>1, <1>2, <1>3, <3>2
      <4>2. back[i - p] = s[p + (i - p)]
        BY <1>5, <4>1
      <4>3. p + (i - p) = i
        BY <1>1
      <4>4. QED
        BY <4>1, <4>2, <4>3
    <3>3. i <= p \/ i > p
      BY <1>1
    <3>4. QED
      BY <3>1, <3>2, <3>3
  <2>3. \A u, v \in Seq(X) :
          Len(u) = Len(v) /\ (\A i \in 1 .. Len(v) : u[i] = v[i]) => u = v
    OBVIOUS
  <2>4. QED
    BY <2>1, <2>2, <2>3
<1>7. all \in Seq(X) /\ Len(all) = p + Len(t)
  BY <1>1, <1>2
<1>8. \A u, v \in Seq(X) : Those(u \o v, S) = Those(u, S) \o Those(v, S)
  BY ThoseJoin
<1>9. Those(all, S) = Those(front, S)
  <2>1. Those(all, S) = Those(front, S) \o <<>>
    BY <1>2, <1>8
  <2>2. Those(front, S) \in Seq(X)
    BY <1>2, ThoseOf
  <2>3. \A u \in Seq(X) : u \o <<>> = u
    OBVIOUS
  <2>4. QED
    BY <2>1, <2>2, <2>3
<1> HIDE DEF all
<1>10. all \o back \in Seq(X) /\ Len(all \o back) = Len(s) + Len(t)
  <2>1. \A u, v \in Seq(X) : u \o v \in Seq(X) /\ Len(u \o v) = Len(u) + Len(v)
    OBVIOUS
  <2>2. Len(all \o back) = (p + Len(t)) + (Len(s) - p)
    BY <1>3, <1>7, <2>1
  <2>3. QED
    BY <1>1, <1>3, <1>7, <2>1, <2>2
<1>11. Those(all \o back, S) = Those(front, S) \o Those(back, S)
  BY <1>3, <1>7, <1>8, <1>9
<1>12. Those(front \o back, S) = Those(front, S) \o Those(back, S)
  BY <1>2, <1>3, <1>8
<1>13. QED
  BY <1>6, <1>10, <1>11, <1>12 DEF all, front, back, Spliced
=============================================================================
