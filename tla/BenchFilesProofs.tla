-------------------------- MODULE BenchFilesProofs --------------------------
(***************************************************************************)
(* What eo-bench-merge computes, for any files: the loops of mergeChunks   *)
(* add, join and collect what they should, summaries have nearest ranks,   *)
(* and a merge of files that stand for runs stands for all those runs.     *)
(***************************************************************************)
EXTENDS BenchFiles, FiniteSetTheorems, WellFoundedInduction, TLAPS

-----------------------------------------------------------------------------
(* Loops.  The passes of mergeChunks are recursive functions here.         *)

(* Induction over the natural numbers, for sets. *)
LEMMA NatInduct ==
    ASSUME NEW S, 0 \in S, \A n \in Nat : n \in S => n + 1 \in S
    PROVE  Nat \subseteq S
<1> DEFINE L == Nat \ S
           Less == {ss \in Nat \X Nat : ss[1] < ss[2]}
<1> SUFFICES ASSUME L # {} PROVE FALSE
  OBVIOUS
<1>1. IsWellFoundedOn(Less, Nat)
  BY NatLessThanWellFounded, ZenonT(30) DEF OpToRel
<1>2. \A x, y \in Nat : y < x => <<y, x>> \in Less
  OBVIOUS
<1>3. L \subseteq Nat
  OBVIOUS
<1> HIDE DEF Less
<1>4. PICK m \in L : \A y \in L : <<y, m>> \notin Less
  BY <1>1, <1>3, WFMin, ZenonT(30)
<1>5. \A y \in L : ~(y < m)
  BY <1>2, <1>3, <1>4, ZenonT(30)
<1>6. m \in Nat \ {0} /\ m - 1 \in Nat /\ m - 1 \notin L
  BY <1>3, <1>4, <1>5
<1> QED BY <1>4, <1>6

(* Up to a bound. *)
LEMMA UpInduct ==
    ASSUME NEW n \in Nat, NEW S, 0 \in S, \A k \in 1 .. n : k - 1 \in S => k \in S
    PROVE  0 .. n \subseteq S
<1> DEFINE T == {k \in Nat : k <= n => k \in S}
<1>1. 0 \in T
  OBVIOUS
<1>2. ASSUME NEW k \in Nat, k \in T PROVE k + 1 \in T
  <2>1. k + 1 <= n => k + 1 \in 1 .. n /\ (k + 1) - 1 = k /\ k \in S
    BY <1>2
  <2> QED BY <2>1
<1> HIDE DEF T
<1>3. Nat \subseteq T
  BY <1>1, <1>2, NatInduct
<1> QED BY <1>3 DEF T

(* A loop of n rounds that starts with a and makes x into h[k][x] in the   *)
(* k-th.                                                                   *)
Loops(f, n, a, h) == f[0] = a /\ \A k \in 1 .. n : f[k] = h[k][f[k - 1]]

(* There is such a function, and it is the one the recursion defines. *)
LEMMA LoopExists ==
    ASSUME NEW A, NEW a \in A, NEW n \in Nat, NEW h \in [1 .. n -> [A -> A]]
    PROVE  \E f \in [0 .. n -> A] : Loops(f, n, a, h)
<1> DEFINE S == {m \in 0 .. n : \E f \in [0 .. m -> A] : Loops(f, m, a, h)}
<1>1. 0 \in S
  <2> DEFINE f == [k \in 0 .. 0 |-> a]
  <2>1. f \in [0 .. 0 -> A] /\ Loops(f, 0, a, h)
    BY DEF Loops
  <2> QED BY <2>1
<1>2. ASSUME NEW m \in 1 .. n, m - 1 \in S PROVE m \in S
  <2>1. PICK f \in [0 .. m - 1 -> A] : Loops(f, m - 1, a, h)
    BY <1>2
  <2> DEFINE g == [k \in 0 .. m |-> IF k = m THEN h[m][f[m - 1]] ELSE f[k]]
  <2>2. f[m - 1] \in A /\ h[m][f[m - 1]] \in A
    OBVIOUS
  <2>3. g \in [0 .. m -> A]
    BY <2>2
  <2>4. g[m] = h[m][f[m - 1]] /\ \A k \in 0 .. m - 1 : g[k] = f[k]
    OBVIOUS
  <2> HIDE DEF g
  <2>5. g[0] = a
    BY <2>1, <2>4 DEF Loops
  <2>6. ASSUME NEW k \in 1 .. m PROVE g[k] = h[k][g[k - 1]]
    <3>1. k - 1 \in 0 .. m - 1 /\ (k = m \/ (k \in 0 .. m - 1 /\ k \in 1 .. m - 1))
      OBVIOUS
    <3>2. CASE k = m
      BY <2>4, <3>1, <3>2, ZenonT(30)
    <3>3. CASE k # m
      BY <2>1, <2>4, <3>1, <3>3, ZenonT(30) DEF Loops
    <3> QED BY <3>2, <3>3
  <2>7. Loops(g, m, a, h)
    BY <2>5, <2>6, ZenonT(30) DEF Loops
  <2> QED BY <2>3, <2>7
<1> HIDE DEF S
<1>3. 0 .. n \subseteq S
  BY <1>1, <1>2, UpInduct, ZenonT(30)
<1>4. n \in S
  BY <1>3
<1> QED BY <1>4 DEF S

-----------------------------------------------------------------------------
(* Sums.                                                                   *)

(* The partial sums of v. *)
Partial(s, v) ==
    /\ s \in [0 .. Len(v) -> Nat] /\ s[0] = 0
    /\ \A k \in 1 .. Len(v) : s[k] = s[k - 1] + v[k]

(* Added goes through the partial sums of its sequence and returns the     *)
(* last of them.                                                           *)
LEMMA AddedPartial ==
    ASSUME NEW v \in Seq(Nat)
    PROVE  \E s : Partial(s, v) /\ Added(v) = s[Len(v)]
<1> DEFINE n == Len(v)
           h == [k \in 1 .. n |-> [x \in Nat |-> x + v[k]]]
           Rec(s) == s = [k \in 0 .. n |-> IF k = 0 THEN 0 ELSE s[k - 1] + v[k]]
           c == CHOOSE s : Rec(s)
<1>1. n \in Nat /\ \A k \in 1 .. n : v[k] \in Nat
  OBVIOUS
<1> HIDE DEF n
<1>2. h \in [1 .. n -> [Nat -> Nat]] /\ \A k \in 1 .. n, x \in Nat : h[k][x] = x + v[k]
  BY <1>1
<1> HIDE DEF h
<1>3. PICK s \in [0 .. n -> Nat] : Loops(s, n, 0, h)
  BY <1>1, <1>2, LoopExists, ZenonT(30)
<1>4. ASSUME NEW k \in 1 .. n PROVE s[k] = s[k - 1] + v[k]
  <2>1. k - 1 \in 0 .. n
    BY <1>1
  <2> QED BY <1>2, <1>3, <2>1, ZenonT(30) DEF Loops
<1>5. s[0] = 0
  BY <1>3 DEF Loops
<1>6. Rec(s)
  <2>1. \A k \in 0 .. n : s[k] = IF k = 0 THEN 0 ELSE s[k - 1] + v[k]
    BY <1>1, <1>4, <1>5
  <2> QED BY <2>1
<1>7. Rec(c)
  <2> HIDE DEF Rec
  <2> QED BY <1>6, ZenonT(30)
<1> HIDE DEF c
<1>8. c[0] = 0 /\ \A k \in 1 .. n : c[k] = c[k - 1] + v[k]
  <2>1. \A k \in 0 .. n : c[k] = IF k = 0 THEN 0 ELSE c[k - 1] + v[k]
    BY <1>7, ZenonT(30)
  <2>2. 0 \in 0 .. n /\ \A k \in 1 .. n : k \in 0 .. n /\ k # 0
    BY <1>1
  <2> QED BY <2>1, <2>2, ZenonT(30)
<1>9. n \in 0 .. n
  BY <1>1
<1>10. \A k \in 0 .. n : c[k] = s[k]
  <2> DEFINE S == {k \in 0 .. n : c[k] = s[k]}
  <2>1. 0 \in S
    BY <1>1, <1>5, <1>8
  <2>2. \A k \in 1 .. n : k - 1 \in S => k \in S
    BY <1>1, <1>4, <1>8
  <2> HIDE DEF S
  <2>3. 0 .. n \subseteq S
    BY <1>1, <2>1, <2>2, UpInduct, ZenonT(30)
  <2> QED BY <2>3 DEF S
<1>11. Added(v) = c[n]
  BY ZenonT(30) DEF Added, c, n
<1> QED
  BY <1>3, <1>4, <1>5, <1>9, <1>10, <1>11, ZenonT(30) DEF Partial, n

(* A sum of counts is a count. *)
LEMMA AddedType ==
    ASSUME NEW v \in Seq(Nat) PROVE Added(v) \in Nat
<1>1. PICK s : Partial(s, v) /\ Added(v) = s[Len(v)]
  BY AddedPartial
<1>2. Len(v) \in 0 .. Len(v)
  OBVIOUS
<1> QED BY <1>1, <1>2, ZenonT(30) DEF Partial

(* Sums are added pointwise. *)
LEMMA AddedPointwise ==
    ASSUME NEW u \in Seq(Nat), NEW v \in Seq(Nat), NEW w \in Seq(Nat),
           Len(v) = Len(u), Len(w) = Len(u),
           \A k \in 1 .. Len(u) : w[k] = u[k] + v[k]
    PROVE  Added(w) = Added(u) + Added(v)
<1>1. PICK a : Partial(a, u) /\ Added(u) = a[Len(u)]
  BY AddedPartial
<1>2. PICK b : Partial(b, v) /\ Added(v) = b[Len(u)]
  BY AddedPartial
<1>3. PICK c : Partial(c, w) /\ Added(w) = c[Len(u)]
  BY AddedPartial
<1> DEFINE n == Len(u)
           S == {k \in 0 .. n : c[k] = a[k] + b[k]}
<1>4. n \in Nat /\ \A k \in 1 .. n : u[k] \in Nat /\ v[k] \in Nat
  OBVIOUS
<1>5. /\ a \in [0 .. n -> Nat] /\ b \in [0 .. n -> Nat] /\ c \in [0 .. n -> Nat]
      /\ a[0] = 0 /\ b[0] = 0 /\ c[0] = 0
      /\ \A k \in 1 .. n : /\ a[k] = a[k - 1] + u[k] /\ b[k] = b[k - 1] + v[k]
                           /\ c[k] = c[k - 1] + (u[k] + v[k])
  BY <1>1, <1>2, <1>3, ZenonT(30) DEF Partial
<1> HIDE DEF n
<1>6. 0 \in S
  BY <1>4, <1>5
<1>7. \A k \in 1 .. n : k - 1 \in S => k \in S
  <2> SUFFICES ASSUME NEW k \in 1 .. n, k - 1 \in S PROVE k \in S
    OBVIOUS
  <2>0. k \in 0 .. n /\ k - 1 \in 0 .. n
    BY <1>4
  <2>1. k \in 0 .. n /\ a[k - 1] \in Nat /\ b[k - 1] \in Nat /\ u[k] \in Nat /\ v[k] \in Nat
    BY <1>4, <1>5, <2>0, ZenonT(30)
  <2>2. /\ a[k] = a[k - 1] + u[k] /\ b[k] = b[k - 1] + v[k]
        /\ c[k] = c[k - 1] + (u[k] + v[k]) /\ c[k - 1] = a[k - 1] + b[k - 1]
    BY <1>5
  <2>3. (a[k - 1] + b[k - 1]) + (u[k] + v[k]) = (a[k - 1] + u[k]) + (b[k - 1] + v[k])
    <3> DEFINE x == a[k - 1]
               y == b[k - 1]
               p == u[k]
               q == v[k]
    <3>1. x \in Nat /\ y \in Nat /\ p \in Nat /\ q \in Nat
      BY <2>1, ZenonT(30)
    <3> HIDE DEF x, y, p, q
    <3>2. (x + y) + (p + q) = (x + p) + (y + q)
      BY <3>1
    <3> QED BY <3>2, ZenonT(30) DEF x, y, p, q
  <2>4. c[k] = a[k] + b[k]
    BY <2>2, <2>3, ZenonT(30)
  <2> QED BY <2>1, <2>4
<1> HIDE DEF S
<1>8. 0 .. n \subseteq S
  BY <1>4, <1>6, <1>7, UpInduct, ZenonT(30)
<1>9. n \in S
  BY <1>4, <1>8
<1> QED BY <1>1, <1>2, <1>3, <1>9 DEF S, n

(* No term is greater than the sum. *)
LEMMA AddedBounds ==
    ASSUME NEW v \in Seq(Nat), NEW j \in 1 .. Len(v)
    PROVE  v[j] <= Added(v)
<1>1. PICK s : Partial(s, v) /\ Added(v) = s[Len(v)]
  BY AddedPartial
<1> DEFINE n == Len(v)
           S == {k \in 0 .. n : j <= k => v[j] <= s[k]}
<1>2. n \in Nat /\ j \in 1 .. n /\ \A k \in 1 .. n : v[k] \in Nat
  OBVIOUS
<1>3. s \in [0 .. n -> Nat] /\ \A k \in 1 .. n : s[k] = s[k - 1] + v[k]
  BY <1>1 DEF Partial
<1> HIDE DEF n
<1>4. 0 \in S
  BY <1>2
<1>5. \A k \in 1 .. n : k - 1 \in S => k \in S
  <2> SUFFICES ASSUME NEW k \in 1 .. n, k - 1 \in S PROVE k \in S
    OBVIOUS
  <2>1. k \in 0 .. n /\ s[k - 1] \in Nat /\ v[k] \in Nat /\ v[j] \in Nat
    BY <1>2, <1>3
  <2>2. s[k] = s[k - 1] + v[k] /\ (j <= k - 1 => v[j] <= s[k - 1])
    BY <1>3
  <2>3. j <= k => v[j] <= s[k]
    <3>1. CASE j = k
      BY <2>1, <2>2, <3>1
    <3>2. CASE j # k
      BY <1>2, <2>1, <2>2, <3>2
    <3> QED BY <3>1, <3>2
  <2> QED BY <2>1, <2>3
<1> HIDE DEF S
<1>6. 0 .. n \subseteq S
  BY <1>2, <1>4, <1>5, UpInduct, ZenonT(30)
<1>7. n \in S
  BY <1>2, <1>6
<1> QED BY <1>1, <1>2, <1>7 DEF S, n

(* A sum with no term but one. *)
LEMMA AddedSingle ==
    ASSUME NEW v \in Seq(Nat), NEW j \in Nat,
           \A k \in 1 .. Len(v) : k # j => v[k] = 0
    PROVE  Added(v) = IF j \in 1 .. Len(v) THEN v[j] ELSE 0
<1>1. PICK s : Partial(s, v) /\ Added(v) = s[Len(v)]
  BY AddedPartial
<1> DEFINE n == Len(v)
           S == {k \in 0 .. n : s[k] = IF 0 < j /\ j <= k THEN v[j] ELSE 0}
<1>2. n \in Nat /\ \A k \in 1 .. n : v[k] \in Nat
  OBVIOUS
<1>3. s[0] = 0 /\ \A k \in 1 .. n : s[k] = s[k - 1] + v[k]
  BY <1>1 DEF Partial
<1> HIDE DEF n
<1>4. 0 \in S
  BY <1>2, <1>3
<1>5. \A k \in 1 .. n : k - 1 \in S => k \in S
  <2> SUFFICES ASSUME NEW k \in 1 .. n, k - 1 \in S PROVE k \in S
    OBVIOUS
  <2>1. k \in 0 .. n /\ v[k] \in Nat /\ (k # j => v[k] = 0) /\ s[k] = s[k - 1] + v[k]
    BY <1>2, <1>3 DEF n
  <2>2. s[k - 1] = IF 0 < j /\ j <= k - 1 THEN v[j] ELSE 0
    OBVIOUS
  <2>3. 0 < j /\ j <= k - 1 => v[j] \in Nat
    BY <1>2
  <2> QED BY <1>2, <2>1, <2>2, <2>3
<1> HIDE DEF S
<1>6. 0 .. n \subseteq S
  BY <1>2, <1>4, <1>5, UpInduct, ZenonT(30)
<1>7. n \in S
  BY <1>2, <1>6
<1> QED BY <1>1, <1>2, <1>7 DEF S, n

(* The sum over two sequences, one after the other. *)
LEMMA AddedConcat ==
    ASSUME NEW u \in Seq(Nat), NEW v \in Seq(Nat)
    PROVE  Added(u \o v) = Added(u) + Added(v)
<1> DEFINE w == u \o v
           m == Len(u)
           n == Len(v)
<1>0. w \in Seq(Nat) /\ m \in Nat /\ n \in Nat /\ Len(w) = m + n
      /\ (\A k \in 1 .. m : w[k] = u[k] /\ u[k] \in Nat)
      /\ (\A k \in 1 .. n : w[m + k] = v[k] /\ v[k] \in Nat)
  OBVIOUS
<1> HIDE DEF w
<1>1. PICK a : Partial(a, u) /\ Added(u) = a[m]
  BY AddedPartial
<1>2. PICK b : Partial(b, v) /\ Added(v) = b[n]
  BY AddedPartial
<1>3. PICK c : Partial(c, w) /\ Added(w) = c[m + n]
  BY <1>0, AddedPartial, ZenonT(30)
<1>4. a[0] = 0 /\ \A k \in 1 .. m : a[k] = a[k - 1] + u[k]
  BY <1>1 DEF Partial
<1>5. b[0] = 0 /\ b \in [0 .. n -> Nat] /\ \A k \in 1 .. n : b[k] = b[k - 1] + v[k]
  BY <1>2 DEF Partial
<1>6. c[0] = 0 /\ \A k \in 1 .. m + n : c[k] = c[k - 1] + w[k]
  BY <1>0, <1>3, ZenonT(30) DEF Partial
<1>7. a \in [0 .. m -> Nat]
  BY <1>1 DEF Partial
<1> HIDE DEF m, n
<1>8. c[m] = a[m] /\ a[m] \in Nat
  <2> DEFINE S == {k \in 0 .. m : c[k] = a[k]}
  <2>1. 0 \in S
    BY <1>0, <1>4, <1>6
  <2>2. \A k \in 1 .. m : k - 1 \in S => k \in S
    <3> SUFFICES ASSUME NEW k \in 1 .. m, k - 1 \in S PROVE k \in S
      BY ZenonT(30)
    <3>1. k \in 0 .. m /\ k \in 1 .. m + n
      BY <1>0
    <3> QED BY <1>0, <1>4, <1>6, <3>1
  <2> HIDE DEF S
  <2>3. 0 .. m \subseteq S
    BY <1>0, <2>1, <2>2, UpInduct, ZenonT(30)
  <2>4. m \in S /\ m \in 0 .. m
    BY <1>0, <2>3
  <2> QED BY <1>7, <2>4 DEF S
<1>9. c[m + n] = a[m] + b[n]
  <2> DEFINE S == {k \in 0 .. n : c[m + k] = a[m] + b[k]}
  <2>1. 0 \in S
    BY <1>0, <1>5, <1>8
  <2>2. \A k \in 1 .. n : k - 1 \in S => k \in S
    <3> SUFFICES ASSUME NEW k \in 1 .. n, k - 1 \in S PROVE k \in S
      OBVIOUS
    <3>1. k \in 0 .. n /\ m + k \in 1 .. m + n /\ (m + k) - 1 = m + (k - 1)
      BY <1>0
    <3>2. c[m + k] = c[m + (k - 1)] + v[k] /\ b[k] = b[k - 1] + v[k]
      BY <1>0, <1>5, <1>6, <3>1, ZenonT(30)
    <3>3. b[k - 1] \in Nat /\ v[k] \in Nat /\ c[m + (k - 1)] = a[m] + b[k - 1]
      BY <1>0, <1>5
    <3> QED BY <1>8, <3>1, <3>2, <3>3
  <2> HIDE DEF S
  <2>3. 0 .. n \subseteq S
    BY <1>0, <2>1, <2>2, UpInduct, ZenonT(30)
  <2>4. n \in S
    BY <1>0, <2>3
  <2> QED BY <2>4 DEF S
<1> QED BY <1>1, <1>2, <1>3, <1>8, <1>9 DEF w

-----------------------------------------------------------------------------
(* Joined.                                                             *)

(* What has been gathered after each of the sequences ss. *)
Gathers(g, ss) ==
    g[0] = <<>> /\ \A k \in 1 .. Len(ss) : g[k] = g[k - 1] \o ss[k]

(* Joined goes through the sequences and appends one after the other. *)
LEMMA JoinGathers ==
    ASSUME NEW X, NEW ss \in Seq(Seq(X))
    PROVE  \E g \in [0 .. Len(ss) -> Seq(X)] :
              Gathers(g, ss) /\ Joined(ss) = g[Len(ss)]
<1> DEFINE n == Len(ss)
           h == [k \in 1 .. n |-> [x \in Seq(X) |-> x \o ss[k]]]
           Rec(s) == s = [k \in 0 .. n |-> IF k = 0 THEN <<>> ELSE s[k - 1] \o ss[k]]
           c == CHOOSE s : Rec(s)
<1>1. n \in Nat /\ (\A k \in 1 .. n : ss[k] \in Seq(X)) /\ (n = 0 => ss = <<>>)
  OBVIOUS
<1> HIDE DEF n
<1>2. h \in [1 .. n -> [Seq(X) -> Seq(X)]] /\ \A k \in 1 .. n, x \in Seq(X) : h[k][x] = x \o ss[k]
  <2>1. \A k \in 1 .. n, x \in Seq(X) : x \o ss[k] \in Seq(X)
    BY <1>1
  <2> QED BY <2>1, ZenonT(30)
<1> HIDE DEF h
<1>3. <<>> \in Seq(X) /\ \A x \in Seq(X) : <<>> \o x = x
  OBVIOUS
<1>4. PICK g \in [0 .. n -> Seq(X)] : Loops(g, n, <<>>, h)
  BY <1>1, <1>2, <1>3, LoopExists, ZenonT(30)
<1>5. ASSUME NEW k \in 1 .. n PROVE g[k] = g[k - 1] \o ss[k]
  <2>1. k - 1 \in 0 .. n
    BY <1>1
  <2> QED BY <1>2, <1>4, <2>1, ZenonT(30) DEF Loops
<1>6. g[0] = <<>>
  BY <1>4 DEF Loops
<1>7. Joined(ss) = g[n]
  <2>0. /\ 0 \in 0 .. n /\ n \in 0 .. n /\ \A k \in 1 .. n : k \in 0 .. n /\ k # 0
        /\ \A k \in 0 .. n : k = 0 \/ k \in 1 .. n
    BY <1>1
  <2>1. Rec(g)
    <3>1. \A k \in 0 .. n : g[k] = IF k = 0 THEN <<>> ELSE g[k - 1] \o ss[k]
      BY <1>5, <1>6, <2>0, ZenonT(30)
    <3> QED BY <1>4, <3>1, ZenonT(30)
  <2>2. Rec(c)
    <3> HIDE DEF Rec
    <3> QED BY <2>1, ZenonT(30)
  <2> HIDE DEF c
  <2>3. c[0] = <<>> /\ \A k \in 1 .. n : c[k] = c[k - 1] \o ss[k]
    <3>1. \A k \in 0 .. n : c[k] = IF k = 0 THEN <<>> ELSE c[k - 1] \o ss[k]
      BY <2>2, ZenonT(30)
    <3> QED BY <2>0, <3>1, ZenonT(30)
  <2> DEFINE S == {k \in 0 .. n : c[k] = g[k]}
  <2>4. 0 \in S
    BY <1>6, <2>0, <2>3, ZenonT(30)
  <2>5. \A k \in 1 .. n : k - 1 \in S => k \in S
    BY <1>5, <2>0, <2>3, ZenonT(30)
  <2> HIDE DEF S
  <2>6. 0 .. n \subseteq S
    BY <1>1, <2>4, <2>5, UpInduct, ZenonT(30)
  <2>7. c[n] = g[n]
    BY <2>0, <2>6, ZenonT(30) DEF S
  <2>8. Joined(ss) = c[n]
    BY ZenonT(30) DEF Joined, c, n
  <2> QED BY <2>7, <2>8
<1> QED BY <1>4, <1>5, <1>6, <1>7, ZenonT(30) DEF Gathers, n

(* A concatenation holds what its two parts hold. *)
LEMMA ConcatItems ==
    ASSUME NEW X, NEW s \in Seq(X), NEW t \in Seq(X)
    PROVE  s \o t \in Seq(X) /\ Range(s \o t) = Range(s) \cup Range(t)
<1> DEFINE m == Len(s)
           n == Len(t)
           w == s \o t
<1>1. m \in Nat /\ n \in Nat /\ w \in Seq(X) /\ DOMAIN w = 1 .. m + n
      /\ DOMAIN s = 1 .. m /\ DOMAIN t = 1 .. n
      /\ \A k \in 1 .. m + n : w[k] = IF k <= m THEN s[k] ELSE t[k - m]
  OBVIOUS
<1> HIDE DEF m, n, w
<1>2. \A k \in 1 .. m + n : IF k <= m THEN k \in 1 .. m ELSE k - m \in 1 .. n
  BY <1>1
<1>3. \A k \in 1 .. m : k \in 1 .. m + n /\ k <= m
  BY <1>1
<1>4. \A k \in 1 .. n : m + k \in 1 .. m + n /\ ~(m + k <= m) /\ (m + k) - m = k
  BY <1>1
<1>5. Range(w) \subseteq Range(s) \cup Range(t)
  BY <1>1, <1>2, ZenonT(30) DEF Range
<1>6. Range(s) \subseteq Range(w)
  BY <1>1, <1>3, ZenonT(30) DEF Range
<1>7. Range(t) \subseteq Range(w)
  <2> SUFFICES ASSUME NEW k \in 1 .. n PROVE \E l \in 1 .. m + n : w[l] = t[k]
    BY <1>1, ZenonT(30) DEF Range
  <2>1. w[m + k] = t[k]
    BY <1>1, <1>4, ZenonT(30)
  <2> QED BY <1>4, <2>1, ZenonT(30)
<1> QED BY <1>1, <1>5, <1>6, <1>7, ZenonT(30) DEF w

(* What mergeChunks joins is what the sequences hold, no more and no less. *)
LEMMA JoinItems ==
    ASSUME NEW X, NEW ss \in Seq(Seq(X))
    PROVE  /\ Joined(ss) \in Seq(X)
           /\ Range(Joined(ss)) = UNION {Range(ss[k]) : k \in DOMAIN ss}
<1>1. PICK g \in [0 .. Len(ss) -> Seq(X)] : Gathers(g, ss) /\ Joined(ss) = g[Len(ss)]
  BY JoinGathers, ZenonT(30)
<1> DEFINE n == Len(ss)
           U(m) == UNION {Range(ss[k]) : k \in 1 .. m}
           S == {m \in 0 .. n : Range(g[m]) = U(m)}
<1>2. n \in Nat /\ DOMAIN ss = 1 .. n /\ n \in 0 .. n /\ 0 \in 0 .. n
  OBVIOUS
<1>3. \A k \in 1 .. n : k - 1 \in 0 .. n /\ k \in 0 .. n /\ ss[k] \in Seq(X)
  OBVIOUS
<1>4. g[0] = <<>> /\ \A k \in 1 .. n : g[k] = g[k - 1] \o ss[k]
  BY <1>1, ZenonT(30) DEF Gathers
<1> HIDE DEF n
<1>5. 0 \in S
  <2>1. DOMAIN g[0] = {} /\ 1 .. 0 = {}
    BY <1>4
  <2> QED BY <1>2, <2>1, ZenonT(30) DEF Range
<1>6. ASSUME NEW k \in 1 .. n, k - 1 \in S PROVE k \in S
  <2>0. g[k - 1] \in Seq(X) /\ ss[k] \in Seq(X)
    BY <1>1, <1>3, ZenonT(30) DEF n
  <2>1. Range(g[k]) = Range(g[k - 1]) \cup Range(ss[k])
    <3>1. Range(g[k - 1] \o ss[k]) = Range(g[k - 1]) \cup Range(ss[k])
      BY <2>0, ConcatItems, ZenonT(30)
    <3> QED BY <1>4, <3>1, ZenonT(30)
  <2>2. \A j : j \in 1 .. k <=> (j \in 1 .. k - 1 \/ j = k)
    BY <1>2
  <2>3. U(k) = U(k - 1) \cup Range(ss[k])
    BY <2>2, ZenonT(30)
  <2> HIDE DEF U
  <2> QED BY <1>3, <1>6, <2>1, <2>3, ZenonT(30)
<1> HIDE DEF S
<1>7. 0 .. n \subseteq S
  BY <1>2, <1>5, <1>6, UpInduct, ZenonT(30)
<1>8. Range(g[n]) = U(n) /\ g[n] \in Seq(X)
  BY <1>1, <1>2, <1>7, ZenonT(30) DEF S, n
<1> QED BY <1>1, <1>2, <1>8, ZenonT(30) DEF n

(* Two sequences, one after the other. *)
LEMMA ConcatAt ==
    ASSUME NEW X, NEW s \in Seq(X), NEW t \in Seq(X)
    PROVE  /\ s \o t \in Seq(X) /\ Len(s \o t) = Len(s) + Len(t)
           /\ \A k \in 1 .. Len(s) + Len(t) :
                /\ k <= Len(s) => k \in 1 .. Len(s) /\ (s \o t)[k] = s[k]
                /\ ~(k <= Len(s)) =>
                      k - Len(s) \in 1 .. Len(t) /\ (s \o t)[k] = t[k - Len(s)]
  OBVIOUS

(* Two sequences of one length with the same entries are the same. *)
LEMMA SameSeq ==
    ASSUME NEW X, NEW s \in Seq(X), NEW t \in Seq(X), Len(s) = Len(t),
           \A k \in 1 .. Len(s) : s[k] = t[k]
    PROVE  s = t
  OBVIOUS

(* The sum of a weight over the elements of a sequence. *)
Weight(w, X) == w \in [X -> Nat]
Weighed(s, w) == [k \in DOMAIN s |-> w[s[k]]]
SumW(s, w) == Added(Weighed(s, w))

ReadsAs(v, s, w) ==
    /\ v \in Seq(Nat) /\ Len(v) = Len(s)
    /\ \A k \in 1 .. Len(s) : v[k] = w[s[k]]

(* The weights of a sequence are counts, one for each entry, and so is     *)
(* their sum.                                                              *)
LEMMA Weights ==
    ASSUME NEW X, NEW w, Weight(w, X), NEW s \in Seq(X)
    PROVE  ReadsAs(Weighed(s, w), s, w) /\ SumW(s, w) \in Nat
<1> DEFINE v == Weighed(s, w)
<1>1. DOMAIN s = 1 .. Len(s) /\ Len(s) \in Nat /\ \A k \in 1 .. Len(s) : s[k] \in X
  OBVIOUS
<1>2. v \in [1 .. Len(s) -> Nat] /\ \A k \in 1 .. Len(s) : v[k] = w[s[k]]
  BY <1>1, ZenonT(30) DEF Weight, Weighed
<1> HIDE DEF v
<1>3. v \in Seq(Nat) /\ Len(v) = Len(s)
  BY <1>1, <1>2
<1>4. Added(v) \in Nat
  BY <1>3, AddedType, ZenonT(30)
<1> QED BY <1>1, <1>2, <1>3, <1>4, ZenonT(30) DEF SumW, ReadsAs, v

(* The weights of a concatenation are those of its parts, in order. *)
LEMMA ReadsConcat ==
    ASSUME NEW X, NEW w, Weight(w, X), NEW s \in Seq(X), NEW t \in Seq(X)
    PROVE  Weighed(s \o t, w) = Weighed(s, w) \o Weighed(t, w)
<1> DEFINE st == s \o t
           a == Weighed(s, w)
           b == Weighed(t, w)
           c == Weighed(st, w)
           d == a \o b
           m == Len(s)
           n == Len(t)
<1>0. ReadsAs(a, s, w) /\ ReadsAs(b, t, w) /\ ReadsAs(c, st, w)
  <2>1. st \in Seq(X)
    BY ConcatAt, ZenonT(30)
  <2> HIDE DEF st
  <2> QED BY <2>1, Weights, ZenonT(30)
<1> HIDE DEF a, b, c
<1>1. /\ a \in Seq(Nat) /\ b \in Seq(Nat) /\ c \in Seq(Nat)
      /\ Len(a) = m /\ Len(b) = n /\ Len(c) = Len(st)
  BY <1>0, ZenonT(30) DEF ReadsAs
<1>2. /\ \A k \in 1 .. m : a[k] = w[s[k]]
      /\ \A k \in 1 .. n : b[k] = w[t[k]]
      /\ \A k \in 1 .. Len(st) : c[k] = w[st[k]]
  BY <1>0, ZenonT(30) DEF ReadsAs
<1>3. /\ Len(st) = m + n
      /\ \A k \in 1 .. m + n : /\ k <= m => k \in 1 .. m /\ st[k] = s[k]
                               /\ ~(k <= m) => k - m \in 1 .. n /\ st[k] = t[k - m]
  BY ConcatAt, ZenonT(30)
<1>4. /\ d \in Seq(Nat) /\ Len(d) = m + n
      /\ \A k \in 1 .. m + n : /\ k <= m => d[k] = a[k]
                               /\ ~(k <= m) => d[k] = b[k - m]
  <2>0. a \in Seq(Nat) /\ b \in Seq(Nat)
    BY <1>1, ZenonT(30)
  <2>1. /\ d \in Seq(Nat) /\ Len(d) = Len(a) + Len(b)
        /\ \A k \in 1 .. Len(a) + Len(b) :
              /\ k <= Len(a) => k \in 1 .. Len(a) /\ d[k] = a[k]
              /\ ~(k <= Len(a)) => k - Len(a) \in 1 .. Len(b) /\ d[k] = b[k - Len(a)]
    BY <2>0
  <2> HIDE DEF d, m, n
  <2> QED BY <1>1, <2>1
<1> HIDE DEF st, d, m, n
<1>5. ASSUME NEW k \in 1 .. m + n PROVE c[k] = d[k]
  <2>0. c[k] = w[st[k]]
    BY <1>2, <1>3
  <2>1. CASE k <= m
    <3>1. k \in 1 .. m /\ st[k] = s[k] /\ d[k] = a[k]
      BY <1>3, <1>4, <2>1
    <3> QED BY <1>2, <2>0, <3>1
  <2>2. CASE ~(k <= m)
    <3>1. k - m \in 1 .. n /\ st[k] = t[k - m] /\ d[k] = b[k - m]
      BY <1>3, <1>4, <2>2
    <3> QED BY <1>2, <2>0, <3>1
  <2> QED BY <2>1, <2>2
<1>6. c = d
  BY <1>1, <1>3, <1>4, <1>5, SameSeq, ZenonT(30)
<1> QED BY <1>6 DEF a, b, c, d, st

(* The weight of a concatenation is the weight of its parts added. *)
LEMMA ConcatSum ==
    ASSUME NEW X, NEW w, Weight(w, X), NEW s \in Seq(X), NEW t \in Seq(X)
    PROVE  SumW(s \o t, w) = SumW(s, w) + SumW(t, w)
<1> DEFINE a == Weighed(s, w)
           b == Weighed(t, w)
<1>1. ReadsAs(a, s, w) /\ ReadsAs(b, t, w)
  BY Weights, ZenonT(30)
<1>2. Weighed(s \o t, w) = a \o b
  BY ReadsConcat, ZenonT(30)
<1> HIDE DEF a, b
<1>3. a \in Seq(Nat) /\ b \in Seq(Nat)
  BY <1>1 DEF ReadsAs
<1>4. Added(a \o b) = Added(a) + Added(b)
  BY <1>3, AddedConcat, ZenonT(30)
<1> QED BY <1>2, <1>4, ZenonT(30) DEF SumW, a, b

(* The sum over what is gathered is the sum of the sums. *)
LEMMA JoinSum ==
    ASSUME NEW X, NEW w, Weight(w, X), NEW ss \in Seq(Seq(X))
    PROVE  /\ [k \in DOMAIN ss |-> SumW(ss[k], w)] \in Seq(Nat)
           /\ SumW(Joined(ss), w) = Added([k \in DOMAIN ss |-> SumW(ss[k], w)])
<1> DEFINE n == Len(ss)
           t == [k \in DOMAIN ss |-> SumW(ss[k], w)]
<1>1. n \in Nat /\ DOMAIN ss = 1 .. n /\ n \in 0 .. n /\ 0 \in 0 .. n
  OBVIOUS
<1>2. \A k \in 1 .. n : k - 1 \in 0 .. n /\ k \in 0 .. n /\ ss[k] \in Seq(X)
  OBVIOUS
<1>3. PICK g \in [0 .. n -> Seq(X)] : Gathers(g, ss) /\ Joined(ss) = g[n]
  BY JoinGathers, ZenonT(30)
<1>4. g[0] = <<>> /\ \A k \in 1 .. n : g[k] = g[k - 1] \o ss[k]
  BY <1>3, ZenonT(30) DEF Gathers
<1> HIDE DEF n
<1>5. t \in Seq(Nat) /\ Len(t) = n /\ \A k \in 1 .. n : t[k] = SumW(ss[k], w)
  <2>1. \A k \in 1 .. n : SumW(ss[k], w) \in Nat
    BY <1>2, Weights, ZenonT(30)
  <2>2. t \in [1 .. n -> Nat] /\ \A k \in 1 .. n : t[k] = SumW(ss[k], w)
    BY <1>1, <2>1, ZenonT(30)
  <2> HIDE DEF t
  <2>3. t \in Seq(Nat) /\ Len(t) = n
    BY <1>1, <2>2
  <2> QED BY <2>2, <2>3, ZenonT(30)
<1> HIDE DEF t
<1>6. PICK p : Partial(p, t) /\ Added(t) = p[n]
  BY <1>5, AddedPartial, ZenonT(30)
<1>7. p[0] = 0 /\ \A k \in 1 .. n : p[k] = p[k - 1] + t[k]
  BY <1>5, <1>6, ZenonT(30) DEF Partial
<1> DEFINE S == {m \in 0 .. n : SumW(g[m], w) = p[m]}
<1>8. 0 \in S
  <2>1. Weighed(g[0], w) = <<>>
    BY <1>4 DEF Weighed
  <2>2. SumW(g[0], w) = Added(<<>>)
    BY <2>1, ZenonT(30) DEF SumW
  <2>3. Added(<<>>) = 0
    <3>1. <<>> \in Seq(Nat) /\ Len(<<>>) = 0
      OBVIOUS
    <3> QED BY <3>1, AddedPartial, ZenonT(30) DEF Partial
  <2> QED BY <1>1, <1>7, <2>2, <2>3, ZenonT(30)
<1>9. ASSUME NEW k \in 1 .. n, k - 1 \in S PROVE k \in S
  <2>0. g[k - 1] \in Seq(X) /\ ss[k] \in Seq(X)
    BY <1>2, <1>3, ZenonT(30)
  <2>1. SumW(g[k - 1] \o ss[k], w) = SumW(g[k - 1], w) + SumW(ss[k], w)
    BY <2>0, ConcatSum, ZenonT(30)
  <2> QED BY <1>2, <1>4, <1>5, <1>7, <1>9, <2>1, ZenonT(30)
<1> HIDE DEF S
<1>10. 0 .. n \subseteq S
  BY <1>1, <1>8, <1>9, UpInduct, ZenonT(30)
<1>11. SumW(g[n], w) = p[n]
  BY <1>1, <1>10, ZenonT(30) DEF S
<1> QED BY <1>3, <1>5, <1>6, <1>11, ZenonT(30) DEF t

(* So with the lengths. *)
LEMMA JoinLen ==
    ASSUME NEW X, NEW ss \in Seq(Seq(X))
    PROVE  Len(Joined(ss)) = Added([k \in DOMAIN ss |-> Len(ss[k])])
<1> DEFINE n == Len(ss)
           t == [k \in DOMAIN ss |-> Len(ss[k])]
<1>1. n \in Nat /\ DOMAIN ss = 1 .. n /\ n \in 0 .. n /\ 0 \in 0 .. n
  OBVIOUS
<1>2. \A k \in 1 .. n : k - 1 \in 0 .. n /\ k \in 0 .. n /\ ss[k] \in Seq(X)
  OBVIOUS
<1>3. PICK g \in [0 .. n -> Seq(X)] : Gathers(g, ss) /\ Joined(ss) = g[n]
  BY JoinGathers, ZenonT(30)
<1>4. g[0] = <<>> /\ \A k \in 1 .. n : g[k] = g[k - 1] \o ss[k]
  BY <1>3, ZenonT(30) DEF Gathers
<1> HIDE DEF n
<1>5. t \in Seq(Nat) /\ Len(t) = n /\ \A k \in 1 .. n : t[k] = Len(ss[k])
  <2>1. \A k \in 1 .. n : Len(ss[k]) \in Nat
    BY <1>2
  <2>2. t \in [1 .. n -> Nat] /\ \A k \in 1 .. n : t[k] = Len(ss[k])
    BY <1>1, <2>1, ZenonT(30)
  <2> HIDE DEF t
  <2>3. t \in Seq(Nat) /\ Len(t) = n
    BY <1>1, <2>2
  <2> QED BY <2>2, <2>3, ZenonT(30)
<1> HIDE DEF t
<1>6. PICK p : Partial(p, t) /\ Added(t) = p[n]
  BY <1>5, AddedPartial, ZenonT(30)
<1>7. p[0] = 0 /\ \A k \in 1 .. n : p[k] = p[k - 1] + t[k]
  BY <1>5, <1>6, ZenonT(30) DEF Partial
<1> DEFINE S == {m \in 0 .. n : Len(g[m]) = p[m]}
<1>8. 0 \in S
  BY <1>1, <1>4, <1>7
<1>9. ASSUME NEW k \in 1 .. n, k - 1 \in S PROVE k \in S
  <2>0. g[k - 1] \in Seq(X) /\ ss[k] \in Seq(X)
    BY <1>2, <1>3, ZenonT(30)
  <2>1. Len(g[k - 1] \o ss[k]) = Len(g[k - 1]) + Len(ss[k])
    BY <2>0
  <2> QED BY <1>2, <1>4, <1>5, <1>7, <1>9, <2>1, ZenonT(30)
<1> HIDE DEF S
<1>10. 0 .. n \subseteq S
  BY <1>1, <1>8, <1>9, UpInduct, ZenonT(30)
<1>11. Len(g[n]) = p[n]
  BY <1>1, <1>10, ZenonT(30) DEF S
<1> QED BY <1>3, <1>6, <1>11, ZenonT(30) DEF t

-----------------------------------------------------------------------------
(* The order of the paths.                                                 *)

Paths == {"http", "grpc", "udp"}
Distinct(s) == \A j, k \in DOMAIN s : s[j] = s[k] => j = k
Seen(x, p) == IF p \in Range(x) THEN x ELSE Append(x, p)

(* A path is entered into pathOrder once. *)
LEMMA SeenGrows ==
    ASSUME NEW x \in Seq(Paths), Distinct(x), NEW p \in Paths
    PROVE  /\ Seen(x, p) \in Seq(Paths) /\ Distinct(Seen(x, p))
           /\ Range(Seen(x, p)) = Range(x) \cup {p}
<1>1. CASE p \in Range(x)
  BY <1>1, ZenonT(30) DEF Seen
<1>2. CASE p \notin Range(x)
  <2> DEFINE y == Append(x, p)
             n == Len(x)
  <2>1. n \in Nat /\ DOMAIN x = 1 .. n /\ DOMAIN y = 1 .. n + 1 /\ y \in Seq(Paths)
        /\ y[n + 1] = p /\ \A k \in 1 .. n : y[k] = x[k]
    OBVIOUS
  <2>2. Seen(x, p) = y
    BY <1>2, ZenonT(30) DEF Seen
  <2> HIDE DEF y, n
  <2>3. \A k : k \in 1 .. n + 1 <=> (k \in 1 .. n \/ k = n + 1)
    BY <2>1
  <2>4. \A k \in 1 .. n : x[k] # p
    BY <1>2, <2>1, ZenonT(30) DEF Range
  <2>5. Distinct(y)
    <3> SUFFICES ASSUME NEW j \in 1 .. n + 1, NEW k \in 1 .. n + 1, y[j] = y[k] PROVE j = k
      BY <2>1, ZenonT(30) DEF Distinct
    <3>1. CASE j = n + 1 /\ k = n + 1
      BY <3>1
    <3>2. CASE j \in 1 .. n /\ k \in 1 .. n
      BY <2>1, <3>2, ZenonT(30) DEF Distinct
    <3>3. CASE j = n + 1 /\ k \in 1 .. n
      BY <2>1, <2>4, <3>3, ZenonT(30)
    <3>4. CASE k = n + 1 /\ j \in 1 .. n
      BY <2>1, <2>4, <3>4, ZenonT(30)
    <3> QED BY <2>3, <3>1, <3>2, <3>3, <3>4, ZenonT(30)
  <2>6. Range(y) = Range(x) \cup {p}
    BY <2>1, <2>3, ZenonT(30) DEF Range
  <2> QED BY <2>1, <2>2, <2>5, <2>6, ZenonT(30)
<1> QED BY <1>1, <1>2

(* Every path once. *)
LEMMA OrderedPaths ==
    ASSUME NEW cs, AllResults(cs) \in Seq(Reports)
    PROVE  /\ PathOrder(cs) \in Seq(Paths) /\ Distinct(PathOrder(cs))
           /\ Range(PathOrder(cs)) = {r.path : r \in Range(AllResults(cs))}
<1> DEFINE rs == AllResults(cs)
           n == Len(rs)
           h == [k \in 1 .. n |-> [x \in Seq(Paths) |-> Seen(x, rs[k].path)]]
           Rec(s) == s = [k \in 0 .. n |->
                            IF k = 0 THEN <<>>
                            ELSE IF rs[k].path \in Range(s[k - 1]) THEN s[k - 1]
                                 ELSE Append(s[k - 1], rs[k].path)]
           c == CHOOSE s : Rec(s)
<1>1. n \in Nat /\ DOMAIN rs = 1 .. n /\ \A k \in 1 .. n : rs[k] \in Reports
  OBVIOUS
<1>2. \A k \in 1 .. n : rs[k].path \in Paths
  <2>1. \A r \in Reports : r.path \in Paths
    BY DEF Reports, Paths
  <2> QED BY <1>1, <2>1, ZenonT(30)
<1> HIDE DEF rs, n
<1>3. h \in [1 .. n -> [Seq(Paths) -> Seq(Paths)]]
      /\ \A k \in 1 .. n, x \in Seq(Paths) : h[k][x] = Seen(x, rs[k].path)
  <2>1. \A k \in 1 .. n, x \in Seq(Paths) : Seen(x, rs[k].path) \in Seq(Paths)
    <3>1. \A x \in Seq(Paths), p \in Paths : Append(x, p) \in Seq(Paths)
      OBVIOUS
    <3> QED BY <1>2, <3>1, ZenonT(30) DEF Seen
  <2> QED BY <2>1, ZenonT(30)
<1> HIDE DEF h
<1>4. <<>> \in Seq(Paths) /\ DOMAIN <<>> = {}
  OBVIOUS
<1>5. PICK g \in [0 .. n -> Seq(Paths)] : Loops(g, n, <<>>, h)
  BY <1>1, <1>3, <1>4, LoopExists, ZenonT(30)
<1>6. g[0] = <<>> /\ \A k \in 1 .. n : g[k] = Seen(g[k - 1], rs[k].path)
  <2>1. \A k \in 1 .. n : k - 1 \in 0 .. n
    BY <1>1
  <2> QED BY <1>3, <1>5, <2>1, ZenonT(30) DEF Loops
<1>7. Rec(g)
  <2>1. \A k \in 0 .. n : k = 0 \/ k \in 1 .. n
    BY <1>1
  <2>2. ASSUME NEW k \in 0 .. n
        PROVE  g[k] = IF k = 0 THEN <<>>
                      ELSE IF rs[k].path \in Range(g[k - 1]) THEN g[k - 1]
                           ELSE Append(g[k - 1], rs[k].path)
    BY <1>6, <2>1, ZenonT(30) DEF Seen
  <2> QED BY <2>2, ZenonT(30)
<1>8. Rec(c)
  <2> HIDE DEF Rec
  <2> QED BY <1>7, ZenonT(30)
<1>9. PathOrder(cs) = c[n]
  BY ZenonT(30) DEF PathOrder, c, n, rs
<1> HIDE DEF c
<1>10. c[0] = <<>> /\ \A k \in 1 .. n : c[k] = Seen(c[k - 1], rs[k].path)
  <2>1. 0 \in 0 .. n /\ \A k \in 1 .. n : k \in 0 .. n /\ k # 0
    BY <1>1
  <2>2. \A k \in 0 .. n : c[k] = IF k = 0 THEN <<>>
                      ELSE IF rs[k].path \in Range(c[k - 1]) THEN c[k - 1]
                           ELSE Append(c[k - 1], rs[k].path)
    BY <1>8, ZenonT(30)
  <2> QED BY <2>1, <2>2, ZenonT(30) DEF Seen
<1> DEFINE U(m) == {rs[k].path : k \in 1 .. m}
           S == {m \in 0 .. n : /\ c[m] \in Seq(Paths) /\ Distinct(c[m])
                                /\ Range(c[m]) = U(m)}
<1>11. 0 \in S
  <2>1. 1 .. 0 = {} /\ 0 \in 0 .. n
    BY <1>1
  <2> QED BY <1>4, <1>10, <2>1, ZenonT(30) DEF Distinct, Range
<1>12. ASSUME NEW k \in 1 .. n, k - 1 \in S PROVE k \in S
  <2>1. k \in 0 .. n /\ \A j : j \in 1 .. k <=> (j \in 1 .. k - 1 \/ j = k)
    BY <1>1
  <2>2. U(k) = U(k - 1) \cup {rs[k].path}
    BY <2>1, ZenonT(30)
  <2> HIDE DEF U
  <2>3. c[k - 1] \in Seq(Paths) /\ Distinct(c[k - 1]) /\ Range(c[k - 1]) = U(k - 1)
    BY <1>12, ZenonT(30)
  <2>4. /\ c[k] \in Seq(Paths) /\ Distinct(c[k])
        /\ Range(c[k]) = Range(c[k - 1]) \cup {rs[k].path}
    BY <1>2, <1>10, <2>3, SeenGrows, ZenonT(30)
  <2> QED BY <2>1, <2>2, <2>3, <2>4, ZenonT(30)
<1> HIDE DEF S
<1>13. 0 .. n \subseteq S
  BY <1>1, <1>11, <1>12, UpInduct, ZenonT(30)
<1>14. n \in 0 .. n
  BY <1>1
<1>15. c[n] \in Seq(Paths) /\ Distinct(c[n]) /\ Range(c[n]) = U(n)
  BY <1>13, <1>14, ZenonT(30) DEF S
<1>16. U(n) = {r.path : r \in Range(rs)}
  BY <1>1, ZenonT(30) DEF Range
<1> QED BY <1>9, <1>15, <1>16, ZenonT(30) DEF rs

-----------------------------------------------------------------------------
(* Percentiles.                                                            *)

(* What sort.Float64s leaves: the samples, each once, in order. *)
Sorts(t, s) ==
    \E q \in [DOMAIN s -> DOMAIN s] :
       /\ \A x, y \in DOMAIN s : q[x] = q[y] => x = y
       /\ \A y \in DOMAIN s : \E x \in DOMAIN s : q[x] = y
       /\ t = [x \in DOMAIN s |-> s[q[x]]]
       /\ \A x, y \in DOMAIN s : x < y => t[x] <= t[y]

(* How many numbers there are up to n. *)
LEMMA UpTo ==
    ASSUME NEW n \in Nat
    PROVE  IsFiniteSet(1 .. n) /\ Cardinality(1 .. n) = n
<1>1. 1 \in Int /\ n \in Int /\ (1 > n => 0 = n) /\ n - 1 + 1 = n
  OBVIOUS
<1>2. IsFiniteSet(1 .. n) /\ Cardinality(1 .. n) = IF 1 > n THEN 0 ELSE n - 1 + 1
  BY <1>1, FS_Interval, ZenonT(30)
<1> QED BY <1>1, <1>2, ZenonT(30)

(* The order of sort.Float64s, made strict by the position. *)
Before(s, j, k) == s[j] < s[k] \/ (s[j] = s[k] /\ j <= k)

(* The places of sort.Float64s are within the slice, and an earlier sample *)
(* has a smaller one.                                                      *)
LEMMA Places ==
    ASSUME NEW n \in Nat, NEW s \in [1 .. n -> Int]
    PROVE  /\ \A k \in 1 .. n : Place(s, k) \in 1 .. n
           /\ \A j, k \in 1 .. n : j # k /\ Before(s, j, k) => Place(s, j) < Place(s, k)
<1> DEFINE B(k) == {j \in 1 .. n : Before(s, j, k)}
<1>1. \A k \in 1 .. n : Place(s, k) = Cardinality(B(k))
  <2>1. DOMAIN s = 1 .. n
    OBVIOUS
  <2> QED BY <2>1, ZenonT(30) DEF Place, Before
<1>2. \A k \in 1 .. n : B(k) \in SUBSET (1 .. n) /\ k \in B(k)
  BY DEF Before
<1>3. \A j, k \in 1 .. n : j # k /\ Before(s, j, k) => B(j) \in SUBSET B(k) /\ k \notin B(j)
  <2> SUFFICES ASSUME NEW j \in 1 .. n, NEW k \in 1 .. n, j # k, Before(s, j, k)
               PROVE  k \notin B(j) /\ \A l \in B(j) : l \in B(k)
    BY ZenonT(30)
  <2>1. s[j] \in Int /\ s[k] \in Int /\ j \in Int /\ k \in Int
    OBVIOUS
  <2>2. ~Before(s, k, j)
    BY <2>1 DEF Before
  <2>3. ASSUME NEW l \in 1 .. n, Before(s, l, j) PROVE Before(s, l, k)
    <3>1. s[l] \in Int /\ l \in Int
      OBVIOUS
    <3> QED BY <2>1, <2>3, <3>1 DEF Before
  <2> QED BY <2>2, <2>3, ZenonT(30)
<1> HIDE DEF B
<1>4. IsFiniteSet(1 .. n) /\ Cardinality(1 .. n) = n
  BY UpTo, ZenonT(30)
<1>5. \A k \in 1 .. n : IsFiniteSet(B(k)) /\ Cardinality(B(k)) <= Cardinality(1 .. n)
  BY <1>2, <1>4, FS_Subset, ZenonT(30)
<1>6. \A k \in 1 .. n : Cardinality(B(k)) \in Nat
  BY <1>5, FS_CardinalityType, ZenonT(30)
<1>7. \A k \in 1 .. n : Cardinality(B(k)) # 0
  BY <1>2, <1>5, FS_EmptySet, ZenonT(30)
<1>8. \A k \in 1 .. n : Place(s, k) \in 1 .. n
  <2> SUFFICES ASSUME NEW k \in 1 .. n PROVE Cardinality(B(k)) \in 1 .. n
    BY <1>1, ZenonT(30)
  <2>1. Cardinality(B(k)) \in Nat /\ Cardinality(B(k)) # 0 /\ Cardinality(B(k)) <= n
    BY <1>4, <1>5, <1>6, <1>7, ZenonT(30)
  <2> QED BY <2>1
<1>9. ASSUME NEW j \in 1 .. n, NEW k \in 1 .. n, j # k, Before(s, j, k)
      PROVE  Place(s, j) < Place(s, k)
  <2>1. B(j) \in SUBSET B(k) /\ B(j) # B(k)
    BY <1>2, <1>3, <1>9, ZenonT(30)
  <2>2. Cardinality(B(j)) <= Cardinality(B(k)) /\ Cardinality(B(k)) # Cardinality(B(j))
    BY <1>5, <2>1, FS_Subset, ZenonT(30)
  <2>3. Cardinality(B(j)) \in Nat /\ Cardinality(B(k)) \in Nat
    BY <1>6, ZenonT(30)
  <2>4. Cardinality(B(j)) < Cardinality(B(k))
    BY <2>2, <2>3
  <2> QED BY <1>1, <2>4, ZenonT(30)
<1> QED BY <1>8, <1>9, ZenonT(30)

(* Sorted puts every sample in a place of its own, in order. *)
LEMMA SortedSorts ==
    ASSUME NEW s \in Seq(Int) PROVE Sorts(Sorted(s), s)
<1> DEFINE n == Len(s)
           pl == [k \in 1 .. n |-> Place(s, k)]
           Q(p) == CHOOSE k \in DOMAIN s : Place(s, k) = p
           q == [p \in DOMAIN s |-> Q(p)]
           t == Sorted(s)
<1>1. n \in Nat /\ DOMAIN s = 1 .. n /\ s \in [1 .. n -> Int]
      /\ \A k \in 1 .. n : s[k] \in Int
  OBVIOUS
<1> HIDE DEF n
<1>2. /\ \A k \in 1 .. n : Place(s, k) \in 1 .. n
      /\ \A j, k \in 1 .. n : j # k /\ Before(s, j, k) => Place(s, j) < Place(s, k)
  BY <1>1, Places, ZenonT(30)
<1>3. \A j, k \in 1 .. n : Place(s, j) = Place(s, k) => j = k
  <2> SUFFICES ASSUME NEW j \in 1 .. n, NEW k \in 1 .. n, j # k PROVE Place(s, j) # Place(s, k)
    BY ZenonT(30)
  <2>1. Before(s, j, k) \/ Before(s, k, j)
    <3>1. s[j] \in Int /\ s[k] \in Int /\ j \in Int /\ k \in Int
      BY <1>1
    <3> QED BY <3>1 DEF Before
  <2>2. Place(s, j) < Place(s, k) \/ Place(s, k) < Place(s, j)
    BY <1>2, <2>1, ZenonT(30)
  <2>3. Place(s, j) \in 1 .. n /\ Place(s, k) \in 1 .. n
    BY <1>2, ZenonT(30)
  <2> QED BY <2>2, <2>3
<1>4. \A p \in 1 .. n : \E k \in 1 .. n : Place(s, k) = p
  <2>1. pl \in [1 .. n -> 1 .. n] /\ \A j, k \in 1 .. n : pl[j] = pl[k] => j = k
    BY <1>2, <1>3, ZenonT(30)
  <2>2. \A k \in 1 .. n : pl[k] = Place(s, k)
    BY ZenonT(30)
  <2> HIDE DEF pl
  <2>3. pl \in Injection(1 .. n, 1 .. n)
    BY <2>1, ZenonT(30) DEF Injection, IsInjective
  <2>4. IsFiniteSet(1 .. n)
    BY <1>1, UpTo, ZenonT(30)
  <2>5. pl \in Surjection(1 .. n, 1 .. n)
    BY <2>3, <2>4, FS_Injection, ZenonT(30)
  <2> QED BY <2>2, <2>5, ZenonT(30) DEF Surjection
<1>5. \A p \in 1 .. n : q[p] \in 1 .. n /\ Place(s, q[p]) = p
  <2> SUFFICES ASSUME NEW p \in 1 .. n PROVE q[p] \in 1 .. n /\ Place(s, q[p]) = p
    BY ZenonT(30)
  <2>1. q[p] = Q(p)
    BY <1>1, ZenonT(30)
  <2>2. Q(p) \in DOMAIN s /\ Place(s, Q(p)) = p
    BY <1>1, <1>4, ZenonT(30)
  <2> HIDE DEF q, Q
  <2> QED BY <1>1, <2>1, <2>2, ZenonT(30)
<1>6. t = [p \in 1 .. n |-> s[q[p]]]
  <2>1. t = [p \in DOMAIN s |-> s[Q(p)]]
    BY ZenonT(30) DEF Sorted
  <2>2. \A p \in DOMAIN s : q[p] = Q(p)
    BY ZenonT(30)
  <2> HIDE DEF q, t, Q
  <2> QED BY <1>1, <2>1, <2>2, ZenonT(30)
<1>7. q = [p \in 1 .. n |-> q[p]]
  <2>1. q = [p \in DOMAIN s |-> Q(p)]
    BY ZenonT(30)
  <2> HIDE DEF q, Q
  <2> QED BY <1>1, <2>1, ZenonT(30)
<1> HIDE DEF q, t, pl
<1>8. q \in [1 .. n -> 1 .. n] /\ \A x, y \in 1 .. n : q[x] = q[y] => x = y
  BY <1>5, <1>7, ZenonT(30)
<1>9. \A y \in 1 .. n : \E x \in 1 .. n : q[x] = y
  BY <1>2, <1>3, <1>5, ZenonT(30)
<1>10. ASSUME NEW x \in 1 .. n, NEW y \in 1 .. n, x < y PROVE t[x] <= t[y]
  <2>1. t[x] = s[q[x]] /\ t[y] = s[q[y]] /\ q[x] \in 1 .. n /\ q[y] \in 1 .. n
    BY <1>5, <1>6, ZenonT(30)
  <2>2. s[q[x]] \in Int /\ s[q[y]] \in Int /\ x \in Int /\ y \in Int
    BY <1>1, <2>1
  <2>3. SUFFICES ASSUME s[q[y]] < s[q[x]] PROVE FALSE
    BY <2>1, <2>2
  <2>4. Before(s, q[y], q[x]) /\ q[y] # q[x]
    BY <2>2, <2>3 DEF Before
  <2>5. Place(s, q[y]) < Place(s, q[x])
    BY <1>2, <2>1, <2>4, ZenonT(30)
  <2>6. y < x
    BY <1>5, <2>5, ZenonT(30)
  <2> QED BY <1>10, <2>2, <2>6
<1> QED BY <1>1, <1>6, <1>8, <1>9, <1>10, ZenonT(30) DEF Sorts, t

(* The rank Percentile reads. *)
LEMMA RankBounds ==
    ASSUME NEW n \in Nat \ {0}, NEW p \in 1 .. 100
    PROVE  \E k \in 1 .. n :
             /\ 100 * k >= p * n /\ 100 * (k - 1) < p * n
             /\ \A t : Len(t) = n => Percentile(t, p) = t[k]
<1> DEFINE m == p * n
           k == (m + 99) \div 100
<1>1. m \in Nat /\ 1 <= m /\ m <= 100 * n
  <2>1. p = 100 \/ 100 - p \in Nat
    OBVIOUS
  <2>2. (100 - p) * n \in Nat /\ 100 * n = p * n + (100 - p) * n
    BY <2>1
  <2> QED BY <2>2
<1> HIDE DEF m
<1>2. k \in 1 .. n /\ 100 * k >= m /\ 100 * (k - 1) < m
  BY <1>1
<1>3. ASSUME NEW t, Len(t) = n PROVE Percentile(t, p) = t[k]
  BY <1>2, <1>3 DEF Percentile, m
<1> HIDE DEF k
<1> QED BY <1>2, <1>3 DEF m

(* The k-th rank bounds the counts a of samples not above and b of samples *)
(* below the value that stands there.                                      *)
LEMMA CountBounds ==
    ASSUME NEW p \in Nat, NEW n \in Nat, NEW k \in Nat, NEW a \in Nat, NEW b \in Nat,
           100 * k >= p * n, 100 * (k - 1) < p * n, k <= a, b <= k - 1
    PROVE  100 * a >= p * n /\ 100 * b < p * n
<1>1. PICK m \in Int : m = p * n
  OBVIOUS
<1>2. 100 * k >= m /\ 100 * (k - 1) < m
  BY <1>1
<1>3. 100 * a >= m /\ 100 * b < m
  BY <1>2
<1> QED BY <1>1, <1>3

(* Percentile reads the nearest rank off any number of sorted samples: at  *)
(* least p per cent of them are not above it, fewer are below it.          *)
LEMMA PercentileIsNearestRank ==
    ASSUME NEW s \in Seq(Int), s # <<>>, NEW t, Sorts(t, s), NEW p \in 1 .. 100
    PROVE  NearestRank(Percentile(t, p), s, p)
<1> DEFINE n == Len(s)
<1>1. n \in Nat \ {0} /\ DOMAIN s = 1 .. n /\ \A x \in 1 .. n : s[x] \in Int
  OBVIOUS
<1> HIDE DEF n
<1>2. PICK q \in [1 .. n -> 1 .. n] :
        /\ \A x, y \in 1 .. n : q[x] = q[y] => x = y
        /\ \A y \in 1 .. n : \E x \in 1 .. n : q[x] = y
        /\ t = [x \in 1 .. n |-> s[q[x]]]
        /\ \A x, y \in 1 .. n : x < y => t[x] <= t[y]
  BY <1>1, ZenonT(30) DEF Sorts
<1>3. Len(t) = n /\ \A x \in 1 .. n : t[x] = s[q[x]] /\ t[x] \in Int
  <2>1. \A x \in 1 .. n : q[x] \in 1 .. n /\ s[q[x]] \in Int
    BY <1>1, <1>2, ZenonT(30)
  <2>2. t \in [1 .. n -> Int] /\ \A x \in 1 .. n : t[x] = s[q[x]]
    BY <1>2, <2>1, ZenonT(30)
  <2>3. t \in Seq(Int) /\ Len(t) = n
    BY <1>1, <2>2
  <2> QED BY <2>1, <2>2, <2>3, ZenonT(30)
<1>4. PICK k \in 1 .. n :
        100 * k >= p * n /\ 100 * (k - 1) < p * n /\ Percentile(t, p) = t[k]
  BY <1>1, <1>3, RankBounds, ZenonT(30)
<1> DEFINE v == t[k]
           A == {y \in 1 .. n : s[y] <= v}
           B == {y \in 1 .. n : s[y] < v}
<1>5. k \in Nat /\ k - 1 \in Nat /\ IsFiniteSet(A) /\ IsFiniteSet(B)
  <2>1. IsFiniteSet(1 .. n)
    BY <1>1, UpTo
  <2>2. A \in SUBSET (1 .. n) /\ B \in SUBSET (1 .. n)
    OBVIOUS
  <2> HIDE DEF A, B
  <2>3. IsFiniteSet(A) /\ IsFiniteSet(B)
    BY <2>1, <2>2, FS_Subset, ZenonT(30)
  <2> QED BY <1>1, <2>3
<1>6. Cardinality(A) \in Nat /\ Cardinality(B) \in Nat
  BY <1>5, FS_CardinalityType, ZenonT(30)
<1>7. k <= Cardinality(A)
  <2> DEFINE f == [x \in 1 .. k |-> q[x]]
  <2>1. \A x \in 1 .. k : x \in 1 .. n /\ q[x] \in A
    <3> SUFFICES ASSUME NEW x \in 1 .. k PROVE x \in 1 .. n /\ q[x] \in A
      OBVIOUS
    <3>1. x \in 1 .. n /\ (x = k \/ x < k)
      BY <1>1
    <3>2. t[x] <= t[k]
      BY <1>2, <1>3, <3>1
    <3>3. s[q[x]] <= v /\ q[x] \in 1 .. n
      BY <1>2, <1>3, <3>1, <3>2, ZenonT(30)
    <3> QED BY <3>1, <3>3
  <2> HIDE DEF A
  <2>2. f \in [1 .. k -> A] /\ \A x, y \in 1 .. k : f[x] = f[y] => x = y
    BY <1>2, <2>1, ZenonT(30)
  <2> HIDE DEF f
  <2>3. f \in Injection(1 .. k, A)
    BY <2>2, ZenonT(30) DEF Injection, IsInjective
  <2>4. Cardinality(1 .. k) <= Cardinality(A)
    BY <1>5, <2>3, FS_Injection, ZenonT(30)
  <2>5. Cardinality(1 .. k) = k
    BY <1>5, UpTo
  <2> QED BY <2>4, <2>5
<1>8. Cardinality(B) <= k - 1
  <2> DEFINE g == [y \in B |-> CHOOSE x \in 1 .. n : q[x] = y]
  <2>1. \A y \in B : g[y] \in 1 .. n /\ q[g[y]] = y
    <3> SUFFICES ASSUME NEW y \in B PROVE g[y] \in 1 .. n /\ q[g[y]] = y
      BY ZenonT(30)
    <3>1. \E x \in 1 .. n : q[x] = y
      BY <1>2, ZenonT(30)
    <3>2. g[y] = CHOOSE x \in 1 .. n : q[x] = y
      BY ZenonT(30)
    <3> HIDE DEF g
    <3> QED BY <3>1, <3>2, ZenonT(30)
  <2>2. g = [y \in B |-> g[y]]
    OBVIOUS
  <2> HIDE DEF g
  <2>3. \A y \in B : g[y] \in 1 .. k - 1
    <3> SUFFICES ASSUME NEW y \in B PROVE g[y] \in 1 .. k - 1
      BY ZenonT(30)
    <3>1. g[y] \in 1 .. n /\ t[g[y]] = s[y] /\ s[y] < t[k]
      BY <1>3, <2>1, ZenonT(30)
    <3>2. ~(g[y] > k) /\ g[y] # k
      <4>1. t[k] \in Int /\ t[g[y]] \in Int
        BY <1>3, <3>1, ZenonT(30)
      <4>2. g[y] > k => t[k] <= t[g[y]]
        BY <1>2, <3>1, ZenonT(30)
      <4> QED BY <3>1, <4>1, <4>2
    <3> QED BY <3>1, <3>2
  <2> HIDE DEF B
  <2>4. g \in [B -> 1 .. k - 1] /\ \A x, y \in B : g[x] = g[y] => x = y
    BY <2>1, <2>2, <2>3, ZenonT(30)
  <2>5. g \in Injection(B, 1 .. k - 1)
    BY <2>4, ZenonT(30) DEF Injection, IsInjective
  <2>6. IsFiniteSet(1 .. k - 1) /\ Cardinality(1 .. k - 1) = k - 1
    BY <1>5, UpTo
  <2>7. Cardinality(B) <= Cardinality(1 .. k - 1)
    BY <2>5, <2>6, FS_Injection, ZenonT(30)
  <2> QED BY <2>6, <2>7
<1>9. p \in Nat /\ n \in Nat
  BY <1>1
<1>10. 100 * Cardinality(A) >= p * n /\ 100 * Cardinality(B) < p * n
  <2> HIDE DEF A, B
  <2> QED BY <1>4, <1>5, <1>6, <1>7, <1>8, <1>9, CountBounds, ZenonT(30)
<1> QED BY <1>1, <1>4, <1>10, ZenonT(30) DEF NearestRank, n

(* The two that are reported. *)
LEMMA BothRanks ==
    ASSUME NEW s \in Seq(Int), s # <<>>, NEW t, Sorts(t, s)
    PROVE  NearestRank(Percentile(t, 50), s, 50) /\ NearestRank(Percentile(t, 99), s, 99)
<1>1. 50 \in 1 .. 100 /\ 99 \in 1 .. 100
  OBVIOUS
<1> QED BY <1>1, PercentileIsNearestRank, ZenonT(30)

(* What Summarize reports as p50 and p99 are the nearest ranks, whatever   *)
(* the samples.                                                            *)
THEOREM SummaryRanked ==
    ASSUME NEW path, NEW s \in Seq(Int), s # <<>>
    PROVE  /\ NearestRank(Summarize(path, s).p50, s, 50)
           /\ NearestRank(Summarize(path, s).p99, s, 99)
<1> DEFINE t == Sorted(s)
<1>1. Sorts(t, s)
  BY SortedSorts, ZenonT(30)
<1>2. Summarize(path, s).p50 = Percentile(t, 50) /\ Summarize(path, s).p99 = Percentile(t, 99)
  <2>1. Summarize(path, s) = [PathResult(path, "PASS") EXCEPT
                !.n = Len(s), !.samples = s,
                !.p50 = Percentile(t, 50), !.p99 = Percentile(t, 99)]
    BY ZenonT(30) DEF Summarize
  <2>2. "p50" \in DOMAIN PathResult(path, "PASS") /\ "p99" \in DOMAIN PathResult(path, "PASS")
    BY DEF PathResult
  <2> HIDE DEF t
  <2> QED BY <2>1, <2>2
<1> HIDE DEF t
<1> QED BY <1>1, <1>2, BothRanks, ZenonT(30)

-----------------------------------------------------------------------------
(* Reports.                                                                *)

Statuses == {"PASS", "PASS_WITH_FAILURES", "FAIL_TIMEOUT", "FAIL_DIAL",
             "FAIL_HANDSHAKE", "FAIL_NO_DATA"}
Failures == [timeouts : Nat, nonOK : Nat, other : Nat]
Counters == [sent : Nat, acked : Nat, dropped : Nat]

(* The fields of a report are of their types. *)
LEMMA ReportTypes ==
    ASSUME NEW r \in Reports
    PROVE  /\ r.path \in Paths /\ r.status \in Statuses /\ r.n \in Nat /\ r.attempted \in Nat
           /\ r.fb \in Failures /\ r.p50 \in Int /\ r.p99 \in Int /\ r.samples \in Seq(Int)
           /\ r.udp \in Counters
  BY DEF Reports, Paths, Statuses, Failures, Counters

(* A total of failures is a count. *)
LEMMA TotalType ==
    ASSUME NEW f \in Failures
    PROVE  /\ Total(f) \in Nat /\ f.timeouts \in Nat /\ f.nonOK \in Nat /\ f.other \in Nat
           /\ Total(f) = f.timeouts + f.nonOK + f.other
  BY DEF Failures, Total

(* A status, the UDP counters or the samples of a report replaced. *)
Replaces(q, r, u, st) == q = [r EXCEPT !.udp = u, !.status = st]
(* A report with other UDP counters and another status: the rest of it     *)
(* stays.                                                                  *)
LEMMA Replaced ==
    ASSUME NEW r \in Reports, NEW u \in Counters, NEW st \in Statuses,
           NEW q, Replaces(q, r, u, st)
    PROVE  /\ q \in Reports /\ q.path = r.path /\ q.n = r.n /\ q.attempted = r.attempted
           /\ q.fb = r.fb /\ q.p50 = r.p50 /\ q.p99 = r.p99 /\ q.samples = r.samples
           /\ q.udp = u /\ q.status = st
  BY ZenonT(30) DEF Replaces, Reports, Statuses, Counters

(* A report with other samples: the rest of it stays. *)
LEMMA Sampled ==
    ASSUME NEW r \in Reports, NEW e \in Seq(Int)
    PROVE  LET q == [r EXCEPT !.samples = e]
           IN  /\ q \in Reports /\ q.path = r.path /\ q.n = r.n /\ q.attempted = r.attempted
               /\ q.fb = r.fb /\ q.status = r.status /\ q.udp = r.udp /\ q.samples = e
  BY DEF Reports

(* A record of the fields of PathResult is a report with these fields. *)
LEMMA ReportMade ==
    ASSUME NEW path \in Paths, NEW st \in Statuses, NEW n \in Nat, NEW p \in Int, NEW q \in Int,
           NEW f \in Failures, NEW e \in Seq(Int), NEW u \in Counters
    PROVE  LET r == [path |-> path, status |-> st, n |-> n, attempted |-> 0, fb |-> f,
                     p50 |-> p, p99 |-> q, samples |-> e, udp |-> u]
           IN  /\ r \in Reports /\ r.path = path /\ r.status = st /\ r.n = n /\ r.samples = e
               /\ r.attempted = 0 /\ r.fb = f
  BY DEF Reports, Paths, Statuses, Failures, Counters

(* The zero values of failures and counters are of their types. *)
LEMMA NothingCounted == NoFailures \in Failures /\ NoCounters \in Counters
  BY DEF NoFailures, NoCounters, Failures, Counters

(* The empty slice of samples has length 0. *)
LEMMA NoSamples == <<>> \in Seq(Int) /\ Len(<<>>) = 0
  OBVIOUS

(* A file written without -keep-samples loses the samples and nothing      *)
(* else.                                                                   *)
LEMMA Bares ==
    ASSUME NEW r \in Reports
    PROVE  /\ Bare(r) \in Reports /\ Bare(r).path = r.path /\ Bare(r).n = r.n
           /\ Bare(r).attempted = r.attempted /\ Bare(r).fb = r.fb
           /\ Bare(r).status = r.status /\ Bare(r).udp = r.udp /\ Bare(r).samples = <<>>
  BY NoSamples, Sampled, ZenonT(30) DEF Bare

(* The value a percentile has. *)
LEMMA PercentileType ==
    ASSUME NEW s \in Seq(Int), s # <<>>, NEW p \in 1 .. 100
    PROVE  Percentile(Sorted(s), p) \in Int
<1> DEFINE n == Len(s)
           t == Sorted(s)
<1>1. n \in Nat \ {0} /\ DOMAIN s = 1 .. n /\ \A x \in 1 .. n : s[x] \in Int
  OBVIOUS
<1> HIDE DEF n
<1>0. Sorts(t, s)
  BY SortedSorts, ZenonT(30)
<1> HIDE DEF t
<1>2. PICK q \in [1 .. n -> 1 .. n] : t = [x \in 1 .. n |-> s[q[x]]]
  <2>1. PICK q \in [DOMAIN s -> DOMAIN s] : t = [x \in DOMAIN s |-> s[q[x]]]
    BY <1>0, ZenonT(30) DEF Sorts
  <2>2. DOMAIN s = 1 .. n
    BY <1>1
  <2> QED BY <2>1, <2>2, ZenonT(30)
<1>3. \A x \in 1 .. n : q[x] \in 1 .. n /\ s[q[x]] \in Int
  BY <1>1, <1>2, ZenonT(30)
<1>4. t \in [1 .. n -> Int]
  BY <1>2, <1>3, ZenonT(30)
<1>5. t \in Seq(Int) /\ Len(t) = n
  BY <1>1, <1>4
<1>6. PICK k \in 1 .. n : Percentile(t, p) = t[k]
  BY <1>1, <1>5, RankBounds, ZenonT(30)
<1> QED BY <1>4, <1>6, ZenonT(30) DEF t

(* What SummarizeWithFailures makes of samples and failures. *)
LEMMA Summary ==
    ASSUME NEW path \in Paths, NEW s \in Seq(Int), NEW f \in Failures
    PROVE  LET r == SummarizeWithFailures(path, s, f)
           IN  /\ r \in Reports /\ ReportOK(r) /\ r.path = path /\ r.n = Len(s)
               /\ r.attempted = Len(s) + Total(f) /\ r.fb = f /\ r.samples = s
               /\ s # <<>> /\ Total(f) = 0 => r.status = "PASS"
               /\ Total(f) > 0 => r.status \in {"PASS_WITH_FAILURES", "FAIL_TIMEOUT"}
<1> DEFINE a == Summarize(path, s)
           r == SummarizeWithFailures(path, s, f)
           st == IF Total(f) = 0 THEN a.status
                 ELSE IF a.n = 0 THEN "FAIL_TIMEOUT" ELSE "PASS_WITH_FAILURES"
           att == a.n + Total(f)
<1>1. Total(f) \in Nat /\ Len(s) \in Nat /\ (Len(s) = 0 <=> s = <<>>)
  BY TotalType
<1>2. /\ a \in Reports /\ a.path = path /\ a.n = Len(s) /\ a.samples = s
      /\ a.status = IF s = <<>> THEN "FAIL_NO_DATA" ELSE "PASS"
  <2>1. CASE s = <<>>
    <3>1. a = PathResult(path, "FAIL_NO_DATA")
      BY <2>1, ZenonT(30) DEF Summarize
    <3>2. a = [path |-> path, status |-> "FAIL_NO_DATA", n |-> Len(s), attempted |-> 0,
               fb |-> NoFailures, p50 |-> 0, p99 |-> 0, samples |-> s, udp |-> NoCounters]
      BY <2>1, <3>1, NoSamples, ZenonT(30) DEF PathResult
    <3>3. 0 \in Int /\ "FAIL_NO_DATA" \in Statuses
      BY DEF Statuses
    <3> HIDE DEF a
    <3> QED BY <1>1, <2>1, <3>2, <3>3, NothingCounted, ReportMade, ZenonT(30)
  <2>2. CASE s # <<>>
    <3> DEFINE p == Percentile(Sorted(s), 50)
               q == Percentile(Sorted(s), 99)
    <3>1. 50 \in 1 .. 100 /\ 99 \in 1 .. 100
      OBVIOUS
    <3>2. p \in Int /\ q \in Int
      BY <2>2, <3>1, PercentileType, ZenonT(30)
    <3>3. a = [PathResult(path, "PASS") EXCEPT !.n = Len(s), !.samples = s, !.p50 = p, !.p99 = q]
      BY <2>2, ZenonT(30) DEF Summarize
    <3> HIDE DEF p, q, a
    <3>4. a = [path |-> path, status |-> "PASS", n |-> Len(s), attempted |-> 0,
               fb |-> NoFailures, p50 |-> p, p99 |-> q, samples |-> s, udp |-> NoCounters]
      BY <3>3, ZenonT(30) DEF PathResult
    <3>5. "PASS" \in Statuses
      BY DEF Statuses
    <3> QED BY <1>1, <2>2, <3>2, <3>4, <3>5, NothingCounted, ReportMade
  <2> QED BY <2>1, <2>2
<1>3. r = [a EXCEPT !.attempted = att, !.fb = f, !.status = st]
  BY ZenonT(30) DEF SummarizeWithFailures
<1>4. s # <<>> => NearestRank(a.p50, s, 50) /\ NearestRank(a.p99, s, 99)
  BY SummaryRanked, ZenonT(30)
<1> HIDE DEF a, r
<1>5. att \in Nat /\ att = Len(s) + Total(f) /\ st \in Statuses
  BY <1>1, <1>2 DEF Statuses
<1>6. /\ s # <<>> /\ Total(f) = 0 => st = "PASS"
      /\ Total(f) > 0 => st \in {"PASS_WITH_FAILURES", "FAIL_TIMEOUT"}
      /\ st = "PASS" => Total(f) = 0
      /\ st = "PASS_WITH_FAILURES" => Total(f) > 0
  BY <1>1, <1>2
<1> HIDE DEF att, st
<1>7. /\ r \in Reports /\ r.path = a.path /\ r.n = a.n /\ r.attempted = att /\ r.fb = f
      /\ r.p50 = a.p50 /\ r.p99 = a.p99 /\ r.samples = a.samples /\ r.status = st
  BY <1>2, <1>3, <1>5, ZenonT(30) DEF Reports, Statuses, Failures
<1>8. ReportOK(r)
  <2>1. Ranked(r)
    BY <1>2, <1>4, <1>7, ZenonT(30) DEF Ranked
  <2> QED BY <1>2, <1>5, <1>6, <1>7, <2>1, ZenonT(30) DEF ReportOK
<1> QED BY <1>2, <1>5, <1>6, <1>7, <1>8, ZenonT(30) DEF r

-----------------------------------------------------------------------------
(* Counts, and their sums over the results of a path.                      *)

NOf == [r \in Reports |-> r.n]
AttemptedOf == [r \in Reports |-> r.attempted]
FailedOf(kind) == [r \in Reports |-> r.fb[kind]]
CountedOf(c) == [r \in Reports |-> r.udp[c]]
Only(p, w) == [r \in Reports |-> IF r.path = p THEN w[r] ELSE 0]

(* The counts a report holds are weights. *)
LEMMA WeightTypes ==
    /\ Weight(NOf, Reports) /\ Weight(AttemptedOf, Reports)
    /\ \A kind \in {"timeouts", "nonOK", "other"} : Weight(FailedOf(kind), Reports)
    /\ \A c \in {"sent", "acked", "dropped"} : Weight(CountedOf(c), Reports)
<1>1. \A r \in Reports : r.n \in Nat /\ r.attempted \in Nat
  BY ReportTypes, ZenonT(30)
<1>2. \A r \in Reports : /\ r.fb.timeouts \in Nat /\ r.fb.nonOK \in Nat /\ r.fb.other \in Nat
                         /\ r.udp.sent \in Nat /\ r.udp.acked \in Nat /\ r.udp.dropped \in Nat
  BY ReportTypes DEF Failures, Counters
<1>3. \A r \in Reports : /\ \A kind \in {"timeouts", "nonOK", "other"} : r.fb[kind] \in Nat
                         /\ \A c \in {"sent", "acked", "dropped"} : r.udp[c] \in Nat
  BY <1>2, ZenonT(30)
<1> QED BY <1>1, <1>3, ZenonT(30) DEF Weight, NOf, AttemptedOf, FailedOf, CountedOf

(* A count restricted to the reports of one path is a weight, 0 for those  *)
(* of other paths.                                                         *)
LEMMA OnlyWeight ==
    ASSUME NEW w, Weight(w, Reports), NEW p
    PROVE  /\ Weight(Only(p, w), Reports)
           /\ \A r \in Reports : /\ r.path = p => Only(p, w)[r] = w[r]
                                 /\ r.path # p => Only(p, w)[r] = 0
<1>1. 0 \in Nat
  OBVIOUS
<1> QED BY <1>1, ZenonT(30) DEF Weight, Only

(* SumOf is such a sum. *)
LEMMA SumOfWeight ==
    ASSUME NEW rs \in Seq(Reports), NEW w, NEW p
    PROVE  SumOf(rs, p, Weighed(rs, w)) = SumW(rs, Only(p, w))
<1>1. \A k \in DOMAIN rs : rs[k] \in Reports
  OBVIOUS
<1>2. \A k \in DOMAIN rs : (IF rs[k].path = p THEN Weighed(rs, w)[k] ELSE 0) = Only(p, w)[rs[k]]
  BY <1>1, ZenonT(30) DEF Only, Weighed
<1>3. [k \in DOMAIN rs |-> IF rs[k].path = p THEN Weighed(rs, w)[k] ELSE 0]
         = Weighed(rs, Only(p, w))
  <2>1. Weighed(rs, Only(p, w)) = [k \in DOMAIN rs |-> Only(p, w)[rs[k]]]
    BY ZenonT(30) DEF Weighed
  <2> QED BY <1>2, <2>1, ZenonT(30)
<1> QED BY <1>3, ZenonT(30) DEF SumOf, SumW

(* So the totals are sums of weights. *)
LEMMA WeighedFields ==
    ASSUME NEW rs \in Seq(Reports)
    PROVE  /\ Weighed(rs, NOf) = [k \in DOMAIN rs |-> rs[k].n]
           /\ Weighed(rs, AttemptedOf) = [k \in DOMAIN rs |-> rs[k].attempted]
           /\ \A kind : Weighed(rs, FailedOf(kind)) = [k \in DOMAIN rs |-> rs[k].fb[kind]]
           /\ \A c : Weighed(rs, CountedOf(c)) = [k \in DOMAIN rs |-> rs[k].udp[c]]
<1>1. \A k \in DOMAIN rs : rs[k] \in Reports
  OBVIOUS
<1>2. Weighed(rs, NOf) = [k \in DOMAIN rs |-> rs[k].n]
  BY <1>1, ZenonT(30) DEF Weighed, NOf
<1>3. Weighed(rs, AttemptedOf) = [k \in DOMAIN rs |-> rs[k].attempted]
  BY <1>1, ZenonT(30) DEF Weighed, AttemptedOf
<1>4. ASSUME NEW kind PROVE Weighed(rs, FailedOf(kind)) = [k \in DOMAIN rs |-> rs[k].fb[kind]]
  BY <1>1, ZenonT(30) DEF Weighed, FailedOf
<1>5. ASSUME NEW c PROVE Weighed(rs, CountedOf(c)) = [k \in DOMAIN rs |-> rs[k].udp[c]]
  BY <1>1, ZenonT(30) DEF Weighed, CountedOf
<1> QED BY <1>2, <1>3, <1>4, <1>5, ZenonT(30)

(* The failure pass of mergeChunks adds each kind of failure over the      *)
(* reports of a path.                                                      *)
LEMMA FailuresSummed ==
    ASSUME NEW rs \in Seq(Reports), NEW p
    PROVE  /\ FailuresOf(rs, p) = [timeouts |-> SumW(rs, Only(p, FailedOf("timeouts"))),
                                   nonOK |-> SumW(rs, Only(p, FailedOf("nonOK"))),
                                   other |-> SumW(rs, Only(p, FailedOf("other")))]
           /\ FailuresOf(rs, p) \in Failures
<1>1. \A kind : SumOf(rs, p, [k \in DOMAIN rs |-> rs[k].fb[kind]]) = SumW(rs, Only(p, FailedOf(kind)))
  <2> SUFFICES ASSUME NEW kind
               PROVE  SumOf(rs, p, [k \in DOMAIN rs |-> rs[k].fb[kind]]) = SumW(rs, Only(p, FailedOf(kind)))
    BY ZenonT(30)
  <2>1. Weighed(rs, FailedOf(kind)) = [k \in DOMAIN rs |-> rs[k].fb[kind]]
    BY WeighedFields, ZenonT(30)
  <2>2. SumOf(rs, p, Weighed(rs, FailedOf(kind))) = SumW(rs, Only(p, FailedOf(kind)))
    BY SumOfWeight, ZenonT(30)
  <2> QED BY <2>1, <2>2, ZenonT(30)
<1>2. FailuresOf(rs, p) = [timeouts |-> SumW(rs, Only(p, FailedOf("timeouts"))),
                           nonOK |-> SumW(rs, Only(p, FailedOf("nonOK"))),
                           other |-> SumW(rs, Only(p, FailedOf("other")))]
  BY <1>1, ZenonT(30) DEF FailuresOf
<1>3. \A kind \in {"timeouts", "nonOK", "other"} : SumW(rs, Only(p, FailedOf(kind))) \in Nat
  BY WeightTypes, OnlyWeight, Weights, ZenonT(30)
<1>4. /\ SumW(rs, Only(p, FailedOf("timeouts"))) \in Nat
      /\ SumW(rs, Only(p, FailedOf("nonOK"))) \in Nat
      /\ SumW(rs, Only(p, FailedOf("other"))) \in Nat
  BY <1>3, ZenonT(30)
<1>5. FailuresOf(rs, p) \in Failures
  BY <1>2, <1>4 DEF Failures
<1> QED BY <1>2, <1>5, ZenonT(30)

(* The counter pass of mergeChunks adds each UDP counter over the reports  *)
(* of a path.                                                              *)
LEMMA CountersSummed ==
    ASSUME NEW rs \in Seq(Reports), NEW p
    PROVE  /\ CountersOf(rs, p) = [sent |-> SumW(rs, Only(p, CountedOf("sent"))),
                                   acked |-> SumW(rs, Only(p, CountedOf("acked"))),
                                   dropped |-> SumW(rs, Only(p, CountedOf("dropped")))]
           /\ CountersOf(rs, p) \in Counters
<1>1. \A c : SumOf(rs, p, [k \in DOMAIN rs |-> rs[k].udp[c]]) = SumW(rs, Only(p, CountedOf(c)))
  <2> SUFFICES ASSUME NEW c
               PROVE  SumOf(rs, p, [k \in DOMAIN rs |-> rs[k].udp[c]]) = SumW(rs, Only(p, CountedOf(c)))
    BY ZenonT(30)
  <2>1. Weighed(rs, CountedOf(c)) = [k \in DOMAIN rs |-> rs[k].udp[c]]
    BY WeighedFields, ZenonT(30)
  <2>2. SumOf(rs, p, Weighed(rs, CountedOf(c))) = SumW(rs, Only(p, CountedOf(c)))
    BY SumOfWeight, ZenonT(30)
  <2> QED BY <2>1, <2>2, ZenonT(30)
<1>2. CountersOf(rs, p) = [sent |-> SumW(rs, Only(p, CountedOf("sent"))),
                           acked |-> SumW(rs, Only(p, CountedOf("acked"))),
                           dropped |-> SumW(rs, Only(p, CountedOf("dropped")))]
  BY <1>1, ZenonT(30) DEF CountersOf
<1>3. \A c \in {"sent", "acked", "dropped"} : SumW(rs, Only(p, CountedOf(c))) \in Nat
  BY WeightTypes, OnlyWeight, Weights, ZenonT(30)
<1>4. /\ SumW(rs, Only(p, CountedOf("sent"))) \in Nat
      /\ SumW(rs, Only(p, CountedOf("acked"))) \in Nat
      /\ SumW(rs, Only(p, CountedOf("dropped"))) \in Nat
  BY <1>3, ZenonT(30)
<1>5. CountersOf(rs, p) \in Counters
  BY <1>2, <1>4 DEF Counters
<1> QED BY <1>2, <1>5, ZenonT(30)

PathSet(rs) == {r.path : r \in Range(rs)}
Accounts(rs, bs, w) == \A k \in DOMAIN rs : w[rs[k]] = SumW(bs, Only(rs[k].path, w))

(* Where TotalsOf holds of every result, each of them counts what the      *)
(* results behind it count, for every count.                               *)
LEMMA TotalsAccount ==
    ASSUME NEW rs \in Seq(Reports), NEW bs \in Seq(Reports),
           \A k \in DOMAIN rs : TotalsOf(rs[k], bs)
    PROVE  /\ Accounts(rs, bs, NOf) /\ Accounts(rs, bs, AttemptedOf)
           /\ \A c \in {"sent", "acked", "dropped"} : Accounts(rs, bs, CountedOf(c))
<1> SUFFICES ASSUME NEW k \in DOMAIN rs
             PROVE  /\ NOf[rs[k]] = SumW(bs, Only(rs[k].path, NOf))
                    /\ AttemptedOf[rs[k]] = SumW(bs, Only(rs[k].path, AttemptedOf))
                    /\ \A c \in {"sent", "acked", "dropped"} :
                          CountedOf(c)[rs[k]] = SumW(bs, Only(rs[k].path, CountedOf(c)))
  BY ZenonT(30) DEF Accounts
<1> DEFINE p == rs[k].path
<1>1. rs[k] \in Reports
  OBVIOUS
<1>2. /\ rs[k].n = SumOf(bs, p, Weighed(bs, NOf))
      /\ rs[k].attempted = SumOf(bs, p, Weighed(bs, AttemptedOf))
      /\ rs[k].udp = CountersOf(bs, p)
  BY WeighedFields, ZenonT(30) DEF TotalsOf
<1>3. /\ NOf[rs[k]] = rs[k].n /\ AttemptedOf[rs[k]] = rs[k].attempted
      /\ \A c : CountedOf(c)[rs[k]] = rs[k].udp[c]
  BY <1>1, ZenonT(30) DEF NOf, AttemptedOf, CountedOf
<1>4. NOf[rs[k]] = SumW(bs, Only(p, NOf)) /\ AttemptedOf[rs[k]] = SumW(bs, Only(p, AttemptedOf))
  BY <1>2, <1>3, SumOfWeight, ZenonT(30)
<1>5. rs[k].udp = [sent |-> SumW(bs, Only(p, CountedOf("sent"))),
                   acked |-> SumW(bs, Only(p, CountedOf("acked"))),
                   dropped |-> SumW(bs, Only(p, CountedOf("dropped")))]
  BY <1>2, CountersSummed, ZenonT(30)
<1>6. /\ rs[k].udp["sent"] = SumW(bs, Only(p, CountedOf("sent")))
      /\ rs[k].udp["acked"] = SumW(bs, Only(p, CountedOf("acked")))
      /\ rs[k].udp["dropped"] = SumW(bs, Only(p, CountedOf("dropped")))
  BY <1>5
<1> QED BY <1>3, <1>4, <1>6, ZenonT(30)

(* A file that accounts for its runs, path by path, has the same sums. *)
LEMMA Carried ==
    ASSUME NEW rs \in Seq(Reports), NEW bs \in Seq(Reports), NEW w, Weight(w, Reports), NEW p,
           \A j, k \in DOMAIN rs : rs[j].path = rs[k].path => j = k,
           PathSet(rs) = PathSet(bs), Accounts(rs, bs, w)
    PROVE  SumW(rs, Only(p, w)) = SumW(bs, Only(p, w))
<1> DEFINE o == Only(p, w)
           a == Weighed(rs, o)
           b == Weighed(bs, o)
<1>1. /\ DOMAIN rs = 1 .. Len(rs) /\ DOMAIN bs = 1 .. Len(bs)
      /\ (\A k \in DOMAIN rs : rs[k] \in Reports) /\ (\A k \in DOMAIN bs : bs[k] \in Reports)
  OBVIOUS
<1>2. ReadsAs(a, rs, o) /\ ReadsAs(b, bs, o)
  BY OnlyWeight, Weights, ZenonT(30)
<1>3. \A r \in Reports : (r.path = p => o[r] = w[r]) /\ (r.path # p => o[r] = 0)
  BY OnlyWeight, ZenonT(30)
<1>4. SumW(rs, o) = Added(a) /\ SumW(bs, o) = Added(b)
  BY ZenonT(30) DEF SumW
<1> HIDE DEF a, b, o
<1>5. CASE \E j \in DOMAIN rs : rs[j].path = p
  <2>1. PICK j \in DOMAIN rs : rs[j].path = p
    BY <1>5, ZenonT(30)
  <2>2. j \in Nat /\ j \in 1 .. Len(rs) /\ Len(a) = Len(rs) /\ a \in Seq(Nat)
    BY <1>2 DEF ReadsAs
  <2>3. \A k \in 1 .. Len(a) : k # j => a[k] = 0
    <3> SUFFICES ASSUME NEW k \in 1 .. Len(rs), k # j PROVE a[k] = 0
      BY <2>2, ZenonT(30)
    <3>1. rs[k] \in Reports /\ rs[k].path # p
      BY <1>1, <2>1, ZenonT(30)
    <3> QED BY <1>2, <1>3, <3>1, ZenonT(30) DEF ReadsAs
  <2>4. Added(a) = a[j]
    BY <2>2, <2>3, AddedSingle
  <2>5. a[j] = w[rs[j]]
    BY <1>1, <1>2, <1>3, <2>1, <2>2, ZenonT(30) DEF ReadsAs
  <2>6. w[rs[j]] = SumW(bs, o)
    BY <2>1, ZenonT(30) DEF Accounts, o
  <2> QED BY <1>4, <2>4, <2>5, <2>6, ZenonT(30) DEF o
<1>6. CASE ~\E j \in DOMAIN rs : rs[j].path = p
  <2>1. p \notin PathSet(bs)
    BY <1>6, ZenonT(30) DEF PathSet, Range
  <2>2. (\A k \in DOMAIN rs : rs[k].path # p) /\ (\A k \in DOMAIN bs : bs[k].path # p)
    BY <1>6, <2>1, ZenonT(30) DEF PathSet, Range
  <2>3. /\ Len(a) = Len(rs) /\ a \in Seq(Nat) /\ Len(b) = Len(bs) /\ b \in Seq(Nat)
        /\ (\A k \in 1 .. Len(rs) : a[k] = o[rs[k]]) /\ (\A k \in 1 .. Len(bs) : b[k] = o[bs[k]])
    BY <1>2, ZenonT(30) DEF ReadsAs
  <2>4. (\A k \in 1 .. Len(a) : a[k] = 0) /\ (\A k \in 1 .. Len(b) : b[k] = 0)
    <3>1. ASSUME NEW k \in 1 .. Len(rs) PROVE a[k] = 0
      <4>1. rs[k] \in Reports /\ rs[k].path # p
        BY <1>1, <2>2, ZenonT(30)
      <4>2. a[k] = o[rs[k]]
        BY <2>3, ZenonT(30)
      <4> QED BY <1>3, <4>1, <4>2, ZenonT(30)
    <3>2. ASSUME NEW k \in 1 .. Len(bs) PROVE b[k] = 0
      <4>1. bs[k] \in Reports /\ bs[k].path # p
        BY <1>1, <2>2, ZenonT(30)
      <4>2. b[k] = o[bs[k]]
        BY <2>3, ZenonT(30)
      <4> QED BY <1>3, <4>1, <4>2, ZenonT(30)
    <3>3. \A k \in 1 .. Len(a) : a[k] = 0
      BY <2>3, <3>1, ZenonT(30)
    <3>4. \A k \in 1 .. Len(b) : b[k] = 0
      BY <2>3, <3>2, ZenonT(30)
    <3> QED BY <3>3, <3>4, ZenonT(30)
  <2>5. 0 \in Nat /\ \A n : 0 \notin 1 .. n
    OBVIOUS
  <2>6. Added(a) = 0
    BY <2>3, <2>4, <2>5, AddedSingle, ZenonT(30)
  <2>7. Added(b) = 0
    BY <2>3, <2>4, <2>5, AddedSingle, ZenonT(30)
  <2> QED BY <1>4, <2>6, <2>7, ZenonT(30) DEF o
<1> QED BY <1>5, <1>6

(* The sum of two counts is the sum of their sums. *)
LEMMA SumPlus ==
    ASSUME NEW s \in Seq(Reports), NEW u, NEW v, NEW w,
           Weight(u, Reports), Weight(v, Reports), Weight(w, Reports),
           \A k \in DOMAIN s : w[s[k]] = u[s[k]] + v[s[k]]
    PROVE  SumW(s, w) = SumW(s, u) + SumW(s, v)
<1> DEFINE a == Weighed(s, u)
           b == Weighed(s, v)
           c == Weighed(s, w)
<1>1. DOMAIN s = 1 .. Len(s)
  OBVIOUS
<1>2. ReadsAs(a, s, u) /\ ReadsAs(b, s, v) /\ ReadsAs(c, s, w)
  BY Weights, ZenonT(30)
<1> HIDE DEF a, b, c
<1>3. /\ a \in Seq(Nat) /\ Len(a) = Len(s) /\ (\A k \in 1 .. Len(s) : a[k] = u[s[k]])
      /\ b \in Seq(Nat) /\ Len(b) = Len(s) /\ (\A k \in 1 .. Len(s) : b[k] = v[s[k]])
      /\ c \in Seq(Nat) /\ Len(c) = Len(s) /\ (\A k \in 1 .. Len(s) : c[k] = w[s[k]])
  BY <1>2, ZenonT(30) DEF ReadsAs
<1>4. \A k \in 1 .. Len(s) : c[k] = a[k] + b[k]
  BY <1>1, <1>3, ZenonT(30)
<1>5. Len(b) = Len(a) /\ Len(c) = Len(a) /\ \A k \in 1 .. Len(a) : c[k] = a[k] + b[k]
  BY <1>3, <1>4, ZenonT(30)
<1>6. Added(c) = Added(a) + Added(b)
  BY <1>3, <1>5, AddedPointwise
<1> QED BY <1>6, ZenonT(30) DEF SumW, a, b, c

(* The samples of a path, and the attempts. *)
LEMMA SamplesCounted ==
    ASSUME NEW rs \in Seq(Reports), NEW p
    PROVE  /\ SamplesOf(rs, p) \in Seq(Int)
           /\ (\A k \in DOMAIN rs : rs[k].n = Len(rs[k].samples))
                => Len(SamplesOf(rs, p)) = SumW(rs, Only(p, NOf))
           /\ \A k \in DOMAIN rs :
                rs[k].path = p /\ rs[k].samples # <<>> => SamplesOf(rs, p) # <<>>
<1> DEFINE P(k) == IF rs[k].path = p THEN rs[k].samples ELSE <<>>
           ss == [k \in DOMAIN rs |-> P(k)]
<1>1. DOMAIN rs = 1 .. Len(rs) /\ Len(rs) \in Nat /\ \A k \in DOMAIN rs : rs[k] \in Reports
  OBVIOUS
<1>2. \A k \in DOMAIN rs : P(k) \in Seq(Int)
  BY <1>1, NoSamples, ReportTypes, ZenonT(30)
<1>3. SamplesOf(rs, p) = Joined(ss)
  BY ZenonT(30) DEF SamplesOf
<1>4. \A k \in DOMAIN rs : ss[k] = P(k)
  BY ZenonT(30)
<1>5. ss \in [1 .. Len(rs) -> Seq(Int)] /\ DOMAIN ss = DOMAIN rs
  <2> HIDE DEF P
  <2> QED BY <1>1, <1>2, ZenonT(30)
<1> HIDE DEF ss
<1>6. ss \in Seq(Seq(Int))
  <2> HIDE DEF P
  <2> QED BY <1>1, <1>5
<1>7. /\ Joined(ss) \in Seq(Int)
      /\ Range(Joined(ss)) = UNION {Range(ss[k]) : k \in DOMAIN ss}
  BY <1>6, JoinItems, ZenonT(30)
<1>8. ASSUME \A k \in DOMAIN rs : rs[k].n = Len(rs[k].samples)
      PROVE  Len(Joined(ss)) = SumW(rs, Only(p, NOf))
  <2>1. Len(Joined(ss)) = Added([k \in DOMAIN ss |-> Len(ss[k])])
    BY <1>6, JoinLen, ZenonT(30)
  <2>2. ASSUME NEW k \in DOMAIN rs PROVE Len(ss[k]) = Only(p, NOf)[rs[k]]
    <3>1. CASE rs[k].path = p
      BY <1>1, <1>4, <1>8, <3>1, ZenonT(30) DEF Only, NOf
    <3>2. CASE rs[k].path # p
      BY <1>1, <1>4, NoSamples, <3>2, ZenonT(30) DEF Only
    <3> QED BY <3>1, <3>2
  <2>3. [k \in DOMAIN ss |-> Len(ss[k])] = Weighed(rs, Only(p, NOf))
    <3>1. Weighed(rs, Only(p, NOf)) = [k \in DOMAIN rs |-> Only(p, NOf)[rs[k]]]
      BY ZenonT(30) DEF Weighed
    <3> QED BY <1>5, <2>2, <3>1, ZenonT(30)
  <2> QED BY <2>1, <2>3, ZenonT(30) DEF SumW
<1>9. ASSUME NEW k \in DOMAIN rs, rs[k].path = p, rs[k].samples # <<>>
      PROVE  Joined(ss) # <<>>
  <2>1. ss[k] = rs[k].samples /\ rs[k].samples \in Seq(Int)
    BY <1>1, <1>4, <1>9, ReportTypes, ZenonT(30)
  <2>2. 1 \in DOMAIN ss[k]
    BY <1>9, <2>1
  <2>3. ss[k][1] \in Range(Joined(ss))
    <3>1. ss[k][1] \in Range(ss[k])
      BY <2>2, ZenonT(30) DEF Range
    <3> QED BY <1>5, <1>7, <3>1, ZenonT(30)
  <2>4. DOMAIN <<>> = {}
    OBVIOUS
  <2> QED BY <2>3, <2>4, ZenonT(30) DEF Range
<1> QED BY <1>3, <1>7, <1>8, <1>9, ZenonT(30)

(* Where attempts are samples and failures in every report, they are so in *)
(* sum.                                                                    *)
LEMMA AttemptsSummed ==
    ASSUME NEW rs \in Seq(Reports), NEW p, \A k \in DOMAIN rs : ReportOK(rs[k])
    PROVE  SumW(rs, Only(p, AttemptedOf)) = SumW(rs, Only(p, NOf)) + Total(FailuresOf(rs, p))
<1> DEFINE T == Only(p, FailedOf("timeouts"))
           N == Only(p, FailedOf("nonOK"))
           O == Only(p, FailedOf("other"))
           n == Only(p, NOf)
           a == Only(p, AttemptedOf)
           TN == [r \in Reports |-> T[r] + N[r]]
           F == [r \in Reports |-> TN[r] + O[r]]
<1>1. Weight(T, Reports) /\ Weight(N, Reports) /\ Weight(O, Reports)
      /\ Weight(n, Reports) /\ Weight(a, Reports)
  BY WeightTypes, OnlyWeight, ZenonT(30)
<1>2. \A k \in DOMAIN rs : rs[k] \in Reports
  OBVIOUS
<1>3. ASSUME NEW r \in Reports, ReportOK(r) PROVE a[r] = n[r] + ((T[r] + N[r]) + O[r])
  <2>1. /\ r.attempted = r.n + Total(r.fb) /\ r.n \in Nat /\ r.fb.timeouts \in Nat
        /\ r.fb.nonOK \in Nat /\ r.fb.other \in Nat
        /\ Total(r.fb) = r.fb.timeouts + r.fb.nonOK + r.fb.other
    BY <1>3, ReportTypes, TotalType, ZenonT(30) DEF ReportOK
  <2>2. CASE r.path = p
    <3>1. /\ a[r] = r.attempted /\ n[r] = r.n /\ T[r] = r.fb.timeouts
          /\ N[r] = r.fb.nonOK /\ O[r] = r.fb.other
      BY <2>2, ZenonT(30) DEF Only, NOf, AttemptedOf, FailedOf
    <3> HIDE DEF a, n, T, N, O
    <3> QED BY <2>1, <3>1
  <2>3. CASE r.path # p
    <3>1. a[r] = 0 /\ n[r] = 0 /\ T[r] = 0 /\ N[r] = 0 /\ O[r] = 0
      BY <2>3, ZenonT(30) DEF Only
    <3> HIDE DEF a, n, T, N, O
    <3> QED BY <3>1
  <2> QED BY <2>2, <2>3
<1>4. FailuresOf(rs, p) = [timeouts |-> SumW(rs, T), nonOK |-> SumW(rs, N), other |-> SumW(rs, O)]
  BY FailuresSummed, ZenonT(30)
<1> HIDE DEF T, N, O, n, a
<1>5. /\ \A r \in Reports : T[r] \in Nat /\ N[r] \in Nat /\ O[r] \in Nat
      /\ \A x, y \in Nat : x + y \in Nat
  <2>1. \A x, y \in Nat : x + y \in Nat
    OBVIOUS
  <2> QED BY <1>1, <2>1, ZenonT(30) DEF Weight
<1>6. Weight(TN, Reports) /\ (\A r \in Reports : TN[r] = T[r] + N[r])
  BY <1>5, ZenonT(30) DEF Weight
<1> HIDE DEF TN
<1>7. Weight(F, Reports) /\ (\A r \in Reports : F[r] = TN[r] + O[r])
  <2>1. \A r \in Reports : TN[r] \in Nat
    BY <1>6, ZenonT(30) DEF Weight
  <2> QED BY <1>5, <2>1, ZenonT(30) DEF Weight
<1> HIDE DEF F
<1>8. SumW(rs, TN) = SumW(rs, T) + SumW(rs, N)
  BY <1>1, <1>2, <1>6, SumPlus
<1>9. SumW(rs, F) = SumW(rs, TN) + SumW(rs, O)
  BY <1>1, <1>2, <1>6, <1>7, SumPlus
<1>10. SumW(rs, a) = SumW(rs, n) + SumW(rs, F)
  <2>1. \A k \in DOMAIN rs : a[rs[k]] = n[rs[k]] + F[rs[k]]
    BY <1>2, <1>3, <1>6, <1>7, ZenonT(30)
  <2> QED BY <1>1, <1>7, <2>1, SumPlus
<1>11. Total(FailuresOf(rs, p)) = SumW(rs, T) + SumW(rs, N) + SumW(rs, O)
  BY <1>4 DEF Total
<1> QED BY <1>8, <1>9, <1>10, <1>11, ZenonT(30) DEF n, a

-----------------------------------------------------------------------------
(* Chunks, and the runs they stand for.                                    *)

(* The fields of a chunk are of their types. *)
LEMMA ChunkTypes ==
    ASSUME NEW c \in Chunks
    PROVE  c.results \in Seq(Reports) /\ c.setting \in Settings /\ c.tenant \in Tenants
  BY DEF Chunks

(* A function on 1 to n is a sequence of length n. *)
LEMMA FunSeq ==
    ASSUME NEW X, NEW n \in Nat, NEW f \in [1 .. n -> X]
    PROVE  f \in Seq(X) /\ Len(f) = n
  OBVIOUS

(* The range of a sequence is what it holds. *)
LEMMA InRange ==
    ASSUME NEW s
    PROVE  (\A k \in DOMAIN s : s[k] \in Range(s)) /\ (\A x \in Range(s) : \E k \in DOMAIN s : x = s[k])
  BY ZenonT(30) DEF Range

(* The results of each chunk. *)
LEMMA ResultSeqs ==
    ASSUME NEW cs \in Seq(Chunks)
    PROVE  \E ss \in Seq(Seq(Reports)) :
              /\ DOMAIN ss = DOMAIN cs /\ AllResults(cs) = Joined(ss)
              /\ \A k \in DOMAIN cs : ss[k] = cs[k].results
<1> DEFINE ss == [k \in DOMAIN cs |-> cs[k].results]
<1>1. \A k \in DOMAIN cs : cs[k].results \in Seq(Reports)
  <2>1. \A k \in DOMAIN cs : cs[k] \in Chunks
    OBVIOUS
  <2> QED BY <2>1, ChunkTypes, ZenonT(30)
<1>2. DOMAIN cs = 1 .. Len(cs) /\ Len(cs) \in Nat
  OBVIOUS
<1>3. ss \in [1 .. Len(cs) -> Seq(Reports)] /\ DOMAIN ss = DOMAIN cs
      /\ \A k \in DOMAIN cs : ss[k] = cs[k].results
  BY <1>1, <1>2, ZenonT(30)
<1>4. AllResults(cs) = Joined(ss)
  BY ZenonT(30) DEF AllResults
<1> HIDE DEF ss
<1>5. ss \in Seq(Seq(Reports))
  BY <1>2, <1>3, FunSeq, ZenonT(30)
<1> QED BY <1>3, <1>4, <1>5, ZenonT(30)

(* A sum over all results of some chunks is the sum of the sums over each. *)
LEMMA AllSum ==
    ASSUME NEW cs \in Seq(Chunks), NEW w, Weight(w, Reports)
    PROVE  /\ SumW(AllResults(cs), w) = Added([k \in DOMAIN cs |-> SumW(cs[k].results, w)])
           /\ [k \in DOMAIN cs |-> SumW(cs[k].results, w)] \in Seq(Nat)
<1>1. PICK ss \in Seq(Seq(Reports)) :
         /\ DOMAIN ss = DOMAIN cs /\ AllResults(cs) = Joined(ss)
         /\ \A k \in DOMAIN cs : ss[k] = cs[k].results
  BY ResultSeqs, ZenonT(30)
<1>2. [k \in DOMAIN ss |-> SumW(ss[k], w)] = [k \in DOMAIN cs |-> SumW(cs[k].results, w)]
  BY <1>1, ZenonT(30)
<1>3. /\ [k \in DOMAIN ss |-> SumW(ss[k], w)] \in Seq(Nat)
      /\ SumW(Joined(ss), w) = Added([k \in DOMAIN ss |-> SumW(ss[k], w)])
  BY JoinSum, ZenonT(30)
<1> QED BY <1>1, <1>2, <1>3, ZenonT(30)

(* The results of some chunks are those of each of them. *)
LEMMA AllTypes ==
    ASSUME NEW cs \in Seq(Chunks)
    PROVE  /\ AllResults(cs) \in Seq(Reports)
           /\ \A x : x \in Range(AllResults(cs)) <=> \E c \in Range(cs) : x \in Range(c.results)
<1>1. PICK ss \in Seq(Seq(Reports)) :
         /\ DOMAIN ss = DOMAIN cs /\ AllResults(cs) = Joined(ss)
         /\ \A k \in DOMAIN cs : ss[k] = cs[k].results
  BY ResultSeqs, ZenonT(30)
<1>2. /\ AllResults(cs) \in Seq(Reports)
      /\ Range(AllResults(cs)) = UNION {Range(ss[k]) : k \in DOMAIN ss}
  BY <1>1, JoinItems, ZenonT(30)
<1>3. ASSUME NEW x, x \in Range(AllResults(cs)) PROVE \E c \in Range(cs) : x \in Range(c.results)
  <2>0. x \in UNION {Range(ss[k]) : k \in DOMAIN ss}
    BY <1>2, <1>3
  <2>1. PICK k \in DOMAIN cs : x \in Range(ss[k])
    <3>1. PICK k \in DOMAIN ss : x \in Range(ss[k])
      BY <2>0, ZenonT(30)
    <3> QED BY <1>1, <3>1
  <2>2. cs[k] \in Range(cs) /\ x \in Range(cs[k].results)
    BY <1>1, <2>1, InRange, ZenonT(30)
  <2> QED BY <2>2, ZenonT(30)
<1>4. ASSUME NEW x, NEW c \in Range(cs), x \in Range(c.results) PROVE x \in Range(AllResults(cs))
  <2>1. PICK k \in DOMAIN cs : c = cs[k]
    BY InRange, ZenonT(30)
  <2>2. x \in Range(ss[k])
    BY <1>1, <1>4, <2>1, ZenonT(30)
  <2> QED BY <1>1, <1>2, <2>2, ZenonT(30)
<1> QED BY <1>2, <1>3, <1>4, ZenonT(30)

(* All the runs of several files. *)
LEMMA BaseSum ==
    ASSUME NEW bb \in Seq(Seq(Chunks)), NEW w, Weight(w, Reports)
    PROVE  SumW(AllResults(Joined(bb)), w) = Added([k \in DOMAIN bb |-> SumW(AllResults(bb[k]), w)])
<1> DEFINE w2 == [c \in Chunks |-> SumW(c.results, w)]
<1>1. Weight(w2, Chunks)
  <2>1. \A c \in Chunks : SumW(c.results, w) \in Nat
    BY ChunkTypes, Weights, ZenonT(30)
  <2> QED BY <2>1, ZenonT(30) DEF Weight
<1>2. ASSUME NEW cs \in Seq(Chunks) PROVE SumW(AllResults(cs), w) = SumW(cs, w2)
  <2>1. \A k \in DOMAIN cs : cs[k] \in Chunks
    OBVIOUS
  <2>2. [k \in DOMAIN cs |-> SumW(cs[k].results, w)] = Weighed(cs, w2)
    BY <2>1, ZenonT(30) DEF Weighed
  <2> HIDE DEF w2
  <2> QED BY <2>2, AllSum, ZenonT(30) DEF SumW
<1> HIDE DEF w2
<1>3. Joined(bb) \in Seq(Chunks)
  BY JoinItems, ZenonT(30)
<1>4. SumW(Joined(bb), w2) = Added([k \in DOMAIN bb |-> SumW(bb[k], w2)])
  BY <1>1, JoinSum, ZenonT(30)
<1>5. [k \in DOMAIN bb |-> SumW(bb[k], w2)] = [k \in DOMAIN bb |-> SumW(AllResults(bb[k]), w)]
  <2>1. \A k \in DOMAIN bb : bb[k] \in Seq(Chunks)
    OBVIOUS
  <2> QED BY <1>2, <2>1, ZenonT(30)
<1> QED BY <1>2, <1>3, <1>4, <1>5, ZenonT(30)

(* The runs behind a merge are those behind the files merged, and so are   *)
(* their results.                                                          *)
LEMMA BaseTypes ==
    ASSUME NEW bb \in Seq(Seq(Chunks))
    PROVE  /\ Joined(bb) \in Seq(Chunks) /\ AllResults(Joined(bb)) \in Seq(Reports)
           /\ \A c : c \in Range(Joined(bb)) <=> \E k \in DOMAIN bb : c \in Range(bb[k])
           /\ \A x : x \in Range(AllResults(Joined(bb)))
                       <=> \E k \in DOMAIN bb : x \in Range(AllResults(bb[k]))
<1> DEFINE f == Joined(bb)
<1>1. f \in Seq(Chunks) /\ Range(f) = UNION {Range(bb[k]) : k \in DOMAIN bb}
  BY JoinItems, ZenonT(30)
<1> HIDE DEF f
<1>2. \A c : c \in Range(f) <=> \E k \in DOMAIN bb : c \in Range(bb[k])
  BY <1>1, ZenonT(30)
<1>3. /\ AllResults(f) \in Seq(Reports)
      /\ \A x : x \in Range(AllResults(f)) <=> \E c \in Range(f) : x \in Range(c.results)
  BY <1>1, AllTypes, ZenonT(30)
<1>4. \A k \in DOMAIN bb : bb[k] \in Seq(Chunks)
  OBVIOUS
<1>5. ASSUME NEW k \in DOMAIN bb
      PROVE  \A x : x \in Range(AllResults(bb[k])) <=> \E c \in Range(bb[k]) : x \in Range(c.results)
  BY <1>4, AllTypes, ZenonT(30)
<1>6. ASSUME NEW x, x \in Range(AllResults(f)) PROVE \E k \in DOMAIN bb : x \in Range(AllResults(bb[k]))
  <2>1. PICK c \in Range(f) : x \in Range(c.results)
    BY <1>3, <1>6, ZenonT(30)
  <2>2. PICK k \in DOMAIN bb : c \in Range(bb[k])
    BY <1>2, ZenonT(30)
  <2> QED BY <1>5, <2>1, <2>2, ZenonT(30)
<1>7. ASSUME NEW x, NEW k \in DOMAIN bb, x \in Range(AllResults(bb[k])) PROVE x \in Range(AllResults(f))
  <2>1. PICK c \in Range(bb[k]) : x \in Range(c.results)
    BY <1>5, <1>7, ZenonT(30)
  <2>2. c \in Range(f)
    BY <1>2, ZenonT(30)
  <2> QED BY <1>3, <2>1, <2>2, ZenonT(30)
<1> QED BY <1>1, <1>2, <1>3, <1>6, <1>7, ZenonT(30) DEF f

(* The names given to a merge. *)
LEMMA NamesResolved ==
    ASSUME NEW n \in Nat, NEW S \in SUBSET (1 .. n)
    PROVE  ResolveChunkFiles(S) \in Seq(1 .. n)
<1> DEFINE s == CHOOSE f \in Injection(1 .. Cardinality(S), S) : TRUE
<1>1. IsFiniteSet(S)
  BY UpTo, FS_Subset, ZenonT(30)
<1>2. Cardinality(S) \in Nat /\ ExistsBijection(1 .. Cardinality(S), S)
  BY <1>1, FS_CardinalityType, ZenonT(30)
<1>3. \E f : f \in Injection(1 .. Cardinality(S), S)
  BY <1>2, ZenonT(30) DEF ExistsBijection, Bijection
<1>4. s \in [1 .. Cardinality(S) -> S]
  <2>1. s \in Injection(1 .. Cardinality(S), S)
    BY <1>3, ZenonT(30)
  <2> HIDE DEF s
  <2> QED BY <2>1, ZenonT(30) DEF Injection
<1> HIDE DEF s
<1>5. s \in [1 .. Cardinality(S) -> 1 .. n] /\ s \in [1 .. Cardinality(S) -> Int]
  <2>1. \A k \in 1 .. Cardinality(S) : s[k] \in 1 .. n /\ s[k] \in Int
    <3>1. \A x \in S : x \in 1 .. n /\ x \in Int
      OBVIOUS
    <3> QED BY <1>4, <3>1, ZenonT(30)
  <2>2. s = [k \in 1 .. Cardinality(S) |-> s[k]]
    BY <1>4, ZenonT(30)
  <2> QED BY <2>1, <2>2, ZenonT(30)
<1>6. s \in Seq(Int) /\ DOMAIN s = 1 .. Cardinality(S)
  BY <1>2, <1>5
<1>7. Sorts(Sorted(s), s)
  BY <1>6, SortedSorts, ZenonT(30)
<1>8. PICK q \in [DOMAIN s -> DOMAIN s] : Sorted(s) = [x \in DOMAIN s |-> s[q[x]]]
  BY <1>7, ZenonT(30) DEF Sorts
<1>9. Sorted(s) \in [1 .. Cardinality(S) -> 1 .. n]
  <2>1. \A x \in DOMAIN s : s[q[x]] \in 1 .. n
    BY <1>5, <1>6, <1>8, ZenonT(30)
  <2> QED BY <1>6, <1>8, <2>1, ZenonT(30)
<1>10. Sorted(s) \in Seq(1 .. n)
  BY <1>2, <1>9, FunSeq, ZenonT(30)
<1> QED BY <1>10, ZenonT(30) DEF ResolveChunkFiles, s

-----------------------------------------------------------------------------
(* Statuses.                                                               *)

(* isWorseStatus orders the statuses from PASS to FAIL_NO_DATA. *)
LEMMA Ranks ==
    /\ Rank("PASS") = 0 /\ Rank("PASS_WITH_FAILURES") = 1 /\ Rank("FAIL_TIMEOUT") = 2
    /\ Rank("FAIL_DIAL") = 3 /\ Rank("FAIL_HANDSHAKE") = 4 /\ Rank("FAIL_NO_DATA") = 5
<1>1. Rank("PASS") = 0 /\ Rank("PASS_WITH_FAILURES") = 1
  BY DEF Rank
<1>2. Rank("FAIL_TIMEOUT") = 2 /\ Rank("FAIL_DIAL") = 3
  BY DEF Rank
<1>3. Rank("FAIL_HANDSHAKE") = 4 /\ Rank("FAIL_NO_DATA") = 5
  BY DEF Rank
<1> QED BY <1>1, <1>2, <1>3

(* Nothing but PASS has rank 0 and nothing but PASS_WITH_FAILURES rank 1. *)
LEMMA RankTypes ==
    ASSUME NEW s \in Statuses
    PROVE  /\ Rank(s) \in Nat /\ (Rank(s) = 0 => s = "PASS")
           /\ (Rank(s) = 1 => s = "PASS_WITH_FAILURES")
  BY Ranks DEF Statuses

(* Some status is the worst. *)
LEMMA Worst ==
    ASSUME NEW S \in SUBSET Statuses, S # {}
    PROVE  WorstStatus(S) \in S /\ \A t \in S : Rank(t) <= Rank(WorstStatus(S))
<1>1. \E s \in S : \A t \in S : ~IsWorseStatus(t, s)
  <2>1. \A s \in Statuses : Rank(s) \in 0 .. 5
    BY Ranks DEF Statuses
  <2> DEFINE R == {5 - Rank(s) : s \in S}
             Less == {ss \in Nat \X Nat : ss[1] < ss[2]}
  <2>2. R \subseteq Nat /\ R # {}
    BY <2>1
  <2>3. IsWellFoundedOn(Less, Nat)
    BY NatLessThanWellFounded, ZenonT(30) DEF OpToRel
  <2>4. \A x, y \in Nat : y < x => <<y, x>> \in Less
    OBVIOUS
  <2> HIDE DEF Less
  <2>5. PICK m \in R : \A y \in R : <<y, m>> \notin Less
    <3> HIDE DEF R
    <3> QED BY <2>2, <2>3, WFMin, ZenonT(30)
  <2>6. PICK s \in S : m = 5 - Rank(s)
    OBVIOUS
  <2>7. ASSUME NEW t \in S PROVE ~IsWorseStatus(t, s)
    <3>1. 5 - Rank(t) \in R /\ 5 - Rank(t) \in Nat /\ m \in Nat
      BY <2>2
    <3>2. ~(5 - Rank(t) < m)
      BY <2>4, <2>5, <3>1, ZenonT(30)
    <3>3. Rank(s) \in 0 .. 5 /\ Rank(t) \in 0 .. 5
      BY <2>1
    <3> QED BY <2>6, <3>2, <3>3 DEF IsWorseStatus
  <2> QED BY <2>7, ZenonT(30)
<1>2. WorstStatus(S) \in S /\ \A t \in S : ~IsWorseStatus(t, WorstStatus(S))
  BY <1>1, ZenonT(30) DEF WorstStatus
<1>3. ASSUME NEW t \in S PROVE Rank(t) <= Rank(WorstStatus(S))
  <2>1. Rank(t) \in Nat /\ Rank(WorstStatus(S)) \in Nat
    BY <1>2, RankTypes
  <2>2. ~(Rank(t) > Rank(WorstStatus(S)))
    BY <1>2, ZenonT(30) DEF IsWorseStatus
  <2> QED BY <2>1, <2>2
<1> QED BY <1>2, <1>3, ZenonT(30)

(* The statuses of a path are those its reports have; there are some when  *)
(* it has a report.                                                        *)
LEMMA StatusesGiven ==
    ASSUME NEW rs \in Seq(Reports), NEW p
    PROVE  /\ StatusesOf(rs, p) \in SUBSET Statuses
           /\ \A s : s \in StatusesOf(rs, p) <=> \E r \in Range(rs) : r.path = p /\ r.status = s
           /\ p \in PathSet(rs) <=> StatusesOf(rs, p) # {}
<1>1. \A k \in DOMAIN rs : rs[k] \in Reports
  OBVIOUS
<1>2. StatusesOf(rs, p) \in SUBSET Statuses
  BY <1>1, ReportTypes, ZenonT(30) DEF StatusesOf
<1>3. \A s : s \in StatusesOf(rs, p) <=> \E k \in DOMAIN rs : rs[k].path = p /\ rs[k].status = s
  BY ZenonT(30) DEF StatusesOf
<1>4. \A s : s \in StatusesOf(rs, p) <=> \E r \in Range(rs) : r.path = p /\ r.status = s
  <2>1. ASSUME NEW s, s \in StatusesOf(rs, p) PROVE \E r \in Range(rs) : r.path = p /\ r.status = s
    <3>1. PICK k \in DOMAIN rs : rs[k].path = p /\ rs[k].status = s
      BY <1>3, <2>1, ZenonT(30)
    <3>2. rs[k] \in Range(rs)
      BY InRange, ZenonT(30)
    <3> QED BY <3>1, <3>2, ZenonT(30)
  <2>2. ASSUME NEW s, NEW r \in Range(rs), r.path = p, r.status = s PROVE s \in StatusesOf(rs, p)
    <3>1. PICK k \in DOMAIN rs : r = rs[k]
      BY InRange, ZenonT(30)
    <3> QED BY <1>3, <2>2, <3>1, ZenonT(30)
  <2> QED BY <2>1, <2>2, ZenonT(30)
<1>5. p \in PathSet(rs) <=> \E r \in Range(rs) : r.path = p
  BY ZenonT(30) DEF PathSet
<1>6. p \in PathSet(rs) <=> StatusesOf(rs, p) # {}
  BY <1>4, <1>5, ZenonT(30)
<1> QED BY <1>2, <1>4, <1>6, ZenonT(30)

(* What NothingMasked says of a result, by ranks. *)
Unmasked(r, bs) ==
    LET worst == WorstStatus(StatusesOf(bs, r.path))
    IN  IF worst = "PASS" THEN r.status = "PASS" ELSE ~IsWorseStatus(worst, r.status)

(* A result masks nothing if its status ranks no better than any behind    *)
(* it, and is PASS where they all are.                                     *)
LEMMA UnmaskedRanks ==
    ASSUME NEW bs \in Seq(Reports), NEW r \in Reports, r.path \in PathSet(bs)
    PROVE  Unmasked(r, bs) <=>
             /\ (\A x \in Range(bs) : x.path = r.path => x.status = "PASS") => r.status = "PASS"
             /\ \A x \in Range(bs) : x.path = r.path => Rank(x.status) <= Rank(r.status)
<1> DEFINE S == StatusesOf(bs, r.path)
           W == WorstStatus(S)
<1>1. /\ S \in SUBSET Statuses /\ S # {}
      /\ \A s : s \in S <=> \E x \in Range(bs) : x.path = r.path /\ x.status = s
  <2>1. S \in SUBSET Statuses
    BY StatusesGiven, ZenonT(30)
  <2>2. S # {}
    BY StatusesGiven, ZenonT(30)
  <2>3. \A s : s \in S <=> \E x \in Range(bs) : x.path = r.path /\ x.status = s
    BY StatusesGiven
  <2> QED BY <2>1, <2>2, <2>3, ZenonT(30)
<1>0. Unmasked(r, bs) <=> (IF W = "PASS" THEN r.status = "PASS" ELSE ~IsWorseStatus(W, r.status))
  BY ZenonT(30) DEF Unmasked
<1> HIDE DEF S
<1>2. W \in S /\ \A t \in S : Rank(t) <= Rank(W)
  BY <1>1, Worst, ZenonT(30)
<1> HIDE DEF W
<1>3. W \in Statuses /\ r.status \in Statuses /\ Rank(W) \in Nat /\ Rank(r.status) \in Nat
  BY <1>1, <1>2, ReportTypes, RankTypes, ZenonT(30)
<1>4. \A x \in Range(bs) : x.path = r.path => x.status \in S /\ x.status \in Statuses
  BY <1>1, ZenonT(30)
<1>5. PICK y \in Range(bs) : y.path = r.path /\ y.status = W
  BY <1>1, <1>2, ZenonT(30)
<1>6. CASE W = "PASS"
  <2>1. \A t \in S : t = "PASS"
    <3> SUFFICES ASSUME NEW t \in S PROVE t = "PASS"
      BY ZenonT(30)
    <3>1. t \in Statuses /\ Rank(t) <= Rank(W) /\ Rank(W) = 0
      BY <1>1, <1>2, <1>6, Ranks, ZenonT(30)
    <3>2. Rank(t) \in Nat /\ (Rank(t) = 0 => t = "PASS")
      BY <3>1, RankTypes, ZenonT(30)
    <3> QED BY <3>1, <3>2
  <2>2. \A x \in Range(bs) : x.path = r.path => x.status = "PASS"
    BY <1>4, <2>1, ZenonT(30)
  <2>3. r.status = "PASS" => \A x \in Range(bs) : x.path = r.path => Rank(x.status) <= Rank(r.status)
    <3>1. 0 <= 0
      OBVIOUS
    <3> QED BY <2>2, <3>1, Ranks, ZenonT(30)
  <2> QED BY <1>0, <1>6, <2>2, <2>3, ZenonT(30)
<1>7. CASE W # "PASS"
  <2>1. ~(\A x \in Range(bs) : x.path = r.path => x.status = "PASS")
    BY <1>5, <1>7, ZenonT(30)
  <2>2. ~IsWorseStatus(W, r.status) <=> Rank(W) <= Rank(r.status)
    BY <1>3 DEF IsWorseStatus
  <2>3. ASSUME Rank(W) <= Rank(r.status), NEW x \in Range(bs), x.path = r.path
        PROVE  Rank(x.status) <= Rank(r.status)
    <3>1. Rank(x.status) <= Rank(W) /\ Rank(x.status) \in Nat
      BY <1>2, <1>4, <2>3, RankTypes, ZenonT(30)
    <3> QED BY <1>3, <2>3, <3>1
  <2>4. (\A x \in Range(bs) : x.path = r.path => Rank(x.status) <= Rank(r.status))
           => Rank(W) <= Rank(r.status)
    BY <1>5, ZenonT(30)
  <2> QED BY <1>0, <1>7, <2>1, <2>2, <2>3, <2>4, ZenonT(30)
<1> QED BY <1>6, <1>7

-----------------------------------------------------------------------------
(* mergeChunks.                                                            *)

(* One path. *)
LEMMA PathMerged ==
    ASSUME NEW rs \in Seq(Reports), NEW p \in Paths, p \in PathSet(rs)
    PROVE  LET r == MergePath(p, rs)
               W == WorstStatus(StatusesOf(rs, p))
               s == SamplesOf(rs, p)
               f == FailuresOf(rs, p)
           IN  /\ r \in Reports /\ ReportOK(r) /\ r.path = p /\ r.samples = s
               /\ r.n = Len(s) /\ r.attempted = Len(s) + Total(f) /\ r.udp = CountersOf(rs, p)
               /\ W \notin {"PASS", "PASS_WITH_FAILURES"} => r.status = W
               /\ W \in {"PASS", "PASS_WITH_FAILURES"} /\ s # <<>> /\ Total(f) = 0
                     => r.status = "PASS"
               /\ W \in {"PASS", "PASS_WITH_FAILURES"} /\ Total(f) > 0
                     => r.status \in {"PASS_WITH_FAILURES", "FAIL_TIMEOUT"}
<1> DEFINE W == WorstStatus(StatusesOf(rs, p))
           s == SamplesOf(rs, p)
           f == FailuresOf(rs, p)
           u == CountersOf(rs, p)
           a == SummarizeWithFailures(p, s, f)
           st == IF W \in {"PASS", "PASS_WITH_FAILURES"} THEN a.status ELSE W
           r == MergePath(p, rs)
<1>1. s \in Seq(Int)
  BY SamplesCounted, ZenonT(30)
<1>2. f \in Failures /\ u \in Counters
  BY FailuresSummed, CountersSummed, ZenonT(30)
<1>3. W \in Statuses
  <2>1. StatusesOf(rs, p) \in SUBSET Statuses
    BY StatusesGiven, ZenonT(30)
  <2>2. StatusesOf(rs, p) # {}
    BY StatusesGiven, ZenonT(30)
  <2>3. W \in StatusesOf(rs, p)
    BY <2>1, <2>2, Worst, ZenonT(30)
  <2> QED BY <2>1, <2>3, ZenonT(30)
<1>4. r = [a EXCEPT !.udp = u, !.status = IF W \in {"PASS", "PASS_WITH_FAILURES"} THEN @ ELSE W]
  BY ZenonT(30) DEF MergePath
<1> HIDE DEF s, f, u, W, r
<1>5. /\ a \in Reports /\ ReportOK(a) /\ a.path = p /\ a.n = Len(s)
      /\ a.attempted = Len(s) + Total(f) /\ a.fb = f /\ a.samples = s
      /\ s # <<>> /\ Total(f) = 0 => a.status = "PASS"
      /\ Total(f) > 0 => a.status \in {"PASS_WITH_FAILURES", "FAIL_TIMEOUT"}
  BY <1>1, <1>2, Summary, ZenonT(30)
<1> HIDE DEF a
<1>6. st \in Statuses
  BY <1>3, <1>5, ReportTypes, ZenonT(30)
<1>7. Replaces(r, a, u, st)
  <2>1. "status" \in DOMAIN a
    BY <1>5 DEF Reports
  <2> QED BY <1>4, <2>1 DEF Replaces
<1>8. st = (IF W \in {"PASS", "PASS_WITH_FAILURES"} THEN a.status ELSE W)
  BY ZenonT(30)
<1> HIDE DEF st
<1>9. /\ r \in Reports /\ r.path = a.path /\ r.n = a.n /\ r.attempted = a.attempted
      /\ r.fb = a.fb /\ r.p50 = a.p50 /\ r.p99 = a.p99 /\ r.samples = a.samples
      /\ r.udp = u /\ r.status = st
  <2>1. u \in Counters
    BY <1>2, ZenonT(30)
  <2>2. a \in Reports
    BY <1>5, ZenonT(30)
  <2> QED BY <2>1, <2>2, <1>6, <1>7, Replaced
<1>10. ReportOK(r)
  <2>1. Ranked(r)
    BY <1>5, <1>9, ZenonT(30) DEF ReportOK, Ranked
  <2>2. (st = "PASS" => Total(r.fb) = 0) /\ (st = "PASS_WITH_FAILURES" => Total(r.fb) > 0)
    <3>1. CASE W \in {"PASS", "PASS_WITH_FAILURES"}
      BY <1>5, <1>8, <1>9, <3>1, ZenonT(30) DEF ReportOK
    <3>2. CASE W \notin {"PASS", "PASS_WITH_FAILURES"}
      BY <1>8, <3>2, ZenonT(30)
    <3> QED BY <3>1, <3>2
  <2> QED BY <1>5, <1>9, <2>1, <2>2, ZenonT(30) DEF ReportOK
<1>11. /\ W \notin {"PASS", "PASS_WITH_FAILURES"} => r.status = W
       /\ W \in {"PASS", "PASS_WITH_FAILURES"} => r.status = a.status
  BY <1>8, <1>9, ZenonT(30)
<1> QED BY <1>5, <1>9, <1>10, <1>11, ZenonT(30) DEF s, f, u, W, r

(* A count that is 0 in every report is 0 in sum. *)
LEMMA SumZero ==
    ASSUME NEW s \in Seq(Reports), NEW w, Weight(w, Reports), \A x \in Range(s) : w[x] = 0
    PROVE  SumW(s, w) = 0
<1> DEFINE a == Weighed(s, w)
<1>1. ReadsAs(a, s, w)
  BY Weights, ZenonT(30)
<1>2. SumW(s, w) = Added(a)
  BY ZenonT(30) DEF SumW
<1> HIDE DEF a
<1>3. a \in Seq(Nat) /\ Len(a) = Len(s) /\ \A k \in 1 .. Len(s) : a[k] = w[s[k]]
  BY <1>1, ZenonT(30) DEF ReadsAs
<1>4. \A k \in 1 .. Len(s) : w[s[k]] = 0
  <2>1. DOMAIN s = 1 .. Len(s)
    OBVIOUS
  <2> QED BY <2>1, InRange, ZenonT(30)
<1>5. \A k \in 1 .. Len(a) : a[k] = 0
  BY <1>3, <1>4, ZenonT(30)
<1>6. 0 \in Nat /\ 0 \notin 1 .. Len(a)
  OBVIOUS
<1>7. Added(a) = 0
  BY <1>3, <1>5, <1>6, AddedSingle, ZenonT(30)
<1> QED BY <1>2, <1>7

(* A sum is at least what each report counts. *)
LEMMA SumAtLeast ==
    ASSUME NEW s \in Seq(Reports), NEW w, Weight(w, Reports), NEW x \in Range(s)
    PROVE  w[x] <= SumW(s, w)
<1> DEFINE a == Weighed(s, w)
<1>1. ReadsAs(a, s, w)
  BY Weights, ZenonT(30)
<1>2. SumW(s, w) = Added(a)
  BY ZenonT(30) DEF SumW
<1> HIDE DEF a
<1>3. a \in Seq(Nat) /\ Len(a) = Len(s) /\ \A k \in 1 .. Len(s) : a[k] = w[s[k]]
  BY <1>1, ZenonT(30) DEF ReadsAs
<1>4. PICK k \in 1 .. Len(s) : x = s[k]
  <2>1. DOMAIN s = 1 .. Len(s)
    OBVIOUS
  <2> QED BY <2>1, InRange, ZenonT(30)
<1>5. a[k] <= Added(a)
  BY <1>3, AddedBounds, ZenonT(30)
<1> QED BY <1>2, <1>3, <1>4, <1>5, ZenonT(30)

(* Failures are neither lost nor made up. *)
LEMMA FailuresKept ==
    ASSUME NEW rs \in Seq(Reports), NEW p
    PROVE  /\ (\A x \in Range(rs) : x.path = p => Total(x.fb) = 0) => Total(FailuresOf(rs, p)) = 0
           /\ \A x \in Range(rs) : x.path = p /\ Total(x.fb) > 0 => Total(FailuresOf(rs, p)) > 0
<1> DEFINE w(kind) == Only(p, FailedOf(kind))
           Kinds == {"timeouts", "nonOK", "other"}
<1>1. \A kind \in Kinds : Weight(w(kind), Reports) /\ SumW(rs, w(kind)) \in Nat
  BY WeightTypes, OnlyWeight, Weights, ZenonT(30)
<1>2. /\ Total(FailuresOf(rs, p)) = SumW(rs, w("timeouts")) + SumW(rs, w("nonOK")) + SumW(rs, w("other"))
  <2>1. FailuresOf(rs, p) = [timeouts |-> SumW(rs, w("timeouts")), nonOK |-> SumW(rs, w("nonOK")),
                             other |-> SumW(rs, w("other"))]
    BY FailuresSummed, ZenonT(30)
  <2> HIDE DEF w
  <2> QED BY <2>1 DEF Total
<1>3. \A x \in Range(rs) : x \in Reports
  <2>1. \A k \in DOMAIN rs : rs[k] \in Reports
    OBVIOUS
  <2> QED BY <2>1, ZenonT(30) DEF Range
<1>4. \A x \in Range(rs) : \A kind \in Kinds :
         w(kind)[x] = IF x.path = p THEN x.fb[kind] ELSE 0
  BY <1>3, ZenonT(30) DEF Only, FailedOf
<1>5. \A x \in Range(rs) :
         /\ x.fb["timeouts"] \in Nat /\ x.fb["nonOK"] \in Nat /\ x.fb["other"] \in Nat
         /\ Total(x.fb) = x.fb["timeouts"] + x.fb["nonOK"] + x.fb["other"]
  <2> SUFFICES ASSUME NEW x \in Range(rs)
               PROVE  /\ x.fb["timeouts"] \in Nat /\ x.fb["nonOK"] \in Nat /\ x.fb["other"] \in Nat
                      /\ Total(x.fb) = x.fb["timeouts"] + x.fb["nonOK"] + x.fb["other"]
    BY ZenonT(30)
  <2>1. x.fb \in Failures
    BY <1>3, ReportTypes, ZenonT(30)
  <2> QED BY <2>1, TotalType, ZenonT(30)
<1>6. "timeouts" \in Kinds /\ "nonOK" \in Kinds /\ "other" \in Kinds
      /\ \A kind \in Kinds : kind = "timeouts" \/ kind = "nonOK" \/ kind = "other"
  BY ZenonT(30)
<1> HIDE DEF w, Kinds
<1>7. ASSUME \A x \in Range(rs) : x.path = p => Total(x.fb) = 0
      PROVE  Total(FailuresOf(rs, p)) = 0
  <2>1. ASSUME NEW kind \in Kinds PROVE SumW(rs, w(kind)) = 0
    <3>1. ASSUME NEW x \in Range(rs) PROVE w(kind)[x] = 0
      <4>1. CASE x.path = p
        <5>1. x.fb["timeouts"] = 0 /\ x.fb["nonOK"] = 0 /\ x.fb["other"] = 0
          BY <1>5, <1>7, <4>1
        <5> QED BY <1>4, <1>6, <4>1, <5>1, ZenonT(30)
      <4>2. CASE x.path # p
        BY <1>4, <4>2, ZenonT(30)
      <4> QED BY <4>1, <4>2
    <3> QED BY <1>1, <3>1, SumZero, ZenonT(30)
  <2>2. SumW(rs, w("timeouts")) = 0 /\ SumW(rs, w("nonOK")) = 0 /\ SumW(rs, w("other")) = 0
    BY <1>6, <2>1, ZenonT(30)
  <2> QED BY <1>2, <2>2
<1>8. ASSUME NEW x \in Range(rs), x.path = p, Total(x.fb) > 0
      PROVE  Total(FailuresOf(rs, p)) > 0
  <2>1. \A kind \in Kinds : w(kind)[x] <= SumW(rs, w(kind))
    BY <1>1, SumAtLeast, ZenonT(30)
  <2>2. \A kind \in Kinds : x.fb[kind] <= SumW(rs, w(kind)) /\ SumW(rs, w(kind)) \in Nat
    BY <1>1, <1>4, <1>8, <2>1, ZenonT(30)
  <2>3. /\ x.fb["timeouts"] <= SumW(rs, w("timeouts")) /\ SumW(rs, w("timeouts")) \in Nat
        /\ x.fb["nonOK"] <= SumW(rs, w("nonOK")) /\ SumW(rs, w("nonOK")) \in Nat
        /\ x.fb["other"] <= SumW(rs, w("other")) /\ SumW(rs, w("other")) \in Nat
    BY <1>6, <2>2, ZenonT(30)
  <2>4. /\ x.fb["timeouts"] \in Nat /\ x.fb["nonOK"] \in Nat /\ x.fb["other"] \in Nat
        /\ x.fb["timeouts"] + x.fb["nonOK"] + x.fb["other"] > 0
    BY <1>5, <1>8, ZenonT(30)
  <2> QED BY <1>2, <2>3, <2>4
<1> QED BY <1>7, <1>8, ZenonT(30)


(* What is known of the results rs of a file that stands for results bs. *)
Stands(rs, bs) ==
    /\ rs \in Seq(Reports) /\ bs \in Seq(Reports) /\ PathSet(rs) = PathSet(bs)
    /\ \A r \in Range(rs) : ReportOK(r) /\ Unmasked(r, bs)

(* A result of a file ranks no better than those it stands for. *)
LEMMA StandsRanks ==
    ASSUME NEW rs, NEW bs, Stands(rs, bs), NEW y \in Range(rs)
    PROVE  /\ (\A x \in Range(bs) : x.path = y.path => x.status = "PASS") => y.status = "PASS"
           /\ \A x \in Range(bs) : x.path = y.path => Rank(x.status) <= Rank(y.status)
<1>1. rs \in Seq(Reports) /\ bs \in Seq(Reports) /\ Unmasked(y, bs)
  BY ZenonT(30) DEF Stands
<1>2. y \in Reports
  BY <1>1 DEF Range
<1>3. y.path \in PathSet(bs)
  BY ZenonT(30) DEF Stands, PathSet
<1> QED BY <1>1, <1>2, <1>3, UnmaskedRanks, ZenonT(30)

Joins(rs, K, rss) == \A x : x \in Range(rs) <=> \E k \in K : x \in Range(rss[k])
Measured(rs) ==
    \A x \in Range(rs) : x.status \in {"PASS", "PASS_WITH_FAILURES"} => x.samples # <<>>

(* A merge of files hides no more than the files do. *)
LEMMA StatusMerged ==
    ASSUME NEW K, NEW rss, NEW bss, \A k \in K : Stands(rss[k], bss[k]),
           NEW rs \in Seq(Reports), NEW bs \in Seq(Reports),
           Joins(rs, K, rss), Joins(bs, K, bss), Measured(rs), NEW p \in PathSet(rs)
    PROVE  p \in PathSet(bs) /\ Unmasked(MergePath(p, rs), bs)
<1> DEFINE r == MergePath(p, rs)
           W == WorstStatus(StatusesOf(rs, p))
           s == SamplesOf(rs, p)
           t == Total(FailuresOf(rs, p))
<1>0. /\ \A x : x \in Range(rs) <=> \E k \in K : x \in Range(rss[k])
      /\ \A x : x \in Range(bs) <=> \E k \in K : x \in Range(bss[k])
      /\ \A x \in Range(rs) : x.status \in {"PASS", "PASS_WITH_FAILURES"} => x.samples # <<>>
  BY ZenonT(30) DEF Joins, Measured
<1>1. \A x \in Range(rs) : x \in Reports /\ ReportOK(x)
  <2>1. \A k \in DOMAIN rs : rs[k] \in Reports
    OBVIOUS
  <2>2. \A x \in Range(rs) : x \in Reports
    BY <2>1, InRange, ZenonT(30)
  <2>3. \A x \in Range(rs) : ReportOK(x)
    BY <1>0, ZenonT(30) DEF Stands
  <2> QED BY <2>2, <2>3, ZenonT(30)
<1>2. PICK y0 \in Range(rs) : y0.path = p
  BY ZenonT(30) DEF PathSet
<1>3. p \in Paths
  BY <1>1, <1>2, ReportTypes, ZenonT(30)
<1>4. p \in PathSet(bs)
  <2>1. PICK k \in K : y0 \in Range(rss[k])
    BY <1>0, <1>2, ZenonT(30)
  <2>2. p \in PathSet(rss[k])
    BY <1>2, <2>1, ZenonT(30) DEF PathSet
  <2>3. p \in PathSet(bss[k])
    BY <2>2, ZenonT(30) DEF Stands
  <2>4. PICK x \in Range(bss[k]) : x.path = p
    BY <2>3, ZenonT(30) DEF PathSet
  <2>5. x \in Range(bs)
    BY <1>0, <2>4, ZenonT(30)
  <2> QED BY <2>4, <2>5, ZenonT(30) DEF PathSet
<1>5. /\ r \in Reports /\ r.path = p
      /\ W \notin {"PASS", "PASS_WITH_FAILURES"} => r.status = W
      /\ W \in {"PASS", "PASS_WITH_FAILURES"} /\ s # <<>> /\ t = 0 => r.status = "PASS"
      /\ W \in {"PASS", "PASS_WITH_FAILURES"} /\ t > 0
            => r.status \in {"PASS_WITH_FAILURES", "FAIL_TIMEOUT"}
  BY <1>3, PathMerged, ZenonT(30)
<1>6. /\ W \in Statuses /\ (\E y \in Range(rs) : y.path = p /\ y.status = W)
      /\ \A y \in Range(rs) : y.path = p => y.status \in Statuses /\ Rank(y.status) <= Rank(W)
  <2> DEFINE S == StatusesOf(rs, p)
  <2>1. S \in SUBSET Statuses
    BY StatusesGiven, ZenonT(30)
  <2>2. S # {}
    BY StatusesGiven, ZenonT(30)
  <2>3. \A st : st \in S <=> \E y \in Range(rs) : y.path = p /\ y.status = st
    BY StatusesGiven
  <2> HIDE DEF S
  <2>4. WorstStatus(S) \in S /\ \A st \in S : Rank(st) <= Rank(WorstStatus(S))
    BY <2>1, <2>2, Worst, ZenonT(30)
  <2>5. WorstStatus(S) = W
    BY ZenonT(30) DEF S
  <2> HIDE DEF W
  <2> QED BY <2>1, <2>3, <2>4, <2>5, ZenonT(30)
<1>7. /\ (\A y \in Range(rs) : y.path = p => Total(y.fb) = 0) => t = 0
      /\ \A y \in Range(rs) : y.path = p /\ Total(y.fb) > 0 => t > 0
  BY FailuresKept, ZenonT(30)
<1>8. \A y \in Range(rs) : y.path = p /\ y.samples # <<>> => s # <<>>
  BY SamplesCounted, InRange, ZenonT(30)
<1> HIDE DEF r, W, s, t
<1>9. ASSUME \A x \in Range(bs) : x.path = p => x.status = "PASS"
      PROVE  r.status = "PASS"
  <2>1. ASSUME NEW y \in Range(rs), y.path = p PROVE y.status = "PASS"
    <3>1. PICK k \in K : y \in Range(rss[k])
      BY <1>0, ZenonT(30)
    <3>2. \A x \in Range(bss[k]) : x.path = y.path => x.status = "PASS"
      BY <1>0, <1>9, <2>1, ZenonT(30)
    <3> QED BY <3>1, <3>2, StandsRanks, ZenonT(30)
  <2>2. W = "PASS"
    BY <1>6, <2>1, ZenonT(30)
  <2>3. t = 0
    BY <1>1, <1>7, <2>1, ZenonT(30) DEF ReportOK
  <2>4. s # <<>>
    BY <1>0, <1>2, <1>8, <2>1, ZenonT(30)
  <2> QED BY <1>5, <2>2, <2>3, <2>4, ZenonT(30)
<1>10. ASSUME NEW x \in Range(bs), x.path = p
       PROVE  Rank(x.status) <= Rank(r.status)
  <2>1. PICK k \in K : x \in Range(bss[k])
    BY <1>0, ZenonT(30)
  <2>2. p \in PathSet(rss[k])
    <3>1. p \in PathSet(bss[k])
      BY <1>10, <2>1, ZenonT(30) DEF PathSet
    <3> QED BY <3>1, ZenonT(30) DEF Stands
  <2>3. PICK y \in Range(rss[k]) : y.path = p
    BY <2>2, ZenonT(30) DEF PathSet
  <2>4. y \in Range(rs)
    BY <1>0, <2>3, ZenonT(30)
  <2>5. Rank(x.status) <= Rank(y.status)
    BY <1>10, <2>1, <2>3, StandsRanks, ZenonT(30)
  <2>6. Rank(y.status) <= Rank(W) /\ y.status \in Statuses
    BY <1>6, <2>3, <2>4, ZenonT(30)
  <2>7. x.status \in Statuses /\ r.status \in Statuses
    <3>1. x \in Reports
      BY DEF Range
    <3> QED BY <1>5, <3>1, ReportTypes, ZenonT(30)
  <2>8. Rank(x.status) \in Nat /\ Rank(y.status) \in Nat /\ Rank(W) \in Nat /\ Rank(r.status) \in Nat
    BY <1>6, <2>6, <2>7, RankTypes, ZenonT(30)
  <2>9. CASE W \notin {"PASS", "PASS_WITH_FAILURES"}
    <3>1. r.status = W
      BY <1>5, <2>9, ZenonT(30)
    <3> QED BY <2>5, <2>6, <2>8, <3>1
  <2>10. CASE W \in {"PASS", "PASS_WITH_FAILURES"}
    <3>1. Rank(W) \in {0, 1}
      BY <2>10, Ranks, ZenonT(30)
    <3>2. CASE Rank(x.status) = 0
      BY <2>8, <3>2
    <3>3. CASE Rank(x.status) # 0
      <4>1. Rank(y.status) = 1 /\ Rank(x.status) = 1
        BY <2>5, <2>6, <2>8, <3>1, <3>3
      <4>2. y.status = "PASS_WITH_FAILURES"
        BY <2>6, <4>1, RankTypes, ZenonT(30)
      <4>3. Total(y.fb) > 0
        BY <1>1, <2>4, <4>2, ZenonT(30) DEF ReportOK
      <4>4. r.status \in {"PASS_WITH_FAILURES", "FAIL_TIMEOUT"}
        BY <1>5, <1>7, <2>3, <2>4, <2>10, <4>3, ZenonT(30)
      <4>5. Rank(r.status) \in {1, 2}
        BY <4>4, Ranks, ZenonT(30)
      <4> QED BY <4>1, <4>5
    <3> QED BY <3>2, <3>3
  <2> QED BY <2>9, <2>10
<1>11. Unmasked(r, bs)
  <2>1. r.path \in PathSet(bs)
    BY <1>4, <1>5, ZenonT(30)
  <2>2. (\A x \in Range(bs) : x.path = r.path => x.status = "PASS") => r.status = "PASS"
    BY <1>5, <1>9, ZenonT(30)
  <2>3. \A x \in Range(bs) : x.path = r.path => Rank(x.status) <= Rank(r.status)
    BY <1>5, <1>10, ZenonT(30)
  <2> QED BY <1>5, <2>1, <2>2, <2>3, UnmaskedRanks, ZenonT(30)
<1> QED BY <1>4, <1>11, ZenonT(30) DEF r


(* Sums over the files are sums over the runs. *)
LEMMA SumsMerged ==
    ASSUME NEW cs \in Seq(Chunks), NEW bb \in Seq(Seq(Chunks)), DOMAIN cs = DOMAIN bb,
           NEW w, Weight(w, Reports), NEW p,
           \A k \in DOMAIN cs :
              /\ \A i1, i2 \in DOMAIN cs[k].results :
                    cs[k].results[i1].path = cs[k].results[i2].path => i1 = i2
              /\ PathSet(cs[k].results) = PathSet(AllResults(bb[k]))
              /\ Accounts(cs[k].results, AllResults(bb[k]), w)
    PROVE  SumW(AllResults(cs), Only(p, w)) = SumW(AllResults(Joined(bb)), Only(p, w))
<1> DEFINE o == Only(p, w)
<1>1. Weight(o, Reports)
  BY OnlyWeight, ZenonT(30)
<1>2. /\ \A k \in DOMAIN cs : cs[k] \in Chunks
      /\ \A k \in DOMAIN cs : bb[k] \in Seq(Chunks)
  OBVIOUS
<1>3. ASSUME NEW k \in DOMAIN cs
      PROVE  SumW(cs[k].results, o) = SumW(AllResults(bb[k]), o)
  <2>1. cs[k].results \in Seq(Reports)
    BY <1>2, ChunkTypes, ZenonT(30)
  <2>2. AllResults(bb[k]) \in Seq(Reports)
    BY <1>2, AllTypes, ZenonT(30)
  <2> QED BY <2>1, <2>2, Carried, ZenonT(30)
<1>4. SumW(AllResults(cs), o) = Added([k \in DOMAIN cs |-> SumW(cs[k].results, o)])
  BY <1>1, AllSum, ZenonT(30)
<1>5. SumW(AllResults(Joined(bb)), o) = Added([k \in DOMAIN bb |-> SumW(AllResults(bb[k]), o)])
  BY <1>1, BaseSum, ZenonT(30)
<1> HIDE DEF o
<1>6. [k \in DOMAIN cs |-> SumW(cs[k].results, o)] = [k \in DOMAIN bb |-> SumW(AllResults(bb[k]), o)]
  BY <1>3, ZenonT(30)
<1>7. SumW(AllResults(cs), o) = SumW(AllResults(Joined(bb)), o)
  BY <1>4, <1>5, <1>6, ZenonT(30)
<1> QED BY <1>7, ZenonT(30) DEF o

(* TotalsOf speaks of sums over the reports of one path. *)
LEMMA TotalsBySums ==
    ASSUME NEW r, NEW bs \in Seq(Reports)
    PROVE  TotalsOf(r, bs) <=>
             /\ r.n = SumW(bs, Only(r.path, NOf))
             /\ r.attempted = SumW(bs, Only(r.path, AttemptedOf))
             /\ r.udp = CountersOf(bs, r.path)
<1>1. SumOf(bs, r.path, [k \in DOMAIN bs |-> bs[k].n]) = SumW(bs, Only(r.path, NOf))
  BY SumOfWeight, WeighedFields, ZenonT(30)
<1>2. SumOf(bs, r.path, [k \in DOMAIN bs |-> bs[k].attempted]) = SumW(bs, Only(r.path, AttemptedOf))
  BY SumOfWeight, WeighedFields, ZenonT(30)
<1> QED BY <1>1, <1>2, ZenonT(30) DEF TotalsOf

(* A merge of files with samples accounts for the runs they stand for. *)
LEMMA TotalsMerged ==
    ASSUME NEW cs \in Seq(Chunks), NEW bb \in Seq(Seq(Chunks)), DOMAIN cs = DOMAIN bb,
           \A k \in DOMAIN cs :
              /\ ReportsOK(cs[k].results)
              /\ \A j \in DOMAIN cs[k].results : cs[k].results[j].n = Len(cs[k].results[j].samples)
              /\ \A j \in DOMAIN cs[k].results : TotalsOf(cs[k].results[j], AllResults(bb[k]))
              /\ PathSet(cs[k].results) = PathSet(AllResults(bb[k])),
           NEW p \in PathSet(AllResults(cs))
    PROVE  TotalsOf(MergePath(p, AllResults(cs)), AllResults(Joined(bb)))
<1> DEFINE rs == AllResults(cs)
           bs == AllResults(Joined(bb))
           r == MergePath(p, rs)
           Cs == {"sent", "acked", "dropped"}
<1>1. rs \in Seq(Reports) /\ bs \in Seq(Reports)
  BY AllTypes, BaseTypes, ZenonT(30)
<1>2. \A x : x \in Range(rs) <=> \E c \in Range(cs) : x \in Range(c.results)
  BY AllTypes, ZenonT(30)
<1>3. /\ \A k \in DOMAIN cs : cs[k] \in Chunks
      /\ \A k \in DOMAIN cs : bb[k] \in Seq(Chunks)
  OBVIOUS
<1>4. \A k \in DOMAIN cs :
         /\ Accounts(cs[k].results, AllResults(bb[k]), NOf)
         /\ Accounts(cs[k].results, AllResults(bb[k]), AttemptedOf)
         /\ \A c \in Cs : Accounts(cs[k].results, AllResults(bb[k]), CountedOf(c))
  <2> SUFFICES ASSUME NEW k \in DOMAIN cs
               PROVE  /\ Accounts(cs[k].results, AllResults(bb[k]), NOf)
                      /\ Accounts(cs[k].results, AllResults(bb[k]), AttemptedOf)
                      /\ \A c \in Cs : Accounts(cs[k].results, AllResults(bb[k]), CountedOf(c))
    BY ZenonT(30)
  <2>1. cs[k].results \in Seq(Reports)
    BY <1>3, ChunkTypes, ZenonT(30)
  <2>2. AllResults(bb[k]) \in Seq(Reports)
    BY <1>3, AllTypes, ZenonT(30)
  <2> QED BY <2>1, <2>2, TotalsAccount, ZenonT(30)
<1>5. \A k \in DOMAIN cs :
         /\ \A i1, i2 \in DOMAIN cs[k].results :
               cs[k].results[i1].path = cs[k].results[i2].path => i1 = i2
         /\ PathSet(cs[k].results) = PathSet(AllResults(bb[k]))
  BY ZenonT(30) DEF ReportsOK
<1>6. /\ SumW(rs, Only(p, NOf)) = SumW(bs, Only(p, NOf))
      /\ SumW(rs, Only(p, AttemptedOf)) = SumW(bs, Only(p, AttemptedOf))
      /\ \A c \in Cs : SumW(rs, Only(p, CountedOf(c))) = SumW(bs, Only(p, CountedOf(c)))
  <2>1. SumW(rs, Only(p, NOf)) = SumW(bs, Only(p, NOf))
    BY <1>4, <1>5, WeightTypes, SumsMerged, ZenonT(30)
  <2>2. SumW(rs, Only(p, AttemptedOf)) = SumW(bs, Only(p, AttemptedOf))
    BY <1>4, <1>5, WeightTypes, SumsMerged, ZenonT(30)
  <2>3. ASSUME NEW c \in Cs
        PROVE  SumW(rs, Only(p, CountedOf(c))) = SumW(bs, Only(p, CountedOf(c)))
    BY <1>4, <1>5, WeightTypes, SumsMerged, ZenonT(30)
  <2> QED BY <2>1, <2>2, <2>3, ZenonT(30)
<1>7. \A k \in DOMAIN rs : ReportOK(rs[k]) /\ rs[k].n = Len(rs[k].samples)
  <2> SUFFICES ASSUME NEW k \in DOMAIN rs PROVE ReportOK(rs[k]) /\ rs[k].n = Len(rs[k].samples)
    BY ZenonT(30)
  <2>1. rs[k] \in Range(rs)
    BY InRange, ZenonT(30)
  <2>2. PICK c \in Range(cs) : rs[k] \in Range(c.results)
    BY <1>2, <2>1, ZenonT(30)
  <2>3. PICK m \in DOMAIN cs : c = cs[m]
    BY <2>2, InRange, ZenonT(30)
  <2>4. PICK j \in DOMAIN cs[m].results : rs[k] = cs[m].results[j]
    BY <2>2, <2>3, InRange, ZenonT(30)
  <2> QED BY <2>4, ZenonT(30) DEF ReportsOK
<1>8. p \in Paths
  <2>1. PICK x \in Range(rs) : x.path = p
    BY ZenonT(30) DEF PathSet
  <2>2. x \in Reports
    BY <1>1 DEF Range
  <2> QED BY <2>1, <2>2, ReportTypes, ZenonT(30)
<1> HIDE DEF rs, bs
<1>9. /\ r.path = p /\ r.n = Len(SamplesOf(rs, p)) /\ r.udp = CountersOf(rs, p)
      /\ r.attempted = Len(SamplesOf(rs, p)) + Total(FailuresOf(rs, p))
  <2>1. p \in PathSet(rs)
    BY ZenonT(30) DEF rs
  <2> QED BY <1>1, <1>8, <2>1, PathMerged, ZenonT(30)
<1>10. Len(SamplesOf(rs, p)) = SumW(rs, Only(p, NOf))
  BY <1>1, <1>7, SamplesCounted, ZenonT(30)
<1>11. SumW(rs, Only(p, AttemptedOf)) = SumW(rs, Only(p, NOf)) + Total(FailuresOf(rs, p))
  BY <1>1, <1>7, AttemptsSummed, ZenonT(30)
<1>12. CountersOf(rs, p) = CountersOf(bs, p)
  <2>1. CountersOf(rs, p) = [sent |-> SumW(rs, Only(p, CountedOf("sent"))),
                             acked |-> SumW(rs, Only(p, CountedOf("acked"))),
                             dropped |-> SumW(rs, Only(p, CountedOf("dropped")))]
    BY <1>1, CountersSummed, ZenonT(30)
  <2>2. CountersOf(bs, p) = [sent |-> SumW(bs, Only(p, CountedOf("sent"))),
                             acked |-> SumW(bs, Only(p, CountedOf("acked"))),
                             dropped |-> SumW(bs, Only(p, CountedOf("dropped")))]
    BY <1>1, CountersSummed, ZenonT(30)
  <2>3. /\ SumW(rs, Only(p, CountedOf("sent"))) = SumW(bs, Only(p, CountedOf("sent")))
        /\ SumW(rs, Only(p, CountedOf("acked"))) = SumW(bs, Only(p, CountedOf("acked")))
        /\ SumW(rs, Only(p, CountedOf("dropped"))) = SumW(bs, Only(p, CountedOf("dropped")))
    BY <1>6, ZenonT(30)
  <2> QED BY <2>1, <2>2, <2>3
<1> HIDE DEF r
<1>13. TotalsOf(r, bs)
  <2>1. r.n = SumW(bs, Only(r.path, NOf))
    BY <1>6, <1>9, <1>10, ZenonT(30)
  <2>2. r.attempted = SumW(bs, Only(r.path, AttemptedOf))
    BY <1>6, <1>9, <1>10, <1>11, ZenonT(30)
  <2>3. r.udp = CountersOf(bs, r.path)
    BY <1>9, <1>12, ZenonT(30)
  <2> QED BY <1>1, <2>1, <2>2, <2>3, TotalsBySums, ZenonT(30)
<1> QED BY <1>13, ZenonT(30) DEF r, rs, bs


-----------------------------------------------------------------------------
(* Files.                                                                  *)

(* A file c that stands for the runs b. *)
Account(c, b) == \A k \in DOMAIN c.results : TotalsOf(c.results[k], AllResults(b))
Whole(c) == \A k \in DOMAIN c.results : c.results[k].n = Len(c.results[k].samples)
Filed(c, b) ==
    /\ c \in Chunks /\ b \in Seq(Chunks) /\ ReportsOK(c.results)
    /\ \A k \in DOMAIN b : b[k].setting = c.setting
    /\ Stands(c.results, AllResults(b))

(* A chunk has the fields it was made with. *)
LEMMA ChunkMade ==
    ASSUME NEW s \in Settings, NEW t \in Tenants, NEW rs \in Seq(Reports)
    PROVE  LET c == Chunk(s, t, rs)
           IN  c \in Chunks /\ c.setting = s /\ c.tenant = t /\ c.results = rs
  BY DEF Chunk, Chunks

(* A chunk with other results: the rest of it stays. *)
LEMMA ChunkChanged ==
    ASSUME NEW c \in Chunks, NEW rs \in Seq(Reports)
    PROVE  LET d == [c EXCEPT !.results = rs]
           IN  d \in Chunks /\ d.setting = c.setting /\ d.tenant = c.tenant /\ d.results = rs
  BY DEF Chunks

(* Results without their samples say the same. *)
SameCounts(q, r) ==
    /\ q.path = r.path /\ q.n = r.n /\ q.attempted = r.attempted /\ q.udp = r.udp
    /\ q.status = r.status
SameResults(qs, rs) ==
    /\ qs \in Seq(Reports) /\ ReportsOK(qs) /\ DOMAIN qs = DOMAIN rs
    /\ \A k \in DOMAIN rs : SameCounts(qs[k], rs[k])

(* Results written with or without samples have the same counts and        *)
(* statuses, and are in order.                                             *)
LEMMA ResultsSame ==
    ASSUME NEW rs \in Seq(Reports), ReportsOK(rs)
    PROVE  SameResults(rs, rs) /\ SameResults(Bared(rs), rs)
<1> DEFINE n == Len(rs)
<1>1. n \in Nat /\ DOMAIN rs = 1 .. n /\ \A k \in 1 .. n : rs[k] \in Reports
  OBVIOUS
<1> HIDE DEF n
<1>2. Bared(rs) = [k \in 1 .. n |-> Bare(rs[k])]
  BY <1>1, ZenonT(30) DEF Bared
<1>3. Bared(rs) \in [1 .. n -> Reports]
  BY <1>1, <1>2, Bares, ZenonT(30)
<1>4. Bared(rs) \in Seq(Reports) /\ DOMAIN Bared(rs) = 1 .. n
  BY <1>1, <1>3, FunSeq
<1>5. \A k \in 1 .. n : Bared(rs)[k] = Bare(rs[k])
  BY <1>2, ZenonT(30)
<1>6. \A k \in 1 .. n : SameCounts(Bare(rs[k]), rs[k])
  BY <1>1, Bares, ZenonT(30) DEF SameCounts
<1>7. \A k \in 1 .. n : ReportOK(Bare(rs[k]))
  <2> SUFFICES ASSUME NEW k \in 1 .. n PROVE ReportOK(Bare(rs[k]))
    BY ZenonT(30)
  <2>1. rs[k] \in Reports /\ ReportOK(rs[k])
    BY <1>1, ZenonT(30) DEF ReportsOK
  <2>2. /\ Bare(rs[k]).n = rs[k].n /\ Bare(rs[k]).attempted = rs[k].attempted
        /\ Bare(rs[k]).fb = rs[k].fb /\ Bare(rs[k]).status = rs[k].status
        /\ Bare(rs[k]).samples = <<>>
    BY <2>1, Bares, ZenonT(30)
  <2> QED BY <2>1, <2>2, ZenonT(30) DEF ReportOK, Ranked
<1>8. ReportsOK(Bared(rs))
  <2>1. \A k \in DOMAIN Bared(rs) : ReportOK(Bared(rs)[k])
    BY <1>4, <1>5, <1>7, ZenonT(30)
  <2>2. \A j, k \in DOMAIN Bared(rs) : Bared(rs)[j].path = Bared(rs)[k].path => j = k
    <3> SUFFICES ASSUME NEW j \in 1 .. n, NEW k \in 1 .. n, Bared(rs)[j].path = Bared(rs)[k].path
                 PROVE  j = k
      BY <1>4, ZenonT(30)
    <3>1. rs[j].path = rs[k].path
      BY <1>5, <1>6, ZenonT(30) DEF SameCounts
    <3> QED BY <1>1, <3>1, ZenonT(30) DEF ReportsOK
  <2> QED BY <2>1, <2>2, ZenonT(30) DEF ReportsOK
<1>9. SameResults(Bared(rs), rs)
  BY <1>1, <1>4, <1>5, <1>6, <1>8, ZenonT(30) DEF SameResults
<1> QED BY <1>9, ZenonT(30) DEF SameResults, SameCounts

(* Results with the same counts are of the same paths. *)
LEMMA SamePaths ==
    ASSUME NEW rs \in Seq(Reports), NEW qs, SameResults(qs, rs)
    PROVE  PathSet(qs) = PathSet(rs)
<1>1. DOMAIN qs = DOMAIN rs /\ \A k \in DOMAIN rs : qs[k].path = rs[k].path
  BY ZenonT(30) DEF SameResults, SameCounts
<1>2. ASSUME NEW p \in PathSet(qs) PROVE p \in PathSet(rs)
  <2>1. PICK x \in Range(qs) : x.path = p
    BY ZenonT(30) DEF PathSet
  <2>2. PICK k \in DOMAIN qs : x = qs[k]
    BY <2>1, InRange, ZenonT(30)
  <2>3. rs[k] \in Range(rs)
    BY <1>1, InRange, ZenonT(30)
  <2> QED BY <1>1, <2>1, <2>2, <2>3, ZenonT(30) DEF PathSet
<1>3. ASSUME NEW p \in PathSet(rs) PROVE p \in PathSet(qs)
  <2>1. PICK x \in Range(rs) : x.path = p
    BY ZenonT(30) DEF PathSet
  <2>2. PICK k \in DOMAIN rs : x = rs[k]
    BY <2>1, InRange, ZenonT(30)
  <2>3. qs[k] \in Range(qs)
    BY <1>1, InRange, ZenonT(30)
  <2> QED BY <1>1, <2>1, <2>2, <2>3, ZenonT(30) DEF PathSet
<1> QED BY <1>2, <1>3, ZenonT(30)

(* Only counts and statuses matter to Filed and Account. *)
LEMMA SameFile ==
    ASSUME NEW c, NEW b, Filed(c, b), NEW d \in Chunks, d.setting = c.setting,
           SameResults(d.results, c.results)
    PROVE  Filed(d, b) /\ (Account(c, b) => Account(d, b))
<1> DEFINE rs == c.results
           qs == d.results
           bs == AllResults(b)
<1>1. rs \in Seq(Reports) /\ bs \in Seq(Reports) /\ PathSet(rs) = PathSet(bs)
      /\ \A r \in Range(rs) : Unmasked(r, bs)
  BY ZenonT(30) DEF Filed, Stands
<1>2. qs \in Seq(Reports) /\ ReportsOK(qs) /\ DOMAIN qs = DOMAIN rs
      /\ \A k \in DOMAIN rs : SameCounts(qs[k], rs[k])
  BY ZenonT(30) DEF SameResults
<1>3. PathSet(qs) = PathSet(bs)
  BY <1>1, SamePaths, ZenonT(30)
<1>4. b \in Seq(Chunks) /\ \A k \in DOMAIN b : b[k].setting = c.setting
  BY ZenonT(30) DEF Filed
<1> HIDE DEF rs, qs, bs
<1>5. \A q \in Range(qs) : ReportOK(q) /\ Unmasked(q, bs)
  <2> SUFFICES ASSUME NEW q \in Range(qs) PROVE ReportOK(q) /\ Unmasked(q, bs)
    BY ZenonT(30)
  <2>1. PICK k \in DOMAIN qs : q = qs[k]
    BY InRange, ZenonT(30)
  <2>2. rs[k] \in Range(rs)
    BY <1>2, <2>1, InRange, ZenonT(30)
  <2>3. q.path = rs[k].path /\ q.status = rs[k].status
    BY <1>2, <2>1, ZenonT(30) DEF SameCounts
  <2>4. Unmasked(rs[k], bs)
    BY <1>1, <2>2, ZenonT(30)
  <2>5. Unmasked(q, bs)
    BY <2>3, <2>4, ZenonT(30) DEF Unmasked
  <2> QED BY <1>2, <2>1, <2>5, ZenonT(30) DEF ReportsOK
<1>6. Stands(qs, bs)
  BY <1>1, <1>2, <1>3, <1>5, ZenonT(30) DEF Stands
<1>7. Filed(d, b)
  BY <1>2, <1>4, <1>6, ZenonT(30) DEF Filed, qs, bs
<1>8. ASSUME Account(c, b) PROVE Account(d, b)
  <2> SUFFICES ASSUME NEW k \in DOMAIN qs PROVE TotalsOf(qs[k], bs)
    BY ZenonT(30) DEF Account, qs, bs
  <2>1. TotalsOf(rs[k], bs)
    BY <1>2, <1>8, ZenonT(30) DEF Account, rs, bs
  <2>2. qs[k].path = rs[k].path /\ qs[k].n = rs[k].n /\ qs[k].attempted = rs[k].attempted
        /\ qs[k].udp = rs[k].udp
    BY <1>2, ZenonT(30) DEF SameCounts
  <2> QED BY <1>1, <2>1, <2>2, TotalsBySums, ZenonT(30)
<1> QED BY <1>7, <1>8


(* Where a path has one result, its sum is that result's count. *)
LEMMA SumOnly ==
    ASSUME NEW rs \in Seq(Reports), NEW w, Weight(w, Reports), NEW k \in DOMAIN rs,
           \A i1, i2 \in DOMAIN rs : rs[i1].path = rs[i2].path => i1 = i2
    PROVE  SumW(rs, Only(rs[k].path, w)) = w[rs[k]]
<1> DEFINE o == Only(rs[k].path, w)
           a == Weighed(rs, o)
<1>1. /\ Weight(o, Reports)
      /\ \A r \in Reports : /\ r.path = rs[k].path => o[r] = w[r]
                            /\ r.path # rs[k].path => o[r] = 0
  BY OnlyWeight, ZenonT(30)
<1> HIDE DEF o
<1>2. ReadsAs(a, rs, o)
  BY <1>1, Weights, ZenonT(30)
<1>3. SumW(rs, o) = Added(a)
  BY ZenonT(30) DEF SumW
<1> HIDE DEF a
<1>4. a \in Seq(Nat) /\ Len(a) = Len(rs) /\ \A m \in 1 .. Len(rs) : a[m] = o[rs[m]]
  BY <1>2, ZenonT(30) DEF ReadsAs
<1>5. DOMAIN rs = 1 .. Len(rs) /\ Len(rs) \in Nat /\ \A m \in DOMAIN rs : rs[m] \in Reports
  OBVIOUS
<1>6. k \in 1 .. Len(a) /\ k \in Nat
  BY <1>4, <1>5
<1>7. \A m \in 1 .. Len(a) : m # k => a[m] = 0
  BY <1>1, <1>4, <1>5, ZenonT(30)
<1>8. Added(a) = a[k]
  BY <1>4, <1>6, <1>7, AddedSingle, ZenonT(30)
<1>9. a[k] = w[rs[k]]
  BY <1>1, <1>4, <1>5, ZenonT(30)
<1> QED BY <1>3, <1>8, <1>9, ZenonT(30) DEF o

(* A single chunk has its own results and sums. *)
LEMMA OneChunk ==
    ASSUME NEW c \in Chunks
    PROVE  /\ <<c>> \in Seq(Chunks) /\ AllResults(<<c>>) \in Seq(Reports)
           /\ \A k \in DOMAIN <<c>> : <<c>>[k] = c
           /\ \A x : x \in Range(AllResults(<<c>>)) <=> x \in Range(c.results)
           /\ \A w : Weight(w, Reports) => SumW(AllResults(<<c>>), w) = SumW(c.results, w)
<1> DEFINE cs == <<c>>
<1>1. cs \in Seq(Chunks) /\ DOMAIN cs = {1} /\ Len(cs) = 1 /\ cs[1] = c
  OBVIOUS
<1> HIDE DEF cs
<1>2. AllResults(cs) \in Seq(Reports)
      /\ \A x : x \in Range(AllResults(cs)) <=> \E e \in Range(cs) : x \in Range(e.results)
  BY <1>1, AllTypes, ZenonT(30)
<1>3. \A e : e \in Range(cs) <=> e = c
  BY <1>1, ZenonT(30) DEF Range
<1>4. \A x : x \in Range(AllResults(cs)) <=> x \in Range(c.results)
  <2>1. ASSUME NEW x \in Range(AllResults(cs)) PROVE x \in Range(c.results)
    <3>1. PICK e \in Range(cs) : x \in Range(e.results)
      BY <1>2, ZenonT(30)
    <3>2. e = c
      BY <1>3, <3>1, ZenonT(30)
    <3> QED BY <3>1, <3>2, ZenonT(30)
  <2>2. ASSUME NEW x \in Range(c.results) PROVE x \in Range(AllResults(cs))
    BY <1>2, <1>3, <2>2
  <2> QED BY <2>1, <2>2, ZenonT(30)
<1>5. ASSUME NEW w, Weight(w, Reports) PROVE SumW(AllResults(cs), w) = SumW(c.results, w)
  <2> DEFINE v == [k \in DOMAIN cs |-> SumW(cs[k].results, w)]
  <2>1. SumW(AllResults(cs), w) = Added(v) /\ v \in Seq(Nat)
    BY <1>1, <1>5, AllSum, ZenonT(30)
  <2>2. DOMAIN v = {1} /\ v[1] = SumW(c.results, w)
    BY <1>1, ZenonT(30)
  <2> HIDE DEF v
  <2>3. DOMAIN v = 1 .. Len(v) /\ Len(v) \in Nat
    BY <2>1
  <2>4. 1 \in 1 .. Len(v) /\ 1 \in Nat /\ \A m \in 1 .. Len(v) : m # 1 => v[m] = 0
    BY <2>2, <2>3, ZenonT(30)
  <2>5. Added(v) = v[1]
    BY <2>1, <2>4, AddedSingle, ZenonT(30)
  <2> QED BY <2>1, <2>2, <2>5, ZenonT(30)
<1> QED BY <1>1, <1>2, <1>4, <1>5, ZenonT(30) DEF cs

(* Counters are given by their three fields. *)
LEMMA CountersGiven ==
    ASSUME NEW u \in Counters
    PROVE  u = [sent |-> u["sent"], acked |-> u["acked"], dropped |-> u["dropped"]]
  BY DEF Counters

(* A run's file stands for the run. *)
LEMMA RunFiled ==
    ASSUME NEW c \in Chunks, ReportsOK(c.results)
    PROVE  Filed(c, <<c>>) /\ Account(c, <<c>>)
<1> DEFINE rs == c.results
           bs == AllResults(<<c>>)
<1>1. rs \in Seq(Reports)
  BY ChunkTypes, ZenonT(30)
<1>2. /\ <<c>> \in Seq(Chunks) /\ bs \in Seq(Reports)
      /\ \A k \in DOMAIN <<c>> : <<c>>[k] = c
      /\ \A x : x \in Range(bs) <=> x \in Range(rs)
      /\ \A w : Weight(w, Reports) => SumW(bs, w) = SumW(rs, w)
  BY OneChunk, ZenonT(30)
<1>3. /\ \A k \in DOMAIN rs : ReportOK(rs[k]) /\ rs[k] \in Reports
      /\ \A i1, i2 \in DOMAIN rs : rs[i1].path = rs[i2].path => i1 = i2
  <2>1. \A k \in DOMAIN rs : rs[k] \in Reports
    BY <1>1
  <2> QED BY <2>1, ZenonT(30) DEF ReportsOK
<1> HIDE DEF rs, bs
<1>4. PathSet(rs) = PathSet(bs)
  BY <1>2, ZenonT(30) DEF PathSet
<1>5. ASSUME NEW r \in Range(rs) PROVE ReportOK(r) /\ Unmasked(r, bs)
  <2>1. PICK k \in DOMAIN rs : r = rs[k]
    BY InRange, ZenonT(30)
  <2>2. r \in Reports /\ ReportOK(r)
    BY <1>3, <2>1, ZenonT(30)
  <2>3. \A x \in Range(bs) : x.path = r.path => x = r
    <3> SUFFICES ASSUME NEW x \in Range(bs), x.path = r.path PROVE x = r
      BY ZenonT(30)
    <3>0. x \in Range(rs)
      BY <1>2, ZenonT(30)
    <3>1. PICK m \in DOMAIN rs : x = rs[m]
      BY <3>0, InRange, ZenonT(30)
    <3> QED BY <1>3, <2>1, <3>1, ZenonT(30)
  <2>4. r \in Range(bs)
    BY <1>2, ZenonT(30)
  <2>5. r.path \in PathSet(bs)
    BY <2>4, ZenonT(30) DEF PathSet
  <2>6. Rank(r.status) <= Rank(r.status)
    <3>1. Rank(r.status) \in Nat
      BY <2>2, ReportTypes, RankTypes, ZenonT(30)
    <3> QED BY <3>1
  <2>7. Unmasked(r, bs)
    <3>1. (\A x \in Range(bs) : x.path = r.path => x.status = "PASS") => r.status = "PASS"
      BY <2>4, ZenonT(30)
    <3>2. \A x \in Range(bs) : x.path = r.path => Rank(x.status) <= Rank(r.status)
      BY <2>3, <2>6, ZenonT(30)
    <3> QED BY <1>2, <2>2, <2>5, <3>1, <3>2, UnmaskedRanks, ZenonT(30)
  <2> QED BY <2>2, <2>7, ZenonT(30)
<1>6. Stands(rs, bs)
  BY <1>1, <1>2, <1>4, <1>5, ZenonT(30) DEF Stands
<1>7. Filed(c, <<c>>)
  BY <1>2, <1>6, ZenonT(30) DEF Filed, rs, bs
<1>8. Account(c, <<c>>)
  <2> SUFFICES ASSUME NEW k \in DOMAIN rs PROVE TotalsOf(rs[k], bs)
    BY ZenonT(30) DEF Account, rs, bs
  <2> DEFINE p == rs[k].path
  <2>1. \A w : Weight(w, Reports) => SumW(bs, Only(p, w)) = w[rs[k]]
    <3> SUFFICES ASSUME NEW w, Weight(w, Reports) PROVE SumW(bs, Only(p, w)) = w[rs[k]]
      BY ZenonT(30)
    <3>1. Weight(Only(p, w), Reports)
      BY OnlyWeight, ZenonT(30)
    <3>2. SumW(bs, Only(p, w)) = SumW(rs, Only(p, w))
      BY <1>2, <3>1, ZenonT(30)
    <3>3. SumW(rs, Only(p, w)) = w[rs[k]]
      BY <1>1, <1>3, SumOnly, ZenonT(30)
    <3> QED BY <3>2, <3>3, ZenonT(30)
  <2>2. SumW(bs, Only(p, NOf)) = NOf[rs[k]] /\ SumW(bs, Only(p, AttemptedOf)) = AttemptedOf[rs[k]]
        /\ \A e \in {"sent", "acked", "dropped"} : SumW(bs, Only(p, CountedOf(e))) = CountedOf(e)[rs[k]]
    BY <2>1, WeightTypes, ZenonT(30)
  <2>3. /\ NOf[rs[k]] = rs[k].n /\ AttemptedOf[rs[k]] = rs[k].attempted
        /\ \A e : CountedOf(e)[rs[k]] = rs[k].udp[e]
    BY <1>3, ZenonT(30) DEF NOf, AttemptedOf, CountedOf
  <2>4. CountersOf(bs, p) = [sent |-> SumW(bs, Only(p, CountedOf("sent"))),
                             acked |-> SumW(bs, Only(p, CountedOf("acked"))),
                             dropped |-> SumW(bs, Only(p, CountedOf("dropped")))]
    BY <1>2, CountersSummed, ZenonT(30)
  <2>5. CountersOf(bs, p) = [sent |-> rs[k].udp["sent"], acked |-> rs[k].udp["acked"],
                             dropped |-> rs[k].udp["dropped"]]
    BY <2>2, <2>3, <2>4, ZenonT(30)
  <2>6. rs[k].udp \in Counters
    BY <1>3, ReportTypes, ZenonT(30)
  <2>7. rs[k].udp = CountersOf(bs, p)
    BY <2>5, <2>6, CountersGiven, ZenonT(30)
  <2> QED BY <1>2, <2>2, <2>3, <2>7, TotalsBySums, ZenonT(30)
<1> QED BY <1>7, <1>8


(* What mergeChunks writes stands for all the runs its inputs stand for. *)
LEMMA MergedFiled ==
    ASSUME NEW cs \in Seq(Chunks), NEW bb \in Seq(Seq(Chunks)), DOMAIN cs = DOMAIN bb,
           1 \in DOMAIN cs, ~Fatal(cs),
           \A k \in DOMAIN cs : Readable(cs[k]),
           \A k \in DOMAIN cs : Filed(cs[k], bb[k])
    PROVE  /\ Filed(MergeChunks(cs), Joined(bb))
           /\ (\A k \in DOMAIN cs : Whole(cs[k]) /\ Account(cs[k], bb[k]))
                => Account(MergeChunks(cs), Joined(bb))
<1> DEFINE b == Joined(bb)
           rs == AllResults(cs)
           bs == AllResults(b)
           order == PathOrder(cs)
           n == Len(order)
           ms == [k \in DOMAIN order |-> MergePath(order[k], rs)]
           m == MergeChunks(cs)
<1>1. rs \in Seq(Reports)
      /\ \A x : x \in Range(rs) <=> \E c \in Range(cs) : x \in Range(c.results)
  BY AllTypes, ZenonT(30)
<1>2. b \in Seq(Chunks)
  BY BaseTypes, ZenonT(30)
<1>3. bs \in Seq(Reports)
      /\ \A x : x \in Range(bs) <=> \E k \in DOMAIN bb : x \in Range(AllResults(bb[k]))
  BY BaseTypes, ZenonT(30)
<1>4. \A c : c \in Range(b) <=> \E k \in DOMAIN bb : c \in Range(bb[k])
  BY BaseTypes, ZenonT(30)
<1>5. order \in Seq(Paths) /\ Distinct(order) /\ Range(order) = PathSet(rs)
  <2>1. order \in Seq(Paths) /\ Distinct(order) /\ Range(order) = {r.path : r \in Range(rs)}
    BY <1>1, OrderedPaths, ZenonT(30)
  <2> QED BY <2>1, ZenonT(30) DEF PathSet
<1>6. m = Chunk(cs[1].setting, cs[1].tenant, ms)
  BY ZenonT(30) DEF MergeChunks
<1> HIDE DEF b, rs, bs, order, m
<1>7. n \in Nat /\ DOMAIN order = 1 .. n /\ \A k \in 1 .. n : order[k] \in Paths
  BY <1>5
<1>8. \A k \in 1 .. n : order[k] \in PathSet(rs)
  BY <1>5, <1>7, InRange, ZenonT(30)
<1>9. \A k \in 1 .. n : ms[k] = MergePath(order[k], rs)
  BY <1>7, ZenonT(30)
<1>10. \A k \in 1 .. n : ms[k] \in Reports /\ ReportOK(ms[k]) /\ ms[k].path = order[k]
  <2> SUFFICES ASSUME NEW k \in 1 .. n
               PROVE  ms[k] \in Reports /\ ReportOK(ms[k]) /\ ms[k].path = order[k]
    BY ZenonT(30)
  <2> DEFINE q == MergePath(order[k], rs)
  <2>1. q \in Reports /\ ReportOK(q) /\ q.path = order[k]
    BY <1>1, <1>7, <1>8, PathMerged, ZenonT(30)
  <2>2. ms[k] = q
    BY <1>9, ZenonT(30)
  <2> HIDE DEF q, ms
  <2> QED BY <2>1, <2>2, ZenonT(30)
<1>11. ms \in [1 .. n -> Reports]
  <2>1. ms = [k \in 1 .. n |-> MergePath(order[k], rs)]
    BY <1>7, ZenonT(30)
  <2>2. \A k \in 1 .. n : MergePath(order[k], rs) \in Reports
    BY <1>9, <1>10, ZenonT(30)
  <2> HIDE DEF ms
  <2> QED BY <2>1, <2>2, ZenonT(30)
<1> HIDE DEF ms, n
<1>12. ms \in Seq(Reports) /\ DOMAIN ms = 1 .. n
  BY <1>7, <1>11, FunSeq
<1>13. ReportsOK(ms)
  <2>1. \A j, k \in 1 .. n : order[j] = order[k] => j = k
    BY <1>5, <1>7, ZenonT(30) DEF Distinct
  <2> QED BY <1>10, <1>12, <2>1, ZenonT(30) DEF ReportsOK
<1>14. m \in Chunks /\ m.setting = cs[1].setting /\ m.results = ms
  <2>1. cs[1] \in Chunks
    OBVIOUS
  <2>2. cs[1].setting \in Settings /\ cs[1].tenant \in Tenants
    BY <2>1, ChunkTypes, ZenonT(30)
  <2> QED BY <1>6, <1>12, <2>2, ChunkMade
<1>15. \A j \in DOMAIN b : b[j].setting = m.setting
  <2> SUFFICES ASSUME NEW j \in DOMAIN b PROVE b[j].setting = cs[1].setting
    BY <1>14, ZenonT(30)
  <2>1. b[j] \in Range(b)
    BY InRange, ZenonT(30)
  <2>2. PICK k \in DOMAIN cs : b[j] \in Range(bb[k])
    BY <1>4, <2>1, ZenonT(30)
  <2>3. PICK i1 \in DOMAIN bb[k] : b[j] = bb[k][i1]
    BY <2>2, InRange, ZenonT(30)
  <2>4. bb[k][i1].setting = cs[k].setting
    BY ZenonT(30) DEF Filed
  <2>5. cs[k].setting = cs[1].setting
    BY ZenonT(30) DEF Fatal
  <2> QED BY <2>3, <2>4, <2>5, ZenonT(30)
<1>16. \A p \in PathSet(rs) : p \in PathSet(bs) /\ Unmasked(MergePath(p, rs), bs)
  <2> DEFINE K == DOMAIN cs
             rss == [k \in K |-> cs[k].results]
             bss == [k \in K |-> AllResults(bb[k])]
  <2>1. \A k \in K : rss[k] = cs[k].results /\ bss[k] = AllResults(bb[k])
    BY ZenonT(30)
  <2>2. \A k \in K : Stands(cs[k].results, AllResults(bb[k]))
    BY ZenonT(30) DEF Filed
  <2> HIDE DEF rss, bss
  <2>3. \A k \in K : Stands(rss[k], bss[k])
    BY <2>1, <2>2, ZenonT(30)
  <2>4. \A x : x \in Range(rs) <=> \E k \in K : x \in Range(rss[k])
    <3>1. ASSUME NEW x \in Range(rs) PROVE \E k \in K : x \in Range(rss[k])
      <4>1. PICK c \in Range(cs) : x \in Range(c.results)
        BY <1>1, ZenonT(30)
      <4>2. PICK k \in K : c = cs[k]
        BY <4>1, InRange, ZenonT(30)
      <4>3. rss[k] = c.results
        BY <2>1, <4>2, ZenonT(30)
      <4> QED BY <4>1, <4>3, ZenonT(30)
    <3>2. ASSUME NEW k \in K, NEW x \in Range(rss[k]) PROVE x \in Range(rs)
      <4>1. x \in Range(cs[k].results)
        BY <2>1, ZenonT(30)
      <4>2. cs[k] \in Range(cs)
        BY InRange, ZenonT(30)
      <4> QED BY <1>1, <4>1, <4>2, ZenonT(30)
    <3> QED BY <3>1, <3>2, ZenonT(30)
  <2>5. \A x : x \in Range(bs) <=> \E k \in K : x \in Range(bss[k])
    <3>1. ASSUME NEW x \in Range(bs) PROVE \E k \in K : x \in Range(bss[k])
      <4>1. PICK k \in DOMAIN bb : x \in Range(AllResults(bb[k]))
        BY <1>3, ZenonT(30)
      <4>2. k \in K /\ bss[k] = AllResults(bb[k])
        BY <2>1, <4>1, ZenonT(30)
      <4> QED BY <4>1, <4>2, ZenonT(30)
    <3>2. ASSUME NEW k \in K, NEW x \in Range(bss[k]) PROVE x \in Range(bs)
      <4>1. k \in DOMAIN bb /\ x \in Range(AllResults(bb[k]))
        BY <2>1, ZenonT(30)
      <4> QED BY <1>3, <4>1, ZenonT(30)
    <3> QED BY <3>1, <3>2, ZenonT(30)
  <2>6. \A x \in Range(rs) : x.status \in {"PASS", "PASS_WITH_FAILURES"} => x.samples # <<>>
    <3> SUFFICES ASSUME NEW x \in Range(rs), x.status \in {"PASS", "PASS_WITH_FAILURES"}
                 PROVE  x.samples # <<>>
      BY ZenonT(30)
    <3>1. PICK k \in K : x \in Range(rss[k])
      BY <2>4, ZenonT(30)
    <3>2. x \in Range(cs[k].results)
      BY <2>1, <3>1, ZenonT(30)
    <3>3. PICK j \in DOMAIN cs[k].results : x = cs[k].results[j]
      BY <3>2, InRange, ZenonT(30)
    <3>4. Readable(cs[k])
      BY ZenonT(30)
    <3>5. cs[k].results[j].status \in {"PASS", "PASS_WITH_FAILURES"} => cs[k].results[j].samples # <<>>
      BY <3>4, ZenonT(30) DEF Readable
    <3> QED BY <3>3, <3>5, ZenonT(30)
  <2> HIDE DEF K
  <2>7. Joins(rs, K, rss) /\ Joins(bs, K, bss) /\ Measured(rs)
    BY <2>4, <2>5, <2>6, ZenonT(30) DEF Joins, Measured
  <2>8. rs \in Seq(Reports) /\ bs \in Seq(Reports)
    BY <1>1, <1>3, ZenonT(30)
  <2> QED BY <2>3, <2>7, <2>8, StatusMerged, ZenonT(30)
<1>17. \A p \in PathSet(bs) : p \in PathSet(rs)
  <2> SUFFICES ASSUME NEW p \in PathSet(bs) PROVE p \in PathSet(rs)
    BY ZenonT(30)
  <2>1. PICK x \in Range(bs) : x.path = p
    BY ZenonT(30) DEF PathSet
  <2>2. PICK k \in DOMAIN bb : x \in Range(AllResults(bb[k]))
    BY <1>3, <2>1, ZenonT(30)
  <2>3. p \in PathSet(AllResults(bb[k]))
    BY <2>1, <2>2, ZenonT(30) DEF PathSet
  <2>4. p \in PathSet(cs[k].results)
    BY <2>2, <2>3, ZenonT(30) DEF Filed, Stands
  <2>5. PICK y \in Range(cs[k].results) : y.path = p
    BY <2>4, ZenonT(30) DEF PathSet
  <2>6. cs[k] \in Range(cs)
    BY <2>2, InRange, ZenonT(30)
  <2>7. y \in Range(rs)
    BY <1>1, <2>5, <2>6, ZenonT(30)
  <2> QED BY <2>5, <2>7, ZenonT(30) DEF PathSet
<1>18. \A r \in Range(ms) : \E p \in PathSet(rs) : r = MergePath(p, rs) /\ r.path = p /\ ReportOK(r)
  <2> SUFFICES ASSUME NEW r \in Range(ms)
               PROVE  \E p \in PathSet(rs) : r = MergePath(p, rs) /\ r.path = p /\ ReportOK(r)
    BY ZenonT(30)
  <2>1. PICK k \in 1 .. n : r = ms[k]
    BY <1>12, InRange, ZenonT(30)
  <2> QED BY <1>8, <1>9, <1>10, <2>1, ZenonT(30)
<1>19. PathSet(ms) = PathSet(rs)
  <2>1. ASSUME NEW p \in PathSet(ms) PROVE p \in PathSet(rs)
    <3>1. PICK r \in Range(ms) : r.path = p
      BY ZenonT(30) DEF PathSet
    <3> QED BY <1>18, <3>1, ZenonT(30)
  <2>2. ASSUME NEW p \in PathSet(rs) PROVE p \in PathSet(ms)
    <3>1. p \in Range(order)
      BY <1>5, ZenonT(30)
    <3>2. PICK k \in 1 .. n : p = order[k]
      BY <1>7, <3>1, InRange, ZenonT(30)
    <3>3. ms[k] \in Range(ms)
      BY <1>12, InRange, ZenonT(30)
    <3> QED BY <1>10, <3>2, <3>3, ZenonT(30) DEF PathSet
  <2> QED BY <2>1, <2>2, ZenonT(30)
<1>20. Stands(ms, bs)
  <2>1. PathSet(ms) = PathSet(bs)
    BY <1>16, <1>17, <1>19, ZenonT(30)
  <2>2. \A r \in Range(ms) : ReportOK(r) /\ Unmasked(r, bs)
    BY <1>16, <1>18, ZenonT(30)
  <2> QED BY <1>3, <1>12, <2>1, <2>2, ZenonT(30) DEF Stands
<1>21. Filed(m, b)
  BY <1>2, <1>13, <1>14, <1>15, <1>20, ZenonT(30) DEF Filed, bs
<1>22. ASSUME \A k \in DOMAIN cs : Whole(cs[k]) /\ Account(cs[k], bb[k])
       PROVE  Account(m, b)
  <2> SUFFICES ASSUME NEW k \in 1 .. n PROVE TotalsOf(ms[k], bs)
    BY <1>12, <1>14, ZenonT(30) DEF Account, bs
  <2>1. \A j \in DOMAIN cs :
           /\ ReportsOK(cs[j].results)
           /\ \A i1 \in DOMAIN cs[j].results : cs[j].results[i1].n = Len(cs[j].results[i1].samples)
           /\ \A i1 \in DOMAIN cs[j].results : TotalsOf(cs[j].results[i1], AllResults(bb[j]))
           /\ PathSet(cs[j].results) = PathSet(AllResults(bb[j]))
    BY <1>22, ZenonT(30) DEF Whole, Account, Filed, Stands
  <2>2. order[k] \in PathSet(AllResults(cs))
    BY <1>8, ZenonT(30) DEF rs
  <2>3. TotalsOf(MergePath(order[k], AllResults(cs)), AllResults(Joined(bb)))
    BY <2>1, <2>2, TotalsMerged, ZenonT(30)
  <2>4. TotalsOf(MergePath(order[k], rs), bs)
    BY <2>3, ZenonT(30) DEF rs, bs, b
  <2> QED BY <1>9, <2>4, ZenonT(30)
<1> QED BY <1>21, <1>22, ZenonT(30) DEF m, b


(* The paths of chunks are those of their results. *)
LEMMA PathsIn ==
    /\ \A c : PathsOf(c) = PathSet(c.results)
    /\ \A b \in Seq(Chunks) : UNION {PathsOf(b[k]) : k \in DOMAIN b} = PathSet(AllResults(b))
<1>1. \A c : PathsOf(c) = PathSet(c.results)
  <2> SUFFICES ASSUME NEW c PROVE PathsOf(c) = PathSet(c.results)
    BY ZenonT(30)
  <2>1. ASSUME NEW p \in PathsOf(c) PROVE p \in PathSet(c.results)
    <3>1. PICK k \in DOMAIN c.results : p = c.results[k].path
      BY ZenonT(30) DEF PathsOf
    <3>2. c.results[k] \in Range(c.results)
      BY InRange, ZenonT(30)
    <3> QED BY <3>1, <3>2, ZenonT(30) DEF PathSet
  <2>2. ASSUME NEW p \in PathSet(c.results) PROVE p \in PathsOf(c)
    <3>1. PICK x \in Range(c.results) : p = x.path
      BY ZenonT(30) DEF PathSet
    <3>2. PICK k \in DOMAIN c.results : x = c.results[k]
      BY <3>1, InRange, ZenonT(30)
    <3> QED BY <3>1, <3>2, ZenonT(30) DEF PathsOf
  <2> QED BY <2>1, <2>2, ZenonT(30)
<1>2. ASSUME NEW b \in Seq(Chunks)
      PROVE  UNION {PathsOf(b[k]) : k \in DOMAIN b} = PathSet(AllResults(b))
  <2>0. \A x : x \in Range(AllResults(b)) <=> \E c \in Range(b) : x \in Range(c.results)
    BY AllTypes, ZenonT(30)
  <2>1. ASSUME NEW k \in DOMAIN b, NEW p \in PathsOf(b[k]) PROVE p \in PathSet(AllResults(b))
    <3>1. p \in PathSet(b[k].results)
      BY <1>1, <2>1, ZenonT(30)
    <3>2. PICK x \in Range(b[k].results) : x.path = p
      BY <3>1, ZenonT(30) DEF PathSet
    <3>3. b[k] \in Range(b)
      BY InRange, ZenonT(30)
    <3>4. x \in Range(AllResults(b))
      BY <2>0, <3>2, <3>3, ZenonT(30)
    <3> QED BY <3>2, <3>4, ZenonT(30) DEF PathSet
  <2>2. ASSUME NEW p \in PathSet(AllResults(b)) PROVE \E k \in DOMAIN b : p \in PathsOf(b[k])
    <3>1. PICK x \in Range(AllResults(b)) : x.path = p
      BY <2>2, ZenonT(30) DEF PathSet
    <3>2. PICK c \in Range(b) : x \in Range(c.results)
      BY <2>0, <3>1, ZenonT(30)
    <3>3. PICK k \in DOMAIN b : c = b[k]
      BY <3>2, InRange, ZenonT(30)
    <3>4. p \in PathSet(c.results)
      BY <3>1, <3>2, ZenonT(30) DEF PathSet
    <3> QED BY <1>1, <3>3, <3>4, ZenonT(30)
  <2> QED BY <2>1, <2>2, ZenonT(30)
<1> QED BY <1>1, <1>2, ZenonT(30)

(* FilesInv, one file at a time. *)
FilesOK(fs, bs) ==
    /\ fs \in Seq(Chunks) /\ bs \in Seq(Seq(Chunks)) /\ Len(fs) = Len(bs)
    /\ \A f \in DOMAIN fs : Filed(fs[f], bs[f])
    /\ \A f \in DOMAIN fs : (\A g \in DOMAIN fs \ {f} : Whole(fs[g])) => Account(fs[f], bs[f])

(* One more file. *)
LEMMA FileAdded ==
    ASSUME NEW fs, NEW bs, FilesOK(fs, bs), NEW c, NEW b, Filed(c, b),
           (\A f \in DOMAIN fs : Whole(fs[f]) /\ Account(fs[f], bs[f])) => Account(c, b)
    PROVE  FilesOK(Append(fs, c), Append(bs, b))
<1> DEFINE n == Len(fs)
           gs == Append(fs, c)
           es == Append(bs, b)
<1>1. /\ fs \in Seq(Chunks) /\ bs \in Seq(Seq(Chunks)) /\ Len(fs) = Len(bs)
      /\ c \in Chunks /\ b \in Seq(Chunks)
  BY ZenonT(30) DEF FilesOK, Filed
<1>2. gs \in Seq(Chunks) /\ DOMAIN fs = 1 .. n /\ n \in Nat /\ Len(gs) = n + 1
      /\ DOMAIN gs = 1 .. n + 1 /\ gs[n + 1] = c /\ \A k \in 1 .. n : gs[k] = fs[k]
  BY <1>1
<1>3. es \in Seq(Seq(Chunks)) /\ Len(es) = n + 1
      /\ es[n + 1] = b /\ \A k \in 1 .. n : es[k] = bs[k]
  BY <1>1
<1>4. (\A k \in 1 .. n : k \in 1 .. n + 1 /\ k # n + 1) /\ n + 1 \in 1 .. n + 1
      /\ \A k \in 1 .. n + 1 : k = n + 1 \/ k \in 1 .. n
  BY <1>2
<1> HIDE DEF gs, es
<1>5. \A f \in DOMAIN gs : Filed(gs[f], es[f])
  BY <1>2, <1>3, <1>4, ZenonT(30) DEF FilesOK
<1>6. ASSUME NEW f \in DOMAIN gs, \A g \in DOMAIN gs \ {f} : Whole(gs[g])
      PROVE  Account(gs[f], es[f])
  <2>1. CASE f \in 1 .. n
    <3>1. \A g \in DOMAIN fs \ {f} : Whole(fs[g])
      BY <1>2, <1>4, <1>6, ZenonT(30)
    <3> QED BY <1>2, <1>3, <2>1, <3>1, ZenonT(30) DEF FilesOK
  <2>2. CASE f = n + 1
    <3>1. \A g \in 1 .. n : Whole(fs[g])
      BY <1>2, <1>4, <1>6, <2>2, ZenonT(30)
    <3>2. \A g \in DOMAIN fs : Account(fs[g], bs[g])
      BY <1>2, <3>1, ZenonT(30) DEF FilesOK
    <3>3. Account(c, b)
      BY <1>2, <3>1, <3>2, ZenonT(30)
    <3> QED BY <1>2, <1>3, <2>2, <3>3, ZenonT(30)
  <2> QED BY <1>2, <1>4, <2>1, <2>2, ZenonT(30)
<1>7. Len(gs) = Len(es)
  BY <1>2, <1>3, ZenonT(30)
<1>8. FilesOK(gs, es)
  BY <1>2, <1>3, <1>5, <1>6, <1>7, ZenonT(30) DEF FilesOK
<1> QED BY <1>8, ZenonT(30) DEF gs, es


(* eo-bench-merge. *)
LEMMA MergeFiled ==
    ASSUME NEW fs, NEW bs, FilesOK(fs, bs), NEW names \in Seq(1 .. Len(fs)), Len(names) >= 2,
           NEW cs, cs = [k \in DOMAIN names |-> fs[names[k]]],
           \A k \in DOMAIN cs : Readable(cs[k]), ~Fatal(cs), NEW keep \in BOOLEAN
    PROVE  LET merged == MergeChunks(cs)
           IN  FilesOK(Append(fs, IF keep THEN merged ELSE [merged EXCEPT !.results = Bared(@)]),
                       Append(bs, Joined([k \in DOMAIN names |-> bs[names[k]]])))
<1> DEFINE n == Len(fs)
           m == Len(names)
           bb == [k \in DOMAIN names |-> bs[names[k]]]
           b == Joined(bb)
           merged == MergeChunks(cs)
           bare == [merged EXCEPT !.results = Bared(merged.results)]
<1>1. /\ fs \in Seq(Chunks) /\ bs \in Seq(Seq(Chunks)) /\ Len(bs) = n
      /\ \A f \in DOMAIN fs : Filed(fs[f], bs[f])
  BY ZenonT(30) DEF FilesOK
<1>2. n \in Nat /\ DOMAIN fs = 1 .. n /\ DOMAIN bs = 1 .. n /\ m \in Nat /\ DOMAIN names = 1 .. m
      /\ (\A k \in 1 .. m : names[k] \in 1 .. n) /\ 1 \in 1 .. m
      /\ (\A k \in 1 .. n : fs[k] \in Chunks) /\ (\A k \in 1 .. n : bs[k] \in Seq(Chunks))
  BY <1>1
<1>3. /\ DOMAIN cs = 1 .. m /\ DOMAIN bb = 1 .. m
      /\ \A k \in 1 .. m : cs[k] = fs[names[k]] /\ bb[k] = bs[names[k]]
  BY <1>2, ZenonT(30)
<1>4. cs \in [1 .. m -> Chunks] /\ bb \in [1 .. m -> Seq(Chunks)]
  BY <1>2, ZenonT(30)
<1> HIDE DEF bb
<1>5. cs \in Seq(Chunks) /\ bb \in Seq(Seq(Chunks))
  <2>1. cs \in Seq(Chunks)
    BY <1>2, <1>4, FunSeq, ZenonT(30)
  <2>2. bb \in Seq(Seq(Chunks))
    BY <1>2, <1>4, FunSeq, ZenonT(30)
  <2> QED BY <2>1, <2>2
<1>6. \A k \in DOMAIN cs : Filed(cs[k], bb[k])
  BY <1>1, <1>2, <1>3, ZenonT(30)
<1>7. DOMAIN cs = DOMAIN bb /\ 1 \in DOMAIN cs
  BY <1>2, <1>3, ZenonT(30)
<1>8. /\ Filed(merged, b)
      /\ (\A k \in DOMAIN cs : Whole(cs[k]) /\ Account(cs[k], bb[k])) => Account(merged, b)
  BY <1>5, <1>6, <1>7, MergedFiled, ZenonT(30)
<1> HIDE DEF merged, b
<1>9. (\A f \in DOMAIN fs : Whole(fs[f]) /\ Account(fs[f], bs[f])) => Account(merged, b)
  BY <1>2, <1>3, <1>8, ZenonT(30)
<1>10. merged \in Chunks /\ merged.results \in Seq(Reports) /\ ReportsOK(merged.results)
  BY <1>8, ChunkTypes, ZenonT(30) DEF Filed
<1>11. SameResults(Bared(merged.results), merged.results)
  BY <1>10, ResultsSame, ZenonT(30)
<1>12. Bared(merged.results) \in Seq(Reports)
  BY <1>11, ZenonT(30) DEF SameResults
<1>13. bare \in Chunks /\ bare.setting = merged.setting /\ bare.results = Bared(merged.results)
  BY <1>10, <1>12, ChunkChanged
<1>14. [merged EXCEPT !.results = Bared(@)] = bare
  BY <1>10 DEF Chunks
<1> HIDE DEF bare
<1>15. Filed(bare, b) /\ (Account(merged, b) => Account(bare, b))
  BY <1>8, <1>11, <1>13, SameFile, ZenonT(30)
<1>16. CASE keep
  <2>1. FilesOK(Append(fs, merged), Append(bs, b))
    BY <1>8, <1>9, FileAdded, ZenonT(30)
  <2> QED BY <1>16, <2>1, ZenonT(30) DEF merged, b, bb
<1>17. CASE ~keep
  <2>1. (\A f \in DOMAIN fs : Whole(fs[f]) /\ Account(fs[f], bs[f])) => Account(bare, b)
    BY <1>9, <1>15, ZenonT(30)
  <2>2. FilesOK(Append(fs, bare), Append(bs, b))
    BY <1>15, <2>1, FileAdded, ZenonT(30)
  <2>3. FilesOK(Append(fs, [merged EXCEPT !.results = Bared(@)]), Append(bs, b))
    BY <1>14, <2>2, ZenonT(30)
  <2> QED BY <1>17, <2>3, ZenonT(30) DEF merged, b, bb
<1> QED BY <1>16, <1>17

(* The files of runs. *)
LEMMA RunsFiled ==
    ASSUME NEW others \in Seq(Chunks), \A k \in DOMAIN others : ReportsOK(others[k].results),
           NEW s \in Settings, NEW t \in Tenants,
           NEW rs \in Seq(Reports), ReportsOK(rs), NEW qs, SameResults(qs, rs)
    PROVE  FilesOK(Append(others, Chunk(s, t, qs)),
                   Append([f \in DOMAIN others |-> <<others[f]>>], <<Chunk(s, t, rs)>>))
<1> DEFINE n == Len(others)
           bs == [f \in DOMAIN others |-> <<others[f]>>]
           c == Chunk(s, t, rs)
           d == Chunk(s, t, qs)
<1>1. others \in Seq(Chunks) /\ \A k \in DOMAIN others : ReportsOK(others[k].results)
  BY ZenonT(30)
<1>2. n \in Nat /\ DOMAIN others = 1 .. n /\ \A k \in 1 .. n : others[k] \in Chunks
  BY <1>1
<1>3. \A k \in 1 .. n : Filed(others[k], <<others[k]>>) /\ Account(others[k], <<others[k]>>)
  BY <1>1, <1>2, RunFiled, ZenonT(30)
<1>4. \A k \in 1 .. n : bs[k] = <<others[k]>> /\ <<others[k]>> \in Seq(Chunks)
  <2>1. \A k \in 1 .. n : bs[k] = <<others[k]>>
    BY <1>2, ZenonT(30)
  <2>2. \A k \in 1 .. n : <<others[k]>> \in Seq(Chunks)
    BY <1>2, OneChunk, ZenonT(30)
  <2> QED BY <2>1, <2>2, ZenonT(30)
<1>5. bs \in [1 .. n -> Seq(Chunks)]
  <2>1. bs = [f \in 1 .. n |-> <<others[f]>>]
    BY <1>2, ZenonT(30)
  <2>2. \A k \in 1 .. n : <<others[k]>> \in Seq(Chunks)
    BY <1>4, ZenonT(30)
  <2> HIDE DEF bs
  <2> QED BY <2>1, <2>2, ZenonT(30)
<1> HIDE DEF bs
<1>6. bs \in Seq(Seq(Chunks)) /\ Len(bs) = n
  BY <1>2, <1>5, FunSeq, ZenonT(30)
<1>7. \A k \in 1 .. n : Filed(others[k], bs[k]) /\ Account(others[k], bs[k])
  BY <1>3, <1>4, ZenonT(30)
<1>8. FilesOK(others, bs)
  BY <1>1, <1>2, <1>6, <1>7, ZenonT(30) DEF FilesOK
<1>9. qs \in Seq(Reports)
  BY ZenonT(30) DEF SameResults
<1>10. c \in Chunks /\ c.setting = s /\ c.results = rs
  BY ChunkMade
<1>11. d \in Chunks /\ d.setting = s /\ d.results = qs
  BY <1>9, ChunkMade
<1> HIDE DEF c, d
<1>12. Filed(c, <<c>>) /\ Account(c, <<c>>)
  BY <1>10, RunFiled, ZenonT(30)
<1>13. Filed(d, <<c>>) /\ Account(d, <<c>>)
  BY <1>10, <1>11, <1>12, SameFile, ZenonT(30)
<1>14. FilesOK(Append(others, d), Append(bs, <<c>>))
  BY <1>8, <1>13, FileAdded, ZenonT(30)
<1> QED BY <1>14, ZenonT(30) DEF bs, c, d


-----------------------------------------------------------------------------
(* Runs.                                                                   *)

(* The paths still to run are none of those reported. *)
Agenda(q, rs) ==
    /\ q \in Seq(Paths) /\ Distinct(q) /\ rs \in Seq(Reports) /\ ReportsOK(rs)
    /\ \A j \in DOMAIN q, k \in DOMAIN rs : rs[k].path # q[j]

(* A path that ends moves from the agenda to the results, and both stay in *)
(* order.                                                                  *)
LEMMA ResultAdded ==
    ASSUME NEW q, NEW rs, Agenda(q, rs), q # <<>>,
           NEW r \in Reports, ReportOK(r), r.path = Head(q)
    PROVE  Agenda(Tail(q), Append(rs, r))
<1> DEFINE t == Tail(q)
           a == Append(rs, r)
           m == Len(q)
           n == Len(rs)
<1>1. q \in Seq(Paths) /\ rs \in Seq(Reports)
  BY ZenonT(30) DEF Agenda
<1>2. /\ m \in Nat /\ 1 \in 1 .. m /\ DOMAIN q = 1 .. m /\ q[1] = r.path
      /\ t \in Seq(Paths) /\ DOMAIN t = 1 .. m - 1
      /\ \A k \in 1 .. m - 1 : t[k] = q[k + 1] /\ k + 1 \in 1 .. m /\ k + 1 # 1
  BY <1>1
<1>3. /\ n \in Nat /\ DOMAIN rs = 1 .. n /\ a \in Seq(Reports) /\ DOMAIN a = 1 .. n + 1
      /\ a[n + 1] = r /\ \A k \in 1 .. n : a[k] = rs[k]
  BY <1>1
<1>4. \A k \in 1 .. n + 1 : k \in 1 .. n \/ k = n + 1
  BY <1>3
<1>5. /\ \A j, k \in 1 .. m : q[j] = q[k] => j = k
      /\ \A k \in 1 .. n : ReportOK(rs[k])
      /\ \A j, k \in 1 .. n : rs[j].path = rs[k].path => j = k
      /\ \A j \in 1 .. m, k \in 1 .. n : rs[k].path # q[j]
  BY <1>2, <1>3, ZenonT(30) DEF Agenda, Distinct, ReportsOK
<1> HIDE DEF t, a, m, n
<1>6. Distinct(t)
  <2> SUFFICES ASSUME NEW j \in 1 .. m - 1, NEW k \in 1 .. m - 1, t[j] = t[k] PROVE j = k
    BY <1>2, ZenonT(30) DEF Distinct
  <2>0. /\ t[j] = q[j + 1] /\ j + 1 \in 1 .. m /\ t[k] = q[k + 1] /\ k + 1 \in 1 .. m
    BY <1>2, ZenonT(30)
  <2>1. j + 1 = k + 1
    <3> DEFINE x == j + 1
               y == k + 1
    <3>1. q[x] = q[y] /\ x \in 1 .. m /\ y \in 1 .. m
      BY <2>0, ZenonT(30)
    <3> HIDE DEF x, y
    <3>2. x = y
      BY <1>5, <3>1, ZenonT(30)
    <3> QED BY <3>2, ZenonT(30) DEF x, y
  <2> QED BY <1>2, <2>1
<1>7. ReportsOK(a)
  <2>1. \A k \in 1 .. n + 1 : ReportOK(a[k])
    BY <1>3, <1>4, <1>5, ZenonT(30)
  <2>2. ASSUME NEW j \in 1 .. n + 1, NEW k \in 1 .. n + 1, a[j].path = a[k].path PROVE j = k
    <3>1. \A l \in 1 .. n : rs[l].path # r.path
      BY <1>2, <1>5, ZenonT(30)
    <3>2. CASE j \in 1 .. n /\ k \in 1 .. n
      BY <1>3, <1>5, <2>2, <3>2, ZenonT(30)
    <3>3. CASE j = n + 1 /\ k \in 1 .. n
      BY <1>3, <2>2, <3>1, <3>3, ZenonT(30)
    <3>4. CASE j \in 1 .. n /\ k = n + 1
      BY <1>3, <2>2, <3>1, <3>4, ZenonT(30)
    <3> QED BY <1>4, <3>2, <3>3, <3>4, ZenonT(30)
  <2> QED BY <1>3, <2>1, <2>2, ZenonT(30) DEF ReportsOK
<1>8. ASSUME NEW j \in 1 .. m - 1, NEW k \in 1 .. n + 1 PROVE a[k].path # t[j]
  <2>1. t[j] = q[j + 1] /\ j + 1 \in 1 .. m /\ j + 1 # 1
    BY <1>2, ZenonT(30)
  <2>2. CASE k \in 1 .. n
    <3>1. rs[k].path # q[j + 1]
      BY <1>5, <2>1, <2>2, ZenonT(30)
    <3> QED BY <1>3, <2>1, <2>2, <3>1, ZenonT(30)
  <2>3. CASE k = n + 1
    BY <1>2, <1>3, <1>5, <2>1, <2>3, ZenonT(30)
  <2> QED BY <1>4, <2>2, <2>3, ZenonT(30)
<1>9. Agenda(t, a)
  BY <1>2, <1>3, <1>6, <1>7, <1>8, ZenonT(30) DEF Agenda
<1> QED BY <1>9, ZenonT(30) DEF t, a

(* The results main makes. *)
LEMMA BlankResult ==
    ASSUME NEW path \in Paths, NEW st \in {"FAIL_DIAL", "FAIL_HANDSHAKE"}
    PROVE  LET r == PathResult(path, st)
           IN  r \in Reports /\ ReportOK(r) /\ r.path = path
<1> DEFINE r == PathResult(path, st)
<1>1. st \in Statuses /\ 0 \in Nat /\ 0 \in Int
  BY DEF Statuses
<1>2. /\ r \in Reports /\ r.path = path /\ r.status = st /\ r.n = 0 /\ r.samples = <<>>
      /\ r.attempted = 0 /\ r.fb = NoFailures
  BY <1>1, NothingCounted, NoSamples, ReportMade, ZenonT(30) DEF PathResult
<1>3. Total(NoFailures) = 0
  BY DEF Total, NoFailures
<1>4. r.attempted = r.n + Total(r.fb)
  <2> HIDE DEF r
  <2> QED BY <1>2, <1>3
<1>5. st # "PASS" /\ st # "PASS_WITH_FAILURES"
  BY ZenonT(30)
<1> HIDE DEF r
<1>6. ReportOK(r)
  BY <1>2, <1>4, <1>5, ZenonT(30) DEF ReportOK, Ranked
<1> QED BY <1>2, <1>6, ZenonT(30) DEF r

(* What runUDP reports is in order. *)
LEMMA UDPResult ==
    ASSUME NEW s \in Seq(Int), NEW f \in Failures, NEW u \in Counters
    PROVE  LET r == [SummarizeWithFailures("udp", s, f) EXCEPT !.udp = u]
           IN  r \in Reports /\ ReportOK(r) /\ r.path = "udp"
<1> DEFINE a == SummarizeWithFailures("udp", s, f)
           r == [a EXCEPT !.udp = u]
<1>1. a \in Reports /\ ReportOK(a) /\ a.path = "udp"
  <2>1. "udp" \in Paths
    BY ZenonT(30) DEF Paths
  <2> QED BY <2>1, Summary, ZenonT(30)
<1> HIDE DEF a
<1>2. /\ r \in Reports /\ r.path = a.path /\ r.n = a.n /\ r.attempted = a.attempted
      /\ r.fb = a.fb /\ r.p50 = a.p50 /\ r.p99 = a.p99 /\ r.samples = a.samples
      /\ r.status = a.status
  BY <1>1, ZenonT(30) DEF Reports, Counters
<1> HIDE DEF r
<1>3. Ranked(r)
  BY <1>1, <1>2, ZenonT(30) DEF ReportOK, Ranked
<1>4. ReportOK(r)
  BY <1>1, <1>2, <1>3, ZenonT(30) DEF ReportOK
<1> QED BY <1>1, <1>2, <1>4, ZenonT(30) DEF r, a

(* Two sequences that share nothing, each without repetition, have none    *)
(* together.                                                               *)
LEMMA DistinctConcat ==
    ASSUME NEW X, NEW Y, X \cap Y = {}, NEW s \in Seq(X), NEW t \in Seq(Y), Distinct(s), Distinct(t)
    PROVE  s \o t \in Seq(X \cup Y) /\ Distinct(s \o t)
<1> DEFINE m == Len(s)
           n == Len(t)
           st == s \o t
<1>1. /\ m \in Nat /\ n \in Nat /\ DOMAIN s = 1 .. m /\ DOMAIN t = 1 .. n
      /\ st \in Seq(X \cup Y) /\ DOMAIN st = 1 .. m + n
      /\ \A k \in 1 .. m + n : \/ k \in 1 .. m /\ st[k] = s[k] /\ st[k] \in X
                               \/ k - m \in 1 .. n /\ st[k] = t[k - m] /\ st[k] \in Y
  OBVIOUS
<1>2. \A j, k \in 1 .. m + n : j - m = k - m => j = k
  BY <1>1
<1> HIDE DEF m, n, st
<1>3. \A j, k \in 1 .. m + n : st[j] = st[k] => j = k
  BY <1>1, <1>2, ZenonT(30) DEF Distinct
<1>4. Distinct(st)
  BY <1>1, <1>3, ZenonT(30) DEF Distinct
<1> QED BY <1>1, <1>4, ZenonT(30) DEF st
=============================================================================
