---------------------------- MODULE SetInduction ----------------------------
(***************************************************************************)
(* Induction over the natural numbers, stated with sets and functions so   *)
(* that a first-order prover can use it: what is proved is the set of the  *)
(* numbers for which it holds.                                             *)
(***************************************************************************)
EXTENDS Integers, WellFoundedInduction, TLAPS

\* Every set of numbers that is not empty has a least element.
LEMMA Least ==
  ASSUME NEW T \in SUBSET Nat, T # {}
  PROVE  \E m \in T : \A n \in T : m <= n
<1> DEFINE R == OpToRel(<, Nat)
<1>1. IsWellFoundedOn(R, Nat) BY NatLessThanWellFounded
<1> HIDE DEF R
<1>2. PICK m \in T : \A n \in T : <<n, m>> \notin R BY <1>1, WFMin
<1>3. \A n \in T : n < m => <<n, m>> \in R BY DEF R, OpToRel
<1>4. \A n \in T : ~(n < m) BY <1>2, <1>3
<1>5. QED BY <1>4

\* So a set with 0 and with the successor of each of its numbers has them all.
LEMMA Induction ==
  ASSUME NEW S, 0 \in S, \A n \in Nat : n \in S => n + 1 \in S
  PROVE  Nat \subseteq S
<1> SUFFICES ASSUME Nat \ S # {} PROVE FALSE OBVIOUS
<1>1. PICK m \in Nat \ S : \A n \in Nat \ S : m <= n BY Least
<1>2. m - 1 \in Nat /\ m - 1 \notin Nat \ S BY <1>1
<1>3. QED BY <1>2

\* A bounded set of numbers that is not empty has a greatest element.
LEMMA Greatest ==
  ASSUME NEW N \in Nat, NEW T \in SUBSET 0..N, T # {}
  PROVE  \E m \in T : \A n \in T : n <= m
<1> DEFINE D == {N - t : t \in T}
<1>1. D \in SUBSET Nat /\ D # {}
  <2>1. \A t \in T : t \in 0..N OBVIOUS
  <2>2. \A t \in T : N - t \in Nat BY <2>1
  <2>3. \A e \in D : e \in Nat BY <2>2
  <2>4. PICK t : t \in T OBVIOUS
  <2>5. N - t \in D BY <2>4
  <2>6. QED BY <2>3, <2>5
<1>2. PICK d \in D : \A e \in D : d <= e BY <1>1, Least
<1>3. PICK m \in T : d = N - m BY <1>2
<1>4. ASSUME NEW n \in T PROVE n <= m
  <2>1. N - n \in D OBVIOUS
  <2>2. d <= N - n BY <1>2, <2>1
  <2>3. QED BY <1>3, <2>2
<1>5. QED BY <1>4

\* What holds at 0 and goes on from each number to the next holds up to N.
LEMMA StaysIn ==
  ASSUME NEW A, NEW N \in Nat, NEW f, f[0] \in A,
         \A n \in 1..N : f[n - 1] \in A => f[n] \in A
  PROVE  \A n \in 0..N : f[n] \in A
<1> DEFINE T == {n \in Nat : n <= N => f[n] \in A}
<1>1. 0 \in T OBVIOUS
<1>2. ASSUME NEW n \in Nat, n \in T PROVE n + 1 \in T
  <2> SUFFICES ASSUME n + 1 <= N PROVE f[n + 1] \in A OBVIOUS
  <2>1. n + 1 \in 1..N /\ (n + 1) - 1 = n /\ f[n] \in A BY <1>2
  <2>2. QED BY <2>1
<1> HIDE DEF T
<1>3. Nat \subseteq T BY <1>1, <1>2, Induction
<1>4. QED BY <1>3 DEF T

-----------------------------------------------------------------------------
\* The functions on 0..n that start at base and follow step.
Walks(A, base, step, n) ==
  {g \in [0..n -> A] : /\ g[0] = base
                       /\ \A i \in 0..n : i < n => g[i + 1] = step[i][g[i]]}

\* Two walks agree as far as both go.
LEMMA WalksAgree ==
  ASSUME NEW A, NEW base \in A, NEW step \in [Nat -> [A -> A]],
         NEW m \in Nat, NEW n \in Nat, m <= n,
         NEW g \in Walks(A, base, step, m), NEW h \in Walks(A, base, step, n)
  PROVE  g[m] = h[m]
<1> DEFINE U == {i \in Nat : i <= m => g[i] = h[i]}
<1>1. 0 \in U BY DEF Walks
<1>2. ASSUME NEW i \in Nat, i \in U PROVE i + 1 \in U
  <2> SUFFICES ASSUME i + 1 <= m PROVE g[i + 1] = h[i + 1] OBVIOUS
  <2>1. g[i] = h[i] /\ i \in 0..m /\ i \in 0..n /\ i < m /\ i < n BY <1>2
  <2>2. g[i + 1] = step[i][g[i]] BY <2>1 DEF Walks
  <2>3. h[i + 1] = step[i][h[i]] BY <2>1 DEF Walks
  <2>4. QED BY <2>1, <2>2, <2>3
<1> HIDE DEF U
<1>3. Nat \subseteq U BY <1>1, <1>2, Induction
<1>4. QED BY <1>3 DEF U

\* There is a walk to every number.
LEMMA WalksExist ==
  ASSUME NEW A, NEW base \in A, NEW step \in [Nat -> [A -> A]]
  PROVE  \A n \in Nat : Walks(A, base, step, n) # {}
<1> DEFINE E == {n \in Nat : Walks(A, base, step, n) # {}}
<1>1. 0 \in E
  <2>1. [i \in 0..0 |-> base] \in Walks(A, base, step, 0) BY DEF Walks
  <2>2. QED BY <2>1
<1>2. ASSUME NEW n \in Nat, n \in E PROVE n + 1 \in E
  <2>1. PICK g : g \in Walks(A, base, step, n) BY <1>2
  <2> DEFINE h == [i \in 0..n+1 |-> IF i = n + 1 THEN step[n][g[n]] ELSE g[i]]
  <2>2. g \in [0..n -> A] /\ g[0] = base BY <2>1 DEF Walks
  <2>3. step[n][g[n]] \in A BY <2>2
  <2>4. h \in [0..n+1 -> A] BY <2>2, <2>3
  <2>5. h[0] = base BY <2>2
  <2>6. \A i \in 0..n+1 : i < n + 1 => h[i + 1] = step[i][h[i]]
    <3> SUFFICES ASSUME NEW i \in 0..n PROVE h[i + 1] = step[i][h[i]] BY SMTT(30)
    <3>1. h[i] = g[i] OBVIOUS
    <3>2. CASE i = n BY <3>1, <3>2
    <3>3. CASE i < n
      <4>1. h[i + 1] = g[i + 1] BY <3>3
      <4>2. g[i + 1] = step[i][g[i]] BY <2>1, <3>3 DEF Walks
      <4>3. QED BY <3>1, <4>1, <4>2
    <3>4. QED BY <3>2, <3>3
  <2> HIDE DEF h
  <2>7. h \in Walks(A, base, step, n + 1) BY <2>4, <2>5, <2>6 DEF Walks
  <2>8. QED BY <2>7
<1> HIDE DEF E
<1>3. Nat \subseteq E BY <1>1, <1>2, Induction
<1>4. QED BY <1>3 DEF E

\* f is what a value at 0 and a step from each number to the next define.
Iterates(f, base, step) == /\ f[0] = base
                            /\ \A n \in Nat : f[n + 1] = step[n][f[n]]

\* Primitive recursion: a value at 0 and a step make a function on Nat.
LEMMA Recursion ==
  ASSUME NEW A, NEW base \in A, NEW step \in [Nat -> [A -> A]]
  PROVE  \E f \in [Nat -> A] : Iterates(f, base, step)
<1> DEFINE w(n) == CHOOSE g : g \in Walks(A, base, step, n)
           f    == [n \in Nat |-> w(n)[n]]
<1>1. \A n \in Nat : w(n) \in Walks(A, base, step, n) BY WalksExist
<1> HIDE DEF w
<1>2. \A n \in Nat : w(n) \in [0..n -> A] /\ w(n)[0] = base
  BY <1>1 DEF Walks
<1>3. f \in [Nat -> A] BY <1>2
<1>4. f[0] = base BY <1>2
<1>5. ASSUME NEW n \in Nat PROVE f[n + 1] = step[n][f[n]]
  <2>1. n + 1 \in Nat /\ n <= n + 1 /\ n \in 0..n + 1 /\ n < n + 1 OBVIOUS
  <2>2. w(n) \in Walks(A, base, step, n) BY <1>1
  <2>3. w(n + 1) \in Walks(A, base, step, n + 1) BY <1>1, <2>1
  <2>4. w(n)[n] = w(n + 1)[n] BY <2>1, <2>2, <2>3, WalksAgree
  <2>5. w(n + 1)[n + 1] = step[n][w(n + 1)[n]] BY <2>1, <2>3 DEF Walks
  <2>6. f[n] = w(n)[n] /\ f[n + 1] = w(n + 1)[n + 1] BY <2>1
  <2>7. QED BY <2>4, <2>5, <2>6
<1> HIDE DEF f
<1>6. QED BY <1>3, <1>4, <1>5 DEF Iterates

\* The same on 0..N, as a recursive function is written.
IteratesTo(f, N, base, step) ==
  f = [n \in 0..N |-> IF n = 0 THEN base ELSE step[n][f[n - 1]]]

LEMMA BoundedRecursion ==
  ASSUME NEW A, NEW base \in A, NEW N \in Nat, NEW step \in [1..N -> [A -> A]]
  PROVE  \E f \in [0..N -> A] : IteratesTo(f, N, base, step)
<1> DEFINE whole == [n \in Nat |-> IF n + 1 \in 1..N THEN step[n + 1]
                                   ELSE [a \in A |-> a]]
<1>1. whole \in [Nat -> [A -> A]]
  <2>1. ASSUME NEW n \in Nat
        PROVE  (IF n + 1 \in 1..N THEN step[n + 1] ELSE [a \in A |-> a])
                 \in [A -> A]
    OBVIOUS
  <2>2. QED BY <2>1
<1>2. \A n \in 1..N : n - 1 \in Nat /\ n \in Nat /\ whole[n - 1] = step[n]
  OBVIOUS
<1> HIDE DEF whole
<1>3. PICK g \in [Nat -> A] : Iterates(g, base, whole)
  BY <1>1, Recursion
<1> DEFINE f == [n \in 0..N |-> g[n]]
<1>4. f \in [0..N -> A] /\ \A n \in 0..N : f[n] = g[n]
  OBVIOUS
<1>5. ASSUME NEW n \in 0..N
      PROVE  f[n] = IF n = 0 THEN base ELSE step[n][f[n - 1]]
  <2>1. CASE n = 0 BY <1>3, <1>4, <2>1 DEF Iterates
  <2>2. CASE n # 0
    <3>1. n \in 1..N /\ n - 1 \in Nat /\ n - 1 \in 0..N /\ (n - 1) + 1 = n
      BY <2>2
    <3>2. g[n] = whole[n - 1][g[n - 1]] BY <1>3, <3>1 DEF Iterates
    <3>3. g[n] = step[n][g[n - 1]] BY <1>2, <3>1, <3>2
    <3>4. QED BY <1>4, <2>2, <3>1, <3>3
  <2>3. QED BY <2>1, <2>2
<1> HIDE DEF f
<1>6. f = [n \in 0..N |-> IF n = 0 THEN base ELSE step[n][f[n - 1]]]
  BY <1>4, <1>5
<1>7. QED BY <1>4, <1>6 DEF IteratesTo

\* f takes count steps, each by one of the functions in step, from the one
\* after first.
Follows(f, step, first, count) ==
  \A n \in 1..count : f[n] = step[first + n][f[n - 1]]

\* A walk along two ranges of steps ends where the walk along the second range
\* ends that starts where the walk along the first has ended.
LEMMA WalksJoin ==
  ASSUME NEW L \in Nat, NEW M \in Nat, NEW step,
         NEW f, Follows(f, step, 0, L + M),
         NEW g, g[0] = f[0], Follows(g, step, 0, L),
         NEW h, h[0] = g[L], Follows(h, step, L, M)
  PROVE  f[L + M] = h[M]
<1> USE DEF Follows
<1> DEFINE T == {n \in Nat : n <= L => f[n] = g[n]}
<1>1. 0 \in T OBVIOUS
<1>2. ASSUME NEW n \in Nat, n \in T PROVE n + 1 \in T
  <2> DEFINE m == n + 1
  <2> SUFFICES ASSUME m <= L PROVE f[m] = g[m] OBVIOUS
  <2>1. m \in 1..L /\ m \in 1..(L + M) /\ m - 1 = n /\ n <= L OBVIOUS
  <2>2. f[n] = g[n] BY <1>2, <2>1
  <2> HIDE DEF m, T
  <2>3. 0 + m = m BY <2>1
  <2>4. f[m] = step[m][f[n]] /\ g[m] = step[m][g[n]] BY <2>1, <2>3
  <2>5. QED BY <2>2, <2>4
<1> HIDE DEF T
<1>3. Nat \subseteq T BY <1>1, <1>2, Induction
<1>4. f[L] = g[L] BY <1>3 DEF T
<1> DEFINE U == {n \in Nat : n <= M => f[L + n] = h[n]}
<1>5. 0 \in U BY <1>4
<1>6. ASSUME NEW n \in Nat, n \in U PROVE n + 1 \in U
  <2> DEFINE m == n + 1
             o == L + m
             p == L + n
  <2> SUFFICES ASSUME m <= M PROVE f[o] = h[m] OBVIOUS
  <2>1. m \in 1..M /\ o \in 1..(L + M) /\ m - 1 = n /\ o - 1 = p /\ n <= M
    OBVIOUS
  <2>2. f[p] = h[n] BY <1>6, <2>1
  <2>3. h[m] = step[o][h[n]]
    <3> HIDE DEF m
    <3>1. QED BY <2>1
  <2> HIDE DEF m, o, p, U
  <2>4. f[o] = step[o][f[p]]
    <3>1. 0 + o = o BY <2>1
    <3>2. QED BY <2>1, <3>1
  <2>5. QED BY <2>2, <2>3, <2>4
<1> HIDE DEF U
<1>7. Nat \subseteq U BY <1>5, <1>6, Induction
<1>8. QED BY <1>7 DEF U
=============================================================================
