------------------------------ MODULE Induction ------------------------------
(***************************************************************************)
(* Induction over the naturals and recursive functions, stated with sets   *)
(* and functions, so that a proof can cite them: an instance of a set is   *)
(* found where that of an operator is not.  All rests on the least element *)
(* of a set of naturals.                                                   *)
(***************************************************************************)
EXTENDS WellFoundedInduction, TLAPS

\* Every set of naturals that is not empty has a least element.
LEMMA LeastExists ==
    ASSUME NEW T \in SUBSET Nat, T # {}
    PROVE  \E n \in T : \A m \in T : n <= m
<1> DEFINE Below == {p \in Nat \X Nat : p[1] < p[2]}
<1>1. IsWellFoundedOn(Below, Nat)
    BY NatLessThanWellFounded DEF OpToRel
<1> HIDE DEF Below
<1>2. PICK x \in T : \A y \in T : ~(<<y, x>> \in Below)
    BY <1>1, WFMin
<1>3. \A y \in T : ~(y < x)
    BY <1>2 DEF Below
<1>4. QED
    BY <1>3

\* A set with zero and the successors of its members has all naturals.
LEMMA Naturals ==
    ASSUME NEW S, 0 \in S, \A n \in Nat : n \in S => n + 1 \in S
    PROVE  Nat \subseteq S
<1> SUFFICES ASSUME Nat \ S # {} PROVE FALSE
    OBVIOUS
<1>1. PICK n \in Nat \ S : \A m \in Nat \ S : n <= m
    BY LeastExists
<1>2. QED
    BY <1>1

\* The same up to some natural.
LEMMA Upwards ==
    ASSUME NEW N \in Nat, NEW S, 0 \in S, \A n \in 1..N : n - 1 \in S => n \in S
    PROVE  0..N \subseteq S
<1> SUFFICES ASSUME (0..N) \ S # {} PROVE FALSE
    OBVIOUS
<1>1. (0..N) \ S \in SUBSET Nat
    OBVIOUS
<1>2. PICK n \in (0..N) \ S : \A m \in (0..N) \ S : n <= m
    BY <1>1, LeastExists
<1>3. QED
    BY <1>2

\* Downwards: what holds of a number if it holds of all greater ones, up to N.
LEMMA DownFrom ==
    ASSUME NEW N \in Nat, NEW S,
           \A n \in 1..N : (\A m \in (n+1)..N : m \in S) => n \in S
    PROVE  1..N \subseteq S
<1> DEFINE T == {k \in Nat : k <= N => \A m \in (N-k+1)..N : m \in S}
<1>1. 0 \in T
    OBVIOUS
<1>2. ASSUME NEW k \in Nat, k \in T PROVE k + 1 \in T
    <2> SUFFICES ASSUME k + 1 <= N PROVE \A m \in (N-k)..N : m \in S
        OBVIOUS
    <2>1. \A m \in (N-k+1)..N : m \in S
        BY <1>2
    <2>2. N-k \in S
        BY <2>1
    <2>3. QED
        BY <2>1, <2>2
<1> HIDE DEF T
<1>3. N \in T
    BY <1>1, <1>2, Naturals
<1>4. QED
    BY <1>3 DEF T

\* What a step comes to when it is taken again and again.
Iteration(f, V, a, step, N) ==
    f \in [0..N -> V] /\ f[0] = a /\ \A n \in 1..N : f[n] = step[f[n-1]]

\* A step can be taken N times.
LEMMA Iterates ==
    ASSUME NEW V, NEW a \in V, NEW step \in [V -> V], NEW N \in Nat
    PROVE  \E f : Iteration(f, V, a, step, N)
<1> DEFINE Good(k, f) == f[0] = a /\ \A n \in 1..k : f[n] = step[f[n-1]]
           S == {k \in Nat : \E f \in [0..k -> V] : Good(k, f)}
<1>1. 0 \in S
    <2>1. Good(0, [n \in 0..0 |-> a])
        OBVIOUS
    <2>2. QED
        BY <2>1
<1>2. ASSUME NEW n \in Nat, n \in S PROVE n + 1 \in S
    <2>1. PICK f \in [0..n -> V] : Good(n, f)
        BY <1>2
    <2> DEFINE g == [i \in 0..(n+1) |-> IF i = n + 1 THEN step[f[n]] ELSE f[i]]
    <2>2. g \in [0..(n+1) -> V]
        BY <2>1
    <2>3. Good(n + 1, g)
        BY <2>1
    <2> HIDE DEF g, Good
    <2>4. QED
        BY <2>2, <2>3
<1> HIDE DEF S
<1>3. N \in S
    BY <1>1, <1>2, Naturals
<1>4. PICK f \in [0..N -> V] : Good(N, f)
    BY <1>3 DEF S
<1>5. Iteration(f, V, a, step, N)
    BY <1>4 DEF Iteration
<1>6. QED
    BY <1>5

\* A recursive function that is such an iteration is what its steps make.
LEMMA Iterated ==
    ASSUME NEW V, NEW a \in V, NEW step \in [V -> V], NEW N \in Nat,
           NEW at, at = CHOOSE f : f = [i \in 0..N |-> IF i = 0 THEN a ELSE step[f[i-1]]]
    PROVE  Iteration(at, V, a, step, N)
<1>1. PICK f : Iteration(f, V, a, step, N)
    BY Iterates
<1>2. f = [i \in 0..N |-> IF i = 0 THEN a ELSE step[f[i-1]]]
    BY <1>1 DEF Iteration
<1>3. at = [i \in 0..N |-> IF i = 0 THEN a ELSE step[at[i-1]]]
    BY <1>2
<1>4. /\ at[0] = a /\ \A n \in 1..N : at[n] = step[at[n-1]]
      /\ at = [i \in 0..N |-> at[i]]
    <2>1. \A i \in 0..N : at[i] = IF i = 0 THEN a ELSE step[at[i-1]]
        BY ONLY <1>3
    <2>2. at = [i \in 0..N |-> at[i]]
        BY ONLY <1>3, <2>1
    <2>3. at[0] = a
        BY ONLY <2>1, N \in Nat
    <2>4. ASSUME NEW n \in 1..N PROVE at[n] = step[at[n-1]]
        <3>1. n \in 0..N /\ n # 0
            OBVIOUS
        <3> QED
            BY ONLY <2>1, <3>1
    <2> QED
        BY ONLY <2>2, <2>3, <2>4
<1> DEFINE S == {i \in 0..N : at[i] \in V}
<1>5. 0 \in S
    BY ONLY <1>4, N \in Nat, a \in V
<1>6. ASSUME NEW n \in 1..N, n - 1 \in S PROVE n \in S
    <2>1. n \in 0..N /\ at[n] = step[at[n-1]]
        BY <1>4
    <2>2. at[n-1] \in V
        BY ONLY <1>6
    <2> QED
        BY ONLY <2>1, <2>2, step \in [V -> V]
<1> HIDE DEF S
<1>7. 0..N \subseteq S
    BY <1>5, <1>6, Upwards
<1>8. \A i \in 0..N : at[i] \in V
    BY <1>7 DEF S
<1> QED
    BY ONLY <1>4, <1>8 DEF Iteration

\* What holds at the start and is kept by each step holds throughout.
LEMMA IterationKeeps ==
    ASSUME NEW V, NEW a, NEW step, NEW N \in Nat, NEW at, Iteration(at, V, a, step, N),
           NEW P, a \in P, \A v \in V : v \in P => step[v] \in P
    PROVE  \A i \in 0..N : at[i] \in P
<1> DEFINE S == {i \in 0..N : at[i] \in P}
<1>1. 0 \in S
    BY DEF Iteration
<1>2. ASSUME NEW n \in 1..N, n - 1 \in S PROVE n \in S
    BY <1>2 DEF Iteration
<1> HIDE DEF S
<1>3. 0..N \subseteq S
    BY <1>1, <1>2, Upwards
<1> QED
    BY <1>3 DEF S

\* An iteration that comes to where it stays is there at its end.
LEMMA IterationStays ==
    ASSUME NEW V, NEW a, NEW step, NEW N \in Nat, NEW at, Iteration(at, V, a, step, N),
           NEW i \in 0..N, step[at[i]] = at[i]
    PROVE  \A j \in i..N : at[j] = at[i]
<1> DEFINE S == {j \in 0..N : j >= i => at[j] = at[i]}
<1>1. 0 \in S
    OBVIOUS
<1>2. ASSUME NEW n \in 1..N, n - 1 \in S PROVE n \in S
    <2>1. at[n] = step[at[n-1]]
        BY DEF Iteration
    <2> QED
        BY <2>1, <1>2
<1> HIDE DEF S
<1>3. 0..N \subseteq S
    BY <1>1, <1>2, Upwards
<1> QED
    BY <1>3 DEF S

\* What steps that may differ from place to place come to.
Followed(f, V, a, step, N) ==
    f \in [0..N -> V] /\ f[0] = a /\ \A n \in 1..N : f[n] = step[n][f[n-1]]

\* They can be taken one after the other.
LEMMA Follows ==
    ASSUME NEW V, NEW a \in V, NEW N \in Nat, NEW step \in [1..N -> [V -> V]]
    PROVE  \E f : Followed(f, V, a, step, N)
<1> DEFINE S == {k \in 0..N : \E f : Followed(f, V, a, step, k)}
<1>1. 0 \in S
    <2>1. Followed([n \in 0..0 |-> a], V, a, step, 0)
        BY DEF Followed
    <2>2. QED
        BY <2>1
<1>2. ASSUME NEW n \in 1..N, n - 1 \in S PROVE n \in S
    <2>1. PICK f : Followed(f, V, a, step, n - 1)
        BY <1>2
    <2>2. /\ f \in [0..n - 1 -> V] /\ f[0] = a
          /\ \A m \in 1..n - 1 : f[m] = step[m][f[m-1]]
        BY <2>1 DEF Followed
    <2> DEFINE g == [i \in 0..n |-> IF i = n THEN step[n][f[n-1]] ELSE f[i]]
    <2>3. step[n][f[n-1]] \in V
        <3>1. step[n] \in [V -> V] /\ n - 1 \in 0..n - 1
            OBVIOUS
        <3>2. f[n-1] \in V
            BY <2>2, <3>1
        <3> QED
            BY ONLY <3>1, <3>2
    <2>4. g \in [0..n -> V]
        BY <2>2, <2>3
    <2>5. \A i \in 0..n - 1 : g[i] = f[i]
        OBVIOUS
    <2>6. g[n] = step[n][f[n-1]]
        OBVIOUS
    <2> HIDE DEF g
    <2>7. g[0] = a
        BY <2>2, <2>5
    <2>8. ASSUME NEW m \in 1..n PROVE g[m] = step[m][g[m-1]]
        <3>1. CASE m = n
            <4>1. g[n-1] = f[n-1]
                BY <2>5
            <4> QED
                BY <2>6, <3>1, <4>1
        <3>2. CASE m # n
            <4>1. m \in 1..n - 1 /\ m \in 0..n - 1 /\ m - 1 \in 0..n - 1
                BY <3>2
            <4>2. g[m] = f[m] /\ g[m-1] = f[m-1]
                BY <2>5, <4>1
            <4> QED
                BY <2>2, <4>1, <4>2
        <3> QED
            BY <3>1, <3>2
    <2>9. Followed(g, V, a, step, n)
        BY <2>4, <2>7, <2>8 DEF Followed
    <2>10. QED
        BY <2>9
<1> HIDE DEF S
<1>3. 0..N \subseteq S
    BY <1>1, <1>2, Upwards
<1>4. QED
    BY <1>3 DEF S

\* A function on 1..N whose value at each place is made of those at later places.
Descending(f, F, step, N) == f \in F /\ \A i \in 1..N : f[i] = step[i][f]

LaterOnly(F, step, N) ==
    \A i \in 1..N, g \in F, h \in F :
        (\A k \in (i+1)..N : g[k] = h[k]) => step[i][g] = step[i][h]

\* There is one, if each place looks at later ones only.
LEMMA Descends ==
    ASSUME NEW V, V # {}, NEW N \in Nat, NEW F, F = [1..N -> V],
           NEW step \in [1..N -> [F -> V]], LaterOnly(F, step, N)
    PROVE  \E f : Descending(f, F, step, N)
<1> PICK a \in V : TRUE
    OBVIOUS
<1> DEFINE Good(k, f) == \A i \in 1..N : i > N - k => f[i] = step[i][f]
           S == {k \in 0..N : \E f \in F : Good(k, f)}
<1>1. 0 \in S
    <2>1. [i \in 1..N |-> a] \in F
        OBVIOUS
    <2>2. Good(0, [i \in 1..N |-> a])
        OBVIOUS
    <2> HIDE DEF Good
    <2>3. QED
        BY <2>1, <2>2
<1>2. ASSUME NEW k \in 1..N, k - 1 \in S PROVE k \in S
    <2>1. PICK f \in F : Good(k - 1, f)
        BY <1>2
    <2> DEFINE j == N - k + 1
               g == [i \in 1..N |-> IF i = j THEN step[j][f] ELSE f[i]]
    <2>2. j \in 1..N /\ g \in F
        OBVIOUS
    <2>3. ASSUME NEW i \in 1..N, i >= j PROVE step[i][g] = step[i][f]
        <3>1. \A m \in (i+1)..N : g[m] = f[m]
            BY <2>3
        <3> HIDE DEF g
        <3>2. QED
            BY <2>2, <3>1 DEF LaterOnly
    <2>4. ASSUME NEW i \in 1..N, i > N - k PROVE g[i] = step[i][g]
        <3>1. CASE i = j
            BY <2>3, <2>2, <3>1
        <3>2. CASE i # j
            BY <2>3, <2>1, <3>2, <2>4
        <3>3. QED
            BY <3>1, <3>2
    <2> HIDE DEF g
    <2>5. QED
        BY <2>2, <2>4
<1> HIDE DEF S
<1>3. 0..N \subseteq S
    BY <1>1, <1>2, Upwards
<1>4. N \in S
    BY <1>3
<1>5. \E f \in F : Good(N, f)
    <2> HIDE DEF Good
    <2>1. QED
        BY <1>4 DEF S
<1>6. PICK f \in F : Good(N, f)
    BY <1>5
<1>7. Descending(f, F, step, N)
    BY <1>6 DEF Descending
<1>8. QED
    BY <1>7

\* A function whose value at each place is made of those at places of lower rank.
Recursion(f, F, D, step) == f \in F /\ \A x \in D : f[x] = step[x][f]

LowerOnly(F, D, step, rank) ==
    \A x \in D, g \in F, h \in F :
        (\A y \in D : rank[y] < rank[x] => g[y] = h[y]) => step[x][g] = step[x][h]

\* Functions that are right up to some rank agree up to it.
LEMMA RecursionAgrees ==
    ASSUME NEW D, NEW F, NEW rank \in [D -> Nat], NEW step, LowerOnly(F, D, step, rank),
           NEW n \in Nat, NEW g \in F, NEW h \in F,
           \A x \in D : rank[x] < n => g[x] = step[x][g] /\ h[x] = step[x][h]
    PROVE  \A x \in D : rank[x] < n => g[x] = h[x]
<1> DEFINE T == {x \in D : rank[x] < n /\ g[x] # h[x]}
           R == {rank[x] : x \in T}
<1> SUFFICES ASSUME T # {} PROVE FALSE
    OBVIOUS
<1>1. R \in SUBSET Nat /\ R # {}
    OBVIOUS
<1>2. PICK r \in R : \A k \in R : r <= k
    <2> HIDE DEF R
    <2>1. QED
        BY <1>1, LeastExists
<1>3. PICK x \in T : rank[x] = r
    OBVIOUS
<1>4. ASSUME NEW y \in D, rank[y] < rank[x] PROVE g[y] = h[y]
    <2>1. y \notin T
        BY <1>2, <1>3, <1>4, SMTT(30)
    <2>2. QED
        BY <1>3, <1>4, <2>1
<1>5. step[x][g] = step[x][h]
    BY <1>4 DEF LowerOnly
<1>6. QED
    BY <1>3, <1>5

\* There is one, and only one.
LEMMA Recurses ==
    ASSUME NEW D, NEW V, V # {}, NEW F, F = [D -> V], NEW rank \in [D -> Nat],
           NEW step \in [D -> [F -> V]], LowerOnly(F, D, step, rank)
    PROVE  \E f : Recursion(f, F, D, step)
<1> PICK a \in V : TRUE
    OBVIOUS
<1> DEFINE Good(n, f) == \A x \in D : rank[x] < n => f[x] = step[x][f]
           S == {n \in Nat : \E f \in F : Good(n, f)}
<1>1. 0 \in S
    <2>1. [x \in D |-> a] \in F /\ Good(0, [x \in D |-> a])
        OBVIOUS
    <2> HIDE DEF Good
    <2>2. QED
        BY <2>1
<1>2. ASSUME NEW n \in Nat, n \in S PROVE n + 1 \in S
    <2>1. PICK f \in F : Good(n, f)
        BY <1>2
    <2> DEFINE g == [x \in D |-> step[x][f]]
    <2>2. g \in F
        OBVIOUS
    <2>3. ASSUME NEW x \in D, rank[x] < n + 1 PROVE g[x] = step[x][g]
        <3>1. \A y \in D : rank[y] < rank[x] => f[y] = g[y]
            BY <2>1, <2>3
        <3> HIDE DEF g
        <3>2. step[x][f] = step[x][g]
            BY <2>2, <3>1 DEF LowerOnly
        <3>3. QED
            BY <3>2 DEF g
    <2> HIDE DEF g
    <2>4. QED
        BY <2>2, <2>3
<1> HIDE DEF S
<1>3. Nat \subseteq S
    BY <1>1, <1>2, Naturals
<1> DEFINE at(n) == CHOOSE f \in F : Good(n, f)
           f == [x \in D |-> at(rank[x] + 1)[x]]
<1>4. ASSUME NEW n \in Nat PROVE at(n) \in F /\ Good(n, at(n))
    <2>1. \E g \in F : Good(n, g)
        BY <1>3 DEF S
    <2> HIDE DEF Good
    <2>2. QED
        BY <2>1
<1> HIDE DEF at
<1>5. f \in F
    BY <1>4
<1>6. ASSUME NEW x \in D PROVE f[x] = step[x][f]
    <2> DEFINE g == at(rank[x] + 1)
    <2>1. g \in F /\ Good(rank[x] + 1, g)
        BY <1>4
    <2>2. f[x] = g[x] /\ g[x] = step[x][g]
        BY <2>1
    <2>3. ASSUME NEW y \in D, rank[y] < rank[x] PROVE g[y] = f[y]
        <3> DEFINE h == at(rank[y] + 1)
        <3>1. h \in F /\ Good(rank[y] + 1, h)
            BY <1>4
        <3>2. f[y] = h[y]
            OBVIOUS
        <3> HIDE DEF g, h, f
        <3>3. \A z \in D : rank[z] < rank[y] + 1 => g[z] = step[z][g] /\ h[z] = step[z][h]
            BY <2>1, <2>3, <3>1
        <3>4. g[y] = h[y]
            <4>1. rank[y] + 1 \in Nat /\ rank[y] < rank[y] + 1
                OBVIOUS
            <4>2. \A z \in D : rank[z] < rank[y] + 1 => g[z] = h[z]
                BY <2>1, <3>1, <3>3, <4>1, RecursionAgrees
            <4>3. QED
                BY <4>1, <4>2
        <3>5. QED
            BY <3>2, <3>4
    <2> HIDE DEF f, g
    <2>4. step[x][g] = step[x][f]
        BY <1>5, <2>1, <2>3 DEF LowerOnly
    <2>5. QED
        BY <2>2, <2>4
<1>7. Recursion(f, F, D, step)
    <2> HIDE DEF f
    <2>1. QED
        BY <1>5, <1>6 DEF Recursion
<1>8. QED
    BY <1>7

LEMMA RecursionIsOne ==
    ASSUME NEW D, NEW V, NEW F, F = [D -> V], NEW rank \in [D -> Nat], NEW step,
           LowerOnly(F, D, step, rank),
           NEW g, NEW h, Recursion(g, F, D, step), Recursion(h, F, D, step)
    PROVE  g = h
<1>1. g \in F /\ h \in F
    BY DEF Recursion
<1>2. ASSUME NEW x \in D PROVE g[x] = h[x]
    <2>1. rank[x] + 1 \in Nat /\ rank[x] < rank[x] + 1
        OBVIOUS
    <2>2. \A y \in D : rank[y] < rank[x] + 1 => g[y] = step[y][g] /\ h[y] = step[y][h]
        BY DEF Recursion
    <2>3. QED
        BY <1>1, <2>1, <2>2, RecursionAgrees
<1>3. QED
    BY <1>1, <1>2
=============================================================================
