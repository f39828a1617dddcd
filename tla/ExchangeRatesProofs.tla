------------------------ MODULE ExchangeRatesProofs ------------------------
(***************************************************************************)
(* The exchange rates of a market, for any currencies, dates, assets and   *)
(* lists of currencies.  Both lookups are recursive; what they compute is  *)
(* shown by induction over the depth of the calls, and over the place in   *)
(* the list from which the currencies are tried.                           *)
(***************************************************************************)
EXTENDS ExchangeRates, Induction, FiniteSetTheorems

Known == Int \cup {None}
Found == Int \cup {None, Overflow}
Answers == [Route -> Found]

TypeOK ==
    /\ rates \in [Route -> Known]
    /\ crosses \in Seq(Ccy)
    /\ curve \in [Asset -> {None, "empty", "rates"}]
    /\ pc \in {"running", "overflow"}

-----------------------------------------------------------------------------
\* The helpers of both lookups.

LEMMA TrueType == ASSUME NEW r \in Route, NEW d \in Date PROVE True(r, d) \in Int
    BY WorthAssumption DEF True, Route

\* Crossing the true rates of two legs gives that of the whole.
LEMMA TrueCross ==
    ASSUME NEW r \in Route, NEW d \in Date, NEW x \in Ccy
    PROVE  True(<<r[1], x>>, d) + True(<<x, r[2]>>, d) = True(r, d)
<1>1. Worth[d][r[1]] \in Int /\ Worth[d][r[2]] \in Int /\ Worth[d][x] \in Int
    BY WorthAssumption DEF Route
<1>2. QED
    BY <1>1 DEF True

LEMMA TrueInverse ==
    ASSUME NEW r \in Route, NEW d \in Date
    PROVE  -True(<<r[2], r[1]>>, d) = True(r, d) /\ (r[1] = r[2] => True(r, d) = 0)
<1>1. Worth[d][r[1]] \in Int /\ Worth[d][r[2]] \in Int
    BY WorthAssumption DEF Route
<1>2. QED
    BY <1>1 DEF True

LEMMA ProductType ==
    ASSUME NEW a \in Found, NEW b \in Found
    PROVE  /\ Product(a, b) \in Found
           /\ a \in Int /\ b \in Int => Product(a, b) = a + b
           /\ Product(a, b) \in Int => a \in Int /\ b \in Int
           /\ a # Overflow /\ b # Overflow => Product(a, b) # Overflow
    BY NoneAssumption DEF Product, Found

\* The first usable currency from a place on, if there is one.
LEMMA First ==
    ASSUME NEW X \in Seq(Ccy), NEW i \in Nat \ {0}, NEW r
    PROVE  LET j == FirstUsable(X, i, r) IN
           /\ j = 0 => \A k \in i..Len(X) : ~Usable(X[k], r)
           /\ j # 0 => /\ j \in i..Len(X) /\ X[j] \in Ccy /\ Usable(X[j], r)
                       /\ \A k \in i..Len(X) : k < j => ~Usable(X[k], r)
           /\ j \in Nat
<1> DEFINE J == {j \in i..Len(X) : Usable(X[j], r)}
<1>1. CASE J = {}
    BY <1>1 DEF FirstUsable
<1>2. CASE J # {}
    <2>1. J \in SUBSET Nat
        OBVIOUS
    <2>2. \E j \in J : \A k \in J : j <= k
        <3> HIDE DEF J
        <3>1. QED
            BY <1>2, <2>1, LeastExists
    <2>3. FirstUsable(X, i, r) = CHOOSE j \in J : \A k \in J : j <= k
        BY <1>2 DEF FirstUsable
    <2>4. FirstUsable(X, i, r) \in J /\ \A k \in J : FirstUsable(X, i, r) <= k
        <3> HIDE DEF J
        <3>1. QED
            BY <2>2, <2>3
    <2>5. QED
        BY <2>4
<1>3. QED
    BY <1>1, <1>2

-----------------------------------------------------------------------------
\* rq_exchange_rate_mgr_get: one more level of its calls.

Level(R, X, deeper) ==
    [r \in Route |->
        LET j == FirstUsable(X, 1, r) IN
        CASE r[1] = r[2] -> 0
          [] r[1] # r[2] /\ R[r] # None -> R[r]
          [] OTHER -> IF j = 0 THEN None
                      ELSE Product(deeper[<<r[1], X[j]>>], deeper[<<X[j], r[2]>>])]

Depth == Cardinality(Route)

LEMMA DepthType == IsFiniteSet(Route) /\ Depth \in Nat
    BY CcyAssumption, FS_Product, FS_CardinalityType DEF Route, Depth

Leg(X, i, r, n) == LET x == X[FirstUsable(X, i, r)]
                      IN IF n = 1 THEN <<r[1], x>> ELSE <<x, r[2]>>

LEMMA Legs ==
    ASSUME NEW X \in Seq(Ccy), NEW i \in Nat \ {0}, NEW r \in Route,
           FirstUsable(X, i, r) # 0
    PROVE  Leg(X, i, r, 1) \in Route /\ Leg(X, i, r, 2) \in Route
    BY First DEF Leg, Route

LEMMA LevelCases ==
    ASSUME NEW R \in [Route -> Known], NEW X, NEW deeper, NEW r \in Route
    PROVE  /\ r[1] = r[2] => Level(R, X, deeper)[r] = 0
           /\ r[1] # r[2] /\ R[r] # None => Level(R, X, deeper)[r] = R[r]
           /\ r[1] # r[2] /\ R[r] = None => 
                Level(R, X, deeper)[r] =
                    IF FirstUsable(X, 1, r) = 0 THEN None
                    ELSE Product(deeper[Leg(X, 1, r, 1)], deeper[Leg(X, 1, r, 2)])
    BY DEF Level, Leg

LEMMA LevelType ==
    ASSUME NEW R \in [Route -> Known], NEW X \in Seq(Ccy), NEW deeper \in Answers
    PROVE  Level(R, X, deeper) \in Answers
<1>1. ASSUME NEW r \in Route PROVE Level(R, X, deeper)[r] \in Found
    <2>1. R[r] \in Found /\ 0 \in Found /\ None \in Found
        BY DEF Known, Found
    <2>2. \A s \in Route : deeper[s] \in Found
        BY DEF Answers
    <2>3. CASE r[1] # r[2] /\ R[r] = None /\ FirstUsable(X, 1, r) # 0
        <3>1. deeper[Leg(X, 1, r, 1)] \in Found /\ deeper[Leg(X, 1, r, 2)] \in Found
            BY <2>2, <2>3, Legs
        <3>2. Level(R, X, deeper)[r] = Product(deeper[Leg(X, 1, r, 1)], deeper[Leg(X, 1, r, 2)])
            BY <2>3, LevelCases
        <3>3. QED
            BY <3>1, <3>2, ProductType
    <2>4. CASE ~(r[1] # r[2] /\ R[r] = None /\ FirstUsable(X, 1, r) # 0)
        BY <2>1, <2>4, LevelCases
    <2>5. QED
        BY <2>3, <2>4
<1>2. Level(R, X, deeper) = [r \in Route |-> Level(R, X, deeper)[r]]
    BY DEF Level
<1>3. QED
    BY <1>1, <1>2 DEF Answers

\* What the lookup gives is the last of as many levels as there are routes.
IsLevels(f, R, X) ==
    /\ f \in [0..Depth -> Answers]
    /\ f[0] = [r \in Route |-> Overflow]
    /\ \A n \in 1..Depth : f[n] = Level(R, X, f[n-1])

LEMMA Levels ==
    ASSUME NEW R \in [Route -> Known], NEW X \in Seq(Ccy)
    PROVE  \E f : IsLevels(f, R, X) /\ Get(R, X) = f[Depth]
<1> DEFINE f0 == [r \in Route |-> Overflow]
           step == [g \in Answers |-> Level(R, X, g)]
           IsIt(g) == g = [n \in 0..Depth |-> IF n = 0 THEN f0 ELSE Level(R, X, g[n-1])]
           it == CHOOSE g : IsIt(g)
<1>1. f0 \in Answers /\ step \in [Answers -> Answers] /\ Depth \in Nat
    BY LevelType, DepthType DEF Answers, Found
<1>2. \A g \in Answers : step[g] = Level(R, X, g)
    OBVIOUS
<1> HIDE DEF f0, step
<1>3. PICK f : Iteration(f, Answers, f0, step, Depth)
    BY <1>1, Iterates
<1>a. /\ f \in [0..Depth -> Answers] /\ f[0] = f0
      /\ \A n \in 1..Depth : f[n] = step[f[n-1]]
    BY <1>3 DEF Iteration
<1>4. IsIt(f)
    <2>1. ASSUME NEW n \in 0..Depth
          PROVE  f[n] = IF n = 0 THEN f0 ELSE Level(R, X, f[n-1])
        <3>1. CASE n = 0
            BY <1>a, <3>1
        <3>2. CASE n # 0
            <4>1. n \in 1..Depth /\ n - 1 \in 0..Depth
                BY <1>1, <3>2
            <4>2. f[n-1] \in Answers
                BY <4>1, <1>a
            <4>3. QED
                BY <4>1, <4>2, <3>2, <1>2, <1>a
        <3>3. QED
            BY <3>1, <3>2
    <2>2. f = [n \in 0..Depth |-> f[n]]
        BY <1>a
    <2>3. QED
        BY <2>1, <2>2
<1>5. IsIt(it)
    <2> HIDE DEF IsIt
    <2>1. QED
        BY <1>4
<1>6. Get(R, X) = it[Depth]
    BY DEF Get, Level, Depth, f0
<1> HIDE DEF it
<1>7. /\ it[0] = f0
      /\ \A n \in 1..Depth : it[n] = Level(R, X, it[n-1])
    BY <1>1, <1>5
<1>8. it \in [0..Depth -> Answers]
    <2> DEFINE S == {n \in 0..Depth : it[n] \in Answers}
    <2>1. 0 \in S
        BY <1>1, <1>7
    <2>2. ASSUME NEW n \in 1..Depth, n - 1 \in S PROVE n \in S
        BY <2>2, <1>1, <1>7, LevelType
    <2> HIDE DEF S
    <2>3. 0..Depth \subseteq S
        BY <1>1, <2>1, <2>2, Upwards
    <2>4. \A n \in 0..Depth : it[n] \in Answers
        BY <2>3 DEF S
    <2>5. QED
        BY <1>5, <2>4
<1>9. QED
    BY <1>6, <1>7, <1>8 DEF IsLevels, f0

\* What is answered is true of the date that all stored rates are of.
LEMMA GetTrue ==
    ASSUME NEW R \in [Route -> Known], NEW X \in Seq(Ccy), NEW d \in Date,
           \A r \in Route : R[r] \in {None, True(r, d)}
    PROVE  \A r \in Route : Get(R, X)[r] \in {None, Overflow, True(r, d)}
<1> DEFINE Right(g) == \A r \in Route : g[r] \in {None, Overflow, True(r, d)}
<1>1. PICK f : IsLevels(f, R, X) /\ Get(R, X) = f[Depth]
    BY Levels
<1> DEFINE S == {n \in 0..Depth : Right(f[n])}
<1>2. 0 \in S
    BY <1>1, DepthType DEF IsLevels
<1>3. ASSUME NEW n \in 1..Depth, n - 1 \in S PROVE n \in S
    <2>1. f[n] = Level(R, X, f[n-1]) /\ f[n-1] \in Answers
        BY <1>1, <1>3, DepthType DEF IsLevels
    <2>2. ASSUME NEW r \in Route PROVE f[n][r] \in {None, Overflow, True(r, d)}
        <3>1. CASE r[1] # r[2] /\ R[r] = None /\ FirstUsable(X, 1, r) # 0
            <4>0. Right(f[n-1])
                BY <1>3
            <4> DEFINE a == f[n-1][Leg(X, 1, r, 1)]
                       b == f[n-1][Leg(X, 1, r, 2)]
                       x == X[FirstUsable(X, 1, r)]
            <4>1. /\ a \in {None, Overflow, True(<<r[1], x>>, d)}
                  /\ b \in {None, Overflow, True(<<x, r[2]>>, d)}
                BY <4>0, <3>1, Legs DEF Leg
            <4>2. x \in Ccy /\ <<r[1], x>> \in Route /\ <<x, r[2]>> \in Route
                BY <3>1, First DEF Route
            <4>3. /\ True(<<r[1], x>>, d) \in Int /\ True(<<x, r[2]>>, d) \in Int
                  /\ True(<<r[1], x>>, d) + True(<<x, r[2]>>, d) = True(r, d)
                BY <4>2, TrueType, TrueCross
            <4>4. f[n][r] = Product(a, b)
                BY <2>1, <3>1, LevelCases
            <4> HIDE DEF a, b, x
            <4>5. QED
                BY <4>1, <4>3, <4>4, NoneAssumption DEF Product
        <3>2. CASE ~(r[1] # r[2] /\ R[r] = None /\ FirstUsable(X, 1, r) # 0)
            <4>1. r[1] = r[2] => True(r, d) = 0
                BY TrueInverse
            <4>2. R[r] \in {None, True(r, d)}
                OBVIOUS
            <4>3. QED
                BY <2>1, <3>2, <4>1, <4>2, LevelCases
        <3>3. QED
            BY <3>1, <3>2
    <2>3. QED
        BY <2>2
<1> HIDE DEF S
<1>4. 0..Depth \subseteq S
    BY <1>2, <1>3, DepthType, Upwards
<1>5. QED
    BY <1>1, <1>4, DepthType DEF S

-----------------------------------------------------------------------------
\* lookup_exchange_rate: the rates with the list from one place on.

Null(X) == Len(X) + 1

From(X, d, i, g) ==
    LET null == Len(X) + 1 IN
    [r \in Route |->
        LET a == FindPair(r)
            j == FirstUsable(X, i, r)
            next == IF a = None THEN null ELSE j + 1
        IN CASE r[1] = r[2] -> 0
             [] r[1] # r[2] /\ a # None /\ curve[a] = "rates" ->
                    IF Direct(r, a) THEN CurveRate(a, d) ELSE -CurveRate(a, d)
             [] r[1] # r[2] /\ a # None /\ curve[a] = "empty" -> None
             [] OTHER ->
                    IF j = 0 THEN None
                    ELSE LET legs == g[next]
                         IN Product(legs[<<r[1], X[j]>>], legs[<<X[j], r[2]>>])]

Imply(X, d) ==
    LET from[i \in 1..Null(X)] == From(X, d, i, from)
    IN from[1]

LEMMA LookupImplies == ASSUME NEW d PROVE Lookup(d) = Imply(crosses, d)
BY DEF Lookup, Imply, From, Null

\* Where in the list the legs of a route go on.
LegsFrom(X, i, r) == IF FindPair(r) = None THEN Null(X) ELSE FirstUsable(X, i, r) + 1

HasCurve(r) == FindPair(r) # None /\ curve[FindPair(r)] \in {"rates", "empty"}

ByCurve(d, r) ==
    LET a == FindPair(r)
    IN IF curve[a] = "rates"
       THEN IF Direct(r, a) THEN CurveRate(a, d) ELSE -CurveRate(a, d)
       ELSE None

LEMMA FromCases ==
    ASSUME NEW X, NEW d, NEW i, NEW g, NEW r \in Route
    PROVE  From(X, d, i, g)[r] =
             IF r[1] = r[2] THEN 0
             ELSE IF HasCurve(r) THEN ByCurve(d, r)
             ELSE IF FirstUsable(X, i, r) = 0 THEN None
             ELSE LET legs == g[LegsFrom(X, i, r)]
                  IN Product(legs[Leg(X, i, r, 1)], legs[Leg(X, i, r, 2)])
BY DEF From, HasCurve, ByCurve, LegsFrom, Leg, Null

\* A rate by a curve is true, whichever way it is quoted.
LEMMA CurveTrue ==
    ASSUME NEW r \in Route, NEW d \in Date, r[1] # r[2], HasCurve(r)
    PROVE  ByCurve(d, r) \in {None, True(r, d)}
<1> DEFINE s == <<r[2], r[1]>>
<1>1. /\ r = <<r[1], r[2]>> /\ s \in Route
      /\ True(r, d) \in Int /\ True(s, d) \in Int
      /\ -True(s, d) = True(r, d) /\ -True(r, d) = True(s, d)
    <2>1. r = <<r[1], r[2]>> /\ s \in Route
        BY DEF Route
    <2>2. QED
        BY <2>1, TrueType, TrueInverse
<1>2. CASE FindPair(r) = r
    BY <1>1, <1>2 DEF ByCurve, Direct, CurveRate
<1>3. CASE FindPair(r) = s
    BY <1>1, <1>3 DEF ByCurve, Direct, CurveRate
<1>4. QED
    BY <1>2, <1>3 DEF HasCurve, FindPair

Rates == [Route -> Known]

LEMMA FromType ==
    ASSUME NEW X \in Seq(Ccy), NEW d \in Date, NEW i \in 1..Null(X), NEW g,
           \A k \in (i+1)..Null(X) : g[k] \in Rates
    PROVE  /\ From(X, d, i, g) \in Rates
           /\ \A r \in Route : FirstUsable(X, i, r) # 0 => LegsFrom(X, i, r) \in (i+1)..Null(X)
<1>1. ASSUME NEW r \in Route, FirstUsable(X, i, r) # 0
      PROVE  LegsFrom(X, i, r) \in (i+1)..Null(X)
    BY <1>1, First DEF LegsFrom, Null
<1>2. ASSUME NEW r \in Route PROVE From(X, d, i, g)[r] \in Known
    <2>1. 0 \in Known /\ None \in Known /\ True(r, d) \in Known
        BY TrueType DEF Known
    <2>2. CASE r[1] # r[2] /\ ~HasCurve(r) /\ FirstUsable(X, i, r) # 0
        <3> DEFINE legs == g[LegsFrom(X, i, r)]
                   a == legs[Leg(X, i, r, 1)]
                   b == legs[Leg(X, i, r, 2)]
        <3>1. legs \in Rates
            BY <1>1, <2>2
        <3>2. i \in Nat \ {0}
            BY DEF Null
        <3>3. a \in Known /\ b \in Known
            BY <3>1, <3>2, <2>2, Legs DEF Rates
        <3>4. From(X, d, i, g)[r] = Product(a, b)
            BY <2>2, FromCases
        <3> HIDE DEF a, b
        <3>5. QED
            BY <3>3, <3>4, NoneAssumption DEF Known, Product
    <2>3. CASE ~(r[1] # r[2] /\ ~HasCurve(r) /\ FirstUsable(X, i, r) # 0)
        BY <2>1, <2>3, FromCases, CurveTrue
    <2>4. QED
        BY <2>2, <2>3
<1>3. From(X, d, i, g) = [r \in Route |-> From(X, d, i, g)[r]]
    BY DEF From
<1>4. QED
    BY <1>1, <1>2, <1>3 DEF Rates

\* What the lookup gives is the first of the rates from each place in the list.
IsPlaces(f, X, d) ==
    /\ f \in [1..Null(X) -> Rates]
    /\ \A i \in 1..Null(X) : f[i] = From(X, d, i, f)

LEMMA Places ==
    ASSUME NEW X \in Seq(Ccy), NEW d \in Date
    PROVE  \E f : IsPlaces(f, X, d) /\ Imply(X, d) = f[1]
<1> DEFINE N == Null(X)
           F == [1..N -> Rates]
           step == [i \in 1..N |-> [g \in F |-> From(X, d, i, g)]]
           IsIt(g) == g = [i \in 1..N |-> From(X, d, i, g)]
           it == CHOOSE g : IsIt(g)
<1>1. N \in Nat /\ 1 \in 1..N
    BY DEF Null
<1>2. Rates # {}
    <2>1. [r \in Route |-> None] \in Rates
        BY DEF Rates, Known
    <2>2. QED
        BY <2>1
<1>3. ASSUME NEW i \in 1..N, NEW g \in F PROVE From(X, d, i, g) \in Rates
    <2>1. \A k \in (i+1)..N : g[k] \in Rates
        BY <1>1
    <2>2. QED
        BY <2>1, FromType
<1>4. step \in [1..N -> [F -> Rates]]
    BY <1>3
<1>5. LaterOnly(F, step, N)
    <2> SUFFICES ASSUME NEW i \in 1..N, NEW g \in F, NEW h \in F,
                        \A k \in (i+1)..N : g[k] = h[k]
                 PROVE  step[i][g] = step[i][h]
        BY DEF LaterOnly
    <2>1. \A k \in (i+1)..N : g[k] \in Rates
        BY <1>1
    <2>2. ASSUME NEW r \in Route PROVE From(X, d, i, g)[r] = From(X, d, i, h)[r]
        <3>1. FirstUsable(X, i, r) # 0 => g[LegsFrom(X, i, r)] = h[LegsFrom(X, i, r)]
            BY <2>1, FromType
        <3> HIDE DEF F, step
        <3>2. QED
            BY ONLY <3>1, FromCases, r \in Route
    <2>3. From(X, d, i, g) = From(X, d, i, h)
        BY <1>3, <2>2 DEF Rates
    <2>4. QED
        BY <2>3
<1>6. \A i \in 1..N, g \in F : step[i][g] = From(X, d, i, g)
    OBVIOUS
<1> HIDE DEF step
<1>7. PICK f : Descending(f, F, step, N)
    <2> DEFINE G == F
    <2>1. G = [1..N -> Rates]
        OBVIOUS
    <2> HIDE DEF G
    <2>2. QED
        BY <1>1, <1>2, <1>4, <1>5, <2>1, Descends
<1>8. f \in F /\ \A i \in 1..N : f[i] = From(X, d, i, f)
    BY <1>6, <1>7 DEF Descending
<1>9. IsIt(f)
    BY <1>8
<1>10. IsIt(it)
    <2> HIDE DEF IsIt
    <2>1. QED
        BY <1>9
<1>11. Imply(X, d) = it[1]
    BY DEF Imply
<1> HIDE DEF it
<1>12. \A i \in 1..N : it[i] = From(X, d, i, it)
    BY <1>10
<1>13. it \in F
    <2> DEFINE S == {i \in 1..N : it[i] \in Rates}
    <2>1. ASSUME NEW i \in 1..N, \A k \in (i+1)..N : k \in S PROVE i \in S
        BY <2>1, <1>12, FromType
    <2> HIDE DEF S
    <2>2. 1..N \subseteq S
        BY <1>1, <2>1, DownFrom
    <2>3. \A i \in 1..N : it[i] \in Rates
        BY <2>2 DEF S
    <2>4. QED
        BY <1>10, <2>3
<1>14. IsPlaces(it, X, d)
    BY <1>12, <1>13 DEF IsPlaces
<1>15. QED
    BY <1>11, <1>14

\* Every rate that the forward curves give is the true one of the date.
LEMMA LookupTrue ==
    ASSUME crosses \in Seq(Ccy), NEW d \in Date
    PROVE  \A r \in Route : Lookup(d)[r] \in {None, True(r, d)}
<1> DEFINE X == crosses
           Right(g) == \A r \in Route : g[r] \in {None, True(r, d)}
<1>1. PICK f : IsPlaces(f, X, d) /\ Lookup(d) = f[1]
    BY LookupImplies, Places
<1> DEFINE S == {i \in 1..Null(X) : Right(f[i])}
<1>2. ASSUME NEW i \in 1..Null(X), \A k \in (i+1)..Null(X) : k \in S PROVE i \in S
    <2>1. /\ f[i] = From(X, d, i, f) /\ i \in Nat \ {0}
          /\ \A k \in (i+1)..Null(X) : f[k] \in Rates
        BY <1>1 DEF IsPlaces, Null
    <2>2. ASSUME NEW r \in Route PROVE f[i][r] \in {None, True(r, d)}
        <3>1. CASE r[1] # r[2] /\ ~HasCurve(r) /\ FirstUsable(X, i, r) # 0
            <4> DEFINE k == LegsFrom(X, i, r)
                       x == X[FirstUsable(X, i, r)]
                       a == f[k][Leg(X, i, r, 1)]
                       b == f[k][Leg(X, i, r, 2)]
            <4>1. k \in (i+1)..Null(X)
                BY <2>1, <3>1, FromType
            <4>2. Right(f[k])
                BY <1>2, <4>1
            <4>3. x \in Ccy /\ <<r[1], x>> \in Route /\ <<x, r[2]>> \in Route
                BY <2>1, <3>1, First DEF Route
            <4>4. /\ a \in {None, True(<<r[1], x>>, d)}
                  /\ b \in {None, True(<<x, r[2]>>, d)}
                BY <4>2, <4>3 DEF Leg
            <4>5. /\ True(<<r[1], x>>, d) \in Int /\ True(<<x, r[2]>>, d) \in Int
                  /\ True(<<r[1], x>>, d) + True(<<x, r[2]>>, d) = True(r, d)
                BY <4>3, TrueType, TrueCross
            <4>6. f[i][r] = Product(a, b)
                BY <2>1, <3>1, FromCases
            <4> HIDE DEF a, b, x
            <4>7. QED
                BY <4>4, <4>5, <4>6, NoneAssumption DEF Product
        <3>2. CASE ~(r[1] # r[2] /\ ~HasCurve(r) /\ FirstUsable(X, i, r) # 0)
            <4>1. r[1] = r[2] => True(r, d) = 0
                BY TrueInverse
            <4>2. QED
                BY <2>1, <3>2, <4>1, FromCases, CurveTrue
        <3>3. QED
            BY <3>1, <3>2
    <2>3. QED
        BY <2>2
<1> HIDE DEF S
<1>3. 1..Null(X) \subseteq S
    <2>1. Null(X) \in Nat
        BY DEF Null
    <2>2. QED
        BY <1>2, <2>1, DownFrom
<1>4. Right(f[1])
    BY <1>3 DEF S, Null
<1>5. QED
    BY <1>1, <1>4

-----------------------------------------------------------------------------
\* The rates that are stored.

Inv == TypeOK /\ StoredRight

\* A true rate is stored both ways, even that of a currency to itself.
LEMMA BothStored ==
    ASSUME Inv, NEW r \in Route, NEW d \in Date,
           rates' = BothRates(r[1], r[2], True(r, d))
    PROVE  rates' \in Rates /\ StoredRight'
<1> DEFINE s == <<r[2], r[1]>>
<1>1. r = <<r[1], r[2]>> /\ s \in Route /\ rates \in Rates
    BY DEF Route, Rates, Inv, TypeOK
<1>2. /\ True(r, d) \in Int /\ True(s, d) \in Int
      /\ -True(r, d) = True(s, d) /\ -True(s, d) = True(r, d)
      /\ r = s => True(r, d) = 0
    BY <1>1, TrueType, TrueInverse
<1>3. rates' = [q \in Route |-> IF q = s THEN True(s, d)
                                ELSE IF q = r THEN True(r, d) ELSE rates[q]]
    BY <1>1, <1>2 DEF BothRates, Rates
<1>4. rates' \in Rates
    BY <1>1, <1>2, <1>3 DEF Rates, Known
<1>5. RatesAreTrue'
    BY <1>3 DEF Inv, StoredRight, RatesAreTrue
<1>6. ASSUME NEW q \in Route, rates'[q] # None
      PROVE  /\ rates'[<<q[2], q[1]>>] # None
             /\ rates'[q] = -rates'[<<q[2], q[1]>>]
    <2> DEFINE p == <<q[2], q[1]>>
    <2>1. p \in Route /\ q = <<q[1], q[2]>>
        BY DEF Route
    <2>2. (q = r <=> p = s) /\ (q = s <=> p = r)
        BY <1>1, <2>1
    <2>3. True(r, d) # None /\ True(s, d) # None
        BY <1>2, NoneAssumption
    <2>4. CASE q \in {r, s}
        BY <1>2, <1>3, <2>1, <2>2, <2>3, <2>4
    <2>5. CASE q \notin {r, s}
        <3>1. rates'[q] = rates[q] /\ rates'[p] = rates[p]
            BY <1>3, <2>1, <2>2, <2>5
        <3>2. QED
            BY <1>6, <3>1 DEF Inv, StoredRight, BothWays
    <2>6. QED
        BY <2>4, <2>5
<1>7. BothWays'
    BY <1>6 DEF BothWays
<1>8. QED
    BY <1>4, <1>5, <1>7 DEF StoredRight

LEMMA Initially == Init => Inv
    BY DEF Init, Inv, TypeOK, StoredRight, RatesAreTrue, BothWays, Known, Route

LEMMA Stored == Inv /\ [Next]_vars => Inv'
<1> SUFFICES ASSUME Inv, [Next]_vars PROVE Inv'
    OBVIOUS
<1> USE DEF Inv
<1>1. ASSUME UNCHANGED <<rates>>, crosses' \in Seq(Ccy), pc' \in {"running", "overflow"},
             curve' \in [Asset -> {None, "empty", "rates"}]
      PROVE  Inv'
    BY <1>1 DEF TypeOK, StoredRight, RatesAreTrue, BothWays
<1>2. ASSUME NEW r \in Route, NEW d \in Date, rates' = BothRates(r[1], r[2], True(r, d)),
             UNCHANGED <<crosses, pc>>,
             curve' \in [Asset -> {None, "empty", "rates"}]
      PROVE  Inv'
    BY <1>2, BothStored DEF TypeOK, Rates
<1>3. ASSUME NEW a \in Asset, NEW shape \in {"empty", "rates"}, AddCurve(a, shape)
      PROVE  Inv'
    BY <1>1, <1>3 DEF AddCurve, TypeOK
<1>4. ASSUME NEW a \in Asset, NEW shape \in {"empty", "rates"}, NEW spot \in Date,
             BootstrapCurve(a, shape, spot)
      PROVE  Inv'
    <2> DEFINE s == <<a[2], a[1]>>
    <2>1. curve' \in [Asset -> {None, "empty", "rates"}] /\ UNCHANGED <<crosses, pc>>
        BY <1>4 DEF BootstrapCurve, TypeOK
    <2>2. CASE shape = "empty"
        BY <1>1, <1>4, <2>1, <2>2 DEF BootstrapCurve, TypeOK
    <2>3. a \in Route /\ s \in Route /\ a = <<a[1], a[2]>>
        BY AssetAssumption DEF Route
    <2>4. CASE shape # "empty" /\ a \in Per1
        BY <1>2, <1>4, <2>1, <2>3, <2>4 DEF BootstrapCurve, CurveRate
    <2>5. CASE shape # "empty" /\ a \notin Per1
        <3>1. rates' = BothRates(s[1], s[2], True(s, spot))
            BY <1>4, <2>5 DEF BootstrapCurve, CurveRate
        <3> HIDE DEF s
        <3>2. QED
            BY <1>2, <2>1, <2>3, <3>1
    <2>6. QED
        BY <2>2, <2>4, <2>5
<1>5. ASSUME NEW d \in Date, GetOrImply(d) PROVE Inv'
    <2>1. PICK r \in Route : Lookup(d)[r] # None /\ rates' = BothRates(r[1], r[2], Lookup(d)[r])
        BY <1>5 DEF GetOrImply
    <2>2. Lookup(d)[r] = True(r, d)
        BY <2>1, LookupTrue DEF TypeOK
    <2>3. QED
        BY <1>2, <1>5, <2>1, <2>2 DEF GetOrImply, TypeOK
<1>6. ASSUME NEW list \in Lists, AddCrosses(list) PROVE Inv'
    <2>1. crosses' \in Seq(Ccy)
        BY <1>6, CcyAssumption, ListsAssumption DEF AddCrosses, Appended, TypeOK
    <2>2. QED
        BY <1>1, <1>6, <2>1 DEF AddCrosses, TypeOK
<1>7. CASE GetOverflows
    BY <1>1, <1>7 DEF GetOverflows, TypeOK
<1>8. CASE Clear
    <2>1. rates' = [r \in Route |-> None] /\ crosses' = <<>> /\ UNCHANGED <<curve, pc>>
        BY <1>8 DEF Clear
    <2>2. TypeOK'
        BY <2>1 DEF TypeOK, Known
    <2>3. StoredRight'
        BY <2>1 DEF StoredRight, RatesAreTrue, BothWays, Route
    <2>4. QED
        BY <2>2, <2>3
<1>9. CASE UNCHANGED vars
    BY <1>1, <1>9 DEF vars, TypeOK
<1>10. QED
    BY <1>3, <1>4, <1>5, <1>6, <1>7, <1>8, <1>9 DEF Next

\* Every rate that is stored is the true one of some date, and the inverse of the
\* one the other way.
THEOREM RatesStored == Spec => []StoredRight
<1>1. Inv => StoredRight
    BY DEF Inv
<1>2. QED
    BY <1>1, Initially, Stored, PTL DEF Spec

-----------------------------------------------------------------------------
\* What is answered from them.

\* When a lookup cannot go on for ever: each currency crossed through is the only
\* one, or all its rates are known.
Crossable(R, X) ==
    \A i, j \in DOMAIN X :
        X[i] = X[j] \/ \A c \in Ccy \ {X[i]} : R[<<c, X[i]>>] # None

LEMMA Returns ==
    ASSUME Inv, Crossable(rates, crosses)
    PROVE  \A r \in Route : Get(rates, crosses)[r] # Overflow
<1> DEFINE R == rates
           X == crosses
<1>0. R \in [Route -> Known] /\ X \in Seq(Ccy)
    BY DEF Inv, TypeOK
<1>1. PICK f : IsLevels(f, R, X) /\ Get(R, X) = f[Depth]
    BY <1>0, Levels
<1>2. ASSUME NEW r \in Route, NEW n \in 1..Depth,
             r[1] = r[2] \/ R[r] # None \/ FirstUsable(X, 1, r) = 0
      PROVE  f[n][r] # Overflow
    <2>1. f[n] = Level(R, X, f[n-1])
        BY <1>1 DEF IsLevels
    <2>2. R[r] # Overflow
        BY <1>0, NoneAssumption DEF Known
    <2>3. 0 # Overflow /\ None # Overflow
        BY NoneAssumption
    <2>4. QED
        BY <1>0, <1>2, <2>1, <2>2, <2>3, LevelCases
<1>3. ASSUME NEW r \in Route PROVE f[Depth][r] # Overflow
    <2>1. Depth \in 1..Depth
        BY DepthType, FS_EmptySet DEF Depth
    <2>2. CASE r[1] = r[2] \/ R[r] # None \/ FirstUsable(X, 1, r) = 0
        BY <1>2, <2>1, <2>2
    <2>3. CASE ~(r[1] = r[2] \/ R[r] # None \/ FirstUsable(X, 1, r) = 0)
        <3> DEFINE j == FirstUsable(X, 1, r)
                   x == X[j]
        <3>1. j \in DOMAIN X /\ x \in Ccy /\ x # r[1] /\ x # r[2]
            BY <1>0, <2>3, First DEF Usable
        <3>2. Depth - 1 \in 1..Depth
            <4> DEFINE p == <<r[1], r[1]>>
            <4>1. {p} \cup {r} \in SUBSET Route /\ r # p
                BY <2>3 DEF Route
            <4> HIDE DEF p
            <4>2. IsFiniteSet({p}) /\ Cardinality({p}) = 1
                BY FS_Singleton
            <4>3. Cardinality({p} \cup {r}) = 2
                BY <4>1, <4>2, FS_AddElement
            <4>4. Depth >= 2
                BY <4>1, <4>3, DepthType, FS_Subset DEF Depth
            <4>5. QED
                BY <4>4, DepthType
        <3>3. ASSUME NEW q \in Route, q \in {Leg(X, 1, r, 1), Leg(X, 1, r, 2)}
              PROVE  R[q] # None \/ FirstUsable(X, 1, q) = 0
            <4>1. CASE \E k \in DOMAIN X : X[k] # x
                <5>1. \A c \in Ccy \ {x} : R[<<c, x>>] # None
                    BY <3>1, <4>1 DEF Crossable
                <5>2. ASSUME NEW c \in Ccy \ {x} PROVE R[<<x, c>>] # None
                    <6> DEFINE p == <<c, x>>
                    <6>1. p \in Route /\ p[1] = c /\ p[2] = x /\ rates[p] # None
                        BY <3>1, <5>1 DEF Route
                    <6> HIDE DEF p, x
                    <6>2. QED
                        BY <6>1 DEF Inv, StoredRight, BothWays
                <5>3. r[1] \in Ccy /\ r[2] \in Ccy
                    BY DEF Route
                <5>4. QED
                    BY <3>1, <3>3, <5>1, <5>2, <5>3 DEF Leg
            <4>2. CASE \A k \in DOMAIN X : X[k] = x
                <5>1. \A k \in 1..Len(X) : ~Usable(X[k], q)
                    BY <1>0, <3>3, <4>2 DEF Usable, Leg
                <5>2. QED
                    BY <1>0, <5>1, First
            <4>3. QED
                BY <4>1, <4>2
        <3>4. Leg(X, 1, r, 1) \in Route /\ Leg(X, 1, r, 2) \in Route
            BY <1>0, <2>3, Legs
        <3> DEFINE a == f[Depth-1][Leg(X, 1, r, 1)]
                   b == f[Depth-1][Leg(X, 1, r, 2)]
        <3>5. a # Overflow /\ b # Overflow
            BY <1>2, <3>2, <3>3, <3>4
        <3>6. a \in Found /\ b \in Found
            BY <1>1, <3>2, <3>4 DEF IsLevels, Answers
        <3>7. f[Depth][r] = Product(a, b)
            <4>1. f[Depth] = Level(R, X, f[Depth-1])
                BY <1>1, <2>1 DEF IsLevels
            <4>2. QED
                BY <1>0, <2>3, <4>1, LevelCases
        <3> HIDE DEF a, b
        <3>8. QED
            BY <3>5, <3>6, <3>7, ProductType
    <2>4. QED
        BY <2>2, <2>3
<1>4. QED
    BY <1>1, <1>3

LEMMA Answered == Inv /\ OverflowCause /\ [Next]_vars => OverflowCause'
<1> SUFFICES ASSUME Inv, OverflowCause, [Next]_vars, pc' = "overflow"
             PROVE  ~Crossable(rates', crosses')
    BY DEF OverflowCause, Crossable
<1>1. CASE GetOverflows
    <2>1. ~Crossable(rates, crosses)
        BY <1>1, Returns DEF GetOverflows
    <2>2. QED
        BY <1>1, <2>1 DEF GetOverflows
<1>2. CASE UNCHANGED vars
    BY <1>2 DEF vars, OverflowCause, Crossable
<1>3. QED
    BY <1>1, <1>2 DEF Next, AddCurve, BootstrapCurve, GetOrImply, AddCrosses, Clear, Running

\* What the manager answers is true of the date that all stored rates are of; and
\* only a list of two currencies with a rate missing makes it call itself for ever.
THEOREM AnswersTrue == Spec => []AnsweredRight
<1>1. Init => OverflowCause
    BY DEF Init, OverflowCause
<1>2. Inv => CrossesRight
    BY GetTrue DEF Inv, TypeOK, CrossesRight
<1>3. QED
    BY <1>1, <1>2, Initially, Stored, Answered, PTL DEF Spec, AnsweredRight

-----------------------------------------------------------------------------
\* What can be answered once can be answered until the rates are cleared.

LEMMA StillFirst ==
    ASSUME NEW X \in Seq(Ccy), NEW L \in Seq(Ccy), NEW r, FirstUsable(X, 1, r) # 0
    PROVE  /\ FirstUsable(X \o L, 1, r) = FirstUsable(X, 1, r)
           /\ (X \o L)[FirstUsable(X, 1, r)] = X[FirstUsable(X, 1, r)]
<1> DEFINE Y == X \o L
           j == FirstUsable(X, 1, r)
           k == FirstUsable(Y, 1, r)
<1>1. /\ Y \in Seq(Ccy) /\ Len(Y) = Len(X) + Len(L) /\ Len(L) \in Nat /\ Len(X) \in Nat
      /\ \A i \in 1..Len(X) : Y[i] = X[i]
    OBVIOUS
<1>2. /\ j \in 1..Len(X) /\ Usable(X[j], r)
      /\ \A i \in 1..Len(X) : i < j => ~Usable(X[i], r)
    BY First
<1> HIDE DEF Y
<1>3. /\ k = 0 => \A i \in 1..Len(Y) : ~Usable(Y[i], r)
      /\ k # 0 => /\ k \in 1..Len(Y) /\ Usable(Y[k], r)
                  /\ \A i \in 1..Len(Y) : i < k => ~Usable(Y[i], r)
    <2>1. Y \in Seq(Ccy)
        BY <1>1
    <2>2. QED
        BY ONLY <2>1, First
<1> HIDE DEF j, k
<1>4. j = k
    BY <1>1, <1>2, <1>3
<1>5. QED
    BY <1>1, <1>2, <1>4 DEF j, k, Y

\* More rates, and more currencies at the end, leave what was answered.
LEMMA MoreAnswers ==
    ASSUME NEW R \in Rates, NEW P \in Rates, \A r \in Route : R[r] # None => P[r] # None,
           NEW X \in Seq(Ccy), NEW L \in Seq(Ccy)
    PROVE  \A r \in Route : Get(R, X)[r] \in Int => Get(P, X \o L)[r] \in Int
<1> DEFINE Y == X \o L
<1>0. Y \in Seq(Ccy) /\ R \in [Route -> Known] /\ P \in [Route -> Known]
    BY DEF Rates
<1>1. PICK f : IsLevels(f, R, X) /\ Get(R, X) = f[Depth]
    BY <1>0, Levels
<1>2. PICK g : IsLevels(g, P, Y) /\ Get(P, Y) = g[Depth]
    BY <1>0, Levels
<1> DEFINE S == {n \in 0..Depth : \A r \in Route : f[n][r] \in Int => g[n][r] \in Int}
<1>3. 0 \in S
    BY <1>1, DepthType, NoneAssumption DEF IsLevels
<1>4. ASSUME NEW n \in 1..Depth, n - 1 \in S PROVE n \in S
    <2>1. /\ f[n] = Level(R, X, f[n-1]) /\ f[n-1] \in Answers
          /\ g[n] = Level(P, Y, g[n-1]) /\ g[n-1] \in Answers
        BY <1>1, <1>2, DepthType DEF IsLevels
    <2>2. ASSUME NEW r \in Route, f[n][r] \in Int PROVE g[n][r] \in Int
        <3>1. CASE r[1] = r[2]
            BY <1>0, <2>1, <3>1, LevelCases
        <3>2. CASE r[1] # r[2] /\ P[r] # None
            BY <1>0, <2>1, <3>2, LevelCases DEF Known
        <3>3. CASE r[1] # r[2] /\ P[r] = None
            <4>1. R[r] = None
                BY <3>3
            <4>2. FirstUsable(X, 1, r) # 0
                BY <1>0, <2>1, <2>2, <3>3, <4>1, LevelCases, NoneAssumption
            <4>3. FirstUsable(Y, 1, r) # 0 /\ Leg(Y, 1, r, 1) = Leg(X, 1, r, 1)
                  /\ Leg(Y, 1, r, 2) = Leg(X, 1, r, 2)
                BY <4>2, StillFirst, ZenonT(60) DEF Leg
            <4> DEFINE p == Leg(X, 1, r, 1)
                       q == Leg(X, 1, r, 2)
            <4>4. p \in Route /\ q \in Route
                BY <4>2, Legs
            <4>5. f[n][r] = Product(f[n-1][p], f[n-1][q])
                BY <1>0, <2>1, <3>3, <4>1, <4>2, LevelCases
            <4>6. g[n][r] = Product(g[n-1][p], g[n-1][q])
                BY <1>0, <2>1, <3>3, <4>3, LevelCases
            <4> HIDE DEF p, q
            <4>7. /\ f[n-1][p] \in Found /\ f[n-1][q] \in Found
                  /\ g[n-1][p] \in Found /\ g[n-1][q] \in Found
                BY <2>1, <4>4 DEF Answers
            <4>8. f[n-1][p] \in Int /\ f[n-1][q] \in Int
                BY <2>2, <4>5, <4>7, ProductType
            <4>9. g[n-1][p] \in Int /\ g[n-1][q] \in Int
                BY <1>4, <4>4, <4>8
            <4>10. QED
                BY <4>6, <4>7, <4>9, ProductType
        <3>4. QED
            BY <3>1, <3>2, <3>3
    <2>3. QED
        BY <2>2
<1> HIDE DEF S
<1>5. 0..Depth \subseteq S
    BY <1>3, <1>4, DepthType, Upwards
<1>6. QED
    BY <1>1, <1>2, <1>5, DepthType DEF S

\* An answer is a rate, or none, or does not come.
LEMMA GetType ==
    ASSUME NEW R \in Rates, NEW X \in Seq(Ccy), NEW r \in Route
    PROVE  Get(R, X)[r] \notin {None, Overflow} <=> Get(R, X)[r] \in Int
<1>1. PICK f : IsLevels(f, R, X) /\ Get(R, X) = f[Depth]
    BY Levels DEF Rates
<1>2. Get(R, X)[r] \in Found
    BY <1>1, DepthType DEF IsLevels, Answers
<1>3. QED
    BY <1>2, NoneAssumption DEF Found

\* Nothing but clearing loses a rate or changes the beginning of the list.
LEMMA Grows ==
    ASSUME Inv, Inv', Next, ~Clear
    PROVE  /\ \A r \in Route : rates[r] # None => rates'[r] # None
           /\ \E L \in Seq(Ccy) : crosses' = crosses \o L
<1>1. /\ rates \in Rates /\ rates' \in Rates /\ crosses \in Seq(Ccy)
      /\ crosses \o <<>> = crosses /\ <<>> \in Seq(Ccy)
    BY DEF Inv, TypeOK, Rates
<1>2. ASSUME NEW r \in Route, NEW d \in Date, rates' = BothRates(r[1], r[2], True(r, d))
      PROVE  \A q \in Route : rates[q] # None => rates'[q] # None
    <2> DEFINE s == <<r[2], r[1]>>
    <2>1. True(r, d) \in Int /\ -True(r, d) \in Int
        BY TrueType
    <2>2. \A q \in Route : rates'[q] \in {True(r, d), -True(r, d), rates[q]}
        BY <1>1, <1>2 DEF BothRates, Rates
    <2>3. QED
        BY <2>1, <2>2, NoneAssumption
<1>3. ASSUME NEW a \in Asset, NEW shape \in {"empty", "rates"}, NEW spot \in Date,
             BootstrapCurve(a, shape, spot)
      PROVE  \A q \in Route : rates[q] # None => rates'[q] # None
    <2> DEFINE s == <<a[2], a[1]>>
    <2>1. a \in Route /\ s \in Route /\ a = <<a[1], a[2]>> /\ s[1] = a[2] /\ s[2] = a[1]
        BY AssetAssumption DEF Route
    <2> HIDE DEF s
    <2>2. \/ rates' = rates
          \/ rates' = BothRates(a[1], a[2], True(a, spot))
          \/ rates' = BothRates(s[1], s[2], True(s, spot))
        BY <1>3, <2>1 DEF BootstrapCurve, CurveRate, s
    <2>3. QED
        BY <1>2, <2>1, <2>2
<1>4. ASSUME NEW d \in Date, GetOrImply(d)
      PROVE  \A q \in Route : rates[q] # None => rates'[q] # None
    <2>1. PICK r \in Route : Lookup(d)[r] # None /\ rates' = BothRates(r[1], r[2], Lookup(d)[r])
        BY <1>4 DEF GetOrImply
    <2>2. Lookup(d)[r] = True(r, d)
        BY <1>1, <2>1, LookupTrue
    <2>3. QED
        BY <1>2, <2>1, <2>2
<1>5. ASSUME NEW list \in Lists, AddCrosses(list)
      PROVE  \E L \in Seq(Ccy) : crosses' = crosses \o L
    <2> DEFINE L == IF list = <<>> THEN <<Usd>> ELSE list
    <2>1. L \in Seq(Ccy) /\ crosses' = crosses \o L
        BY <1>5, CcyAssumption, ListsAssumption DEF AddCrosses, Appended
    <2> HIDE DEF L
    <2>2. QED
        BY <2>1
<1>6. QED
    <2>1. CASE \E d \in Date : GetOrImply(d)
        BY <1>1, <1>4, <2>1 DEF GetOrImply
    <2>2. CASE \E list \in Lists : AddCrosses(list)
        BY <1>5, <2>2 DEF AddCrosses
    <2>3. CASE GetOverflows
        BY <1>1, <2>3 DEF GetOverflows
    <2>4. ASSUME NEW a \in Asset, NEW shape \in {"empty", "rates"},
                 AddCurve(a, shape) \/ \E spot \in Date : BootstrapCurve(a, shape, spot)
          PROVE  /\ crosses' = crosses
                 /\ \A q \in Route : rates[q] # None => rates'[q] # None
        BY <1>3, <2>4 DEF AddCurve, BootstrapCurve
    <2>5. QED
        BY <1>1, <2>1, <2>2, <2>3, <2>4 DEF Next

\* A rate that the manager can answer it can answer until it is cleared.
THEOREM AnswersKept == Spec => KeepsAnswers
<1> DEFINE Keeps == Clear \/ \A r \in Route :
                        Get(rates, crosses)[r] \notin {None, Overflow} =>
                        Get(rates', crosses')[r] \notin {None, Overflow}
<1>1. Inv /\ Inv' /\ [Next]_vars => [Keeps]_<<rates, crosses>>
    <2> SUFFICES ASSUME Inv, Inv', Next, ~Clear PROVE Keeps
        BY DEF vars
    <2>1. rates \in Rates /\ rates' \in Rates /\ crosses \in Seq(Ccy) /\ crosses' \in Seq(Ccy)
        BY DEF Inv, TypeOK, Rates
    <2>2. PICK L \in Seq(Ccy) : crosses' = crosses \o L
        BY Grows
    <2>3. \A r \in Route : Get(rates, crosses)[r] \in Int => Get(rates', crosses')[r] \in Int
        BY <2>1, <2>2, Grows, MoreAnswers
    <2>4. QED
        BY <2>1, <2>3, GetType
<1>2. QED
    BY <1>1, Initially, Stored, PTL DEF Spec, KeepsAnswers
=============================================================================
