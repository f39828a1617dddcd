------------------------------ MODULE VolSurface ------------------------------
(***************************************************************************)
(* rq_vol_surface and rq_ir_vol_surface: a volatility curve for each delta *)
(* or strike, or for each tenor in years, in an array that is kept in      *)
(* order.  The curves are rq_vol_curves, tables of DateTables, which the   *)
(* surface owns once they were added.                                      *)
(***************************************************************************)
EXTENDS DateTables

CONSTANTS
    Key,          \* deltas, strikes or tenors
    Half,         \* the delta 0.5, at which assets of any other type are put
    Maturity,     \* the dates that occur on surfaces
    Quotes,       \* the sequences of rates that surfaces are bootstrapped from
    Given,        \* the curves a client adds, empty or not
    MaxRows,      \* s_default_max_curves, beyond which nothing may be added
    MaxChanges    \* bound: how often a surface is changed

Quote == [asset : {"vol", "other", "missing"}, key : Key, strike : BOOLEAN, at : Date, val : Value]

ASSUME SurfaceAssumption ==
    Key \subseteq Int /\ None \notin Key /\ Half \in Key /\ Maturity \subseteq Date /\ MaxRows \in Nat
ASSUME QuotesAssumption == Quotes \subseteq Seq(Quote)

\* A client makes its curves with rq_vol_curve_add, which keeps them in order.
ASSUME GivenAssumption ==
    \A t \in Given : t \in Seq(Entry) /\ \A i, j \in DOMAIN t : i < j => t[i].at <= t[j].at

VARIABLES
    rates,    \* it is an rq_ir_vol_surface
    strike,   \* is_strike_vol
    rows,     \* the keys, each with its curve
    curves,   \* all curves that were made: their entries
    dead,     \* those that were freed
    changes,  \* history: the volatilities that were set, and the rows added, in order
    again     \* history: a curve was added that the surface has

surfaceVars == <<rates, strike, rows, curves, dead, changes, again>>

Row(k, c) == [key |-> k, curve |-> c]
Curve(i) == curves[rows[i].curve]
-----------------------------------------------------------------------------
\* An iteration of rq_vol_curve_add's loop, of which there is at least one.  It ends
\* at the position of the date, or of the entry that is moved up for it.
Halving(t, d, b) ==
    LET ip == b.lo + (b.hi - b.lo) \div 2
        lo1 == IF t[ip].at < d THEN ip ELSE b.lo
        hi1 == IF t[ip].at > d THEN ip ELSE b.hi
    IN [lo |-> lo1, hi |-> hi1,
        end |-> IF t[ip].at = d THEN ip ELSE IF hi1 - lo1 > 1 THEN 0 ELSE hi1]

Halved(t, d) ==
    LET walk[n \in 0..Len(t)] ==
            IF n = 0 THEN [lo |-> 1, hi |-> Len(t), end |-> 0]
            ELSE IF walk[n-1].end = 0 THEN Halving(t, d, walk[n-1]) ELSE walk[n-1]
    IN walk[Len(t)].end

\* rq_vol_curve_add, of which VolHalve and VolInsert are the steps.
CurveAdd(t, d, v) ==
    LET e == [at |-> d, val |-> {v}]
        i == Halved(t, d)
    IN CASE t = <<>> -> <<e>>
         [] t # <<>> /\ d > t[Len(t)].at -> Append(t, e)
         [] t # <<>> /\ d < t[1].at -> <<e>> \o t
         [] OTHER -> IF t[i].at = d THEN [t EXCEPT ![i] = e] ELSE InsertAt(t, i, e)

\* The first row that is not below the key, or the place at the end.
RowOf(k) == Min({i \in DOMAIN rows : rows[i].key >= k} \cup {Len(rows) + 1})
HasRow(k) == LET i == RowOf(k) IN i \in DOMAIN rows /\ rows[i].key = k
-----------------------------------------------------------------------------
\* Reading.  An answer is the set of the entries it is computed from, empty if there
\* is no volatility; Garbage is a variable that was not set.
Garbage == [at |-> None, val |-> {}]
Got(i, d) == UpTo(Curve(i), d)
Held(i, d) == IF Got(i, d) = {} THEN {Garbage} ELSE Got(i, d)

\* Between two rows; at a row the other one has no weight, if it is a number.
Between(i, k, d) ==
    IF k = rows[i].key /\ Got(i+1, d) # {} THEN Held(i, d) ELSE Held(i, d) \cup Held(i+1, d)

\* rq_vol_surface_get_volatility, which stops at the key, and that of interest rates,
\* which goes on and interpolates there with the next row.
SurfaceVolatility(k, d) ==
    LET i == RowOf(k)
        last == IF rows = <<>> THEN {} ELSE Got(Len(rows), d)
        got == IF i > Len(rows) THEN {}
               ELSE IF ~HasRow(k) THEN IF i = 1 THEN Got(1, d) ELSE Between(i-1, k, d)
               ELSE IF rates /\ i < Len(rows) THEN Between(i, k, d)
               ELSE Got(i, d)
    IN IF got = {} THEN last ELSE got
-----------------------------------------------------------------------------
SurfaceInit ==
    /\ rates \in BOOLEAN /\ strike = FALSE /\ rows = <<>>
    /\ curves = <<>> /\ dead = {} /\ changes = <<>> /\ again = FALSE

\* The surface [rows, curves] with the volatility set, in a row of its own if there
\* is none for the key.
WithVol(s, k, d, v) ==
    LET i == Min({j \in DOMAIN s.rows : s.rows[j].key >= k} \cup {Len(s.rows) + 1})
    IN IF i <= Len(s.rows) /\ s.rows[i].key = k
       THEN [s EXCEPT !.curves[s.rows[i].curve] = CurveAdd(@, d, v)]
       ELSE [s EXCEPT !.rows = InsertAt(@, i, Row(k, Len(s.curves) + 1)),
                      !.curves = Append(@, CurveAdd(<<>>, d, v))]

\* rq_vol_surface_set_volatility.
SetVolatility(k, d, v) ==
    LET s == WithVol([rows |-> rows, curves |-> curves], k, d, v)
    IN /\ Len(s.rows) <= MaxRows
       /\ rows' = s.rows /\ curves' = s.curves
       /\ changes' = Append(changes, [key |-> k, at |-> d, val |-> v])
       /\ UNCHANGED <<rates, strike, dead, again>>

\* Slip: the rows are moved up from the first on, over each other.
PutRow_Slip(k, c) ==
    LET i == RowOf(k)
    IN IF HasRow(k) THEN [rows EXCEPT ![i].curve = c]
       ELSE [j \in 1..Len(rows)+1 |-> IF j < i THEN rows[j] ELSE IF j = i THEN Row(k, c) ELSE rows[i]]

\* The rows with the curve under the key.
PutRow(k, c) ==
    IF HasRow(k) THEN [rows EXCEPT ![RowOf(k)].curve = c] ELSE InsertAt(rows, RowOf(k), Row(k, c))

\* rq_vol_surface_add: the curve that had the key is freed, the same one too.
AddRow(k, c) ==
    /\ Len(PutRow(k, c)) <= MaxRows
    /\ rows' = PutRow(k, c)
    /\ dead' = IF HasRow(k) THEN dead \cup {rows[RowOf(k)].curve} ELSE dead
    /\ changes' = Append(changes, [key |-> k, at |-> None, val |-> None])
    /\ UNCHANGED <<rates, strike>>

\* A curve the client made, empty or not, or one the surface has.
AddNew(k, t) ==
    /\ curves' = Append(curves, t) /\ again' = again
    /\ AddRow(k, Len(curves) + 1)
AddSame(k, i) ==
    /\ again' = TRUE /\ UNCHANGED curves
    /\ AddRow(k, rows[i].curve)

\* rq_vol_surface_clone, and the original is freed.
CloneSurface ==
    LET n == Len(curves) IN
    /\ rows # <<>>
    /\ rows' = [i \in DOMAIN rows |-> Row(rows[i].key, n + i)]
    /\ curves' = curves \o [i \in DOMAIN rows |-> Curve(i)]
    /\ dead' = dead \cup {rows[i].curve : i \in DOMAIN rows}
    /\ changes' = Append(changes, [key |-> None, at |-> None, val |-> None])
    /\ UNCHANGED <<rates, strike, again>>

\* rq_bootstrap_vol_surface_simple and rq_bootstrap_ir_vol_surface.  A rate whose asset
\* is there sets a volatility under the asset's key; assets that are no volatilities
\* are put at 0.5, and on the surface of interest rates nowhere.  The last
\* volatility says what the keys of all are; the first rate past the last date to
\* bootstrap ends the sequence.
Put(quote) == quote.asset = "vol" \/ (quote.asset = "other" /\ ~rates)

WithQuote(s, quote) ==
    LET vol == quote.asset = "vol"
        k == IF vol THEN quote.key ELSE Half
    IN IF ~Put(quote) THEN s
       ELSE [WithVol(s, k, quote.at, quote.val) EXCEPT
                !.strike = IF vol THEN quote.strike ELSE @,
                !.changes = Append(@, [key |-> k, at |-> quote.at, val |-> quote.val])]

Bootstrapped(quotes) ==
    LET built[i \in 0..Len(quotes)] ==
            IF i = 0 THEN [rows |-> <<>>, curves |-> <<>>, strike |-> FALSE, changes |-> <<>>]
            ELSE WithQuote(built[i-1], quotes[i])
    IN built[Len(quotes)]

Bootstrap(quotes) ==
    LET s == Bootstrapped(quotes)
    IN /\ changes = <<>> /\ Len(s.rows) <= MaxRows
       /\ rows' = s.rows /\ curves' = s.curves
       /\ strike' = (~rates /\ s.strike)
       /\ changes' = s.changes
       /\ UNCHANGED <<rates, dead, again>>

\* rq_vol_surface_free, and a new one.
FreeSurface ==
    /\ changes # <<>>
    /\ strike' = FALSE /\ rows' = <<>> /\ curves' = <<>> /\ dead' = {}
    /\ changes' = <<>> /\ again' = FALSE /\ UNCHANGED rates

\* Curves that were freed are used no more than once.
SurfaceNext ==
    \/ /\ Len(changes) < MaxChanges /\ \A i \in DOMAIN rows : rows[i].curve \notin dead
       /\ \/ \E k \in Key, d \in Maturity, v \in Value : SetVolatility(k, d, v)
          \/ \E k \in Key, t \in Given : AddNew(k, t)
          \/ \E k \in Key, i \in DOMAIN rows : AddSame(k, i)
          \/ CloneSurface
    \/ \E quotes \in Quotes : Bootstrap(quotes)
    \/ FreeSurface

SurfaceSpec == SurfaceInit /\ [][SurfaceNext]_surfaceVars
-----------------------------------------------------------------------------
\* The nearest rows on both sides of a key.
NearestRows(k) ==
    {i \in DOMAIN rows :
        \/ rows[i].key <= k /\ \A j \in DOMAIN rows : rows[j].key <= k => rows[j].key <= rows[i].key
        \/ rows[i].key >= k /\ \A j \in DOMAIN rows : rows[j].key >= k => rows[j].key >= rows[i].key}

\* What was set last under a key for a date since the curve of the key was added.
LastSet(k, d) ==
    LET i == SelectLastInSeq(changes, LAMBDA c : c.key = k /\ c.at \in {d, None})
    IN IF i = 0 \/ changes[i].at = None THEN {} ELSE {changes[i].val}

\* A volatility is read off the nearest rows on both sides, each by its own nearest
\* dates, whatever order rows and dates came in; what was set last under a key for a
\* date is what is read there, unless the date is in the curve twice.  Only a client's
\* empty curve makes an answer of what was never set.
SurfaceReads ==
    LET full == \A i \in DOMAIN rows : Curve(i) # <<>> IN
    ~again =>
        /\ \A i \in 2..Len(rows) : rows[i-1].key < rows[i].key
        /\ \A k \in Key, d \in Maturity :
              /\ full => SurfaceVolatility(k, d) = UNION {Got(i, d) : i \in NearestRows(k)}
              /\ Garbage \in SurfaceVolatility(k, d) => ~full
        /\ \A i \in DOMAIN rows, d \in Maturity :
              LET last == LastSet(rows[i].key, d)
                  once == Cardinality({j \in DOMAIN Curve(i) : Curve(i)[j].at = d}) = 1
              IN last # {} /\ once /\ (full \/ ~rates) =>
                    {last} = {e.val : e \in SurfaceVolatility(rows[i].key, d)}

\* No row has a curve that was freed, nor two the same, unless the client added a curve
\* that the surface had.
RowsOwned ==
    ~again => /\ \A i \in DOMAIN rows : rows[i].curve \notin dead
              /\ \A i, j \in DOMAIN rows : rows[i].curve = rows[j].curve => i = j

\* What a table or a surface answers.
AnswersNearest == ReadsRight /\ SurfaceReads /\ RowsOwned
=============================================================================
