----------------------------- MODULE MCSurfaces -----------------------------
(* A table of dates, or a surface, at a time.                               *)
EXTENDS MCDateTables, VolSurface

VARIABLE using   \* what this behaviour has

Rate(asset, k, is_strike, d, v) == [asset |-> asset, key |-> k, strike |-> is_strike, at |-> d, val |-> v]

\* A delta, a strike, an asset that is no volatility, and one that is not there; rates
\* in an order of their own.
MCQuotes ==
    {<<>>,
     <<Rate("vol", 3, FALSE, 2, "u"), Rate("vol", 1, FALSE, 3, "v"), Rate("vol", 2, TRUE, 2, "v")>>,
     <<Rate("vol", 2, TRUE, 3, "u"), Rate("missing", 1, FALSE, 2, "u"), Rate("other", 3, FALSE, 2, "v"),
       Rate("vol", 2, FALSE, 2, "u")>>}

MCGiven == {<<>>, <<[at |-> 2, val |-> {"u"}]>>}

MCInit ==
    /\ using \in {"table", "surface"}
    /\ Init /\ SurfaceInit
    /\ using = "surface" => kind = "vol"
    /\ using = "table" => ~rates

MCNext ==
    \/ using = "table" /\ Next /\ UNCHANGED <<using, surfaceVars>>
    \/ using = "surface" /\ SurfaceNext /\ UNCHANGED <<using, vars>>

MCSpec == MCInit /\ [][MCNext]_<<using, vars, surfaceVars>> /\ WF_vars(using = "table" /\ Search /\ UNCHANGED <<using, surfaceVars>>)
=============================================================================
