---------------------------- MODULE MCCurveStrip ----------------------------
(***************************************************************************)
(* The configurations that CurveStrip is checked with (in MCYieldCurve).   *)
(* Up to three rates in every order, or five in the order of their ends,   *)
(* out of instruments that meet, overlap and leave gaps, for each builder  *)
(* and method.  Days are quarters: a deposit of one, discounts that start  *)
(* later, futures, half-yearly and quarterly swaps that start at once or   *)
(* later, and a bond.  Three par rates or futures in a row have one among  *)
(* them that has a rate and no asset.                                      *)
(***************************************************************************)
EXTENDS Naturals, Sequences

MCInstrument(k, s, e, v) ==
  [kind |-> k, start |-> s, end |-> e, every |-> v, quoted |-> TRUE, found |-> TRUE]
Lost(x) == [x EXCEPT !.quoted = FALSE, !.found = FALSE]
NoAsset(x) == [x EXCEPT !.found = FALSE]

Bag ==
  { MCInstrument("deposit", 0, 1, 1), MCInstrument("discount", 1, 2, 1),
    MCInstrument("par", 0, 3, 1),
    MCInstrument("future", 2, 3, 1), MCInstrument("future", 3, 4, 1),
    MCInstrument("swap", 0, 4, 2), MCInstrument("swap", 0, 8, 2),
    MCInstrument("swap", 1, 6, 1), MCInstrument("bond", 0, 6, 2),
    Lost(MCInstrument("discount", 0, 5, 1)) }

\* Par rates and futures around one that has no asset.
Pars == {MCInstrument("par", 0, 3, 1), NoAsset(MCInstrument("par", 0, 4, 1)), MCInstrument("par", 0, 5, 1)}
Futures == {MCInstrument("future", k, k + 1, 1) : k \in {2, 4}} \cup {NoAsset(MCInstrument("future", 3, 4, 1))}
Gapped == [1..3 -> Pars] \cup [1..3 -> Futures]

Methods ==
  { [builder |-> "simple", future |-> f, par |-> "linear", even |-> TRUE] : f \in {"strip", "tenor"} } \cup
  { [builder |-> "spread", future |-> f, par |-> "linear", even |-> TRUE] : f \in {"strip", "tenor"} } \cup
  { [builder |-> "day_count", future |-> "tenor", par |-> p, even |-> e] :
      p \in {"linear", "spline", "swaps_only"}, e \in BOOLEAN } \cup
  { [builder |-> "cubic", future |-> "strip", par |-> "linear", even |-> TRUE] }

Ascending(s) == \A i, j \in DOMAIN s : i < j => s[i].end < s[j].end
Lists ==
  UNION {[1..n -> Bag] : n \in 0..2} \cup {s \in [1..3 -> Bag] : \A i, j \in 1..3 : i # j => s[i] # s[j]}
  \cup {s \in [1..4 -> Bag] : Ascending(s)} \cup {s \in [1..5 -> Bag] : Ascending(s)}

Spreads(d1, s1, d2, s2, f) ==
  << [day |-> d1, spread |-> s1, found |-> TRUE], [day |-> d2, spread |-> s2, found |-> f] >>

Layers ==
  { << Spreads(2, 1, 4, 2, TRUE) >>, << Spreads(2, 1, 4, 2, TRUE), Spreads(2, 4, 4, 8, TRUE) >>,
    << Spreads(2, 1, 4, 2, TRUE), Spreads(2, 4, 4, 8, TRUE), Spreads(2, 16, 4, 32, TRUE) >>,
    << Spreads(2, 1, 4, 2, FALSE), Spreads(2, 4, 4, 8, TRUE) >> }

Config(m, r, l, j) ==
  [builder |-> m.builder, future |-> m.future, par |-> m.par, even |-> m.even,
   junk |-> j, rates |-> r, layers |-> l]

MCConfigs ==
  {Config(m, r, << >>, 0) : m \in {x \in Methods : x.builder # "spread"}, r \in Lists \cup Gapped} \cup
  {Config(m, r, << >>, 9) : m \in {x \in Methods : x.par = "swaps_only"}, r \in UNION {[1..n -> Bag] : n \in 1..2}} \cup
  {Config(m, r, l, 0) : m \in {x \in Methods : x.builder = "spread"},
                        r \in Gapped \cup UNION {[1..n -> Bag] : n \in 0..2}, l \in Layers}
=============================================================================
