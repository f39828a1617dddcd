--------------------------- MODULE DiscountTable ---------------------------
(***************************************************************************)
(* The table of discount factors inside a yield curve                      *)
(* (rq_yield_curve.c): an array kept in the order of dates, the bisection  *)
(* that looks a date up in it, and which of its entries an answer is made  *)
(* of.  A day is its distance from the date the curve starts at, an entry  *)
(* a day with a value the users of this module choose.                     *)
(***************************************************************************)
EXTENDS Integers, SequencesExt

Entry(d, v) == [day |-> d, value |-> v]

(***************************************************************************)
(* rq_yield_curve_lower_bound: the first entry that is not before day d,   *)
(* or the place after the last one.  begin and end are the pointers of the *)
(* loop; a place outside the array, where the loop would read memory that  *)
(* is not the table's, is told by Outside.                                 *)
(***************************************************************************)
Outside == -1

Search(tab, d) ==
  LET n == Len(tab)
      Step[part \in (1..n + 1) \X (0..n + 1)] ==
        LET begin == part[1]
            end == part[2]
            mid == begin + (end - begin) \div 2
        IN  IF mid \notin 1..n \/ end < begin THEN Outside
            ELSE IF d > tab[mid].day THEN Step[<<mid + 1, end>>]
            ELSE IF d = tab[mid].day THEN mid
            ELSE IF mid = 1 THEN Outside
            ELSE IF d > tab[mid - 1].day THEN mid
            ELSE IF end = mid THEN Outside
            ELSE Step[<<begin, mid>>]
  IN  Step[<<1, n + 1>>]

LowerBound(tab, d) ==
  IF tab = << >> \/ d <= tab[1].day THEN 1
  ELSE IF d <= tab[Len(tab)].day THEN Search(tab, d)
  ELSE Len(tab) + 1

(***************************************************************************)
(* Which entries the discount factor of day d is computed from, by the     *)
(* branches of rq_yield_curve_get_discount_factor: the entry of the day    *)
(* itself, the first one (from = to) when the day is before it, the two    *)
(* around it, the last two when it is after them, or none.                 *)
(***************************************************************************)
SpotAt(tab, d, e) ==
  LET n == Len(tab)
      From(how, i, j) == [how |-> how, lo |-> tab[i], hi |-> tab[j]]
  IN  IF n = 0 THEN [how |-> "none"]
      ELSE IF e = Outside THEN [how |-> "outside"]
      ELSE IF e = n + 1 THEN IF n = 1 THEN From("last", 1, 1) ELSE From("after", n - 1, n)
      ELSE IF tab[e].day = d THEN From("exact", e, e)
      ELSE IF e = 1 THEN From("before", 1, 1)
      ELSE From("between", e - 1, e)

Spot(tab, d) == SpotAt(tab, d, LowerBound(tab, d))

(* Slip: a day that is there gets a second entry. *)
Put_Twice(tab, d, v) ==
  IF tab = << >> \/ tab[Len(tab)].day < d THEN Append(tab, Entry(d, v))
  ELSE InsertAt(tab, CHOOSE k \in DOMAIN tab :
                  tab[k].day >= d /\ \A l \in 1..k - 1 : tab[l].day < d, Entry(d, v))

(***************************************************************************)
(* rq_yield_curve_set_discount_factor: a later day is appended; otherwise  *)
(* the first entry that is not before it is replaced, or moved up.         *)
(***************************************************************************)
Put(tab, d, v) ==
  IF tab = << >> \/ tab[Len(tab)].day < d THEN Append(tab, Entry(d, v))
  ELSE LET i == CHOOSE k \in DOMAIN tab :
                  tab[k].day >= d /\ \A l \in 1..k - 1 : tab[l].day < d
       IN  IF tab[i].day > d THEN InsertAt(tab, i, Entry(d, v))
           ELSE ReplaceAt(tab, i, Entry(d, v))

(* The size of the array after a Put: doubled when it is full, also when   *)
(* the entry only replaces another one.                                    *)
Room(tab, max) == IF Len(tab) = max THEN 2 * max ELSE max

(* rq_yield_curve_remove_element_range. *)
RemoveRange(tab, i, j) == SubSeq(tab, 1, i - 1) \o SubSeq(tab, j + 1, Len(tab))

(* rq_yield_curve_get_first_date and rq_yield_curve_get_last_date, where 0 *)
(* is told for an empty table: before every day a caller compares it with. *)
FirstDate(tab) == IF tab = << >> THEN 0 ELSE tab[1].day
LastDate(tab) == IF tab = << >> THEN 0 ELSE tab[Len(tab)].day

=============================================================================
