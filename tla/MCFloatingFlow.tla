--------------------------- MODULE MCFloatingFlow ---------------------------
(* Small instances of FloatingFlow. *)
EXTENDS FloatingFlow

MCHorizon == 9
Known == 1..MCHorizon

(* All doubles; growth starts on day 4. *)
MCCurves == {[d \in Known |-> 2], [d \in Known |-> IF d < 4 THEN 1 ELSE 2]}
MCForeign == [d \in Known |-> IF d = 3 THEN 2 ELSE 1]

Base == [type |-> "floating", kind |-> "ir", pay |-> "pay", payDate |-> 5,
         rate |-> 0, notional |-> 10, amount |-> 0,
         fixing |-> 2, start |-> 3, end |-> 5, accStart |-> 3, accEnd |-> 5,
         mult |-> 1]

MCTemplates ==
  { Base,
    [Base EXCEPT !.fixing = 3, !.start = 2, !.end = 4, !.accStart = 2, !.accEnd = 4,
                 !.mult = -1, !.payDate = 4],
    [Base EXCEPT !.fixing = 3, !.start = 2, !.end = 3, !.accStart = 2, !.accEnd = 5],
    [Base EXCEPT !.kind = "fx", !.fixing = 3],
    [Base EXCEPT !.kind = "fixed", !.type = "rate_set"],
    [Base EXCEPT !.type = "fixed", !.rate = 7, !.payDate = 4],
    [Base EXCEPT !.type = "static", !.amount = 3],
    [Base EXCEPT !.type = "average", !.pay = "receive"] }
=============================================================================
