------------------------------- MODULE MCDates -------------------------------
(* Calls around months, leap days, holidays and the ends of schedules.        *)
EXTENDS DateRoll

Week == {0, 6}
Plain == [weekend |-> Week, holidays |-> {}]
\* A calendar with holidays around the ends of months and a whole month without a good day.
Held == [weekend |-> Week,
         holidays |-> {FromDmy(1, 1, 2004), FromDmy(27, 2, 2004), FromDmy(1, 3, 2004), FromDmy(30, 4, 2004)}
                      \cup FromDmy(1, 11, 2004)..FromDmy(30, 11, 2004)]
Friday == [weekend |-> {5, 6}, holidays |-> {FromDmy(29, 2, 2004)}]
Cals == {<<>>, <<Plain>>, <<Held>>, <<Held, Friday>>}

T(d, w, m, y) == [days |-> d, weeks |-> w, months |-> m, years |-> y]
R(k, n) == [kind |-> k, n |-> n]
C(op, d, conv, cals) == [op |-> op, date |-> d, end |-> d, term |-> <<>>, n |-> 0, roll |-> R("NONE", 0),
                         conv |-> conv, cals |-> cals, stub |-> "NONE", max |-> 0, type |-> "BUSINESS"]

AdjustCalls == {C("adjust", d, conv, cals) : d \in FromDmy(26, 2, 2004)..FromDmy(3, 3, 2004) \cup FromDmy(29, 10, 2004)..FromDmy(2, 11, 2004),
                                             conv \in RollConventions, cals \in Cals}
OffsetCalls == {[C("offset", FromDmy(26, 10, 2004), conv, cals) EXCEPT !.n = n] :
                   n \in {-3, 0, 2, 5}, conv \in {"FOLLOWING", "NO_ADJUSTMENT"}, cals \in Cals}
OffsetTerms == {[C("offset_term", FromDmy(27, 2, 2004), "MOD_FOLLOWING", cals) EXCEPT !.term = <<t>>, !.type = ty] :
                   t \in {NoTerm, T(2, 0, 0, 0), T(-1, 1, 0, 0), T(1, 0, 2, 1)}, cals \in Cals, ty \in {"WEEK", "BUSINESS"}}
Rolls == {R("NONE", 0), R("day", 1), R("day", 15), R("day", 28), R("EOM", 0), R("IMM", 0), R("CADIMM", 0),
          R("SFE", 0), R("TBILL", 0), R("FRN", 0)} \cup {R("weekday", n) : n \in 0..6}
RollCalls == {[C("roll", d, conv, <<Plain>>) EXCEPT !.term = <<t>>, !.roll = r] :
                 d \in {FromDmy(31, 1, 2004), FromDmy(12, 2, 2004)}, conv \in {"MOD_FOLLOWING", "PRECEDING"},
                 t \in {T(0, 0, 1, 0), T(0, 1, 0, 0), T(0, 0, 0, 1), T(3, 0, -2, 0)}, r \in Rolls}
Generate(d, e, conv, cals, st, t, r, max) ==
    [C("generate", d, conv, cals) EXCEPT !.end = e, !.stub = st, !.term = t, !.roll = r, !.max = max]
Ends == {<<FromDmy(31, 10, 2003), FromDmy(28, 2, 2005)>>, <<FromDmy(14, 2, 2004), FromDmy(15, 3, 2004)>>,
         <<FromDmy(29, 2, 2004), FromDmy(29, 8, 2004)>>, <<FromDmy(30, 11, 1999), FromDmy(31, 3, 2001)>>}
Schedules == {Generate(e[1], e[2], conv, cals, st, <<t>>, R("NONE", 0), max) :
                 e \in Ends, conv \in {"MOD_FOLLOWING", "FOLLOWING", "NO_ADJUSTMENT"}, cals \in {<<>>, <<Plain>>, <<Held>>},
                 st \in {"NONE", "END", "START"}, t \in {T(0, 0, 1, 0), T(0, 0, 6, 0), T(1, 0, 0, 0), T(0, 2, 0, 0)}, max \in {3, 30}}
\* Over the end of a February without a 29th that a fourth year has, and that of the cache.
Centuries == {Generate(e[1], e[2], "MOD_FOLLOWING", <<Plain>>, st, <<t>>, R("NONE", 0), 30) :
                 e \in {<<FromDmy(30, 1, 1900), FromDmy(31, 3, 1900)>>, <<FromDmy(30, 11, 2099), FromDmy(15, 1, 2100)>>},
                 st \in {"NONE", "END", "START"}, t \in {T(0, 0, 1, 0), T(1, 0, 0, 0)}}
RolledSchedules == {Generate(e[1], e[2], "MOD_FOLLOWING", <<Plain>>, st, <<T(0, 0, 1, 0)>>, r, 30) :
                       e \in Ends, st \in {"NONE", "END"}, r \in Rolls}
\* Swaps: the end is the start moved by a tenor of n terms.
Swaps == {[Generate(d, AddTerm(d, T(0, 0, m * n, 0), TRUE), "MOD_FOLLOWING", <<Plain>>, st, <<T(0, 0, m, 0)>>, R("NONE", 0), 30)
             EXCEPT !.n = n] : d \in FromDmy(26, 8, 2003)..FromDmy(2, 9, 2003), m \in {1, 3, 6}, n \in {1, 2, 4}, st \in {"NONE", "END"}}
Odd == {Generate(FromDmy(14, 2, 2004), FromDmy(20, 2, 2004), "FOLLOWING", <<>>, st, t, R("NONE", 0), 6) :
           st \in {"NONE", "END", "START"}, t \in {<<>>, <<NoTerm>>}}

MCCalls == AdjustCalls \cup OffsetCalls \cup OffsetTerms \cup RollCalls \cup Schedules \cup Centuries \cup RolledSchedules \cup Swaps \cup Odd
=============================================================================
