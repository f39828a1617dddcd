--------------------------- MODULE MCExchangeRates ---------------------------
(***************************************************************************)
(* Four currencies and two dates for TLC.                                  *)
(***************************************************************************)
EXTENDS ExchangeRates

Currencies == {"EUR", "GBP", "JPY", "USD"}
\* Both conventions.  Through US dollars and euros a rate of pounds in yen can be
\* crossed twice; euros and yen are no asset.
Pairs == {<<"EUR", "USD">>, <<"GBP", "USD">>, <<"USD", "JPY">>, <<"EUR", "GBP">>, <<"GBP", "JPY">>}
QuotedPer1 == {<<"EUR", "USD">>, <<"USD", "JPY">>, <<"GBP", "JPY">>}
ThinPairs == {<<"EUR", "USD">>}
Worths == <<[EUR |-> 3, GBP |-> 7, JPY |-> 0, USD |-> 1],
            [EUR |-> 5, GBP |-> 17, JPY |-> 0, USD |-> 2]>>
CrossLists == {<<>>, <<"EUR">>}
=============================================================================
