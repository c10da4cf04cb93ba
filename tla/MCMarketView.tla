---------------------------- MODULE MCMarketView ----------------------------
EXTENDS MarketView

\* Three prices, and amounts that make the average price differ from the mean.
MCDeals == {<<1, 2>>, <<2, 1>>, <<3, 1>>}
=============================================================================
