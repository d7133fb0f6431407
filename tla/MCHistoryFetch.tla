--------------------------- MODULE MCHistoryFetch ---------------------------
(* Instances of HistoryFetch: candles of three time units, pages of two rows,  *)
(* transactions of two candles, a range of four candles.                       *)
EXTENDS HistoryFetch
PairsVal == <<"ETH15m", "ETH1h">>
OpensVal == {0, 3, 6, 9, 12}
=============================================================================
