---------------------------- MODULE MCMarketFeed ----------------------------
(***************************************************************************)
(* Small instances of MarketFeed: one symbol whose stream forms a handful  *)
(* of candles, and a budget of failures.                                   *)
(***************************************************************************)
EXTENDS MarketFeed

OneSymbol == <<"ETHUSDT">>
OneTimeframe == <<"15m">>
=============================================================================
