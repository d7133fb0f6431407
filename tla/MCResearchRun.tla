--------------------------- MODULE MCResearchRun ---------------------------
(***************************************************************************)
(* Instances of ResearchRun: two symbols, of which one has no trade before *)
(* the candles are corrected, and one unit of each tolerant phase.         *)
(***************************************************************************)
EXTENDS ResearchRun

TwoSymbols == <<"BTCUSDT", "ETHUSDT">>
BothModes == <<"retest", "immediate">>
OneMode == <<"retest">>
NoneAtFirst(d) == IF d = 1 THEN {"BTCUSDT"} ELSE {}
=============================================================================
