---------------------------- MODULE MCMonitoring ----------------------------
(* Two markets: one has a frame and the frame that closes its bar, the     *)
(* other, visited in between, the frame the first reconcile() fetches.     *)
EXTENDS Monitoring
StreamsVal == {"ETH15m", "BTC15m"}
VersionsVal == [s \in StreamsVal |-> IF s = "ETH15m" THEN 2 ELSE 1]
=============================================================================
