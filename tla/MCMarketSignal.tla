--------------------------- MODULE MCMarketSignal ---------------------------
(* The hourly job, a gate of plan generation beside it, and a subscriber.   *)
EXTENDS MarketSignal

CONSTANTS job, g1, u1, green, red
=============================================================================
