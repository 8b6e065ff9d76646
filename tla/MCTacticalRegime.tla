-------------------------- MODULE MCTacticalRegime --------------------------
(* Names for the clients, the markets and the setting that TLC checks.      *)
EXTENDS TacticalRegime

CONSTANTS c1, c2

Market(level, stale, spy, qqq, stage) ==
    [level |-> level, stale |-> stale, spy |-> spy, qqq |-> qqq,
     tilt |-> level = "YELLOW", stage |-> stage]

MCMarkets ==
    {Market("GREEN", FALSE, "UP", "UP", "SMA60"),
     Market("YELLOW", FALSE, "UP", "UP", "SMA120"),
     Market("GREEN", TRUE, "DOWN", "DOWN", "NONE"),
     Market("GREEN", FALSE, "UNKNOWN", "UP", "NONE")}

MCSettings == {[notify |-> TRUE, macro |-> TRUE, dips |-> TRUE]}
=============================================================================
