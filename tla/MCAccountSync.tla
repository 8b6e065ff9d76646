--------------------------- MODULE MCAccountSync ---------------------------
(* Two runs on one account: the daily job or sync-all, and a click.         *)
EXTENDS AccountSync

CONSTANTS s1, s2
=============================================================================
