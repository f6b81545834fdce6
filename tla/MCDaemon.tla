------------------------------ MODULE MCDaemon ------------------------------
(* Daemon for TLC.  Every configuration has a rule for every path, and the  *)
(* reloaded one ignores path b as well.  Path t has the extension of an     *)
(* unfinished download.                                                     *)
EXTENDS Daemon

CONSTANTS a, b, t

MCMatches == [l \in 0..MaxReloads |-> Paths]
MCIgnores == [l \in 0..MaxReloads |-> IF l = 0 THEN {} ELSE Paths \cap {b}]
=============================================================================
