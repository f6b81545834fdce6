----------------------------- MODULE MCWatcher -----------------------------
(* Watcher for TLC: two files that are watched and one with the extension   *)
(* of an unfinished download, empty or one byte long.  Two checks tell a    *)
(* counter that is reset from one that is not.                              *)
EXTENDS Watcher

CONSTANTS f1, f2, part, w1, w2

MCSizes == {0, 1}
=============================================================================
