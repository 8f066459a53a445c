---------------------------- MODULE MCFileSync ----------------------------
(* A file whose contents have lengths 0, 2, 1 and 2: versions 1 and 3 cannot *)
(* be told apart by their size.                                             *)
EXTENDS FileSync

ContentSize(v) == IF v = 0 THEN 0 ELSE 1 + (v % 2)
===========================================================================
