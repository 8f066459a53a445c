---------------------------- MODULE MCFsWatcher ----------------------------
(* A directory chain r/d with the file d/f, for TLC. *)
EXTENDS FsWatcher

CONSTANTS r, d, f

MCPaths  == {r, d, f}
MCDirs   == {r, d}
MCParent == [p \in MCPaths |-> IF p = f THEN d ELSE r]
=============================================================================
