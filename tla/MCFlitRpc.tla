----------------------------- MODULE MCFlitRpc -----------------------------
(* A small instance of FlitRpc: the first response and the first            *)
(* notification are larger than a chunk.                                    *)
EXTENDS FlitRpc
LargeMsgs == {Response(1), Note(1)} \cap Msgs
=============================================================================
