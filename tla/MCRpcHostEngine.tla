-------------------------- MODULE MCRpcHostEngine --------------------------
(* Small instances of RpcHostEngine for TLC: every connection and every     *)
(* application session is of one device.                                    *)
EXTENDS RpcHostRefinement

CONSTANT p1

OnePeer == [l \in Links |-> p1]
AllSessions == [s \in Sessions |-> p1]
=============================================================================
