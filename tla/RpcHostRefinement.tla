-------------------------- MODULE RpcHostRefinement --------------------------
(***************************************************************************)
(* RpcHostEngine implements RpcCall: every lock section of the engine maps *)
(* to moves of the calls it touches, or to a stutter.                      *)
(***************************************************************************)
EXTENDS RpcHostEngine

LifeOf(r) == IF ~Present(r) THEN "none" ELSE IF r.stage = "Complete" THEN "ended"
             ELSE IF r.began THEN "began" ELSE "held"

CallOf(r) ==
  [life |-> LifeOf(r), outcome |-> IF r.stage = "Complete" THEN r.terminal ELSE "none",
   kept |-> r.stage = "Complete" /\ r.result \in Bodies,
   since |-> IF r.stage = "Complete" THEN r.completedAt ELSE 0]

Contract == INSTANCE RpcCall WITH
  call <- [k \in Keys |-> CallOf(ledger.rec[k])], now <- clock, open <- ~closed,
  NotBegun <- {"CancelledBeforeStart", "DeadlineBeforeStart", "InvalidPayload", "AccessRevoked"},
  WithBody <- Bodies, Begun <- {"HandlerFailed", "Deadline", "Cancelled"}

\* The engine implements the contract: a request id is held before its handler
\* begins, begins at most once per admission, ends with a truthful code, and is
\* forgotten only after its retention time or when the host has closed.
ImplementsContract == Contract!Spec
=============================================================================
