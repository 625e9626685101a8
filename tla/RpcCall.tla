------------------------------- MODULE RpcCall -------------------------------
(***************************************************************************)
(* What a host promises about a request id, without links, queues, slots,  *)
(* jobs and locks: the abstract specification that RpcHostEngine implements *)
(* (RpcHostRefinement) and that RpcSystem composes with a client.          *)
(*                                                                         *)
(* A call is held before its handler can begin, begins at most once, and   *)
(* ends with a code that tells whether it began.  What is left of it stays *)
(* for RecordTtl, with or without its result body; only then, or when the  *)
(* host is closed, is the id forgotten and may be held again.              *)
(***************************************************************************)
EXTENDS Integers

CONSTANTS
  Keys,             \* (device, request id)
  NotBegun,         \* outcomes of calls whose handler never began
  WithBody,         \* outcomes that carry a result body
  Begun,            \* the other outcomes of calls whose handler began
  RecordTtl

VARIABLES call, now, open

Outcome == NotBegun \cup WithBody \cup Begun
CallAs(life, outcome, kept, since) == [life |-> life, outcome |-> outcome, kept |-> kept, since |-> since]
NoCall == CallAs("none", "none", FALSE, 0)
Call == [life: {"none", "held", "began", "ended"}, outcome: Outcome \cup {"none"},
         kept: BOOLEAN, since: Nat]

\* The moves of one call.
Held(c) == IF c.life = "none" THEN {CallAs("held", "none", FALSE, 0)} ELSE {}
Began(c) == IF c.life = "held" THEN {CallAs("began", "none", FALSE, 0)} ELSE {}
Ended(c, t) ==
  {CallAs("ended", o, o \in WithBody, t) :
     o \in CASE c.life = "held" -> NotBegun [] c.life = "began" -> WithBody \cup Begun [] OTHER -> {}}
BodyDropped(c) == IF c.kept THEN {CallAs(c.life, c.outcome, FALSE, c.since)} ELSE {}
Forgotten(c, t, isOpen) ==
  IF c.life = "ended" /\ (~isOpen \/ t >= c.since + RecordTtl) THEN {NoCall} ELSE {}

Moves(c, t, isOpen) ==
  Held(c) \cup Began(c) \cup Ended(c, t) \cup BodyDropped(c) \cup Forgotten(c, t, isOpen)

\* One lock section of the host may make two moves of the same call: forget
\* and hold, end and drop the body, end and forget.
Steps(c, t, isOpen) ==
  {c} \cup Moves(c, t, isOpen) \cup UNION {Moves(d, t, isOpen) : d \in Moves(c, t, isOpen)}

Init == call = [k \in Keys |-> NoCall] /\ now = 0 /\ open = TRUE

Next ==
  /\ now' \in {now, now + 1} /\ open' \in {open, FALSE}
  /\ call' \in [Keys -> Call]
  /\ \A k \in Keys : call'[k] \in Steps(call[k], now, open')

Spec == Init /\ [][Next]_<<call, now, open>>
=============================================================================
