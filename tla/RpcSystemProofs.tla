--------------------------- MODULE RpcSystemProofs ---------------------------
(***************************************************************************)
(* What a client, its host and the connections between them guarantee      *)
(* together, for any number of calls, attempts, connections and restarts   *)
(* of the host: a call that is not idempotent executes at most once, what  *)
(* a caller is told about execution is true, and a result is acknowledged  *)
(* only after it has been accepted.                                        *)
(***************************************************************************)
EXTENDS RpcSystem, FiniteSetTheorems, WellFoundedInduction, TLAPS
-----------------------------------------------------------------------------
(* The inductive invariant.                                                *)

Before == {"idle", "select", "encode", "gate", "offer"}
After == {"accepting", "accepted", "receipt", "returning"}
Clean == {"NotSent", "RejectedBeforeExecution"}
OnItsWay == {"queued", "started", "announced"}

\* What the fields of one call have to do with each other.
CallOK(r) ==
  /\ r.pc \in Before =>
       /\ r.ticket \notin OnItsWay /\ r.evidence # "HandlerFinished"
       /\ ~r.again => (r.invoke <=> r.evidence \in Clean)
  /\ r.pc \in {"sending", "waiting"} =>
       /\ r.again => r.ambiguous
       /\ ~r.again => (r.invoking <=> ~r.ambiguous)
       /\ r.ambiguous => r.evidence = "MayHaveExecuted"
       /\ r.ticket \in {"announced", "sent", "failed"} => r.evidence = "MayHaveExecuted"
       /\ r.evidence # "HandlerFinished"
  /\ r.pc = "sending" => r.ticket # "none"
  /\ r.pc = "waiting" => r.ticket = "sent"
  /\ r.pc \in After => r.evidence = "HandlerFinished" /\ r.ticket \notin OnItsWay
  /\ r.pc \in {"final", "ended"} <=> r.published # "none"
  /\ r.published \in Clean => r.ticket \notin OnItsWay \/ ~r.invoking
  /\ r.ticket = "queued" => r.pc = "sending"
  /\ r.again => r.evidence \notin Clean /\ r.published \notin Clean
  /\ r.accepted => r.pc \in {"accepted", "receipt", "returning", "final", "ended"}
  /\ r.pc \in {"accepted", "receipt"} => r.accepted
  /\ r.pc \in {"encode", "gate", "offer", "sending", "waiting"} \cup After => r.owner # 0
  /\ r.pc \in {"idle", "select"} => r.owner = 0
  /\ r.owner = 0 => r.evidence = "NotSent" /\ r.ticket = "none"

\* The first Invoke of a call can still go out.
Unsettled(r) ==
  \/ r.pc \in Before \cup {"sending"} /\ r.evidence \in Clean
  \/ r.ticket \in OnItsWay /\ r.invoking

\* Where the Invokes and the refusals of a call are on their way: on the
\* connections, and on the attachments (k > 0) or already with the call (k = 0).
InvokeAt(c, g, i) ==
  i \in 1 .. Len(toHost[g]) /\ toHost[g][i].kind = "Invoke" /\ toHost[g][i].c = c

AnswerAt(c, k, i, codes) ==
  IF k = 0 THEN i \in 1 .. Len(call[c].replies) /\ call[c].replies[i].code \in codes
  ELSE i \in 1 .. Len(toClient[k]) /\ toClient[k][i].code \in codes /\ toClient[k][i].c = c

Places == 0 .. MaxAttachments
OnWire(c) == \E g \in Connections, i \in Nat : InvokeAt(c, g, i)
Refused(c) == \E k \in Places, i \in Nat : AnswerAt(c, k, i, RejectedBeforeExecution)
Overloaded(c) == \E k \in Places, i \in Nat : AnswerAt(c, k, i, {"Overloaded"})

NotBegun == {"CancelledBeforeStart", "AccessRevoked"}
NoRecord(c) == execs[c] = 0 /\ record[c].life = "none"
NeverBegan(c) ==
  /\ execs[c] = 0
  /\ record[c].life = "none" \/ (record[c].life = "ended" /\ record[c].outcome \in NotBegun)

\* As long as a call has not been told that it is forgotten, it is one Invoke:
\* unsettled, on one connection, refused, or in the books of the host.
Tokens(c) ==
  /\ \A g, h \in Connections, i, j \in Nat : InvokeAt(c, g, i) /\ InvokeAt(c, h, j) => g = h /\ i = j
  /\ OnWire(c) => NoRecord(c) /\ ~Refused(c) /\ ~Unsettled(call[c]) /\ call[c].published \notin Clean
  /\ Unsettled(call[c]) => NoRecord(c) /\ ~Refused(c)
  /\ Refused(c) => NeverBegan(c)
  /\ Overloaded(c) => NoRecord(c)
  /\ \A k, l \in Places, i, j \in Nat :
       AnswerAt(c, k, i, RejectedBeforeExecution) /\ AnswerAt(c, l, j, {"Overloaded"}) => k = l /\ i = j
  /\ call[c].published \in Clean => NeverBegan(c)
  /\ execs[c] <= 1
  /\ record[c].life = "held" => execs[c] = 0
  /\ record[c].life = "ended" /\ record[c].outcome \in NotBegun => execs[c] = 0

\* What is said to be a result of c is one.
Known(c) ==
  /\ record[c].outcome = "Result" => c \in finished
  /\ record[c].life = "ended" => record[c].outcome # "none"
  /\ call[c].evidence = "HandlerFinished" => c \in finished
  /\ \A k \in Places, i \in Nat : AnswerAt(c, k, i, {"Result"}) => c \in finished

\* A receipt for c may be on connection g.
Due(c, g) == c \in finished /\ (c \in Accepting => call[c].accepted /\ call[c].gen = g)

Receipts ==
  /\ \A x \in controls : call[x.c].owner # 0 /\ (x.kind = "Receipt" => Due(x.c, x.gen))
  /\ \A g \in Connections : \A i \in 1 .. Len(toHost[g]) :
       toHost[g][i].kind = "Receipt" => Due(toHost[g][i].c, g)

\* A connection is served by one incarnation of the host, and while it lives by
\* the present one.  It is the connection of an attachment, or an older one.
ServedOnce(g) ==
  /\ served[g] \in 0 .. inc
  /\ served[g] # 0 \/ toHost[g] # <<>> => \E n \in Attachments : g <= att[n].gen
  /\ \A i \in 1 .. Len(toHost[g]) : toHost[g][i].kind = "Hello" => toHost[g][i].gen = g
  /\ served[g] \notin {0, inc} =>
       toHost[g] = <<>> /\ \A n \in Attachments : att[n].gen = g => att[n].state # "Connected"

\* A READY names the incarnation that serves its connection.
ReadyTruthful(n) ==
  /\ att[n].ready.gen # 0 => att[n].ready.inc # 0 /\ att[n].ready.inc = served[att[n].ready.gen]
  /\ \A i \in 1 .. Len(toClient[n]) : toClient[n][i].code = "Ready" =>
       toClient[n][i].inc # 0 /\ toClient[n][i].inc = served[toClient[n][i].gen]

Distinct == \A m, n \in Attachments : att[m].gen = att[n].gen /\ att[m].gen # 0 => m = n

Served ==
  /\ \A g \in Connections : ServedOnce(g)
  /\ \A n \in Attachments : ReadyTruthful(n)
  /\ Distinct

CallInv(c) == CallOK(call[c]) /\ (~call[c].again => Tokens(c)) /\ (call[c].again => c \in Idempotent)

SystemInv ==
  /\ TypeOK
  /\ \A c \in Calls : CallInv(c) /\ Known(c)
  /\ Receipts
  /\ Served

-----------------------------------------------------------------------------
(* Sequences and numbers.                                                  *)

LEMMA Largest ==
  ASSUME NEW N \in Nat, NEW S \in SUBSET (1 .. N), S # {}
  PROVE  \E g \in S : \A x \in S : x <= g
<1> DEFINE T == {N - x : x \in S}
           R == OpToRel(<, Nat)
<1>1. \A x \in S : x \in 1 .. N /\ N - x \in Nat
  OBVIOUS
<1>2. T \subseteq Nat /\ T # {}
  BY <1>1
<1>3. IsWellFoundedOn(R, Nat)
  BY NatLessThanWellFounded, Zenon
<1>4. \A x, y \in Nat : x < y => <<x, y>> \in R
  BY DEF OpToRel
<1> HIDE DEF R, T
<1>5. \E m \in T : \A y \in T : ~ (<<y, m>> \in R)
  BY <1>2, <1>3, WFMin
<1>6. PICK m \in T : \A y \in T : ~ (y < m)
  BY <1>2, <1>4, <1>5
<1>7. PICK g \in S : m = N - g
  BY <1>6 DEF T
<1>8. ASSUME NEW x \in S PROVE x <= g
  <2>1. N - x \in T
    BY DEF T
  <2>2. ~ (N - x < N - g)
    BY <2>1, <1>6, <1>7
  <2> QED BY <2>2
<1> QED BY <1>8

LEMMA TailAt ==
  ASSUME NEW S, NEW s \in Seq(S), s # <<>>
  PROVE  /\ Tail(s) \in Seq(S) /\ Head(s) \in S /\ Head(s) = s[1] /\ 1 \in 1 .. Len(s)
         /\ Len(Tail(s)) = Len(s) - 1
         /\ \A i \in 1 .. Len(Tail(s)) : i + 1 \in 1 .. Len(s) /\ Tail(s)[i] = s[i + 1]
OBVIOUS

LEMMA AppendAt ==
  ASSUME NEW S, NEW s \in Seq(S), NEW m \in S
  PROVE  /\ Append(s, m) \in Seq(S) /\ Len(Append(s, m)) = Len(s) + 1 /\ Append(s, m) # <<>>
         /\ Append(s, m)[Len(s) + 1] = m
         /\ \A i \in 1 .. Len(s) : Append(s, m)[i] = s[i]
OBVIOUS

LEMMA PrefixAt ==
  ASSUME NEW S, NEW s \in Seq(S), NEW n \in 0 .. Len(s)
  PROVE  /\ SubSeq(s, 1, n) \in Seq(S) /\ Len(SubSeq(s, 1, n)) = n
         /\ \A i \in 1 .. n : i \in 1 .. Len(s) /\ SubSeq(s, 1, n)[i] = s[i]
OBVIOUS

LEMMA EmptyAt == ASSUME NEW S PROVE <<>> \in Seq(S) /\ Len(<<>>) = 0
OBVIOUS

-----------------------------------------------------------------------------
(* The moves of a call, field by field.                                    *)

Edits(c, q) == call' = [call EXCEPT ![c] = q]

\* What no end or retry of a call changes.
Keeps(r, q) ==
  /\ q.registered = r.registered /\ q.owner = r.owner /\ q.inc = r.inc
  /\ q.again = r.again /\ q.invoking = r.invoking /\ q.ambiguous = r.ambiguous
  /\ q.invoke = r.invoke /\ q.gen = r.gen /\ q.replies = r.replies /\ q.closed = r.closed
  /\ q.due = r.due /\ q.accepted = r.accepted

LEMMA RetireFields ==
  ASSUME NEW r \in CallType
  PROVE  /\ retireSend(r) \in CallType /\ Keeps(r, retireSend(r))
         /\ retireSend(r).pc = r.pc /\ retireSend(r).published = r.published
         /\ retireSend(r).ticket = IF r.ticket = "queued" THEN "cancelled" ELSE r.ticket
         /\ retireSend(r).evidence =
              IF /\ Started(r) /\ r.invoking
                 /\ r.evidence = "NotSent" \/ (r.evidence = "RejectedBeforeExecution" /\ r.ticket \in {"started", "announced"})
              THEN "MayHaveExecuted" ELSE r.evidence
<1>1. retireSend(r) \in CallType
  <2> DEFINE t == IF r.ticket = "queued" THEN "cancelled" ELSE r.ticket
             e == IF /\ Started(r) /\ r.invoking
                     /\ \/ r.evidence = "NotSent"
                        \/ r.evidence = "RejectedBeforeExecution" /\ r.ticket \in {"started", "announced"}
                  THEN "MayHaveExecuted" ELSE r.evidence
  <2>1. /\ t \in {"none", "queued", "started", "announced", "sent", "failed", "cancelled"}
        /\ e \in Evidence
    BY DEF CallType, Evidence
  <2>2. retireSend(r) = [r EXCEPT !.ticket = t, !.evidence = e]
    BY DEF retireSend, CallType
  <2> HIDE DEF t, e
  <2> QED BY <2>1, <2>2 DEF CallType
<1>2. Keeps(r, retireSend(r))
  BY DEF retireSend, CallType, Keeps
<1>3. retireSend(r).pc = r.pc /\ retireSend(r).published = r.published
  BY DEF retireSend, CallType
<1>4. retireSend(r).ticket = IF r.ticket = "queued" THEN "cancelled" ELSE r.ticket
  BY DEF retireSend, CallType
<1>5. retireSend(r).evidence =
              IF /\ Started(r) /\ r.invoking
                 /\ r.evidence = "NotSent" \/ (r.evidence = "RejectedBeforeExecution" /\ r.ticket \in {"started", "announced"})
              THEN "MayHaveExecuted" ELSE r.evidence
  BY DEF retireSend, CallType
<1> QED BY <1>1, <1>2, <1>3, <1>4, <1>5

\* The call leaves its body: q is what remains of r.
Leaves(r, q) ==
  /\ q \in CallType /\ Keeps(r, q)
  /\ q.pc = "final" /\ q.published = q.evidence
  /\ q.ticket = IF r.ticket = "queued" THEN "cancelled" ELSE r.ticket
  /\ \/ q.evidence = r.evidence /\ ~(r.invoking /\ r.evidence \in Clean /\ r.ticket \in {"started", "announced"})
     \/ q.evidence = "MayHaveExecuted" /\ r.evidence \in Clean /\ Started(r)

LEMMA FailedLeaves ==
  ASSUME NEW r \in CallType, NEW kind \in Kinds
  PROVE  Leaves(r, Failed(r, kind))
<1> DEFINE x == retireSend(r)
<1>1. /\ x \in CallType /\ Keeps(r, x) /\ x.ticket = IF r.ticket = "queued" THEN "cancelled" ELSE r.ticket
      /\ \/ x.evidence = r.evidence /\ ~(r.invoking /\ r.evidence \in Clean /\ r.ticket \in {"started", "announced"})
         \/ x.evidence = "MayHaveExecuted" /\ r.evidence \in Clean /\ Started(r)
  BY RetireFields DEF Clean, Started
<1>2. Failed(r, kind) = [x EXCEPT !.pc = "final", !.outcome = kind, !.published = x.evidence]
  BY DEF Failed
<1> HIDE DEF x
<1> DEFINE q == Failed(r, kind)
<1>3. q \in CallType
  <2>1. x.evidence \in Evidence \cup {"none"} /\ "final" \in Pcs
    BY <1>1 DEF CallType, Pcs
  <2> QED BY <1>1, <1>2, <2>1 DEF CallType
<1>4. /\ q.pc = "final" /\ q.published = x.evidence /\ q.evidence = x.evidence /\ q.ticket = x.ticket
  BY <1>1, <1>2 DEF CallType
<1>5. Keeps(x, q)
  BY <1>1, <1>2 DEF CallType, Keeps
<1> HIDE DEF q
<1>6. Keeps(r, q)
  BY <1>1, <1>5 DEF Keeps
<1> QED BY <1>1, <1>3, <1>4, <1>6 DEF Leaves, q

\* The call goes on to another message, or gives up.
Retries(r, q) ==
  \/ q \in CallType /\ Keeps(r, q) /\ q.pc = "gate" /\ q.published = r.published
     /\ q.ticket = r.ticket /\ q.evidence = r.evidence
  \/ Leaves(r, q)

LEMMA AttemptRetries ==
  ASSUME NEW r \in CallType
  PROVE  Retries(r, NextAttempt(r))
<1>1. CASE r.attempt < MaxAttempts
  <2> DEFINE q == [r EXCEPT !.attempt = @ + 1, !.pc = "gate"]
  <2>1. NextAttempt(r) = q
    BY <1>1 DEF NextAttempt
  <2>2. q \in CallType
    <3>1. r.attempt + 1 \in 1 .. MaxAttempts /\ "gate" \in Pcs
      BY <1>1, ClientAssumption DEF CallType, Pcs
    <3> QED BY <3>1 DEF CallType
  <2>3. Keeps(r, q)
    BY DEF CallType, Keeps
  <2>4. q.pc = "gate" /\ q.published = r.published /\ q.ticket = r.ticket /\ q.evidence = r.evidence
    BY DEF CallType
  <2> QED BY <2>1, <2>2, <2>3, <2>4 DEF Retries
<1>2. CASE ~(r.attempt < MaxAttempts)
  <2>1. NextAttempt(r) = Exhausted(r)
    BY <1>2 DEF NextAttempt
  <2>2. PICK kind \in Kinds : Exhausted(r) = Failed(r, kind)
    BY DEF Exhausted, Kinds, RejectedBeforeExecution, MayHaveExecuted
  <2> QED BY <2>1, <2>2, FailedLeaves DEF Retries
<1> QED BY <1>1, <1>2

-----------------------------------------------------------------------------
(* What a step of a call does to the call.                                 *)

\* t is what is left of s without some of its first and last elements.
Drops(s, t) == \E d \in Nat : \A i \in 1 .. Len(t) : i + d \in 1 .. Len(s) /\ t[i] = s[i + d]

LEMMA DropsSame == ASSUME NEW S, NEW s \in Seq(S) PROVE Drops(s, s)
<1>1. \A i \in 1 .. Len(s) : i + 0 \in 1 .. Len(s) /\ s[i] = s[i + 0]
  OBVIOUS
<1> QED BY <1>1 DEF Drops

LEMMA DropsTail == ASSUME NEW S, NEW s \in Seq(S), s # <<>> PROVE Drops(s, Tail(s))
<1>1. \A i \in 1 .. Len(Tail(s)) : i + 1 \in 1 .. Len(s) /\ Tail(s)[i] = s[i + 1]
  BY TailAt
<1> QED BY <1>1 DEF Drops

LEMMA DropsAll == ASSUME NEW s PROVE Drops(s, <<>>)
<1>1. \A i \in 1 .. Len(<<>>) : i + 0 \in 1 .. Len(s) /\ <<>>[i] = s[i + 0]
  BY EmptyAt
<1> QED BY <1>1 DEF Drops

LEMMA DropsPrefix == ASSUME NEW S, NEW s \in Seq(S), NEW n \in 0 .. Len(s) PROVE Drops(s, SubSeq(s, 1, n))
<1>1. \A i \in 1 .. Len(SubSeq(s, 1, n)) : i + 0 \in 1 .. Len(s) /\ SubSeq(s, 1, n)[i] = s[i + 0]
  BY PrefixAt
<1> QED BY <1>1 DEF Drops

\* Call r becomes q without a new message of its own: nothing new can be
\* invoked, and what is published of it could have been told before.
Goes(r, q) ==
  /\ Drops(r.replies, q.replies)
  /\ r.again => q.again
  /\ ~q.again => (Unsettled(q) => Unsettled(r))
  /\ ~q.again /\ q.published \in Clean => r.published \in Clean \/ Unsettled(r)
  /\ q.evidence = "HandlerFinished" =>
       r.evidence = "HandlerFinished" \/ \E i \in 1 .. Len(r.replies) : r.replies[i].code = "Result"
  /\ r.accepted => q.accepted /\ q.gen = r.gen
  /\ r.owner # 0 => q.owner # 0

\* The fields that count of r are those of x, which may know fewer replies.
Shorter(r, x) ==
  /\ x \in CallType /\ Drops(r.replies, x.replies)
  /\ x.pc = r.pc /\ x.ticket = r.ticket /\ x.evidence = r.evidence /\ x.published = r.published
  /\ x.again = r.again /\ x.invoking = r.invoking /\ x.ambiguous = r.ambiguous /\ x.invoke = r.invoke
  /\ x.gen = r.gen /\ x.accepted = r.accepted /\ x.owner = r.owner

LEMMA ShorterSame == ASSUME NEW r \in CallType PROVE Shorter(r, r)
<1>1. r.replies \in Seq(ReplyType)
  BY DEF CallType
<1> QED BY <1>1, DropsSame DEF Shorter

LEMMA ShorterTail ==
  ASSUME NEW r \in CallType, r.replies # <<>>
  PROVE  Shorter(r, [r EXCEPT !.replies = Tail(@)]) /\ [r EXCEPT !.replies = Tail(@)].replies = Tail(r.replies)
<1> DEFINE x == [r EXCEPT !.replies = Tail(@)]
<1>1. r.replies \in Seq(ReplyType) /\ Tail(r.replies) \in Seq(ReplyType)
  BY TailAt DEF CallType
<1>2. x \in CallType
  BY <1>1 DEF CallType
<1>3. /\ x.replies = Tail(r.replies)
      /\ x.pc = r.pc /\ x.ticket = r.ticket /\ x.evidence = r.evidence /\ x.published = r.published
      /\ x.again = r.again /\ x.invoking = r.invoking /\ x.ambiguous = r.ambiguous /\ x.invoke = r.invoke
      /\ x.gen = r.gen /\ x.accepted = r.accepted /\ x.owner = r.owner
  BY DEF CallType
<1> QED BY <1>1, <1>2, <1>3, DropsTail DEF Shorter

\* A call that leaves its body publishes nothing it could not stand by.
LEMMA LeavesOK ==
  ASSUME NEW r \in CallType, CallOK(r), r.pc \notin {"final", "ended"},
         NEW x, Shorter(r, x), NEW q, Leaves(x, q)
  PROVE  q \in CallType /\ CallOK(q) /\ Goes(r, q) /\ (q.again => r.again)
<1>1. /\ q \in CallType /\ Drops(r.replies, q.replies) /\ q.again = r.again /\ q.invoking = r.invoking
      /\ q.ambiguous = r.ambiguous /\ q.invoke = r.invoke /\ q.gen = r.gen
      /\ q.accepted = r.accepted /\ q.owner = r.owner
      /\ q.pc = "final" /\ q.published = q.evidence
      /\ q.ticket = IF r.ticket = "queued" THEN "cancelled" ELSE r.ticket
      /\ \/ q.evidence = r.evidence /\ ~(r.invoking /\ r.evidence \in Clean /\ r.ticket \in {"started", "announced"})
         \/ q.evidence = "MayHaveExecuted" /\ r.evidence \in Clean /\ r.ticket # "none"
  BY DEF Leaves, Shorter, Keeps, Started
<1>2. q.evidence \in Evidence /\ r.evidence \in Evidence
  BY <1>1 DEF CallType
<1>3. CallOK(q)
  BY <1>1, <1>2 DEF CallOK, Before, After, Clean, OnItsWay, Evidence
<1>4. r.evidence \in Clean => r.pc \in Before \cup {"sending"}
  <2>1. r.pc \in Pcs
    BY DEF CallType
  <2> QED BY <2>1 DEF CallOK, Before, After, Clean, OnItsWay, Evidence, Pcs
<1>5. Unsettled(q) => Unsettled(r)
  BY <1>1 DEF Unsettled, Before, Clean, OnItsWay
<1>6. q.published \in Clean => Unsettled(r)
  BY <1>1, <1>4 DEF Unsettled, Clean
<1>7. q.evidence = "HandlerFinished" => r.evidence = "HandlerFinished"
  BY <1>1 DEF Clean
<1> QED BY <1>1, <1>3, <1>5, <1>6, <1>7 DEF Goes

\* Before another attempt a call is told whether it may invoke.
Renews(r, x) ==
  /\ x \in CallType /\ Drops(r.replies, x.replies)
  /\ x.evidence = r.evidence /\ x.published = r.published /\ x.again = r.again
  /\ x.gen = r.gen /\ x.accepted = r.accepted /\ x.owner = r.owner
  /\ x.ticket \notin OnItsWay /\ (~x.again => (x.invoke <=> x.evidence \in Clean))

LEMMA RetriesOK ==
  ASSUME NEW r \in CallType, CallOK(r), r.pc \in {"offer", "sending", "waiting"},
         NEW x, Renews(r, x), NEW q, Retries(x, q)
  PROVE  q \in CallType /\ CallOK(q) /\ Goes(r, q) /\ (q.again => r.again)
<1>1. /\ q \in CallType /\ Drops(r.replies, q.replies) /\ q.again = r.again
      /\ q.invoke = x.invoke /\ q.gen = r.gen
      /\ q.accepted = r.accepted /\ q.owner = r.owner /\ q.ticket = x.ticket
      /\ \/ q.pc = "final" /\ q.published = q.evidence
         \/ q.pc = "gate" /\ q.published = r.published /\ q.evidence = r.evidence
      /\ \/ q.evidence = r.evidence
         \/ q.evidence = "MayHaveExecuted" /\ r.evidence \in Clean
  BY DEF Retries, Leaves, Renews, Keeps, OnItsWay
<1>2. q.evidence \in Evidence /\ r.evidence \in Evidence
  BY <1>1 DEF CallType
<1>3. r.evidence # "HandlerFinished" /\ r.published = "none" /\ ~r.accepted /\ r.owner # 0
  BY DEF CallOK, Before
<1>4. q.evidence # "HandlerFinished"
  BY <1>1, <1>3
<1>5. /\ ~q.again => (q.invoke <=> x.evidence \in Clean)
      /\ q.ticket \notin OnItsWay
  BY <1>1 DEF Renews
<1>5a. q.pc = "gate" /\ ~q.again => (q.invoke <=> q.evidence \in Clean)
  BY <1>1, <1>5 DEF Renews
<1>6. CallOK(q)
  <2>1. q.again => q.evidence \notin Clean
    BY <1>1 DEF CallOK, Clean
  <2> QED BY <1>1, <1>2, <1>3, <1>4, <1>5, <1>5a, <2>1 DEF CallOK, Before, After, Clean, OnItsWay, Evidence
<1>7. r.evidence \in Clean => r.pc \in Before \cup {"sending"}
  BY DEF CallOK, Before, Clean, OnItsWay
<1>8. Unsettled(q) => Unsettled(r)
  BY <1>1, <1>5, <1>7 DEF Unsettled, Clean
<1>9. q.published \in Clean => Unsettled(r)
  BY <1>1, <1>3, <1>7 DEF Unsettled, Clean
<1> QED BY <1>1, <1>3, <1>4, <1>6, <1>8, <1>9 DEF Goes

-----------------------------------------------------------------------------
(* The steps of a call that only write some of its fields.                 *)

LEMMA BeginOK ==
  ASSUME NEW r \in CallType, CallOK(r), r.pc = "idle"
  PROVE  LET q == [r EXCEPT !.pc = "select"]
         IN  q \in CallType /\ CallOK(q) /\ Goes(r, q) /\ (q.again => r.again)
<1> DEFINE q == [r EXCEPT !.pc = "select"]
<1>1. q \in CallType
  BY DEF CallType, Pcs, Evidence
<1>2. /\ q.registered = r.registered /\ q.owner = r.owner /\ q.inc = r.inc
      /\ q.again = r.again /\ q.invoking = r.invoking /\ q.ambiguous = r.ambiguous
      /\ q.invoke = r.invoke /\ q.gen = r.gen /\ q.closed = r.closed
      /\ q.due = r.due /\ q.accepted = r.accepted /\ q.pc = "select"
      /\ q.ticket = r.ticket /\ q.evidence = r.evidence /\ q.published = r.published
      /\ q.replies = r.replies
  BY DEF CallType
<1> HIDE DEF q
<1>3. q.evidence \in Evidence /\ r.evidence \in Evidence /\ r.pc \in Pcs /\ r.replies \in Seq(ReplyType)
  BY <1>1 DEF CallType
<1>4. CallOK(q)
  BY <1>2, <1>3 DEF CallOK, Before, After, Clean, OnItsWay, Evidence, Pcs
<1>5. Drops(r.replies, q.replies)
  BY <1>2, <1>3, DropsSame, DropsAll, DropsTail
<1>6. Unsettled(q) => Unsettled(r)
  BY <1>2, <1>3 DEF CallOK, Unsettled, Before, After, Clean, OnItsWay, Evidence, Pcs
<1>7. q.published \in Clean => r.published \in Clean \/ Unsettled(r)
  BY <1>2, <1>3 DEF CallOK, Unsettled, Before, After, Clean, OnItsWay, Evidence, Pcs
<1>8. /\ r.accepted => q.accepted /\ q.gen = r.gen
      /\ q.evidence = "HandlerFinished" =>
           r.evidence = "HandlerFinished" \/ \E i \in 1 .. Len(r.replies) : r.replies[i].code = "Result"
  BY <1>2, <1>3 DEF CallOK, Before, After
<1> QED BY <1>1, <1>2, <1>4, <1>5, <1>6, <1>7, <1>8 DEF Goes, q

LEMMA RefusedOK ==
  ASSUME NEW r \in CallType, CallOK(r), r.pc = "idle", r.evidence = "NotSent"
  PROVE  LET q == [r EXCEPT !.pc = "ended", !.outcome = "Overloaded", !.published = "NotSent"]
         IN  q \in CallType /\ CallOK(q) /\ Goes(r, q) /\ (q.again => r.again)
<1> DEFINE q == [r EXCEPT !.pc = "ended", !.outcome = "Overloaded", !.published = "NotSent"]
<1>1. q \in CallType
  BY DEF CallType, Pcs, Evidence, Kinds, RejectedBeforeExecution
<1>2. /\ q.registered = r.registered /\ q.owner = r.owner /\ q.inc = r.inc
      /\ q.again = r.again /\ q.invoking = r.invoking /\ q.ambiguous = r.ambiguous
      /\ q.invoke = r.invoke /\ q.gen = r.gen /\ q.closed = r.closed
      /\ q.due = r.due /\ q.accepted = r.accepted /\ q.pc = "ended"
      /\ q.ticket = r.ticket /\ q.evidence = r.evidence /\ q.published = "NotSent"
      /\ q.replies = r.replies
  BY DEF CallType
<1> HIDE DEF q
<1>3. q.evidence \in Evidence /\ r.evidence \in Evidence /\ r.pc \in Pcs /\ r.replies \in Seq(ReplyType)
  BY <1>1 DEF CallType
<1>4. CallOK(q)
  BY <1>2, <1>3 DEF CallOK, Before, After, Clean, OnItsWay, Evidence, Pcs
<1>5. Drops(r.replies, q.replies)
  BY <1>2, <1>3, DropsSame, DropsAll, DropsTail
<1>6. Unsettled(q) => Unsettled(r)
  BY <1>2, <1>3 DEF CallOK, Unsettled, Before, After, Clean, OnItsWay, Evidence, Pcs
<1>7. q.published \in Clean => r.published \in Clean \/ Unsettled(r)
  BY <1>2, <1>3 DEF CallOK, Unsettled, Before, After, Clean, OnItsWay, Evidence, Pcs
<1>8. /\ r.accepted => q.accepted /\ q.gen = r.gen
      /\ q.evidence = "HandlerFinished" =>
           r.evidence = "HandlerFinished" \/ \E i \in 1 .. Len(r.replies) : r.replies[i].code = "Result"
  BY <1>2, <1>3 DEF CallOK, Before, After
<1> QED BY <1>1, <1>2, <1>4, <1>5, <1>6, <1>7, <1>8 DEF Goes, q

LEMMA SelectOK ==
  ASSUME NEW r \in CallType, CallOK(r), NEW n \in Attachments, NEW m \in Nat, r.pc = "select"
  PROVE  LET q == [r EXCEPT !.pc = "encode", !.owner = n, !.inc = m]
         IN  q \in CallType /\ CallOK(q) /\ Goes(r, q) /\ (q.again => r.again)
<1> DEFINE q == [r EXCEPT !.pc = "encode", !.owner = n, !.inc = m]
<1>0. n \in 0 .. MaxAttachments /\ n # 0
  BY ClientAssumption DEF Attachments
<1>1. q \in CallType
  BY <1>0 DEF CallType, Pcs, Evidence, Attachments
<1>2. /\ q.registered = r.registered /\ q.owner = n /\ q.inc = m
      /\ q.again = r.again /\ q.invoking = r.invoking /\ q.ambiguous = r.ambiguous
      /\ q.invoke = r.invoke /\ q.gen = r.gen /\ q.closed = r.closed
      /\ q.due = r.due /\ q.accepted = r.accepted /\ q.pc = "encode"
      /\ q.ticket = r.ticket /\ q.evidence = r.evidence /\ q.published = r.published
      /\ q.replies = r.replies
  BY DEF CallType
<1> HIDE DEF q
<1>3. q.evidence \in Evidence /\ r.evidence \in Evidence /\ r.pc \in Pcs /\ r.replies \in Seq(ReplyType)
  BY <1>1 DEF CallType
<1>4. CallOK(q)
  BY <1>2, <1>3, <1>0 DEF CallOK, Before, After, Clean, OnItsWay, Evidence, Pcs
<1>5. Drops(r.replies, q.replies)
  BY <1>2, <1>3, DropsSame, DropsAll, DropsTail
<1>6. Unsettled(q) => Unsettled(r)
  BY <1>2, <1>3, <1>0 DEF CallOK, Unsettled, Before, After, Clean, OnItsWay, Evidence, Pcs
<1>7. q.published \in Clean => r.published \in Clean \/ Unsettled(r)
  BY <1>2, <1>3, <1>0 DEF CallOK, Unsettled, Before, After, Clean, OnItsWay, Evidence, Pcs
<1>8. /\ r.accepted => q.accepted /\ q.gen = r.gen
      /\ q.evidence = "HandlerFinished" =>
           r.evidence = "HandlerFinished" \/ \E i \in 1 .. Len(r.replies) : r.replies[i].code = "Result"
  BY <1>2, <1>3 DEF CallOK, Before, After
<1> QED BY <1>0, <1>1, <1>2, <1>4, <1>5, <1>6, <1>7, <1>8 DEF Goes, q

LEMMA RegisterOK ==
  ASSUME NEW r \in CallType, CallOK(r), r.pc = "encode"
  PROVE  LET q == [r EXCEPT !.pc = "gate", !.registered = TRUE]
         IN  q \in CallType /\ CallOK(q) /\ Goes(r, q) /\ (q.again => r.again)
<1> DEFINE q == [r EXCEPT !.pc = "gate", !.registered = TRUE]
<1>1. q \in CallType
  BY DEF CallType, Pcs, Evidence
<1>2. /\ q.registered = TRUE /\ q.owner = r.owner /\ q.inc = r.inc
      /\ q.again = r.again /\ q.invoking = r.invoking /\ q.ambiguous = r.ambiguous
      /\ q.invoke = r.invoke /\ q.gen = r.gen /\ q.closed = r.closed
      /\ q.due = r.due /\ q.accepted = r.accepted /\ q.pc = "gate"
      /\ q.ticket = r.ticket /\ q.evidence = r.evidence /\ q.published = r.published
      /\ q.replies = r.replies
  BY DEF CallType
<1> HIDE DEF q
<1>3. q.evidence \in Evidence /\ r.evidence \in Evidence /\ r.pc \in Pcs /\ r.replies \in Seq(ReplyType)
  BY <1>1 DEF CallType
<1>4. CallOK(q)
  BY <1>2, <1>3 DEF CallOK, Before, After, Clean, OnItsWay, Evidence, Pcs
<1>5. Drops(r.replies, q.replies)
  BY <1>2, <1>3, DropsSame, DropsAll, DropsTail
<1>6. Unsettled(q) => Unsettled(r)
  BY <1>2, <1>3 DEF CallOK, Unsettled, Before, After, Clean, OnItsWay, Evidence, Pcs
<1>7. q.published \in Clean => r.published \in Clean \/ Unsettled(r)
  BY <1>2, <1>3 DEF CallOK, Unsettled, Before, After, Clean, OnItsWay, Evidence, Pcs
<1>8. /\ r.accepted => q.accepted /\ q.gen = r.gen
      /\ q.evidence = "HandlerFinished" =>
           r.evidence = "HandlerFinished" \/ \E i \in 1 .. Len(r.replies) : r.replies[i].code = "Result"
  BY <1>2, <1>3 DEF CallOK, Before, After
<1> QED BY <1>1, <1>2, <1>4, <1>5, <1>6, <1>7, <1>8 DEF Goes, q

LEMMA GateOK ==
  ASSUME NEW r \in CallType, CallOK(r), r.pc = "gate"
  PROVE  LET q == [r EXCEPT !.pc = "offer"]
         IN  q \in CallType /\ CallOK(q) /\ Goes(r, q) /\ (q.again => r.again)
<1> DEFINE q == [r EXCEPT !.pc = "offer"]
<1>1. q \in CallType
  BY DEF CallType, Pcs, Evidence
<1>2. /\ q.registered = r.registered /\ q.owner = r.owner /\ q.inc = r.inc
      /\ q.again = r.again /\ q.invoking = r.invoking /\ q.ambiguous = r.ambiguous
      /\ q.invoke = r.invoke /\ q.gen = r.gen /\ q.closed = r.closed
      /\ q.due = r.due /\ q.accepted = r.accepted /\ q.pc = "offer"
      /\ q.ticket = r.ticket /\ q.evidence = r.evidence /\ q.published = r.published
      /\ q.replies = r.replies
  BY DEF CallType
<1> HIDE DEF q
<1>3. q.evidence \in Evidence /\ r.evidence \in Evidence /\ r.pc \in Pcs /\ r.replies \in Seq(ReplyType)
  BY <1>1 DEF CallType
<1>4. CallOK(q)
  BY <1>2, <1>3 DEF CallOK, Before, After, Clean, OnItsWay, Evidence, Pcs
<1>5. Drops(r.replies, q.replies)
  BY <1>2, <1>3, DropsSame, DropsAll, DropsTail
<1>6. Unsettled(q) => Unsettled(r)
  BY <1>2, <1>3 DEF CallOK, Unsettled, Before, After, Clean, OnItsWay, Evidence, Pcs
<1>7. q.published \in Clean => r.published \in Clean \/ Unsettled(r)
  BY <1>2, <1>3 DEF CallOK, Unsettled, Before, After, Clean, OnItsWay, Evidence, Pcs
<1>8. /\ r.accepted => q.accepted /\ q.gen = r.gen
      /\ q.evidence = "HandlerFinished" =>
           r.evidence = "HandlerFinished" \/ \E i \in 1 .. Len(r.replies) : r.replies[i].code = "Result"
  BY <1>2, <1>3 DEF CallOK, Before, After
<1> QED BY <1>1, <1>2, <1>4, <1>5, <1>6, <1>7, <1>8 DEF Goes, q

LEMMA WaitingOK ==
  ASSUME NEW r \in CallType, CallOK(r), r.pc = "sending", r.ticket = "sent"
  PROVE  LET q == [r EXCEPT !.pc = "waiting"]
         IN  q \in CallType /\ CallOK(q) /\ Goes(r, q) /\ (q.again => r.again)
<1> DEFINE q == [r EXCEPT !.pc = "waiting"]
<1>1. q \in CallType
  BY DEF CallType, Pcs, Evidence
<1>2. /\ q.registered = r.registered /\ q.owner = r.owner /\ q.inc = r.inc
      /\ q.again = r.again /\ q.invoking = r.invoking /\ q.ambiguous = r.ambiguous
      /\ q.invoke = r.invoke /\ q.gen = r.gen /\ q.closed = r.closed
      /\ q.due = r.due /\ q.accepted = r.accepted /\ q.pc = "waiting"
      /\ q.ticket = r.ticket /\ q.evidence = r.evidence /\ q.published = r.published
      /\ q.replies = r.replies
  BY DEF CallType
<1> HIDE DEF q
<1>3. q.evidence \in Evidence /\ r.evidence \in Evidence /\ r.pc \in Pcs /\ r.replies \in Seq(ReplyType)
  BY <1>1 DEF CallType
<1>4. CallOK(q)
  BY <1>2, <1>3 DEF CallOK, Before, After, Clean, OnItsWay, Evidence, Pcs
<1>5. Drops(r.replies, q.replies)
  BY <1>2, <1>3, DropsSame, DropsAll, DropsTail
<1>6. Unsettled(q) => Unsettled(r)
  BY <1>2, <1>3 DEF CallOK, Unsettled, Before, After, Clean, OnItsWay, Evidence, Pcs
<1>7. q.published \in Clean => r.published \in Clean \/ Unsettled(r)
  BY <1>2, <1>3 DEF CallOK, Unsettled, Before, After, Clean, OnItsWay, Evidence, Pcs
<1>8. /\ r.accepted => q.accepted /\ q.gen = r.gen
      /\ q.evidence = "HandlerFinished" =>
           r.evidence = "HandlerFinished" \/ \E i \in 1 .. Len(r.replies) : r.replies[i].code = "Result"
  BY <1>2, <1>3 DEF CallOK, Before, After
<1> QED BY <1>1, <1>2, <1>4, <1>5, <1>6, <1>7, <1>8 DEF Goes, q

LEMMA AcceptOK ==
  ASSUME NEW r \in CallType, CallOK(r), r.pc = "accepting"
  PROVE  LET q == [r EXCEPT !.pc = "accepted", !.accepted = TRUE]
         IN  q \in CallType /\ CallOK(q) /\ Goes(r, q) /\ (q.again => r.again)
<1> DEFINE q == [r EXCEPT !.pc = "accepted", !.accepted = TRUE]
<1>1. q \in CallType
  BY DEF CallType, Pcs, Evidence
<1>2. /\ q.registered = r.registered /\ q.owner = r.owner /\ q.inc = r.inc
      /\ q.again = r.again /\ q.invoking = r.invoking /\ q.ambiguous = r.ambiguous
      /\ q.invoke = r.invoke /\ q.gen = r.gen /\ q.closed = r.closed
      /\ q.due = r.due /\ q.accepted = TRUE /\ q.pc = "accepted"
      /\ q.ticket = r.ticket /\ q.evidence = r.evidence /\ q.published = r.published
      /\ q.replies = r.replies
  BY DEF CallType
<1> HIDE DEF q
<1>3. q.evidence \in Evidence /\ r.evidence \in Evidence /\ r.pc \in Pcs /\ r.replies \in Seq(ReplyType)
  BY <1>1 DEF CallType
<1>4. CallOK(q)
  BY <1>2, <1>3 DEF CallOK, Before, After, Clean, OnItsWay, Evidence, Pcs
<1>5. Drops(r.replies, q.replies)
  BY <1>2, <1>3, DropsSame, DropsAll, DropsTail
<1>6. Unsettled(q) => Unsettled(r)
  BY <1>2, <1>3 DEF CallOK, Unsettled, Before, After, Clean, OnItsWay, Evidence, Pcs
<1>7. q.published \in Clean => r.published \in Clean \/ Unsettled(r)
  BY <1>2, <1>3 DEF CallOK, Unsettled, Before, After, Clean, OnItsWay, Evidence, Pcs
<1>8. /\ r.accepted => q.accepted /\ q.gen = r.gen
      /\ q.evidence = "HandlerFinished" =>
           r.evidence = "HandlerFinished" \/ \E i \in 1 .. Len(r.replies) : r.replies[i].code = "Result"
  BY <1>2, <1>3 DEF CallOK, Before, After
<1> QED BY <1>1, <1>2, <1>4, <1>5, <1>6, <1>7, <1>8 DEF Goes, q

LEMMA ReceiptOK ==
  ASSUME NEW r \in CallType, CallOK(r), r.pc = "accepted"
  PROVE  LET q == [r EXCEPT !.pc = "receipt"]
         IN  q \in CallType /\ CallOK(q) /\ Goes(r, q) /\ (q.again => r.again)
<1> DEFINE q == [r EXCEPT !.pc = "receipt"]
<1>1. q \in CallType
  BY DEF CallType, Pcs, Evidence
<1>2. /\ q.registered = r.registered /\ q.owner = r.owner /\ q.inc = r.inc
      /\ q.again = r.again /\ q.invoking = r.invoking /\ q.ambiguous = r.ambiguous
      /\ q.invoke = r.invoke /\ q.gen = r.gen /\ q.closed = r.closed
      /\ q.due = r.due /\ q.accepted = r.accepted /\ q.pc = "receipt"
      /\ q.ticket = r.ticket /\ q.evidence = r.evidence /\ q.published = r.published
      /\ q.replies = r.replies
  BY DEF CallType
<1> HIDE DEF q
<1>3. q.evidence \in Evidence /\ r.evidence \in Evidence /\ r.pc \in Pcs /\ r.replies \in Seq(ReplyType)
  BY <1>1 DEF CallType
<1>4. CallOK(q)
  BY <1>2, <1>3 DEF CallOK, Before, After, Clean, OnItsWay, Evidence, Pcs
<1>5. Drops(r.replies, q.replies)
  BY <1>2, <1>3, DropsSame, DropsAll, DropsTail
<1>6. Unsettled(q) => Unsettled(r)
  BY <1>2, <1>3 DEF CallOK, Unsettled, Before, After, Clean, OnItsWay, Evidence, Pcs
<1>7. q.published \in Clean => r.published \in Clean \/ Unsettled(r)
  BY <1>2, <1>3 DEF CallOK, Unsettled, Before, After, Clean, OnItsWay, Evidence, Pcs
<1>8. /\ r.accepted => q.accepted /\ q.gen = r.gen
      /\ q.evidence = "HandlerFinished" =>
           r.evidence = "HandlerFinished" \/ \E i \in 1 .. Len(r.replies) : r.replies[i].code = "Result"
  BY <1>2, <1>3 DEF CallOK, Before, After
<1> QED BY <1>1, <1>2, <1>4, <1>5, <1>6, <1>7, <1>8 DEF Goes, q

LEMMA ReturningOK ==
  ASSUME NEW r \in CallType, CallOK(r), r.pc \in {"accepted", "receipt"}
  PROVE  LET q == [r EXCEPT !.pc = "returning"]
         IN  q \in CallType /\ CallOK(q) /\ Goes(r, q) /\ (q.again => r.again)
<1> DEFINE q == [r EXCEPT !.pc = "returning"]
<1>1. q \in CallType
  BY DEF CallType, Pcs, Evidence
<1>2. /\ q.registered = r.registered /\ q.owner = r.owner /\ q.inc = r.inc
      /\ q.again = r.again /\ q.invoking = r.invoking /\ q.ambiguous = r.ambiguous
      /\ q.invoke = r.invoke /\ q.gen = r.gen /\ q.closed = r.closed
      /\ q.due = r.due /\ q.accepted = r.accepted /\ q.pc = "returning"
      /\ q.ticket = r.ticket /\ q.evidence = r.evidence /\ q.published = r.published
      /\ q.replies = r.replies
  BY DEF CallType
<1> HIDE DEF q
<1>3. q.evidence \in Evidence /\ r.evidence \in Evidence /\ r.pc \in Pcs /\ r.replies \in Seq(ReplyType)
  BY <1>1 DEF CallType
<1>4. CallOK(q)
  BY <1>2, <1>3 DEF CallOK, Before, After, Clean, OnItsWay, Evidence, Pcs
<1>5. Drops(r.replies, q.replies)
  BY <1>2, <1>3, DropsSame, DropsAll, DropsTail
<1>6. Unsettled(q) => Unsettled(r)
  BY <1>2, <1>3 DEF CallOK, Unsettled, Before, After, Clean, OnItsWay, Evidence, Pcs
<1>7. q.published \in Clean => r.published \in Clean \/ Unsettled(r)
  BY <1>2, <1>3 DEF CallOK, Unsettled, Before, After, Clean, OnItsWay, Evidence, Pcs
<1>8. /\ r.accepted => q.accepted /\ q.gen = r.gen
      /\ q.evidence = "HandlerFinished" =>
           r.evidence = "HandlerFinished" \/ \E i \in 1 .. Len(r.replies) : r.replies[i].code = "Result"
  BY <1>2, <1>3 DEF CallOK, Before, After
<1> QED BY <1>1, <1>2, <1>4, <1>5, <1>6, <1>7, <1>8 DEF Goes, q

LEMMA DueOK ==
  ASSUME NEW r \in CallType, CallOK(r), r.pc \in Pcs
  PROVE  LET q == [r EXCEPT !.due = TRUE]
         IN  q \in CallType /\ CallOK(q) /\ Goes(r, q) /\ (q.again => r.again)
<1> DEFINE q == [r EXCEPT !.due = TRUE]
<1>1. q \in CallType
  BY DEF CallType, Pcs, Evidence
<1>2. /\ q.registered = r.registered /\ q.owner = r.owner /\ q.inc = r.inc
      /\ q.again = r.again /\ q.invoking = r.invoking /\ q.ambiguous = r.ambiguous
      /\ q.invoke = r.invoke /\ q.gen = r.gen /\ q.closed = r.closed
      /\ q.due = TRUE /\ q.accepted = r.accepted /\ q.pc = r.pc
      /\ q.ticket = r.ticket /\ q.evidence = r.evidence /\ q.published = r.published
      /\ q.replies = r.replies
  BY DEF CallType
<1> HIDE DEF q
<1>3. q.evidence \in Evidence /\ r.evidence \in Evidence /\ r.pc \in Pcs /\ r.replies \in Seq(ReplyType)
  BY <1>1 DEF CallType
<1>4. CallOK(q)
  BY <1>2, <1>3 DEF CallOK, Before, After, Clean, OnItsWay, Evidence, Pcs
<1>5. Drops(r.replies, q.replies)
  BY <1>2, <1>3, DropsSame, DropsAll, DropsTail
<1>6. Unsettled(q) => Unsettled(r)
  BY <1>2, <1>3 DEF CallOK, Unsettled, Before, After, Clean, OnItsWay, Evidence, Pcs
<1>7. q.published \in Clean => r.published \in Clean \/ Unsettled(r)
  BY <1>2, <1>3 DEF CallOK, Unsettled, Before, After, Clean, OnItsWay, Evidence, Pcs
<1>8. /\ r.accepted => q.accepted /\ q.gen = r.gen
      /\ q.evidence = "HandlerFinished" =>
           r.evidence = "HandlerFinished" \/ \E i \in 1 .. Len(r.replies) : r.replies[i].code = "Result"
  BY <1>2, <1>3 DEF CallOK, Before, After
<1> QED BY <1>1, <1>2, <1>4, <1>5, <1>6, <1>7, <1>8 DEF Goes, q

LEMMA EndedOK ==
  ASSUME NEW r \in CallType, CallOK(r), r.pc = "final"
  PROVE  LET q == [r EXCEPT !.pc = "ended", !.registered = FALSE, !.replies = <<>>, !.closed = TRUE]
         IN  q \in CallType /\ CallOK(q) /\ Goes(r, q) /\ (q.again => r.again)
<1> DEFINE q == [r EXCEPT !.pc = "ended", !.registered = FALSE, !.replies = <<>>, !.closed = TRUE]
<1>1. q \in CallType
  BY EmptyAt DEF CallType, Pcs, Evidence
<1>2. /\ q.registered = FALSE /\ q.owner = r.owner /\ q.inc = r.inc
      /\ q.again = r.again /\ q.invoking = r.invoking /\ q.ambiguous = r.ambiguous
      /\ q.invoke = r.invoke /\ q.gen = r.gen /\ q.closed = TRUE
      /\ q.due = r.due /\ q.accepted = r.accepted /\ q.pc = "ended"
      /\ q.ticket = r.ticket /\ q.evidence = r.evidence /\ q.published = r.published
      /\ q.replies = <<>>
  BY DEF CallType
<1> HIDE DEF q
<1>3. q.evidence \in Evidence /\ r.evidence \in Evidence /\ r.pc \in Pcs /\ r.replies \in Seq(ReplyType)
  BY <1>1 DEF CallType
<1>4. CallOK(q)
  BY <1>2, <1>3 DEF CallOK, Before, After, Clean, OnItsWay, Evidence, Pcs
<1>5. Drops(r.replies, q.replies)
  BY <1>2, <1>3, DropsSame, DropsAll, DropsTail
<1>6. Unsettled(q) => Unsettled(r)
  BY <1>2, <1>3 DEF CallOK, Unsettled, Before, After, Clean, OnItsWay, Evidence, Pcs
<1>7. q.published \in Clean => r.published \in Clean \/ Unsettled(r)
  BY <1>2, <1>3 DEF CallOK, Unsettled, Before, After, Clean, OnItsWay, Evidence, Pcs
<1>8. /\ r.accepted => q.accepted /\ q.gen = r.gen
      /\ q.evidence = "HandlerFinished" =>
           r.evidence = "HandlerFinished" \/ \E i \in 1 .. Len(r.replies) : r.replies[i].code = "Result"
  BY <1>2, <1>3 DEF CallOK, Before, After
<1> QED BY <1>1, <1>2, <1>4, <1>5, <1>6, <1>7, <1>8 DEF Goes, q

LEMMA ResultOK ==
  ASSUME NEW r \in CallType, CallOK(r), NEW p \in {"accepting", "returning"}, NEW g \in 0 .. MaxConnections, r.pc = "waiting", r.replies # <<>>, Head(r.replies).code = "Result"
  PROVE  LET q == [[r EXCEPT !.replies = Tail(@), !.evidence = "HandlerFinished"] EXCEPT !.pc = p, !.gen = g]
         IN  q \in CallType /\ CallOK(q) /\ Goes(r, q) /\ (q.again => r.again)
<1> DEFINE q == [[r EXCEPT !.replies = Tail(@), !.evidence = "HandlerFinished"] EXCEPT !.pc = p, !.gen = g]
<1>0. /\ Tail(r.replies) \in Seq(ReplyType) /\ Head(r.replies) = r.replies[1] /\ 1 \in 1 .. Len(r.replies)
  BY TailAt DEF CallType
<1>1. q \in CallType
  BY <1>0 DEF CallType, Pcs, Evidence
<1>2. /\ q.registered = r.registered /\ q.owner = r.owner /\ q.inc = r.inc
      /\ q.again = r.again /\ q.invoking = r.invoking /\ q.ambiguous = r.ambiguous
      /\ q.invoke = r.invoke /\ q.gen = g /\ q.closed = r.closed
      /\ q.due = r.due /\ q.accepted = r.accepted /\ q.pc = p
      /\ q.ticket = r.ticket /\ q.evidence = "HandlerFinished" /\ q.published = r.published
      /\ q.replies = Tail(r.replies)
  BY DEF CallType
<1> HIDE DEF q
<1>3. q.evidence \in Evidence /\ r.evidence \in Evidence /\ r.pc \in Pcs /\ r.replies \in Seq(ReplyType)
  BY <1>1 DEF CallType
<1>4. CallOK(q)
  BY <1>2, <1>3 DEF CallOK, Before, After, Clean, OnItsWay, Evidence, Pcs
<1>5. Drops(r.replies, q.replies)
  BY <1>2, <1>3, DropsSame, DropsAll, DropsTail
<1>6. Unsettled(q) => Unsettled(r)
  BY <1>2, <1>3 DEF CallOK, Unsettled, Before, After, Clean, OnItsWay, Evidence, Pcs
<1>7. q.published \in Clean => r.published \in Clean \/ Unsettled(r)
  BY <1>2, <1>3 DEF CallOK, Unsettled, Before, After, Clean, OnItsWay, Evidence, Pcs
<1>8. /\ r.accepted => q.accepted /\ q.gen = r.gen
      /\ q.evidence = "HandlerFinished" =>
           r.evidence = "HandlerFinished" \/ \E i \in 1 .. Len(r.replies) : r.replies[i].code = "Result"
  BY <1>2, <1>3, <1>0 DEF CallOK, Before, After
<1> QED BY <1>1, <1>2, <1>4, <1>5, <1>6, <1>7, <1>8 DEF Goes, q

LEMMA ShortOK ==
  ASSUME NEW r \in CallType, CallOK(r), r.replies # <<>>
  PROVE  LET q == [r EXCEPT !.replies = Tail(@)]
         IN  q \in CallType /\ CallOK(q) /\ Goes(r, q) /\ (q.again => r.again)
<1> DEFINE q == [r EXCEPT !.replies = Tail(@)]
<1>0. Tail(r.replies) \in Seq(ReplyType)
  BY TailAt DEF CallType
<1>1. q \in CallType
  BY <1>0 DEF CallType, Pcs, Evidence
<1>2. /\ q.registered = r.registered /\ q.owner = r.owner /\ q.inc = r.inc
      /\ q.again = r.again /\ q.invoking = r.invoking /\ q.ambiguous = r.ambiguous
      /\ q.invoke = r.invoke /\ q.gen = r.gen /\ q.closed = r.closed
      /\ q.due = r.due /\ q.accepted = r.accepted /\ q.pc = r.pc
      /\ q.ticket = r.ticket /\ q.evidence = r.evidence /\ q.published = r.published
      /\ q.replies = Tail(r.replies)
  BY DEF CallType
<1> HIDE DEF q
<1>3. q.evidence \in Evidence /\ r.evidence \in Evidence /\ r.pc \in Pcs /\ r.replies \in Seq(ReplyType)
  BY <1>1 DEF CallType
<1>4. CallOK(q)
  BY <1>2, <1>3 DEF CallOK, Before, After, Clean, OnItsWay, Evidence, Pcs
<1>5. Drops(r.replies, q.replies)
  BY <1>2, <1>3, DropsSame, DropsAll, DropsTail
<1>6. Unsettled(q) => Unsettled(r)
  BY <1>2, <1>3 DEF CallOK, Unsettled, Before, After, Clean, OnItsWay, Evidence, Pcs
<1>7. q.published \in Clean => r.published \in Clean \/ Unsettled(r)
  BY <1>2, <1>3 DEF CallOK, Unsettled, Before, After, Clean, OnItsWay, Evidence, Pcs
<1>8. /\ r.accepted => q.accepted /\ q.gen = r.gen
      /\ q.evidence = "HandlerFinished" =>
           r.evidence = "HandlerFinished" \/ \E i \in 1 .. Len(r.replies) : r.replies[i].code = "Result"
  BY <1>2, <1>3 DEF CallOK, Before, After
<1> QED BY <1>1, <1>2, <1>4, <1>5, <1>6, <1>7, <1>8 DEF Goes, q

LEMMA ClosedOK ==
  ASSUME NEW r \in CallType, CallOK(r), r.pc \in Pcs
  PROVE  LET q == [r EXCEPT !.closed = TRUE]
         IN  q \in CallType /\ CallOK(q) /\ Goes(r, q) /\ (q.again => r.again)
<1> DEFINE q == [r EXCEPT !.closed = TRUE]
<1>1. q \in CallType
  BY DEF CallType, Pcs, Evidence
<1>2. /\ q.registered = r.registered /\ q.owner = r.owner /\ q.inc = r.inc
      /\ q.again = r.again /\ q.invoking = r.invoking /\ q.ambiguous = r.ambiguous
      /\ q.invoke = r.invoke /\ q.gen = r.gen /\ q.closed = TRUE
      /\ q.due = r.due /\ q.accepted = r.accepted /\ q.pc = r.pc
      /\ q.ticket = r.ticket /\ q.evidence = r.evidence /\ q.published = r.published
      /\ q.replies = r.replies
  BY DEF CallType
<1> HIDE DEF q
<1>3. q.evidence \in Evidence /\ r.evidence \in Evidence /\ r.pc \in Pcs /\ r.replies \in Seq(ReplyType)
  BY <1>1 DEF CallType
<1>4. CallOK(q)
  BY <1>2, <1>3 DEF CallOK, Before, After, Clean, OnItsWay, Evidence, Pcs
<1>5. Drops(r.replies, q.replies)
  BY <1>2, <1>3, DropsSame, DropsAll, DropsTail
<1>6. Unsettled(q) => Unsettled(r)
  BY <1>2, <1>3 DEF CallOK, Unsettled, Before, After, Clean, OnItsWay, Evidence, Pcs
<1>7. q.published \in Clean => r.published \in Clean \/ Unsettled(r)
  BY <1>2, <1>3 DEF CallOK, Unsettled, Before, After, Clean, OnItsWay, Evidence, Pcs
<1>8. /\ r.accepted => q.accepted /\ q.gen = r.gen
      /\ q.evidence = "HandlerFinished" =>
           r.evidence = "HandlerFinished" \/ \E i \in 1 .. Len(r.replies) : r.replies[i].code = "Result"
  BY <1>2, <1>3 DEF CallOK, Before, After
<1> QED BY <1>1, <1>2, <1>4, <1>5, <1>6, <1>7, <1>8 DEF Goes, q

LEMMA DrainedOK ==
  ASSUME NEW r \in CallType, CallOK(r), r.ticket = "queued"
  PROVE  LET q == [r EXCEPT !.ticket = "cancelled"]
         IN  q \in CallType /\ CallOK(q) /\ Goes(r, q) /\ (q.again => r.again)
<1> DEFINE q == [r EXCEPT !.ticket = "cancelled"]
<1>1. q \in CallType
  BY DEF CallType, Pcs, Evidence
<1>2. /\ q.registered = r.registered /\ q.owner = r.owner /\ q.inc = r.inc
      /\ q.again = r.again /\ q.invoking = r.invoking /\ q.ambiguous = r.ambiguous
      /\ q.invoke = r.invoke /\ q.gen = r.gen /\ q.closed = r.closed
      /\ q.due = r.due /\ q.accepted = r.accepted /\ q.pc = r.pc
      /\ q.ticket = "cancelled" /\ q.evidence = r.evidence /\ q.published = r.published
      /\ q.replies = r.replies
  BY DEF CallType
<1> HIDE DEF q
<1>3. q.evidence \in Evidence /\ r.evidence \in Evidence /\ r.pc \in Pcs /\ r.replies \in Seq(ReplyType)
  BY <1>1 DEF CallType
<1>4. CallOK(q)
  BY <1>2, <1>3 DEF CallOK, Before, After, Clean, OnItsWay, Evidence, Pcs
<1>5. Drops(r.replies, q.replies)
  BY <1>2, <1>3, DropsSame, DropsAll, DropsTail
<1>6. Unsettled(q) => Unsettled(r)
  BY <1>2, <1>3 DEF CallOK, Unsettled, Before, After, Clean, OnItsWay, Evidence, Pcs
<1>7. q.published \in Clean => r.published \in Clean \/ Unsettled(r)
  BY <1>2, <1>3 DEF CallOK, Unsettled, Before, After, Clean, OnItsWay, Evidence, Pcs
<1>8. /\ r.accepted => q.accepted /\ q.gen = r.gen
      /\ q.evidence = "HandlerFinished" =>
           r.evidence = "HandlerFinished" \/ \E i \in 1 .. Len(r.replies) : r.replies[i].code = "Result"
  BY <1>2, <1>3 DEF CallOK, Before, After
<1> QED BY <1>1, <1>2, <1>4, <1>5, <1>6, <1>7, <1>8 DEF Goes, q

LEMMA BeginsOK ==
  ASSUME NEW r \in CallType, CallOK(r), NEW t \in {"started", "cancelled"}, r.ticket = "queued"
  PROVE  LET q == [r EXCEPT !.ticket = t]
         IN  q \in CallType /\ CallOK(q) /\ Goes(r, q) /\ (q.again => r.again)
<1> DEFINE q == [r EXCEPT !.ticket = t]
<1>1. q \in CallType
  BY DEF CallType, Pcs, Evidence
<1>2. /\ q.registered = r.registered /\ q.owner = r.owner /\ q.inc = r.inc
      /\ q.again = r.again /\ q.invoking = r.invoking /\ q.ambiguous = r.ambiguous
      /\ q.invoke = r.invoke /\ q.gen = r.gen /\ q.closed = r.closed
      /\ q.due = r.due /\ q.accepted = r.accepted /\ q.pc = r.pc
      /\ q.ticket = t /\ q.evidence = r.evidence /\ q.published = r.published
      /\ q.replies = r.replies
  BY DEF CallType
<1> HIDE DEF q
<1>3. q.evidence \in Evidence /\ r.evidence \in Evidence /\ r.pc \in Pcs /\ r.replies \in Seq(ReplyType)
  BY <1>1 DEF CallType
<1>4. CallOK(q)
  BY <1>2, <1>3 DEF CallOK, Before, After, Clean, OnItsWay, Evidence, Pcs
<1>5. Drops(r.replies, q.replies)
  BY <1>2, <1>3, DropsSame, DropsAll, DropsTail
<1>6. Unsettled(q) => Unsettled(r)
  BY <1>2, <1>3 DEF CallOK, Unsettled, Before, After, Clean, OnItsWay, Evidence, Pcs
<1>7. q.published \in Clean => r.published \in Clean \/ Unsettled(r)
  BY <1>2, <1>3 DEF CallOK, Unsettled, Before, After, Clean, OnItsWay, Evidence, Pcs
<1>8. /\ r.accepted => q.accepted /\ q.gen = r.gen
      /\ q.evidence = "HandlerFinished" =>
           r.evidence = "HandlerFinished" \/ \E i \in 1 .. Len(r.replies) : r.replies[i].code = "Result"
  BY <1>2, <1>3 DEF CallOK, Before, After
<1> QED BY <1>1, <1>2, <1>4, <1>5, <1>6, <1>7, <1>8 DEF Goes, q

LEMMA StartOK ==
  ASSUME NEW r \in CallType, CallOK(r), NEW e \in Evidence, r.ticket = "started",
         r.invoking => e = "MayHaveExecuted", ~r.invoking => e = r.evidence
  PROVE  LET q == [r EXCEPT !.ticket = "announced", !.evidence = e]
         IN  q \in CallType /\ CallOK(q) /\ Goes(r, q) /\ (q.again => r.again)
<1> DEFINE q == [r EXCEPT !.ticket = "announced", !.evidence = e]
<1>1. q \in CallType
  BY DEF CallType, Pcs, Evidence
<1>2. /\ q.registered = r.registered /\ q.owner = r.owner /\ q.inc = r.inc
      /\ q.again = r.again /\ q.invoking = r.invoking /\ q.ambiguous = r.ambiguous
      /\ q.invoke = r.invoke /\ q.gen = r.gen /\ q.closed = r.closed
      /\ q.due = r.due /\ q.accepted = r.accepted /\ q.pc = r.pc
      /\ q.ticket = "announced" /\ q.evidence = e /\ q.published = r.published
      /\ q.replies = r.replies
  BY DEF CallType
<1> HIDE DEF q
<1>3. q.evidence \in Evidence /\ r.evidence \in Evidence /\ r.pc \in Pcs /\ r.replies \in Seq(ReplyType)
  BY <1>1 DEF CallType
<1>4. CallOK(q)
  BY <1>2, <1>3 DEF CallOK, Before, After, Clean, OnItsWay, Evidence, Pcs
<1>5. Drops(r.replies, q.replies)
  BY <1>2, <1>3, DropsSame, DropsAll, DropsTail
<1>6. Unsettled(q) => Unsettled(r)
  BY <1>2, <1>3 DEF CallOK, Unsettled, Before, After, Clean, OnItsWay, Evidence, Pcs
<1>7. q.published \in Clean => r.published \in Clean \/ Unsettled(r)
  BY <1>2, <1>3 DEF CallOK, Unsettled, Before, After, Clean, OnItsWay, Evidence, Pcs
<1>8. /\ r.accepted => q.accepted /\ q.gen = r.gen
      /\ q.evidence = "HandlerFinished" =>
           r.evidence = "HandlerFinished" \/ \E i \in 1 .. Len(r.replies) : r.replies[i].code = "Result"
  BY <1>2, <1>3 DEF CallOK, Before, After
<1> QED BY <1>1, <1>2, <1>4, <1>5, <1>6, <1>7, <1>8 DEF Goes, q

LEMMA SentOK ==
  ASSUME NEW r \in CallType, CallOK(r), NEW t \in {"sent", "failed"}, r.ticket = "announced"
  PROVE  LET q == [r EXCEPT !.ticket = t]
         IN  q \in CallType /\ CallOK(q) /\ Goes(r, q) /\ (q.again => r.again)
<1> DEFINE q == [r EXCEPT !.ticket = t]
<1>1. q \in CallType
  BY DEF CallType, Pcs, Evidence
<1>2. /\ q.registered = r.registered /\ q.owner = r.owner /\ q.inc = r.inc
      /\ q.again = r.again /\ q.invoking = r.invoking /\ q.ambiguous = r.ambiguous
      /\ q.invoke = r.invoke /\ q.gen = r.gen /\ q.closed = r.closed
      /\ q.due = r.due /\ q.accepted = r.accepted /\ q.pc = r.pc
      /\ q.ticket = t /\ q.evidence = r.evidence /\ q.published = r.published
      /\ q.replies = r.replies
  BY DEF CallType
<1> HIDE DEF q
<1>3. q.evidence \in Evidence /\ r.evidence \in Evidence /\ r.pc \in Pcs /\ r.replies \in Seq(ReplyType)
  BY <1>1 DEF CallType
<1>4. CallOK(q)
  BY <1>2, <1>3 DEF CallOK, Before, After, Clean, OnItsWay, Evidence, Pcs
<1>5. Drops(r.replies, q.replies)
  BY <1>2, <1>3, DropsSame, DropsAll, DropsTail
<1>6. Unsettled(q) => Unsettled(r)
  BY <1>2, <1>3 DEF CallOK, Unsettled, Before, After, Clean, OnItsWay, Evidence, Pcs
<1>7. q.published \in Clean => r.published \in Clean \/ Unsettled(r)
  BY <1>2, <1>3 DEF CallOK, Unsettled, Before, After, Clean, OnItsWay, Evidence, Pcs
<1>8. /\ r.accepted => q.accepted /\ q.gen = r.gen
      /\ q.evidence = "HandlerFinished" =>
           r.evidence = "HandlerFinished" \/ \E i \in 1 .. Len(r.replies) : r.replies[i].code = "Result"
  BY <1>2, <1>3 DEF CallOK, Before, After
<1> QED BY <1>1, <1>2, <1>4, <1>5, <1>6, <1>7, <1>8 DEF Goes, q

-----------------------------------------------------------------------------
(* The actions of a call.                                                  *)

CallsOK == TypeOK /\ \A c \in Calls : CallOK(call[c])

Moves(c) ==
  \E q \in CallType :
    /\ call' = [call EXCEPT ![c] = q] /\ CallOK(q) /\ Goes(call[c], q)
    /\ q.again => call[c].again \/ c \in Idempotent

\* The call takes a reply for the proof that its only Invoke was refused.
Rejects(c) ==
  \E q \in CallType :
    /\ call' = [call EXCEPT ![c] = q] /\ CallOK(q)
    /\ call[c].pc = "waiting" /\ ~call[c].again /\ ~q.again
    /\ call[c].replies # <<>> /\ Head(call[c].replies).code \in RejectedBeforeExecution
    /\ q.replies = Tail(call[c].replies)
    /\ Unsettled(q) => Head(call[c].replies).code = "Overloaded"
    /\ q.evidence # "HandlerFinished" /\ q.gen = call[c].gen /\ (call[c].accepted => q.accepted)
    /\ q.owner = call[c].owner

LEMMA CallTyped ==
  ASSUME CallsOK, NEW c \in Calls
  PROVE  call[c] \in CallType /\ CallOK(call[c])
BY DEF CallsOK, TypeOK

LEMMA OwnerTyped ==
  ASSUME CallsOK, NEW c \in Calls, call[c].owner # 0
  PROVE  call[c].owner \in Attachments /\ LinkOf(c) \in LinkType /\ LinkOf(c).gen \in 0 .. MaxConnections
<1>1. call[c].owner \in 0 .. MaxAttachments
  BY CallTyped DEF CallType
<1>2. call[c].owner \in Attachments
  BY <1>1, ClientAssumption DEF Attachments
<1>3. LinkOf(c) \in LinkType
  BY <1>2 DEF CallsOK, TypeOK, LinkOf
<1> QED BY <1>2, <1>3 DEF LinkType

LEMMA FailsMoves ==
  ASSUME CallsOK, NEW c \in Calls, call[c].pc \notin {"final", "ended"}, NEW kind \in Kinds,
         NEW x, Shorter(call[c], x), Edit(c, Failed(x, kind))
  PROVE  Moves(c)
<1>1. x \in CallType
  BY DEF Shorter
<1>2. Leaves(x, Failed(x, kind))
  BY <1>1, FailedLeaves
<1> QED BY <1>2, CallTyped, LeavesOK DEF Moves, Edit

LEMMA FailMoves ==
  ASSUME CallsOK, NEW c \in Calls, call[c].pc \notin {"final", "ended"}, NEW kind \in Kinds,
         Edit(c, Failed(call[c], kind))
  PROVE  Moves(c)
BY CallTyped, ShorterSame, FailsMoves

LEMMA RenewMoves ==
  ASSUME CallsOK, NEW c \in Calls, call[c].pc \in {"offer", "sending", "waiting"},
         NEW x, Renews(call[c], x), Edit(c, NextAttempt(x))
  PROVE  Moves(c)
<1>1. x \in CallType
  BY DEF Renews
<1>2. Retries(x, NextAttempt(x))
  BY <1>1, AttemptRetries
<1> QED BY <1>2, CallTyped, RetriesOK DEF Moves, Edit

LEMMA BeginMoves == ASSUME CallsOK, NEW c \in Calls, Begin(c) PROVE Moves(c)
<1>1. call[c].pc = "idle" /\ call[c].evidence = "NotSent"
  BY CallTyped DEF Begin, CallOK
<1> QED BY <1>1, CallTyped, BeginOK, RefusedOK DEF Begin, Edit, Moves

LEMMA SelectMoves == ASSUME CallsOK, NEW c \in Calls, Select(c) PROVE Moves(c)
<1>1. CASE attachment # 0 /\ Edit(c, [call[c] EXCEPT !.pc = "encode", !.owner = attachment, !.inc = att[attachment].ready.inc])
  <2>1. attachment \in Attachments
    BY <1>1, ClientAssumption DEF CallsOK, TypeOK, Attachments
  <2>2. att[attachment].ready.inc \in Nat
    BY <2>1 DEF CallsOK, TypeOK, LinkType
  <2>3. call[c] \in CallType /\ CallOK(call[c]) /\ call[c].pc = "select"
    BY CallTyped DEF Select
  <2> DEFINE m == att[attachment].ready.inc
             q == [call[c] EXCEPT !.pc = "encode", !.owner = attachment, !.inc = m]
  <2> HIDE DEF m
  <2>4. q \in CallType /\ CallOK(q) /\ Goes(call[c], q) /\ (q.again => call[c].again)
    BY <2>1, <2>2, <2>3, SelectOK DEF m
  <2>5. call' = [call EXCEPT ![c] = q]
    BY <1>1 DEF Edit, m
  <2> QED BY <2>4, <2>5 DEF Moves
<1>2. CASE Edit(c, Failed(call[c], "NotConnected"))
  BY <1>2, FailMoves DEF Select, Kinds
<1> QED BY <1>1, <1>2 DEF Select

LEMMA RegisterMoves == ASSUME CallsOK, NEW c \in Calls, Register(c) PROVE Moves(c)
<1>1. CASE Edit(c, [call[c] EXCEPT !.pc = "gate", !.registered = TRUE])
  BY <1>1, CallTyped, RegisterOK DEF Register, Moves, Edit
<1>2. CASE Edit(c, Failed(call[c], "NotConnected"))
  BY <1>2, FailMoves DEF Register, Kinds
<1> QED BY <1>1, <1>2 DEF Register

LEMMA GateMoves == ASSUME CallsOK, NEW c \in Calls, waitForSameHost(c) PROVE Moves(c)
<1>1. CASE Edit(c, [call[c] EXCEPT !.pc = "offer"])
  BY <1>1, CallTyped, GateOK DEF waitForSameHost, Moves, Edit
<1>2. CASE \E kind \in {"NotConnected", "UnknownOutcome", "HostRestarted", "Unauthorized"} : Edit(c, Failed(call[c], kind))
  BY <1>2, FailMoves DEF waitForSameHost, Kinds, MayHaveExecuted
<1> QED BY <1>1, <1>2 DEF waitForSameHost

LEMMA OfferMoves == ASSUME CallsOK, NEW c \in Calls, OfferCall(c) PROVE Moves(c)
<1> DEFINE r == call[c]
           x == [r EXCEPT !.invoking = r.invoke, !.ambiguous = r.evidence = "MayHaveExecuted"]
           g == LinkOf(c).gen
<1>1. r \in CallType /\ CallOK(r) /\ r.pc = "offer"
  BY CallTyped DEF OfferCall
<1>2. g \in 0 .. MaxConnections /\ r.owner # 0
  BY <1>1, OwnerTyped DEF CallOK
<1>3. x \in CallType
  BY <1>1 DEF CallType
<1>4. /\ x.registered = r.registered /\ x.owner = r.owner /\ x.inc = r.inc
      /\ x.again = r.again /\ x.invoking = r.invoke /\ x.ambiguous = (r.evidence = "MayHaveExecuted")
      /\ x.invoke = r.invoke /\ x.gen = r.gen /\ x.accepted = r.accepted
      /\ x.pc = r.pc /\ x.ticket = r.ticket /\ x.evidence = r.evidence /\ x.published = r.published
      /\ x.replies = r.replies
  BY <1>1 DEF CallType
<1>5. \/ Edit(c, [x EXCEPT !.pc = "sending", !.ticket = "queued", !.gen = g])
      \/ Edit(c, Unsent([x EXCEPT !.ticket = "none"]))
  BY DEF OfferCall
<1> HIDE DEF r, x, g
<1>6. r.replies \in Seq(ReplyType) /\ r.evidence \in Evidence
  BY <1>1 DEF CallType
<1>7. CASE Edit(c, [x EXCEPT !.pc = "sending", !.ticket = "queued", !.gen = g])
  <2> DEFINE q == [x EXCEPT !.pc = "sending", !.ticket = "queued", !.gen = g]
  <2>1. q \in CallType
    BY <1>2, <1>3 DEF CallType, Pcs
  <2>2. /\ q.owner = x.owner /\ q.again = x.again /\ q.invoking = x.invoking /\ q.ambiguous = x.ambiguous
        /\ q.invoke = x.invoke /\ q.accepted = x.accepted /\ q.pc = "sending" /\ q.ticket = "queued"
        /\ q.evidence = x.evidence /\ q.published = x.published /\ q.replies = x.replies
    BY <1>3 DEF CallType
  <2> HIDE DEF q
  <2>3. CallOK(q)
    BY <1>1, <1>2, <1>4, <1>6, <2>2 DEF CallOK, Before, After, Clean, OnItsWay, Evidence
  <2>4. ~q.again => (Unsettled(q) => Unsettled(r))
    BY <1>1, <1>4, <1>6, <2>2 DEF CallOK, Unsettled, Before, After, Clean, OnItsWay, Evidence
  <2>5. Goes(r, q) /\ (q.again => r.again)
    <3>1. Drops(r.replies, q.replies)
      BY <1>4, <1>6, <2>2, DropsSame
    <3>2. ~r.accepted /\ r.evidence # "HandlerFinished" /\ r.published = "none"
      BY <1>1 DEF CallOK, Before
    <3> QED BY <1>4, <2>2, <2>4, <3>1, <3>2 DEF Goes, Clean
  <2> QED BY <1>7, <2>1, <2>3, <2>5 DEF Moves, Edit, q, r
<1>8. CASE Edit(c, Unsent([x EXCEPT !.ticket = "none"]))
  <2> DEFINE y == [x EXCEPT !.ticket = "none"]
             z == [y EXCEPT !.invoke = y.evidence # "MayHaveExecuted"]
  <2>1. y \in CallType
    BY <1>3 DEF CallType
  <2>2. /\ y.owner = x.owner /\ y.again = x.again /\ y.gen = x.gen
        /\ y.accepted = x.accepted /\ y.ticket = "none"
        /\ y.evidence = x.evidence /\ y.published = x.published /\ y.replies = x.replies
    BY <1>3 DEF CallType
  <2>3. Edit(c, NextAttempt(z))
    BY <1>8 DEF Unsent
  <2> HIDE DEF y
  <2>4. z \in CallType
    BY <2>1 DEF CallType
  <2>5. /\ z.owner = y.owner /\ z.again = y.again /\ z.gen = y.gen
        /\ z.accepted = y.accepted /\ z.ticket = "none" /\ z.invoke = (y.evidence # "MayHaveExecuted")
        /\ z.evidence = y.evidence /\ z.published = y.published /\ z.replies = y.replies
    BY <2>1, <2>2 DEF CallType
  <2> HIDE DEF z
  <2>6. Renews(r, z)
    <3>1. Drops(r.replies, z.replies)
      BY <1>4, <1>6, <2>2, <2>5, DropsSame
    <3>2. r.evidence # "HandlerFinished"
      BY <1>1 DEF CallOK, Before
    <3> QED BY <1>4, <1>6, <2>2, <2>4, <2>5, <3>1, <3>2 DEF Renews, Clean, Evidence, OnItsWay
  <2> QED BY <1>1, <2>3, <2>6, RenewMoves DEF r
<1> QED BY <1>5, <1>7, <1>8

LEMMA SendCompletedMoves == ASSUME CallsOK, NEW c \in Calls, SendCompleted(c) PROVE Moves(c)
<1> DEFINE r == call[c]
<1>1. r \in CallType /\ CallOK(r) /\ r.pc = "sending" /\ r.ticket \in {"sent", "failed", "cancelled"}
  BY CallTyped DEF SendCompleted
<1>2. CASE r.ticket = "sent"
  BY <1>1, <1>2, WaitingOK DEF SendCompleted, Moves, Edit
<1>3. CASE r.ticket # "sent"
  <2> DEFINE z == [r EXCEPT !.invoke = r.evidence # "MayHaveExecuted"]
  <2>1. Edit(c, NextAttempt(z))
    BY <1>3 DEF SendCompleted, Unsent
  <2> HIDE DEF r
  <2>2. z \in CallType
    BY <1>1 DEF CallType
  <2>3. /\ z.owner = r.owner /\ z.again = r.again /\ z.gen = r.gen
        /\ z.accepted = r.accepted /\ z.ticket = r.ticket /\ z.invoke = (r.evidence # "MayHaveExecuted")
        /\ z.evidence = r.evidence /\ z.published = r.published /\ z.replies = r.replies
    BY <1>1 DEF CallType
  <2> HIDE DEF z
  <2>4. Renews(r, z)
    <3>1. r.replies \in Seq(ReplyType) /\ r.evidence \in Evidence
      BY <1>1 DEF CallType
    <3>2. Drops(r.replies, z.replies)
      BY <2>3, <3>1, DropsSame
    <3>3. r.evidence # "HandlerFinished"
      BY <1>1 DEF CallOK
    <3> QED BY <1>1, <2>2, <2>3, <3>1, <3>2, <3>3 DEF Renews, Clean, Evidence, OnItsWay
  <2> QED BY <1>1, <2>1, <2>4, RenewMoves DEF r
<1> QED BY <1>2, <1>3

\* A Failure reply settles the call, or it is asked about or invoked again.
LEMMA FailureMoves ==
  ASSUME CallsOK, NEW c \in Calls, call[c].pc = "waiting", call[c].replies # <<>>,
         NEW code \in Codes, code = Head(call[c].replies).code, code \notin {"Running", "Result"},
         Edit(c, FailureReply(c, [call[c] EXCEPT !.replies = Tail(@)], code))
  PROVE  Moves(c) \/ Rejects(c)
<1> DEFINE r == call[c]
           x == [r EXCEPT !.replies = Tail(@)]
<1>1. r \in CallType /\ CallOK(r)
  BY CallTyped
<1>2. Shorter(r, x) /\ x.replies = Tail(r.replies)
  BY <1>1, ShorterTail
<1>3. Edit(c, FailureReply(c, x, code))
  OBVIOUS
<1> HIDE DEF x, r
<1>4. /\ x \in CallType /\ Drops(r.replies, x.replies)
      /\ x.pc = "waiting" /\ x.ticket = "sent" /\ x.evidence = "MayHaveExecuted" /\ x.published = "none"
      /\ x.again = r.again /\ x.invoking = r.invoking /\ x.ambiguous = r.ambiguous
      /\ x.gen = r.gen /\ x.accepted = r.accepted /\ x.owner = r.owner
      /\ r.evidence = "MayHaveExecuted" /\ r.published = "none" /\ ~r.accepted /\ r.owner # 0
      /\ (~r.again => (r.invoking <=> ~r.ambiguous)) /\ (r.again => r.ambiguous)
  BY <1>1, <1>2 DEF Shorter, CallOK, Before, r
<1>5. CASE r.invoking /\ ~r.ambiguous /\ code \in RejectedBeforeExecution
  <2> DEFINE y == [x EXCEPT !.evidence = "RejectedBeforeExecution", !.invoke = ~x.ambiguous]
             w == [x EXCEPT !.evidence = "RejectedBeforeExecution"]
  <2>1. \/ code = "Overloaded" /\ Edit(c, NextAttempt(y))
        \/ code # "Overloaded" /\ Edit(c, Failed(w, code))
    BY <1>3, <1>4, <1>5 DEF FailureReply, RejectedBeforeExecution
  <2>2. y \in CallType /\ w \in CallType
    BY <1>4 DEF CallType, Evidence
  <2>3. /\ y.ticket = "sent" /\ y.evidence = "RejectedBeforeExecution" /\ y.published = "none" /\ y.invoke = ~x.ambiguous
        /\ y.again = x.again /\ y.gen = x.gen /\ y.accepted = x.accepted /\ y.owner = x.owner /\ y.replies = x.replies
    BY <1>4 DEF CallType
  <2>4. /\ w.ticket = "sent" /\ w.evidence = "RejectedBeforeExecution" /\ w.published = "none" /\ w.pc = "waiting"
        /\ w.again = x.again /\ w.gen = x.gen /\ w.accepted = x.accepted /\ w.owner = x.owner /\ w.replies = x.replies
    BY <1>4 DEF CallType
  <2> HIDE DEF y, w
  <2>5. ~r.again
    BY <1>4, <1>5
  <2>6. CASE code = "Overloaded" /\ Edit(c, NextAttempt(y))
    <3> DEFINE q == NextAttempt(y)
    <3>1. Retries(y, q)
      BY <2>2, AttemptRetries
    <3> HIDE DEF q
    <3>2. /\ q \in CallType /\ q.again = y.again /\ q.invoke = y.invoke /\ q.gen = y.gen
          /\ q.accepted = y.accepted /\ q.owner = y.owner /\ q.replies = y.replies /\ q.ticket = "sent"
          /\ \/ q.pc = "final" /\ q.published = q.evidence
             \/ q.pc = "gate" /\ q.published = y.published /\ q.evidence = y.evidence
          /\ q.evidence \in {y.evidence, "MayHaveExecuted"}
      BY <2>3, <3>1 DEF Retries, Leaves, Keeps
    <3>3. CallOK(q)
      BY <1>4, <1>5, <2>3, <2>5, <3>2 DEF CallOK, Before, After, Clean, OnItsWay
    <3>4. Unsettled(q) => Head(r.replies).code = "Overloaded"
      BY <2>6 DEF r
    <3>5. q.evidence # "HandlerFinished" /\ q.gen = r.gen /\ (r.accepted => q.accepted) /\ q.owner = r.owner
      BY <1>4, <2>3, <3>2
    <3>6. ~q.again /\ q.replies = Tail(r.replies)
      BY <1>2, <1>4, <2>3, <2>5, <3>2
    <3>7. Head(r.replies).code \in RejectedBeforeExecution /\ r.replies # <<>> /\ r.pc = "waiting"
      BY <1>5 DEF r
    <3> QED BY <2>5, <2>6, <3>2, <3>3, <3>4, <3>5, <3>6, <3>7 DEF Rejects, Edit, r, q
  <2>7. CASE code # "Overloaded" /\ Edit(c, Failed(w, code))
    <3> DEFINE q == Failed(w, code)
    <3>0. code \in Kinds
      BY <1>5 DEF Kinds
    <3>1. Leaves(w, q)
      BY <2>2, <3>0, FailedLeaves
    <3> HIDE DEF q
    <3>2. /\ q \in CallType /\ q.again = w.again /\ q.gen = w.gen
          /\ q.accepted = w.accepted /\ q.owner = w.owner /\ q.replies = w.replies /\ q.ticket = "sent"
          /\ q.pc = "final" /\ q.published = q.evidence
          /\ q.evidence \in {w.evidence, "MayHaveExecuted"}
      BY <2>4, <3>1 DEF Leaves, Keeps
    <3>3. CallOK(q)
      BY <1>4, <1>5, <2>4, <2>5, <3>2 DEF CallOK, Before, After, Clean, OnItsWay
    <3>4. ~Unsettled(q)
      BY <3>2 DEF Unsettled, Before, OnItsWay
    <3>5. /\ ~q.again /\ q.evidence # "HandlerFinished" /\ q.gen = r.gen /\ q.owner = r.owner
          /\ q.replies = x.replies /\ q.accepted = r.accepted
      BY <1>4, <2>4, <2>5, <3>2
    <3>6. ~q.again /\ q.replies = Tail(r.replies) /\ (r.accepted => q.accepted)
      BY <1>2, <3>5
    <3>7. Head(r.replies).code \in RejectedBeforeExecution /\ r.replies # <<>> /\ r.pc = "waiting"
      BY <1>5 DEF r
    <3> QED BY <2>5, <2>7, <3>2, <3>3, <3>4, <3>5, <3>6, <3>7 DEF Rejects, Edit, r, q
  <2> QED BY <2>1, <2>6, <2>7
<1>6. CASE code = "Overloaded" /\ r.invoking /\ r.ambiguous
  <2> DEFINE y == [x EXCEPT !.evidence = x.evidence, !.invoke = ~x.ambiguous]
  <2>1. Edit(c, NextAttempt(y))
    BY <1>3, <1>4, <1>6 DEF FailureReply
  <2>2. y \in CallType
    BY <1>4 DEF CallType
  <2>3. /\ y.ticket = "sent" /\ y.evidence = x.evidence /\ y.published = "none" /\ y.invoke = ~x.ambiguous
        /\ y.again = x.again /\ y.gen = x.gen /\ y.accepted = x.accepted /\ y.owner = x.owner /\ y.replies = x.replies
    BY <1>4 DEF CallType
  <2> HIDE DEF y
  <2>4. Renews(r, y)
    BY <1>4, <1>6, <2>2, <2>3 DEF Renews, OnItsWay, Clean
  <2> QED BY <2>1, <2>4, RenewMoves DEF r
<1>7. CASE code = "Overloaded" /\ ~r.invoking
  <2>1. Edit(c, Failed(x, "UnknownOutcome")) /\ "UnknownOutcome" \in Kinds
    BY <1>3, <1>4, <1>7 DEF FailureReply, Kinds, MayHaveExecuted
  <2> QED BY <1>2, <2>1, FailsMoves DEF r
<1>8. CASE code = "UnknownOutcome" /\ c \in Idempotent
  <2> DEFINE y == [x EXCEPT !.invoke = TRUE, !.again = TRUE]
             q == NextAttempt(y)
  <2>1. Edit(c, q)
    BY <1>3, <1>8 DEF FailureReply
  <2>2. y \in CallType
    BY <1>4 DEF CallType
  <2>3. /\ y.ticket = "sent" /\ y.evidence = "MayHaveExecuted" /\ y.published = "none"
        /\ y.again = TRUE /\ y.gen = x.gen /\ y.accepted = x.accepted /\ y.owner = x.owner /\ y.replies = x.replies
    BY <1>4 DEF CallType
  <2> HIDE DEF y
  <2>4. Retries(y, q)
    BY <2>2, AttemptRetries
  <2> HIDE DEF q
  <2>5. /\ q \in CallType /\ q.again /\ q.gen = r.gen
        /\ ~q.accepted /\ q.owner = r.owner /\ q.replies = x.replies /\ q.ticket = "sent"
        /\ \/ q.pc = "final" /\ q.published = q.evidence
           \/ q.pc = "gate" /\ q.published = "none"
        /\ q.evidence = "MayHaveExecuted"
    BY <1>4, <2>3, <2>4 DEF Retries, Leaves, Keeps, Clean
  <2>6. CallOK(q)
    BY <1>4, <2>5 DEF CallOK, Before, After, Clean, OnItsWay
  <2>7. Goes(r, q)
    BY <1>4, <2>5 DEF Goes
  <2> QED BY <1>8, <2>1, <2>5, <2>6, <2>7 DEF Moves, Edit, r
<1>9. CASE /\ code # "Overloaded" /\ ~(code = "UnknownOutcome" /\ c \in Idempotent)
           /\ ~(r.invoking /\ ~r.ambiguous /\ code \in RejectedBeforeExecution)
  <2> DEFINE w == [x EXCEPT !.evidence = x.evidence]
  <2>1. Edit(c, Failed(w, code)) /\ code \in Kinds
    BY <1>3, <1>4, <1>9 DEF FailureReply, Kinds, Codes
  <2>2. w \in CallType
    BY <1>4 DEF CallType
  <2>3. /\ w.pc = x.pc /\ w.ticket = x.ticket /\ w.evidence = x.evidence /\ w.published = x.published
        /\ w.again = x.again /\ w.invoking = x.invoking /\ w.ambiguous = x.ambiguous /\ w.invoke = x.invoke
        /\ w.gen = x.gen /\ w.accepted = x.accepted /\ w.owner = x.owner /\ w.replies = x.replies
    BY <1>4 DEF CallType
  <2> HIDE DEF w
  <2>4. Shorter(r, w)
    BY <1>2, <2>2, <2>3 DEF Shorter
  <2> QED BY <2>1, <2>4, FailsMoves DEF r
<1> QED BY <1>5, <1>6, <1>7, <1>8, <1>9 DEF RejectedBeforeExecution

LEMMA HeadTyped ==
  ASSUME CallsOK, NEW c \in Calls, call[c].replies # <<>>
  PROVE  Head(call[c].replies).code \in Codes /\ Head(call[c].replies).inc \in Nat
<1>1. call[c].replies \in Seq(ReplyType)
  BY CallTyped DEF CallType
<1>2. Head(call[c].replies) \in ReplyType
  BY <1>1, TailAt
<1> QED BY <1>2 DEF ReplyType

LEMMA ReceiveMoves == ASSUME CallsOK, NEW c \in Calls, Receive(c) PROVE Moves(c) \/ Rejects(c)
<1> DEFINE r == call[c]
           rest == [r EXCEPT !.replies = Tail(@)]
<1>1. r \in CallType /\ CallOK(r) /\ r.pc = "waiting"
  BY CallTyped DEF Receive
<1>2. CASE r.replies = <<>> /\ Edit(c, Failed(r, "UnknownOutcome"))
  BY <1>1, <1>2, FailMoves DEF Kinds, MayHaveExecuted
<1>3. CASE r.replies # <<>> /\ \E kind \in {"HostRestarted", "DeadlineExceeded"} : Edit(c, Failed(rest, kind))
  <2>1. Shorter(r, rest)
    BY <1>1, <1>3, ShorterTail
  <2> QED BY <1>1, <1>3, <2>1, FailsMoves DEF Kinds, MayHaveExecuted
<1>4. CASE r.replies # <<>> /\ Edit(c, rest)
  BY <1>1, <1>4, ShortOK DEF Moves, Edit
<1>5. CASE r.replies # <<>> /\ Head(r.replies).code \notin {"Running", "Result"} /\ Edit(c, FailureReply(c, rest, Head(r.replies).code))
  BY <1>1, <1>5, HeadTyped, FailureMoves
<1> QED BY <1>2, <1>3, <1>4, <1>5 DEF Receive

LEMMA ResultMoves == ASSUME CallsOK, NEW c \in Calls, ResultReply(c) PROVE Moves(c)
<1> DEFINE r == call[c]
           x == [r EXCEPT !.replies = Tail(@), !.evidence = "HandlerFinished"]
           g == LinkOf(c).gen
           p == IF c \in Accepting THEN "accepting" ELSE "returning"
<1>1. /\ r \in CallType /\ CallOK(r) /\ r.pc = "waiting" /\ r.replies # <<>> /\ Head(r.replies).code = "Result"
      /\ \/ Edit(c, [x EXCEPT !.pc = p, !.gen = g])
         \/ Edit(c, Failed(x, "InvalidPayload"))
  BY CallTyped DEF ResultReply
<1>2. g \in 0 .. MaxConnections /\ p \in {"accepting", "returning"}
  BY <1>1, OwnerTyped DEF CallOK
<1> HIDE DEF g, p
<1>3. CASE Edit(c, [x EXCEPT !.pc = p, !.gen = g])
  <2> DEFINE q == [x EXCEPT !.pc = p, !.gen = g]
  <2>1. q \in CallType /\ CallOK(q) /\ Goes(r, q) /\ (q.again => r.again)
    BY <1>1, <1>2, ResultOK
  <2> QED BY <1>3, <2>1 DEF Moves, Edit
<1>4. CASE Edit(c, Failed(x, "InvalidPayload"))
  <2> HIDE DEF r
  <2>1. /\ Tail(r.replies) \in Seq(ReplyType) /\ Head(r.replies) = r.replies[1] /\ 1 \in 1 .. Len(r.replies)
        /\ r.replies \in Seq(ReplyType)
    BY <1>1, TailAt DEF CallType
  <2>2. x \in CallType
    BY <1>1, <2>1 DEF CallType, Evidence
  <2>3. /\ x.ticket = r.ticket /\ x.evidence = "HandlerFinished" /\ x.again = r.again
        /\ x.gen = r.gen /\ x.accepted = r.accepted /\ x.owner = r.owner /\ x.replies = Tail(r.replies)
    BY <1>1 DEF CallType
  <2> DEFINE q == Failed(x, "InvalidPayload")
  <2> HIDE DEF x
  <2>4. Leaves(x, q)
    BY <2>2, FailedLeaves DEF Kinds
  <2> HIDE DEF q
  <2>5. /\ q \in CallType /\ q.again = r.again /\ q.pc = "final" /\ q.published = "HandlerFinished"
        /\ q.evidence = "HandlerFinished" /\ q.gen = r.gen /\ q.accepted = r.accepted /\ q.owner = r.owner
        /\ q.replies = Tail(r.replies) /\ q.ticket = "sent"
    BY <1>1, <2>3, <2>4 DEF Leaves, Keeps, Clean, CallOK
  <2>6. CallOK(q)
    BY <1>1, <2>5 DEF CallOK, Before, After, Clean, OnItsWay
  <2>7. Drops(r.replies, q.replies)
    BY <1>1, <2>1, <2>5, DropsTail
  <2>8. ~Unsettled(q) /\ q.published \notin Clean
    BY <2>5 DEF Unsettled, Before, OnItsWay, Clean
  <2>9. Goes(r, q)
    BY <1>1, <2>1, <2>5, <2>7, <2>8 DEF Goes
  <2> QED BY <1>4, <2>5, <2>6, <2>9 DEF Moves, Edit, r, q
<1> QED BY <1>1, <1>3, <1>4

LEMMA ReceiptMoves == ASSUME CallsOK, NEW c \in Calls, sendAcceptedReceipt(c) PROVE Moves(c)
<1>1. CASE call[c].pc = "accepted" /\ Edit(c, Failed(call[c], "DeadlineExceeded"))
  BY <1>1, FailMoves DEF Kinds
<1>2. CASE call[c].pc = "accepted" /\ Edit(c, [call[c] EXCEPT !.pc = "receipt"])
  BY <1>2, CallTyped, ReceiptOK DEF Moves, Edit
<1>3. CASE call[c].pc \in {"accepted", "receipt"} /\ Edit(c, [call[c] EXCEPT !.pc = "returning"])
  BY <1>3, CallTyped, ReturningOK DEF Moves, Edit
<1> QED BY <1>1, <1>2, <1>3 DEF sendAcceptedReceipt

LEMMA ReturnMoves == ASSUME CallsOK, NEW c \in Calls, Return(c) PROVE Moves(c)
<1> DEFINE r == call[c]
           x == retireSend(r)
           q == [x EXCEPT !.pc = "final", !.outcome = "success", !.published = "HandlerFinished"]
<1>1. r \in CallType /\ CallOK(r) /\ r.pc = "returning" /\ Edit(c, q)
  BY CallTyped DEF Return
<1> HIDE DEF r
<1>2. /\ x \in CallType /\ Keeps(r, x) /\ x.ticket = r.ticket /\ x.evidence = r.evidence
  BY <1>1, RetireFields DEF CallOK, After, OnItsWay
<1> HIDE DEF x
<1>3. q \in CallType
  <2>1. "final" \in Pcs /\ "HandlerFinished" \in Evidence /\ "success" \in Kinds
    BY DEF Pcs, Evidence, Kinds
  <2> QED BY <1>2, <2>1 DEF CallType
<1>4. /\ q.pc = "final" /\ q.published = "HandlerFinished" /\ q.evidence = x.evidence /\ q.ticket = x.ticket
      /\ q.again = x.again /\ q.owner = x.owner /\ q.gen = x.gen /\ q.accepted = x.accepted /\ q.replies = x.replies
      /\ q.invoking = x.invoking
  BY <1>2 DEF CallType
<1> HIDE DEF q
<1>5. /\ q.again = r.again /\ q.owner = r.owner /\ q.gen = r.gen /\ q.accepted = r.accepted /\ q.replies = r.replies
      /\ r.evidence = "HandlerFinished" /\ r.ticket \notin OnItsWay
  BY <1>1, <1>2, <1>4 DEF Keeps, CallOK, After
<1>6. CallOK(q)
  BY <1>1, <1>2, <1>4, <1>5 DEF CallOK, Before, After, Clean, OnItsWay
<1>7. r.replies \in Seq(ReplyType)
  BY <1>1 DEF CallType
<1>8. Goes(r, q)
  BY <1>2, <1>4, <1>5, <1>7, DropsSame DEF Goes, Unsettled, Before, Clean
<1> QED BY <1>1, <1>3, <1>5, <1>6, <1>8 DEF Moves, Edit, r

LEMMA FinallyMoves == ASSUME CallsOK, NEW c \in Calls, Finally(c) PROVE Moves(c)
BY CallTyped, EndedOK DEF Finally, Edit, Moves

LEMMA TimeoutMoves == ASSUME CallsOK, NEW c \in Calls, WaitTimesOut(c) PROVE Moves(c)
<1> DEFINE r == call[c]
<1>1. r \in CallType /\ CallOK(r) /\ r.pc = "waiting" /\ r.replies \in Seq(ReplyType)
  BY CallTyped DEF WaitTimesOut, CallType
<1>2. PICK s : /\ s = r.replies \/ (r.replies # <<>> /\ s = Tail(r.replies))
               /\ Edit(c, NextAttempt([r EXCEPT !.replies = s, !.invoke = FALSE]))
  BY DEF WaitTimesOut
<1>3. s \in Seq(ReplyType) /\ Drops(r.replies, s)
  <2>1. CASE s = r.replies
    BY <1>1, <2>1, DropsSame
  <2>2. CASE r.replies # <<>> /\ s = Tail(r.replies)
    BY <1>1, <2>2, DropsTail, TailAt
  <2> QED BY <1>2, <2>1, <2>2
<1> DEFINE x == [r EXCEPT !.replies = s, !.invoke = FALSE]
<1>4. Edit(c, NextAttempt(x))
  BY <1>2
<1> HIDE DEF r
<1>5. x \in CallType
  BY <1>1, <1>3 DEF CallType
<1>6. /\ x.ticket = r.ticket /\ x.evidence = r.evidence /\ x.published = r.published /\ x.again = r.again
      /\ x.gen = r.gen /\ x.accepted = r.accepted /\ x.owner = r.owner /\ x.replies = s /\ x.invoke = FALSE
  BY <1>1 DEF CallType
<1> HIDE DEF x
<1>7. Renews(r, x)
  BY <1>1, <1>3, <1>5, <1>6 DEF Renews, CallOK, OnItsWay, Clean
<1> QED BY <1>1, <1>4, <1>7, RenewMoves DEF r

LEMMA AcceptMoves == ASSUME CallsOK, NEW c \in Calls, Accept(c) PROVE Moves(c)
<1>1. CASE Edit(c, [call[c] EXCEPT !.pc = "accepted", !.accepted = TRUE])
  BY <1>1, CallTyped, AcceptOK DEF Accept, Moves, Edit
<1>2. CASE Edit(c, Failed(call[c], "acceptance"))
  BY <1>2, FailMoves DEF Accept, Kinds
<1> QED BY <1>1, <1>2 DEF Accept

LEMMA DeadlineMoves == ASSUME CallsOK, NEW c \in Calls, Deadline(c) PROVE Moves(c)
<1>1. call[c].pc \in Pcs
  BY CallTyped DEF CallType
<1> QED BY <1>1, CallTyped, DueOK DEF Deadline, Edit, Moves

LEMMA CancelledMoves == ASSUME CallsOK, NEW c \in Calls, Cancelled(c) PROVE Moves(c)
<1>1. \E kind \in {"DeadlineExceeded", "cancelled"} : Edit(c, Failed(call[c], kind))
  BY DEF Cancelled
<1> QED BY <1>1, FailMoves DEF Cancelled, Kinds

LEMMA BeginsMoves == ASSUME CallsOK, NEW c \in Calls, TicketBegins(c) PROVE Moves(c)
<1>1. \E t \in {"started", "cancelled"} : Edit(c, [call[c] EXCEPT !.ticket = t])
  BY DEF TicketBegins
<1>2. PICK t \in {"started", "cancelled"} : Edit(c, [call[c] EXCEPT !.ticket = t])
  BY <1>1
<1>3. call[c].ticket = "queued"
  BY DEF TicketBegins
<1> DEFINE q == [call[c] EXCEPT !.ticket = t]
<1>4. q \in CallType /\ CallOK(q) /\ Goes(call[c], q) /\ (q.again => call[c].again)
  BY <1>3, CallTyped, BeginsOK
<1> QED BY <1>2, <1>4 DEF Edit, Moves

LEMMA StartMoves == ASSUME CallsOK, NEW c \in Calls, onStart(c) PROVE Moves(c)
<1> DEFINE r == call[c]
           e == IF r.invoking THEN "MayHaveExecuted" ELSE r.evidence
           q == [r EXCEPT !.ticket = "announced", !.evidence = e]
<1>1. r \in CallType /\ CallOK(r) /\ r.ticket = "started" /\ Edit(c, q)
  BY CallTyped DEF onStart
<1>2. e \in Evidence /\ (r.invoking => e = "MayHaveExecuted") /\ (~r.invoking => e = r.evidence)
  BY <1>1 DEF CallType, Evidence
<1> HIDE DEF e
<1>3. q \in CallType /\ CallOK(q) /\ Goes(r, q) /\ (q.again => r.again)
  BY <1>1, <1>2, StartOK
<1> QED BY <1>1, <1>3 DEF Edit, Moves

\* The writer may have put the message of the call on its connection.
LEMMA SentMoves ==
  ASSUME CallsOK, NEW c \in Calls, TicketEnds(c)
  PROVE  /\ Moves(c) /\ call[c].ticket = "announced"
         /\ \E q \in CallType : /\ call' = [call EXCEPT ![c] = q] /\ q.ticket \in {"sent", "failed"}
                                /\ q.pc = call[c].pc /\ q.evidence = call[c].evidence /\ q.again = call[c].again
                                /\ q.published = call[c].published /\ q.invoking = call[c].invoking
<1>1. PICK t \in {"sent", "failed"} : Edit(c, [call[c] EXCEPT !.ticket = t])
  BY DEF TicketEnds
<1>2. call[c].ticket = "announced"
  BY DEF TicketEnds
<1> DEFINE q == [call[c] EXCEPT !.ticket = t]
<1>3. q \in CallType /\ CallOK(q) /\ Goes(call[c], q) /\ (q.again => call[c].again)
  BY <1>2, CallTyped, SentOK
<1>4. /\ q.ticket = t /\ q.pc = call[c].pc /\ q.evidence = call[c].evidence /\ q.again = call[c].again
      /\ q.published = call[c].published /\ q.invoking = call[c].invoking
  BY CallTyped DEF CallType
<1> QED BY <1>1, <1>2, <1>3, <1>4 DEF Edit, Moves

-----------------------------------------------------------------------------
(* All calls in one step.                                                  *)

AllGo ==
  /\ call' \in [Calls -> CallType]
  /\ \A d \in Calls : /\ CallOK(call'[d]) /\ Goes(call[d], call'[d])
                      /\ call'[d].again => call[d].again \/ d \in Idempotent

LEMMA GoesSame == ASSUME NEW r \in CallType PROVE Goes(r, r)
<1>1. r.replies \in Seq(ReplyType)
  BY DEF CallType
<1> QED BY <1>1, DropsSame DEF Goes

LEMMA SameGo == ASSUME CallsOK, UNCHANGED call PROVE AllGo
BY CallTyped, GoesSame DEF AllGo, CallsOK, TypeOK

LEMMA MovesGo == ASSUME CallsOK, NEW c \in Calls, Moves(c) PROVE AllGo
<1>1. PICK q \in CallType :
        /\ call' = [call EXCEPT ![c] = q] /\ CallOK(q) /\ Goes(call[c], q)
        /\ q.again => call[c].again \/ c \in Idempotent
  BY DEF Moves
<1>2. call' \in [Calls -> CallType]
  BY <1>1 DEF CallsOK, TypeOK
<1>3. call'[c] = q /\ \A d \in Calls \ {c} : call'[d] = call[d]
  BY <1>1 DEF CallsOK, TypeOK
<1>4. ASSUME NEW d \in Calls
      PROVE  /\ CallOK(call'[d]) /\ Goes(call[d], call'[d])
             /\ call'[d].again => call[d].again \/ d \in Idempotent
  BY <1>1, <1>3, CallTyped, GoesSame
<1> QED BY <1>2, <1>4 DEF AllGo

LEMMA DrainedGo == ASSUME CallsOK, NEW n \in Attachments, call' = Drained(n) PROVE AllGo
<1>1. \A d \in Calls : call'[d] = IF call[d].owner = n /\ call[d].ticket = "queued"
                                  THEN [call[d] EXCEPT !.ticket = "cancelled"] ELSE call[d]
  BY DEF Drained
<1>2. ASSUME NEW d \in Calls
      PROVE  /\ call'[d] \in CallType /\ CallOK(call'[d]) /\ Goes(call[d], call'[d])
             /\ call'[d].again => call[d].again
  <2>1. CASE call[d].owner = n /\ call[d].ticket = "queued"
    BY <1>1, <2>1, CallTyped, DrainedOK
  <2>2. CASE ~(call[d].owner = n /\ call[d].ticket = "queued")
    BY <1>1, <2>2, CallTyped, GoesSame
  <2> QED BY <2>1, <2>2
<1>3. call' \in [Calls -> CallType]
  BY <1>1, <1>2 DEF Drained
<1> QED BY <1>2, <1>3 DEF AllGo

LEMMA ClosedGo == ASSUME CallsOK, NEW n \in Attachments, call' = ClosedReplies(n) PROVE AllGo
<1>1. \A d \in Calls : call'[d] = IF call[d].registered /\ call[d].owner = n
                                  THEN [call[d] EXCEPT !.closed = TRUE] ELSE call[d]
  BY DEF ClosedReplies
<1>2. ASSUME NEW d \in Calls
      PROVE  /\ call'[d] \in CallType /\ CallOK(call'[d]) /\ Goes(call[d], call'[d])
             /\ call'[d].again => call[d].again
  <2>1. CASE call[d].registered /\ call[d].owner = n
    <3>1. call[d].pc \in Pcs
      BY CallTyped DEF CallType
    <3> DEFINE q == [call[d] EXCEPT !.closed = TRUE]
    <3>2. q \in CallType /\ CallOK(q) /\ Goes(call[d], q) /\ (q.again => call[d].again)
      BY <3>1, CallTyped, ClosedOK
    <3>3. call'[d] = q
      BY <1>1, <2>1
    <3> QED BY <3>2, <3>3
  <2>2. CASE ~(call[d].registered /\ call[d].owner = n)
    BY <1>1, <2>2, CallTyped, GoesSame
  <2> QED BY <2>1, <2>2
<1>3. call' \in [Calls -> CallType]
  BY <1>1, <1>2 DEF ClosedReplies
<1> QED BY <1>2, <1>3 DEF AllGo

\* The fields of r and q that count, but for the replies, are the same.
Alike(r, q) ==
  /\ q.pc = r.pc /\ q.ticket = r.ticket /\ q.evidence = r.evidence /\ q.published = r.published
  /\ q.again = r.again /\ q.invoking = r.invoking /\ q.ambiguous = r.ambiguous /\ q.invoke = r.invoke
  /\ q.gen = r.gen /\ q.accepted = r.accepted /\ q.owner = r.owner

LEMMA AlikeOK == ASSUME NEW r, NEW q, CallOK(r), Alike(r, q) PROVE CallOK(q) /\ (Unsettled(q) <=> Unsettled(r))
BY DEF Alike, CallOK, Unsettled

\* The reply at the head of attachment n joins those of its call.
Gets(n) ==
  LET m == Head(toClient[n]) IN
  /\ m.c \in Calls /\ m.code \in Codes
  /\ call' \in [Calls -> CallType]
  /\ \A d \in Calls \ {m.c} : call'[d] = call[d]
  /\ Alike(call[m.c], call'[m.c])
  /\ call'[m.c].replies = Append(call[m.c].replies, [code |-> m.code, inc |-> m.inc])

LEMMA RequestFields ==
  ASSUME NEW m \in RequestType
  PROVE  /\ m.kind = "Hello" => m.gen \in Connections /\ m = [kind |-> "Hello", gen |-> m.gen]
         /\ m.kind # "Hello" => m.c \in Calls /\ m.inc \in Nat /\ m.again \in BOOLEAN
BY DEF RequestType

LEMMA AnswerFields ==
  ASSUME NEW m \in AnswerType
  PROVE  /\ m.code = "Ready" => m.gen \in Connections /\ m.inc \in Nat /\ m.trusted \in BOOLEAN
         /\ m.code # "Ready" => m.c \in Calls /\ m.inc \in Nat /\ m.code \in Codes
BY DEF AnswerType, Codes, RejectedBeforeExecution, MayHaveExecuted

LEMMA AnswerTyped ==
  ASSUME TypeOK, NEW n \in Attachments, toClient[n] # <<>>
  PROVE  /\ Head(toClient[n]) \in AnswerType /\ Tail(toClient[n]) \in Seq(AnswerType)
         /\ toClient[n] \in Seq(AnswerType)
<1>1. toClient[n] \in Seq(AnswerType)
  BY DEF TypeOK
<1> QED BY <1>1, TailAt

LEMMA RequestTyped ==
  ASSUME TypeOK, NEW g \in Connections, toHost[g] # <<>>
  PROVE  /\ Head(toHost[g]) \in RequestType /\ Tail(toHost[g]) \in Seq(RequestType)
         /\ toHost[g] \in Seq(RequestType)
<1>1. toHost[g] \in Seq(RequestType)
  BY DEF TypeOK
<1> QED BY <1>1, TailAt

LEMMA ReplyGets ==
  ASSUME CallsOK, NEW n \in Attachments, onReply(n)
  PROVE  AllGo \/ Gets(n)
<1> DEFINE m == Head(toClient[n])
           r == call[m.c]
           a == [code |-> m.code, inc |-> m.inc]
           q == [r EXCEPT !.replies = Append(@, a)]
<1>1. m \in AnswerType /\ m.code # "Ready"
  BY AnswerTyped DEF onReply, CallsOK
<1>2. m.c \in Calls /\ m.inc \in Nat /\ m.code \in Codes
  BY <1>1, AnswerFields
<1>3. call' = call \/ call' = Drained(n) \/ call' = [call EXCEPT ![m.c] = q]
  BY DEF onReply, Edit
<1>4. CASE call' = [call EXCEPT ![m.c] = q]
  <2> HIDE DEF m
  <2>1. r \in CallType /\ a \in ReplyType
    BY <1>2, CallTyped DEF ReplyType
  <2> HIDE DEF r
  <2>2. Append(r.replies, a) \in Seq(ReplyType)
    BY <2>1, AppendAt DEF CallType
  <2>3. q \in CallType /\ q.replies = Append(r.replies, a)
    BY <2>1, <2>2 DEF CallType
  <2>4. Alike(r, q)
    BY <2>1 DEF CallType, Alike
  <2> HIDE DEF q, a
  <2>5. call' \in [Calls -> CallType] /\ call'[m.c] = q /\ \A d \in Calls \ {m.c} : call'[d] = call[d]
    BY <1>2, <1>4, <2>3 DEF CallsOK, TypeOK
  <2> QED BY <1>2, <2>3, <2>4, <2>5 DEF Gets, m, r, a
<1> QED BY <1>3, <1>4, SameGo, DrainedGo

-----------------------------------------------------------------------------
(* The actions of a call and what they leave to the writer.                *)

\* A control that call c adds is its own, and a receipt among them is due.
NewControls(c) ==
  \A x \in controls' : \/ x \in controls
                       \/ /\ x \in ControlType /\ x.c = c /\ call[c].owner # 0
                          /\ x.kind = "Receipt" =>
                               /\ call'[c].evidence = "HandlerFinished"
                               /\ c \in Accepting => call'[c].accepted /\ call'[c].gen = x.gen

ByCallStep(c) ==
  /\ UNCHANGED <<attachment, att, wires>> /\ slots' \in Nat /\ NewControls(c)
  /\ Moves(c) \/ Rejects(c)

LEMMA SameNew == ASSUME UNCHANGED controls, NEW c PROVE NewControls(c)
BY DEF NewControls

LEMMA PlainCall ==
  ASSUME CallsOK, NEW c \in Calls, Moves(c) \/ Rejects(c), ByCall
  PROVE  ByCallStep(c)
<1>1. UNCHANGED <<attachment, att, wires>> /\ slots' \in Nat /\ UNCHANGED controls
  BY DEF ByCall, CallsOK, TypeOK
<1> QED BY <1>1, SameNew DEF ByCallStep

LEMMA ControlTyped ==
  ASSUME CallsOK, NEW c \in Calls, call[c].owner # 0, NEW kind \in {"Cancel", "Receipt"}
  PROVE  /\ BestEffort(kind, c) \in ControlType /\ BestEffort(kind, c).c = c
         /\ BestEffort(kind, c).kind = kind
<1>1. LinkOf(c).gen \in 0 .. MaxConnections
  BY OwnerTyped
<1> QED BY <1>1 DEF BestEffort, ControlType

LEMMA BeginBy == ASSUME CallsOK, NEW c \in Calls, Begin(c) PROVE ByCallStep(c)
<1>1. UNCHANGED <<attachment, att, wires>> /\ slots' \in Nat /\ UNCHANGED controls
  BY DEF Begin, CallsOK, TypeOK
<1> QED BY <1>1, BeginMoves, SameNew DEF ByCallStep

LEMMA ResultBy == ASSUME CallsOK, NEW c \in Calls, ResultReply(c) PROVE ByCallStep(c)
<1> DEFINE r == call[c]
           x == [r EXCEPT !.replies = Tail(@), !.evidence = "HandlerFinished"]
           p == IF c \in Accepting THEN "accepting" ELSE "returning"
           q == [x EXCEPT !.pc = p, !.gen = LinkOf(c).gen]
<1>1. UNCHANGED <<attachment, att, wires>> /\ slots' \in Nat
  BY DEF ResultReply, CallsOK, TypeOK
<1>2. call[c] \in CallType /\ call[c].owner # 0
  BY CallTyped DEF ResultReply, CallOK
<1>3. \/ UNCHANGED controls
      \/ controls' = controls \cup {BestEffort("Receipt", c)} /\ c \notin Accepting /\ Edit(c, q)
  BY DEF ResultReply
<1>4. CASE controls' = controls \cup {BestEffort("Receipt", c)} /\ c \notin Accepting /\ Edit(c, q)
  <2>1. q.evidence = "HandlerFinished"
    BY <1>2 DEF CallType
  <2> HIDE DEF q
  <2>2. call'[c].evidence = "HandlerFinished"
    BY <1>4, <2>1 DEF Edit, CallsOK, TypeOK
  <2>3. BestEffort("Receipt", c) \in ControlType /\ BestEffort("Receipt", c).c = c
    BY <1>2, ControlTyped
  <2>4. NewControls(c)
    BY <1>2, <1>4, <2>2, <2>3 DEF NewControls
  <2> QED BY <1>1, <2>4, ResultMoves DEF ByCallStep
<1>5. CASE UNCHANGED controls
  BY <1>1, <1>5, ResultMoves, SameNew DEF ByCallStep
<1> QED BY <1>3, <1>4, <1>5

LEMMA ReceiptBy == ASSUME CallsOK, NEW c \in Calls, sendAcceptedReceipt(c) PROVE ByCallStep(c)
<1> DEFINE r == call[c]
           mine == [kind |-> "Receipt", c |-> c, gen |-> r.gen, strict |-> TRUE]
           q == [r EXCEPT !.pc = "receipt"]
<1>1. UNCHANGED <<attachment, att, wires>> /\ slots' \in Nat
  BY DEF sendAcceptedReceipt, CallsOK, TypeOK
<1>2. \/ controls' \subseteq controls
      \/ r.pc = "accepted" /\ controls' = controls \cup {mine} /\ Edit(c, q)
  BY DEF sendAcceptedReceipt
<1>3. CASE controls' \subseteq controls
  <2>1. NewControls(c)
    BY <1>3 DEF NewControls
  <2> QED BY <1>1, <2>1, ReceiptMoves DEF ByCallStep
<1>4. CASE r.pc = "accepted" /\ controls' = controls \cup {mine} /\ Edit(c, q)
  <2>1. r \in CallType /\ r.accepted /\ r.evidence = "HandlerFinished" /\ r.owner # 0
    BY <1>4, CallTyped DEF CallOK, After
  <2>2. q.accepted = r.accepted /\ q.evidence = r.evidence /\ q.gen = r.gen
    BY <2>1 DEF CallType
  <2>3. mine \in ControlType /\ mine.c = c /\ mine.gen = r.gen
    BY <2>1 DEF ControlType, CallType
  <2> HIDE DEF q, mine
  <2>4. call'[c] = q
    BY <1>4 DEF Edit, CallsOK, TypeOK
  <2>5. NewControls(c)
    BY <1>4, <2>1, <2>2, <2>3, <2>4 DEF NewControls
  <2> QED BY <1>1, <2>5, ReceiptMoves DEF ByCallStep
<1> QED BY <1>2, <1>3, <1>4

LEMMA FinallyBy == ASSUME CallsOK, NEW c \in Calls, Finally(c) PROVE ByCallStep(c)
<1>1. UNCHANGED <<attachment, att, wires>> /\ slots' \in Nat
  BY DEF Finally, CallsOK, TypeOK
<1>2. \/ UNCHANGED controls
      \/ controls' = controls \cup {BestEffort("Cancel", c)} /\ call[c].evidence = "MayHaveExecuted"
  BY DEF Finally
<1>3. CASE controls' = controls \cup {BestEffort("Cancel", c)} /\ call[c].evidence = "MayHaveExecuted"
  <2>1. call[c].owner # 0
    BY <1>3, CallTyped DEF CallOK
  <2>2. /\ BestEffort("Cancel", c) \in ControlType /\ BestEffort("Cancel", c).c = c
        /\ BestEffort("Cancel", c).kind = "Cancel"
    BY <2>1, ControlTyped
  <2>3. NewControls(c)
    BY <1>3, <2>1, <2>2 DEF NewControls
  <2> QED BY <1>1, <2>3, FinallyMoves DEF ByCallStep
<1> QED BY <1>1, <1>2, <1>3, FinallyMoves, SameNew DEF ByCallStep

LEMMA CancelledBy == ASSUME CallsOK, NEW c \in Calls, Cancelled(c) PROVE ByCallStep(c)
<1>1. UNCHANGED <<attachment, att, wires>> /\ slots' \in Nat /\ controls' \subseteq controls
  BY DEF Cancelled, CallsOK, TypeOK
<1>2. NewControls(c)
  BY <1>1 DEF NewControls
<1> QED BY <1>1, <1>2, CancelledMoves DEF ByCallStep

\* Every step of a call is of this kind, the last step of its ticket excepted.
LEMMA CallSteps ==
  ASSUME CallsOK, NEW c \in Calls,
         \/ CallStep(c) \/ WaitTimesOut(c) \/ Accept(c) \/ Deadline(c) \/ Cancelled(c)
         \/ TicketBegins(c) \/ onStart(c)
  PROVE  ByCallStep(c)
<1>1. CASE Select(c) BY <1>1, SelectMoves, PlainCall DEF Select
<1>2. CASE Register(c) BY <1>2, RegisterMoves, PlainCall DEF Register
<1>3. CASE waitForSameHost(c) BY <1>3, GateMoves, PlainCall DEF waitForSameHost
<1>4. CASE OfferCall(c) BY <1>4, OfferMoves, PlainCall DEF OfferCall
<1>5. CASE SendCompleted(c) BY <1>5, SendCompletedMoves, PlainCall DEF SendCompleted
<1>6. CASE Receive(c) BY <1>6, ReceiveMoves, PlainCall DEF Receive
<1>7. CASE Return(c) BY <1>7, ReturnMoves, PlainCall DEF Return
<1>8. CASE WaitTimesOut(c) BY <1>8, TimeoutMoves, PlainCall DEF WaitTimesOut
<1>9. CASE Accept(c) BY <1>9, AcceptMoves, PlainCall DEF Accept
<1>10. CASE Deadline(c) BY <1>10, DeadlineMoves, PlainCall DEF Deadline
<1>11. CASE TicketBegins(c) BY <1>11, BeginsMoves, PlainCall DEF TicketBegins
<1>12. CASE onStart(c) BY <1>12, StartMoves, PlainCall DEF onStart
<1> QED
  BY <1>1, <1>2, <1>3, <1>4, <1>5, <1>6, <1>7, <1>8, <1>9, <1>10, <1>11, <1>12,
     BeginBy, ResultBy, ReceiptBy, FinallyBy, CancelledBy DEF CallStep

-----------------------------------------------------------------------------
(* What a step does to the attachments.                                    *)

\* A READY that has reached attachment n is what it now takes for its host.
Heard(n) ==
  \E j \in 1 .. Len(toClient[n]) :
    /\ toClient[n][j].code = "Ready"
    /\ att'[n].ready.gen = toClient[n][j].gen /\ att'[n].ready.inc = toClient[n][j].inc

\* Attachment n stays on its connection, or has lost it.
Stays(n) ==
  /\ att'[n].gen = att[n].gen /\ (att'[n].state = "Connected" => att[n].state = "Connected")
  /\ att'[n].ready.gen = 0 \/ att'[n].ready = att[n].ready \/ Heard(n)

\* Attachment n gets a connection with a number above all others.
Rejoins(n) ==
  /\ att'[n].gen \in Connections /\ att'[n].ready = att[n].ready
  /\ \A m \in Attachments : att[m].gen < att'[n].gen /\ (m # n => att'[m] = att[m])

AttStep ==
  /\ att' \in [Attachments -> LinkType]
  /\ (\A n \in Attachments : Stays(n)) \/ \E n \in Attachments : Rejoins(n)

LEMMA NextFresh ==
  ASSUME TypeOK, NextConnection \in Connections
  PROVE  \A m \in Attachments : att[m].gen < NextConnection
<1>1. \A m \in Attachments : att[m].gen \in 0 .. MaxConnections
  BY DEF TypeOK, LinkType
<1>2. MaxConnections \in Nat
  BY ClientAssumption
<1>3. Used \in SUBSET (1 .. MaxConnections)
  BY <1>1, <1>2 DEF Used
<1>4. CASE Used = {}
  <2>1. \A m \in Attachments : att[m].gen = 0
    BY <1>4 DEF Used
  <2>2. NextConnection = 1
    BY <1>4 DEF NextConnection
  <2> QED BY <2>1, <2>2
<1>5. CASE Used # {}
  <2> DEFINE top == CHOOSE g \in Used : \A x \in Used : x <= g
  <2>1. \E g \in Used : \A x \in Used : x <= g
    BY <1>2, <1>3, <1>5, Largest
  <2>2. top \in Used /\ \A x \in Used : x <= top
    BY <2>1
  <2>3. NextConnection = 1 + top
    BY <1>5 DEF NextConnection
  <2> HIDE DEF top
  <2>4. top \in 1 .. MaxConnections
    BY <1>3, <2>2
  <2>5. ASSUME NEW m \in Attachments PROVE att[m].gen < NextConnection
    <3>1. CASE att[m].gen = 0
      BY <2>3, <2>4, <3>1
    <3>2. CASE att[m].gen # 0
      <4>1. att[m].gen \in Used
        BY <3>2 DEF Used
      <4> QED BY <1>1, <2>2, <2>3, <2>4, <4>1
    <3> QED BY <3>1, <3>2
  <2> QED BY <2>5
<1> QED BY <1>4, <1>5

LEMMA SameAtt == ASSUME TypeOK, UNCHANGED att PROVE AttStep
BY DEF AttStep, Stays, TypeOK

\* One attachment is written, and not with a new connection.
LEMMA OneStays ==
  ASSUME TypeOK, NEW n \in Attachments, NEW a \in LinkType, att' = [att EXCEPT ![n] = a],
         a.gen = att[n].gen, a.state = "Connected" => att[n].state = "Connected",
         a.ready = att[n].ready \/ a.ready.gen = 0 \/ Heard(n)
  PROVE  AttStep
<1>1. att' \in [Attachments -> LinkType] /\ att'[n] = a /\ \A m \in Attachments \ {n} : att'[m] = att[m]
  BY DEF TypeOK
<1>2. \A m \in Attachments : Stays(m)
  BY <1>1 DEF Stays
<1> QED BY <1>1, <1>2 DEF AttStep

LEMMA ClosedFields ==
  ASSUME NEW a \in LinkType
  PROVE  /\ LinkClosed(a) \in LinkType /\ LinkClosed(a).gen = a.gen /\ LinkClosed(a).ready = a.ready
         /\ LinkClosed(a).state = "Closed"
<1>1. LinkClosed(a) \in LinkType
  BY DEF LinkClosed, LinkType
<1> QED BY <1>1 DEF LinkClosed, LinkType

LEMMA DisconnectedFields ==
  ASSUME NEW a \in LinkType
  PROVE  /\ Disconnected(a) \in LinkType /\ Disconnected(a).gen = a.gen /\ Disconnected(a).ready = a.ready
         /\ Disconnected(a).state = "Reconnecting"
<1>1. Disconnected(a) \in LinkType
  BY DEF Disconnected, LinkType
<1> QED BY <1>1 DEF Disconnected, LinkType

LEMMA attTyped == ASSUME TypeOK, NEW n \in Attachments PROVE att[n] \in LinkType
BY DEF TypeOK

LEMMA NotReadyTyped ==
  NotReady \in [inc : Nat, gen : 0 .. MaxConnections, trusted : BOOLEAN] /\ NotReady.gen = 0
BY ClientAssumption DEF NotReady

LEMMA LinkClosedAtt ==
  ASSUME TypeOK, NEW n \in Attachments, att' = [att EXCEPT ![n] = LinkClosed(att[n])]
  PROVE  AttStep
BY attTyped, ClosedFields, OneStays

LEMMA DisconnectedAtt ==
  ASSUME TypeOK, NEW S, att' = [n \in Attachments |-> IF n \in S THEN Disconnected(att[n]) ELSE att[n]]
  PROVE  AttStep
<1>1. ASSUME NEW n \in Attachments PROVE att'[n] \in LinkType /\ Stays(n)
  <2>1. att'[n] = IF n \in S THEN Disconnected(att[n]) ELSE att[n]
    OBVIOUS
  <2> QED BY <2>1, attTyped, DisconnectedFields DEF Stays
<1>2. att' \in [Attachments -> LinkType]
  BY <1>1
<1> QED BY <1>1, <1>2 DEF AttStep

LEMMA RejoinsAtt ==
  ASSUME TypeOK, NEW n \in Attachments, NextConnection \in Connections,
         att' = [att EXCEPT ![n].state = "Connected", ![n].gen = NextConnection]
  PROVE  AttStep
<1> DEFINE g == NextConnection
           a == [att[n] EXCEPT !.state = "Connected", !.gen = g]
<1>1. \A m \in Attachments : att[m].gen < g
  BY NextFresh
<1>2. g \in Connections /\ g \in 0 .. MaxConnections
  BY ClientAssumption DEF Connections
<1>3. att' = [att EXCEPT ![n] = a]
  BY DEF TypeOK
<1> HIDE DEF g
<1>4. a \in LinkType
  BY <1>2, attTyped DEF LinkType
<1>5. a.gen = g /\ a.ready = att[n].ready
  BY attTyped DEF LinkType
<1> HIDE DEF a
<1>6. att' \in [Attachments -> LinkType] /\ att'[n] = a /\ \A m \in Attachments \ {n} : att'[m] = att[m]
  BY <1>3, <1>4 DEF TypeOK
<1>7. Rejoins(n)
  BY <1>1, <1>2, <1>5, <1>6 DEF Rejoins
<1> QED BY <1>6, <1>7 DEF AttStep

LEMMA DetachedAtt ==
  ASSUME TypeOK, NEW n \in Attachments, NEW a \in LinkType, a.gen = att[n].gen, a.state = att[n].state,
         detachLocked(n, a)
  PROVE  AttStep /\ attachment' \in 0 .. MaxAttachments
<1> DEFINE b == [a EXCEPT !.ready = NotReady, !.neg = 0]
<1>1. b \in LinkType
  <2>1. 0 \in 0 .. MaxConnections
    BY ClientAssumption
  <2> QED BY <2>1, NotReadyTyped DEF LinkType
<1>2. b.gen = a.gen /\ b.state = a.state /\ b.ready.gen = 0
  BY NotReadyTyped DEF LinkType
<1>3. att' = [att EXCEPT ![n] = b]
  BY DEF detachLocked
<1> HIDE DEF b
<1>4. AttStep
  BY <1>1, <1>2, <1>3, OneStays
<1>5. attachment' \in 0 .. MaxAttachments
  BY ClientAssumption DEF detachLocked
<1> QED BY <1>4, <1>5

\* A step of a link that touches neither the wires nor the host.
ByLinkStep ==
  /\ attachment' \in 0 .. MaxAttachments /\ AttStep /\ AllGo
  /\ controls' \subseteq controls /\ UNCHANGED <<slots, wires>>

LEMMA attachBy == ASSUME CallsOK, NEW n \in Attachments, attach(n) PROVE ByLinkStep
<1>1. attachment' \in 0 .. MaxAttachments
  BY ClientAssumption DEF attach, Attachments
<1>2. AttStep
  BY RejoinsAtt DEF attach, CallsOK
<1> QED BY <1>1, <1>2, SameGo DEF ByLinkStep, attach, ByLink

LEMMA observeBy == ASSUME CallsOK, NEW n \in Attachments, observe(n) PROVE ByLinkStep
<1> DEFINE neg == IF att[n].state = "Connected" THEN att[n].gen ELSE 0
           a == [att[n] EXCEPT !.neg = neg, !.ready = NotReady]
<1>1. att[n] \in LinkType
  BY attTyped DEF CallsOK
<1>2. neg \in 0 .. MaxConnections
  BY <1>1, ClientAssumption DEF LinkType
<1>3. att' = [att EXCEPT ![n] = a]
  BY DEF observe, CallsOK, TypeOK
<1> HIDE DEF neg
<1>4. a \in LinkType
  BY <1>1, <1>2, NotReadyTyped DEF LinkType
<1>5. a.gen = att[n].gen /\ a.state = att[n].state /\ a.ready.gen = 0
  BY <1>1, NotReadyTyped DEF LinkType
<1> HIDE DEF a
<1>6. AttStep
  BY <1>3, <1>4, <1>5, OneStays DEF CallsOK
<1>7. attachment' \in 0 .. MaxAttachments
  BY DEF observe, CallsOK, TypeOK
<1> QED BY <1>6, <1>7, SameGo DEF ByLinkStep, observe, ByLink

LEMMA CloseLinkBy == ASSUME CallsOK, NEW n \in Attachments, CloseLink(n) PROVE ByLinkStep
<1>1. att' = [att EXCEPT ![n] = LinkClosed(att[n])] /\ call' = Drained(n)
  BY DEF CloseLink, CallsOK, TypeOK
<1>2. attachment' \in 0 .. MaxAttachments /\ controls' \subseteq controls /\ UNCHANGED <<slots, wires>>
  BY DEF CloseLink, CallsOK, TypeOK, ByLink
<1> QED BY <1>1, <1>2, LinkClosedAtt, DrainedGo DEF ByLinkStep, CallsOK

LEMMA detachBy == ASSUME CallsOK, NEW n \in Attachments, detach(n) PROVE ByLinkStep
<1> DEFINE a == [att[n] EXCEPT !.told = TRUE]
<1>1. att[n] \in LinkType
  BY attTyped DEF CallsOK
<1>2. a \in LinkType
  BY <1>1 DEF LinkType
<1>3. a.gen = att[n].gen /\ a.state = att[n].state /\ a.ready = att[n].ready
  BY <1>1 DEF LinkType
<1>4. \/ detachLocked(n, a)
      \/ att' = [att EXCEPT ![n] = a] /\ UNCHANGED <<attachment, call>>
  BY DEF detach, CallsOK, TypeOK
<1>5. UNCHANGED <<slots, wires>> /\ controls' \subseteq controls
  BY DEF detach, ByLink
<1> HIDE DEF a
<1>6. CASE detachLocked(n, a)
  <2>1. call' = ClosedReplies(n)
    BY <1>6 DEF detachLocked
  <2> QED BY <1>2, <1>3, <1>5, <1>6, <2>1, DetachedAtt, ClosedGo DEF ByLinkStep, CallsOK
<1>7. CASE att' = [att EXCEPT ![n] = a] /\ UNCHANGED <<attachment, call>>
  <2>1. AttStep
    BY <1>2, <1>3, <1>7, OneStays DEF CallsOK
  <2>2. attachment' \in 0 .. MaxAttachments
    BY <1>7 DEF CallsOK, TypeOK
  <2> QED BY <1>5, <1>7, <2>1, <2>2, SameGo DEF ByLinkStep
<1> QED BY <1>4, <1>6, <1>7

LEMMA closeBy == ASSUME CallsOK, NEW n \in Attachments, close(n) PROVE ByLinkStep
<1> DEFINE a == [att[n] EXCEPT !.dismissed = TRUE]
<1>1. att[n] \in LinkType
  BY attTyped DEF CallsOK
<1>2. a \in LinkType
  BY <1>1 DEF LinkType
<1>3. a.gen = att[n].gen /\ a.state = att[n].state
  BY <1>1 DEF LinkType
<1>4. detachLocked(n, a) /\ UNCHANGED <<slots, wires>> /\ controls' \subseteq controls
  BY DEF close, ByLink
<1> HIDE DEF a
<1>5. call' = ClosedReplies(n)
  BY <1>4 DEF detachLocked
<1> QED BY <1>2, <1>3, <1>4, <1>5, DetachedAtt, ClosedGo DEF ByLinkStep, CallsOK

LEMMA ReconnectBy == ASSUME CallsOK, NEW n \in Attachments, Reconnect(n) PROVE ByLinkStep
<1> DEFINE a == [att[n] EXCEPT !.state = "Closed"]
<1>1. att[n] \in LinkType
  BY attTyped DEF CallsOK
<1>2. a \in LinkType
  BY <1>1 DEF LinkType
<1>3. a.gen = att[n].gen /\ a.state = "Closed" /\ a.ready = att[n].ready
  BY <1>1 DEF LinkType
<1>4. \/ NextConnection \in Connections /\ att' = [att EXCEPT ![n].state = "Connected", ![n].gen = NextConnection]
      \/ att' = [att EXCEPT ![n] = a]
  BY DEF Reconnect, CallsOK, TypeOK
<1> HIDE DEF a
<1>5. AttStep
  BY <1>2, <1>3, <1>4, OneStays, RejoinsAtt DEF CallsOK
<1>6. attachment' \in 0 .. MaxAttachments
  BY DEF Reconnect, CallsOK, TypeOK
<1> QED BY <1>5, <1>6, SameGo DEF ByLinkStep, Reconnect, ByLink

-----------------------------------------------------------------------------
(* What a step does to the wires.                                          *)

LEMMA SameHost ==
  ASSUME TypeOK, UNCHANGED toHost
  PROVE  toHost' \in [Connections -> Seq(RequestType)] /\ \A g \in Connections : Drops(toHost[g], toHost'[g])
<1>1. \A g \in Connections : toHost[g] \in Seq(RequestType)
  BY DEF TypeOK
<1> QED BY <1>1, DropsSame DEF TypeOK

LEMMA SameClient ==
  ASSUME TypeOK, UNCHANGED toClient
  PROVE  toClient' \in [Attachments -> Seq(AnswerType)] /\ \A n \in Attachments : Drops(toClient[n], toClient'[n])
<1>1. \A n \in Attachments : toClient[n] \in Seq(AnswerType)
  BY DEF TypeOK
<1> QED BY <1>1, DropsSame DEF TypeOK

\* One connection gets message m.
LEMMA SendsOne ==
  ASSUME TypeOK, NEW h, NEW m \in RequestType, toHost' = [toHost EXCEPT ![h] = Append(@, m)]
  PROVE  /\ toHost' \in [Connections -> Seq(RequestType)]
         /\ \A g \in Connections : IF g = h THEN toHost'[g] = Append(toHost[g], m) ELSE Drops(toHost[g], toHost'[g])
<1>1. \A g \in Connections : toHost[g] \in Seq(RequestType) /\ Append(toHost[g], m) \in Seq(RequestType)
  BY AppendAt DEF TypeOK
<1>2. \A g \in Connections : toHost'[g] = IF g = h THEN Append(toHost[g], m) ELSE toHost[g]
  BY DEF TypeOK
<1>3. toHost' \in [Connections -> Seq(RequestType)]
  BY <1>1, <1>2 DEF TypeOK
<1> QED BY <1>1, <1>2, <1>3, DropsSame

\* The next message of connection h is taken.
LEMMA TakesOne ==
  ASSUME TypeOK, NEW h \in Connections, Take(h)
  PROVE  /\ toHost[h] # <<>> /\ Head(toHost[h]) \in RequestType
         /\ toHost' \in [Connections -> Seq(RequestType)]
         /\ toHost'[h] = Tail(toHost[h]) /\ \A g \in Connections \ {h} : toHost'[g] = toHost[g]
         /\ \A g \in Connections : Drops(toHost[g], toHost'[g])
<1>1. toHost[h] # <<>> /\ Head(toHost[h]) \in RequestType /\ Tail(toHost[h]) \in Seq(RequestType)
  BY RequestTyped DEF Take
<1>2. \A g \in Connections : toHost'[g] = IF g = h THEN Tail(toHost[g]) ELSE toHost[g]
  BY DEF TypeOK, Take
<1>3. toHost' \in [Connections -> Seq(RequestType)]
  BY <1>1, <1>2 DEF TypeOK, Take
<1>4. \A g \in Connections : toHost[g] \in Seq(RequestType)
  BY DEF TypeOK
<1>5. \A g \in Connections : Drops(toHost[g], toHost'[g])
  BY <1>1, <1>2, <1>4, DropsSame, DropsTail
<1> QED BY <1>1, <1>2, <1>3, <1>5

\* Message m goes to the attachment of connection g, if there is one.
LEMMA RepliesOne ==
  ASSUME TypeOK, NEW g, NEW m \in AnswerType, Reply(g, m)
  PROVE  /\ toClient' \in [Attachments -> Seq(AnswerType)]
         /\ \A n \in Attachments : IF n \in Current(g) THEN toClient'[n] = Append(toClient[n], m)
                                   ELSE Drops(toClient[n], toClient'[n])
<1>1. \A n \in Attachments : toClient[n] \in Seq(AnswerType) /\ Append(toClient[n], m) \in Seq(AnswerType)
  BY AppendAt DEF TypeOK
<1>2. \A n \in Attachments : toClient'[n] = IF n \in Current(g) THEN Append(toClient[n], m) ELSE toClient[n]
  BY DEF Reply
<1>3. toClient' \in [Attachments -> Seq(AnswerType)]
  BY <1>1, <1>2 DEF Reply
<1> QED BY <1>1, <1>2, <1>3, DropsSame

\* The next message of attachment h is taken.
LEMMA HearsOne ==
  ASSUME TypeOK, NEW h \in Attachments, toClient[h] # <<>>, toClient' = [toClient EXCEPT ![h] = Tail(@)]
  PROVE  /\ Head(toClient[h]) \in AnswerType
         /\ toClient' \in [Attachments -> Seq(AnswerType)]
         /\ toClient'[h] = Tail(toClient[h]) /\ \A n \in Attachments \ {h} : toClient'[n] = toClient[n]
         /\ \A n \in Attachments : Drops(toClient[n], toClient'[n])
<1>1. Head(toClient[h]) \in AnswerType /\ Tail(toClient[h]) \in Seq(AnswerType)
  BY AnswerTyped
<1>2. \A n \in Attachments : toClient'[n] = IF n = h THEN Tail(toClient[n]) ELSE toClient[n]
  BY DEF TypeOK
<1>3. toClient' \in [Attachments -> Seq(AnswerType)]
  BY <1>1, <1>2 DEF TypeOK
<1>4. \A n \in Attachments : toClient[n] \in Seq(AnswerType)
  BY DEF TypeOK
<1>5. \A n \in Attachments : Drops(toClient[n], toClient'[n])
  BY <1>2, <1>4, DropsSame, DropsTail
<1> QED BY <1>1, <1>2, <1>3, <1>5

\* A lost connection takes the end of each stream with it.
LEMMA LosesBoth ==
  ASSUME TypeOK, NEW n \in Attachments, Lose(n)
  PROVE  /\ toHost' \in [Connections -> Seq(RequestType)] /\ toClient' \in [Attachments -> Seq(AnswerType)]
         /\ \A g \in Connections : Drops(toHost[g], toHost'[g])
         /\ \A m \in Attachments : Drops(toClient[m], toClient'[m])
<1>1. PICK i \in 0 .. Len(toHost[att[n].gen]), j \in 0 .. Len(toClient[n]) :
        /\ toHost' = [toHost EXCEPT ![att[n].gen] = SubSeq(@, 1, i)]
        /\ toClient' = [toClient EXCEPT ![n] = SubSeq(@, 1, j)]
  BY DEF Lose
<1>2. ASSUME NEW g \in Connections PROVE toHost'[g] \in Seq(RequestType) /\ Drops(toHost[g], toHost'[g])
  <2>1. toHost[g] \in Seq(RequestType)
    BY DEF TypeOK
  <2>2. toHost'[g] = IF g = att[n].gen THEN SubSeq(toHost[g], 1, i) ELSE toHost[g]
    BY <1>1 DEF TypeOK
  <2> QED BY <1>1, <2>1, <2>2, DropsSame, DropsPrefix, PrefixAt
<1>3. ASSUME NEW m \in Attachments PROVE toClient'[m] \in Seq(AnswerType) /\ Drops(toClient[m], toClient'[m])
  <2>1. toClient[m] \in Seq(AnswerType)
    BY DEF TypeOK
  <2>2. toClient'[m] = IF m = n THEN SubSeq(toClient[m], 1, j) ELSE toClient[m]
    BY <1>1 DEF TypeOK
  <2> QED BY <1>1, <2>1, <2>2, DropsSame, DropsPrefix, PrefixAt
<1>4. toHost' \in [Connections -> Seq(RequestType)] /\ toClient' \in [Attachments -> Seq(AnswerType)]
  BY <1>1, <1>2, <1>3 DEF TypeOK
<1> QED BY <1>2, <1>3, <1>4

-----------------------------------------------------------------------------
(* Where the messages of a call come from.                                 *)

\* No Invoke of c is new, and none has overtaken another.
Sends(c) ==
  \A g \in Connections : \E d \in Nat : \A i \in Nat : InvokeAt(c, g, i)' => InvokeAt(c, g, i + d)

\* The same for the answers to c with one of the codes.
Hears(c, codes) ==
  \A k \in Places : \E d \in Nat : \A i \in Nat :
    AnswerAt(c, k, i, codes)' => AnswerAt(c, k, i + d, codes)

LEMMA InvokesDrop ==
  ASSUME NEW c, NEW g \in Connections, Drops(toHost[g], toHost'[g])
  PROVE  \E d \in Nat : \A i \in Nat : InvokeAt(c, g, i)' => InvokeAt(c, g, i + d)
<1>1. PICK d \in Nat : \A i \in 1 .. Len(toHost'[g]) :
        i + d \in 1 .. Len(toHost[g]) /\ toHost'[g][i] = toHost[g][i + d]
  BY DEF Drops
<1>2. \A i \in Nat : InvokeAt(c, g, i)' => InvokeAt(c, g, i + d)
  BY <1>1 DEF InvokeAt
<1> QED BY <1>2

LEMMA InvokesAppend ==
  ASSUME TypeOK, NEW c, NEW g \in Connections, NEW m \in RequestType,
         toHost'[g] = Append(toHost[g], m), ~(m.kind = "Invoke" /\ m.c = c)
  PROVE  \E d \in Nat : \A i \in Nat : InvokeAt(c, g, i)' => InvokeAt(c, g, i + d)
<1>1. toHost[g] \in Seq(RequestType)
  BY DEF TypeOK
<1>2. \A i \in Nat : InvokeAt(c, g, i)' => InvokeAt(c, g, i + 0)
  <2> SUFFICES ASSUME NEW i \in Nat, InvokeAt(c, g, i)' PROVE InvokeAt(c, g, i)
    OBVIOUS
  <2>1. i \in 1 .. Len(toHost'[g]) /\ toHost'[g][i].kind = "Invoke" /\ toHost'[g][i].c = c
    BY DEF InvokeAt
  <2>2. i # Len(toHost[g]) + 1
    BY <1>1, <2>1, AppendAt
  <2>3. i \in 1 .. Len(toHost[g]) /\ toHost'[g][i] = toHost[g][i]
    BY <1>1, <2>1, <2>2, AppendAt
  <2> QED BY <2>1, <2>3 DEF InvokeAt
<1> QED BY <1>2

LEMMA SendsDrops == ASSUME NEW c, \A g \in Connections : Drops(toHost[g], toHost'[g]) PROVE Sends(c)
BY InvokesDrop DEF Sends

LEMMA SendsOther ==
  ASSUME TypeOK, NEW c, NEW h, NEW m \in RequestType, ~(m.kind = "Invoke" /\ m.c = c),
         toHost' = [toHost EXCEPT ![h] = Append(@, m)]
  PROVE  Sends(c)
<1>1. \A g \in Connections : IF g = h THEN toHost'[g] = Append(toHost[g], m) ELSE Drops(toHost[g], toHost'[g])
  BY SendsOne
<1>2. ASSUME NEW g \in Connections
      PROVE  \E d \in Nat : \A i \in Nat : InvokeAt(c, g, i)' => InvokeAt(c, g, i + d)
  <2>1. CASE g = h
    BY <1>1, <2>1, InvokesAppend
  <2>2. CASE g # h
    BY <1>1, <2>2, InvokesDrop
  <2> QED BY <2>1, <2>2
<1> QED BY <1>2 DEF Sends

LEMMA AnswersDrop ==
  ASSUME NEW c, NEW codes, NEW k \in Attachments, Drops(toClient[k], toClient'[k])
  PROVE  \E d \in Nat : \A i \in Nat : AnswerAt(c, k, i, codes)' => AnswerAt(c, k, i + d, codes)
<1>1. PICK d \in Nat : \A i \in 1 .. Len(toClient'[k]) :
        i + d \in 1 .. Len(toClient[k]) /\ toClient'[k][i] = toClient[k][i + d]
  BY DEF Drops
<1>2. k # 0
  BY DEF Attachments
<1>3. \A i \in Nat : AnswerAt(c, k, i, codes)' => AnswerAt(c, k, i + d, codes)
  BY <1>1, <1>2 DEF AnswerAt
<1> QED BY <1>3

LEMMA AnswersAppend ==
  ASSUME TypeOK, NEW c, NEW codes, NEW k \in Attachments, NEW m \in AnswerType,
         toClient'[k] = Append(toClient[k], m), ~(m.code \in codes /\ m.c = c)
  PROVE  \E d \in Nat : \A i \in Nat : AnswerAt(c, k, i, codes)' => AnswerAt(c, k, i + d, codes)
<1>0. toClient \in [Attachments -> Seq(AnswerType)]
  BY DEF TypeOK
<1>1. toClient[k] \in Seq(AnswerType) /\ k # 0
  BY <1>0 DEF Attachments
<1>2. \A i \in Nat : AnswerAt(c, k, i, codes)' => AnswerAt(c, k, i + 0, codes)
  <2> SUFFICES ASSUME NEW i \in Nat, AnswerAt(c, k, i, codes)' PROVE AnswerAt(c, k, i, codes)
    OBVIOUS
  <2>1. i \in 1 .. Len(toClient'[k]) /\ toClient'[k][i].code \in codes /\ toClient'[k][i].c = c
    BY <1>1 DEF AnswerAt
  <2>2. i # Len(toClient[k]) + 1
    BY <1>1, <2>1, AppendAt
  <2>3. i \in 1 .. Len(toClient[k]) /\ toClient'[k][i] = toClient[k][i]
    BY <1>1, <2>1, <2>2, AppendAt
  <2> QED BY <1>1, <2>1, <2>3 DEF AnswerAt
<1> QED BY <1>2

LEMMA RepliesDrop ==
  ASSUME NEW c, NEW codes, Drops(call[c].replies, call'[c].replies)
  PROVE  \E d \in Nat : \A i \in Nat : AnswerAt(c, 0, i, codes)' => AnswerAt(c, 0, i + d, codes)
<1>1. PICK d \in Nat : \A i \in 1 .. Len(call'[c].replies) :
        i + d \in 1 .. Len(call[c].replies) /\ call'[c].replies[i] = call[c].replies[i + d]
  BY DEF Drops
<1>2. \A i \in Nat : AnswerAt(c, 0, i, codes)' => AnswerAt(c, 0, i + d, codes)
  BY <1>1 DEF AnswerAt
<1> QED BY <1>2

LEMMA PlacesAre == Places = {0} \cup Attachments
BY ClientAssumption DEF Places, Attachments

LEMMA HearsDrops ==
  ASSUME NEW c, NEW codes, \A n \in Attachments : Drops(toClient[n], toClient'[n]),
         Drops(call[c].replies, call'[c].replies)
  PROVE  Hears(c, codes)
BY AnswersDrop, RepliesDrop, PlacesAre DEF Hears

LEMMA HearsOther ==
  ASSUME TypeOK, NEW c, NEW codes, NEW g, NEW m \in AnswerType, Reply(g, m), ~(m.code \in codes /\ m.c = c),
         Drops(call[c].replies, call'[c].replies)
  PROVE  Hears(c, codes)
<1>1. \A n \in Attachments : IF n \in Current(g) THEN toClient'[n] = Append(toClient[n], m)
                             ELSE Drops(toClient[n], toClient'[n])
  BY RepliesOne
<1>2. ASSUME NEW k \in Attachments
      PROVE  \E d \in Nat : \A i \in Nat : AnswerAt(c, k, i, codes)' => AnswerAt(c, k, i + d, codes)
  <2>1. CASE k \in Current(g)
    BY <1>1, <2>1, AnswersAppend
  <2>2. CASE k \notin Current(g)
    BY <1>1, <2>2, AnswersDrop
  <2> QED BY <2>1, <2>2
<1> QED BY <1>2, RepliesDrop, PlacesAre DEF Hears

\* Nothing about c can have got worse: its record is the same or gone, and
\* neither the call nor the wires know of anything new.
LEMMA TokensKept ==
  ASSUME NEW c \in Calls, Tokens(c), Sends(c),
         Hears(c, RejectedBeforeExecution), Hears(c, {"Overloaded"}),
         Unsettled(call'[c]) => Unsettled(call[c]),
         call'[c].published \in Clean => call[c].published \in Clean \/ Unsettled(call[c]),
         execs'[c] = execs[c],
         \/ record'[c].life = "none"
         \/ record'[c].life = record[c].life /\ record'[c].outcome = record[c].outcome
  PROVE  Tokens(c)'
<1>1. OnWire(c)' => OnWire(c)
  <2> SUFFICES ASSUME NEW g \in Connections, NEW i \in Nat, InvokeAt(c, g, i)' PROVE OnWire(c)
    BY DEF OnWire
  <2>1. PICK d \in Nat : InvokeAt(c, g, i + d)
    BY DEF Sends
  <2> QED BY <2>1 DEF OnWire
<1>2. Refused(c)' => Refused(c)
  <2> SUFFICES ASSUME NEW k \in Places, NEW i \in Nat, AnswerAt(c, k, i, RejectedBeforeExecution)' PROVE Refused(c)
    BY DEF Refused
  <2>1. PICK d \in Nat : AnswerAt(c, k, i + d, RejectedBeforeExecution)
    BY DEF Hears
  <2> QED BY <2>1 DEF Refused
<1>3. Overloaded(c)' => Overloaded(c)
  <2> SUFFICES ASSUME NEW k \in Places, NEW i \in Nat, AnswerAt(c, k, i, {"Overloaded"})' PROVE Overloaded(c)
    BY DEF Overloaded
  <2>1. PICK d \in Nat : AnswerAt(c, k, i + d, {"Overloaded"})
    BY DEF Hears
  <2> QED BY <2>1 DEF Overloaded
<1>4. \A g, h \in Connections, i, j \in Nat : InvokeAt(c, g, i)' /\ InvokeAt(c, h, j)' => g = h /\ i = j
  <2> SUFFICES ASSUME NEW g \in Connections, NEW h \in Connections, NEW i \in Nat, NEW j \in Nat,
                      InvokeAt(c, g, i)', InvokeAt(c, h, j)'
               PROVE  g = h /\ i = j
    OBVIOUS
  <2>1. PICK d \in Nat : \A x \in Nat : InvokeAt(c, g, x)' => InvokeAt(c, g, x + d)
    BY DEF Sends
  <2>2. PICK e \in Nat : InvokeAt(c, h, j + e)
    BY DEF Sends
  <2>3. g = h
    BY <2>1, <2>2 DEF Tokens
  <2>4. InvokeAt(c, g, i + d) /\ InvokeAt(c, g, j + d)
    BY <2>1, <2>3
  <2>5. i + d = j + d
    BY <2>4 DEF Tokens
  <2> QED BY <2>3, <2>5
<1>5. \A k, l \in Places, i, j \in Nat :
        AnswerAt(c, k, i, RejectedBeforeExecution)' /\ AnswerAt(c, l, j, {"Overloaded"})' => k = l /\ i = j
  <2> SUFFICES ASSUME NEW k \in Places, NEW l \in Places, NEW i \in Nat, NEW j \in Nat,
                      AnswerAt(c, k, i, RejectedBeforeExecution)', AnswerAt(c, l, j, {"Overloaded"})'
               PROVE  k = l /\ i = j
    OBVIOUS
  <2>1. PICK d \in Nat : \A x \in Nat :
          AnswerAt(c, k, x, RejectedBeforeExecution)' => AnswerAt(c, k, x + d, RejectedBeforeExecution)
    BY DEF Hears
  <2>2. PICK e \in Nat : AnswerAt(c, l, j + e, {"Overloaded"})
    BY DEF Hears
  <2>3. AnswerAt(c, k, i + d, RejectedBeforeExecution)
    BY <2>1
  <2>4. k = l /\ i + d = j + e
    BY <2>2, <2>3 DEF Tokens
  <2>5. AnswerAt(c, l, j, RejectedBeforeExecution)'
    BY DEF AnswerAt, RejectedBeforeExecution
  <2>6. AnswerAt(c, k, j + d, RejectedBeforeExecution)
    BY <2>1, <2>4, <2>5
  <2>7. j + d = j + e
    BY <2>2, <2>4, <2>6 DEF Tokens
  <2> QED BY <2>4, <2>7
<1>6. NoRecord(c) => NoRecord(c)'
  BY DEF NoRecord
<1>7. NeverBegan(c) => NeverBegan(c)'
  BY DEF NeverBegan
<1>8. execs[c] <= 1 /\ (record[c].life = "held" => execs[c] = 0)
      /\ (record[c].life = "ended" /\ record[c].outcome \in NotBegun => execs[c] = 0)
  BY DEF Tokens
<1>9. /\ OnWire(c)' => NoRecord(c)' /\ ~Refused(c)' /\ ~Unsettled(call'[c]) /\ call'[c].published \notin Clean
  BY <1>1, <1>2, <1>6 DEF Tokens
<1>10. Unsettled(call'[c]) => NoRecord(c)' /\ ~Refused(c)'
  BY <1>2, <1>6 DEF Tokens
<1>11. /\ Refused(c)' => NeverBegan(c)'
       /\ Overloaded(c)' => NoRecord(c)'
  BY <1>2, <1>3, <1>6, <1>7 DEF Tokens
<1>12. call'[c].published \in Clean => NeverBegan(c)'
  <2>1. Unsettled(call[c]) => NeverBegan(c)
    BY DEF Tokens, NoRecord, NeverBegan
  <2> QED BY <1>7, <2>1 DEF Tokens
<1> QED BY <1>4, <1>5, <1>8, <1>9, <1>10, <1>11, <1>12 DEF Tokens

-----------------------------------------------------------------------------
(* The steps in which the Invoke of a call or its answer moves.            *)

\* The one Invoke goes out.
LEMMA TokensSent ==
  ASSUME TypeOK, NEW c \in Calls, Tokens(c), CallOK(call[c]), ~call[c].again,
         call[c].ticket = "announced", call[c].invoking,
         NEW g, NEW m \in RequestType, m.kind = "Invoke", m.c = c,
         toHost' = [toHost EXCEPT ![g] = Append(@, m)],
         NEW q \in CallType, call'[c] = q, q.ticket \in {"sent", "failed"}, q.pc = call[c].pc,
         q.evidence = call[c].evidence, q.published = call[c].published, q.invoking = call[c].invoking,
         Hears(c, RejectedBeforeExecution), Hears(c, {"Overloaded"}),
         execs' = execs, record' = record
  PROVE  Tokens(c)'
<1>1. Unsettled(call[c])
  BY DEF Unsettled, OnItsWay
<1>2. NoRecord(c) /\ ~Refused(c) /\ ~OnWire(c)
  BY <1>1 DEF Tokens
<1>3. ~Unsettled(q) /\ q.published \notin Clean
  BY DEF Unsettled, CallOK, OnItsWay, Before, Clean
<1>4. NoRecord(c)' /\ execs'[c] = 0 /\ record'[c].life = "none"
  BY <1>2 DEF NoRecord
<1>5. ~Refused(c)'
  <2> SUFFICES ASSUME NEW k \in Places, NEW i \in Nat, AnswerAt(c, k, i, RejectedBeforeExecution)' PROVE FALSE
    BY DEF Refused
  <2>1. PICK d \in Nat : AnswerAt(c, k, i + d, RejectedBeforeExecution)
    BY DEF Hears
  <2> QED BY <1>2, <2>1 DEF Refused
<1>6. \A k \in Places, i \in Nat :
        ~AnswerAt(c, k, i, RejectedBeforeExecution)' /\ ~AnswerAt(c, k, i, {"Overloaded"})'
  <2>1. \A k \in Places, i \in Nat : ~AnswerAt(c, k, i, RejectedBeforeExecution)'
    BY <1>5 DEF Refused
  <2>2. \A k \in Places, i \in Nat : AnswerAt(c, k, i, {"Overloaded"})' => AnswerAt(c, k, i, RejectedBeforeExecution)'
    BY DEF AnswerAt, RejectedBeforeExecution
  <2> QED BY <2>1, <2>2
<1>7. ~Overloaded(c)'
  BY <1>6 DEF Overloaded
<1>8. ASSUME NEW h \in Connections, NEW i \in Nat, InvokeAt(c, h, i)' PROVE h = g /\ i = Len(toHost[g]) + 1
  <2>1. IF h = g THEN toHost'[h] = Append(toHost[h], m) ELSE Drops(toHost[h], toHost'[h])
    BY SendsOne
  <2>2. CASE h # g
    BY <1>2, <1>8, <2>1, <2>2, InvokesDrop DEF OnWire
  <2>3. CASE h = g
    <3>1. toHost[g] \in Seq(RequestType)
      BY <2>3 DEF TypeOK
    <3>2. i \in 1 .. Len(toHost'[g]) /\ toHost'[g][i].kind = "Invoke" /\ toHost'[g][i].c = c
      BY <1>8, <2>3 DEF InvokeAt
    <3>3. CASE i # Len(toHost[g]) + 1
      <4>1. i \in 1 .. Len(toHost[g]) /\ toHost'[g][i] = toHost[g][i]
        BY <2>1, <2>3, <3>1, <3>2, <3>3, AppendAt
      <4>2. InvokeAt(c, h, i)
        BY <2>3, <3>2, <4>1 DEF InvokeAt
      <4> QED BY <1>2, <4>2 DEF OnWire
    <3> QED BY <2>3, <3>3
  <2> QED BY <2>2, <2>3
<1>9. \A h, f \in Connections, i, j \in Nat : InvokeAt(c, h, i)' /\ InvokeAt(c, f, j)' => h = f /\ i = j
  BY <1>8
<1>10. call'[c].published \notin Clean /\ ~Unsettled(call'[c])
  BY <1>3
<1> QED BY <1>4, <1>5, <1>6, <1>7, <1>9, <1>10 DEF Tokens

\* The answer that refuses the one Invoke is taken.
LEMMA TokensRejected ==
  ASSUME TypeOK, NEW c \in Calls, Tokens(c), Rejects(c), UNCHANGED <<wires, execs, record>>
  PROVE  Tokens(c)'
<1>1. PICK q \in CallType :
    /\ call' = [call EXCEPT ![c] = q]
    /\ call[c].replies # <<>> /\ Head(call[c].replies).code \in RejectedBeforeExecution
    /\ q.replies = Tail(call[c].replies)
    /\ Unsettled(q) => Head(call[c].replies).code = "Overloaded"
  BY DEF Rejects
<1>2. call'[c] = q /\ call[c].replies \in Seq(ReplyType)
  BY <1>1 DEF TypeOK, CallType
<1>3. AnswerAt(c, 0, 1, RejectedBeforeExecution) /\ (Head(call[c].replies).code = "Overloaded" => AnswerAt(c, 0, 1, {"Overloaded"}))
  BY <1>1, <1>2, TailAt DEF AnswerAt
<1>4. Refused(c) /\ ~OnWire(c) /\ NeverBegan(c)
  <2>1. 0 \in Places
    BY PlacesAre
  <2>2. Refused(c)
    BY <1>3, <2>1 DEF Refused
  <2> QED BY <2>2 DEF Tokens
<1>5. Sends(c)
  BY SameHost, SendsDrops DEF wires
<1>6. ASSUME NEW codes, NEW k \in Places, NEW i \in Nat, AnswerAt(c, k, i, codes)'
      PROVE  AnswerAt(c, k, IF k = 0 THEN i + 1 ELSE i, codes)
  <2>1. CASE k = 0
    <3>1. i \in 1 .. Len(Tail(call[c].replies)) /\ Tail(call[c].replies)[i].code \in codes
      BY <1>1, <1>2, <1>6, <2>1 DEF AnswerAt
    <3>2. i + 1 \in 1 .. Len(call[c].replies) /\ call[c].replies[i + 1].code \in codes
      BY <1>1, <1>2, <3>1, TailAt
    <3> QED BY <2>1, <3>2 DEF AnswerAt
  <2>2. CASE k # 0
    BY <1>6, <2>2 DEF AnswerAt, wires
  <2> QED BY <2>1, <2>2
<1>7. ~OnWire(c)'
  <2> SUFFICES ASSUME NEW g \in Connections, NEW i \in Nat, InvokeAt(c, g, i)' PROVE FALSE
    BY DEF OnWire
  <2>1. InvokeAt(c, g, i)
    BY DEF InvokeAt, wires
  <2> QED BY <1>4, <2>1 DEF OnWire
<1>8. Refused(c)' => NeverBegan(c)'
  BY <1>4 DEF NeverBegan
<1>9. Overloaded(c)' => NoRecord(c)'
  <2> SUFFICES ASSUME NEW k \in Places, NEW i \in Nat, AnswerAt(c, k, i, {"Overloaded"})' PROVE NoRecord(c)'
    BY DEF Overloaded
  <2>1. Overloaded(c)
    BY <1>6 DEF Overloaded
  <2>2. NoRecord(c)
    BY <2>1 DEF Tokens
  <2> QED BY <2>2 DEF NoRecord
<1>10. \A k, l \in Places, i, j \in Nat :
        AnswerAt(c, k, i, RejectedBeforeExecution)' /\ AnswerAt(c, l, j, {"Overloaded"})' => k = l /\ i = j
  <2> SUFFICES ASSUME NEW k \in Places, NEW l \in Places, NEW i \in Nat, NEW j \in Nat,
                      AnswerAt(c, k, i, RejectedBeforeExecution)', AnswerAt(c, l, j, {"Overloaded"})'
               PROVE  k = l /\ i = j
    OBVIOUS
  <2> DEFINE x == IF k = 0 THEN i + 1 ELSE i
             y == IF l = 0 THEN j + 1 ELSE j
  <2>1. AnswerAt(c, k, x, RejectedBeforeExecution) /\ AnswerAt(c, l, y, {"Overloaded"})
    BY <1>6
  <2>2. x \in Nat /\ y \in Nat
    OBVIOUS
  <2>3. k = l /\ x = y
    BY <2>1, <2>2 DEF Tokens
  <2> QED BY <2>3
<1>11. Unsettled(call'[c]) => NoRecord(c)' /\ ~Refused(c)'
  <2> SUFFICES ASSUME Unsettled(q) PROVE NoRecord(c)' /\ ~Refused(c)'
    BY <1>2
  <2>1. AnswerAt(c, 0, 1, {"Overloaded"}) /\ 0 \in Places
    BY <1>1, <1>3, PlacesAre
  <2>2. NoRecord(c)
    BY <2>1 DEF Tokens, Overloaded
  <2>3. ASSUME NEW k \in Places, NEW i \in Nat, AnswerAt(c, k, i, RejectedBeforeExecution)' PROVE FALSE
    <3> DEFINE x == IF k = 0 THEN i + 1 ELSE i
    <3>1. AnswerAt(c, k, x, RejectedBeforeExecution) /\ x \in Nat
      BY <1>6, <2>3
    <3>2. k = 0 /\ x = 1
      BY <2>1, <3>1 DEF Tokens
    <3>3. i = 0
      BY <3>2
    <3> QED BY <2>3, <3>2, <3>3 DEF AnswerAt
  <2> QED BY <2>2, <2>3 DEF NoRecord, Refused
<1>12. /\ execs'[c] <= 1 /\ (record'[c].life = "held" => execs'[c] = 0)
       /\ (record'[c].life = "ended" /\ record'[c].outcome \in NotBegun => execs'[c] = 0)
  BY DEF Tokens
<1>13. \A g, h \in Connections, i, j \in Nat : InvokeAt(c, g, i)' /\ InvokeAt(c, h, j)' => g = h /\ i = j
  BY <1>7 DEF OnWire
<1>14. call'[c].published \in Clean => NeverBegan(c)'
  BY <1>4 DEF NeverBegan
<1> QED BY <1>7, <1>8, <1>9, <1>10, <1>11, <1>12, <1>13, <1>14 DEF Tokens

\* An answer has reached its call.
LEMMA TokensGot ==
  ASSUME TypeOK, NEW c \in Calls, Tokens(c), NEW n \in Attachments, Gets(n), toClient[n] # <<>>,
         toClient' = [toClient EXCEPT ![n] = Tail(@)], UNCHANGED <<toHost, execs, record>>,
         CallOK(call[c])
  PROVE  Tokens(c)'
<1> DEFINE m == Head(toClient[n])
<1>1. \A h \in Attachments : Drops(toClient[h], toClient'[h])
  BY HearsOne
<1>2. Sends(c)
  BY SameHost, SendsDrops
<1>3. CASE c # m.c
  <2>1. call'[c] = call[c] /\ call[c].replies \in Seq(ReplyType)
    BY <1>3 DEF Gets, TypeOK, CallType
  <2>2. Drops(call[c].replies, call'[c].replies)
    BY <2>1, DropsSame
  <2>3. Hears(c, RejectedBeforeExecution) /\ Hears(c, {"Overloaded"})
    BY <1>1, <2>2, HearsDrops
  <2> QED BY <1>2, <2>1, <2>3, TokensKept
<1>4. CASE c = m.c
  <2> DEFINE s == call[c].replies
             a == [code |-> m.code, inc |-> m.inc]
             end == Len(s) + 1
  <2>1. Alike(call[c], call'[c]) /\ call'[c].replies = Append(s, a) /\ call'[c] \in CallType
    BY <1>4 DEF Gets
  <2>2. s \in Seq(ReplyType) /\ m \in AnswerType /\ m.code \in Codes
    BY <1>4, AnswerTyped DEF TypeOK, CallType, Gets
  <2>3. m.code # "Ready"
    BY <2>2 DEF Codes, RejectedBeforeExecution, MayHaveExecuted
  <2>4. a \in ReplyType /\ a.code = m.code
    BY <2>2, <2>3, AnswerFields DEF ReplyType
  <2> HIDE DEF a
  <2>5. /\ Len(Append(s, a)) = Len(s) + 1 /\ Append(s, a)[Len(s) + 1] = a
        /\ \A i \in 1 .. Len(s) : Append(s, a)[i] = s[i]
    BY <2>2, <2>4, AppendAt
  <2>6. ASSUME NEW codes, NEW k \in Places, NEW i \in Nat, AnswerAt(c, k, i, codes)'
        PROVE  AnswerAt(c, IF k = 0 /\ i = end THEN n ELSE k,
                           IF k = 0 /\ i = end THEN 1 ELSE IF k = n THEN i + 1 ELSE i, codes)
    <3>1. CASE k = 0
      <4>1. i \in 1 .. Len(Append(s, a)) /\ Append(s, a)[i].code \in codes
        BY <2>1, <2>6, <3>1 DEF AnswerAt
      <4>2. CASE i = end
        <5>1. m.code \in codes /\ m = toClient[n][1] /\ 1 \in 1 .. Len(toClient[n])
          <6>1. toClient[n] \in Seq(AnswerType)
            BY DEF TypeOK
          <6> QED BY <2>4, <2>5, <4>1, <4>2, <6>1, TailAt
        <5>2. n # 0
          BY DEF Attachments
        <5> QED BY <1>4, <3>1, <4>2, <5>1, <5>2 DEF AnswerAt
      <4>3. CASE i # end
        <5>1. i \in 1 .. Len(s) /\ s[i].code \in codes
          BY <2>2, <2>5, <4>1, <4>3
        <5>2. n # 0
          BY DEF Attachments
        <5> QED BY <3>1, <4>3, <5>1, <5>2 DEF AnswerAt
      <4> QED BY <4>2, <4>3
    <3>2. CASE k # 0 /\ k # n
      <4>1. k \in Attachments
        BY <3>2, PlacesAre
      <4>2. toClient'[k] = toClient[k]
        BY <3>2, <4>1, HearsOne
      <4> QED BY <2>6, <3>2, <4>2 DEF AnswerAt
    <3>3. CASE k # 0 /\ k = n
      <4>1. toClient'[n] = Tail(toClient[n]) /\ toClient[n] \in Seq(AnswerType)
        BY HearsOne DEF TypeOK
      <4>2. i \in 1 .. Len(Tail(toClient[n])) /\ Tail(toClient[n])[i].code \in codes /\ Tail(toClient[n])[i].c = c
        BY <2>6, <3>3, <4>1 DEF AnswerAt
      <4>3. i + 1 \in 1 .. Len(toClient[n]) /\ toClient[n][i + 1].code \in codes /\ toClient[n][i + 1].c = c
        BY <4>1, <4>2, TailAt
      <4> QED BY <3>3, <4>3 DEF AnswerAt
    <3> QED BY <3>1, <3>2, <3>3
  <2>7. n \in Places /\ n # 0 /\ end \in Nat \ {0}
    BY <2>2, PlacesAre DEF Attachments
  <2> DEFINE K(k, i) == IF k = 0 /\ i = end THEN n ELSE k
             I(k, i) == IF k = 0 /\ i = end THEN 1 ELSE IF k = n THEN i + 1 ELSE i
  <2>8. ASSUME NEW codes, NEW k \in Places, NEW i \in Nat, AnswerAt(c, k, i, codes)'
        PROVE  K(k, i) \in Places /\ I(k, i) \in Nat /\ AnswerAt(c, K(k, i), I(k, i), codes) /\ i # 0
    <3>1. i # 0
      BY <2>8 DEF AnswerAt
    <3> QED BY <2>6, <2>7, <2>8, <3>1
  <2>9. Refused(c)' => Refused(c)
    BY <2>8 DEF Refused
  <2>10. Overloaded(c)' => Overloaded(c)
    BY <2>8 DEF Overloaded
  <2>11. \A k, l \in Places, i, j \in Nat :
        AnswerAt(c, k, i, RejectedBeforeExecution)' /\ AnswerAt(c, l, j, {"Overloaded"})' => k = l /\ i = j
    <3> SUFFICES ASSUME NEW k \in Places, NEW l \in Places, NEW i \in Nat, NEW j \in Nat,
                        AnswerAt(c, k, i, RejectedBeforeExecution)', AnswerAt(c, l, j, {"Overloaded"})'
                 PROVE  k = l /\ i = j
      OBVIOUS
    <3>1. /\ K(k, i) \in Places /\ I(k, i) \in Nat /\ AnswerAt(c, K(k, i), I(k, i), RejectedBeforeExecution) /\ i # 0
          /\ K(l, j) \in Places /\ I(l, j) \in Nat /\ AnswerAt(c, K(l, j), I(l, j), {"Overloaded"}) /\ j # 0
      BY <2>8
    <3>2. K(k, i) = K(l, j) /\ I(k, i) = I(l, j)
      BY <3>1 DEF Tokens
    <3> QED BY <2>7, <3>1, <3>2
  <2>12. OnWire(c)' <=> OnWire(c)
    BY DEF OnWire, InvokeAt
  <2>13. \A g, h \in Connections, i, j \in Nat : InvokeAt(c, g, i)' /\ InvokeAt(c, h, j)' => g = h /\ i = j
    BY DEF Tokens, InvokeAt
  <2>14. (Unsettled(call'[c]) <=> Unsettled(call[c])) /\ call'[c].published = call[c].published
    BY <2>1, AlikeOK DEF Alike
  <2>15. /\ NoRecord(c)' <=> NoRecord(c)
         /\ NeverBegan(c)' <=> NeverBegan(c)
    BY DEF NoRecord, NeverBegan
  <2>16. /\ execs'[c] <= 1 /\ (record'[c].life = "held" => execs'[c] = 0)
         /\ (record'[c].life = "ended" /\ record'[c].outcome \in NotBegun => execs'[c] = 0)
    BY DEF Tokens
  <2>17. /\ OnWire(c)' => NoRecord(c)' /\ ~Refused(c)' /\ ~Unsettled(call'[c]) /\ call'[c].published \notin Clean
         /\ Unsettled(call'[c]) => NoRecord(c)' /\ ~Refused(c)'
         /\ Refused(c)' => NeverBegan(c)'
         /\ Overloaded(c)' => NoRecord(c)'
         /\ call'[c].published \in Clean => NeverBegan(c)'
    BY <2>9, <2>10, <2>12, <2>14, <2>15 DEF Tokens
  <2> QED BY <2>11, <2>13, <2>16, <2>17 DEF Tokens
<1> QED BY <1>3, <1>4

-----------------------------------------------------------------------------
(* The books of the host.                                                  *)

Outcomes == {"CancelledBeforeStart", "AccessRevoked", "Result", "HandlerFailed"}

LEMMA RecordFields ==
  ASSUME NEW r \in Host!Call
  PROVE  r.life \in {"none", "held", "began", "ended"} /\ r.outcome \in Outcomes \cup {"none"} /\ r.kept \in BOOLEAN
BY DEF Host!Call, Host!Outcome, Outcomes

LEMMA CallAsFields ==
  ASSUME NEW life \in {"none", "held", "began", "ended"}, NEW outcome \in Outcomes \cup {"none"},
         NEW kept \in BOOLEAN, NEW since \in Nat, NEW h, h = Host!CallAs(life, outcome, kept, since)
  PROVE  h \in Host!Call /\ h.life = life /\ h.outcome = outcome
<1>1. h = [life |-> life, outcome |-> outcome, kept |-> kept, since |-> since]
  BY DEF Host!CallAs
<1>2. outcome \in Host!Outcome \cup {"none"}
  BY DEF Host!Outcome, Outcomes
<1> QED BY <1>1, <1>2 DEF Host!Call

LEMMA HeldFields ==
  ASSUME NEW r, NEW h \in Host!Held(r)
  PROVE  r.life = "none" /\ h \in Host!Call /\ h.life = "held" /\ h.outcome = "none"
<1>1. r.life = "none" /\ h = Host!CallAs("held", "none", FALSE, 0)
  BY DEF Host!Held
<1>2. h = [life |-> "held", outcome |-> "none", kept |-> FALSE, since |-> 0]
  BY <1>1 DEF Host!CallAs
<1>3. h \in Host!Call /\ h.life = "held" /\ h.outcome = "none"
  BY <1>2 DEF Host!Call
<1> QED BY <1>1, <1>3

LEMMA BeganFields ==
  ASSUME NEW r, NEW h \in Host!Began(r)
  PROVE  r.life = "held" /\ h \in Host!Call /\ h.life = "began" /\ h.outcome = "none"
<1>1. r.life = "held" /\ h = Host!CallAs("began", "none", FALSE, 0)
  BY DEF Host!Began
<1>2. h = [life |-> "began", outcome |-> "none", kept |-> FALSE, since |-> 0]
  BY <1>1 DEF Host!CallAs
<1>3. h \in Host!Call /\ h.life = "began" /\ h.outcome = "none"
  BY <1>2 DEF Host!Call
<1> QED BY <1>1, <1>3

LEMMA EndedFields ==
  ASSUME NEW r \in Host!Call, NEW h \in Host!Ended(r, 0)
  PROVE  /\ h \in Host!Call /\ h.life = "ended" /\ h.outcome \in Outcomes
         /\ \/ r.life = "held" /\ h.outcome \in NotBegun
            \/ r.life = "began" /\ h.outcome \in {"Result", "HandlerFailed"}
<1>1. r.life \in {"none", "held", "began", "ended"}
  BY RecordFields
<1> DEFINE O == CASE r.life = "held" -> {"CancelledBeforeStart", "AccessRevoked"}
                  [] r.life = "began" -> {"Result"} \cup {"HandlerFailed"} [] OTHER -> {}
<1>2. PICK o \in O : h = Host!CallAs("ended", o, o \in {"Result"}, 0)
  BY DEF Host!Ended
<1>3. \/ r.life = "held" /\ o \in NotBegun
      \/ r.life = "began" /\ o \in {"Result", "HandlerFailed"}
  <2>1. CASE r.life = "held"
    <3>1. O = {"CancelledBeforeStart", "AccessRevoked"}
      BY <2>1
    <3> QED BY <1>2, <2>1, <3>1 DEF NotBegun
  <2>2. CASE r.life = "began"
    <3>1. O = {"Result"} \cup {"HandlerFailed"}
      BY <2>2
    <3> QED BY <1>2, <2>2, <3>1
  <2>3. CASE r.life # "held" /\ r.life # "began"
    <3>1. O = {}
      BY <2>3
    <3> QED BY <1>2, <3>1
  <2> QED BY <2>1, <2>2, <2>3
<1> HIDE DEF O
<1>4. o \in Outcomes
  BY <1>3 DEF NotBegun, Outcomes
<1>5. "ended" \in {"none", "held", "began", "ended"} /\ o \in Outcomes \cup {"none"}
      /\ (o \in {"Result"}) \in BOOLEAN /\ 0 \in Nat
  BY <1>4
<1>6. h \in Host!Call /\ h.life = "ended" /\ h.outcome = o
  <2> DEFINE kept == o \in {"Result"}
  <2>1. kept \in BOOLEAN /\ h = Host!CallAs("ended", o, kept, 0)
    BY <1>2
  <2> HIDE DEF kept
  <2> QED BY <1>5, <2>1, CallAsFields
<1> QED BY <1>3, <1>4, <1>6

LEMMA NoCallFields == Host!NoCall \in Host!Call /\ Host!NoCall.life = "none" /\ Host!NoCall.outcome = "none"
<1>1. Host!NoCall = [life |-> "none", outcome |-> "none", kept |-> FALSE, since |-> 0]
  BY DEF Host!NoCall, Host!CallAs
<1> QED BY <1>1 DEF Host!Call

LEMMA ForgottenFields ==
  ASSUME NEW r \in Host!Call, NEW h \in Host!BodyDropped(r) \cup Host!Forgotten(r, 0, FALSE)
  PROVE  /\ h \in Host!Call
         /\ \/ h.life = "none" /\ h.outcome = "none"
            \/ h.life = r.life /\ h.outcome = r.outcome
<1>1. r.life \in {"none", "held", "began", "ended"} /\ r.outcome \in Outcomes \cup {"none"}
  BY RecordFields
<1>2. r.since \in Nat
  BY DEF Host!Call
<1>3. h = [life |-> r.life, outcome |-> r.outcome, kept |-> FALSE, since |-> r.since] \/ h = Host!NoCall
  BY DEF Host!BodyDropped, Host!Forgotten, Host!CallAs
<1>4. CASE h = [life |-> r.life, outcome |-> r.outcome, kept |-> FALSE, since |-> r.since]
  <2>1. r.outcome \in Host!Outcome \cup {"none"}
    BY DEF Host!Call
  <2> QED BY <1>1, <1>2, <1>4, <2>1 DEF Host!Call
<1> QED BY <1>3, <1>4, NoCallFields

LEMMA SnapshotFields ==
  ASSUME NEW r \in Host!Call, r.life = "ended" => r.outcome # "none"
  PROVE  /\ Snapshot(r) \in Codes /\ Snapshot(r) # "Overloaded"
         /\ Snapshot(r) = "CancelledBeforeStart" => r.life = "ended" /\ r.outcome = "CancelledBeforeStart"
         /\ Snapshot(r) = "Result" => r.outcome = "Result"
<1>1. r.life \in {"none", "held", "began", "ended"}
  BY RecordFields
<1>2. CASE r.life = "none"
  BY <1>2 DEF Snapshot, Codes, MayHaveExecuted
<1>3. CASE r.life \in {"held", "began"}
  BY <1>3 DEF Snapshot, Codes
<1>4. CASE r.life = "ended"
  <2>1. Snapshot(r) = IF r.outcome = "Result" /\ ~r.kept THEN "ResultUnavailable" ELSE r.outcome
    BY <1>4 DEF Snapshot
  <2>2. r.outcome \in Outcomes
    BY <1>4, RecordFields
  <2> QED BY <1>4, <2>1, <2>2 DEF Outcomes, Codes, MayHaveExecuted, RejectedBeforeExecution
<1> QED BY <1>1, <1>2, <1>3, <1>4

LEMMA AnswerIs ==
  ASSUME TypeOK, NEW c \in Calls, NEW code \in Codes
  PROVE  Answer(c, code) \in AnswerType /\ Answer(c, code).c = c /\ Answer(c, code).code = code
BY DEF Answer, AnswerType, TypeOK

-----------------------------------------------------------------------------
(* The steps of the host in which the state of a call moves.               *)

LEMMA SendsOnWire == ASSUME NEW c, Sends(c) PROVE OnWire(c)' => OnWire(c)
<1> SUFFICES ASSUME NEW g \in Connections, NEW i \in Nat, InvokeAt(c, g, i)' PROVE OnWire(c)
  BY DEF OnWire
<1>1. PICK d \in Nat : InvokeAt(c, g, i + d)
  BY DEF Sends
<1> QED BY <1>1 DEF OnWire

LEMMA HearsRefused == ASSUME NEW c, Hears(c, RejectedBeforeExecution) PROVE Refused(c)' => Refused(c)
<1> SUFFICES ASSUME NEW k \in Places, NEW i \in Nat, AnswerAt(c, k, i, RejectedBeforeExecution)' PROVE Refused(c)
  BY DEF Refused
<1>1. PICK d \in Nat : AnswerAt(c, k, i + d, RejectedBeforeExecution)
  BY DEF Hears
<1> QED BY <1>1 DEF Refused

LEMMA HearsOverloaded == ASSUME NEW c, Hears(c, {"Overloaded"}) PROVE Overloaded(c)' => Overloaded(c)
<1> SUFFICES ASSUME NEW k \in Places, NEW i \in Nat, AnswerAt(c, k, i, {"Overloaded"})' PROVE Overloaded(c)
  BY DEF Overloaded
<1>1. PICK d \in Nat : AnswerAt(c, k, i + d, {"Overloaded"})
  BY DEF Hears
<1> QED BY <1>1 DEF Overloaded

\* A call the host knows of is not on its way, and not refused as overloaded.
LEMMA KnownTokens ==
  ASSUME NEW c \in Calls, Tokens(c), record[c].life # "none"
  PROVE  /\ ~OnWire(c) /\ ~Unsettled(call[c]) /\ ~Overloaded(c)
         /\ record[c].life # "ended" => ~Refused(c) /\ call[c].published \notin Clean
BY DEF Tokens, NoRecord, NeverBegan

\* Without an Invoke on its way or to come, and without a refusal for want of
\* room, a call is what the host knows of it.
LEMMA KnownAfter ==
  ASSUME NEW c \in Calls, ~OnWire(c)', ~Unsettled(call'[c]), ~Overloaded(c)', execs'[c] <= 1,
         \/ NeverBegan(c)'
         \/ /\ ~Refused(c)' /\ call'[c].published \notin Clean /\ record'[c].life # "held"
            /\ record'[c].life = "ended" => record'[c].outcome \notin NotBegun
  PROVE  Tokens(c)'
<1>1. \A g, h \in Connections, i, j \in Nat : InvokeAt(c, g, i)' /\ InvokeAt(c, h, j)' => g = h /\ i = j
  BY DEF OnWire
<1>2. \A k, l \in Places, i, j \in Nat :
       AnswerAt(c, k, i, RejectedBeforeExecution)' /\ AnswerAt(c, l, j, {"Overloaded"})' => k = l /\ i = j
  BY DEF Overloaded
<1> QED BY <1>1, <1>2 DEF Tokens, NeverBegan

LEMMA TokensBegun ==
  ASSUME TypeOK, NEW c \in Calls, Tokens(c), record[c].life = "held", record'[c].life = "began",
         execs'[c] = execs[c] + 1, UNCHANGED <<call, wires>>
  PROVE  Tokens(c)'
<1>1. ~OnWire(c) /\ ~Unsettled(call[c]) /\ ~Overloaded(c) /\ ~Refused(c) /\ call[c].published \notin Clean
  BY KnownTokens
<1>2. execs'[c] = 1
  BY DEF Tokens
<1>3. ~OnWire(c)' /\ ~Overloaded(c)' /\ ~Refused(c)' /\ call' = call
  BY <1>1 DEF OnWire, Overloaded, Refused, InvokeAt, AnswerAt, wires
<1> QED BY <1>1, <1>2, <1>3, KnownAfter

\* A call the host knows of ends, or has ended, and its code may be sent.
LEMMA TokensEnded ==
  ASSUME TypeOK, NEW c \in Calls, Tokens(c), UNCHANGED call, execs'[c] = execs[c], Sends(c), Hears(c, {"Overloaded"}),
         record[c].life # "none", record'[c].life = "ended",
         \/ record'[c].outcome \in NotBegun /\ (record[c].life = "held" \/ record[c] = record'[c])
         \/ /\ record'[c].outcome \notin NotBegun /\ record[c].life = "began"
            /\ Hears(c, RejectedBeforeExecution)
  PROVE  Tokens(c)'
<1>1. ~OnWire(c) /\ ~Unsettled(call[c]) /\ ~Overloaded(c)
  BY KnownTokens
<1>2. ~OnWire(c)' /\ ~Overloaded(c)' /\ ~Unsettled(call'[c])
  BY <1>1, SendsOnWire, HearsOverloaded
<1>3. execs'[c] <= 1
  BY DEF Tokens
<1>4. CASE record'[c].outcome \in NotBegun /\ (record[c].life = "held" \/ record[c] = record'[c])
  <2>1. execs'[c] = 0
    BY <1>4 DEF Tokens
  <2>2. NeverBegan(c)'
    BY <1>4, <2>1 DEF NeverBegan
  <2> QED BY <1>2, <1>3, <2>2, KnownAfter
<1>5. CASE /\ record'[c].outcome \notin NotBegun /\ record[c].life = "began"
           /\ Hears(c, RejectedBeforeExecution)
  <2>1. ~Refused(c) /\ call[c].published \notin Clean
    BY <1>5, KnownTokens
  <2>2. ~Refused(c)' /\ call'[c].published \notin Clean
    BY <1>5, <2>1, HearsRefused
  <2> QED BY <1>2, <1>3, <1>5, <2>2, KnownAfter
<1> QED BY <1>4, <1>5

\* The Invoke of c has reached the host.
LEMMA TokenTaken ==
  ASSUME TypeOK, NEW c \in Calls, Tokens(c), NEW g \in Connections, Take(g),
         Head(toHost[g]).kind = "Invoke", Head(toHost[g]).c = c
  PROVE  /\ NoRecord(c) /\ ~Refused(c) /\ ~Unsettled(call[c]) /\ call[c].published \notin Clean
         /\ ~OnWire(c)'
<1>1. toHost[g] \in Seq(RequestType) /\ toHost[g] # <<>> /\ toHost'[g] = Tail(toHost[g])
      /\ \A h \in Connections \ {g} : toHost'[h] = toHost[h]
  BY TakesOne DEF TypeOK
<1>2. InvokeAt(c, g, 1)
  BY <1>1, TailAt DEF InvokeAt
<1>3. OnWire(c)
  BY <1>2 DEF OnWire
<1>4. ASSUME NEW h \in Connections, NEW i \in Nat, InvokeAt(c, h, i)' PROVE FALSE
  <2>1. CASE h # g
    <3>1. InvokeAt(c, h, i)
      BY <1>1, <1>4, <2>1 DEF InvokeAt
    <3> QED BY <1>2, <2>1, <3>1 DEF Tokens
  <2>2. CASE h = g
    <3>1. i \in 1 .. Len(Tail(toHost[g])) /\ Tail(toHost[g])[i].kind = "Invoke" /\ Tail(toHost[g])[i].c = c
      BY <1>1, <1>4, <2>2 DEF InvokeAt
    <3>2. InvokeAt(c, g, i + 1)
      BY <1>1, <3>1, TailAt DEF InvokeAt
    <3>3. i + 1 = 1
      BY <1>2, <3>2 DEF Tokens
    <3> QED BY <3>1, <3>3
  <2> QED BY <2>1, <2>2
<1> QED BY <1>3, <1>4 DEF Tokens, OnWire

LEMMA TokensHeld ==
  ASSUME TypeOK, NEW c \in Calls, Tokens(c), NEW g \in Connections, Take(g),
         Head(toHost[g]).kind = "Invoke", Head(toHost[g]).c = c,
         UNCHANGED <<call, toClient, execs>>, record'[c].life = "held"
  PROVE  Tokens(c)'
<1>1. NoRecord(c) /\ ~Refused(c) /\ ~Unsettled(call[c]) /\ call[c].published \notin Clean /\ ~OnWire(c)'
  BY TokenTaken
<1>2. ~Refused(c)'
  BY <1>1 DEF Refused, AnswerAt
<1>3. ~Overloaded(c)'
  <2> SUFFICES ASSUME NEW k \in Places, NEW i \in Nat, AnswerAt(c, k, i, {"Overloaded"})' PROVE FALSE
    BY DEF Overloaded
  <2>1. AnswerAt(c, k, i, RejectedBeforeExecution)'
    BY DEF AnswerAt, RejectedBeforeExecution
  <2> QED BY <1>2, <2>1 DEF Refused
<1>4. execs'[c] = 0
  BY <1>1 DEF NoRecord
<1>5. \A h, f \in Connections, i, j \in Nat : InvokeAt(c, h, i)' /\ InvokeAt(c, f, j)' => h = f /\ i = j
  BY <1>1 DEF OnWire
<1>6. \A k, l \in Places, i, j \in Nat :
       AnswerAt(c, k, i, RejectedBeforeExecution)' /\ AnswerAt(c, l, j, {"Overloaded"})' => k = l /\ i = j
  BY <1>3 DEF Overloaded
<1> QED BY <1>1, <1>2, <1>3, <1>4, <1>5, <1>6 DEF Tokens

\* The Invoke is refused: the one answer to it is the only one.
LEMMA TokensRefused ==
  ASSUME TypeOK, Served, NEW c \in Calls, Tokens(c), NEW g \in Connections, Take(g),
         Head(toHost[g]).kind = "Invoke", Head(toHost[g]).c = c,
         UNCHANGED <<call, execs, record>>, NEW m \in AnswerType, Reply(g, m)
  PROVE  Tokens(c)'
<1>1. NoRecord(c) /\ ~Refused(c) /\ ~Unsettled(call[c]) /\ call[c].published \notin Clean /\ ~OnWire(c)'
  BY TokenTaken
<1>2. \A n \in Attachments : toClient'[n] = IF n \in Current(g) THEN Append(toClient[n], m) ELSE toClient[n]
  BY DEF Reply
<1>3. ASSUME NEW k \in Places, NEW i \in Nat, AnswerAt(c, k, i, RejectedBeforeExecution)'
      PROVE  k \in Current(g) /\ i = Len(toClient[k]) + 1
  <2>1. CASE k = 0
    BY <1>1, <1>3, <2>1 DEF AnswerAt, Refused
  <2>2. CASE k # 0
    <3>1. k \in Attachments
      BY <2>2, PlacesAre
    <3>2. i \in 1 .. Len(toClient'[k]) /\ toClient'[k][i].code \in RejectedBeforeExecution /\ toClient'[k][i].c = c
      BY <1>3, <2>2 DEF AnswerAt
    <3>3. ~(i \in 1 .. Len(toClient[k]) /\ toClient'[k][i] = toClient[k][i])
      BY <1>1, <2>2, <3>2 DEF Refused, AnswerAt
    <3>4. CASE k \notin Current(g)
      BY <1>2, <3>1, <3>2, <3>3, <3>4
    <3>5. CASE k \in Current(g)
      <4>1. toClient[k] \in Seq(AnswerType)
        BY <3>1 DEF TypeOK
      <4>2. toClient'[k] = Append(toClient[k], m)
        BY <1>2, <3>1, <3>5
      <4>3. Len(toClient'[k]) = Len(toClient[k]) + 1 /\ \A x \in 1 .. Len(toClient[k]) : toClient'[k][x] = toClient[k][x]
        BY <4>1, <4>2, AppendAt
      <4>4. i \notin 1 .. Len(toClient[k])
        BY <3>3, <4>3
      <4>5. Len(toClient[k]) \in Nat
        BY <4>1
      <4> QED BY <3>2, <3>5, <4>3, <4>4, <4>5
    <3> QED BY <3>4, <3>5
  <2> QED BY <2>1, <2>2
<1>4. \A k, l \in Current(g) : k = l
  BY DEF Current, Served, Distinct, Connections
<1>5. \A k \in Places, i \in Nat : AnswerAt(c, k, i, {"Overloaded"})' => AnswerAt(c, k, i, RejectedBeforeExecution)'
  BY DEF AnswerAt, RejectedBeforeExecution
<1>6. \A k, l \in Places, i, j \in Nat :
       AnswerAt(c, k, i, RejectedBeforeExecution)' /\ AnswerAt(c, l, j, {"Overloaded"})' => k = l /\ i = j
  BY <1>3, <1>4, <1>5
<1>7. NoRecord(c)' /\ NeverBegan(c)' /\ execs'[c] = 0 /\ record'[c].life = "none"
  BY <1>1 DEF NoRecord, NeverBegan
<1>8. \A h, f \in Connections, i, j \in Nat : InvokeAt(c, h, i)' /\ InvokeAt(c, f, j)' => h = f /\ i = j
  BY <1>1 DEF OnWire
<1> QED BY <1>1, <1>6, <1>7, <1>8 DEF Tokens

-----------------------------------------------------------------------------
(* What is left to show of a step: calls.                                  *)

AllKeep ==
  /\ call' \in [Calls -> CallType]
  /\ \A d \in Calls :
       /\ CallOK(call'[d]) /\ (call'[d].again => d \in Idempotent)
       /\ call'[d].evidence = "HandlerFinished" => d \in finished
       /\ call[d].accepted => call'[d].accepted /\ call'[d].gen = call[d].gen
       /\ call[d].owner # 0 => call'[d].owner # 0

LEMMA InvCalls ==
  ASSUME SystemInv
  PROVE  /\ TypeOK /\ CallsOK /\ Served /\ Receipts
         /\ \A d \in Calls : /\ call[d] \in CallType /\ CallOK(call[d]) /\ (~call[d].again => Tokens(d))
                             /\ call[d].again => d \in Idempotent
                             /\ Known(d)
BY DEF SystemInv, CallInv, CallsOK, TypeOK

LEMMA ResultKnown ==
  ASSUME NEW c \in Calls, Known(c), NEW i \in 1 .. Len(call[c].replies), call[c].replies[i].code = "Result"
  PROVE  c \in finished
<1>1. 0 \in Places
  BY PlacesAre
<1>2. AnswerAt(c, 0, i, {"Result"})
  BY DEF AnswerAt
<1> QED BY <1>1, <1>2 DEF Known

LEMMA GoKeep == ASSUME SystemInv, AllGo PROVE AllKeep
<1>1. ASSUME NEW d \in Calls
      PROVE  /\ CallOK(call'[d]) /\ (call'[d].again => d \in Idempotent)
             /\ call'[d].evidence = "HandlerFinished" => d \in finished
             /\ call[d].accepted => call'[d].accepted /\ call'[d].gen = call[d].gen
             /\ call[d].owner # 0 => call'[d].owner # 0
  <2>1. CallOK(call'[d]) /\ Goes(call[d], call'[d]) /\ (call'[d].again => call[d].again \/ d \in Idempotent)
    BY DEF AllGo
  <2>2. Known(d) /\ (call[d].again => d \in Idempotent)
    BY InvCalls
  <2>3. call'[d].evidence = "HandlerFinished" =>
          call[d].evidence = "HandlerFinished" \/ \E i \in 1 .. Len(call[d].replies) : call[d].replies[i].code = "Result"
    BY <2>1 DEF Goes
  <2>4. call'[d].evidence = "HandlerFinished" => d \in finished
    BY <2>2, <2>3, ResultKnown DEF Known
  <2>5. /\ call[d].accepted => call'[d].accepted /\ call'[d].gen = call[d].gen
        /\ call[d].owner # 0 => call'[d].owner # 0
    BY <2>1 DEF Goes
  <2> QED BY <2>1, <2>2, <2>4, <2>5
<1> QED BY <1>1 DEF AllKeep, AllGo

LEMMA RejectKeep == ASSUME SystemInv, NEW c \in Calls, Rejects(c) PROVE AllKeep
<1>1. PICK q \in CallType :
        /\ call' = [call EXCEPT ![c] = q] /\ CallOK(q) /\ ~q.again
        /\ q.evidence # "HandlerFinished" /\ q.gen = call[c].gen /\ (call[c].accepted => q.accepted)
        /\ q.owner = call[c].owner
  BY DEF Rejects
<1>2. call' \in [Calls -> CallType] /\ call'[c] = q /\ \A d \in Calls \ {c} : call'[d] = call[d]
  BY <1>1, InvCalls DEF TypeOK
<1>3. \A d \in Calls : CallOK(call[d]) /\ (call[d].again => d \in Idempotent)
                       /\ (call[d].evidence = "HandlerFinished" => d \in finished)
  BY InvCalls DEF Known
<1>4. ASSUME NEW d \in Calls
      PROVE  /\ CallOK(call'[d]) /\ (call'[d].again => d \in Idempotent)
             /\ call'[d].evidence = "HandlerFinished" => d \in finished
             /\ call[d].accepted => call'[d].accepted /\ call'[d].gen = call[d].gen
             /\ call[d].owner # 0 => call'[d].owner # 0
  BY <1>1, <1>2, <1>3
<1> QED BY <1>2, <1>4 DEF AllKeep

LEMMA GetKeep == ASSUME SystemInv, NEW n \in Attachments, Gets(n) PROVE AllKeep
<1> DEFINE c == Head(toClient[n]).c
<1>1. /\ c \in Calls /\ call' \in [Calls -> CallType] /\ Alike(call[c], call'[c])
      /\ \A d \in Calls \ {c} : call'[d] = call[d]
  BY DEF Gets
<1> HIDE DEF c
<1>2. \A d \in Calls : CallOK(call[d]) /\ (call[d].again => d \in Idempotent)
                       /\ (call[d].evidence = "HandlerFinished" => d \in finished)
  BY InvCalls DEF Known
<1>3. CallOK(call'[c])
  BY <1>1, <1>2, AlikeOK
<1>4. call'[c].again = call[c].again /\ call'[c].evidence = call[c].evidence /\ call'[c].accepted = call[c].accepted
      /\ call'[c].gen = call[c].gen /\ call'[c].owner = call[c].owner
  BY <1>1 DEF Alike
<1>5. ASSUME NEW d \in Calls
      PROVE  /\ CallOK(call'[d]) /\ (call'[d].again => d \in Idempotent)
             /\ call'[d].evidence = "HandlerFinished" => d \in finished
             /\ call[d].accepted => call'[d].accepted /\ call'[d].gen = call[d].gen
             /\ call[d].owner # 0 => call'[d].owner # 0
  BY <1>1, <1>2, <1>3, <1>4
<1> QED BY <1>1, <1>5 DEF AllKeep

LEMMA GoTokens ==
  ASSUME SystemInv, NEW c \in Calls, Goes(call[c], call'[c]), ~call'[c].again,
         Sends(c), Hears(c, RejectedBeforeExecution), Hears(c, {"Overloaded"}), execs'[c] = execs[c],
         \/ record'[c].life = "none"
         \/ record'[c].life = record[c].life /\ record'[c].outcome = record[c].outcome
  PROVE  Tokens(c)'
<1>1. ~call[c].again
  BY DEF Goes
<1>2. Tokens(c)
  BY <1>1, InvCalls
<1>3. Unsettled(call'[c]) => Unsettled(call[c])
  BY DEF Goes
<1>4. call'[c].published \in Clean => call[c].published \in Clean \/ Unsettled(call[c])
  BY DEF Goes
<1> QED BY <1>2, <1>3, <1>4, TokensKept

\* The calls after a step, from what it does to each.
LEMMA CallsAfter ==
  ASSUME AllKeep, \A d \in Calls : ~call'[d].again => Tokens(d)'
  PROVE  \A d \in Calls : CallInv(d)'
BY DEF AllKeep, CallInv

-----------------------------------------------------------------------------
(* What is left to show of a step: results and receipts.                   *)

LEMMA HeardKnown ==
  ASSUME SystemInv, AllKeep, NEW c \in Calls, finished \subseteq finished', Hears(c, {"Result"}),
         record'[c].outcome = "Result" => c \in finished',
         record'[c].life = "ended" => record'[c].outcome # "none"
  PROVE  Known(c)'
<1>1. Known(c)
  BY InvCalls
<1>2. ASSUME NEW k \in Places, NEW i \in Nat, AnswerAt(c, k, i, {"Result"})' PROVE c \in finished'
  <2>1. PICK d \in Nat : AnswerAt(c, k, i + d, {"Result"})
    BY <1>2 DEF Hears
  <2> QED BY <1>1, <2>1 DEF Known
<1>3. call'[c].evidence = "HandlerFinished" => c \in finished'
  BY DEF AllKeep
<1> QED BY <1>2, <1>3 DEF Known

LEMMA FinishedKnown ==
  ASSUME NEW c, c \in finished', record'[c].life = "ended" => record'[c].outcome # "none"
  PROVE  Known(c)'
BY DEF Known

\* The records of the host say no more than before.
RecordKeeps(c) ==
  \/ record'[c].life = "none" /\ record'[c].outcome = "none"
  \/ record'[c].life = record[c].life /\ record'[c].outcome = record[c].outcome

LEMMA RecordsSame == ASSUME UNCHANGED record, NEW c PROVE RecordKeeps(c)
BY DEF RecordKeeps

LEMMA KeptKnown ==
  ASSUME SystemInv, AllKeep, NEW c \in Calls, finished \subseteq finished', Hears(c, {"Result"}), RecordKeeps(c)
  PROVE  Known(c)'
<1>1. Known(c)
  BY InvCalls
<1>2. (record'[c].outcome = "Result" => c \in finished') /\ (record'[c].life = "ended" => record'[c].outcome # "none")
  BY <1>1 DEF Known, RecordKeeps
<1> QED BY <1>2, HeardKnown

DueAfter(c, g) == c \in finished' /\ (c \in Accepting => call'[c].accepted /\ call'[c].gen = g)

LEMMA DueStays ==
  ASSUME AllKeep, finished \subseteq finished', NEW c \in Calls, NEW g, Due(c, g)
  PROVE  DueAfter(c, g)
BY DEF Due, DueAfter, AllKeep

\* A control of the next state belongs where it is.
Placed(x) == call'[x.c].owner # 0 /\ (x.kind = "Receipt" => DueAfter(x.c, x.gen))

LEMMA OldPlaced ==
  ASSUME SystemInv, AllKeep, finished \subseteq finished', NEW x \in controls
  PROVE  Placed(x)
<1> DEFINE y == x.c
           g == x.gen
<1>1. y \in Calls /\ call[y].owner # 0 /\ (x.kind = "Receipt" => Due(y, g))
  BY InvCalls DEF TypeOK, ControlType, Receipts
<1> HIDE DEF y, g
<1>2. call'[y].owner # 0 /\ (x.kind = "Receipt" => DueAfter(y, g))
  BY <1>1, DueStays DEF AllKeep
<1> QED BY <1>2 DEF y, g, Placed

LEMMA ControlsAdded ==
  ASSUME SystemInv, AllKeep, finished \subseteq finished', NEW c \in Calls, NewControls(c)
  PROVE  controls' \subseteq ControlType /\ \A x \in controls' : Placed(x)
<1>1. controls' \subseteq ControlType
  BY InvCalls DEF NewControls, TypeOK
<1>2. ASSUME NEW x \in controls' PROVE Placed(x)
  <2>1. CASE x \in controls
    BY <2>1, OldPlaced
  <2>2. CASE x \notin controls
    <3>1. /\ x.c = c /\ call[c].owner # 0
          /\ x.kind = "Receipt" =>
               /\ call'[c].evidence = "HandlerFinished"
               /\ c \in Accepting => call'[c].accepted /\ call'[c].gen = x.gen
      BY <2>2 DEF NewControls
    <3>2. call'[c].owner # 0 /\ (x.kind = "Receipt" => c \in finished')
      BY <3>1 DEF AllKeep
    <3> QED BY <3>1, <3>2 DEF Placed, DueAfter
  <2> QED BY <2>1, <2>2
<1> QED BY <1>1, <1>2

ReceiptsAllDue(g) ==
  \A i \in 1 .. Len(toHost'[g]) : toHost'[g][i].kind = "Receipt" => DueAfter(toHost'[g][i].c, g)

LEMMA DropsDue ==
  ASSUME SystemInv, AllKeep, finished \subseteq finished', NEW g \in Connections, Drops(toHost[g], toHost'[g])
  PROVE  ReceiptsAllDue(g)
<1> SUFFICES ASSUME NEW i \in 1 .. Len(toHost'[g]), toHost'[g][i].kind = "Receipt"
             PROVE  DueAfter(toHost'[g][i].c, g)
  BY DEF ReceiptsAllDue
<1>1. PICK j \in 1 .. Len(toHost[g]) : toHost'[g][i] = toHost[g][j]
  BY DEF Drops
<1>2. Due(toHost[g][j].c, g)
  BY <1>1, InvCalls DEF Receipts
<1>3. toHost[g] \in Seq(RequestType)
  BY InvCalls DEF TypeOK
<1> DEFINE m == toHost[g][j]
           y == m.c
<1>4. m \in RequestType /\ m.kind = "Receipt"
  BY <1>1, <1>3
<1>5. y \in Calls /\ Due(y, g)
  BY <1>2, <1>4, RequestFields
<1>6. y = toHost'[g][i].c
  BY <1>1
<1> HIDE DEF y, m
<1>7. DueAfter(y, g)
  BY <1>5, DueStays
<1> QED BY <1>6, <1>7

LEMMA SendsDue ==
  ASSUME SystemInv, AllKeep, finished \subseteq finished', NEW g \in Connections, NEW m \in RequestType,
         toHost'[g] = Append(toHost[g], m), m.kind = "Receipt" => Due(m.c, g)
  PROVE  ReceiptsAllDue(g)
<1> SUFFICES ASSUME NEW i \in 1 .. Len(toHost'[g]), toHost'[g][i].kind = "Receipt"
             PROVE  DueAfter(toHost'[g][i].c, g)
  BY DEF ReceiptsAllDue
<1>1. toHost[g] \in Seq(RequestType)
  BY InvCalls DEF TypeOK
<1> DEFINE x == toHost'[g][i]
           y == x.c
<1>2. x = m \/ \E j \in 1 .. Len(toHost[g]) : x = toHost[g][j]
  BY <1>1, AppendAt
<1>3. x \in RequestType
  BY <1>1, <1>2
<1>4. Due(y, g)
  BY <1>2, InvCalls DEF Receipts
<1>5. y \in Calls
  BY <1>3, RequestFields
<1>6. y = toHost'[g][i].c
  OBVIOUS
<1> HIDE DEF y, x
<1>7. DueAfter(y, g)
  BY <1>4, <1>5, DueStays
<1> QED BY <1>6, <1>7

LEMMA ReceiptsAfter ==
  ASSUME \A x \in controls' : Placed(x), \A g \in Connections : ReceiptsAllDue(g)
  PROVE  Receipts'
BY DEF Receipts, Placed, Due, DueAfter, ReceiptsAllDue

-----------------------------------------------------------------------------
(* What is left to show of a step: connections.                            *)

LEMMA DropsNone ==
  ASSUME NEW S, NEW s \in Seq(S), NEW t \in Seq(S), Drops(s, t), t # <<>>
  PROVE  s # <<>>
<1>1. 1 \in 1 .. Len(t)
  BY TailAt
<1>2. PICK d \in Nat : 1 + d \in 1 .. Len(s)
  BY <1>1 DEF Drops
<1> QED BY <1>2, EmptyAt

\* What connection g carries to the host is not new, or is message m on the
\* connection of an attachment.
Carries(g) ==
  \/ Drops(toHost[g], toHost'[g])
  \/ \E m \in RequestType, n \in Attachments :
       /\ toHost'[g] = Append(toHost[g], m) /\ att[n].state = "Connected" /\ att[n].gen = g
       /\ m.kind = "Hello" => m.gen = g

\* No READY for attachment n is new.
NoReady(n) ==
  \A i \in 1 .. Len(toClient'[n]) : toClient'[n][i].code = "Ready" =>
    \E j \in 1 .. Len(toClient[n]) : toClient'[n][i] = toClient[n][j]

LEMMA DropsReady ==
  ASSUME NEW n, Drops(toClient[n], toClient'[n])
  PROVE  NoReady(n)
BY DEF NoReady, Drops

LEMMA GrowsReady ==
  ASSUME TypeOK, NEW n \in Attachments, NEW m \in AnswerType, m.code # "Ready",
         toClient'[n] = Append(toClient[n], m)
  PROVE  NoReady(n)
<1>1. toClient[n] \in Seq(AnswerType)
  BY DEF TypeOK
<1> QED BY <1>1, AppendAt DEF NoReady

LEMMA ReplyReady ==
  ASSUME TypeOK, NEW g, NEW m \in AnswerType, m.code # "Ready", Reply(g, m)
  PROVE  \A n \in Attachments : NoReady(n)
BY RepliesOne, DropsReady, GrowsReady

\* An attachment keeps its number or gets a larger one.
LEMMA GenGrows ==
  ASSUME TypeOK, AttStep, NEW n \in Attachments
  PROVE  att[n].gen <= att'[n].gen /\ att[n].gen \in 0 .. MaxConnections /\ att'[n].gen \in 0 .. MaxConnections
<1>1. att[n] \in LinkType /\ att'[n] \in LinkType
  BY DEF TypeOK, AttStep
<1>2. att[n].gen \in 0 .. MaxConnections /\ att'[n].gen \in 0 .. MaxConnections
  BY <1>1 DEF LinkType
<1>3. CASE \A m \in Attachments : Stays(m)
  BY <1>2, <1>3 DEF Stays
<1>4. CASE \E m \in Attachments : Rejoins(m)
  <2>1. PICK m \in Attachments : Rejoins(m)
    BY <1>4
  <2>2. att[n].gen < att'[m].gen /\ (n # m => att'[n] = att[n])
    BY <2>1 DEF Rejoins
  <2> QED BY <1>2, <2>2
<1> QED BY <1>3, <1>4 DEF AttStep

LEMMA StaysOld ==
  ASSUME SystemInv, AttStep, TypeOK', NEW g \in Connections, served'[g] = served[g], inc' = inc, Carries(g)
  PROVE  ServedOnce(g)'
<1>1. ServedOnce(g) /\ TypeOK
  BY InvCalls DEF Served
<1>2. toHost[g] \in Seq(RequestType) /\ toHost'[g] \in Seq(RequestType)
  BY <1>1 DEF TypeOK
<1>3. \A n \in Attachments : att[n].gen <= att'[n].gen /\ att[n].gen \in 0 .. MaxConnections /\ att'[n].gen \in 0 .. MaxConnections
  BY <1>1, GenGrows
<1>4. MaxConnections \in Nat /\ g \in Nat
  BY ClientAssumption DEF Connections
<1>5. (served[g] # 0 \/ toHost[g] # <<>>) => \E n \in Attachments : g <= att'[n].gen
  <2> SUFFICES ASSUME served[g] # 0 \/ toHost[g] # <<>> PROVE \E n \in Attachments : g <= att'[n].gen
    OBVIOUS
  <2>1. PICK n \in Attachments : g <= att[n].gen
    BY <1>1 DEF ServedOnce
  <2>2. g <= att'[n].gen
    BY <1>3, <1>4, <2>1
  <2> QED BY <2>2
<1>6. served[g] \notin {0, inc} => \A n \in Attachments : att'[n].gen = g => att'[n].state # "Connected"
  <2> SUFFICES ASSUME served[g] \notin {0, inc}, NEW n \in Attachments, att'[n].gen = g, att'[n].state = "Connected"
               PROVE  FALSE
    OBVIOUS
  <2>1. \A m \in Attachments : att[m].gen = g => att[m].state # "Connected"
    BY <1>1 DEF ServedOnce
  <2>2. PICK m \in Attachments : g <= att[m].gen
    BY <1>1 DEF ServedOnce
  <2>3. CASE \A k \in Attachments : Stays(k)
    BY <2>1, <2>3 DEF Stays
  <2>4. CASE \E k \in Attachments : Rejoins(k)
    <3>1. PICK k \in Attachments : Rejoins(k)
      BY <2>4
    <3>2. att[m].gen < att'[k].gen /\ (n # k => att'[n] = att[n])
      BY <3>1 DEF Rejoins
    <3>3. n = k
      BY <2>1, <3>2
    <3> QED BY <1>3, <1>4, <2>2, <3>2, <3>3
  <2> QED BY <2>3, <2>4 DEF AttStep
<1>7. served'[g] \in 0 .. inc'
  BY <1>1 DEF ServedOnce
<1>8. CASE Drops(toHost[g], toHost'[g])
  <2>1. toHost'[g] # <<>> => toHost[g] # <<>>
    BY <1>2, <1>8, DropsNone
  <2>2. \A i \in 1 .. Len(toHost'[g]) : toHost'[g][i].kind = "Hello" => toHost'[g][i].gen = g
    BY <1>1, <1>8 DEF Drops, ServedOnce
  <2>3. served[g] \notin {0, inc} => toHost[g] = <<>>
    BY <1>1 DEF ServedOnce
  <2> QED BY <1>5, <1>6, <1>7, <2>1, <2>2, <2>3 DEF ServedOnce
<1>9. CASE ~Drops(toHost[g], toHost'[g])
  <2>1. PICK m \in RequestType, n \in Attachments :
          /\ toHost'[g] = Append(toHost[g], m) /\ att[n].state = "Connected" /\ att[n].gen = g
          /\ m.kind = "Hello" => m.gen = g
    BY <1>9 DEF Carries
  <2>2. served[g] \in {0, inc}
    BY <1>1, <2>1 DEF ServedOnce
  <2>3. g <= att'[n].gen
    BY <1>3, <2>1
  <2>4. \A i \in 1 .. Len(toHost'[g]) : toHost'[g][i].kind = "Hello" => toHost'[g][i].gen = g
    BY <1>1, <1>2, <2>1, AppendAt DEF ServedOnce
  <2> QED BY <1>7, <2>2, <2>3, <2>4 DEF ServedOnce
<1> QED BY <1>8, <1>9

LEMMA StaysDistinct == ASSUME SystemInv, AttStep PROVE Distinct'
<1>1. Distinct /\ TypeOK
  BY InvCalls DEF Served
<1>2. \A n \in Attachments : att[n].gen \in 0 .. MaxConnections /\ att'[n].gen \in 0 .. MaxConnections
  BY <1>1, GenGrows
<1>3. CASE \A k \in Attachments : Stays(k)
  BY <1>1, <1>3 DEF Stays, Distinct
<1>4. CASE \E k \in Attachments : Rejoins(k)
  <2>1. PICK k \in Attachments : Rejoins(k)
    BY <1>4
  <2>2. \A m \in Attachments : att[m].gen < att'[k].gen /\ (m # k => att'[m] = att[m])
    BY <2>1 DEF Rejoins
  <2>3. ASSUME NEW m \in Attachments, NEW n \in Attachments, att'[m].gen = att'[n].gen, att'[m].gen # 0
        PROVE  m = n
    <3>1. CASE m # k /\ n # k
      BY <1>1, <2>2, <2>3, <3>1 DEF Distinct
    <3>2. CASE m = k /\ n # k
      BY <1>2, <2>2, <2>3, <3>2
    <3>3. CASE m # k /\ n = k
      BY <1>2, <2>2, <2>3, <3>3
    <3> QED BY <3>1, <3>2, <3>3
  <2> QED BY <2>3 DEF Distinct
<1> QED BY <1>3, <1>4 DEF AttStep

LEMMA StaysTruthful ==
  ASSUME SystemInv, AttStep, NEW n \in Attachments, NoReady(n), served' = served
  PROVE  ReadyTruthful(n)'
<1>1. ReadyTruthful(n)
  BY InvCalls DEF Served
<1>2. \A i \in 1 .. Len(toClient'[n]) : toClient'[n][i].code = "Ready" =>
        toClient'[n][i].inc # 0 /\ toClient'[n][i].inc = served[toClient'[n][i].gen]
  BY <1>1 DEF ReadyTruthful, NoReady
<1>3. att'[n].ready.gen = 0 \/ att'[n].ready = att[n].ready \/ Heard(n)
  <2>1. CASE \A k \in Attachments : Stays(k)
    BY <2>1 DEF Stays
  <2>2. CASE \E k \in Attachments : Rejoins(k)
    BY <2>2 DEF Rejoins
  <2> QED BY <2>1, <2>2 DEF AttStep
<1>4. att'[n].ready.gen # 0 => att'[n].ready.inc # 0 /\ att'[n].ready.inc = served[att'[n].ready.gen]
  <2>1. CASE Heard(n)
    BY <1>1, <2>1 DEF Heard, ReadyTruthful
  <2> QED BY <1>1, <1>3, <2>1 DEF ReadyTruthful
<1> QED BY <1>2, <1>4 DEF ReadyTruthful

\* A step other than HELLO and a restart of the host.
LEMMA ServedAfter ==
  ASSUME SystemInv, AttStep, TypeOK', UNCHANGED <<served, inc>>,
         \A g \in Connections : Carries(g), \A n \in Attachments : NoReady(n)
  PROVE  Served'
<1>1. \A g \in Connections : ServedOnce(g)'
  BY StaysOld
<1>2. \A n \in Attachments : ReadyTruthful(n)'
  BY StaysTruthful
<1> QED BY <1>1, <1>2, StaysDistinct DEF Served

-----------------------------------------------------------------------------
(* The steps of the client.                                                *)

LEMMA InvAfter ==
  ASSUME TypeOK', AllKeep, \A d \in Calls : ~call'[d].again => Tokens(d)', \A d \in Calls : Known(d)',
         \A x \in controls' : Placed(x), \A g \in Connections : ReceiptsAllDue(g), Served'
  PROVE  SystemInv'
BY CallsAfter, ReceiptsAfter DEF SystemInv

\* The client has moved, and the host has not.
ClientTyped ==
  /\ attachment' \in 0 .. MaxAttachments /\ AttStep /\ slots' \in Nat /\ controls' \subseteq ControlType
  /\ toHost' \in [Connections -> Seq(RequestType)] /\ toClient' \in [Attachments -> Seq(AnswerType)]

LEMMA TypeAfter == ASSUME TypeOK, ClientTyped, AllKeep, UNCHANGED hostVars PROVE TypeOK'
BY DEF TypeOK, ClientTyped, AttStep, AllKeep, hostVars

LEMMA GoesAfter ==
  ASSUME AllGo, NEW d \in Calls
  PROVE  Goes(call[d], call'[d]) /\ Drops(call[d].replies, call'[d].replies)
BY DEF AllGo, Goes

\* The host is as it was, nothing is new on the way to the client, and the
\* Invokes of each call are those that were on their way or are accounted for.
LEMMA GoAfter ==
  ASSUME SystemInv, AllGo, ClientTyped, UNCHANGED hostVars, \A x \in controls' : Placed(x),
         \A g \in Connections : Carries(g) /\ ReceiptsAllDue(g),
         \A n \in Attachments : Drops(toClient[n], toClient'[n]),
         \A d \in Calls : Sends(d) \/ (~call'[d].again => Tokens(d)')
  PROVE  SystemInv'
<1>1. TypeOK /\ AllKeep
  BY InvCalls, GoKeep
<1>2. TypeOK'
  BY <1>1, TypeAfter
<1>3. execs' = execs /\ record' = record /\ finished' = finished /\ served' = served /\ inc' = inc
  BY DEF hostVars
<1>4. ASSUME NEW d \in Calls
      PROVE  Known(d)' /\ (~call'[d].again => Tokens(d)')
  <2>1. Goes(call[d], call'[d]) /\ Drops(call[d].replies, call'[d].replies)
    BY GoesAfter
  <2>2. Hears(d, RejectedBeforeExecution) /\ Hears(d, {"Overloaded"}) /\ Hears(d, {"Result"})
    BY <2>1, HearsDrops
  <2>3. Known(d)'
    BY <1>1, <1>3, <2>2, KeptKnown, RecordsSame
  <2>4. CASE Sends(d)
    BY <1>3, <2>1, <2>2, <2>3, <2>4, GoTokens
  <2> QED BY <2>3, <2>4
<1>5. Served'
  BY <1>2, <1>3, DropsReady, ServedAfter DEF ClientTyped
<1> QED BY <1>1, <1>2, <1>4, <1>5, InvAfter

\* Nothing is new on the wires.
LEMMA QuietAfter ==
  ASSUME SystemInv, AllGo, ClientTyped, UNCHANGED hostVars, \A x \in controls' : Placed(x),
         \A g \in Connections : Drops(toHost[g], toHost'[g]),
         \A n \in Attachments : Drops(toClient[n], toClient'[n])
  PROVE  SystemInv'
<1>1. \A g \in Connections : Carries(g) /\ ReceiptsAllDue(g)
  <2>1. finished \subseteq finished' /\ AllKeep
    BY GoKeep DEF hostVars
  <2> QED BY <2>1, DropsDue DEF Carries
<1>2. \A d \in Calls : Sends(d)
  BY SendsDrops
<1> QED BY <1>1, <1>2, GoAfter

LEMMA SameWires ==
  ASSUME TypeOK, UNCHANGED wires
  PROVE  /\ toHost' \in [Connections -> Seq(RequestType)] /\ toClient' \in [Attachments -> Seq(AnswerType)]
         /\ \A g \in Connections : Drops(toHost[g], toHost'[g])
         /\ \A n \in Attachments : Drops(toClient[n], toClient'[n])
<1>1. UNCHANGED toHost /\ UNCHANGED toClient
  BY DEF wires
<1> QED BY <1>1, SameHost, SameClient

LEMMA CallKeeps ==
  ASSUME SystemInv, NEW c \in Calls, ByCallStep(c), UNCHANGED hostVars
  PROVE  SystemInv'
<1>1. TypeOK /\ CallsOK
  BY InvCalls
<1>2. UNCHANGED att /\ UNCHANGED wires /\ attachment' = attachment /\ slots' \in Nat /\ NewControls(c)
  BY DEF ByCallStep
<1>3. AttStep /\ attachment' \in 0 .. MaxAttachments
  BY <1>1, <1>2, SameAtt DEF TypeOK
<1>4. /\ toHost' \in [Connections -> Seq(RequestType)] /\ toClient' \in [Attachments -> Seq(AnswerType)]
      /\ \A g \in Connections : Drops(toHost[g], toHost'[g])
      /\ \A n \in Attachments : Drops(toClient[n], toClient'[n])
  BY <1>1, <1>2, SameWires
<1>5. finished \subseteq finished'
  BY DEF hostVars
<1>6. AllKeep
  BY <1>1, GoKeep, RejectKeep, MovesGo DEF ByCallStep
<1>7. controls' \subseteq ControlType /\ \A x \in controls' : Placed(x)
  BY <1>2, <1>5, <1>6, ControlsAdded
<1>8. ClientTyped
  BY <1>2, <1>3, <1>4, <1>7 DEF ClientTyped
<1>9. CASE Moves(c)
  <2>1. AllGo
    BY <1>1, <1>9, MovesGo
  <2> QED BY <2>1, <1>4, <1>7, <1>8, QuietAfter
<1>10. CASE Rejects(c)
  <2>1. TypeOK'
    BY <1>1, <1>6, <1>8, TypeAfter
  <2>2. execs' = execs /\ record' = record /\ finished' = finished /\ served' = served /\ inc' = inc
    BY DEF hostVars
  <2>3. PICK q \in CallType :
        /\ call' = [call EXCEPT ![c] = q] /\ ~call[c].again
        /\ call[c].replies # <<>> /\ q.replies = Tail(call[c].replies)
    BY <1>10 DEF Rejects
  <2>4. call'[c] = q /\ \A d \in Calls \ {c} : call'[d] = call[d]
    BY <1>1, <2>3 DEF TypeOK
  <2>5. ASSUME NEW d \in Calls
        PROVE  Known(d)' /\ (~call'[d].again => Tokens(d)')
    <3>1. call[d].replies \in Seq(ReplyType)
      BY InvCalls DEF CallType
    <3>2. Drops(call[d].replies, call'[d].replies)
      BY <2>3, <2>4, <3>1, DropsTail, DropsSame
    <3>3. Hears(d, RejectedBeforeExecution) /\ Hears(d, {"Overloaded"}) /\ Hears(d, {"Result"})
      BY <1>4, <3>2, HearsDrops
    <3>4. Known(d)'
      BY <1>5, <1>6, <2>2, <3>3, KeptKnown, RecordsSame
    <3>5. CASE d = c
      <4>1. Tokens(c)
        BY <2>3, InvCalls
      <4>2. Tokens(c)'
        BY <1>1, <1>2, <1>10, <2>2, <4>1, TokensRejected
      <4> QED BY <3>4, <3>5, <4>2
    <3>6. CASE d # c
      <4>1. Goes(call[d], call'[d])
        BY <2>4, <3>6, InvCalls, GoesSame
      <4>2. Sends(d)
        BY <1>4, SendsDrops
      <4> QED BY <2>2, <3>3, <3>4, <4>1, <4>2, GoTokens
    <3> QED BY <3>5, <3>6
  <2>6. Served'
    BY <1>3, <1>4, <2>1, <2>2, DropsReady, ServedAfter DEF Carries
  <2>7. \A g \in Connections : ReceiptsAllDue(g)
    BY <1>4, <1>5, <1>6, DropsDue
  <2> QED BY <1>6, <1>7, <2>1, <2>5, <2>6, <2>7, InvAfter
<1> QED BY <1>9, <1>10 DEF ByCallStep

LEMMA LinkKeeps ==
  ASSUME SystemInv, ByLinkStep, UNCHANGED hostVars
  PROVE  SystemInv'
<1>1. TypeOK
  BY InvCalls
<1>2. /\ toHost' \in [Connections -> Seq(RequestType)] /\ toClient' \in [Attachments -> Seq(AnswerType)]
      /\ \A g \in Connections : Drops(toHost[g], toHost'[g])
      /\ \A n \in Attachments : Drops(toClient[n], toClient'[n])
  BY <1>1, SameWires DEF ByLinkStep
<1>3. AllGo /\ controls' \subseteq controls /\ finished \subseteq finished'
  BY DEF ByLinkStep, hostVars
<1>4. \A x \in controls' : Placed(x)
  BY <1>3, GoKeep, OldPlaced
<1>5. ClientTyped
  BY <1>1, <1>2 DEF ByLinkStep, ClientTyped, TypeOK
<1> QED BY <1>2, <1>3, <1>4, <1>5, QuietAfter

\* The rest of the client is as it was.
LEMMA RestTyped ==
  ASSUME TypeOK, UNCHANGED <<attachment, att, slots>>, controls' \subseteq controls,
         toHost' \in [Connections -> Seq(RequestType)], toClient' \in [Attachments -> Seq(AnswerType)]
  PROVE  ClientTyped
<1>1. UNCHANGED att
  OBVIOUS
<1> QED BY <1>1, SameAtt DEF ClientTyped, TypeOK

LEMMA MessageTyped ==
  ASSUME CallsOK, NEW c \in Calls, NEW kind \in {"Invoke", "Status", "Receipt", "Cancel"}, NEW again \in BOOLEAN
  PROVE  Message(kind, c, again) \in RequestType /\ Message(kind, c, again).kind = kind /\ Message(kind, c, again).c = c
<1>1. call[c].inc \in Nat
  BY CallTyped DEF CallType
<1> QED BY <1>1 DEF Message, RequestType

\* One message m is put on the connection of an attachment.
LEMMA SentAfter ==
  ASSUME SystemInv, AllGo, UNCHANGED <<attachment, att, slots, toClient>>, UNCHANGED hostVars,
         controls' \subseteq controls,
         NEW h, NEW m \in RequestType, toHost' = [toHost EXCEPT ![h] = Append(@, m)],
         NEW n \in Attachments, att[n].state = "Connected", att[n].gen = h,
         m.kind = "Hello" => m.gen = h, m.kind = "Receipt" => Due(m.c, h),
         \A d \in Calls : m.kind = "Invoke" /\ m.c = d => (~call'[d].again => Tokens(d)')
  PROVE  SystemInv'
<1>1. TypeOK /\ AllKeep /\ finished \subseteq finished'
  BY InvCalls, GoKeep DEF hostVars
<1>2. /\ toHost' \in [Connections -> Seq(RequestType)]
      /\ \A g \in Connections : IF g = h THEN toHost'[g] = Append(toHost[g], m) ELSE Drops(toHost[g], toHost'[g])
  BY <1>1, SendsOne
<1>3. UNCHANGED toClient
  OBVIOUS
<1>4. toClient' \in [Attachments -> Seq(AnswerType)] /\ \A k \in Attachments : Drops(toClient[k], toClient'[k])
  BY <1>1, <1>3, SameClient
<1>5. ClientTyped
  BY <1>1, <1>2, <1>4, RestTyped
<1>6. \A x \in controls' : Placed(x)
  BY <1>1, OldPlaced
<1>7. ASSUME NEW g \in Connections PROVE Carries(g) /\ ReceiptsAllDue(g)
  <2>1. CASE g = h
    <3>1. toHost'[g] = Append(toHost[g], m)
      BY <1>2, <2>1
    <3>2. Carries(g)
      BY <2>1, <3>1 DEF Carries
    <3>3. ReceiptsAllDue(g)
      BY <1>1, <2>1, <3>1, SendsDue
    <3> QED BY <3>2, <3>3
  <2>2. CASE g # h
    BY <1>1, <1>2, <2>2, DropsDue DEF Carries
  <2> QED BY <2>1, <2>2
<1>8. \A d \in Calls : Sends(d) \/ (~call'[d].again => Tokens(d)')
  BY <1>1, SendsOther
<1> QED BY <1>4, <1>5, <1>6, <1>7, <1>8, GoAfter

LEMMA TicketKeeps ==
  ASSUME SystemInv, NEW c \in Calls, TicketEnds(c), UNCHANGED hostVars
  PROVE  SystemInv'
<1>1. TypeOK /\ CallsOK
  BY InvCalls
<1>2. Moves(c) /\ call[c].ticket = "announced"
  BY <1>1, SentMoves
<1>3. AllGo
  BY <1>1, <1>2, MovesGo
<1> DEFINE kind == IF call[c].invoking THEN "Invoke" ELSE "Status"
           m == Message(kind, c, call[c].again)
<1>4. UNCHANGED <<attachment, att, slots, toClient>> /\ UNCHANGED toClient /\ UNCHANGED controls
  BY DEF TicketEnds
<1>5. \/ UNCHANGED toHost
      \/ /\ toHost' = [toHost EXCEPT ![call[c].gen] = Append(@, m)]
         /\ LinkOf(c).state = "Connected" /\ LinkOf(c).gen = call[c].gen
  BY DEF TicketEnds
<1>6. CASE UNCHANGED toHost
  <2>1. /\ toHost' \in [Connections -> Seq(RequestType)] /\ toClient' \in [Attachments -> Seq(AnswerType)]
        /\ \A g \in Connections : Drops(toHost[g], toHost'[g])
        /\ \A n \in Attachments : Drops(toClient[n], toClient'[n])
    BY <1>1, <1>4, <1>6, SameHost, SameClient
  <2>2. ClientTyped
    BY <1>1, <1>4, <2>1, RestTyped
  <2>3. \A x \in controls' : Placed(x)
    BY <1>3, <1>4, GoKeep, OldPlaced DEF hostVars
  <2> QED BY <1>3, <2>1, <2>2, <2>3, QuietAfter
<1>7. CASE /\ toHost' = [toHost EXCEPT ![call[c].gen] = Append(@, m)]
           /\ LinkOf(c).state = "Connected" /\ LinkOf(c).gen = call[c].gen
  <2>1. call[c].again \in BOOLEAN /\ call[c].owner # 0
    BY <1>2, InvCalls DEF CallType, CallOK
  <2>2. call[c].owner \in Attachments
    BY <1>1, <2>1, OwnerTyped
  <2>3. kind \in {"Invoke", "Status", "Receipt", "Cancel"} /\ kind \in {"Invoke", "Status"}
        /\ (kind = "Invoke" => call[c].invoking)
    OBVIOUS
  <2> HIDE DEF kind
  <2>4. m \in RequestType /\ m.kind = kind /\ m.c = c
    BY <1>1, <2>1, <2>3, MessageTyped
  <2> HIDE DEF m
  <2>5. ASSUME m.kind = "Invoke", ~call'[c].again PROVE Tokens(c)'
    <3>1. PICK q \in CallType : /\ call' = [call EXCEPT ![c] = q] /\ q.ticket \in {"sent", "failed"}
                                /\ q.pc = call[c].pc /\ q.evidence = call[c].evidence /\ q.again = call[c].again
                                /\ q.published = call[c].published /\ q.invoking = call[c].invoking
      BY <1>1, SentMoves
    <3>2. call'[c] = q
      BY <1>1, <3>1 DEF TypeOK
    <3>3. ~call[c].again /\ call[c].invoking
      BY <2>3, <2>4, <2>5, <3>1, <3>2
    <3>4. Tokens(c) /\ CallOK(call[c])
      BY <3>3, InvCalls
    <3>5. \A n \in Attachments : Drops(toClient[n], toClient'[n])
      BY <1>1, <1>4, SameClient
    <3>6. Drops(call[c].replies, call'[c].replies)
      BY <1>3, GoesAfter
    <3>7. Hears(c, RejectedBeforeExecution) /\ Hears(c, {"Overloaded"})
      BY <3>5, <3>6, HearsDrops
    <3>8. execs' = execs /\ record' = record
      BY DEF hostVars
    <3> QED BY <1>1, <1>2, <1>7, <2>4, <2>5, <3>1, <3>2, <3>3, <3>4, <3>7, <3>8, TokensSent
  <2>6. \A d \in Calls : m.kind = "Invoke" /\ m.c = d => (~call'[d].again => Tokens(d)')
    BY <2>4, <2>5
  <2>7. m.kind # "Hello" /\ m.kind # "Receipt"
    BY <2>3, <2>4
  <2>8. att[call[c].owner].state = "Connected" /\ att[call[c].owner].gen = call[c].gen
    BY <1>7 DEF LinkOf
  <2> QED BY <1>3, <1>4, <1>7, <2>2, <2>4, <2>6, <2>7, <2>8, SentAfter
<1> QED BY <1>5, <1>6, <1>7

LEMMA ControlKeeps ==
  ASSUME SystemInv, NEW x \in controls, ControlSent(x), UNCHANGED hostVars
  PROVE  SystemInv'
<1>1. TypeOK /\ CallsOK
  BY InvCalls
<1>2. UNCHANGED <<attachment, att, slots, toClient>> /\ UNCHANGED toClient /\ controls' \subseteq controls /\ UNCHANGED call
  BY DEF ControlSent
<1>3. AllGo
  BY <1>1, <1>2, SameGo
<1> DEFINE m == Message(x.kind, x.c, FALSE)
           n == call[x.c].owner
<1>4. x \in ControlType
  BY <1>1 DEF TypeOK
<1>5. x.kind \in {"Invoke", "Status", "Receipt", "Cancel"} /\ x.kind \in {"Cancel", "Receipt"} /\ x.c \in Calls
  BY <1>4 DEF ControlType
<1>6. n # 0 /\ (x.kind = "Receipt" => Due(x.c, x.gen))
  BY InvCalls DEF Receipts
<1>7. \/ UNCHANGED toHost
      \/ /\ toHost' = [toHost EXCEPT ![x.gen] = Append(@, m)]
         /\ att[n].state = "Connected" /\ att[n].gen = x.gen
  BY DEF ControlSent, LinkOf
<1>8. CASE UNCHANGED toHost
  <2>1. /\ toHost' \in [Connections -> Seq(RequestType)] /\ toClient' \in [Attachments -> Seq(AnswerType)]
        /\ \A g \in Connections : Drops(toHost[g], toHost'[g])
        /\ \A k \in Attachments : Drops(toClient[k], toClient'[k])
    BY <1>1, <1>2, <1>8, SameHost, SameClient
  <2>2. ClientTyped
    BY <1>1, <1>2, <2>1, RestTyped
  <2>3. \A y \in controls' : Placed(y)
    BY <1>2, <1>3, GoKeep, OldPlaced DEF hostVars
  <2> QED BY <1>3, <2>1, <2>2, <2>3, QuietAfter
<1>9. CASE /\ toHost' = [toHost EXCEPT ![x.gen] = Append(@, m)]
           /\ att[n].state = "Connected" /\ att[n].gen = x.gen
  <2>1. n \in Attachments
    BY <1>1, <1>5, <1>6, OwnerTyped
  <2>2. m \in RequestType /\ m.kind = x.kind /\ m.c = x.c
    BY <1>1, <1>5, MessageTyped, Zenon
  <2> HIDE DEF m, n
  <2> QED BY <1>2, <1>3, <1>5, <1>6, <1>9, <2>1, <2>2, SentAfter
<1> QED BY <1>7, <1>8, <1>9

LEMMA HelloKeeps ==
  ASSUME SystemInv, NEW n \in Attachments, OfferHello(n), UNCHANGED hostVars
  PROVE  SystemInv'
<1>1. TypeOK /\ CallsOK
  BY InvCalls
<1>2. UNCHANGED <<attachment, att, slots, toClient>> /\ controls' \subseteq controls /\ UNCHANGED call
  BY DEF OfferHello, clientVars
<1>3. AllGo
  BY <1>1, <1>2, SameGo
<1> DEFINE h == att[n].gen
           m == [kind |-> "Hello", gen |-> att[n].neg]
<1>4. att[n].state = "Connected" /\ h = att[n].neg /\ h # 0 /\ toHost' = [toHost EXCEPT ![h] = Append(@, m)]
  BY DEF OfferHello
<1>5. att[n].neg \in 0 .. MaxConnections
  BY <1>1, attTyped DEF LinkType
<1>6. att[n].neg \in Connections
  BY <1>4, <1>5, ClientAssumption DEF Connections
<1>7. m \in RequestType /\ m.kind = "Hello" /\ m.gen = h
  BY <1>4, <1>6 DEF RequestType
<1> HIDE DEF m
<1> QED BY <1>2, <1>3, <1>4, <1>7, SentAfter

LEMMA ReadyKeeps ==
  ASSUME SystemInv, NEW n \in Attachments, onReady(n), UNCHANGED hostVars
  PROVE  SystemInv'
<1>1. TypeOK /\ CallsOK
  BY InvCalls
<1> DEFINE a == att[n]
           m == Head(toClient[n])
           y == [inc |-> m.inc, gen |-> a.neg, trusted |-> m.trusted]
<1>2. toClient[n] # <<>> /\ m.code = "Ready" /\ toClient' = [toClient EXCEPT ![n] = Tail(@)]
  BY DEF onReady
<1>3. UNCHANGED toHost /\ attachment' = attachment /\ slots' = slots /\ controls' = controls
  BY DEF onReady
<1>4. \/ UNCHANGED att /\ UNCHANGED call
      \/ att' = [att EXCEPT ![n] = LinkClosed(a)] /\ call' = Drained(n)
      \/ ReadyMatches(a, m) /\ att' = [att EXCEPT ![n].ready = y] /\ UNCHANGED call
  BY DEF onReady
<1>5. m \in AnswerType /\ toClient' \in [Attachments -> Seq(AnswerType)]
      /\ \A k \in Attachments : Drops(toClient[k], toClient'[k])
  BY <1>1, <1>2, HearsOne
<1>6. toHost' \in [Connections -> Seq(RequestType)] /\ \A g \in Connections : Drops(toHost[g], toHost'[g])
  BY <1>1, <1>3, SameHost
<1>7. AllGo
  BY <1>1, <1>4, SameGo, DrainedGo
<1>8. AttStep
  <2>1. CASE UNCHANGED att
    BY <1>1, <2>1, SameAtt
  <2>2. CASE att' = [att EXCEPT ![n] = LinkClosed(a)]
    BY <1>1, <2>2, LinkClosedAtt
  <2>3. CASE ReadyMatches(a, m) /\ att' = [att EXCEPT ![n].ready = y]
    <3> DEFINE b == [a EXCEPT !.ready = y]
    <3>1. att' = [att EXCEPT ![n] = b]
      BY <1>1, <2>3 DEF TypeOK
    <3>2. a \in LinkType /\ m.inc \in Nat /\ m.trusted \in BOOLEAN /\ m.gen = a.neg
      BY <1>1, <1>2, <1>5, <2>3, attTyped, AnswerFields DEF ReadyMatches
    <3>3. y \in [inc : Nat, gen : 0 .. MaxConnections, trusted : BOOLEAN] /\ y.gen = m.gen /\ y.inc = m.inc
      BY <3>2 DEF LinkType
    <3> HIDE DEF y
    <3>4. b \in LinkType
      BY <3>2, <3>3 DEF LinkType
    <3>5. b.gen = a.gen /\ b.state = a.state /\ b.ready = y
      BY <3>2 DEF LinkType
    <3> HIDE DEF b
    <3>6. att'[n] = b
      BY <1>1, <3>1 DEF TypeOK
    <3>7. toClient[n] \in Seq(AnswerType)
      BY <1>1 DEF TypeOK
    <3>8. m = toClient[n][1] /\ 1 \in 1 .. Len(toClient[n])
      BY <1>2, <3>7, TailAt
    <3>9. Heard(n)
      BY <1>2, <3>3, <3>5, <3>6, <3>8 DEF Heard
    <3> QED BY <1>1, <3>1, <3>4, <3>5, <3>9, OneStays
  <2> QED BY <1>4, <2>1, <2>2, <2>3
<1>9. ClientTyped
  BY <1>1, <1>3, <1>5, <1>6, <1>8 DEF ClientTyped, TypeOK
<1>10. \A x \in controls' : Placed(x)
  BY <1>3, <1>7, GoKeep, OldPlaced DEF hostVars
<1> QED BY <1>5, <1>6, <1>7, <1>9, <1>10, QuietAfter

LEMMA DropKeeps ==
  ASSUME SystemInv, NEW n \in Attachments, Drop(n), UNCHANGED hostVars
  PROVE  SystemInv'
<1>1. TypeOK /\ CallsOK
  BY InvCalls
<1>2. UNCHANGED call /\ attachment' = attachment /\ slots' = slots /\ controls' = controls
  BY DEF Drop
<1>3. att' = [att EXCEPT ![n] = Disconnected(att[n])] /\ Lose(n)
  BY <1>1 DEF Drop, TypeOK
<1>4. AttStep
  BY <1>1, <1>3, attTyped, DisconnectedFields, OneStays
<1>5. AllGo
  BY <1>1, <1>2, SameGo
<1>6. ClientTyped
  BY <1>1, <1>2, <1>3, <1>4, LosesBoth DEF ClientTyped, TypeOK
<1>7. \A x \in controls' : Placed(x)
  BY <1>2, <1>5, GoKeep, OldPlaced DEF hostVars
<1> QED BY <1>1, <1>3, <1>5, <1>6, <1>7, LosesBoth, QuietAfter

LEMMA GotKnown ==
  ASSUME SystemInv, NEW n \in Attachments, Gets(n), toClient[n] # <<>>,
         toClient' = [toClient EXCEPT ![n] = Tail(@)], UNCHANGED hostVars, NEW d \in Calls
  PROVE  Known(d)'
<1> DEFINE m == Head(toClient[n])
           a == [code |-> m.code, inc |-> m.inc]
<1>1. TypeOK /\ Known(d) /\ call[d] \in CallType
  BY InvCalls
<1>2. AllKeep /\ finished' = finished /\ record' = record
  BY GetKeep DEF hostVars
<1>3. call'[d].evidence = "HandlerFinished" => d \in finished
  BY <1>2 DEF AllKeep
<1>4. \A h \in Attachments : Drops(toClient[h], toClient'[h])
  BY <1>1, HearsOne
<1>5. ASSUME NEW k \in Attachments, NEW i \in Nat, AnswerAt(d, k, i, {"Result"})' PROVE d \in finished
  <2>1. PICK e \in Nat : AnswerAt(d, k, i + e, {"Result"})
    BY <1>4, <1>5, AnswersDrop
  <2>2. k \in Places /\ i + e \in Nat
    BY PlacesAre
  <2> QED BY <1>1, <2>1, <2>2 DEF Known
<1>6. ASSUME NEW i \in Nat, AnswerAt(d, 0, i, {"Result"})' PROVE d \in finished
  <2>1. i \in 1 .. Len(call'[d].replies) /\ call'[d].replies[i].code = "Result"
    BY <1>6 DEF AnswerAt
  <2>2. CASE i \in 1 .. Len(call[d].replies) /\ call'[d].replies[i] = call[d].replies[i]
    BY <1>1, <2>1, <2>2, ResultKnown
  <2>3. CASE ~(i \in 1 .. Len(call[d].replies) /\ call'[d].replies[i] = call[d].replies[i])
    <3>1. d = m.c
      BY <2>1, <2>3 DEF Gets
    <3>2. call'[d].replies = Append(call[d].replies, a) /\ a.code = m.code /\ m.code \in Codes /\ m \in AnswerType
      BY <1>1, <3>1, AnswerTyped DEF Gets
    <3>3. call[d].replies \in Seq(ReplyType)
      BY <1>1 DEF CallType
    <3>4. m.code # "Ready"
      BY <3>2 DEF Codes, RejectedBeforeExecution, MayHaveExecuted
    <3>5. a \in ReplyType
      BY <3>2, <3>4, AnswerFields DEF ReplyType
    <3> HIDE DEF a, m
    <3>6. i = Len(call[d].replies) + 1
      BY <2>1, <2>3, <3>2, <3>3, <3>5, AppendAt
    <3>7. m.code = "Result"
      BY <2>1, <3>2, <3>3, <3>5, <3>6, AppendAt
    <3>8. m = toClient[n][1] /\ 1 \in 1 .. Len(toClient[n])
      <4>1. toClient[n] \in Seq(AnswerType)
        BY <1>1 DEF TypeOK
      <4> QED BY <4>1, TailAt DEF m
    <3>9. n # 0 /\ n \in Places
      BY PlacesAre DEF Attachments
    <3>10. AnswerAt(d, n, 1, {"Result"})
      BY <3>1, <3>7, <3>8, <3>9 DEF AnswerAt
    <3> QED BY <1>1, <3>9, <3>10 DEF Known
  <2> QED BY <2>2, <2>3
<1>7. \A k \in Places, i \in Nat : AnswerAt(d, k, i, {"Result"})' => d \in finished
  BY <1>5, <1>6, PlacesAre
<1> QED BY <1>1, <1>2, <1>3, <1>7 DEF Known

LEMMA ReplyKeeps ==
  ASSUME SystemInv, NEW n \in Attachments, onReply(n), UNCHANGED hostVars
  PROVE  SystemInv'
<1>1. TypeOK /\ CallsOK
  BY InvCalls
<1>2. toClient[n] # <<>> /\ toClient' = [toClient EXCEPT ![n] = Tail(@)]
  BY DEF onReply
<1>3. UNCHANGED toHost /\ attachment' = attachment /\ slots' = slots /\ controls' = controls
  BY DEF onReply
<1>4. UNCHANGED att \/ att' = [att EXCEPT ![n] = LinkClosed(att[n])]
  BY <1>1 DEF onReply, TypeOK
<1>5. toClient' \in [Attachments -> Seq(AnswerType)] /\ \A k \in Attachments : Drops(toClient[k], toClient'[k])
  BY <1>1, <1>2, HearsOne
<1>6. toHost' \in [Connections -> Seq(RequestType)] /\ \A g \in Connections : Drops(toHost[g], toHost'[g])
  BY <1>1, <1>3, SameHost
<1>7. AttStep
  BY <1>1, <1>4, SameAtt, LinkClosedAtt
<1>8. ClientTyped
  BY <1>1, <1>3, <1>5, <1>6, <1>7 DEF ClientTyped, TypeOK
<1>9. execs' = execs /\ record' = record /\ finished' = finished /\ served' = served /\ inc' = inc
  BY DEF hostVars
<1>10. CASE AllGo
  <2>1. \A x \in controls' : Placed(x)
    BY <1>3, <1>9, <1>10, GoKeep, OldPlaced
  <2> QED BY <1>5, <1>6, <1>8, <1>10, <2>1, QuietAfter
<1>11. CASE Gets(n)
  <2>1. AllKeep
    BY <1>11, GetKeep
  <2>2. TypeOK'
    BY <1>1, <1>8, <2>1, TypeAfter
  <2>3. \A x \in controls' : Placed(x)
    BY <1>3, <1>9, <2>1, OldPlaced
  <2>4. \A g \in Connections : Carries(g) /\ ReceiptsAllDue(g)
    BY <1>6, <1>9, <2>1, DropsDue DEF Carries
  <2>5. Served'
    BY <1>5, <1>7, <1>9, <2>2, <2>4, DropsReady, ServedAfter
  <2>6. \A d \in Calls : Known(d)'
    BY <1>2, <1>11, GotKnown
  <2>7. ASSUME NEW d \in Calls, ~call'[d].again PROVE Tokens(d)'
    <3>1. call'[d].again = call[d].again
      BY <1>11 DEF Gets, Alike
    <3>2. Tokens(d) /\ CallOK(call[d])
      BY <2>7, <3>1, InvCalls
    <3> QED BY <1>1, <1>2, <1>3, <1>9, <1>11, <3>2, TokensGot
  <2> QED BY <2>1, <2>2, <2>3, <2>4, <2>5, <2>6, <2>7, InvAfter
<1> QED BY <1>1, <1>10, <1>11, ReplyGets

LEMMA ClientKeeps == ASSUME SystemInv, ClientNext, UNCHANGED hostVars PROVE SystemInv'
<1>1. CallsOK
  BY InvCalls
<1>2. ASSUME NEW c \in Calls,
             CallStep(c) \/ WaitTimesOut(c) \/ Accept(c) \/ Deadline(c) \/ Cancelled(c) \/ WriterStep(c)
      PROVE  SystemInv'
  <2>1. CASE TicketEnds(c)
    BY <2>1, TicketKeeps
  <2>2. CASE ~TicketEnds(c)
    BY <1>1, <1>2, <2>2, CallSteps, CallKeeps DEF WriterStep
  <2> QED BY <2>1, <2>2
<1>3. ASSUME NEW n \in Attachments, LinkStep(n) PROVE SystemInv'
  <2>1. CASE attach(n) BY <1>1, <2>1, attachBy, LinkKeeps
  <2>2. CASE observe(n) BY <1>1, <2>2, observeBy, LinkKeeps
  <2>3. CASE CloseLink(n) BY <1>1, <2>3, CloseLinkBy, LinkKeeps
  <2>4. CASE detach(n) BY <1>1, <2>4, detachBy, LinkKeeps
  <2>5. CASE close(n) BY <1>1, <2>5, closeBy, LinkKeeps
  <2>6. CASE Reconnect(n) BY <1>1, <2>6, ReconnectBy, LinkKeeps
  <2> QED BY <1>3, <2>1, <2>2, <2>3, <2>4, <2>5, <2>6, HelloKeeps, ReadyKeeps, ReplyKeeps, DropKeeps DEF LinkStep
<1> QED BY <1>2, <1>3, ControlKeeps DEF ClientNext

-----------------------------------------------------------------------------
(* The steps of the host.                                                  *)

LEMMA SameGoes ==
  ASSUME SystemInv, UNCHANGED call, NEW d \in Calls
  PROVE  Goes(call[d], call'[d]) /\ Drops(call[d].replies, call'[d].replies)
<1>1. AllGo
  BY InvCalls, SameGo
<1> QED BY <1>1, GoesAfter

\* What the host may say of a record of the next state.
Tells(d) == (record'[d].outcome = "Result" => d \in finished') /\ (record'[d].life = "ended" => record'[d].outcome # "none")

LEMMA KeepsTells ==
  ASSUME SystemInv, NEW d \in Calls, RecordKeeps(d), finished \subseteq finished'
  PROVE  Tells(d)
<1>1. Known(d)
  BY InvCalls
<1> QED BY <1>1 DEF Known, RecordKeeps, Tells

\* No more is said of results to come than is true.
Answers == \A d \in Calls : Hears(d, {"Result"}) \/ d \in finished'

LEMMA HostAfter ==
  ASSUME SystemInv, UNCHANGED call, controls' = controls, TypeOK', Served', Answers,
         \A g \in Connections : Drops(toHost[g], toHost'[g]),
         finished \subseteq finished', \A d \in Calls : Tells(d),
         \A d \in Calls : ~call[d].again => Tokens(d)'
  PROVE  SystemInv'
<1>1. AllKeep
  BY InvCalls, SameGo, GoKeep
<1>2. \A x \in controls' : Placed(x)
  BY <1>1, OldPlaced
<1>3. \A g \in Connections : ReceiptsAllDue(g)
  BY <1>1, DropsDue
<1>4. ASSUME NEW d \in Calls PROVE Known(d)'
  BY <1>1, HeardKnown, FinishedKnown DEF Answers, Tells
<1> QED BY <1>1, <1>2, <1>3, <1>4, InvAfter

\* A step of the host that leaves the client and the connections alone.
LEMMA BooksAfter ==
  ASSUME SystemInv, UNCHANGED <<clientVars, inc, served>>, Answers,
         toHost' \in [Connections -> Seq(RequestType)], \A g \in Connections : Drops(toHost[g], toHost'[g]),
         toClient' \in [Attachments -> Seq(AnswerType)], \A n \in Attachments : NoReady(n),
         record' \in [Calls -> Host!Call], execs' \in [Calls -> Nat],
         finished \subseteq finished', finished' \subseteq Calls, \A d \in Calls : Tells(d),
         \A d \in Calls : ~call[d].again => Tokens(d)'
  PROVE  SystemInv'
<1>1. TypeOK /\ UNCHANGED call /\ controls' = controls /\ UNCHANGED att /\ UNCHANGED <<served, inc>>
  BY InvCalls DEF clientVars
<1>2. attachment' = attachment /\ slots' = slots
  BY DEF clientVars
<1>3. TypeOK'
  BY <1>1, <1>2 DEF TypeOK
<1>4. AttStep
  BY <1>1, SameAtt
<1>5. Served'
  BY <1>1, <1>3, <1>4, ServedAfter DEF Carries
<1> QED BY <1>1, <1>3, <1>5, HostAfter

\* The answer that goes out.
LEMMA ReplyAnswers ==
  ASSUME SystemInv, UNCHANGED call, NEW g, NEW m \in AnswerType, m.code # "Ready", Reply(g, m),
         m.code = "Result" => m.c \in finished'
  PROVE  /\ toClient' \in [Attachments -> Seq(AnswerType)] /\ Answers
         /\ \A n \in Attachments : NoReady(n)
<1>1. TypeOK
  BY InvCalls
<1>2. ASSUME NEW d \in Calls PROVE Hears(d, {"Result"}) \/ d \in finished'
  BY <1>1, SameGoes, HearsOther
<1> QED BY <1>1, <1>2, RepliesOne, ReplyReady DEF Answers

LEMMA NoAnswers ==
  ASSUME SystemInv, UNCHANGED call, UNCHANGED toClient
  PROVE  /\ toClient' \in [Attachments -> Seq(AnswerType)] /\ Answers
         /\ \A n \in Attachments : NoReady(n)
         /\ \A n \in Attachments : Drops(toClient[n], toClient'[n])
<1>1. toClient' \in [Attachments -> Seq(AnswerType)] /\ \A n \in Attachments : Drops(toClient[n], toClient'[n])
  BY InvCalls, SameClient
<1>2. \A d \in Calls : Hears(d, {"Result"})
  BY <1>1, SameGoes, HearsDrops
<1> QED BY <1>1, <1>2, DropsReady DEF Answers

LEMMA NotReadyCode == ASSUME NEW code \in Codes PROVE code # "Ready"
BY DEF Codes, RejectedBeforeExecution, MayHaveExecuted

\* A call whose record the host leaves alone, or forgets.
LEMMA OtherTokens ==
  ASSUME SystemInv, UNCHANGED call, NEW d \in Calls, ~call[d].again, execs'[d] = execs[d], RecordKeeps(d),
         \A g \in Connections : Drops(toHost[g], toHost'[g]),
         Hears(d, RejectedBeforeExecution), Hears(d, {"Overloaded"})
  PROVE  Tokens(d)'
<1>1. Goes(call[d], call'[d]) /\ Sends(d)
  BY SameGoes, SendsDrops
<1> QED BY <1>1, GoTokens DEF RecordKeeps

LEMMA ReplyHears ==
  ASSUME SystemInv, UNCHANGED call, NEW g, NEW m \in AnswerType, Reply(g, m), NEW d \in Calls, NEW codes,
         ~(m.code \in codes /\ m.c = d)
  PROVE  Hears(d, codes)
<1>1. TypeOK /\ Drops(call[d].replies, call'[d].replies)
  BY InvCalls, SameGoes
<1> QED BY <1>1, HearsOther

LEMMA SilentHears ==
  ASSUME SystemInv, UNCHANGED call, \A n \in Attachments : Drops(toClient[n], toClient'[n]), NEW d \in Calls, NEW codes
  PROVE  Hears(d, codes)
<1>1. Drops(call[d].replies, call'[d].replies)
  BY SameGoes
<1> QED BY <1>1, HearsDrops

\* An answer that is no refusal changes no account.
LEMMA OtherAnswer ==
  ASSUME SystemInv, UNCHANGED call, NEW g, NEW m \in AnswerType, Reply(g, m), NEW d \in Calls, ~call[d].again,
         m.c # d \/ m.code \notin RejectedBeforeExecution, execs'[d] = execs[d], RecordKeeps(d),
         \A h \in Connections : Drops(toHost[h], toHost'[h])
  PROVE  Tokens(d)'
<1>1. Hears(d, RejectedBeforeExecution) /\ Hears(d, {"Overloaded"})
  BY ReplyHears DEF RejectedBeforeExecution
<1> QED BY <1>1, OtherTokens

\* The request at the head of connection g.
LEMMA Taken ==
  ASSUME SystemInv, NEW g \in Connections, Take(g), Head(toHost[g]).kind # "Hello"
  PROVE  /\ Head(toHost[g]).c \in Calls
         /\ toHost' \in [Connections -> Seq(RequestType)] /\ \A h \in Connections : Drops(toHost[h], toHost'[h])
<1>1. TypeOK
  BY InvCalls
<1>2. /\ Head(toHost[g]) \in RequestType
      /\ toHost' \in [Connections -> Seq(RequestType)] /\ \A h \in Connections : Drops(toHost[h], toHost'[h])
  BY <1>1, TakesOne
<1> QED BY <1>2, RequestFields

\* The books are as they were.
LEMMA SameBooks ==
  ASSUME SystemInv, UNCHANGED <<record, execs, finished>>
  PROVE  /\ record' \in [Calls -> Host!Call] /\ execs' \in [Calls -> Nat]
         /\ finished \subseteq finished' /\ finished' \subseteq Calls
         /\ \A d \in Calls : RecordKeeps(d) /\ Tells(d) /\ execs'[d] = execs[d]
<1>1. TypeOK
  BY InvCalls
<1>2. record' \in [Calls -> Host!Call] /\ execs' \in [Calls -> Nat] /\ finished \subseteq finished' /\ finished' \subseteq Calls
  BY <1>1 DEF TypeOK
<1>3. UNCHANGED record /\ UNCHANGED execs
  OBVIOUS
<1>4. \A d \in Calls : RecordKeeps(d)
  BY <1>3, RecordsSame
<1> QED BY <1>2, <1>3, <1>4, KeepsTells

LEMMA StaleKeeps == ASSUME SystemInv, NEW g \in Connections, Stale(g) PROVE SystemInv'
<1> DEFINE c == Head(toHost[g]).c
           m == Answer(c, "HostRestarted")
<1>1. Take(g) /\ Head(toHost[g]).kind # "Hello" /\ Reply(g, m)
  BY DEF Stale
<1>2. UNCHANGED <<clientVars, inc, served>> /\ UNCHANGED call /\ UNCHANGED <<record, execs, finished>>
  BY DEF Stale, clientVars, hostVars
<1>3. /\ c \in Calls
      /\ toHost' \in [Connections -> Seq(RequestType)] /\ \A h \in Connections : Drops(toHost[h], toHost'[h])
  BY <1>1, Taken
<1>4. "HostRestarted" \in Codes /\ "HostRestarted" \notin RejectedBeforeExecution /\ TypeOK
  BY InvCalls DEF Codes, MayHaveExecuted, RejectedBeforeExecution
<1>5. m \in AnswerType /\ m.c = c /\ m.code = "HostRestarted"
  BY <1>3, <1>4, AnswerIs
<1> HIDE DEF m, c
<1>6. /\ toClient' \in [Attachments -> Seq(AnswerType)] /\ Answers
      /\ \A n \in Attachments : NoReady(n)
  BY <1>1, <1>2, <1>5, ReplyAnswers
<1>7. \A d \in Calls : ~call[d].again => Tokens(d)'
  BY <1>1, <1>2, <1>3, <1>4, <1>5, SameBooks, OtherAnswer
<1> QED BY <1>2, <1>3, <1>6, <1>7, SameBooks, BooksAfter

\* The state of a record is sent: a call that never began may have been refused.
LEMMA ShownTokens ==
  ASSUME SystemInv, UNCHANGED call, UNCHANGED <<record, execs, finished>>, NEW g, NEW c \in Calls,
         NEW m \in AnswerType, m.c = c, m.code = Snapshot(record[c]) \/ m.code = "AccessRevoked", Reply(g, m),
         \A h \in Connections : Drops(toHost[h], toHost'[h]), NEW d \in Calls, ~call[d].again
  PROVE  Tokens(d)'
<1>1. RecordKeeps(d) /\ execs'[d] = execs[d]
  BY SameBooks
<1>2. TypeOK /\ Known(c) /\ record[c] \in Host!Call
  BY InvCalls DEF TypeOK
<1>3. /\ Snapshot(record[c]) # "Overloaded"
      /\ Snapshot(record[c]) = "CancelledBeforeStart" => record[c].life = "ended" /\ record[c].outcome = "CancelledBeforeStart"
  BY <1>2, SnapshotFields DEF Known
<1>4. CASE d # c \/ m.code # "CancelledBeforeStart"
  <2>1. m.c # d \/ m.code \notin RejectedBeforeExecution
    BY <1>3, <1>4 DEF RejectedBeforeExecution
  <2> QED BY <1>1, <2>1, OtherAnswer
<1>5. CASE d = c /\ m.code = "CancelledBeforeStart"
  <2>1. record[c].life = "ended" /\ record[c].outcome = "CancelledBeforeStart" /\ record'[c] = record[c]
    BY <1>3, <1>5
  <2>2. Tokens(c)
    BY <1>5, InvCalls
  <2>3. Hears(c, {"Overloaded"})
    BY <1>5, ReplyHears
  <2>4. Sends(c)
    BY SendsDrops
  <2>5. record'[c].outcome \in NotBegun /\ record'[c].life = "ended"
    BY <2>1 DEF NotBegun
  <2>6. execs'[c] = execs[c]
    BY <1>1, <1>5
  <2> QED BY <1>2, <1>5, <2>1, <2>2, <2>3, <2>4, <2>5, <2>6, TokensEnded
<1> QED BY <1>4, <1>5

LEMMA ShownTrue ==
  ASSUME SystemInv, UNCHANGED <<record, execs, finished>>, NEW c \in Calls,
         NEW code \in {Snapshot(record[c])} \cup {"AccessRevoked"}
  PROVE  /\ Answer(c, code) \in AnswerType /\ Answer(c, code).c = c /\ Answer(c, code).code = code /\ code # "Ready"
         /\ code = "Result" => c \in finished'
<1>1. TypeOK /\ Known(c) /\ record[c] \in Host!Call
  BY InvCalls DEF TypeOK
<1>2. /\ Snapshot(record[c]) \in Codes
      /\ Snapshot(record[c]) = "Result" => record[c].outcome = "Result"
  BY <1>1, SnapshotFields DEF Known
<1>3. "AccessRevoked" \in Codes
  BY DEF Codes, MayHaveExecuted
<1>4. code \in Codes /\ (code = "Result" => c \in finished')
  BY <1>1, <1>2, <1>3 DEF Known
<1> QED BY <1>1, <1>4, AnswerIs, NotReadyCode

LEMMA StatusKeeps == ASSUME SystemInv, NEW g \in Connections, Status(g) PROVE SystemInv'
<1> DEFINE c == Head(toHost[g]).c
<1>1. Take(g) /\ Head(toHost[g]).kind # "Hello"
  BY DEF Status, Serves
<1>2. PICK code \in {Snapshot(record[c])} \cup {"AccessRevoked"} : Reply(g, Answer(c, code))
  BY DEF Status
<1>3. UNCHANGED <<clientVars, inc, served>> /\ UNCHANGED call /\ UNCHANGED <<record, execs, finished>>
  BY DEF Status, clientVars, hostVars
<1>4. /\ c \in Calls
      /\ toHost' \in [Connections -> Seq(RequestType)] /\ \A h \in Connections : Drops(toHost[h], toHost'[h])
  BY <1>1, Taken
<1> HIDE DEF c
<1> DEFINE m == Answer(c, code)
<1>5. m \in AnswerType /\ m.c = c /\ m.code = code /\ code # "Ready" /\ (code = "Result" => c \in finished')
  BY <1>2, <1>3, <1>4, ShownTrue
<1>6. Reply(g, m) /\ (m.code = Snapshot(record[c]) \/ m.code = "AccessRevoked")
  BY <1>2, <1>5
<1> HIDE DEF m
<1>7. /\ toClient' \in [Attachments -> Seq(AnswerType)] /\ Answers
      /\ \A n \in Attachments : NoReady(n)
  BY <1>3, <1>5, <1>6, ReplyAnswers
<1>8. \A d \in Calls : ~call[d].again => Tokens(d)'
  BY <1>3, <1>4, <1>5, <1>6, ShownTokens
<1> QED BY <1>3, <1>4, <1>7, <1>8, SameBooks, BooksAfter

\* One record is written.
LEMMA OneRecord ==
  ASSUME SystemInv, NEW c \in Calls, NEW r \in Host!Call, record' = [record EXCEPT ![c] = r]
  PROVE  /\ record' \in [Calls -> Host!Call] /\ record'[c] = r
         /\ \A d \in Calls \ {c} : record'[d] = record[d] /\ RecordKeeps(d)
<1>1. record \in [Calls -> Host!Call]
  BY InvCalls DEF TypeOK
<1>2. record' \in [Calls -> Host!Call] /\ record'[c] = r /\ \A d \in Calls \ {c} : record'[d] = record[d]
  BY <1>1
<1> QED BY <1>2 DEF RecordKeeps

LEMMA HeldKeeps ==
  ASSUME SystemInv, NEW g \in Connections, Take(g), Head(toHost[g]).kind = "Invoke",
         NEW c \in Calls, c = Head(toHost[g]).c, NEW h \in Host!Held(record[c]), record' = [record EXCEPT ![c] = h],
         UNCHANGED <<clientVars, inc, served, execs, finished>>, UNCHANGED toClient
  PROVE  SystemInv'
<1>1. UNCHANGED <<clientVars, inc, served>> /\ UNCHANGED call /\ execs' = execs /\ finished' = finished
  BY DEF clientVars
<1>2. toHost' \in [Connections -> Seq(RequestType)] /\ \A f \in Connections : Drops(toHost[f], toHost'[f])
  BY Taken
<1>3. /\ toClient' \in [Attachments -> Seq(AnswerType)] /\ Answers
      /\ \A n \in Attachments : NoReady(n)
      /\ \A n \in Attachments : Drops(toClient[n], toClient'[n])
  BY <1>1, NoAnswers
<1>4. h \in Host!Call /\ h.life = "held" /\ h.outcome = "none"
  BY HeldFields
<1>5. /\ record' \in [Calls -> Host!Call] /\ record'[c] = h
      /\ \A d \in Calls \ {c} : RecordKeeps(d)
  BY <1>4, OneRecord
<1>6. TypeOK /\ execs' \in [Calls -> Nat] /\ finished \subseteq finished' /\ finished' \subseteq Calls
  BY <1>1, InvCalls DEF TypeOK
<1>7. ASSUME NEW d \in Calls PROVE Tells(d)
  <2>1. CASE d = c
    BY <1>4, <1>5, <2>1 DEF Tells
  <2>2. CASE d # c
    BY <1>5, <1>6, <2>2, KeepsTells
  <2> QED BY <2>1, <2>2
<1>8. ASSUME NEW d \in Calls, ~call[d].again PROVE Tokens(d)'
  <2>1. CASE d = c
    <3>1. Tokens(c) /\ record'[c].life = "held"
      BY <1>4, <1>5, <1>8, <2>1, InvCalls
    <3>2. UNCHANGED <<call, toClient, execs>>
      BY <1>1
    <3> QED BY <1>6, <2>1, <3>1, <3>2, TokensHeld
  <2>2. CASE d # c
    <3>1. Hears(d, RejectedBeforeExecution) /\ Hears(d, {"Overloaded"})
      BY <1>1, <1>3, SilentHears
    <3> QED BY <1>1, <1>2, <1>5, <1>8, <2>2, <3>1, OtherTokens
  <2> QED BY <2>1, <2>2
<1> QED BY <1>1, <1>2, <1>3, <1>5, <1>6, <1>7, <1>8, BooksAfter

LEMMA RefusedKeeps ==
  ASSUME SystemInv, NEW g \in Connections, Take(g), Head(toHost[g]).kind = "Invoke",
         NEW c \in Calls, c = Head(toHost[g]).c, UNCHANGED record,
         NEW code \in RejectedBeforeExecution \cup {"AccessRevoked"}, Reply(g, Answer(c, code)),
         UNCHANGED <<clientVars, inc, served, execs, finished>>
  PROVE  SystemInv'
<1> DEFINE m == Answer(c, code)
<1>1. UNCHANGED <<clientVars, inc, served>> /\ UNCHANGED call /\ UNCHANGED <<record, execs, finished>>
  BY DEF clientVars
<1>2. toHost' \in [Connections -> Seq(RequestType)] /\ \A f \in Connections : Drops(toHost[f], toHost'[f])
  BY Taken
<1>3. TypeOK /\ Served /\ code \in Codes /\ code # "Result"
  BY InvCalls DEF Codes, RejectedBeforeExecution, MayHaveExecuted
<1>4. m \in AnswerType /\ m.c = c /\ m.code = code /\ code # "Ready" /\ Reply(g, m)
  BY <1>3, AnswerIs, NotReadyCode
<1> HIDE DEF m
<1>5. /\ toClient' \in [Attachments -> Seq(AnswerType)] /\ Answers
      /\ \A n \in Attachments : NoReady(n)
  BY <1>1, <1>3, <1>4, ReplyAnswers
<1>6. ASSUME NEW d \in Calls, ~call[d].again PROVE Tokens(d)'
  <2>1. CASE d = c
    <3>1. Tokens(c) /\ UNCHANGED <<call, execs, record>>
      BY <1>1, <1>6, <2>1, InvCalls
    <3> QED BY <1>3, <1>4, <2>1, <3>1, TokensRefused
  <2>2. CASE d # c
    <3>1. RecordKeeps(d) /\ execs'[d] = execs[d]
      BY <1>1, SameBooks
    <3> QED BY <1>1, <1>2, <1>4, <1>6, <2>2, <3>1, OtherAnswer
  <2> QED BY <2>1, <2>2
<1> QED BY <1>1, <1>2, <1>5, <1>6, SameBooks, BooksAfter

LEMMA RepeatKeeps ==
  ASSUME SystemInv, NEW g \in Connections, Take(g), Head(toHost[g]).kind = "Invoke",
         NEW c \in Calls, c = Head(toHost[g]).c, UNCHANGED record, record[c].life # "none",
         NEW code \in {Snapshot(record[c])} \cup {"AccessRevoked"}, Reply(g, Answer(c, code)),
         UNCHANGED <<clientVars, inc, served, execs, finished>>
  PROVE  SystemInv'
<1> DEFINE m == Answer(c, code)
<1>1. UNCHANGED <<clientVars, inc, served>> /\ UNCHANGED call /\ UNCHANGED <<record, execs, finished>>
  BY DEF clientVars
<1>2. toHost' \in [Connections -> Seq(RequestType)] /\ \A f \in Connections : Drops(toHost[f], toHost'[f])
  BY Taken
<1>3. TypeOK
  BY InvCalls
<1>4. /\ m \in AnswerType /\ m.c = c /\ m.code = code /\ code # "Ready" /\ (code = "Result" => c \in finished')
      /\ Reply(g, m)
  BY <1>1, ShownTrue
<1> HIDE DEF m
<1>5. /\ toClient' \in [Attachments -> Seq(AnswerType)] /\ Answers
      /\ \A n \in Attachments : NoReady(n)
  BY <1>1, <1>4, ReplyAnswers
<1>6. ASSUME NEW d \in Calls, ~call[d].again PROVE Tokens(d)'
  <2>1. d # c
    <3> SUFFICES ASSUME d = c PROVE FALSE
      OBVIOUS
    <3>1. Tokens(c)
      BY <1>6, InvCalls
    <3>2. NoRecord(c)
      BY <1>3, <3>1, TokenTaken
    <3> QED BY <3>2 DEF NoRecord
  <2>2. RecordKeeps(d) /\ execs'[d] = execs[d]
    BY <1>1, SameBooks
  <2> QED BY <1>1, <1>2, <1>4, <1>6, <2>1, <2>2, OtherAnswer
<1> QED BY <1>1, <1>2, <1>5, <1>6, SameBooks, BooksAfter

LEMMA InvokeKeeps == ASSUME SystemInv, NEW g \in Connections, Invoke(g) PROVE SystemInv'
<1> DEFINE c == Head(toHost[g]).c
<1>1. Take(g) /\ Head(toHost[g]).kind = "Invoke" /\ UNCHANGED <<clientVars, inc, served, execs, finished>>
  BY DEF Invoke, Serves
<1>2. c \in Calls
  BY <1>1, Taken
<1>3. \/ (\E h \in Host!Held(record[c]) : record' = [record EXCEPT ![c] = h]) /\ UNCHANGED toClient
      \/ UNCHANGED record /\ \E code \in RejectedBeforeExecution \cup {"AccessRevoked"} : Reply(g, Answer(c, code))
      \/ /\ record[c].life # "none" /\ UNCHANGED record
         /\ \E code \in {Snapshot(record[c])} \cup {"AccessRevoked"} : Reply(g, Answer(c, code))
  BY DEF Invoke, Admitted
<1> DEFINE k == c
<1>4. k = Head(toHost[g]).c
  OBVIOUS
<1> HIDE DEF c
<1> QED BY <1>1, <1>2, <1>3, <1>4, HeldKeeps, RefusedKeeps, RepeatKeeps DEF c

\* Records are kept or forgotten, and nobody is told.
LEMMA SilentBooks ==
  ASSUME SystemInv, UNCHANGED <<clientVars, inc, served, execs, finished>>, UNCHANGED toClient,
         toHost' \in [Connections -> Seq(RequestType)], \A g \in Connections : Drops(toHost[g], toHost'[g]),
         record' \in [Calls -> Host!Call], \A d \in Calls : RecordKeeps(d)
  PROVE  SystemInv'
<1>1. UNCHANGED <<clientVars, inc, served>> /\ UNCHANGED call /\ execs' = execs /\ finished' = finished
  BY DEF clientVars
<1>2. /\ toClient' \in [Attachments -> Seq(AnswerType)] /\ Answers
      /\ \A n \in Attachments : NoReady(n)
      /\ \A n \in Attachments : Drops(toClient[n], toClient'[n])
  BY <1>1, NoAnswers
<1>3. execs' \in [Calls -> Nat] /\ finished \subseteq finished' /\ finished' \subseteq Calls
  BY <1>1, InvCalls DEF TypeOK
<1>4. \A d \in Calls : Tells(d)
  BY <1>3, KeepsTells
<1>5. ASSUME NEW d \in Calls, ~call[d].again PROVE Tokens(d)'
  <2>1. Hears(d, RejectedBeforeExecution) /\ Hears(d, {"Overloaded"})
    BY <1>1, <1>2, SilentHears
  <2> QED BY <1>1, <1>5, <2>1, OtherTokens
<1> QED BY <1>1, <1>2, <1>3, <1>4, <1>5, BooksAfter

LEMMA ReceivedKeeps == ASSUME SystemInv, NEW g \in Connections, Control(g) PROVE SystemInv'
<1> DEFINE c == Head(toHost[g]).c
           r == [record[c] EXCEPT !.kept = FALSE]
<1>1. Take(g) /\ Head(toHost[g]).kind # "Hello"
  BY DEF Control, Serves
<1>2. UNCHANGED <<clientVars, inc, served, execs, finished>> /\ UNCHANGED toClient
  BY DEF Control
<1>3. c \in Calls /\ toHost' \in [Connections -> Seq(RequestType)] /\ \A h \in Connections : Drops(toHost[h], toHost'[h])
  BY <1>1, Taken
<1>4. record \in [Calls -> Host!Call]
  BY InvCalls DEF TypeOK
<1>5. UNCHANGED record \/ record' = [record EXCEPT ![c] = r]
  BY <1>4 DEF Control
<1>6. CASE UNCHANGED record
  BY <1>2, <1>3, <1>4, <1>6, RecordsSame, SilentBooks
<1>7. CASE record' = [record EXCEPT ![c] = r]
  <2> HIDE DEF c
  <2>1. record[c] \in Host!Call
    BY <1>3, <1>4
  <2>2. r \in Host!Call
    BY <2>1 DEF Host!Call
  <2>3. r.life = record[c].life /\ r.outcome = record[c].outcome
    BY <2>1 DEF Host!Call
  <2> HIDE DEF r
  <2>4. record' \in [Calls -> Host!Call] /\ record'[c] = r /\ \A d \in Calls \ {c} : RecordKeeps(d)
    BY <1>3, <1>7, <2>2, OneRecord
  <2>5. \A d \in Calls : RecordKeeps(d)
    BY <2>3, <2>4 DEF RecordKeeps
  <2> QED BY <1>2, <1>3, <2>4, <2>5, SilentBooks
<1> QED BY <1>5, <1>6, <1>7

LEMMA ForgetsKeeps == ASSUME SystemInv, NEW c \in Calls, Forgets(c) PROVE SystemInv'
<1>1. UNCHANGED <<clientVars, inc, served, execs, finished>> /\ UNCHANGED toClient /\ UNCHANGED toHost
  BY DEF Forgets, wires
<1>2. PICK r \in Host!BodyDropped(record[c]) \cup Host!Forgotten(record[c], 0, FALSE) : record' = [record EXCEPT ![c] = r]
  BY DEF Forgets
<1>3. TypeOK /\ record[c] \in Host!Call
  BY InvCalls DEF TypeOK
<1>4. /\ r \in Host!Call
      /\ \/ r.life = "none" /\ r.outcome = "none"
         \/ r.life = record[c].life /\ r.outcome = record[c].outcome
  BY <1>2, <1>3, ForgottenFields
<1>5. record' \in [Calls -> Host!Call] /\ record'[c] = r /\ \A d \in Calls \ {c} : RecordKeeps(d)
  BY <1>2, <1>4, OneRecord
<1>6. \A d \in Calls : RecordKeeps(d)
  BY <1>4, <1>5 DEF RecordKeeps
<1>7. toHost' \in [Connections -> Seq(RequestType)] /\ \A g \in Connections : Drops(toHost[g], toHost'[g])
  BY <1>1, <1>3, SameHost
<1> QED BY <1>1, <1>5, <1>6, <1>7, SilentBooks

LEMMA BeginsKeeps == ASSUME SystemInv, NEW c \in Calls, HandlerBegins(c) PROVE SystemInv'
<1>1. /\ UNCHANGED <<clientVars, inc, served>> /\ UNCHANGED call /\ finished' = finished
      /\ UNCHANGED wires /\ UNCHANGED toClient /\ UNCHANGED toHost
  BY DEF HandlerBegins, clientVars, wires
<1>2. PICK r \in Host!Began(record[c]) : record' = [record EXCEPT ![c] = r]
  BY DEF HandlerBegins
<1>3. record[c].life = "held" /\ r \in Host!Call /\ r.life = "began" /\ r.outcome = "none"
  BY BeganFields
<1>4. record' \in [Calls -> Host!Call] /\ record'[c] = r /\ \A d \in Calls \ {c} : RecordKeeps(d)
  BY <1>2, <1>3, OneRecord
<1>5. TypeOK /\ finished \subseteq finished' /\ finished' \subseteq Calls
  BY <1>1, InvCalls DEF TypeOK
<1>6. execs' \in [Calls -> Nat] /\ execs'[c] = execs[c] + 1 /\ \A d \in Calls \ {c} : execs'[d] = execs[d]
  BY <1>5 DEF HandlerBegins, TypeOK
<1>7. /\ toClient' \in [Attachments -> Seq(AnswerType)] /\ Answers
      /\ \A n \in Attachments : NoReady(n)
      /\ \A n \in Attachments : Drops(toClient[n], toClient'[n])
  BY <1>1, NoAnswers
<1>8. toHost' \in [Connections -> Seq(RequestType)] /\ \A g \in Connections : Drops(toHost[g], toHost'[g])
  BY <1>1, <1>5, SameHost
<1>9. ASSUME NEW d \in Calls PROVE Tells(d)
  <2>1. CASE d = c
    BY <1>3, <1>4, <2>1 DEF Tells
  <2>2. CASE d # c
    BY <1>4, <1>5, <2>2, KeepsTells
  <2> QED BY <2>1, <2>2
<1>10. ASSUME NEW d \in Calls, ~call[d].again PROVE Tokens(d)'
  <2>1. CASE d = c
    <3>1. Tokens(c) /\ UNCHANGED <<call, wires>> /\ record'[c].life = "began"
      BY <1>1, <1>3, <1>4, <1>10, <2>1, InvCalls
    <3> QED BY <1>3, <1>5, <1>6, <2>1, <3>1, TokensBegun
  <2>2. CASE d # c
    <3>1. Hears(d, RejectedBeforeExecution) /\ Hears(d, {"Overloaded"})
      BY <1>1, <1>7, SilentHears
    <3> QED BY <1>1, <1>4, <1>6, <1>8, <1>10, <2>2, <3>1, OtherTokens
  <2> QED BY <2>1, <2>2
<1> QED BY <1>1, <1>4, <1>5, <1>6, <1>7, <1>8, <1>9, <1>10, BooksAfter

LEMMA EndsKeeps == ASSUME SystemInv, NEW c \in Calls, CallEnds(c) PROVE SystemInv'
<1>1. /\ UNCHANGED <<clientVars, inc, served>> /\ UNCHANGED call /\ execs' = execs /\ UNCHANGED toHost
  BY DEF CallEnds, clientVars
<1>2. PICK r \in Host!Ended(record[c], 0) :
        /\ record' = [record EXCEPT ![c] = r]
        /\ finished' = IF r.outcome = "Result" THEN finished \cup {c} ELSE finished
        /\ (\E g \in Connections : Reply(g, Answer(c, r.outcome))) \/ UNCHANGED toClient
  BY DEF CallEnds
<1>3. TypeOK /\ record[c] \in Host!Call
  BY InvCalls DEF TypeOK
<1>4. /\ r \in Host!Call /\ r.life = "ended" /\ r.outcome \in Outcomes
      /\ \/ record[c].life = "held" /\ r.outcome \in NotBegun
         \/ record[c].life = "began" /\ r.outcome \in {"Result", "HandlerFailed"}
  BY <1>2, <1>3, EndedFields
<1>5. record' \in [Calls -> Host!Call] /\ record'[c] = r /\ \A d \in Calls \ {c} : RecordKeeps(d)
  BY <1>2, <1>4, OneRecord
<1>6. /\ finished \subseteq finished' /\ finished' \subseteq Calls /\ execs' \in [Calls -> Nat]
      /\ r.outcome = "Result" => c \in finished'
  BY <1>1, <1>2, <1>3 DEF TypeOK
<1>7. toHost' \in [Connections -> Seq(RequestType)] /\ \A g \in Connections : Drops(toHost[g], toHost'[g])
  BY <1>1, <1>3, SameHost
<1>8. ASSUME NEW d \in Calls PROVE Tells(d)
  <2>1. CASE d = c
    BY <1>4, <1>5, <1>6, <2>1 DEF Tells, Outcomes
  <2>2. CASE d # c
    BY <1>5, <1>6, <2>2, KeepsTells
  <2> QED BY <2>1, <2>2
<1>9. r.outcome \in Codes /\ r.outcome # "Overloaded"
  BY <1>4 DEF Outcomes, Codes, RejectedBeforeExecution, MayHaveExecuted
<1>10. record[c].life # "none"
  BY <1>4
<1>11. \/ record'[c].outcome \in NotBegun /\ record[c].life = "held"
       \/ /\ record'[c].outcome \notin NotBegun /\ record[c].life = "began"
          /\ r.outcome \notin RejectedBeforeExecution
  BY <1>4, <1>5 DEF NotBegun, RejectedBeforeExecution
<1>12. Sends(c) /\ execs'[c] = execs[c] /\ record'[c].life = "ended"
  BY <1>1, <1>4, <1>5, <1>7, SendsDrops
<1>13. CASE \E g \in Connections : Reply(g, Answer(c, r.outcome))
  <2>1. PICK g \in Connections : Reply(g, Answer(c, r.outcome))
    BY <1>13
  <2> DEFINE m == Answer(c, r.outcome)
  <2>2. m \in AnswerType /\ m.c = c /\ m.code = r.outcome /\ r.outcome # "Ready" /\ Reply(g, m)
    BY <1>3, <1>9, <2>1, AnswerIs, NotReadyCode
  <2> HIDE DEF m
  <2>3. /\ toClient' \in [Attachments -> Seq(AnswerType)] /\ Answers
        /\ \A n \in Attachments : NoReady(n)
    BY <1>1, <1>6, <2>2, ReplyAnswers
  <2>4. ASSUME NEW d \in Calls, ~call[d].again PROVE Tokens(d)'
    <3>1. CASE d = c
      <4>1. Tokens(c)
        BY <2>4, <3>1, InvCalls
      <4>2. Hears(c, {"Overloaded"})
        BY <1>1, <1>9, <2>2, ReplyHears
      <4>3. r.outcome \notin RejectedBeforeExecution => Hears(c, RejectedBeforeExecution)
        BY <1>1, <2>2, ReplyHears
      <4> QED BY <1>1, <1>3, <1>10, <1>11, <1>12, <3>1, <4>1, <4>2, <4>3, TokensEnded
    <3>2. CASE d # c
      BY <1>1, <1>5, <1>7, <2>2, <2>4, <3>2, OtherAnswer
    <3> QED BY <3>1, <3>2
  <2> QED BY <1>1, <1>5, <1>6, <1>7, <1>8, <2>3, <2>4, BooksAfter
<1>14. CASE UNCHANGED toClient
  <2>1. /\ toClient' \in [Attachments -> Seq(AnswerType)] /\ Answers
        /\ \A n \in Attachments : NoReady(n)
        /\ \A n \in Attachments : Drops(toClient[n], toClient'[n])
    BY <1>1, <1>14, NoAnswers
  <2>2. ASSUME NEW d \in Calls, ~call[d].again PROVE Tokens(d)'
    <3>1. Hears(d, RejectedBeforeExecution) /\ Hears(d, {"Overloaded"})
      BY <1>1, <2>1, SilentHears
    <3>2. CASE d = c
      <4>1. Tokens(c)
        BY <2>2, <3>2, InvCalls
      <4> QED BY <1>1, <1>3, <1>10, <1>11, <1>12, <3>1, <3>2, <4>1, TokensEnded
    <3>3. CASE d # c
      BY <1>1, <1>5, <1>7, <2>2, <3>1, <3>3, OtherTokens
    <3> QED BY <3>2, <3>3
  <2> QED BY <1>1, <1>5, <1>6, <1>7, <1>8, <2>1, <2>2, BooksAfter
<1> QED BY <1>2, <1>13, <1>14

\* The host forgets nothing or everything, and the connections change.
LEMMA LineAfter ==
  ASSUME SystemInv, UNCHANGED <<attachment, call, slots, controls>>, att' \in [Attachments -> LinkType],
         toHost' \in [Connections -> Seq(RequestType)], \A g \in Connections : Drops(toHost[g], toHost'[g]),
         toClient' \in [Attachments -> Seq(AnswerType)],
         \A d \in Calls : Hears(d, RejectedBeforeExecution) /\ Hears(d, {"Overloaded"}) /\ Hears(d, {"Result"}),
         inc' \in Nat \ {0}, served' \in [Connections -> Nat],
         record' \in [Calls -> Host!Call], \A d \in Calls : RecordKeeps(d), UNCHANGED <<execs, finished>>, Served'
  PROVE  SystemInv'
<1>1. UNCHANGED call /\ controls' = controls /\ attachment' = attachment /\ slots' = slots
      /\ execs' = execs /\ finished' = finished
  OBVIOUS
<1>2. TypeOK /\ finished \subseteq finished'
  BY <1>1, InvCalls
<1>3. TypeOK'
  BY <1>1, <1>2 DEF TypeOK
<1>4. Answers
  BY DEF Answers
<1>5. \A d \in Calls : Tells(d)
  BY <1>2, KeepsTells
<1>6. \A d \in Calls : ~call[d].again => Tokens(d)'
  BY <1>1, OtherTokens
<1> QED BY <1>1, <1>2, <1>3, <1>4, <1>5, <1>6, HostAfter

LEMMA UnservedKeeps == ASSUME SystemInv, NEW g \in Connections, Unserved(g) PROVE SystemInv'
<1>1. /\ UNCHANGED <<attachment, call, slots, controls>> /\ UNCHANGED call /\ UNCHANGED toClient
      /\ UNCHANGED <<execs, finished>> /\ UNCHANGED record /\ inc' = inc /\ served' = served
      /\ attachment' = attachment /\ slots' = slots /\ controls' = controls
  BY DEF Unserved, hostVars
<1>2. TypeOK
  BY InvCalls
<1>3. \A h \in Connections : toHost[h] \in Seq(RequestType)
  BY <1>2 DEF TypeOK
<1>4. toHost' = [toHost EXCEPT ![g] = <<>>]
  BY DEF Unserved
<1>5. toHost' \in [Connections -> Seq(RequestType)]
  BY <1>2, <1>4, EmptyAt DEF TypeOK
<1>6. \A h \in Connections : toHost'[h] = IF h = g THEN <<>> ELSE toHost[h]
  BY <1>2, <1>4 DEF TypeOK
<1>7. \A h \in Connections : Drops(toHost[h], toHost'[h])
  BY <1>3, <1>6, DropsAll, DropsSame
<1>8. AttStep
  BY <1>2, DisconnectedAtt DEF Unserved
<1>9. toClient' \in [Attachments -> Seq(AnswerType)] /\ \A n \in Attachments : Drops(toClient[n], toClient'[n])
  BY <1>1, <1>2, SameClient
<1>10. \A d \in Calls : Hears(d, RejectedBeforeExecution) /\ Hears(d, {"Overloaded"}) /\ Hears(d, {"Result"})
  BY <1>1, <1>9, SilentHears
<1>11. /\ att' \in [Attachments -> LinkType] /\ inc' \in Nat \ {0} /\ served' \in [Connections -> Nat]
       /\ record' \in [Calls -> Host!Call] /\ \A d \in Calls : RecordKeeps(d)
  BY <1>1, <1>2, <1>8, RecordsSame DEF AttStep, TypeOK
<1>12. TypeOK'
  BY <1>1, <1>2, <1>5, <1>9, <1>11 DEF TypeOK
<1>13. Served'
  BY <1>1, <1>7, <1>8, <1>9, <1>12, DropsReady, ServedAfter DEF Carries
<1> QED BY <1>1, <1>5, <1>7, <1>9, <1>10, <1>11, <1>13, LineAfter

LEMMA HelloServes == ASSUME SystemInv, NEW g \in Connections, Hello(g) PROVE SystemInv'
<1> DEFINE h == Head(toHost[g]).gen
<1>1. /\ UNCHANGED <<attachment, call, slots, controls>> /\ UNCHANGED call /\ UNCHANGED att
      /\ UNCHANGED <<execs, finished>> /\ UNCHANGED record /\ inc' = inc
  BY DEF Hello, clientVars
<1>2. TypeOK /\ Served
  BY InvCalls
<1>3. Take(g) /\ Head(toHost[g]).kind = "Hello" /\ served' = [served EXCEPT ![g] = inc]
  BY DEF Hello
<1>4. /\ toHost[g] # <<>> /\ Head(toHost[g]) \in RequestType /\ toHost' \in [Connections -> Seq(RequestType)]
      /\ \A f \in Connections : Drops(toHost[f], toHost'[f])
  BY <1>2, <1>3, TakesOne
<1>5. PICK trusted \in BOOLEAN : Reply(g, [code |-> "Ready", gen |-> h, inc |-> inc, trusted |-> trusted])
  BY DEF Hello
<1>6. h = g
  <2>1. toHost[g] \in Seq(RequestType) /\ ServedOnce(g)
    BY <1>2 DEF TypeOK, Served
  <2>2. Head(toHost[g]) = toHost[g][1] /\ 1 \in 1 .. Len(toHost[g])
    BY <1>4, <2>1, TailAt
  <2> QED BY <1>3, <2>1, <2>2 DEF ServedOnce
<1> HIDE DEF h
<1> DEFINE m == [code |-> "Ready", gen |-> h, inc |-> inc, trusted |-> trusted]
<1>7. inc \in Nat \ {0}
  BY <1>2 DEF TypeOK
<1>8. m \in AnswerType /\ m.code = "Ready" /\ m.gen = g /\ m.inc = inc /\ Reply(g, m)
  BY <1>5, <1>6, <1>7 DEF AnswerType
<1> HIDE DEF m
<1>9. /\ toClient' \in [Attachments -> Seq(AnswerType)]
      /\ \A n \in Attachments : IF n \in Current(g) THEN toClient'[n] = Append(toClient[n], m)
                                ELSE Drops(toClient[n], toClient'[n])
  BY <1>2, <1>8, RepliesOne
<1>10. \A d \in Calls : Hears(d, RejectedBeforeExecution) /\ Hears(d, {"Overloaded"}) /\ Hears(d, {"Result"})
  BY <1>1, <1>8, ReplyHears DEF RejectedBeforeExecution
<1>11. served' \in [Connections -> Nat] /\ served'[g] = inc /\ \A f \in Connections \ {g} : served'[f] = served[f]
  BY <1>2, <1>3, <1>7 DEF TypeOK
<1>12. served[g] \in {0, inc}
  BY <1>2, <1>4 DEF Served, ServedOnce
<1>13. ASSUME NEW f \in Connections PROVE ServedOnce(f)'
  <2>1. ServedOnce(f) /\ toHost[f] \in Seq(RequestType) /\ toHost'[f] \in Seq(RequestType)
    BY <1>2, <1>4 DEF TypeOK, Served
  <2>2. toHost'[f] # <<>> => toHost[f] # <<>>
    BY <1>4, <2>1, DropsNone
  <2>3. \A i \in 1 .. Len(toHost'[f]) : toHost'[f][i].kind = "Hello" => toHost'[f][i].gen = f
    <3>1. Drops(toHost[f], toHost'[f])
      BY <1>4
    <3> QED BY <2>1, <3>1 DEF Drops, ServedOnce
  <2>4. CASE f = g
    <3>1. \E n \in Attachments : f <= att'[n].gen
      BY <1>1, <1>4, <2>1, <2>4 DEF ServedOnce
    <3>2. served'[f] \in 0 .. inc' /\ served'[f] \in {0, inc'}
      BY <1>1, <1>7, <1>11, <2>4
    <3> QED BY <2>3, <3>1, <3>2 DEF ServedOnce
  <2>5. CASE f # g
    <3>1. served'[f] = served[f]
      BY <1>11, <2>5
    <3> QED BY <1>1, <2>1, <2>2, <2>3, <3>1 DEF ServedOnce
  <2> QED BY <2>4, <2>5
<1>14. \A f \in Connections : served[f] # 0 => served'[f] = served[f]
  BY <1>11, <1>12
<1>15. ASSUME NEW n \in Attachments PROVE ReadyTruthful(n)'
  <2>1. ReadyTruthful(n) /\ toClient[n] \in Seq(AnswerType) /\ att[n] \in LinkType
    BY <1>2 DEF TypeOK, Served
  <2>2. att[n].ready.gen \in 0 .. MaxConnections
    BY <2>1 DEF LinkType
  <2>3. att[n].ready.gen # 0 => att[n].ready.gen \in Connections
    BY <2>2, ClientAssumption DEF Connections
  <2>4. att[n].ready.gen # 0 => att[n].ready.inc # 0 /\ att[n].ready.inc = served'[att[n].ready.gen]
    BY <1>14, <2>1, <2>3 DEF ReadyTruthful
  <2>5. ASSUME NEW j \in 1 .. Len(toClient[n]), toClient[n][j].code = "Ready"
        PROVE  toClient[n][j].inc # 0 /\ toClient[n][j].inc = served'[toClient[n][j].gen]
    <3>1. toClient[n][j] \in AnswerType
      BY <2>1
    <3>2. toClient[n][j].gen \in Connections
      BY <2>5, <3>1, AnswerFields
    <3> QED BY <1>14, <2>1, <2>5, <3>2 DEF ReadyTruthful
  <2>6. ASSUME NEW i \in 1 .. Len(toClient'[n])
        PROVE  toClient'[n][i] = m \/ \E j \in 1 .. Len(toClient[n]) : toClient'[n][i] = toClient[n][j]
    <3>1. CASE n \in Current(g)
      <4>1. toClient'[n] = Append(toClient[n], m)
        BY <1>9, <3>1
      <4> QED BY <1>8, <2>1, <4>1, AppendAt
    <3>2. CASE n \notin Current(g)
      BY <1>9, <3>2 DEF Drops
    <3> QED BY <3>1, <3>2
  <2>7. \A i \in 1 .. Len(toClient'[n]) : toClient'[n][i].code = "Ready" =>
          toClient'[n][i].inc # 0 /\ toClient'[n][i].inc = served'[toClient'[n][i].gen]
    BY <1>7, <1>8, <1>11, <2>5, <2>6
  <2> QED BY <1>1, <2>4, <2>7 DEF ReadyTruthful
<1>16. Distinct'
  BY <1>1, <1>2 DEF Served, Distinct
<1>17. Served'
  BY <1>13, <1>15, <1>16 DEF Served
<1>18. /\ att' \in [Attachments -> LinkType] /\ inc' \in Nat \ {0}
       /\ record' \in [Calls -> Host!Call] /\ \A d \in Calls : RecordKeeps(d)
  BY <1>1, <1>2, RecordsSame DEF TypeOK
<1> QED BY <1>1, <1>4, <1>9, <1>10, <1>11, <1>17, <1>18, LineAfter

LEMMA RestartKeeps == ASSUME SystemInv, Restart PROVE SystemInv'
<1>1. /\ UNCHANGED <<attachment, call, slots, controls>> /\ UNCHANGED call
      /\ UNCHANGED <<execs, finished>> /\ inc' = inc + 1 /\ served' = served
  BY DEF Restart
<1>2. TypeOK /\ Served /\ inc \in Nat \ {0}
  BY InvCalls DEF TypeOK
<1>3. record' = [c \in Calls |-> Host!NoCall] /\ toHost' = [g \in Connections |-> <<>>]
      /\ att' = [n \in Attachments |-> IF att[n].state = "Connected" THEN Disconnected(att[n]) ELSE att[n]]
  BY DEF Restart
<1>4. record' \in [Calls -> Host!Call] /\ \A d \in Calls : RecordKeeps(d)
  BY <1>3, NoCallFields DEF RecordKeeps
<1>5. toHost' \in [Connections -> Seq(RequestType)] /\ \A g \in Connections : toHost'[g] = <<>>
  BY <1>3, EmptyAt
<1>6. \A g \in Connections : Drops(toHost[g], toHost'[g])
  BY <1>5, DropsAll
<1>7. toClient' = [n \in Attachments |-> <<>>] \/ UNCHANGED toClient
  BY DEF Restart
<1>8. toClient' \in [Attachments -> Seq(AnswerType)] /\ \A n \in Attachments : Drops(toClient[n], toClient'[n])
  <2>1. CASE UNCHANGED toClient
    BY <1>2, <2>1, SameClient
  <2>2. CASE toClient' = [n \in Attachments |-> <<>>]
    BY <2>2, EmptyAt, DropsAll
  <2> QED BY <1>7, <2>1, <2>2
<1>9. \A d \in Calls : Hears(d, RejectedBeforeExecution) /\ Hears(d, {"Overloaded"}) /\ Hears(d, {"Result"})
  BY <1>1, <1>8, SilentHears
<1> DEFINE S == {n \in Attachments : att[n].state = "Connected"}
<1>10. att' = [n \in Attachments |-> IF n \in S THEN Disconnected(att[n]) ELSE att[n]]
  BY <1>3
<1>11. AttStep
  BY <1>2, <1>10, DisconnectedAtt
<1>12. \A n \in Attachments : att'[n].gen = att[n].gen /\ att'[n].state # "Connected"
  <2> SUFFICES ASSUME NEW n \in Attachments PROVE att'[n].gen = att[n].gen /\ att'[n].state # "Connected"
    OBVIOUS
  <2>1. att'[n] = IF att[n].state = "Connected" THEN Disconnected(att[n]) ELSE att[n]
    BY <1>3
  <2> QED BY <1>2, <2>1, attTyped, DisconnectedFields
<1>13. ASSUME NEW g \in Connections PROVE ServedOnce(g)'
  <2>1. ServedOnce(g)
    BY <1>2 DEF Served
  <2>2. served'[g] \in 0 .. inc'
    BY <1>1, <1>2, <2>1 DEF ServedOnce
  <2>3. served[g] # 0 => \E n \in Attachments : g <= att'[n].gen
    BY <1>12, <2>1 DEF ServedOnce
  <2>4. Len(toHost'[g]) = 0
    BY <1>5, EmptyAt
  <2> QED BY <1>1, <1>5, <1>12, <2>2, <2>3, <2>4 DEF ServedOnce
<1>14. \A n \in Attachments : ReadyTruthful(n)'
  BY <1>1, <1>8, <1>11, DropsReady, StaysTruthful
<1>15. Served'
  BY <1>11, <1>13, <1>14, StaysDistinct DEF Served
<1>16. /\ att' \in [Attachments -> LinkType] /\ inc' \in Nat \ {0} /\ served' \in [Connections -> Nat]
  BY <1>1, <1>2, <1>11 DEF AttStep, TypeOK
<1> QED BY <1>1, <1>4, <1>5, <1>6, <1>8, <1>9, <1>15, <1>16, LineAfter

LEMMA HostKeeps == ASSUME SystemInv, HostNext PROVE SystemInv'
BY HelloServes, UnservedKeeps, StaleKeeps, InvokeKeeps, StatusKeeps, ReceivedKeeps, BeginsKeeps, EndsKeeps,
   ForgetsKeeps, RestartKeeps DEF HostNext

-----------------------------------------------------------------------------
(* The theorems.                                                           *)

LEMMA NewCallTyped ==
  /\ NewCall \in CallType /\ CallOK(NewCall) /\ NewCall.replies = <<>> /\ ~NewCall.again
  /\ NewCall.evidence = "NotSent" /\ NewCall.published = "none"
<1>1. 0 \in 0 .. MaxAttachments /\ 0 \in 0 .. MaxConnections /\ 1 \in 1 .. MaxAttempts /\ <<>> \in Seq(ReplyType)
  BY ClientAssumption, EmptyAt
<1>2. NewCall \in CallType
  BY <1>1 DEF NewCall, CallType, Pcs, Evidence, Kinds
<1>3. CallOK(NewCall)
  BY DEF NewCall, CallOK, Before, After, Clean, OnItsWay
<1>4. NewCall.replies = <<>> /\ ~NewCall.again /\ NewCall.evidence = "NotSent" /\ NewCall.published = "none"
  BY DEF NewCall
<1> QED BY <1>2, <1>3, <1>4

LEMMA NoLinkTyped == NoLink \in LinkType /\ NoLink.gen = 0 /\ NoLink.ready.gen = 0
<1>1. 0 \in 0 .. MaxConnections
  BY ClientAssumption
<1>2. NoLink \in LinkType
  BY <1>1, NotReadyTyped DEF NoLink, LinkType
<1>3. NoLink.gen = 0 /\ NoLink.ready = NotReady
  BY DEF NoLink
<1> QED BY <1>2, <1>3, NotReadyTyped

LEMMA InitInv == ASSUME Init PROVE SystemInv
<1>1. /\ attachment = 0 /\ att = [n \in Attachments |-> NoLink] /\ call = [c \in Calls |-> NewCall]
      /\ slots = OutstandingLimit /\ controls = {}
      /\ toHost = [g \in Connections |-> <<>>] /\ toClient = [n \in Attachments |-> <<>>]
      /\ inc = 1 /\ served = [g \in Connections |-> 0]
      /\ record = [c \in Calls |-> Host!NoCall] /\ execs = [c \in Calls |-> 0] /\ finished = {}
  BY DEF Init, ClientInit
<1>2. TypeOK
  <2>1. attachment \in 0 .. MaxAttachments /\ slots \in Nat
    BY <1>1, ClientAssumption
  <2>2. att \in [Attachments -> LinkType] /\ call \in [Calls -> CallType] /\ record \in [Calls -> Host!Call]
    BY <1>1, NewCallTyped, NoLinkTyped, NoCallFields
  <2>3. toHost \in [Connections -> Seq(RequestType)] /\ toClient \in [Attachments -> Seq(AnswerType)]
    BY <1>1, EmptyAt
  <2> QED BY <1>1, <2>1, <2>2, <2>3 DEF TypeOK
<1>3. \A g \in Connections : toHost[g] = <<>> /\ Len(toHost[g]) = 0 /\ served[g] = 0
  BY <1>1, EmptyAt
<1>4. \A n \in Attachments : Len(toClient[n]) = 0 /\ att[n].gen = 0 /\ att[n].ready.gen = 0
  BY <1>1, EmptyAt, NoLinkTyped
<1>5. ASSUME NEW c \in Calls PROVE CallInv(c) /\ Known(c)
  <2>1. /\ call[c] = NewCall /\ execs[c] = 0 /\ record[c].life = "none" /\ record[c].outcome = "none"
    BY <1>1, NoCallFields
  <2>2. Len(call[c].replies) = 0
    BY <2>1, NewCallTyped, EmptyAt
  <2>3. \A g \in Connections, i \in Nat : ~InvokeAt(c, g, i)
    BY <1>3 DEF InvokeAt
  <2>4. ASSUME NEW k \in Places, NEW i \in Nat, NEW codes PROVE ~AnswerAt(c, k, i, codes)
    <3>1. CASE k = 0
      BY <2>2, <3>1 DEF AnswerAt
    <3>2. CASE k # 0
      <4>1. k \in Attachments
        BY <3>2, PlacesAre
      <4> QED BY <1>4, <3>2, <4>1 DEF AnswerAt
    <3> QED BY <3>1, <3>2
  <2>5. ~OnWire(c) /\ ~Refused(c) /\ ~Overloaded(c)
    BY <2>3, <2>4 DEF OnWire, Refused, Overloaded
  <2>6. NoRecord(c) /\ NeverBegan(c) /\ execs[c] <= 1
    BY <2>1 DEF NoRecord, NeverBegan
  <2>7. Tokens(c)
    BY <2>1, <2>3, <2>4, <2>5, <2>6 DEF Tokens
  <2>8. CallInv(c)
    BY <2>1, <2>7, NewCallTyped DEF CallInv
  <2>9. Known(c)
    BY <2>1, <2>4, NewCallTyped DEF Known
  <2> QED BY <2>8, <2>9
<1>6. Receipts
  BY <1>1, <1>3 DEF Receipts
<1>7. Served
  <2>1. \A g \in Connections : ServedOnce(g)
    BY <1>1, <1>3 DEF ServedOnce
  <2>2. \A n \in Attachments : ReadyTruthful(n)
    BY <1>4 DEF ReadyTruthful
  <2>3. Distinct
    BY <1>4 DEF Distinct
  <2> QED BY <2>1, <2>2, <2>3 DEF Served
<1> QED BY <1>2, <1>5, <1>6, <1>7 DEF SystemInv

LEMMA NextInv == ASSUME SystemInv, [Next]_vars PROVE SystemInv'
<1>1. CASE Next
  BY <1>1, ClientKeeps, HostKeeps DEF Next
<1>2. CASE UNCHANGED vars
  <2>1. /\ attachment' = attachment /\ att' = att /\ call' = call /\ slots' = slots /\ controls' = controls
        /\ toHost' = toHost /\ toClient' = toClient
        /\ inc' = inc /\ served' = served /\ record' = record /\ execs' = execs /\ finished' = finished
    BY <1>2 DEF vars, clientVars, wires, hostVars
  <2>2. SystemInv' = SystemInv
    BY <2>1 DEF SystemInv, TypeOK, CallInv, Known, Receipts, Served, ServedOnce, ReadyTruthful, Distinct, Due,
       Tokens, OnWire, Refused, Overloaded, NoRecord, NeverBegan, InvokeAt, AnswerAt
  <2> QED BY <2>2
<1> QED BY <1>1, <1>2

\* For any calls, attempts, attachments, connections and incarnations of the
\* host the parts of the system agree: every call that has not been told that it
\* is forgotten is one Invoke, unsettled in callWithDetails(), on one connection,
\* refused, or in the records of the host; a result is known only to calls a
\* handler has finished; and a connection is served by one incarnation only.
THEOREM SystemInvariant == Spec => []SystemInv
<1>1. Init => SystemInv
  BY InitInv
<1>2. SystemInv /\ [Next]_vars => SystemInv'
  BY NextInv
<1> QED BY <1>1, <1>2, PTL DEF Spec

\* The state of client, connections and host always has its type.
THEOREM SystemTyped == Spec => []TypeOK
<1>1. SystemInv => TypeOK
  BY DEF SystemInv
<1> QED BY <1>1, SystemInvariant, PTL

\* A call without RpcRetry.Idempotent never executes twice, however often
\* callWithDetails() sends for it, connections drop and the host restarts or
\* forgets.
THEOREM AtMostOnceHolds == Spec => []AtMostOnce
<1>1. SystemInv => AtMostOnce
  <2> SUFFICES ASSUME SystemInv, NEW c \in Calls \ Idempotent PROVE execs[c] <= 1
    BY DEF AtMostOnce
  <2>1. Tokens(c)
    BY InvCalls
  <2> QED BY <2>1 DEF Tokens
<1> QED BY <1>1, SystemInvariant, PTL

\* What the client has published of an execution is true, now and later, and
\* the incarnation it takes for its host's is the one that serves its connection.
THEOREM PublishedTruthfulHolds == Spec => []PublishedTruthful
<1>1. SystemInv => PublishedTruthful
  <2> SUFFICES ASSUME SystemInv PROVE PublishedTruthful
    OBVIOUS
  <2>1. ASSUME NEW c \in Calls, call[c].published \in Clean PROVE execs[c] = 0
    <3>1. ~call[c].again
      BY <2>1, InvCalls DEF CallOK
    <3>2. Tokens(c)
      BY <3>1, InvCalls
    <3> QED BY <2>1, <3>2 DEF Tokens, NeverBegan
  <2>2. \A c \in Calls : call[c].evidence = "HandlerFinished" => c \in finished
    BY InvCalls DEF Known
  <2>3. \A n \in Attachments : att[n].ready.gen # 0 => att[n].ready.inc = served[att[n].ready.gen]
    BY InvCalls DEF Served, ReadyTruthful
  <2> QED BY <2>1, <2>2, <2>3 DEF PublishedTruthful, Clean
<1> QED BY <1>1, SystemInvariant, PTL

\* A receipt travels only for a finished call, and for one with an accept
\* callback only after it has returned and on the connection that was current
\* when the result was decoded.
THEOREM ReceiptAfterAcceptanceHolds == Spec => []ReceiptAfterAcceptance
<1>1. SystemInv => ReceiptAfterAcceptance
  <2> SUFFICES ASSUME SystemInv PROVE ReceiptAfterAcceptance
    OBVIOUS
  <2>1. \A g \in Connections : DOMAIN toHost[g] = 1 .. Len(toHost[g])
    BY InvCalls DEF TypeOK
  <2>2. \A g \in Connections : \A i \in 1 .. Len(toHost[g]) :
          toHost[g][i].kind = "Receipt" => Due(toHost[g][i].c, g)
    BY InvCalls DEF Receipts
  <2> QED BY <2>1, <2>2 DEF ReceiptAfterAcceptance, Due
<1> QED BY <1>1, SystemInvariant, PTL

LEMMA DetachedKeeps ==
  ASSUME TypeOK, NEW n \in Attachments, NEW a \in LinkType, detachLocked(n, a), a.closed \/ a.dismissed
  PROVE  att'[n].closed \/ att'[n].dismissed
<1> DEFINE b == [a EXCEPT !.ready = NotReady, !.neg = 0]
<1>1. b.closed = a.closed /\ b.dismissed = a.dismissed
  BY DEF LinkType
<1>2. att' = [att EXCEPT ![n] = b]
  BY DEF detachLocked
<1> HIDE DEF b
<1>3. att'[n] = b
  BY <1>2 DEF TypeOK
<1> QED BY <1>1, <1>3

LEMMA SelectionStep ==
  ASSUME SystemInv, Next, attachment # 0, attachment' # attachment
  PROVE  att'[attachment].closed \/ att'[attachment].dismissed
<1>1. TypeOK /\ CallsOK
  BY InvCalls
<1>2. ~HostNext
  BY DEF HostNext, Hello, Unserved, Stale, Invoke, Status, Control, HandlerBegins, CallEnds, Forgets, Restart, clientVars
<1>3. ASSUME NEW c \in Calls PROVE ~(CallStep(c) \/ WaitTimesOut(c) \/ Accept(c) \/ Deadline(c) \/ Cancelled(c) \/ WriterStep(c))
  <2>1. ~TicketEnds(c)
    BY DEF TicketEnds
  <2>2. ~ByCallStep(c)
    BY DEF ByCallStep
  <2> QED BY <1>1, <2>1, <2>2, CallSteps DEF WriterStep
<1>4. \A x \in controls : ~ControlSent(x)
  BY DEF ControlSent
<1>5. PICK n \in Attachments : LinkStep(n)
  BY <1>2, <1>3, <1>4 DEF Next, ClientNext
<1>6. detach(n) \/ close(n)
  BY <1>5 DEF LinkStep, attach, observe, OfferHello, onReady, onReply, CloseLink, Drop, Reconnect, clientVars
<1>7. att[n] \in LinkType
  BY <1>1, attTyped
<1>8. CASE detach(n)
  <2> DEFINE a == [att[n] EXCEPT !.told = TRUE]
  <2>1. att[n].closed /\ attachment = n /\ detachLocked(n, a)
    BY <1>8 DEF detach, Active
  <2>2. a \in LinkType
    BY <1>7 DEF LinkType
  <2>3. a.closed = att[n].closed
    BY <1>7 DEF LinkType
  <2> HIDE DEF a
  <2> QED BY <1>1, <2>1, <2>2, <2>3, DetachedKeeps
<1>9. CASE close(n)
  <2> DEFINE a == [att[n] EXCEPT !.dismissed = TRUE]
  <2>1. attachment = n /\ detachLocked(n, a)
    BY <1>9 DEF close, Active
  <2>2. a \in LinkType
    BY <1>7 DEF LinkType
  <2>3. a.dismissed
    BY <1>7 DEF LinkType
  <2> HIDE DEF a
  <2> QED BY <1>1, <2>1, <2>2, <2>3, DetachedKeeps
<1> QED BY <1>6, <1>8, <1>9

\* No step takes the selection from a host whose link has not closed and that
\* the application has not dismissed: detach() of another link leaves it alone.
THEOREM SelectionKeptHolds == Spec => SelectionKept
<1>1. SystemInv /\ [Next]_vars =>
        [attachment # 0 /\ attachment' # attachment => att'[attachment].closed \/ att'[attachment].dismissed]_vars
  BY SelectionStep
<1> QED BY <1>1, SystemInvariant, PTL DEF Spec, SelectionKept
-----------------------------------------------------------------------------
(* The slots of the client.                                                *)

Resting == {"idle", "ended"}
Holding == {c \in Calls : call[c].pc \notin Resting}

\* A slot is free or held by exactly one call between semaphore and finally.
SlotsExact == IsFiniteSet(Holding) /\ slots \in Nat /\ slots + Cardinality(Holding) = OutstandingLimit

StillHeld == \A d \in Calls : (call'[d].pc \in Resting) <=> (call[d].pc \in Resting)

LEMMA SteadySlots == ASSUME SlotsExact, StillHeld, slots' = slots PROVE SlotsExact'
<1>1. Holding' = Holding
  BY DEF Holding, StillHeld
<1> QED BY <1>1 DEF SlotsExact

LEMMA EditHeld ==
  ASSUME TypeOK, NEW c \in Calls, NEW q, Edit(c, q), (q.pc \in Resting) <=> (call[c].pc \in Resting)
  PROVE  StillHeld
<1>1. call'[c] = q /\ \A d \in Calls \ {c} : call'[d] = call[d]
  BY DEF Edit, TypeOK
<1> QED BY <1>1 DEF StillHeld

LEMMA WorkHeld ==
  ASSUME TypeOK, NEW c \in Calls, NEW q, Edit(c, q), q.pc \notin Resting, call[c].pc \notin Resting
  PROVE  StillHeld
BY EditHeld

\* A call that fails or tries again goes on holding its slot until finally.
LEMMA FailedPc ==
  ASSUME NEW r \in CallType, NEW kind \in Kinds
  PROVE  Failed(r, kind).pc \notin Resting
BY FailedLeaves DEF Leaves, Resting

LEMMA RetryPc == ASSUME NEW r \in CallType PROVE NextAttempt(r).pc \notin Resting
BY AttemptRetries DEF Retries, Leaves, Resting

LEMMA UnsentPc == ASSUME NEW r \in CallType PROVE Unsent(r).pc \notin Resting
<1> DEFINE x == [r EXCEPT !.invoke = r.evidence # "MayHaveExecuted"]
<1>1. x \in CallType
  BY DEF CallType
<1> HIDE DEF x
<1>2. NextAttempt(x).pc \notin Resting
  BY <1>1, RetryPc
<1> QED BY <1>2 DEF Unsent, x

LEMMA FailureReplyPc ==
  ASSUME NEW c \in Calls, NEW r \in CallType, NEW code \in Codes \ {"Running", "Result"}
  PROVE  FailureReply(c, r, code).pc \notin Resting
<1> DEFINE x == [r EXCEPT !.evidence = IF r.ambiguous THEN @ ELSE "RejectedBeforeExecution", !.invoke = ~r.ambiguous]
           y == [r EXCEPT !.invoke = TRUE, !.again = TRUE]
           z == [r EXCEPT !.evidence = IF r.invoking /\ ~r.ambiguous /\ code \in RejectedBeforeExecution
                                     THEN "RejectedBeforeExecution" ELSE @]
<1>1. x \in CallType /\ y \in CallType /\ z \in CallType
  BY DEF CallType, Evidence
<1>2. code \in Kinds /\ "UnknownOutcome" \in Kinds
  BY DEF Codes, Kinds, MayHaveExecuted
<1>3. FailureReply(c, r, code) \in {Failed(r, "UnknownOutcome"), NextAttempt(x), NextAttempt(y), Failed(z, code)}
  BY DEF FailureReply
<1> HIDE DEF x, y, z
<1> QED BY <1>1, <1>2, <1>3, FailedPc, RetryPc

LEMMA BeginSlots == ASSUME TypeOK, SlotsExact, NEW c \in Calls, Begin(c) PROVE SlotsExact'
<1>1. call[c] \in CallType /\ c \notin Holding
  BY DEF TypeOK, Begin, Holding, Resting
<1>2. CASE slots > 0 /\ slots' = slots - 1 /\ Edit(c, [call[c] EXCEPT !.pc = "select"])
  <2> DEFINE q == [call[c] EXCEPT !.pc = "select"]
  <2>1. q.pc = "select"
    BY <1>1 DEF CallType
  <2> HIDE DEF q
  <2>2. call'[c].pc = "select" /\ \A d \in Calls \ {c} : call'[d] = call[d]
    BY <1>2, <2>1 DEF Edit, TypeOK, q
  <2>3. Holding' = Holding \cup {c}
    BY <2>2 DEF Holding, Resting
  <2>4. IsFiniteSet(Holding') /\ Cardinality(Holding') = Cardinality(Holding) + 1
    BY <1>1, <2>3, FS_AddElement DEF SlotsExact
  <2>5. Cardinality(Holding) \in Nat
    BY FS_CardinalityType DEF SlotsExact
  <2>6. slots' \in Nat /\ slots' = slots - 1
    BY <1>2 DEF SlotsExact
  <2>7. slots \in Nat /\ slots + Cardinality(Holding) = OutstandingLimit
    BY DEF SlotsExact
  <2>8. slots' + Cardinality(Holding') = OutstandingLimit
    BY <2>4, <2>5, <2>6, <2>7
  <2> QED BY <2>4, <2>6, <2>8 DEF SlotsExact
<1>3. CASE slots' = slots /\ Edit(c, [call[c] EXCEPT !.pc = "ended", !.outcome = "Overloaded", !.published = "NotSent"])
  <2> DEFINE q == [call[c] EXCEPT !.pc = "ended", !.outcome = "Overloaded", !.published = "NotSent"]
  <2>1. q.pc = "ended"
    BY <1>1 DEF CallType
  <2> HIDE DEF q
  <2>2. Edit(c, q) /\ call[c].pc = "idle"
    BY <1>3 DEF Begin, q
  <2>3. StillHeld
    BY <2>1, <2>2, EditHeld DEF Resting
  <2> QED BY <1>3, <2>3, SteadySlots
<1> QED BY <1>2, <1>3 DEF Begin

LEMMA FinallySlots == ASSUME TypeOK, SlotsExact, NEW c \in Calls, Finally(c) PROVE SlotsExact'
<1>1. call[c] \in CallType /\ c \in Holding
  BY DEF TypeOK, Finally, Holding, Resting
<1> DEFINE q == [call[c] EXCEPT !.pc = "ended", !.registered = FALSE, !.replies = <<>>, !.closed = TRUE]
<1>2. q.pc = "ended"
  BY <1>1 DEF CallType
<1>3. Edit(c, q) /\ slots' = slots + 1
  BY DEF Finally
<1> HIDE DEF q
<1>4. call'[c].pc = "ended" /\ \A d \in Calls \ {c} : call'[d] = call[d]
  BY <1>2, <1>3 DEF Edit, TypeOK
<1>5. Holding' = Holding \ {c}
  BY <1>4 DEF Holding, Resting
<1>6. IsFiniteSet(Holding') /\ Cardinality(Holding') = Cardinality(Holding) - 1
  BY <1>1, <1>5, FS_RemoveElement DEF SlotsExact
<1>7. Cardinality(Holding) \in Nat /\ slots \in Nat /\ slots + Cardinality(Holding) = OutstandingLimit
  BY FS_CardinalityType DEF SlotsExact
<1>8. slots' + Cardinality(Holding') = OutstandingLimit /\ slots' \in Nat
  BY <1>3, <1>6, <1>7
<1> QED BY <1>6, <1>8 DEF SlotsExact

\* Every other step of a call leaves the slots and their holders as they are.
LEMMA OtherCallHeld ==
  ASSUME CallsOK, NEW c \in Calls,
         \/ Select(c) \/ Register(c) \/ waitForSameHost(c) \/ OfferCall(c) \/ SendCompleted(c) \/ Receive(c)
         \/ ResultReply(c) \/ sendAcceptedReceipt(c) \/ Return(c) \/ WaitTimesOut(c) \/ Accept(c)
         \/ Deadline(c) \/ Cancelled(c) \/ WriterStep(c)
  PROVE  StillHeld /\ slots' = slots
<1> DEFINE r == call[c]
<1>1. TypeOK /\ r \in CallType /\ CallOK(r)
  BY CallTyped DEF CallsOK
<1>2. {"NotConnected", "UnknownOutcome", "HostRestarted", "Unauthorized", "DeadlineExceeded", "InvalidPayload",
       "acceptance", "cancelled"} \subseteq Kinds
  BY DEF Kinds, MayHaveExecuted, RejectedBeforeExecution
<1>3. CASE Select(c)
  <2> DEFINE q == [r EXCEPT !.pc = "encode", !.owner = attachment, !.inc = att[attachment].ready.inc]
  <2>1. q.pc = "encode"
    BY <1>1 DEF CallType
  <2> HIDE DEF q
  <2>2. Edit(c, q) \/ Edit(c, Failed(r, "NotConnected"))
    BY <1>3 DEF Select, q
  <2>3. r.pc = "select" /\ slots' = slots
    BY <1>3 DEF Select, ByCall
  <2> QED BY <1>1, <1>2, <2>1, <2>2, <2>3, FailedPc, WorkHeld DEF Resting
<1>4. CASE Register(c)
  <2> DEFINE q == [r EXCEPT !.pc = "gate", !.registered = TRUE]
  <2>1. q.pc = "gate"
    BY <1>1 DEF CallType
  <2> HIDE DEF q
  <2>2. Edit(c, q) \/ Edit(c, Failed(r, "NotConnected"))
    BY <1>4 DEF Register, q
  <2>3. r.pc = "encode" /\ slots' = slots
    BY <1>4 DEF Register, ByCall
  <2> QED BY <1>1, <1>2, <2>1, <2>2, <2>3, FailedPc, WorkHeld DEF Resting
<1>5. CASE waitForSameHost(c)
  <2> DEFINE q == [r EXCEPT !.pc = "offer"]
  <2>1. q.pc = "offer"
    BY <1>1 DEF CallType
  <2> HIDE DEF q
  <2>2. Edit(c, q) \/ \E kind \in Kinds : Edit(c, Failed(r, kind))
    BY <1>2, <1>5 DEF waitForSameHost, q
  <2>3. r.pc = "gate" /\ slots' = slots
    BY <1>5 DEF waitForSameHost, ByCall
  <2> QED BY <1>1, <2>1, <2>2, <2>3, FailedPc, WorkHeld DEF Resting
<1>6. CASE OfferCall(c)
  <2> DEFINE x == [r EXCEPT !.invoking = r.invoke, !.ambiguous = r.evidence = "MayHaveExecuted"]
             q == [x EXCEPT !.pc = "sending", !.ticket = "queued", !.gen = LinkOf(c).gen]
             y == [x EXCEPT !.ticket = "none"]
  <2>1. x \in CallType
    BY <1>1 DEF CallType
  <2>2. Edit(c, q) \/ Edit(c, Unsent(y))
    BY <1>6 DEF OfferCall
  <2> HIDE DEF x
  <2>3. q.pc = "sending" /\ y \in CallType
    BY <2>1 DEF CallType
  <2> HIDE DEF q, y
  <2>4. r.pc = "offer" /\ slots' = slots
    BY <1>6 DEF OfferCall, ByCall
  <2> QED BY <1>1, <2>2, <2>3, <2>4, UnsentPc, WorkHeld DEF Resting
<1>7. CASE SendCompleted(c)
  <2> DEFINE q == [r EXCEPT !.pc = "waiting"]
  <2>1. q.pc = "waiting"
    BY <1>1 DEF CallType
  <2> HIDE DEF q
  <2>2. Edit(c, q) \/ Edit(c, Unsent(r))
    BY <1>7 DEF SendCompleted, q
  <2>3. r.pc = "sending" /\ slots' = slots
    BY <1>7 DEF SendCompleted, ByCall
  <2> QED BY <1>1, <2>1, <2>2, <2>3, UnsentPc, WorkHeld DEF Resting
<1>8. CASE Receive(c)
  <2> DEFINE x == [r EXCEPT !.replies = Tail(@)]
  <2>1. r.pc = "waiting" /\ slots' = slots
    BY <1>8 DEF Receive, ByCall
  <2>2. CASE r.replies = <<>> /\ Edit(c, Failed(r, "UnknownOutcome"))
    BY <1>1, <1>2, <2>1, <2>2, FailedPc, WorkHeld DEF Resting
  <2>3. CASE r.replies # <<>>
    <3>1. x \in CallType /\ x.pc = "waiting" /\ Head(r.replies) \in ReplyType
      <4>1. Shorter(r, x)
        BY <1>1, <2>3, ShorterTail
      <4>2. r.replies \in Seq(ReplyType)
        BY <1>1 DEF CallType
      <4> QED BY <2>1, <2>3, <4>1, <4>2, TailAt DEF Shorter
    <3>2. Head(r.replies).code \in Codes
      BY <3>1 DEF ReplyType
    <3>3. \/ \E kind \in Kinds : Edit(c, Failed(x, kind))
          \/ Edit(c, x)
          \/ \E code \in Codes \ {"Running", "Result"} : Edit(c, FailureReply(c, x, code))
      BY <1>2, <1>8, <2>3, <3>2 DEF Receive
    <3> HIDE DEF x
    <3> QED BY <1>1, <2>1, <3>1, <3>3, FailedPc, FailureReplyPc, WorkHeld DEF Resting
  <2> QED BY <1>8, <2>2, <2>3 DEF Receive
<1>9. CASE ResultReply(c)
  <2> DEFINE x == [r EXCEPT !.replies = Tail(@), !.evidence = "HandlerFinished"]
             p == IF c \in Accepting THEN "accepting" ELSE "returning"
             q == [x EXCEPT !.pc = p, !.gen = LinkOf(c).gen]
  <2>1. r.pc = "waiting" /\ slots' = slots /\ r.replies # <<>>
    BY <1>9 DEF ResultReply
  <2>2. x \in CallType
    <3>1. r.replies \in Seq(ReplyType)
      BY <1>1 DEF CallType
    <3>2. Tail(r.replies) \in Seq(ReplyType)
      BY <2>1, <3>1, TailAt
    <3> QED BY <1>1, <3>2 DEF CallType, Evidence
  <2>3. Edit(c, q) \/ Edit(c, Failed(x, "InvalidPayload"))
    BY <1>9 DEF ResultReply
  <2> HIDE DEF x
  <2>4. q.pc = p
    BY <2>2 DEF CallType
  <2> HIDE DEF q
  <2> QED BY <1>1, <1>2, <2>1, <2>2, <2>3, <2>4, FailedPc, WorkHeld DEF Resting
<1>10. CASE sendAcceptedReceipt(c)
  <2> DEFINE q == [r EXCEPT !.pc = "receipt"]
             y == [r EXCEPT !.pc = "returning"]
  <2>1. q.pc = "receipt" /\ y.pc = "returning"
    BY <1>1 DEF CallType
  <2> HIDE DEF q, y
  <2>2. Edit(c, q) \/ Edit(c, y) \/ Edit(c, Failed(r, "DeadlineExceeded"))
    BY <1>10 DEF sendAcceptedReceipt, q, y
  <2>3. r.pc \in {"accepted", "receipt"} /\ slots' = slots
    BY <1>10 DEF sendAcceptedReceipt
  <2> QED BY <1>1, <1>2, <2>1, <2>2, <2>3, FailedPc, WorkHeld DEF Resting
<1>11. CASE Return(c)
  <2> DEFINE x == retireSend(r)
             q == [x EXCEPT !.pc = "final", !.outcome = "success", !.published = "HandlerFinished"]
  <2>1. x \in CallType
    BY <1>1, RetireFields
  <2>2. Edit(c, q) /\ r.pc = "returning" /\ slots' = slots
    BY <1>11 DEF Return, ByCall
  <2> HIDE DEF x
  <2>3. q.pc = "final"
    BY <2>1 DEF CallType
  <2> HIDE DEF q
  <2> QED BY <1>1, <2>2, <2>3, WorkHeld DEF Resting
<1>12. CASE WaitTimesOut(c)
  <2>1. r.pc = "waiting" /\ slots' = slots
    BY <1>12 DEF WaitTimesOut, ByCall
  <2>2. PICK q \in {r.replies} \cup (IF r.replies = <<>> THEN {} ELSE {Tail(r.replies)}) :
          Edit(c, NextAttempt([r EXCEPT !.replies = q, !.invoke = FALSE]))
    BY <1>12 DEF WaitTimesOut
  <2> DEFINE x == [r EXCEPT !.replies = q, !.invoke = FALSE]
  <2>3. x \in CallType
    <3>1. r.replies \in Seq(ReplyType)
      BY <1>1 DEF CallType
    <3>2. q \in Seq(ReplyType)
      BY <2>2, <3>1, TailAt
    <3> QED BY <1>1, <3>2 DEF CallType
  <2> HIDE DEF x
  <2> QED BY <1>1, <2>1, <2>2, <2>3, RetryPc, WorkHeld DEF Resting, x
<1>13. CASE Accept(c)
  <2> DEFINE q == [r EXCEPT !.pc = "accepted", !.accepted = TRUE]
  <2>1. q.pc = "accepted"
    BY <1>1 DEF CallType
  <2> HIDE DEF q
  <2>2. Edit(c, q) \/ Edit(c, Failed(r, "acceptance"))
    BY <1>13 DEF Accept, q
  <2>3. r.pc = "accepting" /\ slots' = slots
    BY <1>13 DEF Accept, ByCall
  <2> QED BY <1>1, <1>2, <2>1, <2>2, <2>3, FailedPc, WorkHeld DEF Resting
<1>14. CASE Deadline(c)
  <2> DEFINE q == [r EXCEPT !.due = TRUE]
  <2>1. q.pc = r.pc
    BY <1>1 DEF CallType
  <2>2. Edit(c, q) /\ slots' = slots
    BY <1>14 DEF Deadline, ByCall
  <2> HIDE DEF q
  <2> QED BY <1>1, <2>1, <2>2, EditHeld
<1>15. CASE Cancelled(c)
  <2>1. r.pc \notin Resting /\ slots' = slots
    BY <1>15 DEF Cancelled, Resting
  <2>2. Edit(c, Failed(r, "DeadlineExceeded")) \/ Edit(c, Failed(r, "cancelled"))
    BY <1>15 DEF Cancelled
  <2> QED BY <1>1, <1>2, <2>1, <2>2, FailedPc, WorkHeld
<1>16. CASE WriterStep(c)
  <2>1. slots' = slots /\ \E t, e : Edit(c, [r EXCEPT !.ticket = t, !.evidence = e])
    <3>1. \A t : [r EXCEPT !.ticket = t] = [r EXCEPT !.ticket = t, !.evidence = r.evidence]
      BY <1>1 DEF CallType
    <3>2. CASE TicketBegins(c)
      BY <3>1, <3>2 DEF TicketBegins, ByCall
    <3>3. CASE onStart(c)
      BY <3>3 DEF onStart, ByCall
    <3>4. CASE TicketEnds(c)
      <4>1. slots' = slots /\ \E ok \in BOOLEAN : Edit(c, [r EXCEPT !.ticket = IF ok THEN "sent" ELSE "failed"])
        BY <3>4 DEF TicketEnds
      <4>2. PICK ok \in BOOLEAN : Edit(c, [r EXCEPT !.ticket = IF ok THEN "sent" ELSE "failed"])
        BY <4>1
      <4> DEFINE t == IF ok THEN "sent" ELSE "failed"
      <4>3. Edit(c, [r EXCEPT !.ticket = t])
        BY <4>2
      <4> HIDE DEF t
      <4> QED BY <3>1, <4>1, <4>3
    <3> QED BY <1>16, <3>2, <3>3, <3>4 DEF WriterStep
  <2>2. PICK t, e : Edit(c, [r EXCEPT !.ticket = t, !.evidence = e])
    BY <2>1
  <2>3. [r EXCEPT !.ticket = t, !.evidence = e].pc = r.pc
    BY <1>1 DEF CallType
  <2> QED BY <1>1, <2>1, <2>2, <2>3, EditHeld
<1> QED BY <1>3, <1>4, <1>5, <1>6, <1>7, <1>8, <1>9, <1>10, <1>11, <1>12, <1>13, <1>14, <1>15, <1>16

LEMMA LinkHeld == ASSUME TypeOK, NEW n \in Attachments, LinkStep(n) PROVE StillHeld /\ slots' = slots
<1>1. \A d \in Calls : call[d] \in CallType
  BY DEF TypeOK
<1>2. \A d \in Calls : /\ [call[d] EXCEPT !.ticket = "cancelled"].pc = call[d].pc
                       /\ [call[d] EXCEPT !.closed = TRUE].pc = call[d].pc
  BY <1>1 DEF CallType
<1>3. \A d \in Calls : Drained(n)[d].pc = call[d].pc /\ ClosedReplies(n)[d].pc = call[d].pc
  BY <1>2 DEF Drained, ClosedReplies
<1>4. slots' = slots
  BY DEF LinkStep, attach, observe, OfferHello, onReady, onReply, CloseLink, detach, close, Drop, Reconnect,
         ByLink, clientVars
<1>5. CASE onReply(n)
  <2> DEFINE m == Head(toClient[n])
             q == [call[m.c] EXCEPT !.replies = Append(@, [code |-> m.code, inc |-> m.inc])]
  <2>1. UNCHANGED call \/ call' = Drained(n) \/ Edit(m.c, q)
    BY <1>5 DEF onReply
  <2>2. m.c \in Calls
    <3>1. m \in AnswerType /\ m.code # "Ready"
      BY <1>5, TailAt DEF onReply, TypeOK
    <3> QED BY <3>1 DEF AnswerType
  <2>3. q.pc = call[m.c].pc
    BY <1>1, <2>2 DEF CallType
  <2> HIDE DEF q, m
  <2>4. CASE Edit(m.c, q)
    BY <1>4, <2>2, <2>3, <2>4, EditHeld
  <2> QED BY <1>3, <1>4, <2>1, <2>4 DEF StillHeld
<1>6. CASE ~onReply(n)
  <2>1. UNCHANGED call \/ call' = Drained(n) \/ call' = ClosedReplies(n)
    BY <1>6 DEF LinkStep, attach, observe, OfferHello, onReady, CloseLink, detach, close, Drop, Reconnect,
                detachLocked, clientVars
  <2> QED BY <1>3, <1>4, <2>1 DEF StillHeld
<1> QED BY <1>5, <1>6

LEMMA SlotsStep == ASSUME SystemInv, SlotsExact, [Next]_vars PROVE SlotsExact'
<1>1. TypeOK /\ CallsOK
  BY InvCalls
<1>2. CASE UNCHANGED <<call, slots>>
  <2>1. StillHeld
    BY <1>2 DEF StillHeld
  <2> QED BY <1>2, <2>1, SteadySlots
<1>3. CASE \E c \in Calls : Begin(c)
  BY <1>1, <1>3, BeginSlots
<1>4. CASE \E c \in Calls : Finally(c)
  BY <1>1, <1>4, FinallySlots
<1>5. CASE \E n \in Attachments : LinkStep(n)
  BY <1>1, <1>5, LinkHeld, SteadySlots
<1>6. CASE \E c \in Calls :
             /\ CallStep(c) \/ WaitTimesOut(c) \/ Accept(c) \/ Deadline(c) \/ Cancelled(c) \/ WriterStep(c)
             /\ ~Begin(c) /\ ~Finally(c)
  <2>1. StillHeld /\ slots' = slots
    BY <1>1, <1>6, OtherCallHeld DEF CallStep
  <2> QED BY <2>1, SteadySlots
<1>7. HostNext => UNCHANGED <<call, slots>>
  BY DEF HostNext, Hello, Unserved, Stale, Invoke, Status, Control, HandlerBegins, CallEnds, Forgets, Restart, clientVars
<1>8. \A x \in controls : ControlSent(x) => UNCHANGED <<call, slots>>
  BY DEF ControlSent
<1>9. UNCHANGED vars => UNCHANGED <<call, slots>>
  BY DEF vars, clientVars
<1> QED BY <1>2, <1>3, <1>4, <1>5, <1>6, <1>7, <1>8, <1>9 DEF Next, ClientNext

\* However calls end - refused, retried, cancelled, timed out, with their link
\* or without it - none loses its slot and none gives one back twice: the free
\* slots and the calls between acquisition and finally add up to the limit.
THEOREM SlotsExactHolds == Spec => []SlotsExact
<1>1. Init => SlotsExact
  <2> SUFFICES ASSUME Init PROVE SlotsExact
    OBVIOUS
  <2>1. \A c \in Calls : call[c].pc = "idle"
    BY DEF Init, ClientInit, NewCall
  <2>2. Holding = {}
    BY <2>1 DEF Holding, Resting
  <2>3. slots = OutstandingLimit /\ OutstandingLimit \in Nat
    BY ClientAssumption DEF Init, ClientInit
  <2> QED BY <2>2, <2>3, FS_EmptySet DEF SlotsExact
<1>2. SystemInv /\ SlotsExact /\ [Next]_vars => SlotsExact'
  BY SlotsStep
<1> QED BY <1>1, <1>2, SystemInvariant, PTL DEF Spec
=============================================================================
