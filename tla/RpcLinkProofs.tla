---------------------------- MODULE RpcLinkProofs ----------------------------
(***************************************************************************)
(* Theorems about the outgoing side of one RPC connection, for every set   *)
(* of tickets, every size, every limit and every choice of events.         *)
(***************************************************************************)
EXTENDS RpcLink, FiniteSetTheorems, TLAPS

\* Whoever holds a ticket that is not settled: a queue, or the writer, and
\* only the writer once it has started.
Placed ==
  \A t \in Tickets :
    /\ Open(t) => t \in Range(priority) \cup Range(notifications) \cup {writer.item}
    /\ ticket[t].state = "started" => t = writer.item /\ writer.pc \in {"onStart", "send", "finish"}

\* What the writer knows of the ticket in its hand.
Handed ==
  /\ writer.pc \in {"wait", "take", "break", "dead"} <=> writer.item = NoTicket
  /\ writer.pc = "onStart" => ticket[writer.item].state = "started"
  /\ writer.pc = "send" => ticket[writer.item].state = "started" /\ ticket[writer.item].onStart

\* The gate of the login is held from the check to the start.
Gated == writer.pc = "cas" /\ writer.item \in Scoped => login # "revoked"

Sealed ==
  /\ closure # "Open" => closed
  /\ closer # "idle" => closure = "Closing"

LinkInv ==
  /\ TypeOK /\ LeaseExact /\ WireTruthful /\ CloseDrains
  /\ Placed /\ Handed /\ Gated /\ Sealed

-----------------------------------------------------------------------------
(* Queues and their bytes.                                                 *)

\* Head(s) leaves the queue with its bytes.
LEMMA TotalsTail ==
  ASSUME NEW s \in Seq(Tickets), s # <<>>, NEW b \in Nat, Totals(s, b)
  PROVE  Size[Head(s)] \in 0 .. b /\ Totals(Tail(s), b - Size[Head(s)])
<1>1. PICK sum \in [0 .. Len(s) -> 0 .. b] :
        /\ sum[0] = 0 /\ sum[Len(s)] = b
        /\ \A i \in 1 .. Len(s) : sum[i] = sum[i-1] + Size[s[i]]
        /\ \A i, j \in 0 .. Len(s) : i <= j => sum[i] <= sum[j]
  BY DEF Totals
<1>2. Len(s) \in Nat \ {0} /\ Head(s) = s[1] /\ s[1] \in Tickets /\ Size[s[1]] \in Nat
  BY LinkConstants
<1>3. Len(Tail(s)) = Len(s) - 1 /\ \A i \in 1 .. Len(s) - 1 : Tail(s)[i] = s[i+1]
  BY <1>2
<1>4. sum[1] = Size[s[1]] /\ \A i \in 1 .. Len(s) : sum[1] <= sum[i] /\ sum[i] <= b /\ sum[i] \in Nat
  <2>1. 1 \in 1 .. Len(s) /\ 1 - 1 = 0
    BY <1>2
  <2>2. sum[1] = sum[1 - 1] + Size[s[1]]
    BY <1>1, <2>1
  <2>3. sum[1] = Size[s[1]]
    BY <1>1, <1>2, <2>1, <2>2
  <2>4. \A i \in 1 .. Len(s) : i \in 0 .. Len(s) /\ 1 \in 0 .. Len(s) /\ 1 <= i
    BY <1>2
  <2>5. \A i \in 0 .. Len(s) : sum[i] \in 0 .. b
    BY <1>1
  <2> QED
    BY <1>1, <2>3, <2>4, <2>5
<1> DEFINE rest == [i \in 0 .. Len(s) - 1 |-> sum[i+1] - sum[1]]
<1>5. rest \in [0 .. Len(Tail(s)) -> 0 .. b - Size[Head(s)]]
  BY <1>2, <1>3, <1>4
<1>6. rest[0] = 0 /\ rest[Len(Tail(s))] = b - Size[Head(s)]
  BY <1>1, <1>2, <1>3, <1>4
<1>7. ASSUME NEW i \in 1 .. Len(Tail(s)) PROVE rest[i] = rest[i-1] + Size[Tail(s)[i]]
  <2>1. i + 1 \in 2 .. Len(s) /\ i \in 1 .. Len(s) /\ i - 1 \in 0 .. Len(s) - 1 /\ i \in 0 .. Len(s) - 1
    BY <1>2, <1>3
  <2>2. sum[i+1] = sum[i] + Size[s[i+1]] /\ s[i+1] \in Tickets
    BY <1>1, <2>1
  <2>3. rest[i] = sum[i+1] - sum[1] /\ rest[i-1] = sum[i] - sum[1]
    BY <2>1
  <2>4. sum[i+1] \in Nat /\ sum[i] \in Nat /\ sum[1] \in Nat /\ Size[s[i+1]] \in Nat
    BY <1>2, <1>4, <2>1, <2>2, LinkConstants, SMTT(30)
  <2> QED
    BY <1>3, <2>2, <2>3, <2>4
<1>8. ASSUME NEW i \in 0 .. Len(Tail(s)), NEW j \in 0 .. Len(Tail(s)), i <= j
      PROVE  rest[i] <= rest[j]
  BY <1>1, <1>2, <1>3, <1>4, <1>8
<1> HIDE DEF rest
<1>9. Totals(Tail(s), b - Size[Head(s)])
  BY <1>5, <1>6, <1>7, <1>8 DEF Totals
<1> QED
  BY <1>2, <1>4, <1>9

LEMMA TotalsAppend ==
  ASSUME NEW s \in Seq(Tickets), NEW t \in Tickets, NEW b \in Nat, Totals(s, b)
  PROVE  Totals(Append(s, t), b + Size[t])
<1>1. PICK sum \in [0 .. Len(s) -> 0 .. b] :
        /\ sum[0] = 0 /\ sum[Len(s)] = b
        /\ \A i \in 1 .. Len(s) : sum[i] = sum[i-1] + Size[s[i]]
        /\ \A i, j \in 0 .. Len(s) : i <= j => sum[i] <= sum[j]
  BY DEF Totals
<1> DEFINE a == Append(s, t)
           more == [i \in 0 .. Len(s) + 1 |-> IF i = Len(s) + 1 THEN b + Size[t] ELSE sum[i]]
<1>2. Len(s) \in Nat /\ Size[t] \in Nat
  BY LinkConstants
<1>3. Len(a) = Len(s) + 1 /\ a[Len(s) + 1] = t /\ \A i \in 1 .. Len(s) : a[i] = s[i]
  BY <1>2
<1>4. more \in [0 .. Len(a) -> 0 .. b + Size[t]]
  BY <1>2, <1>3
<1>5. more[0] = 0 /\ more[Len(a)] = b + Size[t]
  BY <1>1, <1>2, <1>3
<1>6. ASSUME NEW i \in 1 .. Len(a) PROVE more[i] = more[i-1] + Size[a[i]]
  <2>1. CASE i = Len(s) + 1
    BY <1>1, <1>2, <1>3, <2>1
  <2>2. CASE i \in 1 .. Len(s)
    BY <1>1, <1>2, <1>3, <2>2
  <2> QED
    BY <1>2, <1>3, <2>1, <2>2
<1>7. ASSUME NEW i \in 0 .. Len(a), NEW j \in 0 .. Len(a), i <= j PROVE more[i] <= more[j]
  BY <1>1, <1>2, <1>3, <1>7
<1> HIDE DEF more
<1>8. Totals(a, b + Size[t])
  BY <1>4, <1>5, <1>6, <1>7 DEF Totals
<1> QED
  BY <1>8

LEMMA TotalsEmpty == Totals(<<>>, 0)
<1> DEFINE none == [i \in 0 .. 0 |-> 0]
<1>1. none \in [0 .. Len(<<>>) -> 0 .. 0] /\ none[0] = 0 /\ Len(<<>>) = 0
  OBVIOUS
<1>2. \A i \in 1 .. Len(<<>>) : none[i] = none[i-1] + Size[<<>>[i]]
  OBVIOUS
<1>3. \A i, j \in 0 .. Len(<<>>) : i <= j => none[i] <= none[j]
  BY <1>1
<1> HIDE DEF none
<1> QED
  BY <1>1, <1>2, <1>3 DEF Totals

LEMMA Ranges ==
  ASSUME NEW s \in Seq(Tickets)
  PROVE  /\ Range(s) \subseteq Tickets
         /\ \A t \in Tickets : Range(Append(s, t)) = Range(s) \cup {t}
         /\ s # <<>> => Head(s) \in Tickets /\ Tail(s) \in Seq(Tickets)
                        /\ Range(s) \subseteq Range(Tail(s)) \cup {Head(s)}
<1>1. Range(s) \subseteq Tickets
  BY DEF Range
<1>2. ASSUME NEW t \in Tickets PROVE Range(Append(s, t)) = Range(s) \cup {t}
  <2>1. /\ DOMAIN Append(s, t) = 1 .. Len(s) + 1 /\ DOMAIN s = 1 .. Len(s) /\ Len(s) \in Nat
        /\ Append(s, t)[Len(s) + 1] = t /\ \A i \in 1 .. Len(s) : Append(s, t)[i] = s[i]
    OBVIOUS
  <2>2. Range(Append(s, t)) \subseteq Range(s) \cup {t}
    BY <2>1 DEF Range
  <2>3. Range(s) \cup {t} \subseteq Range(Append(s, t))
    <3>1. t \in Range(Append(s, t))
      BY <2>1 DEF Range
    <3>2. \A i \in 1 .. Len(s) : s[i] \in Range(Append(s, t))
      BY <2>1 DEF Range
    <3> QED
      BY <2>1, <3>1, <3>2 DEF Range
  <2> QED
    BY <2>2, <2>3
<1>3. ASSUME s # <<>>
      PROVE  Head(s) \in Tickets /\ Tail(s) \in Seq(Tickets)
             /\ Range(s) \subseteq Range(Tail(s)) \cup {Head(s)}
  <2>1. /\ Len(s) \in Nat \ {0} /\ Head(s) = s[1] /\ DOMAIN s = 1 .. Len(s)
        /\ Head(s) \in Tickets /\ Tail(s) \in Seq(Tickets)
        /\ DOMAIN Tail(s) = 1 .. Len(s) - 1 /\ \A i \in 1 .. Len(s) - 1 : Tail(s)[i] = s[i+1]
    BY <1>3
  <2>2. ASSUME NEW i \in 1 .. Len(s) PROVE s[i] \in Range(Tail(s)) \cup {Head(s)}
    <3>1. CASE i = 1
      BY <2>1, <3>1
    <3>2. CASE i # 1
      <4>1. i - 1 \in 1 .. Len(s) - 1 /\ s[i] = Tail(s)[i-1]
        BY <2>1, <3>2
      <4> QED
        BY <2>1, <4>1 DEF Range
    <3> QED
      BY <3>1, <3>2
  <2> QED
    BY <2>1, <2>2 DEF Range
<1> QED
  BY <1>1, <1>2, <1>3

-----------------------------------------------------------------------------
(* Tickets.                                                                *)

OpenNotes == {t \in Notifications : Open(t)}

LEMMA OpenNotesFinite ==
  IsFiniteSet(OpenNotes) /\ Cardinality(OpenNotes) \in Nat
BY LinkConstants, FS_Subset, FS_CardinalityType DEF OpenNotes

\* The word of an open ticket is won once: its lease goes back with it.
LEMMA SettleFacts ==
  ASSUME TypeOK, LeaseExact, WireTruthful, NEW t \in Tickets, Open(t),
         NEW to \in {"finished", "cancelled"}, NEW success \in BOOLEAN, Settle(t, to, success),
         to = "cancelled" => ~ticket[t].onStart,
         UNCHANGED queueVars
  PROVE  /\ ticket' \in [Tickets -> Ticket] /\ entries' \in 0 .. NotificationSlots
         /\ \A u \in Tickets : u # t => ticket'[u] = ticket[u]
         /\ ticket'[t].state = to
         /\ LeaseExact' /\ WireTruthful'
<1>1. /\ ticket \in [Tickets -> Ticket] /\ ticket[t] \in Ticket /\ entries \in Nat
      /\ NotificationSlots \in Nat
  BY LinkConstants DEF TypeOK
<1>2. /\ \A u \in Tickets : u # t => ticket'[u] = ticket[u]
      /\ ticket'[t] = [ticket[t] EXCEPT !.state = to, !.releases = @ + 1,
                                        !.completion = IF success THEN "true" ELSE "false"]
      /\ ticket' \in [Tickets -> Ticket]
  BY <1>1 DEF Settle, Ticket, States
<1>3. /\ ticket'[t].state = to /\ ticket'[t].releases = 1
      /\ ticket'[t].wire = ticket[t].wire /\ ticket'[t].onStart = ticket[t].onStart
      /\ ticket'[t].gen = ticket[t].gen
  BY <1>1, <1>2 DEF Ticket, LeaseExact, Open
<1>4. OpenNotes' = OpenNotes \ {t} /\ (t \in OpenNotes <=> t \in Notifications)
  BY <1>2, <1>3, LinkConstants DEF OpenNotes, Open
<1>5. /\ Cardinality(OpenNotes') = IF t \in OpenNotes THEN Cardinality(OpenNotes) - 1
                                   ELSE Cardinality(OpenNotes)
      /\ Cardinality(OpenNotes') \in Nat
  BY <1>4, OpenNotesFinite, FS_RemoveElement, FS_CardinalityType
<1>6. entries = NotificationSlots - Cardinality(OpenNotes)
  BY DEF LeaseExact, OpenNotes
<1>7. entries' = NotificationSlots - Cardinality(OpenNotes')
  BY <1>1, <1>4, <1>5, <1>6, OpenNotesFinite DEF Settle
<1>8. entries' \in 0 .. NotificationSlots
  BY <1>1, <1>4, <1>5, <1>7 DEF Settle
<1>9. LeaseExact'
  BY <1>2, <1>3, <1>7 DEF LeaseExact, OpenNotes, queueVars
<1>10. WireTruthful'
  BY <1>2, <1>3 DEF WireTruthful, Open
<1> QED
  BY <1>2, <1>3, <1>8, <1>9, <1>10

\* The writer, the queues and the books, when a ticket is settled or not.
LEMMA FinishFacts ==
  ASSUME LinkInv, writer.pc = "finish", finish(writer.item, writer.ok), UNCHANGED queueVars
  PROVE  /\ ticket' \in [Tickets -> Ticket] /\ entries' \in 0 .. NotificationSlots
         /\ \A u \in Tickets : u # writer.item => ticket'[u] = ticket[u]
         /\ ticket'[writer.item].state \notin {"queued", "started"} /\ writer.item \in Tickets
         /\ LeaseExact' /\ WireTruthful'
<1> DEFINE t == writer.item
<1>1. t \in Tickets /\ writer.ok \in BOOLEAN
  BY DEF LinkInv, Handed, TypeOK, Writer
<1>2. TypeOK /\ LeaseExact /\ WireTruthful
  BY DEF LinkInv
<1>3. CASE ticket[t].state = "started" /\ Settle(t, "finished", writer.ok)
  BY <1>1, <1>2, <1>3, SettleFacts DEF Open
<1>4. CASE ticket[t].state = "queued" /\ Settle(t, "cancelled", FALSE)
  <2>1. ~ticket[t].onStart
    BY <1>1, <1>2, <1>4 DEF WireTruthful
  <2> QED
    BY <1>1, <1>2, <1>4, <2>1, SettleFacts DEF Open
<1>5. CASE ticket[t].state \notin {"started", "queued"} /\ UNCHANGED <<ticket, entries>>
  BY <1>1, <1>2, <1>5 DEF TypeOK, Open, LeaseExact, WireTruthful, queueVars
<1> QED
  BY <1>3, <1>4, <1>5 DEF finish

-----------------------------------------------------------------------------
(* Producers.                                                              *)

LEMMA CancelStep ==
  ASSUME LinkInv, NEW t \in Tickets, cancelQueued(t)
  PROVE  LinkInv'
<1> USE DEF LinkInv
<1>1. /\ ticket[t].state = "queued" /\ Settle(t, "cancelled", FALSE)
      /\ UNCHANGED <<coreVars, policyVars, queueVars, wake, writer, closeVars>>
  BY DEF cancelQueued
<1>2. Open(t) /\ ~ticket[t].onStart
  BY <1>1 DEF Open, WireTruthful
<1>3. /\ ticket' \in [Tickets -> Ticket] /\ entries' \in 0 .. NotificationSlots
      /\ \A u \in Tickets : u # t => ticket'[u] = ticket[u]
      /\ ticket'[t].state = "cancelled"
      /\ LeaseExact' /\ WireTruthful'
  BY <1>1, <1>2, SettleFacts
<1>4. TypeOK'
  BY <1>1, <1>3 DEF TypeOK, coreVars, policyVars, queueVars, closeVars
<1>5. Placed' /\ CloseDrains'
  BY <1>1, <1>3 DEF Placed, CloseDrains, Open, queueVars, closeVars
<1>6. Handed' /\ Gated' /\ Sealed'
  BY <1>1, <1>3 DEF Handed, Gated, Sealed, policyVars, closeVars, TypeOK, Writer
<1> QED
  BY <1>3, <1>4, <1>5, <1>6

LEMMA OfferStep ==
  ASSUME LinkInv, NEW t \in Tickets, offer(t)
  PROVE  LinkInv'
<1> USE DEF LinkInv
<1>1. /\ ticket[t].state = "none" /\ ~closed /\ clock + Lifetime \in Nat
      /\ OfferPriority(t) \/ OfferNotification(t)
      /\ ticket' = [ticket EXCEPT ![t].state = "queued", ![t].gen = generation,
                                  ![t].expires = clock + Lifetime]
      /\ wake' = TRUE
      /\ UNCHANGED <<coreVars, policyVars, writer, closeVars>>
  BY LinkConstants DEF offer, Offered, Wake, TypeOK
<1>2. /\ ticket \in [Tickets -> Ticket] /\ ticket[t] \in Ticket /\ generation \in Nat
      /\ priority \in Seq(Tickets) /\ notifications \in Seq(Tickets)
      /\ priorityBytes \in Nat /\ notificationBytes \in Nat /\ Size[t] \in Nat
      /\ entries \in Nat /\ {NotificationSlots, PriorityLimit, NotificationLimit} \subseteq Nat
  BY LinkConstants DEF TypeOK
<1>3. /\ ticket' \in [Tickets -> Ticket]
      /\ \A u \in Tickets : u # t => ticket'[u] = ticket[u]
      /\ ticket'[t].state = "queued" /\ ticket'[t].onStart = ticket[t].onStart
      /\ ticket'[t].wire = ticket[t].wire /\ ticket'[t].releases = ticket[t].releases
  BY <1>1, <1>2 DEF Ticket, States
<1>4. ~ticket[t].onStart /\ ticket[t].wire = 0 /\ ticket[t].releases = 0 /\ ~Open(t)
  BY <1>1 DEF WireTruthful, LeaseExact, Open
<1>5. /\ priority' \in Seq(Tickets) /\ notifications' \in Seq(Tickets)
      /\ t \in Range(priority') \cup Range(notifications')
      /\ Range(priority) \subseteq Range(priority') /\ Range(notifications) \subseteq Range(notifications')
      /\ Totals(priority', priorityBytes') /\ Totals(notifications', notificationBytes')
      /\ priorityBytes' \in 0 .. PriorityLimit /\ notificationBytes' \in 0 .. NotificationLimit
  <2>1. CASE OfferPriority(t)
    <3>1. /\ priority' = Append(priority, t) /\ priorityBytes' = priorityBytes + Size[t]
          /\ Size[t] <= PriorityLimit - priorityBytes
          /\ UNCHANGED <<notifications, notificationBytes>>
      BY <2>1 DEF OfferPriority
    <3>2. Totals(priority', priorityBytes')
      BY <1>2, <3>1, TotalsAppend DEF LeaseExact
    <3>3. priorityBytes' \in 0 .. PriorityLimit
      BY <1>2, <3>1
    <3> QED
      BY <1>2, <3>1, <3>2, <3>3, Ranges DEF LeaseExact, TypeOK
  <2>2. CASE OfferNotification(t)
    <3>1. /\ notifications' = Append(notifications, t)
          /\ notificationBytes' = notificationBytes + Size[t]
          /\ Size[t] <= NotificationLimit - notificationBytes
          /\ UNCHANGED <<priority, priorityBytes>>
      BY <2>2 DEF OfferNotification
    <3>2. Totals(notifications', notificationBytes')
      BY <1>2, <3>1, TotalsAppend DEF LeaseExact
    <3>3. notificationBytes' \in 0 .. NotificationLimit
      BY <1>2, <3>1
    <3> QED
      BY <1>2, <3>1, <3>2, <3>3, Ranges DEF LeaseExact, TypeOK
  <2> QED
    BY <1>1, <2>1, <2>2
<1>6. entries' = NotificationSlots - Cardinality(OpenNotes') /\ entries' \in 0 .. NotificationSlots
  <2>1. entries = NotificationSlots - Cardinality(OpenNotes)
    BY DEF LeaseExact, OpenNotes
  <2>2. CASE OfferPriority(t)
    <3>1. OpenNotes' = OpenNotes /\ entries' = entries
      BY <1>3, <2>2, LinkConstants DEF OfferPriority, OpenNotes, Open
    <3> QED
      BY <2>1, <3>1 DEF TypeOK
  <2>3. CASE OfferNotification(t)
    <3>1. OpenNotes' = OpenNotes \cup {t} /\ t \notin OpenNotes
      BY <1>3, <1>4, <2>3, LinkConstants DEF OfferNotification, OpenNotes, Open
    <3>2. Cardinality(OpenNotes') = Cardinality(OpenNotes) + 1
      BY <3>1, OpenNotesFinite, FS_AddElement
    <3>3. entries > 0 /\ entries' = entries - 1
      BY <2>3 DEF OfferNotification
    <3> QED
      BY <1>2, <2>1, <3>2, <3>3, OpenNotesFinite
  <2> QED
    BY <1>1, <2>2, <2>3
<1>7. TypeOK'
  BY <1>1, <1>3, <1>5, <1>6 DEF TypeOK, coreVars, policyVars, closeVars
<1>8. LeaseExact' /\ WireTruthful'
  BY <1>3, <1>4, <1>5, <1>6 DEF LeaseExact, WireTruthful, OpenNotes
<1>9. Placed' /\ CloseDrains'
  BY <1>1, <1>3, <1>5 DEF Placed, CloseDrains, Open, closeVars, Sealed
<1>10. Handed' /\ Gated' /\ Sealed'
  BY <1>1, <1>3 DEF Handed, Gated, Sealed, policyVars, closeVars, TypeOK, Writer
<1> QED
  BY <1>7, <1>8, <1>9, <1>10

-----------------------------------------------------------------------------
(* The writer.                                                             *)

\* A step of the writer that leaves the tickets and the queues alone.
LEMMA WriterMoves ==
  ASSUME LinkInv, writer' \in Writer, writer'.item = writer.item,
         writer.pc \notin {"onStart", "send", "finish"},
         writer'.pc \notin {"onStart", "send"},
         writer'.pc \in {"wait", "take", "break", "dead"} <=> writer.item = NoTicket,
         writer'.pc = "cas" /\ writer.item \in Scoped => login # "revoked",
         wake' \in BOOLEAN, UNCHANGED <<ticket, queueVars, entries>>, WriterKeeps
  PROVE  LinkInv'
<1> USE DEF LinkInv
<1>1. /\ UNCHANGED <<clock, transport, generation, login, trusted, closed, active, closure, closer>>
      /\ UNCHANGED <<priority, notifications, priorityBytes, notificationBytes, ticket, entries>>
  BY DEF WriterKeeps, coreVars, policyVars, closeVars, queueVars
<1>2. TypeOK'
  BY <1>1 DEF TypeOK
<1>3. LeaseExact' /\ WireTruthful' /\ CloseDrains'
  BY <1>1 DEF LeaseExact, WireTruthful, CloseDrains, Open
<1>4. Placed' /\ Handed' /\ Gated' /\ Sealed'
  BY <1>1 DEF Placed, Handed, Gated, Sealed, Open
<1> QED
  BY <1>2, <1>3, <1>4

LEMMA WriterRests ==
  ASSUME LinkInv, WriterWakes \/ WriterIdles \/ WriterDies
  PROVE  LinkInv'
<1> USE DEF LinkInv
<1>1. PICK pc \in {"take", "break", "wait", "dead"} : writer' = Idle(pc)
  BY DEF WriterWakes, WriterIdles, WriterDies
<1>2. writer.pc \in {"take", "break", "wait"} /\ writer.item = NoTicket
  BY DEF WriterWakes, WriterIdles, WriterDies, At, Handed
<1>3. writer' \in Writer /\ writer'.pc = pc /\ writer'.item = NoTicket
  BY <1>1 DEF Idle, Writer
<1>4. wake' \in BOOLEAN /\ UNCHANGED <<ticket, queueVars, entries>> /\ WriterKeeps
  BY DEF WriterWakes, WriterIdles, WriterDies, WriterOnly, TypeOK
<1> QED
  BY <1>2, <1>3, <1>4, WriterMoves

LEMMA WriterAsks ==
  ASSUME LinkInv, WriterChecks \/ WriterAuthorizes \/ WriterCommits
  PROVE  LinkInv'
<1> USE DEF LinkInv
<1>1. writer \in Writer /\ wake' \in BOOLEAN /\ UNCHANGED <<ticket, queueVars, entries>> /\ WriterKeeps
  BY DEF WriterChecks, WriterAuthorizes, WriterCommits, WriterOnly, TypeOK
<1>2. writer.pc \in {"check", "authorize", "commit"} /\ writer.item # NoTicket
  BY DEF WriterChecks, WriterAuthorizes, WriterCommits, At, Handed
<1>3. \/ \E pc \in {"authorize", "commit", "cas"} : 
            /\ GoWriter(pc)
            /\ pc = "cas" => writer.item \notin Scoped \/ login = "active"
      \/ \E dying \in BOOLEAN : Fail(dying)
  BY DEF WriterChecks, WriterAuthorizes, WriterCommits
<1>4. /\ writer' \in Writer /\ writer'.item = writer.item
      /\ writer'.pc \in {"authorize", "commit", "cas", "finish"}
      /\ writer'.pc = "cas" => writer.item \notin Scoped \/ login = "active"
  BY <1>1, <1>3 DEF GoWriter, Fail, Writer
<1> QED
  BY <1>1, <1>2, <1>4, WriterMoves

LEMMA TakeStep ==
  ASSUME LinkInv, WriterTakes
  PROVE  LinkInv'
<1> USE DEF LinkInv
<1>1. writer.pc = "take" /\ writer.item = NoTicket
  BY DEF WriterTakes, At, Handed
<1>2. /\ UNCHANGED <<clock, transport, generation, login, trusted, closed, active, closure, closer>>
      /\ UNCHANGED <<ticket, entries, wake>>
  BY DEF WriterTakes, WriterKeeps, coreVars, policyVars, closeVars
<1>3. /\ priority \in Seq(Tickets) /\ notifications \in Seq(Tickets)
      /\ priorityBytes \in Nat /\ notificationBytes \in Nat
      /\ {PriorityLimit, NotificationLimit} \subseteq Nat
      /\ Totals(priority, priorityBytes) /\ Totals(notifications, notificationBytes)
  BY LinkConstants DEF TypeOK, LeaseExact
<1>4. \E t \in Tickets :
        /\ writer' = [Idle("check") EXCEPT !.item = t]
        /\ Range(priority) \cup Range(notifications) \subseteq Range(priority') \cup Range(notifications') \cup {t}
        /\ priority' \in Seq(Tickets) /\ notifications' \in Seq(Tickets)
        /\ priorityBytes' \in 0 .. PriorityLimit /\ notificationBytes' \in 0 .. NotificationLimit
        /\ Totals(priority', priorityBytes') /\ Totals(notifications', notificationBytes')
        /\ ~(priority = <<>> /\ notifications = <<>>)
  <2>1. CASE /\ priority # <<>>
             /\ writer' = [Idle("check") EXCEPT !.item = Head(priority)]
             /\ priority' = Tail(priority) /\ priorityBytes' = priorityBytes - Size[Head(priority)]
             /\ UNCHANGED <<notifications, notificationBytes>>
    <3>1. Size[Head(priority)] \in 0 .. priorityBytes /\ Totals(priority', priorityBytes')
      BY <1>3, <2>1, TotalsTail
    <3>2. priorityBytes' \in 0 .. PriorityLimit
      BY <1>3, <2>1, <3>1 DEF TypeOK
    <3>3. /\ Head(priority) \in Tickets /\ priority' \in Seq(Tickets)
          /\ Range(priority) \subseteq Range(priority') \cup {Head(priority)}
      BY <1>3, <2>1, Ranges
    <3> QED
      BY <1>3, <2>1, <3>1, <3>2, <3>3 DEF TypeOK
  <2>2. CASE /\ notifications # <<>>
             /\ writer' = [Idle("check") EXCEPT !.item = Head(notifications)]
             /\ notifications' = Tail(notifications)
             /\ notificationBytes' = notificationBytes - Size[Head(notifications)]
             /\ UNCHANGED <<priority, priorityBytes>>
    <3>1. Size[Head(notifications)] \in 0 .. notificationBytes /\ Totals(notifications', notificationBytes')
      BY <1>3, <2>2, TotalsTail
    <3>2. notificationBytes' \in 0 .. NotificationLimit
      BY <1>3, <2>2, <3>1 DEF TypeOK
    <3>3. /\ Head(notifications) \in Tickets /\ notifications' \in Seq(Tickets)
          /\ Range(notifications) \subseteq Range(notifications') \cup {Head(notifications)}
      BY <1>3, <2>2, Ranges
    <3> QED
      BY <1>3, <2>2, <3>1, <3>2, <3>3 DEF TypeOK
  <2> QED
    BY <2>1, <2>2 DEF WriterTakes
<1>5. PICK t \in Tickets :
        /\ writer' = [Idle("check") EXCEPT !.item = t]
        /\ Range(priority) \cup Range(notifications) \subseteq Range(priority') \cup Range(notifications') \cup {t}
        /\ priority' \in Seq(Tickets) /\ notifications' \in Seq(Tickets)
        /\ priorityBytes' \in 0 .. PriorityLimit /\ notificationBytes' \in 0 .. NotificationLimit
        /\ Totals(priority', priorityBytes') /\ Totals(notifications', notificationBytes')
        /\ ~(priority = <<>> /\ notifications = <<>>)
  BY <1>4
<1>6. writer' \in Writer /\ writer'.pc = "check" /\ writer'.item = t /\ t # NoTicket
  BY <1>5, LinkConstants DEF Idle, Writer
<1>7. TypeOK'
  BY <1>2, <1>5, <1>6 DEF TypeOK
<1>8. LeaseExact' /\ WireTruthful'
  BY <1>2, <1>5 DEF LeaseExact, WireTruthful, Open
<1>9. CloseDrains'
  BY <1>2, <1>5 DEF CloseDrains
<1>10. Placed'
  BY <1>1, <1>2, <1>5, <1>6, LinkConstants DEF Placed, Open
<1>11. Handed' /\ Gated' /\ Sealed'
  BY <1>2, <1>6 DEF Handed, Gated, Sealed
<1> QED
  BY <1>7, <1>8, <1>9, <1>10, <1>11

\* begin(), onStart() and the send change only the ticket in the hand.
LEMMA HandStep ==
  ASSUME LinkInv, writer.item \in Tickets, writer' \in Writer, writer'.item = writer.item,
         writer.pc \notin {"wait", "take", "break", "dead"},
         writer'.pc \in {"onStart", "send", "finish"},
         ticket' \in [Tickets -> Ticket],
         \A u \in Tickets : u # writer.item => ticket'[u] = ticket[u],
         ticket[writer.item].state = "queued" \/ ticket'[writer.item].state = ticket[writer.item].state,
         ticket'[writer.item].state # ticket[writer.item].state => ticket'[writer.item].state = "started",
         writer'.pc = "onStart" => ticket'[writer.item].state = "started",
         writer'.pc = "send" => ticket'[writer.item].state = "started" /\ ticket'[writer.item].onStart,
         ticket'[writer.item].releases = ticket[writer.item].releases,
         ticket'[writer.item].wire # 0 => /\ ticket'[writer.item].onStart
                                          /\ ticket'[writer.item].wire = ticket'[writer.item].gen,
         ticket'[writer.item].onStart => ticket'[writer.item].state \in {"started", "finished"},
         UNCHANGED <<queueVars, entries, wake>>, WriterKeeps
  PROVE  LinkInv'
<1> USE DEF LinkInv
<1>1. /\ UNCHANGED <<clock, transport, generation, login, trusted, closed, active, closure, closer>>
      /\ UNCHANGED <<priority, notifications, priorityBytes, notificationBytes, entries, wake>>
  BY DEF WriterKeeps, coreVars, policyVars, closeVars, queueVars
<1>2. TypeOK'
  BY <1>1 DEF TypeOK
<1>3. \A t \in Tickets : /\ Open(t)' <=> Open(t)
                         /\ ticket'[t].releases = ticket[t].releases
                         /\ ticket'[t].state \in {"finished", "cancelled"} <=>
                              ticket[t].state \in {"finished", "cancelled"}
  BY DEF Open, TypeOK, Ticket, States
<1>4. LeaseExact'
  <2>1. {t \in Notifications : Open(t)'} = {t \in Notifications : Open(t)}
    BY <1>3, LinkConstants
  <2> QED
    BY <1>1, <1>3, <2>1, ZenonT(40) DEF LeaseExact
<1>5. WireTruthful'
  BY DEF WireTruthful
<1>6. CloseDrains'
  BY <1>1, <1>3 DEF CloseDrains
<1>7. Placed'
  BY <1>1, <1>3 DEF Placed
<1>8. Handed' /\ Gated' /\ Sealed'
  BY <1>1 DEF Handed, Gated, Sealed
<1> QED
  BY <1>2, <1>4, <1>5, <1>6, <1>7, <1>8

LEMMA BeginStep ==
  ASSUME LinkInv, begin
  PROVE  LinkInv'
<1> USE DEF LinkInv
<1> DEFINE t == writer.item
<1>1. writer.pc = "cas" /\ t \in Tickets /\ writer \in Writer /\ ticket \in [Tickets -> Ticket]
  BY DEF begin, At, Handed, TypeOK, Writer
<1>2. UNCHANGED <<queueVars, entries, wake>> /\ WriterKeeps
  BY DEF begin
<1>3. CASE /\ ticket[t].state = "queued" /\ GoWriter("onStart")
           /\ ticket' = [ticket EXCEPT ![t].state = "started"]
  <2>1. writer' \in Writer /\ writer'.item = t /\ writer'.pc = "onStart"
    BY <1>1, <1>3 DEF GoWriter, Writer
  <2>2. /\ ticket' \in [Tickets -> Ticket] /\ \A u \in Tickets : u # t => ticket'[u] = ticket[u]
        /\ ticket'[t].state = "started" /\ ticket'[t].releases = ticket[t].releases
        /\ ticket'[t].wire = ticket[t].wire /\ ticket'[t].onStart = ticket[t].onStart
        /\ ticket'[t].gen = ticket[t].gen
    BY <1>1, <1>3 DEF Ticket, States
  <2> QED
    BY <1>1, <1>2, <1>3, <2>1, <2>2, HandStep DEF WireTruthful
<1>4. CASE Fail(FALSE) /\ UNCHANGED ticket
  <2>1. writer' \in Writer /\ writer'.item = t /\ writer'.pc = "finish"
    BY <1>1, <1>4 DEF Fail, Writer
  <2> QED
    BY <1>1, <1>2, <1>4, <2>1, HandStep DEF WireTruthful
<1> QED
  BY <1>3, <1>4 DEF begin

LEMMA OnStartStep ==
  ASSUME LinkInv, onStart
  PROVE  LinkInv'
<1> USE DEF LinkInv
<1> DEFINE t == writer.item
<1>1. /\ writer.pc = "onStart" /\ t \in Tickets /\ writer \in Writer /\ ticket \in [Tickets -> Ticket]
      /\ ticket[t].state = "started"
  BY DEF onStart, At, Handed, TypeOK, Writer
<1>2. UNCHANGED <<queueVars, entries, wake>> /\ WriterKeeps
  BY DEF onStart
<1>3. writer' \in Writer /\ writer'.item = t /\ writer'.pc = "send"
  BY <1>1 DEF onStart, GoWriter, Writer
<1>4. /\ ticket' \in [Tickets -> Ticket] /\ \A u \in Tickets : u # t => ticket'[u] = ticket[u]
      /\ ticket'[t].state = ticket[t].state /\ ticket'[t].releases = ticket[t].releases
      /\ ticket'[t].wire = ticket[t].wire /\ ticket'[t].onStart
      /\ ticket'[t].gen = ticket[t].gen
  BY <1>1 DEF onStart, Ticket
<1> QED
  BY <1>1, <1>2, <1>3, <1>4, HandStep DEF WireTruthful

LEMMA SendStep ==
  ASSUME LinkInv, Send
  PROVE  LinkInv'
<1> USE DEF LinkInv
<1> DEFINE t == writer.item
<1>1. /\ writer.pc = "send" /\ t \in Tickets /\ writer \in Writer /\ ticket \in [Tickets -> Ticket]
      /\ ticket[t].state = "started" /\ ticket[t].onStart /\ active \in BOOLEAN
  BY DEF Send, At, Handed, TypeOK, Writer
<1>2. UNCHANGED <<queueVars, entries, wake>> /\ WriterKeeps
  BY DEF Send
<1>3. PICK out \in BOOLEAN, ok \in BOOLEAN :
        /\ ticket' = IF out THEN [ticket EXCEPT ![t].wire = ticket[t].gen] ELSE ticket
        /\ writer' = [writer EXCEPT !.pc = "finish", !.ok = ok, !.dying = ~ok /\ ~active]
  BY DEF Send
<1>4. writer' \in Writer /\ writer'.item = t /\ writer'.pc = "finish"
  BY <1>1, <1>3 DEF Writer
<1>5. /\ ticket' \in [Tickets -> Ticket] /\ \A u \in Tickets : u # t => ticket'[u] = ticket[u]
      /\ ticket'[t].state = ticket[t].state /\ ticket'[t].releases = ticket[t].releases
      /\ ticket'[t].onStart = ticket[t].onStart /\ ticket'[t].gen = ticket[t].gen
      /\ ticket'[t].wire \in {ticket[t].wire, ticket[t].gen}
  BY <1>1, <1>3 DEF Ticket
<1> QED
  BY <1>1, <1>2, <1>4, <1>5, HandStep DEF WireTruthful

LEMMA FinishStep ==
  ASSUME LinkInv, WriterFinishes
  PROVE  LinkInv'
<1> USE DEF LinkInv
<1> DEFINE t == writer.item
<1>1. /\ writer.pc = "finish" /\ finish(t, writer.ok) /\ UNCHANGED queueVars
      /\ UNCHANGED <<clock, transport, generation, login, trusted, closed, active, closure, closer>>
      /\ UNCHANGED <<priority, notifications, priorityBytes, notificationBytes, wake>>
  BY DEF WriterFinishes, At, WriterKeeps, coreVars, policyVars, closeVars, queueVars
<1>2. /\ ticket' \in [Tickets -> Ticket] /\ entries' \in 0 .. NotificationSlots
      /\ \A u \in Tickets : u # t => ticket'[u] = ticket[u]
      /\ ticket'[t].state \notin {"queued", "started"}
      /\ LeaseExact' /\ WireTruthful'
  BY <1>1, FinishFacts
<1>3. PICK pc \in {"dead", "take"} : writer' = Idle(pc)
  BY DEF WriterFinishes
<1>4. writer' \in Writer /\ writer'.item = NoTicket /\ writer'.pc = pc
  BY <1>3 DEF Idle, Writer
<1>5. TypeOK'
  BY <1>1, <1>2, <1>4 DEF TypeOK
<1>6. Placed' /\ CloseDrains'
  BY <1>1, <1>2, <1>4 DEF Placed, CloseDrains, Open
<1>7. Handed' /\ Gated' /\ Sealed'
  BY <1>1, <1>4 DEF Handed, Gated, Sealed
<1> QED
  BY <1>2, <1>5, <1>6, <1>7

-----------------------------------------------------------------------------
(* Teardown, the session underneath, the login and the clock.              *)

LEMMA CancelledFields ==
  ASSUME NEW x \in Ticket, NEW y,
         y = [x EXCEPT !.state = "cancelled", !.releases = @ + 1, !.completion = "false"]
  PROVE  /\ y \in Ticket /\ y.state = "cancelled" /\ y.releases = x.releases + 1
         /\ y.onStart = x.onStart /\ y.wire = x.wire /\ y.gen = x.gen
<1>1. x.releases + 1 \in Nat
  BY DEF Ticket
<1>2. y.state = "cancelled" /\ y.releases = x.releases + 1
  BY DEF Ticket
<1>3. y.onStart = x.onStart /\ y.wire = x.wire /\ y.gen = x.gen
  BY DEF Ticket
<1>4. y \in Ticket
  BY <1>1 DEF Ticket, States
<1> QED
  BY <1>2, <1>3, <1>4

\* Drained tickets give their entries back together.
LEMMA DrainStep ==
  ASSUME LinkInv, CloseDrain
  PROVE  LinkInv'
<1> USE DEF LinkInv
<1> DEFINE drained == {t \in Range(priority) \cup Range(notifications) : ticket[t].state = "queued"}
<1>1. /\ closer = "drain" /\ closer' = "session"
      /\ priority' = <<>> /\ notifications' = <<>> /\ priorityBytes' = 0 /\ notificationBytes' = 0
      /\ UNCHANGED <<clock, transport, generation, login, trusted, wake, writer, closed, active, closure>>
  BY DEF CloseDrain, coreVars, policyVars
<1>2. /\ ticket \in [Tickets -> Ticket] /\ drained \subseteq Tickets
      /\ {NotificationSlots, PriorityLimit, NotificationLimit} \subseteq Nat
      /\ priority \in Seq(Tickets) /\ notifications \in Seq(Tickets)
  BY Ranges, LinkConstants DEF TypeOK
<1>3. /\ ticket' \in [Tickets -> Ticket]
      /\ \A t \in Tickets : t \notin drained => ticket'[t] = ticket[t]
      /\ \A t \in drained : /\ ticket'[t].state = "cancelled"
                            /\ ticket'[t].releases = ticket[t].releases + 1
                            /\ ticket'[t].onStart = ticket[t].onStart
                            /\ ticket'[t].wire = ticket[t].wire /\ ticket'[t].gen = ticket[t].gen
  <2>1. ticket' = [t \in Tickets |-> IF t \in drained
                     THEN [ticket[t] EXCEPT !.state = "cancelled", !.releases = @ + 1, !.completion = "false"]
                     ELSE ticket[t]]
    BY DEF CloseDrain
  <2> HIDE DEF drained
  <2>2. ASSUME NEW t \in Tickets
        PROVE  /\ ticket'[t] \in Ticket
               /\ t \notin drained => ticket'[t] = ticket[t]
               /\ t \in drained => /\ ticket'[t].state = "cancelled"
                                   /\ ticket'[t].releases = ticket[t].releases + 1
                                   /\ ticket'[t].onStart = ticket[t].onStart
                                   /\ ticket'[t].wire = ticket[t].wire /\ ticket'[t].gen = ticket[t].gen
    <3>1. ticket[t] \in Ticket
      BY <1>2
    <3>2. CASE t \in drained
      <4>1. ticket'[t] = [ticket[t] EXCEPT !.state = "cancelled", !.releases = @ + 1, !.completion = "false"]
        BY <2>1, <3>2
      <4> QED
        BY <3>1, <3>2, <4>1, CancelledFields
    <3>3. CASE t \notin drained
      BY <2>1, <3>1, <3>3
    <3> QED
      BY <3>2, <3>3
  <2> QED
    BY <1>2, <2>1, <2>2
<1>4. entries' = NotificationSlots - Cardinality(OpenNotes') /\ entries' \in 0 .. NotificationSlots
  <2>1. entries = NotificationSlots - Cardinality(OpenNotes)
    BY DEF LeaseExact, OpenNotes
  <2>2. OpenNotes' = OpenNotes \ drained /\ OpenNotes \cap drained = drained \cap Notifications
    BY <1>2, <1>3, LinkConstants DEF OpenNotes, Open
  <2>3. Cardinality(OpenNotes') = Cardinality(OpenNotes) - Cardinality(drained \cap Notifications)
    <3> HIDE DEF drained
    <3>1. Cardinality(OpenNotes \ drained) = Cardinality(OpenNotes) - Cardinality(OpenNotes \cap drained)
      BY OpenNotesFinite, FS_Difference
    <3> QED
      BY <2>2, <3>1
  <2>4. /\ Cardinality(OpenNotes') \in Nat /\ Cardinality(drained \cap Notifications) \in Nat
    <3>1. OpenNotes' \subseteq OpenNotes /\ drained \cap Notifications \subseteq OpenNotes
      BY <2>2
    <3> QED
      BY <3>1, OpenNotesFinite, FS_Subset, FS_CardinalityType
  <2>5. entries' = entries + Cardinality(drained \cap Notifications)
    BY DEF CloseDrain
  <2>6. entries \in 0 .. NotificationSlots
    BY DEF TypeOK
  <2> QED
    BY <1>2, <2>1, <2>3, <2>4, <2>5, <2>6, OpenNotesFinite
<1>5. TypeOK'
  BY <1>1, <1>2, <1>3, <1>4 DEF TypeOK
<1>6. LeaseExact'
  <2>1. \A t \in Tickets : ticket'[t].releases = IF ticket'[t].state \in {"finished", "cancelled"} THEN 1 ELSE 0
    BY <1>3 DEF LeaseExact
  <2> QED
    BY <1>1, <1>4, <2>1, TotalsEmpty DEF LeaseExact, OpenNotes
<1>7. WireTruthful'
  BY <1>3 DEF WireTruthful
<1>8. \A t \in Tickets : Open(t)' => t = writer.item
  BY <1>3 DEF Placed, Open
<1>9. \A t \in Tickets : ticket'[t].state = "started" => t = writer.item /\ writer.pc \in {"onStart", "send", "finish"}
  BY <1>3 DEF Placed
<1>10. Placed' /\ CloseDrains'
  BY <1>1, <1>8, <1>9 DEF Placed, CloseDrains
<1>11. Handed'
  <2>1. writer.pc \in {"onStart", "send"} => writer.item \notin drained /\ writer.item \in Tickets
    BY DEF Handed, TypeOK, Writer
  <2> QED
    BY <1>1, <1>3, <2>1 DEF Handed
<1>12. Gated' /\ Sealed'
  BY <1>1 DEF Gated, Sealed
<1> QED
  BY <1>5, <1>6, <1>7, <1>10, <1>11, <1>12

\* A step that touches neither ticket, queue nor writer.
LEMMA OutsideStep ==
  ASSUME LinkInv, UNCHANGED <<ticket, queueVars, entries, wake, writer>>,
         clock' \in 0 .. MaxClock, generation' \in Nat,
         transport' \in {"Connected", "Reconnecting", "Closed"},
         login' \in {"active", "expired", "revoked"}, trusted' \in BOOLEAN, active' \in BOOLEAN,
         login' = "revoked" => login = "revoked" \/ ~GateHeld,
         \/ UNCHANGED <<closed, closure, closer>>
         \/ closed' = TRUE /\ closure' = "Closing" /\ closer' = "drain"
         \/ closer = "session" /\ closer' = "idle" /\ closure' \in {"Closed", "Incomplete"} /\ UNCHANGED closed
  PROVE  LinkInv'
<1> USE DEF LinkInv
<1>1. UNCHANGED <<priority, notifications, priorityBytes, notificationBytes, ticket, entries, wake, writer>>
  BY DEF queueVars
<1>2. TypeOK'
  BY <1>1 DEF TypeOK
<1>3. LeaseExact' /\ WireTruthful' /\ Placed' /\ Handed'
  BY <1>1 DEF LeaseExact, WireTruthful, Placed, Handed, Open
<1>4. CloseDrains'
  BY <1>1 DEF CloseDrains, Open
<1>5. Gated' /\ Sealed'
  BY <1>1 DEF Gated, Sealed, GateHeld
<1> QED
  BY <1>2, <1>3, <1>4, <1>5

LEMMA LinkStep ==
  ASSUME LinkInv, [Next]_vars
  PROVE  LinkInv'
<1> USE DEF LinkInv
<1>1. TypeOK /\ clock \in 0 .. MaxClock /\ generation \in Nat /\ MaxClock \in Nat
  BY LinkConstants DEF TypeOK
<1>2. ASSUME NEW t \in Tickets, offer(t) \/ cancelQueued(t) PROVE LinkInv'
  BY <1>2, OfferStep, CancelStep
<1>3. ASSUME WriterStep PROVE LinkInv'
  BY <1>3, WriterRests, WriterAsks, TakeStep, BeginStep, OnStartStep, SendStep, FinishStep DEF WriterStep
<1>4. ASSUME CloseSeal \/ CloseSession PROVE LinkInv'
  BY <1>1, <1>4, OutsideStep DEF CloseSeal, CloseSession, TypeOK, coreVars, policyVars
<1>5. ASSUME Transport \/ revoke \/ PolicyEnds \/ Tick PROVE LinkInv'
  <2>1. ASSUME Transport PROVE LinkInv'
    <3>1. /\ transport' \in {"Connected", "Reconnecting", "Closed"} /\ generation' \in Nat
          /\ UNCHANGED <<ticket, queueVars, entries, wake, writer, clock, login, trusted, active>>
          /\ UNCHANGED <<closed, closure, closer>>
      <4>1. /\ UNCHANGED <<ticket, queueVars, entries, wake, writer, clock, login, trusted, active>>
            /\ UNCHANGED <<closed, closure, closer>>
        BY <2>1 DEF Transport, policyVars, closeVars
      <4>2. transport' \in {"Connected", "Reconnecting", "Closed"} /\ generation' \in {generation, generation + 1}
        BY <2>1 DEF Transport
      <4> QED
        BY <1>1, <4>1, <4>2
    <3> QED
      BY <1>1, <3>1, OutsideStep DEF TypeOK
  <2>2. ASSUME revoke PROVE LinkInv'
    BY <1>1, <2>2, OutsideStep DEF revoke, TypeOK, coreVars, closeVars
  <2>3. ASSUME PolicyEnds PROVE LinkInv'
    BY <1>1, <2>3, OutsideStep DEF PolicyEnds, TypeOK, coreVars, closeVars
  <2>4. ASSUME Tick PROVE LinkInv'
    BY <1>1, <2>4, OutsideStep DEF Tick, TypeOK, policyVars, closeVars
  <2> QED
    BY <1>5, <2>1, <2>2, <2>3, <2>4
<1>6. ASSUME UNCHANGED vars PROVE LinkInv'
  BY <1>1, <1>6, OutsideStep DEF vars, TypeOK, coreVars, policyVars, closeVars
<1> QED
  BY <1>2, <1>3, <1>4, <1>5, <1>6, DrainStep DEF Next

LEMMA LinkStart ==
  ASSUME Init
  PROVE  LinkInv
<1>1. /\ clock = 0 /\ transport = "Connected" /\ generation = 1 /\ login = "active" /\ trusted = TRUE
      /\ priority = <<>> /\ notifications = <<>> /\ priorityBytes = 0 /\ notificationBytes = 0
      /\ entries = NotificationSlots /\ wake = FALSE /\ writer = Idle("wait")
      /\ closed = FALSE /\ active = TRUE /\ closure = "Open" /\ closer = "idle"
  BY DEF Init
<1>2. /\ ticket \in [Tickets -> Ticket]
      /\ \A t \in Tickets : ticket[t].state = "none" /\ ~ticket[t].onStart /\ ticket[t].wire = 0
                            /\ ticket[t].releases = 0
  BY DEF Init, Ticket, States
<1>3. writer \in Writer /\ writer.pc = "wait" /\ writer.item = NoTicket
  BY <1>1 DEF Idle, Writer
<1>4. TypeOK
  <2>1. /\ 0 \in 0 .. MaxClock /\ 0 \in 0 .. PriorityLimit /\ 0 \in 0 .. NotificationLimit
        /\ NotificationSlots \in 0 .. NotificationSlots
    BY LinkConstants
  <2>2. priority \in Seq(Tickets) /\ notifications \in Seq(Tickets)
    BY <1>1
  <2> QED
    BY <1>1, <1>2, <1>3, <2>1, <2>2 DEF TypeOK
<1>5. LeaseExact
  <2>1. {t \in Notifications : Open(t)} = {}
    BY <1>2, LinkConstants DEF Open
  <2>2. Cardinality({t \in Notifications : Open(t)}) = 0
    BY <2>1, FS_EmptySet
  <2> QED
    BY <1>1, <1>2, <2>2, TotalsEmpty, LinkConstants DEF LeaseExact
<1>6. WireTruthful /\ CloseDrains /\ Placed /\ Handed /\ Gated /\ Sealed
  BY <1>1, <1>2, <1>3 DEF WireTruthful, CloseDrains, Placed, Handed, Gated, Sealed, Open
<1> QED
  BY <1>4, <1>5, <1>6 DEF LinkInv

-----------------------------------------------------------------------------
(* The theorems.                                                           *)

LEMMA LinkInvariant == Spec => []LinkInv
BY LinkStart, LinkStep, PTL DEF Spec

\* The link keeps its types: the counters of SessionRpcLink stay within their
\* limits, and notificationEntries never holds more permits than it started with.
THEOREM LinkTypes == Spec => []TypeOK
<1>1. LinkInv => TypeOK
  BY DEF LinkInv
<1> QED
  BY <1>1, LinkInvariant, PTL

\* SendTicket gives back its lease exactly once, whoever wins the state word, and
\* the entries and bytes of the link are those of the tickets still open.
THEOREM LinkLeaseExact == Spec => []LeaseExact
<1>1. LinkInv => LeaseExact
  BY DEF LinkInv
<1> QED
  BY <1>1, LinkInvariant, PTL

\* onStart runs before a byte of the ticket leaves, and the bytes leave on the
\* connection that was current at the offer.
THEOREM LinkWireTruthful == Spec => []WireTruthful
<1>1. LinkInv => WireTruthful
  BY DEF LinkInv
<1> QED
  BY <1>1, LinkInvariant, PTL

\* closeTransport() strands no ticket, whatever offers, takes and repeated
\* closes it races with.
THEOREM LinkCloseDrains == Spec => []CloseDrains
<1>1. LinkInv => CloseDrains
  BY DEF LinkInv
<1> QED
  BY <1>1, LinkInvariant, PTL

\* After RpcApplicationSession.revoke() no output of the login is committed:
\* commit() holds the gate from its check to the compare-and-set of begin().
THEOREM LinkRevocationFence == Spec => RevocationFence
<1>1. ASSUME LinkInv, [Next]_vars, NEW t \in Scoped, ticket[t].state = "queued", ticket'[t].state = "started"
      PROVE  login # "revoked"
  <2>1. TypeOK /\ Handed /\ t \in Tickets /\ ticket \in [Tickets -> Ticket]
    BY <1>1, LinkConstants DEF LinkInv, TypeOK
  <2>2. ASSUME UNCHANGED ticket PROVE FALSE
    BY <1>1, <2>2
  <2>3. ASSUME NEW u, NEW to \in {"finished", "cancelled"}, NEW success, Settle(u, to, success) PROVE FALSE
    BY <1>1, <2>1, <2>3 DEF Settle
  <2>4. ASSUME NEW u \in Tickets, offer(u) PROVE FALSE
    BY <1>1, <2>1, <2>4 DEF offer, Offered
  <2>5. ASSUME CloseDrain PROVE FALSE
    <3>1. ticket'[t] = ticket[t] \/
          ticket'[t] = [ticket[t] EXCEPT !.state = "cancelled", !.releases = @ + 1, !.completion = "false"]
      BY <2>1, <2>5 DEF CloseDrain
    <3>2. ticket[t] \in Ticket
      BY <2>1
    <3> QED
      BY <1>1, <3>1, <3>2 DEF Ticket
  <2>6. ASSUME onStart \/ Send PROVE FALSE
    <3>1. ticket'[t].state = ticket[t].state
      <4>1. CASE onStart
        BY <2>1, <4>1 DEF onStart, Ticket
      <4>2. CASE Send
        <5>1. ticket' = ticket \/ ticket' = [ticket EXCEPT ![writer.item].wire = ticket[writer.item].gen]
          BY <4>2 DEF Send
        <5> QED
          BY <2>1, <5>1 DEF Ticket
      <4> QED
        BY <2>6, <4>1, <4>2
    <3> QED
      BY <1>1, <3>1
  <2>7. ASSUME WriterFinishes PROVE FALSE
    BY <2>2, <2>3, <2>7 DEF WriterFinishes, finish
  <2>8. ASSUME begin PROVE login # "revoked"
    <3>1. t = writer.item /\ writer.pc = "cas"
      BY <1>1, <2>1, <2>2, <2>8 DEF begin, At
    <3> QED
      BY <1>1, <3>1 DEF LinkInv, Gated
  <2>9. ASSUME WriterWakes \/ WriterIdles \/ WriterTakes \/ WriterChecks \/ WriterAuthorizes
               \/ WriterCommits \/ WriterDies PROVE FALSE
    BY <2>2, <2>9 DEF WriterWakes, WriterIdles, WriterTakes, WriterChecks, WriterAuthorizes,
       WriterCommits, WriterDies, WriterOnly
  <2>10. ASSUME CloseSeal \/ CloseSession \/ Transport \/ revoke \/ PolicyEnds \/ Tick PROVE FALSE
    BY <2>2, <2>10 DEF CloseSeal, CloseSession, Transport, revoke, PolicyEnds, Tick
  <2>11. ASSUME NEW u \in Tickets, cancelQueued(u) PROVE FALSE
    BY <2>3, <2>11 DEF cancelQueued
  <2>12. ASSUME UNCHANGED vars PROVE FALSE
    BY <2>2, <2>12 DEF vars
  <2> QED
    BY <1>1, <2>4, <2>5, <2>6, <2>7, <2>8, <2>9, <2>10, <2>11, <2>12 DEF Next, WriterStep
<1>2. LinkInv /\ [Next]_vars =>
        [\A t \in Scoped : ticket[t].state = "queued" /\ ticket'[t].state = "started" => login # "revoked"]_vars
  BY <1>1
<1> QED
  BY <1>2, LinkInvariant, PTL DEF Spec, RevocationFence
=============================================================================
