------------------------ MODULE RpcHostEngineProofs ------------------------
(***************************************************************************)
(* Theorems about RpcHostEngine, for every number of peers, links, request *)
(* ids and logins and every limit.                                         *)
(* First the facts about the operators of RpcHostLedger: every function    *)
(* that runs under the engine's lock maps a well-formed ledger to a well-  *)
(* formed one, hence the type invariant.  Then the safety of the calls and *)
(* the books, each from an inductive invariant stated on a ledger value,   *)
(* so that it can be carried through the composition of operators that one *)
(* lock section performs.                                                  *)
(* Last the life of a call: how one step may change a record (StepLives),  *)
(* and what follows from it.  The engine implements the contract RpcCall,  *)
(* a refusal on its way to the client is true, and the calls that a        *)
(* revocation, the end of a login or close() covers are reached.           *)
(***************************************************************************)
EXTENDS RpcHostRefinement, TLAPS, FiniteSetTheorems, SequenceTheorems

\* Removing an element from a queue leaves a queue of the same elements.
LEMMA WithoutType ==
  ASSUME NEW S, NEW s \in Seq(S), NEW e
  PROVE  Without(s, e) \in Seq(S)
<1> DEFINE i == CHOOSE n \in 1..Len(s) : s[n] = e
<1>1. CASE ~\E n \in 1..Len(s) : s[n] = e
  BY <1>1 DEF Without
<1>2. CASE \E n \in 1..Len(s) : s[n] = e
  <2>1. i \in 1..Len(s)
    BY <1>2
  <2>2. Without(s, e) = SubSeq(s, 1, i - 1) \o SubSeq(s, i + 1, Len(s))
    BY <1>2 DEF Without, RemoveAt
  <2> HIDE DEF i
  <2>3. SubSeq(s, 1, i - 1) \in Seq(S) /\ SubSeq(s, i + 1, Len(s)) \in Seq(S)
    BY <2>1
  <2> QED
    BY <2>2, <2>3, ConcatProperties
<1> QED
  BY <1>1, <1>2

\* The n oldest entries of a queue, and what remains of it.
LEMMA FirstFrom ==
  ASSUME NEW S, NEW s \in Seq(S), NEW n \in 0..Len(s)
  PROVE  /\ First(s, n) \subseteq S
         /\ IsFiniteSet(First(s, n))
         /\ From(s, n) \in Seq(S)
<1>1. First(s, n) \subseteq S
  BY DEF First
<1>2. IsFiniteSet(1..n)
  <2>1. 1 \in Int /\ n \in Int
    OBVIOUS
  <2> QED
    BY <2>1, FS_Interval
<1>3. [i \in 1..n |-> s[i]] \in Surjection(1..n, First(s, n))
  BY DEF First, Surjection
<1>4. IsFiniteSet(First(s, n))
  BY <1>2, <1>3, FS_Surjection
<1>5. From(s, n) \in Seq(S)
  BY DEF From
<1> QED
  BY <1>1, <1>4, <1>5

\* The loops of expireLocked stop within the queue they walk.
LEMMA LapsedBound ==
  ASSUME NEW t, NEW S, NEW s \in Seq(S), NEW ttl, NEW now
  PROVE  Lapsed(t, s, ttl, now) \in 0..Len(s)
<1> DEFINE L == {n \in 1..Len(s) : \A i \in 1..n : now >= t.rec[s[i]].completedAt + ttl}
<1>1. IsFiniteSet(1..Len(s)) /\ Cardinality(1..Len(s)) = Len(s)
  <2>1. 1 \in Int /\ Len(s) \in Int /\ Len(s) \in Nat
    BY LenProperties
  <2> QED
    BY <2>1, FS_Interval
<1>2. IsFiniteSet(L) /\ Cardinality(L) <= Cardinality(1..Len(s))
  BY <1>1, FS_Subset
<1>3. Cardinality(L) \in Nat
  BY <1>2, FS_CardinalityType
<1>4. Lapsed(t, s, ttl, now) = Cardinality(L)
  BY DEF Lapsed
<1> HIDE DEF L
<1> QED
  BY <1>1, <1>2, <1>3, <1>4, LenProperties

LEMMA AbsentType ==
  ASSUME NEW inst \in Nat, NEW end \in Nat
  PROVE  Absent(inst, end) \in Record
<1>1. (CHOOSE s \in Sigs : TRUE) \in Sigs
  BY ConstantsAssumption
<1> QED
  BY <1>1 DEF Absent, Record, Stages, Launcher, Tasks

LEMMA ForgetType ==
  ASSUME NEW r \in Record
  PROVE  Forget(r) \in Record
BY AbsentType DEF Forget, Record

\* The parts of a ledger, and the replacement of one of them.
LEMMA LedgerParts ==
  ASSUME NEW t \in Ledger
  PROVE  /\ t.rec \in [Keys -> Record] /\ t.running \in Int
         /\ t.pending \in Seq(Keys) /\ t.completed \in Seq(Keys) /\ t.cached \in Seq(Keys)
         /\ t.recordsPerPeer \in [Peers -> Int] /\ t.activePerPeer \in [Peers -> Int]
BY DEF Ledger

LEMMA ReplaceRecords ==
  ASSUME NEW t \in Ledger, NEW f \in [Keys -> Record]
  PROVE  [t EXCEPT !.rec = f] \in Ledger
BY DEF Ledger

LEMMA WithoutBody ==
  ASSUME NEW r \in Record
  PROVE  [r EXCEPT !.result = "none"] \in Record
BY DEF Record

LEMMA UpdateType ==
  ASSUME NEW t \in Ledger, NEW k \in Keys, NEW r \in Record
  PROVE  [t EXCEPT !.rec[k] = r] \in Ledger
BY DEF Ledger

LEMMA RequestCancelType ==
  ASSUME NEW t \in Ledger, NEW ks
  PROVE  RequestCancel(t, ks) \in Ledger
<1> DEFINE f == [k \in Keys |-> IF k \in ks THEN [t.rec[k] EXCEPT !.cancelRequested = TRUE]
                                            ELSE t.rec[k]]
<1>1. \A r \in Record : [r EXCEPT !.cancelRequested = TRUE] \in Record
  BY Zenon DEF Record
<1>2. f \in [Keys -> Record]
  BY <1>1, LedgerParts
<1>3. RequestCancel(t, ks) = [t EXCEPT !.rec = f]
  BY DEF RequestCancel
<1> HIDE DEF f
<1> QED
  BY <1>2, <1>3, ReplaceRecords

LEMMA dropResultBodyType ==
  ASSUME NEW t \in Ledger, NEW k \in Keys
  PROVE  dropResultBody(t, k) \in Ledger
<1>1. [t.rec[k] EXCEPT !.result = "none"] \in Record
  BY LedgerParts, WithoutBody
<1>2. Without(t.cached, k) \in Seq(Keys)
  BY WithoutType, LedgerParts
<1>3. [t EXCEPT !.cached = Without(@, k), !.rec[k] = [t.rec[k] EXCEPT !.result = "none"]] \in Ledger
  BY <1>1, <1>2 DEF Ledger
<1> QED
  BY <1>3 DEF dropResultBody

LEMMA DropOldestType ==
  ASSUME NEW t \in Ledger, NEW n \in 0..Len(t.cached)
  PROVE  DropOldest(t, n) \in Ledger
<1> DEFINE f == [k \in Keys |-> IF k \in First(t.cached, n) THEN [t.rec[k] EXCEPT !.result = "none"]
                                                           ELSE t.rec[k]]
<1>1. f \in [Keys -> Record]
  BY WithoutBody, LedgerParts
<1>2. From(t.cached, n) \in Seq(Keys)
  BY FirstFrom, LedgerParts
<1>3. DropOldest(t, n) = [t EXCEPT !.cached = From(t.cached, n), !.rec = f]
  BY DEF DropOldest
<1> HIDE DEF f
<1> QED
  BY <1>1, <1>2, <1>3 DEF Ledger

LEMMA RetireType ==
  ASSUME NEW t \in Ledger, NEW gone, IsFiniteSet(gone)
  PROVE  Retire(t, gone) \in Ledger
<1> DEFINE f == [k \in Keys |-> IF k \in gone THEN Forget(t.rec[k]) ELSE t.rec[k]]
           g == [p \in Peers |-> t.recordsPerPeer[p] - Cardinality({k \in gone : k[1] = p})]
<1>1. f \in [Keys -> Record]
  BY ForgetType, LedgerParts
<1>2. \A p \in Peers : Cardinality({k \in gone : k[1] = p}) \in Int
  <2>1. \A p \in Peers : {k \in gone : k[1] = p} \in SUBSET gone
    OBVIOUS
  <2>2. \A p \in Peers : IsFiniteSet({k \in gone : k[1] = p})
    BY <2>1, FS_Subset
  <2> QED
    BY <2>2, FS_CardinalityType
<1>3. g \in [Peers -> Int]
  BY <1>2, LedgerParts
<1>4. Retire(t, gone) = [t EXCEPT !.rec = f, !.recordsPerPeer = g]
  BY DEF Retire
<1> HIDE DEF f, g
<1> QED
  BY <1>1, <1>3, <1>4 DEF Ledger

LEMMA expireLockedType ==
  ASSUME NEW t \in Ledger, NEW now
  PROVE  expireLocked(t, now) \in Ledger
<1> DEFINE b == DropOldest(t, Lapsed(t, t.cached, BodyTtl, now))
           c == DropOldest(b, Lapsed(b, b.cached, RecordTtl, now))
           n == Lapsed(c, c.completed, RecordTtl, now)
           gone == First(c.completed, n)
<1>1. b \in Ledger
  <2>1. t.cached \in Seq(Keys)
    BY DEF Ledger
  <2> QED
    BY <2>1, LapsedBound, DropOldestType
<1> HIDE DEF b
<1>2. c \in Ledger
  <2>1. b.cached \in Seq(Keys)
    BY <1>1 DEF Ledger
  <2> QED
    BY <1>1, <2>1, LapsedBound, DropOldestType
<1> HIDE DEF c
<1>3. c.completed \in Seq(Keys) /\ n \in 0..Len(c.completed)
  BY <1>2, LapsedBound DEF Ledger
<1> HIDE DEF n
<1>4. Retire(c, gone) \in Ledger
  BY <1>2, <1>3, FirstFrom, RetireType
<1>5. From(c.completed, n) \in Seq(Keys) /\ From(Retire(c, gone).completed, n) \in Seq(Keys)
  <2>1. Retire(c, gone).completed = c.completed
    BY <1>2 DEF Retire, Ledger
  <2> QED
    BY <1>3, <2>1, FirstFrom
<1> DEFINE w == Retire(c, gone)
<1> HIDE DEF w
<1>6. [w EXCEPT !.completed = From(w.completed, n)] \in Ledger
  BY <1>4, <1>5 DEF Ledger, w
<1> QED
  BY <1>6 DEF expireLocked, b, c, n, w

LEMMA trimCacheType ==
  ASSUME NEW t \in Ledger
  PROVE  trimCache(t) \in Ledger
<1>1. CacheBodies \in Nat /\ Len(t.cached) \in Nat
  BY LimitsAssumption, LenProperties DEF Ledger
<1>2. Len(t.cached) > CacheBodies => Len(t.cached) - CacheBodies \in 0..Len(t.cached)
  BY <1>1
<1> QED
  BY <1>2, DropOldestType DEF trimCache

LEMMA InstallType ==
  ASSUME NEW t \in Ledger, NEW k \in Keys, NEW sig \in Sigs,
         NEW sess \in Sessions \cup {NoSession}, NEW dl \in Nat, NEW now \in Nat
  PROVE  Install(t, k, sig, sess, dl, now) \in Ledger
<1> DEFINE run == t.running < RunningCalls
           st  == IF run THEN "Running" ELSE "Queued"
           la  == IF run THEN "due" ELSE "none"
           a   == Absent(t.rec[k].inst + 1, 0)
           r   == [a EXCEPT !.stage = st, !.sig = sig, !.sess = sess, !.deadline = dl,
                     !.admittedAt = now, !.prevEnd = t.rec[k].completedAt, !.launcher = la]
           f   == [t.rec EXCEPT ![k] = r]
           n   == IF run THEN t.running + 1 ELSE t.running
           q   == IF run THEN t.pending ELSE Append(t.pending, k)
           g   == [t.recordsPerPeer EXCEPT ![k[1]] = @ + 1]
           h   == [t.activePerPeer EXCEPT ![k[1]] = @ + 1]
<1>1. t.rec[k].inst + 1 \in Nat /\ t.rec[k].completedAt \in Nat
  BY LedgerParts DEF Record
<1>2. a \in Record
  BY <1>1, AbsentType
<1>3. st \in Stages /\ la \in Launcher
  BY DEF Stages, Launcher
<1>4. Install(t, k, sig, sess, dl, now) =
        [t EXCEPT !.rec = f, !.running = n, !.pending = q, !.recordsPerPeer = g, !.activePerPeer = h]
  BY DEF Install
<1>5. r \in Record
  <2> HIDE DEF a, st, la
  <2> QED
    BY <1>1, <1>2, <1>3 DEF Record
<1> HIDE DEF r
<1>6. f \in [Keys -> Record] /\ n \in Int /\ q \in Seq(Keys)
  BY <1>5, LedgerParts
<1>7. g \in [Peers -> Int] /\ h \in [Peers -> Int]
  BY LedgerParts DEF Keys
<1> HIDE DEF f, n, q, g, h
<1>8. [t EXCEPT !.rec = f, !.running = n, !.pending = q, !.recordsPerPeer = g, !.activePerPeer = h] \in Ledger
  BY <1>6, <1>7 DEF Ledger
<1> QED
  BY <1>4, <1>8, Zenon

LEMMA PromoteType ==
  ASSUME NEW t \in Ledger
  PROVE  Promote(t) \in Ledger
<1>1. CASE t.running < RunningCalls /\ t.pending # <<>>
  <2> DEFINE h == Head(t.pending)
             q == Tail(t.pending)
             r == [t.rec[h] EXCEPT !.stage = "Running", !.launcher = "due"]
             f == [t.rec EXCEPT ![h] = r]
             n == t.running + 1
  <2>1. h \in Keys /\ q \in Seq(Keys) /\ n \in Int
    BY <1>1, HeadTailProperties, LedgerParts
  <2>2. t.rec[h] \in Record
    BY <2>1, LedgerParts
  <2>3. Promote(t) = [t EXCEPT !.rec = f, !.running = n, !.pending = q]
    BY <1>1 DEF Promote
  <2> HIDE DEF h
  <2>4. r \in Record
    BY <2>2 DEF Record, Stages, Launcher
  <2> HIDE DEF r
  <2>5. f \in [Keys -> Record]
    BY <2>1, <2>4, LedgerParts
  <2> HIDE DEF f, n, q
  <2>6. [t EXCEPT !.rec = f, !.running = n, !.pending = q] \in Ledger
    BY <2>1, <2>5 DEF Ledger
  <2> QED
    BY <2>3, <2>6, Zenon
<1>2. CASE ~(t.running < RunningCalls /\ t.pending # <<>>)
  BY <1>2 DEF Promote
<1> QED
  BY <1>1, <1>2

\* finish() keeps the ledger well formed.
LEMMA CompletedType ==
  ASSUME NEW t \in Ledger, NEW k \in Keys, NEW now \in Nat, NEW isClosed \in BOOLEAN
  PROVE  Completed(t, k, now, isClosed) \in Ledger
<1> DEFINE r     == t.rec[k]
           done  == [r EXCEPT !.stage = "Complete", !.completedAt = now,
                              !.task = "none", !.candidate = NoLink, !.result = r.terminal]
           f     == [t.rec EXCEPT ![k] = done]
           n     == t.running - Frees(r)
           q     == IF r.stage = "Queued" THEN Without(t.pending, k) ELSE t.pending
           h     == [t.activePerPeer EXCEPT ![k[1]] = @ - 1]
           freed == [t EXCEPT !.rec = f, !.running = n, !.pending = q, !.activePerPeer = h]
           co    == Append(freed.completed, k)
           ca    == IF r.terminal \in Bodies THEN Append(freed.cached, k) ELSE freed.cached
           kept  == [freed EXCEPT !.completed = co, !.cached = ca]
           f2    == [freed.rec EXCEPT ![k] = Forget(done)]
           g2    == [freed.recordsPerPeer EXCEPT ![k[1]] = @ - 1]
           gone  == [freed EXCEPT !.rec = f2, !.recordsPerPeer = g2]
<1>1. r \in Record
  BY LedgerParts
<1>2. Completed(t, k, now, isClosed) = IF isClosed THEN gone ELSE Promote(trimCache(kept))
  BY DEF Completed
<1>3. h \in [Peers -> Int] /\ q \in Seq(Keys)
  BY WithoutType, LedgerParts DEF Keys
<1>4. n \in Int
  BY LedgerParts DEF Frees
<1> HIDE DEF r
<1>5. done \in Record
  BY <1>1 DEF Record, Stages, Tasks
<1>6. Forget(done) \in Record
  BY <1>5, ForgetType
<1> HIDE DEF done
<1>7. f \in [Keys -> Record]
  BY <1>5, LedgerParts
<1> HIDE DEF f, n, q, h
<1>8. freed \in Ledger
  BY <1>3, <1>4, <1>7 DEF Ledger
<1> HIDE DEF freed
<1>9. f2 \in [Keys -> Record] /\ g2 \in [Peers -> Int] /\ co \in Seq(Keys) /\ ca \in Seq(Keys)
  BY <1>6, <1>8, LedgerParts DEF Keys
<1> HIDE DEF f2, g2, co, ca
<1>10. gone \in Ledger /\ kept \in Ledger
  BY <1>8, <1>9 DEF Ledger
<1> HIDE DEF gone, kept
<1>11. Promote(trimCache(kept)) \in Ledger
  BY <1>10, trimCacheType, PromoteType
<1> QED
  BY <1>2, <1>10, <1>11, Zenon

-----------------------------------------------------------------------------
(* What the operators do to the calls.  Most of them only drop a result or *)
(* mark a cancellation.                                                    *)

SameCall(r, q) ==
  /\ q.stage = r.stage /\ q.inst = r.inst /\ q.admittedAt = r.admittedAt
  /\ q.prevEnd = r.prevEnd /\ q.completedAt = r.completedAt /\ q.task = r.task
  /\ q.terminal = r.terminal /\ q.launcher = r.launcher /\ (q.began <=> r.began)
  /\ q.sig = r.sig /\ q.sess = r.sess /\ q.result \in {r.result, "none"}
  /\ (r.cancelRequested => q.cancelRequested) /\ (r.jobCancelled => q.jobCancelled)

SameCalls(t, u) ==
  /\ u.pending = t.pending /\ u.completed = t.completed /\ u.running = t.running
  /\ \A k \in Keys : SameCall(t.rec[k], u.rec[k])

LEMMA SameCallUpdates ==
  ASSUME NEW r \in Record
  PROVE  /\ SameCall(r, r)
         /\ SameCall(r, [r EXCEPT !.result = "none"])
         /\ SameCall(r, [r EXCEPT !.cancelRequested = TRUE])
         /\ SameCall(r, [r EXCEPT !.jobCancelled = TRUE])
BY DEF SameCall, Record

LEMMA RequestCancelEffect ==
  ASSUME NEW t \in Ledger, NEW ks
  PROVE  SameCalls(t, RequestCancel(t, ks)) /\ RequestCancel(t, ks).cached = t.cached
<1> DEFINE f == [k \in Keys |-> IF k \in ks THEN [t.rec[k] EXCEPT !.cancelRequested = TRUE]
                                            ELSE t.rec[k]]
<1>1. RequestCancel(t, ks) = [t EXCEPT !.rec = f]
  BY DEF RequestCancel
<1>2. \A k \in Keys : SameCall(t.rec[k], f[k])
  BY SameCallUpdates, LedgerParts
<1> HIDE DEF f
<1>3. LET u == [t EXCEPT !.rec = f] IN
      u.pending = t.pending /\ u.completed = t.completed /\ u.running = t.running /\ u.rec = f /\ u.cached = t.cached
  BY DEF Ledger
<1> QED
  BY <1>1, <1>2, <1>3 DEF SameCalls

LEMMA dropResultBodyEffect ==
  ASSUME NEW t \in Ledger, NEW k \in Keys
  PROVE  /\ SameCalls(t, dropResultBody(t, k))
         /\ dropResultBody(t, k).cached \in {t.cached, Without(t.cached, k)}
<1>1. CASE t.rec[k].result \in Bodies
  <2> DEFINE f == [t.rec EXCEPT ![k] = [t.rec[k] EXCEPT !.result = "none"]]
             c == Without(t.cached, k)
  <2>1. dropResultBody(t, k) = [t EXCEPT !.cached = c, !.rec = f]
    BY <1>1 DEF dropResultBody
  <2>2. \A j \in Keys : SameCall(t.rec[j], f[j])
    BY SameCallUpdates, LedgerParts
  <2> HIDE DEF f, c
  <2>3. LET u == [t EXCEPT !.cached = c, !.rec = f] IN
        u.pending = t.pending /\ u.completed = t.completed /\ u.running = t.running /\ u.rec = f /\ u.cached = c
    BY DEF Ledger
  <2> QED
    BY <2>1, <2>2, <2>3 DEF SameCalls, c
<1>2. CASE t.rec[k].result \notin Bodies
  BY <1>2, SameCallUpdates, LedgerParts DEF dropResultBody, SameCalls
<1> QED
  BY <1>1, <1>2

LEMMA DropOldestEffect ==
  ASSUME NEW t \in Ledger, NEW n \in 0..Len(t.cached)
  PROVE  SameCalls(t, DropOldest(t, n)) /\ DropOldest(t, n).cached = From(t.cached, n)
<1> DEFINE f == [k \in Keys |-> IF k \in First(t.cached, n) THEN [t.rec[k] EXCEPT !.result = "none"]
                                                           ELSE t.rec[k]]
           c == From(t.cached, n)
<1>1. DropOldest(t, n) = [t EXCEPT !.cached = c, !.rec = f]
  BY DEF DropOldest
<1>2. \A k \in Keys : SameCall(t.rec[k], f[k])
  BY SameCallUpdates, LedgerParts
<1> HIDE DEF f, c
<1>3. LET u == [t EXCEPT !.cached = c, !.rec = f] IN
      u.pending = t.pending /\ u.completed = t.completed /\ u.running = t.running /\ u.rec = f /\ u.cached = c
  BY DEF Ledger
<1> QED
  BY <1>1, <1>2, <1>3 DEF SameCalls, c

LEMMA RetireEffect ==
  ASSUME NEW t \in Ledger, NEW gone
  PROVE  LET u == Retire(t, gone) IN
         /\ u.pending = t.pending /\ u.completed = t.completed
         /\ u.running = t.running /\ u.cached = t.cached
         /\ \A k \in Keys : u.rec[k] = IF k \in gone THEN Forget(t.rec[k]) ELSE t.rec[k]
<1> DEFINE f == [k \in Keys |-> IF k \in gone THEN Forget(t.rec[k]) ELSE t.rec[k]]
           g == [p \in Peers |-> t.recordsPerPeer[p] - Cardinality({k \in gone : k[1] = p})]
<1>1. Retire(t, gone) = [t EXCEPT !.rec = f, !.recordsPerPeer = g]
  BY DEF Retire
<1>2. \A k \in Keys : f[k] = IF k \in gone THEN Forget(t.rec[k]) ELSE t.rec[k]
  OBVIOUS
<1> HIDE DEF f, g
<1>3. LET u == [t EXCEPT !.rec = f, !.recordsPerPeer = g] IN
      u.pending = t.pending /\ u.completed = t.completed /\ u.running = t.running /\ u.rec = f /\ u.cached = t.cached
  BY DEF Ledger
<1> QED
  BY <1>1, <1>2, <1>3

\* Every one of the entries counted by Lapsed has outlived ttl.
LEMMA LapsedOld ==
  ASSUME NEW t, NEW S, NEW s \in Seq(S), NEW ttl, NEW now,
         NEW i \in 1..Lapsed(t, s, ttl, now)
  PROVE  i \in 1..Len(s) /\ now >= t.rec[s[i]].completedAt + ttl
<1> DEFINE Old(n) == \A j \in 1..n : now >= t.rec[s[j]].completedAt + ttl
           L == {n \in 1..Len(s) : Old(n)}
<1>1. Lapsed(t, s, ttl, now) = Cardinality(L) /\ Lapsed(t, s, ttl, now) \in 0..Len(s)
  <2>1. Lapsed(t, s, ttl, now) = Cardinality(L)
    BY DEF Lapsed
  <2>2. Lapsed(t, s, ttl, now) \in 0..Len(s)
    BY LapsedBound
  <2> QED
    BY <2>1, <2>2
<1>2. i \in 1..Len(s)
  BY <1>1
<1>3. Old(i)
  <2> SUFFICES ASSUME ~Old(i) PROVE FALSE
    OBVIOUS
  <2>1. \A n \in L : n < i
    <3> SUFFICES ASSUME NEW n \in L, n >= i PROVE FALSE
      BY <1>2
    <3>1. 1..i \subseteq 1..n
      BY <1>2
    <3> QED
      BY <3>1
  <2> HIDE DEF Old
  <2>2. L \subseteq 1..(i-1)
    BY <1>2, <2>1
  <2>3. IsFiniteSet(1..(i-1)) /\ Cardinality(1..(i-1)) = i - 1
    <3>1. 1 \in Int /\ i - 1 \in Int /\ i \in Nat
      BY <1>2
    <3> QED
      BY <1>2, <3>1, FS_Interval
  <2>4. Cardinality(L) <= i - 1
    BY <2>2, <2>3, FS_Subset
  <2> QED
    BY <1>1, <1>2, <2>4
<1> QED
  BY <1>2, <1>3

\* expireLocked retires the n oldest tombstones, all of them past RecordTtl,
\* and changes no other call.
LEMMA expireLockedEffect ==
  ASSUME NEW t \in Ledger, NEW now
  PROVE  LET u == expireLocked(t, now) IN
         \E n \in 0..Len(t.completed) :
           /\ u.pending = t.pending /\ u.running = t.running
           /\ u.completed = From(t.completed, n)
           /\ Len(u.cached) <= Len(t.cached)
           /\ \A k \in First(t.completed, n) : now >= t.rec[k].completedAt + RecordTtl
           /\ \A k \in Keys :
                IF k \in First(t.completed, n)
                THEN u.rec[k] = Absent(t.rec[k].inst, t.rec[k].completedAt)
                ELSE SameCall(t.rec[k], u.rec[k])
<1> DEFINE b == DropOldest(t, Lapsed(t, t.cached, BodyTtl, now))
           c == DropOldest(b, Lapsed(b, b.cached, RecordTtl, now))
           n == Lapsed(c, c.completed, RecordTtl, now)
           gone == First(c.completed, n)
<1>1. t.cached \in Seq(Keys)
  BY LedgerParts
<1>2. b \in Ledger /\ SameCalls(t, b) /\ b.cached \in Seq(Keys) /\ Len(b.cached) <= Len(t.cached)
  <2>1. Lapsed(t, t.cached, BodyTtl, now) \in 0..Len(t.cached)
    BY <1>1, LapsedBound
  <2>2. b \in Ledger /\ SameCalls(t, b) /\ b.cached = From(t.cached, Lapsed(t, t.cached, BodyTtl, now))
    BY <2>1, DropOldestType, DropOldestEffect
  <2>3. \A m \in 0..Len(t.cached) : Len(From(t.cached, m)) <= Len(t.cached)
    BY <1>1 DEF From
  <2> QED
    BY <2>1, <2>2, <2>3, LedgerParts
<1> HIDE DEF b
<1>3. c \in Ledger /\ SameCalls(b, c) /\ Len(c.cached) <= Len(b.cached)
  <2>1. Lapsed(b, b.cached, RecordTtl, now) \in 0..Len(b.cached)
    BY <1>2, LapsedBound
  <2>2. c \in Ledger /\ SameCalls(b, c) /\ c.cached = From(b.cached, Lapsed(b, b.cached, RecordTtl, now))
    BY <1>2, <2>1, DropOldestType, DropOldestEffect
  <2>3. \A m \in 0..Len(b.cached) : Len(From(b.cached, m)) <= Len(b.cached)
    BY <1>2 DEF From
  <2> QED
    BY <2>1, <2>2, <2>3
<1>4. Len(c.cached) <= Len(t.cached)
  BY <1>1, <1>2, <1>3, LedgerParts, LenProperties
<1> HIDE DEF c
<1>5. SameCalls(t, c)
  BY <1>2, <1>3 DEF SameCalls, SameCall
<1>6. c.completed = t.completed /\ c.completed \in Seq(Keys)
  BY <1>3, <1>5, LedgerParts DEF SameCalls
<1>7. n \in 0..Len(t.completed)
  BY <1>6, LapsedBound
<1>8. \A k \in gone : now >= t.rec[k].completedAt + RecordTtl
  <2> SUFFICES ASSUME NEW k \in gone PROVE now >= t.rec[k].completedAt + RecordTtl
    OBVIOUS
  <2>1. PICK i \in 1..n : k = c.completed[i]
    BY DEF First
  <2>2. k \in Keys
    BY <1>6, <1>7, <2>1
  <2>3. now >= c.rec[k].completedAt + RecordTtl
    BY <1>6, <2>1, LapsedOld
  <2> QED
    BY <1>5, <2>2, <2>3 DEF SameCalls, SameCall
<1> HIDE DEF n
<1>9. gone = First(t.completed, n)
  BY <1>6
<1> DEFINE w == Retire(c, gone)
           d == From(w.completed, n)
<1>10. /\ w.pending = c.pending /\ w.completed = c.completed /\ w.running = c.running /\ w.cached = c.cached
       /\ \A k \in Keys : w.rec[k] = IF k \in gone THEN Forget(c.rec[k]) ELSE c.rec[k]
  BY <1>3, RetireEffect
<1>11. w \in Ledger
  BY <1>3, <1>6, <1>7, <1>9, FirstFrom, RetireType
<1>12. expireLocked(t, now) = [w EXCEPT !.completed = d]
  BY DEF expireLocked, b, c, n
<1> HIDE DEF w, d, gone
<1>13. LET u == [w EXCEPT !.completed = d] IN
       u.pending = w.pending /\ u.running = w.running /\ u.completed = d /\ u.rec = w.rec /\ u.cached = w.cached
  BY <1>11 DEF Ledger
<1>14. \A k \in Keys : IF k \in gone THEN w.rec[k] = Absent(t.rec[k].inst, t.rec[k].completedAt)
                                     ELSE SameCall(t.rec[k], w.rec[k])
  BY <1>5, <1>10 DEF SameCalls, SameCall, Forget
<1>15. d = From(t.completed, n)
  BY <1>6, <1>10 DEF d
<1> QED
  BY <1>4, <1>5, <1>7, <1>8, <1>9, <1>10, <1>12, <1>13, <1>14, <1>15 DEF SameCalls

LEMMA trimCacheEffect ==
  ASSUME NEW t \in Ledger
  PROVE  SameCalls(t, trimCache(t)) /\ Len(trimCache(t).cached) <= CacheBodies
<1>1. CacheBodies \in Nat /\ t.cached \in Seq(Keys) /\ Len(t.cached) \in Nat
  BY LimitsAssumption, LedgerParts, LenProperties
<1>2. CASE Len(t.cached) > CacheBodies
  <2> DEFINE n == Len(t.cached) - CacheBodies
  <2>1. n \in 0..Len(t.cached)
    BY <1>1, <1>2
  <2>2. trimCache(t) = DropOldest(t, n)
    BY <1>2 DEF trimCache
  <2>3. Len(From(t.cached, n)) = CacheBodies
    BY <1>1, <1>2 DEF From
  <2> HIDE DEF n
  <2> QED
    BY <1>1, <2>1, <2>2, <2>3, DropOldestEffect
<1>3. CASE ~(Len(t.cached) > CacheBodies)
  <2>1. trimCache(t) = t
    BY <1>3, Zenon DEF trimCache
  <2>2. SameCalls(t, t)
    BY SameCallUpdates, LedgerParts DEF SameCalls
  <2> QED
    BY <1>1, <1>3, <2>1, <2>2
<1> QED
  BY <1>2, <1>3

LEMMA InstallEffect ==
  ASSUME NEW t \in Ledger, NEW k \in Keys, NEW sig \in Sigs,
         NEW sess \in Sessions \cup {NoSession}, NEW dl \in Nat, NEW now \in Nat
  PROVE  LET u == Install(t, k, sig, sess, dl, now)
             r == u.rec[k]
             run == t.running < RunningCalls
         IN
         /\ u.completed = t.completed /\ u.cached = t.cached
         /\ u.running = IF run THEN t.running + 1 ELSE t.running
         /\ u.pending = IF run THEN t.pending ELSE Append(t.pending, k)
         /\ \A j \in Keys \ {k} : u.rec[j] = t.rec[j]
         /\ r.stage = IF run THEN "Running" ELSE "Queued"
         /\ r.launcher = IF run THEN "due" ELSE "none"
         /\ r.inst = t.rec[k].inst + 1 /\ r.prevEnd = t.rec[k].completedAt /\ r.admittedAt = now
         /\ r.task = "none" /\ r.terminal = "none" /\ ~r.began
         /\ r.sig = sig /\ r.sess = sess /\ r.result = "none"
<1> DEFINE run == t.running < RunningCalls
           st  == IF run THEN "Running" ELSE "Queued"
           la  == IF run THEN "due" ELSE "none"
           n   == t.rec[k].inst + 1
           pe  == t.rec[k].completedAt
           r   == [Absent(n, 0) EXCEPT !.stage = st, !.sig = sig, !.sess = sess, !.deadline = dl,
                     !.admittedAt = now, !.prevEnd = pe, !.launcher = la]
           f   == [t.rec EXCEPT ![k] = r]
           m   == IF run THEN t.running + 1 ELSE t.running
           q   == IF run THEN t.pending ELSE Append(t.pending, k)
           g   == [t.recordsPerPeer EXCEPT ![k[1]] = @ + 1]
           h   == [t.activePerPeer EXCEPT ![k[1]] = @ + 1]
           u   == [t EXCEPT !.rec = f, !.running = m, !.pending = q, !.recordsPerPeer = g, !.activePerPeer = h]
<1>1. Install(t, k, sig, sess, dl, now) = u
  BY DEF Install
<1>2. /\ r.stage = st /\ r.launcher = la /\ r.inst = n /\ r.prevEnd = pe /\ r.admittedAt = now
      /\ r.task = "none" /\ r.terminal = "none" /\ r.began = FALSE
      /\ r.sig = sig /\ r.sess = sess /\ r.result = "none"
  <2> HIDE DEF st, la, n, pe
  <2> QED
    BY DEF Absent
<1> HIDE DEF r
<1>3. f[k] = r /\ \A j \in Keys \ {k} : f[j] = t.rec[j]
  BY LedgerParts
<1> HIDE DEF f, m, q, g, h
<1>4. u.rec = f /\ u.running = m /\ u.pending = q /\ u.completed = t.completed /\ u.cached = t.cached
  BY DEF Ledger
<1> HIDE DEF u
<1> QED
  BY <1>1, <1>2, <1>3, <1>4 DEF m, q

LEMMA PromoteEffect ==
  ASSUME NEW t \in Ledger
  PROVE  LET u == Promote(t)
             h == Head(t.pending)
         IN
         /\ u.completed = t.completed /\ u.cached = t.cached
         /\ IF t.running < RunningCalls /\ t.pending # <<>>
            THEN /\ h \in Keys /\ u.pending = Tail(t.pending) /\ u.running = t.running + 1
                 /\ u.rec[h] = [t.rec[h] EXCEPT !.stage = "Running", !.launcher = "due"]
                 /\ \A j \in Keys \ {h} : u.rec[j] = t.rec[j]
            ELSE u = t
<1>1. CASE t.running < RunningCalls /\ t.pending # <<>>
  <2> DEFINE h == Head(t.pending)
             q == Tail(t.pending)
             r == [t.rec[h] EXCEPT !.stage = "Running", !.launcher = "due"]
             f == [t.rec EXCEPT ![h] = r]
             n == t.running + 1
             u == [t EXCEPT !.rec = f, !.running = n, !.pending = q]
  <2>1. h \in Keys
    BY <1>1, HeadTailProperties, LedgerParts
  <2>2. Promote(t) = u
    BY <1>1 DEF Promote
  <2> HIDE DEF h
  <2>3. f[h] = r /\ \A j \in Keys \ {h} : f[j] = t.rec[j]
    BY <2>1, LedgerParts
  <2> HIDE DEF r, f, n, q
  <2>4. u.rec = f /\ u.running = n /\ u.pending = q /\ u.completed = t.completed /\ u.cached = t.cached
    BY DEF Ledger
  <2> HIDE DEF u
  <2> QED
    BY <1>1, <2>1, <2>2, <2>3, <2>4, Zenon DEF h, q, n, r
<1>2. CASE ~(t.running < RunningCalls /\ t.pending # <<>>)
  BY <1>2, Zenon DEF Promote
<1> QED
  BY <1>1, <1>2

\* finish(): the call of k ends, and only then is the slot handed on.
LEMMA CompletedEffect ==
  ASSUME NEW t \in Ledger, NEW k \in Keys, NEW now \in Nat, NEW isClosed \in BOOLEAN
  PROVE  \E v \in Ledger :
         /\ Completed(t, k, now, isClosed) = IF isClosed THEN v ELSE Promote(v)
         /\ v.pending = IF t.rec[k].stage = "Queued" THEN Without(t.pending, k) ELSE t.pending
         /\ v.running = t.running - Frees(t.rec[k])
         /\ v.completed = IF isClosed THEN t.completed ELSE Append(t.completed, k)
         /\ IF isClosed THEN v.cached = t.cached ELSE Len(v.cached) <= CacheBodies
         /\ \A j \in Keys \ {k} : SameCall(t.rec[j], v.rec[j])
         /\ v.rec[k].inst = t.rec[k].inst /\ v.rec[k].completedAt = now
         /\ IF isClosed THEN v.rec[k] = Absent(t.rec[k].inst, now)
            ELSE /\ v.rec[k].stage = "Complete" /\ v.rec[k].task = "none"
                 /\ v.rec[k].admittedAt = t.rec[k].admittedAt /\ v.rec[k].prevEnd = t.rec[k].prevEnd
                 /\ v.rec[k].terminal = t.rec[k].terminal /\ v.rec[k].launcher = t.rec[k].launcher
                 /\ (v.rec[k].began <=> t.rec[k].began)
                 /\ v.rec[k].sig = t.rec[k].sig /\ v.rec[k].result \in {t.rec[k].terminal, "none"}
<1> DEFINE r     == t.rec[k]
           done  == [r EXCEPT !.stage = "Complete", !.completedAt = now,
                              !.task = "none", !.candidate = NoLink, !.result = r.terminal]
           f     == [t.rec EXCEPT ![k] = done]
           n     == t.running - Frees(r)
           q     == IF r.stage = "Queued" THEN Without(t.pending, k) ELSE t.pending
           h     == [t.activePerPeer EXCEPT ![k[1]] = @ - 1]
           freed == [t EXCEPT !.rec = f, !.running = n, !.pending = q, !.activePerPeer = h]
           co    == Append(freed.completed, k)
           ca    == IF r.terminal \in Bodies THEN Append(freed.cached, k) ELSE freed.cached
           kept  == [freed EXCEPT !.completed = co, !.cached = ca]
           f2    == [freed.rec EXCEPT ![k] = Forget(done)]
           g2    == [freed.recordsPerPeer EXCEPT ![k[1]] = @ - 1]
           gone  == [freed EXCEPT !.rec = f2, !.recordsPerPeer = g2]
<1>1. r \in Record
  BY LedgerParts
<1>2. Completed(t, k, now, isClosed) = IF isClosed THEN gone ELSE Promote(trimCache(kept))
  BY DEF Completed
<1>3. h \in [Peers -> Int] /\ q \in Seq(Keys)
  BY WithoutType, LedgerParts DEF Keys
<1>4. n \in Int
  BY LedgerParts DEF Frees
<1> HIDE DEF r
<1>5. done \in Record
  BY <1>1 DEF Record, Stages, Tasks
<1>6. /\ done.stage = "Complete" /\ done.task = "none" /\ done.completedAt = now /\ done.inst = r.inst
      /\ done.admittedAt = r.admittedAt /\ done.prevEnd = r.prevEnd /\ done.terminal = r.terminal
      /\ done.launcher = r.launcher /\ done.began = r.began
      /\ done.sig = r.sig /\ done.result = r.terminal
  BY <1>1, Zenon DEF Record
<1>7. Forget(done) \in Record /\ Forget(done) = Absent(r.inst, now)
  BY <1>5, <1>6, ForgetType DEF Forget
<1> HIDE DEF done
<1>8. f \in [Keys -> Record] /\ f[k] = done /\ \A j \in Keys \ {k} : f[j] = t.rec[j]
  BY <1>5, LedgerParts
<1> HIDE DEF f, n, q, h
<1>9. freed \in Ledger
  BY <1>3, <1>4, <1>8 DEF Ledger
<1>10. /\ freed.rec = f /\ freed.running = n /\ freed.pending = q
       /\ freed.completed = t.completed /\ freed.cached = t.cached
  BY DEF Ledger
<1> HIDE DEF freed
<1>11. /\ f2 \in [Keys -> Record] /\ g2 \in [Peers -> Int] /\ co \in Seq(Keys) /\ ca \in Seq(Keys)
       /\ f2[k] = Forget(done) /\ \A j \in Keys \ {k} : f2[j] = t.rec[j]
  BY <1>7, <1>8, <1>9, <1>10, LedgerParts DEF Keys
<1>12. co = Append(t.completed, k)
  BY <1>10
<1> HIDE DEF f2, g2, co, ca
<1>13. gone \in Ledger /\ kept \in Ledger
  BY <1>9, <1>11 DEF Ledger
<1>14. /\ gone.rec = f2 /\ gone.running = n /\ gone.pending = q
       /\ gone.completed = t.completed /\ gone.cached = t.cached
       /\ kept.rec = f /\ kept.running = n /\ kept.pending = q /\ kept.completed = co
  BY <1>9, <1>10 DEF Ledger
<1> HIDE DEF gone, kept
<1>15. \A j \in Keys \ {k} : SameCall(t.rec[j], f[j]) /\ SameCall(t.rec[j], f2[j])
  BY <1>8, <1>11, LedgerParts, SameCallUpdates
<1>16. CASE isClosed
  <2>1. gone.rec[k].inst = r.inst /\ gone.rec[k].completedAt = now /\ gone.rec[k] = Absent(r.inst, now)
    BY <1>7, <1>11, <1>14 DEF Absent
  <2> QED
    BY <1>2, <1>13, <1>14, <1>15, <1>16, <2>1 DEF n, q, r
<1>17. CASE ~isClosed
  <2> DEFINE v == trimCache(kept)
  <2>1. v \in Ledger /\ SameCalls(kept, v) /\ Len(v.cached) <= CacheBodies
    BY <1>13, trimCacheType, trimCacheEffect
  <2>2. Completed(t, k, now, isClosed) = Promote(v)
    BY <1>2, <1>17
  <2> HIDE DEF v
  <2>3. v.pending = q /\ v.running = n /\ v.completed = co
    BY <1>14, <2>1 DEF SameCalls
  <2>4. SameCall(done, v.rec[k]) /\ \A j \in Keys \ {k} : SameCall(f[j], v.rec[j])
    BY <1>8, <1>14, <2>1 DEF SameCalls
  <2>5. \A j \in Keys \ {k} : SameCall(t.rec[j], v.rec[j])
    BY <1>15, <2>4 DEF SameCall
  <2>6. /\ v.rec[k].inst = r.inst /\ v.rec[k].completedAt = now
        /\ v.rec[k].stage = "Complete" /\ v.rec[k].task = "none"
        /\ v.rec[k].admittedAt = r.admittedAt /\ v.rec[k].prevEnd = r.prevEnd
        /\ v.rec[k].terminal = r.terminal /\ v.rec[k].launcher = r.launcher
        /\ (v.rec[k].began <=> r.began) /\ v.rec[k].sig = r.sig
    BY <1>6, <2>4, Zenon DEF SameCall
  <2>7. v.rec[k].result \in {r.terminal, "none"}
    BY <1>6, <2>4 DEF SameCall
  <2> QED
    BY <1>12, <1>17, <2>1, <2>2, <2>3, <2>5, <2>6, <2>7 DEF n, q, r
<1> QED
  BY <1>16, <1>17


-----------------------------------------------------------------------------
(* Type correctness.                                                       *)

LEMMA Limits ==
  /\ MaxClock \in Nat /\ MaxMessages \in Nat /\ Budgets \subseteq Nat
BY LimitsAssumption

LEMMA IdleReaderType == IdleReader \in Reader
<1>1. (CHOOSE i \in Ids : TRUE) \in Ids /\ (CHOOSE s \in Sigs : TRUE) \in Sigs
  BY ConstantsAssumption
<1> QED
  BY <1>1 DEF IdleReader, Reader, Replies

LEMMA KeyOfType ==
  ASSUME TypeOK, NEW l \in Links
  PROVE  KeyOf(l) \in Keys /\ LinkPeer[l] \in Peers /\ reader[l] \in Reader
<1>1. reader[l] \in Reader /\ LinkPeer[l] \in Peers
  BY ConstantsAssumption DEF TypeOK
<1>2. reader[l].id \in Ids
  BY <1>1 DEF Reader
<1> QED
  BY <1>1, <1>2 DEF KeyOf, Keys

\* What a reader does when its onMessage() call returns, answers or goes on.
LEMMA ReturnType ==
  ASSUME TypeOK, NEW l \in Links, Return(l)
  PROVE  reader' \in [Links -> Reader]
BY IdleReaderType DEF TypeOK, Return

LEMMA GotoType ==
  ASSUME TypeOK, NEW l \in Links, NEW pc \in {"admit"}, Goto(l, pc)
  PROVE  reader' \in [Links -> Reader]
<1>1. \A x \in Reader : [x EXCEPT !.pc = pc] \in Reader
  BY DEF Reader
<1> QED
  BY <1>1 DEF TypeOK, Goto

LEMMA ReplyType ==
  ASSUME TypeOK, NEW l \in Links, NEW what \in Replies, Reply(l, what)
  PROVE  reader' \in [Links -> Reader]
<1>1. \A x \in Reader : [x EXCEPT !.pc = "send", !.reply = what] \in Reader
  BY DEF Reader
<1>2. reader' = [reader EXCEPT ![l] = [reader[l] EXCEPT !.pc = "send", !.reply = what]]
  BY DEF Reply
<1> QED
  BY <1>1, <1>2 DEF TypeOK

LEMMA HoldType ==
  ASSUME TypeOK, NEW l \in Links, NEW pc \in {"dup", "scoped"}, NEW r \in Record, Hold(l, pc, r)
  PROVE  reader' \in [Links -> Reader]
<1>1. r.inst \in Nat /\ r.sess \in Sessions \cup {NoSession}
  BY DEF Record
<1>2. \A x \in Reader : [x EXCEPT !.pc = pc, !.inst = r.inst, !.sess = r.sess] \in Reader
  BY <1>1 DEF Reader
<1>3. reader' = [reader EXCEPT ![l] = [reader[l] EXCEPT !.pc = pc, !.inst = r.inst, !.sess = r.sess]]
  BY DEF Hold
<1> QED
  BY <1>2, <1>3 DEF TypeOK

LEMMA snapshotResultType ==
  ASSUME NEW r \in Record
  PROVE  snapshotResult(r) \in Replies
BY DEF snapshotResult, Record, Replies, Outcomes, MayHaveExecuted

\* The links variables after a close.
LinkTypes ==
  /\ linkState \in [Links -> {"new", "attaching", "open", "closed", "gone"}]
  /\ replaced \in Links \cup {NoLink}
  /\ links \in [Peers -> Links \cup {NoLink}]
  /\ ready \subseteq Links

LEMMA CloseLinkType ==
  ASSUME LinkTypes, NEW l \in Links, CloseLink(l)
  PROVE  LinkTypes'
BY DEF LinkTypes, CloseLink, Closing

LEMMA OfferType ==
  ASSUME LinkTypes, NEW l \in Links, Offer(l)
  PROVE  LinkTypes'
BY CloseLinkType DEF LinkTypes, Offer, linkVars

\* Everything the readers and jobs of the engine share, and what is outside.
CallTypes ==
  /\ received \in 0..MaxMessages
  /\ reader \in [Links -> Reader]
  /\ ledger \in Ledger
  /\ cancels \subseteq Cancellation
  /\ deliver \subseteq [link: Links, k: Keys, reply: Outcomes \cup {"none"}]

OwnerTypes ==
  /\ clock \in 0..MaxClock
  /\ phase \in {"open", "closing", "links", "sealed"}
  /\ trusted \subseteq Peers
  /\ revoke \in [pc: {"idle", "mark", "cancel"}, peer: Peers]
  /\ session \in [Sessions -> {"active", "ended", "fenced", "cancelling", "revoked"}]

LEMMA TypeParts == TypeOK <=> OwnerTypes /\ LinkTypes /\ CallTypes
BY DEF TypeOK, OwnerTypes, LinkTypes, CallTypes

LEMMA InitType == Init => TypeOK
<1> SUFFICES ASSUME Init PROVE TypeOK
  OBVIOUS
<1>1. Absent(0, 0) \in Record
  BY AbsentType
<1>2. ledger \in Ledger
  BY <1>1 DEF Init, Ledger
<1>3. (CHOOSE p \in Peers : TRUE) \in Peers
  BY ConstantsAssumption
<1>4. OwnerTypes
  BY <1>3, LimitsAssumption DEF Init, OwnerTypes
<1>5. LinkTypes
  BY DEF Init, LinkTypes
<1>6. CallTypes
  BY <1>2, IdleReaderType, LimitsAssumption DEF Init, CallTypes
<1> QED
  BY <1>4, <1>5, <1>6, TypeParts

LEMMA LinkStepType ==
  ASSUME TypeOK, NEW l \in Links, LinkStep(l)
  PROVE  TypeOK'
<1>1. OwnerTypes /\ LinkTypes /\ CallTypes /\ LinkPeer[l] \in Peers
  BY TypeParts, ConstantsAssumption
<1>2. UNCHANGED <<clock, phase, trustVars, session, callVars>>
  BY DEF LinkStep, attach, AttachFails, LinkLost, detach, ByLink
<1>3. OwnerTypes' /\ CallTypes'
  BY <1>1, <1>2 DEF OwnerTypes, CallTypes, trustVars, callVars
<1> SUFFICES LinkTypes'
  BY <1>3, TypeParts, PTL
<1>4. CASE attach(l)
  BY <1>1, <1>4 DEF attach, LinkTypes
<1>5. CASE AttachFails(l)
  BY <1>1, <1>5 DEF AttachFails, LinkTypes, Closing, Detached
<1>6. CASE LinkLost(l)
  BY <1>1, <1>6, CloseLinkType DEF LinkLost
<1>7. CASE detach(l)
  BY <1>1, <1>7 DEF detach, Detached, LinkTypes
<1> QED
  BY <1>4, <1>5, <1>6, <1>7 DEF LinkStep

\* Steps of the readers.
LEMMA ReaderTypes ==
  ASSUME TypeOK, NEW l \in Links,
         LinkTypes', reader' \in [Links -> Reader], ledger' \in Ledger,
         cancels' \subseteq Cancellation, ByReader
  PROVE  TypeOK'
<1>1. OwnerTypes' /\ CallTypes'
  BY TypeParts DEF OwnerTypes, CallTypes, trustVars, ByReader
<1> QED
  BY <1>1, TypeParts, PTL

LEMMA protocolFailureType ==
  ASSUME TypeOK, NEW l \in Links, protocolFailure(l)
  PROVE  LinkTypes' /\ reader' \in [Links -> Reader]
BY TypeParts, CloseLinkType, ReturnType DEF protocolFailure

LEMMA refuseType ==
  ASSUME TypeOK, NEW l \in Links, NEW reason \in Replies, refuse(l, reason)
  PROVE  LinkTypes' /\ reader' \in [Links -> Reader]
BY TypeParts, ReplyType DEF refuse, linkVars, LinkTypes

LEMMA MessageType ==
  ASSUME TypeOK, NEW l \in Links, Hello(l) \/ onMessage(l)
  PROVE  TypeOK'
<1>1. OwnerTypes /\ LinkTypes /\ CallTypes /\ reader[l] \in Reader
  BY TypeParts, KeyOfType
<1>2. received' \in 0..MaxMessages
  <2>1. received < MaxMessages /\ received' = received + 1
    BY Zenon DEF Hello, onMessage, Listening
  <2> QED
    BY <1>1, <2>1, Limits DEF CallTypes
<1>3. UNCHANGED <<clock, phase, trustVars, session, ledger, cancels, deliver>>
  BY DEF Hello, onMessage
<1> SUFFICES LinkTypes' /\ reader' \in [Links -> Reader]
  <2>1. OwnerTypes' /\ CallTypes'
    BY <1>1, <1>2, <1>3 DEF OwnerTypes, CallTypes, trustVars
  <2> QED
    BY <2>1, TypeParts, PTL
<1>4. CASE Hello(l)
  <2>1. CASE permitted(l)
    <3>1. [reader[l] EXCEPT !.pc = "send", !.reply = "Ready"] \in Reader
      BY <1>1 DEF Reader, Replies
    <3>2. reader' = [reader EXCEPT ![l] = [reader[l] EXCEPT !.pc = "send", !.reply = "Ready"]]
      BY <1>4, <2>1 DEF Hello
    <3>3. reader' \in [Links -> Reader]
      BY <1>1, <3>1, <3>2 DEF CallTypes
    <3>4. LinkTypes'
      BY <1>1, <1>4, <2>1 DEF Hello, LinkTypes
    <3> QED
      BY <3>3, <3>4
  <2>2. CASE ~permitted(l)
    BY <1>4, <2>2, protocolFailureType DEF Hello
  <2> QED
    BY <2>1, <2>2
<1>5. CASE onMessage(l)
  <2>1. PICK kind \in Events \cap (Controls \cup {"Invoke"}), i \in Ids, s \in Sigs,
           again \in BOOLEAN, b \in Budgets, stale \in BOOLEAN :
          Gate(l, Message(kind, i, s, again, IF kind = "Invoke" THEN clock + b ELSE 0), stale)
    BY <1>5, Zenon DEF onMessage
  <2> DEFINE d == IF kind = "Invoke" THEN clock + b ELSE 0
             m == Message(kind, i, s, again, d)
             pc2 == IF m.kind = "Invoke" THEN "lookup" ELSE "control"
  <2>2. d \in Nat
    BY <1>1, Limits DEF OwnerTypes
  <2>3. pc2 \in {"lookup", "control", "send"}
    OBVIOUS
  <2> HIDE DEF d, pc2
  <2>4. m \in Reader
    BY <2>2, IdleReaderType, Zenon DEF Reader, Message
  <2>5. CASE protocolFailure(l)
    BY <2>5, protocolFailureType
  <2>6. ASSUME NEW pc \in {"lookup", "control", "send"}, NEW reply \in {"none", "HostRestarted"},
               Begin(l, m, pc, reply)
        PROVE  LinkTypes' /\ reader' \in [Links -> Reader]
    <3>1. [m EXCEPT !.pc = pc, !.reply = reply] \in Reader
      BY <2>4 DEF Reader, Replies, Outcomes, MayHaveExecuted
    <3> QED
      BY <1>1, <2>6, <3>1 DEF Begin, LinkTypes, linkVars, CallTypes
  <2> QED
    BY <2>1, <2>3, <2>5, <2>6, Zenon DEF d, pc2, Gate
<1> QED
  BY <1>4, <1>5

LEMMA SendType ==
  ASSUME TypeOK, NEW l \in Links, Send(l) \/ ReaderCancelled(l)
  PROVE  TypeOK'
<1>1. OwnerTypes /\ LinkTypes /\ CallTypes
  BY TypeParts
<1>2. Return(l) /\ ByReader /\ UNCHANGED <<ledger, cancels>>
  BY DEF Send, ReaderCancelled
<1>3. LinkTypes'
  <2>1. CASE Send(l)
    BY <1>1, <2>1, OfferType DEF Send
  <2>2. CASE ReaderCancelled(l)
    BY <1>1, <2>2 DEF ReaderCancelled, LinkTypes, linkVars
  <2> QED
    BY <2>1, <2>2
<1> QED
  BY <1>1, <1>2, <1>3, ReturnType, ReaderTypes DEF CallTypes

\* The codes the handlers of a message answer with are replies.
LEMMA AnswerTypes ==
  /\ RejectedBeforeExecution \subseteq Replies /\ MayHaveExecuted \subseteq Replies
  /\ {"Overloaded", "Unauthorized", "UnknownProcedure", "InvalidPayload",
      "DeadlineBeforeStart"} \subseteq Replies
  /\ {"AccessRevoked", "UnknownOutcome", "ResultUnavailable", "Running"} \subseteq Replies
BY DEF Replies, Outcomes, RejectedBeforeExecution, MayHaveExecuted

LEMMA InvokeStepType ==
  ASSUME TypeOK, NEW l \in Links, InvokeStep(l)
  PROVE  TypeOK'
<1> DEFINE x == reader[l]
           k == KeyOf(l)
           t == expireLocked(ledger, clock)
<1>1. OwnerTypes /\ LinkTypes /\ CallTypes
  BY TypeParts
<1>2. k \in Keys /\ x \in Reader
  BY KeyOfType
<1>3. ledger \in Ledger /\ t \in Ledger
  BY <1>1, expireLockedType DEF CallTypes
<1>4. ledger.rec[k] \in Record /\ t.rec[k] \in Record
  BY <1>2, <1>3, LedgerParts
<1>5. x.sig \in Sigs /\ x.sess \in Sessions \cup {NoSession} /\ x.dl \in Nat /\ clock \in Nat
  BY <1>1, <1>2 DEF Reader, OwnerTypes
<1>6. UNCHANGED cancels /\ ByReader
  BY DEF InvokeStep, InvokeLookup, InvokeDenied, InvokeAllowed, Authenticated,
         AuthenticationDenied, scopedDuplicate, Admit
<1>7. cancels' \subseteq Cancellation
  BY <1>1, <1>6 DEF CallTypes
<1> HIDE DEF x, k, t
<1>8. UNCHANGED linkVars => LinkTypes'
  BY <1>1 DEF LinkTypes, linkVars
<1> SUFFICES LinkTypes' /\ reader' \in [Links -> Reader] /\ ledger' \in Ledger
  BY <1>6, <1>7, ReaderTypes
<1>9. CASE InvokeLookup(l)
  <2>1. ledger' = t
    BY <1>9 DEF InvokeLookup, t
  <2>2. \/ protocolFailure(l)
        \/ refuse(l, "UnknownProcedure") \/ refuse(l, "InvalidPayload") \/ refuse(l, "AccessRevoked")
        \/ Hold(l, "dup", t.rec[k]) /\ UNCHANGED linkVars
        \/ /\ reader' = [reader EXCEPT ![l].pc = "auth", ![l].inst = IF Present(t.rec[k]) THEN t.rec[k].inst ELSE 0]
           /\ UNCHANGED linkVars
    BY <1>9, Zenon DEF InvokeLookup, t, k
  <2>3. CASE /\ reader' = [reader EXCEPT ![l].pc = "auth", ![l].inst = IF Present(t.rec[k]) THEN t.rec[k].inst ELSE 0]
             /\ UNCHANGED linkVars
    <3> DEFINE n == IF Present(t.rec[k]) THEN t.rec[k].inst ELSE 0
               y == [x EXCEPT !.pc = "auth", !.inst = n]
    <3>1. n \in Nat
      BY <1>4 DEF Record
    <3>2. reader' = [reader EXCEPT ![l] = y]
      BY <2>3 DEF x
    <3> HIDE DEF n
    <3>3. y \in Reader
      BY <1>2, <3>1 DEF Reader
    <3> QED
      BY <1>1, <1>3, <1>8, <2>1, <2>3, <3>2, <3>3 DEF CallTypes
  <2> QED
    BY <1>3, <1>4, <1>8, <2>1, <2>2, <2>3, protocolFailureType, refuseType, HoldType, AnswerTypes
<1>10. CASE InvokeDenied(l)
  <2>1. ledger' \in Ledger
    BY <1>3, <1>10 DEF InvokeDenied
  <2>2. refuse(l, "AccessRevoked") \/ refuse(l, "DeadlineBeforeStart") \/ refuse(l, "Unauthorized")
    BY <1>10, Zenon DEF InvokeDenied
  <2> QED
    BY <2>1, <2>2, refuseType, AnswerTypes
<1>11. CASE InvokeAllowed(l)
  <2>1. ledger' \in Ledger
    BY <1>3, <1>11 DEF InvokeAllowed
  <2>2. \/ protocolFailure(l) \/ refuse(l, snapshotResult(ledger.rec[k]))
        \/ refuse(l, "InvalidPayload") \/ refuse(l, "DeadlineBeforeStart")
        \/ Goto(l, "admit") /\ UNCHANGED linkVars
    BY <1>11, Zenon DEF InvokeAllowed, k
  <2> QED
    BY <1>4, <1>8, <2>1, <2>2, protocolFailureType, refuseType, GotoType, snapshotResultType, AnswerTypes
<1>12. CASE Authenticated(l)
  <2>1. ledger' \in Ledger /\ LinkTypes'
    BY <1>3, <1>8, <1>12 DEF Authenticated
  <2>2. PICK s \in Sessions : \/ Reply(l, "AccessRevoked")
                             \/ reader' = [reader EXCEPT ![l].pc = "admit", ![l].sess = s]
    BY <1>12, Zenon DEF Authenticated
  <2>3. CASE reader' = [reader EXCEPT ![l].pc = "admit", ![l].sess = s]
    <3> DEFINE y == [x EXCEPT !.pc = "admit", !.sess = s]
    <3>1. y \in Reader
      BY <1>2 DEF Reader
    <3>2. reader' = [reader EXCEPT ![l] = y]
      BY <2>3 DEF x
    <3> QED
      BY <1>1, <2>1, <3>1, <3>2 DEF CallTypes
  <2> QED
    BY <2>1, <2>2, <2>3, ReplyType, AnswerTypes
<1>13. CASE AuthenticationDenied(l)
  <2>1. ledger' \in Ledger
    BY <1>3, <1>13 DEF AuthenticationDenied
  <2>2. \/ protocolFailure(l) \/ refuse(l, "AccessRevoked")
        \/ Hold(l, "dup", ledger.rec[k]) /\ UNCHANGED linkVars
    BY <1>13, Zenon DEF AuthenticationDenied, k
  <2> QED
    BY <1>4, <1>8, <2>1, <2>2, protocolFailureType, refuseType, HoldType, AnswerTypes
<1>14. CASE scopedDuplicate(l)
  <2>1. ledger' \in Ledger
    BY <1>3, <1>14 DEF scopedDuplicate
  <2>2. \/ refuse(l, "AccessRevoked") \/ refuse(l, "UnknownOutcome")
        \/ refuse(l, snapshotResult(ledger.rec[k]))
    BY <1>14, Zenon DEF scopedDuplicate, k
  <2> QED
    BY <1>4, <2>1, <2>2, refuseType, snapshotResultType, AnswerTypes
<1>15. CASE Admit(l)
  <2>1. CASE /\ ledger' = t
             /\ \/ protocolFailure(l) \/ refuse(l, snapshotResult(t.rec[k]))
                \/ refuse(l, "AccessRevoked") \/ refuse(l, "Overloaded") \/ refuse(l, "DeadlineBeforeStart")
                \/ Hold(l, "dup", t.rec[k]) /\ UNCHANGED linkVars
    BY <1>3, <1>4, <1>8, <2>1, protocolFailureType, refuseType, HoldType, snapshotResultType, AnswerTypes
  <2>2. ASSUME NEW n \in 0..Len(t.cached),
               \/ /\ ledger' = Install(DropOldest(t, n), k, x.sig, x.sess, x.dl, clock)
                  /\ Return(l) /\ UNCHANGED linkVars
               \/ ledger' = DropOldest(t, n) /\ refuse(l, "Overloaded")
        PROVE  LinkTypes' /\ reader' \in [Links -> Reader] /\ ledger' \in Ledger
    <3>1. DropOldest(t, n) \in Ledger
      BY <1>3, DropOldestType
    <3>2. Install(DropOldest(t, n), k, x.sig, x.sess, x.dl, clock) \in Ledger
      BY <1>2, <1>5, <3>1, InstallType
    <3> QED
      BY <1>8, <2>2, <3>1, <3>2, ReturnType, refuseType, AnswerTypes
  <2>3. \/ /\ ledger' = t
           /\ \/ protocolFailure(l) \/ refuse(l, snapshotResult(t.rec[k]))
              \/ refuse(l, "AccessRevoked") \/ refuse(l, "Overloaded") \/ refuse(l, "DeadlineBeforeStart")
              \/ Hold(l, "dup", t.rec[k]) /\ UNCHANGED linkVars
        \/ \E n \in (IF BudgetTight THEN 0..Len(t.cached) ELSE {0}) :
               \/ /\ ledger' = Install(DropOldest(t, n), k, x.sig, x.sess, x.dl, clock)
                  /\ Return(l) /\ UNCHANGED linkVars
               \/ ledger' = DropOldest(t, n) /\ refuse(l, "Overloaded")
    BY <1>15, Zenon DEF Admit, t, k, x
  <2>4. (IF BudgetTight THEN 0..Len(t.cached) ELSE {0}) \subseteq 0..Len(t.cached)
    BY <1>3, LedgerParts, LenProperties
  <2> QED
    BY <2>1, <2>2, <2>3, <2>4, Zenon
<1> QED
  BY <1>9, <1>10, <1>11, <1>12, <1>13, <1>14, <1>15 DEF InvokeStep

\* The cancellations that are started name keys and installations.
LEMMA CancellingType ==
  ASSUME TypeOK, NEW ks \in SUBSET Keys, NEW by \in Links \cup Sessions \cup {"revoke", "close", "sweep"},
         NEW plan \in {ClaimThenJob, JobThenClaim, <<"claim">>}
  PROVE  Cancelling(ks, by, plan) \subseteq Cancellation
<1>1. plan \in Seq({"claim", "await", "job"}) \ {<<>>}
  <2>1. ClaimThenJob \in Seq({"claim", "await", "job"}) \ {<<>>}
    BY DEF ClaimThenJob
  <2>2. JobThenClaim \in Seq({"claim", "await", "job"}) \ {<<>>}
    BY DEF JobThenClaim
  <2>3. <<"claim">> \in Seq({"claim", "await", "job"}) \ {<<>>}
    OBVIOUS
  <2> QED
    BY <2>1, <2>2, <2>3, Zenon
<1>2. \A k \in ks : ledger.rec[k].inst \in Nat
  BY TypeParts, LedgerParts DEF CallTypes, Record
<1> QED
  BY <1>1, <1>2 DEF Cancelling, Cancellation

LEMMA ControlledType ==
  ASSUME TypeOK, NEW l \in Links, NEW t \in Ledger, NEW k \in Keys, Controlled(l, t, k)
  PROVE  /\ ledger' \in Ledger /\ cancels' \subseteq Cancellation /\ reader' \in [Links -> Reader]
<1>1. t.rec[k] \in Record
  BY LedgerParts
<1>2. ledger' \in {dropResultBody(t, k), RequestCancel(t, {k}), t}
  BY Zenon DEF Controlled
<1>3. cancels' \in {cancels, cancels \cup Cancelling({k}, l, ClaimThenJob)}
  BY Zenon DEF Controlled
<1>4. Reply(l, snapshotResult(t.rec[k])) \/ Return(l)
  BY Zenon DEF Controlled
<1>5. ledger' \in Ledger
  BY <1>2, dropResultBodyType, RequestCancelType
<1>6. cancels' \subseteq Cancellation
  BY <1>3, CancellingType, TypeParts DEF CallTypes
<1>7. reader' \in [Links -> Reader]
  BY <1>1, <1>4, ReplyType, ReturnType, snapshotResultType
<1> QED
  BY <1>5, <1>6, <1>7

LEMMA ControlStepType ==
  ASSUME TypeOK, NEW l \in Links, ControlStep(l)
  PROVE  TypeOK'
<1> DEFINE k == KeyOf(l)
           t == expireLocked(ledger, clock)
<1>1. OwnerTypes /\ LinkTypes /\ CallTypes
  BY TypeParts
<1>2. k \in Keys
  BY KeyOfType
<1>3. ledger \in Ledger /\ t \in Ledger /\ cancels \subseteq Cancellation
  BY <1>1, expireLockedType DEF CallTypes
<1>4. t.rec[k] \in Record
  BY <1>2, <1>3, LedgerParts
<1>5. ByReader
  BY DEF ControlStep, ControlDenied, ControlAllowed, ScopedLookup, ScopedCommit
<1> HIDE DEF k, t
<1>6. UNCHANGED linkVars => LinkTypes'
  BY <1>1 DEF LinkTypes, linkVars
<1>7. Unmatched(l) => reader' \in [Links -> Reader] /\ cancels' = cancels
  BY ReplyType, ReturnType, AnswerTypes DEF Unmatched
<1> SUFFICES LinkTypes' /\ reader' \in [Links -> Reader] /\ ledger' \in Ledger /\ cancels' \subseteq Cancellation
  BY <1>5, ReaderTypes
<1>8. CASE ControlDenied(l)
  <2>1. refuse(l, "AccessRevoked") /\ UNCHANGED <<ledger, cancels>>
    BY <1>8 DEF ControlDenied
  <2> QED
    BY <1>3, <2>1, refuseType, AnswerTypes
<1>9. CASE ControlAllowed(l)
  <2>1. \/ ledger' = t /\ protocolFailure(l) /\ UNCHANGED cancels
        \/ Controlled(l, t, k) /\ UNCHANGED linkVars
        \/ ledger' = t /\ Unmatched(l) /\ UNCHANGED linkVars
    BY <1>9, Zenon DEF ControlAllowed, t, k
  <2> QED
    BY <1>2, <1>3, <1>6, <1>7, <2>1, protocolFailureType, ControlledType
<1>10. CASE ScopedLookup(l)
  <2>1. ledger' = t /\ UNCHANGED cancels
    BY <1>10 DEF ScopedLookup, t
  <2>2. \/ protocolFailure(l)
        \/ Hold(l, "scoped", t.rec[k]) /\ UNCHANGED linkVars
        \/ Return(l) /\ UNCHANGED linkVars
    BY <1>10, Zenon DEF ScopedLookup, t, k
  <2> QED
    BY <1>3, <1>4, <1>6, <2>1, <2>2, protocolFailureType, HoldType, ReturnType
<1>11. CASE ScopedCommit(l)
  <2>1. \/ Controlled(l, ledger, k)
        \/ Unmatched(l) /\ UNCHANGED ledger
    BY <1>11, Zenon DEF ScopedCommit, k
  <2>2. LinkTypes'
    BY <1>6, <1>11 DEF ScopedCommit
  <2> QED
    BY <1>2, <1>3, <1>7, <2>1, <2>2, ControlledType
<1> QED
  BY <1>8, <1>9, <1>10, <1>11 DEF ControlStep

\* Steps of launchers and jobs.
LEMMA JobTypes ==
  ASSUME TypeOK, ledger' \in Ledger, cancels' \subseteq Cancellation,
         deliver' \subseteq [link: Links, k: Keys, reply: Outcomes \cup {"none"}], ByJob
  PROVE  TypeOK'
<1>1. OwnerTypes' /\ CallTypes' /\ LinkTypes'
  BY TypeParts DEF OwnerTypes, CallTypes, LinkTypes, trustVars, linkVars, ByJob
<1> QED
  BY <1>1, TypeParts, PTL

LEMMA UpdateStepType ==
  ASSUME TypeOK, NEW k \in Keys, NEW r \in Record, Update(k, r)
  PROVE  TypeOK'
<1>1. ledger' \in Ledger
  BY TypeParts, UpdateType DEF CallTypes, Update
<1> QED
  BY <1>1, TypeParts, JobTypes DEF Update, CallTypes

LEMMA JobStepType ==
  ASSUME TypeOK, NEW k \in Keys, JobStep(k)
  PROVE  TypeOK'
<1> DEFINE r == ledger.rec[k]
<1>1. OwnerTypes /\ LinkTypes /\ CallTypes
  BY TypeParts
<1>2. ledger \in Ledger /\ r \in Record
  BY <1>1, LedgerParts DEF CallTypes
<1> HIDE DEF r
<1>3. \A o \in Outcomes : EndJob(k, o) => TypeOK'
  <2>1. \A o \in Outcomes : [r EXCEPT !.task = "select", !.terminal = o] \in Record
    BY <1>2 DEF Record, Tasks
  <2> QED
    BY <2>1, UpdateStepType DEF EndJob, r
<1>4. CASE Launch(k)
  <2>1. [r EXCEPT !.launcher = "launched", !.task = "ready"] \in Record
    BY <1>2 DEF Record, Launcher, Tasks
  <2> QED
    BY <1>4, <2>1, UpdateStepType DEF Launch, r
<1>5. CASE PublishJob(k)
  <2>1. [r EXCEPT !.launcher = "published"] \in Record
    BY <1>2 DEF Record, Launcher
  <2> QED
    BY <1>5, <2>1, UpdateStepType DEF PublishJob, r
<1>6. CASE CheckCancel(k)
  <2>1. "checked" \in Launcher
    BY DEF Launcher
  <2>2. [r EXCEPT !.launcher = "checked", !.jobCancelled = r.jobCancelled \/ r.cancelRequested] \in Record
    BY <1>2, <2>1, Zenon DEF Record
  <2> QED
    BY <1>6, <2>2, UpdateStepType DEF CheckCancel, r
<1>7. CASE JobStart(k)
  <2>1. [r EXCEPT !.task = "decoding"] \in Record
    BY <1>2 DEF Record, Tasks
  <2>2. \/ EndJob(k, "CancelledBeforeStart") \/ EndJob(k, "DeadlineBeforeStart")
        \/ Update(k, [r EXCEPT !.task = "decoding"])
    BY <1>7, Zenon DEF JobStart, r
  <2> QED
    BY <1>3, <2>1, <2>2, UpdateStepType DEF Outcomes, RejectedBeforeExecution
<1>8. CASE JobBegin(k)
  <2>1. "handler" \in Tasks
    BY DEF Tasks
  <2>2. [r EXCEPT !.task = "handler", !.began = TRUE] \in Record
    BY <1>2, <2>1, Zenon DEF Record
  <2> QED
    BY <1>8, <2>2, UpdateStepType DEF JobBegin, r
<1>9. CASE JobFails(k)
  <2>1. \E o \in RejectedBeforeExecution \cup MayHaveExecuted : EndJob(k, o)
    BY <1>9 DEF JobFails, RejectedBeforeExecution, MayHaveExecuted
  <2> QED
    BY <1>3, <2>1 DEF Outcomes
<1>10. CASE HandlerEnds(k)
  <2>1. \E o \in Endings : EndJob(k, o)
    BY <1>10 DEF HandlerEnds
  <2> QED
    BY <1>3, <2>1, ConstantsAssumption DEF HandlerOutcomes, Outcomes, MayHaveExecuted
<1>11. CASE FinishSelect(k)
  <2> DEFINE c == IF links[k[1]] \in ready \cap TrustedLinks THEN links[k[1]] ELSE NoLink
  <2>1. c \in Links \cup {NoLink}
    BY <1>1 DEF LinkTypes
  <2>2. Update(k, [r EXCEPT !.task = "commit", !.candidate = c])
    BY <1>11 DEF FinishSelect, r
  <2> HIDE DEF c
  <2>3. [r EXCEPT !.task = "commit", !.candidate = c] \in Record
    BY <1>2, <2>1 DEF Record, Tasks
  <2> QED
    BY <2>2, <2>3, UpdateStepType
<1>12. CASE FinishCommit(k)
  <2>1. ledger' \in Ledger
    <3>1. clock \in Nat /\ closed \in BOOLEAN
      BY <1>1 DEF OwnerTypes, closed
    <3>2. ledger' = Completed(ledger, k, clock, closed)
      BY <1>12 DEF FinishCommit
    <3> QED
      BY <1>2, <3>1, <3>2, CompletedType
  <2>2. r.candidate \in Links \cup {NoLink} /\ r.terminal \in Outcomes \cup {"none"}
    BY <1>2 DEF Record
  <2>3. deliver' \subseteq [link: Links, k: Keys, reply: Outcomes \cup {"none"}]
    BY <1>1, <1>12, <2>2 DEF FinishCommit, CallTypes, r
  <2>4. cancels' \subseteq Cancellation /\ ByJob
    BY <1>1, <1>12 DEF FinishCommit, CallTypes
  <2> QED
    BY <2>1, <2>3, <2>4, JobTypes
<1> QED
  BY <1>4, <1>5, <1>6, <1>7, <1>8, <1>9, <1>10, <1>11, <1>12 DEF JobStep

\* Steps of cancellers, owners and the clock.
LEMMA AdvanceType ==
  ASSUME TypeOK, NEW c \in cancels, NEW plan \in Seq({"claim", "await", "job"}), Advance(c, plan)
  PROVE  cancels' \subseteq Cancellation
<1>1. cancels \subseteq Cancellation
  BY TypeParts DEF CallTypes
<1>2. plan # <<>> => [c EXCEPT !.plan = plan] \in Cancellation
  BY <1>1 DEF Cancellation
<1> QED
  BY <1>1, <1>2 DEF Advance

LEMMA CancelStepType ==
  ASSUME TypeOK, NEW c \in cancels, CancelStep(c)
  PROVE  TypeOK'
<1> DEFINE Plans == Seq({"claim", "await", "job"})
<1>1. OwnerTypes /\ LinkTypes /\ CallTypes
  BY TypeParts
<1>2. c.k \in Keys /\ ledger \in Ledger /\ ledger.rec[c.k] \in Record
  BY <1>1, LedgerParts DEF CallTypes, Cancellation
<1>3. c.plan \in Plans /\ Tail(c.plan) \in Plans /\ <<"await">> \o Tail(c.plan) \in Plans
  <2>1. c.plan \in Plans \ {<<>>}
    BY <1>1 DEF CallTypes, Cancellation
  <2>2. Tail(c.plan) \in Plans
    BY <2>1, HeadTailProperties
  <2>3. <<"await">> \in Plans
    OBVIOUS
  <2> QED
    BY <2>1, <2>2, <2>3, ConcatProperties
<1> HIDE DEF Plans
<1>4. ByJob /\ UNCHANGED deliver
  BY DEF CancelStep, completeQueued, AwaitFinish, CancelJob, CancelAbandoned
<1> SUFFICES ledger' \in Ledger /\ cancels' \subseteq Cancellation
  BY <1>1, <1>4, JobTypes DEF CallTypes
<1>5. CASE completeQueued(c)
  <2>1. \E o \in RejectedBeforeExecution : ledger' \in {Claimed(ledger, c.k, o), ledger}
    <3>1. ledger' \in {Claimed(ledger, c.k, "DeadlineBeforeStart"), Claimed(ledger, c.k, "CancelledBeforeStart"), ledger}
      BY <1>5, Zenon DEF completeQueued
    <3> QED
      BY <3>1 DEF RejectedBeforeExecution
  <2>2. \A o \in RejectedBeforeExecution : Claimed(ledger, c.k, o) \in Ledger
    <3> SUFFICES ASSUME NEW o \in RejectedBeforeExecution PROVE Claimed(ledger, c.k, o) \in Ledger
      OBVIOUS
    <3> DEFINE r == [ledger.rec[c.k] EXCEPT !.stage = "Finalizing", !.task = "select", !.terminal = o]
               f == [ledger.rec EXCEPT ![c.k] = r]
               q == Without(ledger.pending, c.k)
    <3>1. \A x \in Record : [x EXCEPT !.stage = "Finalizing", !.task = "select", !.terminal = o] \in Record
      <4>1. o \in Outcomes
        BY DEF Outcomes
      <4> QED
        BY <4>1, ZenonT(40) DEF Record, Stages, Tasks
    <3>2. Claimed(ledger, c.k, o) = [ledger EXCEPT !.pending = q, !.rec = f]
      BY DEF Claimed
    <3>3. r \in Record
      BY <1>2, <3>1
    <3> HIDE DEF r
    <3>4. f \in [Keys -> Record] /\ q \in Seq(Keys)
      BY <1>2, <3>3, LedgerParts, WithoutType
    <3> HIDE DEF f, q
    <3>5. [ledger EXCEPT !.pending = q, !.rec = f] \in Ledger
      BY <1>2, <3>4 DEF Ledger
    <3> QED
      BY <3>2, <3>5, Zenon
  <2>3. Advance(c, <<"await">> \o Tail(c.plan)) \/ Advance(c, Tail(c.plan))
    BY <1>5, Zenon DEF completeQueued
  <2> QED
    BY <1>2, <1>3, <2>1, <2>2, <2>3, AdvanceType DEF Plans
<1>6. CASE AwaitFinish(c)
  BY <1>2, <1>3, <1>6, AdvanceType DEF AwaitFinish, Plans
<1>7. CASE CancelJob(c)
  <2> DEFINE f == [ledger.rec EXCEPT ![c.k] = [ledger.rec[c.k] EXCEPT !.jobCancelled = TRUE]]
  <2>1. \A x \in Record : [x EXCEPT !.jobCancelled = TRUE] \in Record
    BY Zenon DEF Record
  <2>2. f \in [Keys -> Record]
    BY <1>2, <2>1, LedgerParts
  <2>3. ledger' = [ledger EXCEPT !.rec = f] \/ ledger' = ledger
    BY <1>7 DEF CancelJob
  <2> HIDE DEF f
  <2>4. [ledger EXCEPT !.rec = f] \in Ledger
    BY <1>2, <2>2, ReplaceRecords
  <2>5. cancels' \subseteq Cancellation
    BY <1>3, <1>7, AdvanceType DEF CancelJob, Plans
  <2> QED
    BY <1>2, <2>3, <2>4, <2>5, Zenon
<1>8. CASE CancelAbandoned(c)
  BY <1>1, <1>8 DEF CancelAbandoned, CallTypes
<1> QED
  BY <1>5, <1>6, <1>7, <1>8 DEF CancelStep

LEMMA DeliverType ==
  ASSUME TypeOK, NEW d \in deliver, Deliver(d)
  PROVE  TypeOK'
<1>1. OwnerTypes /\ LinkTypes /\ CallTypes
  BY TypeParts
<1>2. d.link \in Links
  BY <1>1 DEF CallTypes
<1>3. LinkTypes'
  BY <1>1, <1>2, OfferType DEF Deliver
<1>4. OwnerTypes' /\ CallTypes'
  BY <1>1 DEF Deliver, OwnerTypes, CallTypes, trustVars
<1> QED
  BY <1>3, <1>4, TypeParts, PTL

\* The calls that revocation, a login's end or close() cancel.
LEMMA CancelAllType ==
  ASSUME TypeOK, NEW ks \in SUBSET Keys, NEW by \in Sessions \cup {"revoke", "close"},
         NEW plan \in {ClaimThenJob, JobThenClaim}, CancelAll(ks, by, plan)
  PROVE  CallTypes' /\ LinkTypes' /\ UNCHANGED <<clock, trusted>>
<1>1. LinkTypes /\ CallTypes
  BY TypeParts
<1>2. ledger' \in Ledger
  BY <1>1, RequestCancelType DEF CancelAll, CallTypes
<1>3. Cancelling(ks, by, plan) \subseteq Cancellation
  BY CancellingType
<1> QED
  BY <1>1, <1>2, <1>3 DEF CancelAll, CallTypes, LinkTypes, linkVars

LEMMA SessionStepType ==
  ASSUME TypeOK, NEW s \in Sessions, SessionStep(s)
  PROVE  TypeOK'
<1>1. OwnerTypes /\ LinkTypes /\ CallTypes
  BY TypeParts
<1>2. CASE SessionEnds(s) \/ SessionRevoked(s)
  <2>1. OwnerTypes' /\ LinkTypes' /\ CallTypes'
    BY <1>1, <1>2 DEF SessionEnds, SessionRevoked, OwnerTypes, LinkTypes, CallTypes, trustVars, linkVars, callVars
  <2> QED
    BY <2>1, TypeParts, PTL
<1>3. CASE SessionMark(s)
  <2> DEFINE ks == {k \in Keys : ledger.rec[k].sess = s /\ ledger.rec[k].stage \in Active}
  <2>1. CallTypes' /\ LinkTypes' /\ UNCHANGED <<clock, trusted>>
    <3>1. CancelAll(ks, s, JobThenClaim) /\ ks \in SUBSET Keys
      BY <1>3 DEF SessionMark
    <3> HIDE DEF ks
    <3> QED
      BY <3>1, CancelAllType
  <2>2. OwnerTypes'
    BY <1>1, <1>3, <2>1 DEF SessionMark, OwnerTypes
  <2> QED
    BY <2>1, <2>2, TypeParts, PTL
<1> QED
  BY <1>2, <1>3 DEF SessionStep

LEMMA TrustChangeType ==
  ASSUME TypeOK, NEW p \in Peers, TrustChange(p)
  PROVE  TypeOK'
<1>1. OwnerTypes /\ LinkTypes /\ CallTypes
  BY TypeParts
<1>2. OwnerTypes' /\ LinkTypes' /\ CallTypes'
  BY <1>1 DEF TrustChange, OwnerTypes, LinkTypes, CallTypes, linkVars, callVars
<1> QED
  BY <1>2, TypeParts, PTL

\* The keys listed in a queue.
LEMMA QueuedKeys ==
  ASSUME NEW s \in Seq(Keys)
  PROVE  Range(s) \subseteq Keys /\ IsFiniteSet(Range(s))
<1>1. Len(s) \in 0..Len(s)
  BY LenProperties
<1>2. Range(s) = First(s, Len(s))
  BY LenProperties DEF Range, First
<1> QED
  BY <1>1, <1>2, FirstFrom

LEMMA HostStepType ==
  ASSUME TypeOK, HostStep
  PROVE  TypeOK'
<1>1. OwnerTypes /\ LinkTypes /\ CallTypes
  BY TypeParts
<1>2. ledger \in Ledger
  BY <1>1 DEF CallTypes
<1>3. CASE AttachCloseOld
  <2>1. LinkTypes'
    BY <1>1, <1>3 DEF AttachCloseOld, LinkTypes, Closing
  <2>2. OwnerTypes' /\ CallTypes'
    BY <1>1, <1>3 DEF AttachCloseOld, ByLink, OwnerTypes, CallTypes, trustVars, callVars
  <2> QED
    BY <2>1, <2>2, TypeParts, PTL
<1>4. CASE RevokeMark
  <2> DEFINE ks == {k \in Keys : k[1] = revoke.peer /\ ledger.rec[k].stage \in Active}
  <2>1. CallTypes' /\ LinkTypes' /\ UNCHANGED <<clock, trusted>>
    <3>1. CancelAll(ks, "revoke", ClaimThenJob) /\ ks \in SUBSET Keys
      BY <1>4 DEF RevokeMark
    <3> HIDE DEF ks
    <3> QED
      BY <3>1, CancelAllType
  <2>2. OwnerTypes'
    BY <1>1, <1>4, <2>1 DEF RevokeMark, OwnerTypes
  <2> QED
    BY <2>1, <2>2, TypeParts, PTL
<1>5. CASE RevokeClose
  <2>1. links[revoke.peer] \in Links \cup {NoLink}
    BY <1>1 DEF OwnerTypes, LinkTypes
  <2>2. UNCHANGED linkVars \/ (links[revoke.peer] \in Links /\ CloseLink(links[revoke.peer]))
    BY <1>5, <2>1 DEF RevokeClose
  <2>3. LinkTypes'
    BY <1>1, <2>2, CloseLinkType DEF LinkTypes, linkVars
  <2>4. OwnerTypes' /\ CallTypes'
    BY <1>1, <1>5 DEF RevokeClose, OwnerTypes, CallTypes, callVars
  <2> QED
    BY <2>3, <2>4, TypeParts, PTL
<1>6. CASE CloseBegin
  <2>1. Records(ledger) \in SUBSET Keys
    BY DEF Records
  <2>2. CallTypes' /\ LinkTypes' /\ UNCHANGED <<clock, trusted>>
    BY <1>6, <2>1, CancelAllType DEF CloseBegin
  <2>3. OwnerTypes'
    BY <1>1, <1>6, <2>2 DEF CloseBegin, OwnerTypes
  <2> QED
    BY <2>2, <2>3, TypeParts, PTL
<1>7. CASE CloseLinks
  <2>1. OwnerTypes' /\ LinkTypes' /\ CallTypes'
    BY <1>1, <1>7 DEF CloseLinks, OwnerTypes, LinkTypes, CallTypes, trustVars, callVars, Closing
  <2> QED
    BY <2>1, TypeParts, PTL
<1>8. CASE CloseEnd
  <2> DEFINE w == Retire(ledger, Range(ledger.completed))
  <2>1. w \in Ledger
    BY <1>2, LedgerParts, QueuedKeys, RetireType
  <2>2. ledger' = [w EXCEPT !.completed = <<>>, !.cached = <<>>]
    BY <1>8 DEF CloseEnd
  <2> HIDE DEF w
  <2>3. [w EXCEPT !.completed = <<>>, !.cached = <<>>] \in Ledger
    <3>1. \A e \in Seq(Keys) : [w EXCEPT !.completed = e, !.cached = e] \in Ledger
      BY <2>1 DEF Ledger
    <3>2. <<>> \in Seq(Keys)
      BY EmptySeq
    <3> QED
      BY <3>1, <3>2, Zenon
  <2>4. CallTypes'
    <3>1. ledger' \in Ledger
      BY <2>2, <2>3, Zenon
    <3> QED
      BY <1>1, <1>8, <3>1 DEF CloseEnd, CallTypes
  <2>5. OwnerTypes' /\ LinkTypes'
    BY <1>1, <1>8 DEF CloseEnd, OwnerTypes, LinkTypes, trustVars
  <2> QED
    BY <2>4, <2>5, TypeParts, PTL
<1>9. CASE sweep
  <2> DEFINE t == expireLocked(ledger, clock)
             overdue == {k \in Range(t.pending) : clock >= t.rec[k].deadline}
  <2>1. t \in Ledger
    BY <1>2, expireLockedType
  <2>2. overdue \in SUBSET Keys
    BY <2>1, LedgerParts, QueuedKeys
  <2>3. ledger' = t /\ cancels' = cancels \cup Cancelling(overdue, "sweep", <<"claim">>)
        /\ UNCHANGED deliver /\ ByJob
    BY <1>9 DEF sweep
  <2> HIDE DEF t, overdue
  <2>4. cancels' \subseteq Cancellation
    BY <1>1, <2>2, <2>3, CancellingType DEF CallTypes
  <2> QED
    BY <1>1, <2>1, <2>3, <2>4, JobTypes DEF CallTypes
<1>10. CASE Tick
  <2>1. clock' \in 0..MaxClock
    BY <1>1, <1>10, Limits DEF Tick, OwnerTypes
  <2>2. OwnerTypes' /\ LinkTypes' /\ CallTypes'
    BY <1>1, <1>10, <2>1 DEF Tick, OwnerTypes, LinkTypes, CallTypes, trustVars, linkVars, callVars
  <2> QED
    BY <2>2, TypeParts, PTL
<1> QED
  BY <1>3, <1>4, <1>5, <1>6, <1>7, <1>8, <1>9, <1>10 DEF HostStep

LEMMA NextType == TypeOK /\ [Next]_vars => TypeOK'
<1> SUFFICES ASSUME TypeOK, [Next]_vars PROVE TypeOK'
  OBVIOUS
<1>1. CASE UNCHANGED vars
  BY <1>1 DEF TypeOK, vars, trustVars, linkVars, callVars
<1>2. CASE Next
  <2>1. ASSUME NEW l \in Links, ReaderStep(l) PROVE TypeOK'
    BY <2>1, MessageType, SendType, InvokeStepType, ControlStepType DEF ReaderStep
  <2> QED
    BY <1>2, <2>1, LinkStepType, JobStepType, DeliverType, CancelStepType, TrustChangeType,
       SessionStepType, HostStepType DEF Next
<1> QED
  BY <1>1, <1>2

\* Every variable of the engine keeps its type, for every instance: in
\* particular the queues hold keys, a pending reply is a reply, and a result
\* on its way is addressed to a link.
THEOREM TypeCorrect == Spec => []TypeOK
BY InitType, NextType, PTL DEF Spec
-----------------------------------------------------------------------------
(* The safety of the host's calls: the retention fence, the life of a      *)
(* record, the queue and the jobs.                                         *)

\* The retention fence: the part TombstoneFence states, and what a forgotten
\* key of an open engine still remembers.
FenceOf(t, now, isClosed) ==
  \A k \in Keys :
    /\ t.rec[k].inst > 1 /\ Present(t.rec[k]) => t.rec[k].admittedAt >= t.rec[k].prevEnd + RecordTtl
    /\ ~isClosed /\ t.rec[k].inst > 0 /\ ~Present(t.rec[k]) => now >= t.rec[k].completedAt + RecordTtl

\* How stage, launcher, job and terminal of a record go together.
CallOK(r) ==
  /\ r.launcher = "due" => r.stage = "Running" /\ r.task = "none"
  /\ r.task # "none" => r.stage \in {"Running", "Finalizing"}
  /\ (r.stage \in {"Absent", "Queued"} \/ r.launcher = "due" \/ r.task \in {"ready", "decoding"}) =>
       (r.terminal = "none" /\ ~r.began)
  /\ r.task = "handler" => r.began /\ r.terminal = "none"
  /\ r.task \in {"select", "commit"} => r.terminal # "none"
  /\ r.terminal # "none" => (r.began <=> r.terminal \notin RejectedBeforeExecution \cup {"AccessRevoked"})

CallsOK(t) == \A k \in Keys : CallOK(t.rec[k])

\* A queue lists records of one stage, each once.
QueueOf(t, s, stage) ==
  /\ \A i \in 1..Len(s) : t.rec[s[i]].stage = stage
  /\ \A i, j \in 1..Len(s) : s[i] = s[j] => i = j

QueuesOf(t) == QueueOf(t, t.pending, "Queued") /\ QueueOf(t, t.completed, "Complete")

WorkOf(t, isClosed) ==
  /\ t.running <= RunningCalls /\ Len(t.pending) <= QueuedCalls /\ Len(t.cached) <= CacheBodies
  /\ ~isClosed /\ t.pending # <<>> => t.running = RunningCalls

LedgerOK(t, now, isClosed) ==
  FenceOf(t, now, isClosed) /\ CallsOK(t) /\ QueuesOf(t) /\ WorkOf(t, isClosed)

SafetyInv == TypeOK /\ LedgerOK(ledger, clock, closed)
-----------------------------------------------------------------------------
(* Facts about single operators.                                           *)

LEMMA LimitTypes ==
  /\ RunningCalls \in Nat \ {0} /\ QueuedCalls \in Nat /\ CacheBodies \in Nat /\ RecordTtl \in Nat
BY LimitsAssumption

LEMMA WithoutElements ==
  ASSUME NEW S, NEW s \in Seq(S), NEW e, \A i, j \in 1..Len(s) : s[i] = s[j] => i = j
  PROVE  LET w == Without(s, e) IN
         /\ Len(w) <= Len(s) /\ (w # <<>> => s # <<>>)
         /\ \A i \in 1..Len(w) : w[i] # e /\ \E j \in 1..Len(s) : w[i] = s[j]
         /\ \A i, j \in 1..Len(w) : w[i] = w[j] => i = j
<1> DEFINE w == Without(s, e)
           p == CHOOSE n \in 1..Len(s) : s[n] = e
<1>0. Len(s) \in Nat
  BY LenProperties
<1>1. CASE ~\E n \in 1..Len(s) : s[n] = e
  <2>1. w = s
    BY <1>1 DEF Without
  <2> QED
    BY <1>0, <1>1, <2>1
<1>2. CASE \E n \in 1..Len(s) : s[n] = e
  <2>1. p \in 1..Len(s) /\ s[p] = e
    BY <1>2
  <2>2. w = SubSeq(s, 1, p - 1) \o SubSeq(s, p + 1, Len(s))
    BY <1>2 DEF Without, RemoveAt
  <2> HIDE DEF p, w
  <2> DEFINE a == SubSeq(s, 1, p - 1)
             b == SubSeq(s, p + 1, Len(s))
  <2>a. a \in Seq(S) /\ Len(a) = p - 1 /\ \A i \in 1..(p - 1) : a[i] = s[i]
    BY <1>0, <2>1
  <2>b. b \in Seq(S) /\ Len(b) = Len(s) - p /\ \A i \in 1..(Len(s) - p) : b[i] = s[p + i]
    BY <1>0, <2>1
  <2> HIDE DEF a, b
  <2>c. /\ Len(a \o b) = Len(a) + Len(b)
        /\ \A i \in 1..(Len(a) + Len(b)) : (a \o b)[i] = IF i <= Len(a) THEN a[i] ELSE b[i - Len(a)]
    BY <2>a, <2>b, ConcatProperties
  <2>d. w = a \o b
    BY <2>2 DEF a, b
  <2>3. Len(w) = Len(s) - 1 /\ \A i \in 1..Len(w) : w[i] = IF i < p THEN s[i] ELSE s[i + 1]
    <3>1. Len(w) = Len(s) - 1
      BY <1>0, <2>1, <2>a, <2>b, <2>c, <2>d
    <3>2. ASSUME NEW i \in 1..(Len(s) - 1) PROVE w[i] = IF i < p THEN s[i] ELSE s[i + 1]
      <4>1. w[i] = IF i <= p - 1 THEN a[i] ELSE b[i - (p - 1)]
        BY <1>0, <2>1, <2>a, <2>b, <2>c, <2>d
      <4>2. CASE i < p
        BY <1>0, <2>1, <2>a, <4>1, <4>2
      <4>3. CASE ~(i < p)
        <5>1. i - (p - 1) \in 1..(Len(s) - p) /\ p + (i - (p - 1)) = i + 1
          BY <1>0, <2>1, <4>3
        <5> QED
          BY <1>0, <2>1, <2>b, <4>1, <4>3, <5>1
      <4> QED
        BY <4>2, <4>3
    <3> QED
      BY <3>1, <3>2
  <2>4. \A i \in 1..Len(w) : w[i] # e /\ \E j \in 1..Len(s) : w[i] = s[j]
    BY <2>1, <2>3, <1>0
  <2>5. \A i, j \in 1..Len(w) : w[i] = w[j] => i = j
    BY <2>1, <2>3, <1>0
  <2>6. s # <<>>
    BY <2>1
  <2> QED
    BY <1>0, <2>3, <2>4, <2>5, <2>6 DEF w
<1> QED
  BY <1>1, <1>2

LEMMA SameCallOK ==
  ASSUME NEW r, NEW q, SameCall(r, q), CallOK(r)
  PROVE  CallOK(q)
<1>1. q.stage = r.stage /\ q.task = r.task /\ q.terminal = r.terminal /\ q.launcher = r.launcher
  BY DEF SameCall
<1>2. q.began <=> r.began
  BY DEF SameCall
<1> QED
  BY <1>1, <1>2, Zenon DEF CallOK

\* A queue stays one as long as its entries keep their stage.
LEMMA QueueKeeps ==
  ASSUME NEW t, NEW u, NEW stage, NEW s \in Seq(Keys), QueueOf(t, s, stage),
         \A k \in Keys : t.rec[k].stage = stage => u.rec[k].stage = stage
  PROVE  QueueOf(u, s, stage)
<1>1. \A i \in 1..Len(s) : s[i] \in Keys
  OBVIOUS
<1>2. \A i \in 1..Len(s) : t.rec[s[i]].stage = stage
  BY DEF QueueOf
<1>3. \A i \in 1..Len(s) : u.rec[s[i]].stage = stage
  BY <1>1, <1>2
<1> QED
  BY <1>3 DEF QueueOf

\* Operators that keep every call as it is keep the invariant.
LEMMA SameCallsKeep ==
  ASSUME NEW t \in Ledger, NEW u \in Ledger, SameCalls(t, u), Len(u.cached) <= CacheBodies,
         NEW now, NEW isClosed, LedgerOK(t, now, isClosed)
  PROVE  LedgerOK(u, now, isClosed)
<1>1. \A k \in Keys : SameCall(t.rec[k], u.rec[k])
  BY DEF SameCalls
<1>2. FenceOf(u, now, isClosed)
  BY <1>1 DEF LedgerOK, FenceOf, SameCall, Present
<1>3. CallsOK(u)
  BY <1>1, SameCallOK DEF LedgerOK, CallsOK
<1>4. QueuesOf(u)
  <2>1. u.pending = t.pending /\ u.completed = t.completed
    BY DEF SameCalls
  <2>2. t.pending \in Seq(Keys) /\ t.completed \in Seq(Keys)
    BY LedgerParts
  <2> QED
    BY <1>1, <2>1, <2>2, QueueKeeps DEF LedgerOK, QueuesOf, SameCall
<1>5. WorkOf(u, isClosed)
  BY DEF LedgerOK, WorkOf, SameCalls
<1> QED
  BY <1>2, <1>3, <1>4, <1>5 DEF LedgerOK

LEMMA AbsentOK ==
  ASSUME NEW inst, NEW end
  PROVE  /\ CallOK(Absent(inst, end)) /\ Absent(inst, end).stage = "Absent"
         /\ Absent(inst, end).inst = inst /\ Absent(inst, end).completedAt = end
BY DEF CallOK, Absent

LEMMA expireLockedKeeps ==
  ASSUME NEW t \in Ledger, NEW now \in Nat, NEW isClosed, LedgerOK(t, now, isClosed)
  PROVE  LedgerOK(expireLocked(t, now), now, isClosed)
<1> DEFINE u == expireLocked(t, now)
<1>1. PICK n \in 0..Len(t.completed) :
        /\ u.pending = t.pending /\ u.running = t.running
        /\ u.completed = From(t.completed, n)
        /\ Len(u.cached) <= Len(t.cached)
        /\ \A k \in First(t.completed, n) : now >= t.rec[k].completedAt + RecordTtl
        /\ \A k \in Keys :
             IF k \in First(t.completed, n)
             THEN u.rec[k] = Absent(t.rec[k].inst, t.rec[k].completedAt)
             ELSE SameCall(t.rec[k], u.rec[k])
  BY expireLockedEffect
<1>2. u \in Ledger
  BY expireLockedType
<1> HIDE DEF u
<1>3. t.pending \in Seq(Keys) /\ t.completed \in Seq(Keys) /\ Len(t.cached) \in Nat /\ Len(u.cached) \in Nat
  BY <1>2, LedgerParts, LenProperties
<1> DEFINE gone == First(t.completed, n)
<1>4. \A k \in gone : k \in Keys /\ t.rec[k].stage = "Complete"
  BY <1>3 DEF First, LedgerOK, QueuesOf, QueueOf
<1>5. \A k \in gone : /\ u.rec[k].inst = t.rec[k].inst /\ u.rec[k].completedAt = t.rec[k].completedAt
                      /\ u.rec[k].stage = "Absent"
  BY <1>1, <1>4, AbsentOK
<1>6. FenceOf(u, now, isClosed)
  <2> SUFFICES ASSUME NEW k \in Keys
               PROVE  /\ u.rec[k].inst > 1 /\ Present(u.rec[k]) => u.rec[k].admittedAt >= u.rec[k].prevEnd + RecordTtl
                      /\ ~isClosed /\ u.rec[k].inst > 0 /\ ~Present(u.rec[k]) => now >= u.rec[k].completedAt + RecordTtl
    BY DEF FenceOf
  <2>1. CASE k \in gone
    BY <1>1, <1>5, <2>1 DEF Present
  <2>2. CASE k \notin gone
    BY <1>1, <2>2 DEF LedgerOK, FenceOf, SameCall, Present
  <2> QED
    BY <2>1, <2>2
<1>7. CallsOK(u)
  <2> SUFFICES ASSUME NEW k \in Keys PROVE CallOK(u.rec[k])
    BY DEF CallsOK
  <2>1. CASE k \in gone
    BY <1>1, <2>1, AbsentOK
  <2>2. CASE k \notin gone
    BY <1>1, <2>2, SameCallOK DEF LedgerOK, CallsOK
  <2> QED
    BY <2>1, <2>2
<1>8. QueueOf(u, u.pending, "Queued")
  <2>1. \A k \in Keys : t.rec[k].stage = "Queued" => u.rec[k].stage = "Queued"
    BY <1>1, <1>4 DEF SameCall
  <2> QED
    BY <1>1, <1>3, <2>1, QueueKeeps DEF LedgerOK, QueuesOf
<1>9. QueueOf(u, u.completed, "Complete")
  <2> DEFINE s == t.completed
             c == From(s, n)
  <2>1. Len(c) = Len(s) - n /\ \A i \in 1..Len(c) : c[i] = s[i + n] /\ i + n \in 1..Len(s)
    BY <1>3 DEF From
  <2> HIDE DEF c
  <2>2. \A i, j \in 1..Len(s) : s[i] = s[j] => i = j
    BY DEF LedgerOK, QueuesOf, QueueOf
  <2>3. \A i \in 1..Len(c) : c[i] \notin gone
    <3> SUFFICES ASSUME NEW i \in 1..Len(c), NEW j \in 1..n, c[i] = s[j] PROVE FALSE
      BY DEF First
    <3>1. j \in 1..Len(s) /\ i \in Nat /\ n \in Nat /\ j \in Nat /\ i > 0
      BY <1>3, LenProperties
    <3>2. i + n = j
      BY <2>1, <2>2, <3>1
    <3> QED
      BY <3>1, <3>2
  <2>4. \A i \in 1..Len(c) : c[i] \in Keys /\ t.rec[c[i]].stage = "Complete"
    <3>1. \A i \in 1..Len(s) : s[i] \in Keys /\ t.rec[s[i]].stage = "Complete"
      BY <1>3 DEF LedgerOK, QueuesOf, QueueOf
    <3> QED
      BY <2>1, <3>1
  <2>5. \A i, j \in 1..Len(c) : c[i] = c[j] => i = j
    <3> SUFFICES ASSUME NEW i \in 1..Len(c), NEW j \in 1..Len(c), c[i] = c[j] PROVE i = j
      OBVIOUS
    <3>1. i + n = j + n
      BY <2>1, <2>2
    <3> QED
      BY <3>1
  <2>6. \A i \in 1..Len(c) : u.rec[c[i]].stage = "Complete"
    BY <1>1, <2>3, <2>4 DEF SameCall
  <2>7. u.completed = c
    BY <1>1 DEF c
  <2> QED
    BY <2>5, <2>6, <2>7 DEF QueueOf
<1>10. WorkOf(u, isClosed)
  BY <1>1, <1>3, LimitTypes DEF LedgerOK, WorkOf
<1> QED
  BY <1>6, <1>7, <1>8, <1>9, <1>10 DEF LedgerOK, QueuesOf, u

\* Admission: the key is free, and the queue has room unless a slot is free.
LEMMA InstallKeeps ==
  ASSUME NEW t \in Ledger, NEW k \in Keys, NEW sig \in Sigs,
         NEW sess \in Sessions \cup {NoSession}, NEW dl \in Nat, NEW now \in Nat,
         LedgerOK(t, now, FALSE), ~Present(t.rec[k]),
         t.running >= RunningCalls => Len(t.pending) < QueuedCalls
  PROVE  LedgerOK(Install(t, k, sig, sess, dl, now), now, FALSE)
<1> DEFINE u == Install(t, k, sig, sess, dl, now)
           r == u.rec[k]
           run == t.running < RunningCalls
<1>1. /\ u.completed = t.completed /\ u.cached = t.cached
      /\ u.running = IF run THEN t.running + 1 ELSE t.running
      /\ u.pending = IF run THEN t.pending ELSE Append(t.pending, k)
      /\ \A j \in Keys \ {k} : u.rec[j] = t.rec[j]
      /\ r.stage = IF run THEN "Running" ELSE "Queued"
      /\ r.launcher = IF run THEN "due" ELSE "none"
      /\ r.inst = t.rec[k].inst + 1 /\ r.prevEnd = t.rec[k].completedAt /\ r.admittedAt = now
      /\ r.task = "none" /\ r.terminal = "none" /\ ~r.began
      /\ r.sig = sig /\ r.sess = sess /\ r.result = "none"
  BY InstallEffect
<1>2. t.pending \in Seq(Keys) /\ t.completed \in Seq(Keys) /\ t.running \in Int /\ t.rec[k].inst \in Nat
      /\ Len(t.pending) \in Nat
  BY LedgerParts, LenProperties DEF Record
<1> HIDE DEF u
<1>3. FenceOf(u, now, FALSE)
  <2> SUFFICES ASSUME NEW j \in Keys
               PROVE  /\ u.rec[j].inst > 1 /\ Present(u.rec[j]) => u.rec[j].admittedAt >= u.rec[j].prevEnd + RecordTtl
                      /\ u.rec[j].inst > 0 /\ ~Present(u.rec[j]) => now >= u.rec[j].completedAt + RecordTtl
    BY DEF FenceOf
  <2>1. CASE j = k
    <3>1. t.rec[k].inst > 0 => now >= t.rec[k].completedAt + RecordTtl
      BY DEF LedgerOK, FenceOf
    <3> QED
      BY <1>1, <1>2, <2>1, <3>1 DEF Present
  <2>2. CASE j # k
    BY <1>1, <2>2 DEF LedgerOK, FenceOf
  <2> QED
    BY <2>1, <2>2
<1>4. CallsOK(u)
  <2>1. CallOK(u.rec[k])
    BY <1>1, Zenon DEF CallOK
  <2> QED
    BY <1>1, <2>1 DEF LedgerOK, CallsOK
<1>5. t.rec[k].stage = "Absent"
  BY DEF Present
<1>6. QueueOf(u, u.completed, "Complete")
  <2>1. \A j \in Keys : t.rec[j].stage = "Complete" => u.rec[j].stage = "Complete"
    BY <1>1, <1>5
  <2> QED
    BY <1>1, <1>2, <2>1, QueueKeeps DEF LedgerOK, QueuesOf
<1>7. QueueOf(u, t.pending, "Queued")
  <2>1. \A j \in Keys : t.rec[j].stage = "Queued" => u.rec[j].stage = "Queued"
    BY <1>1, <1>5
  <2> QED
    BY <1>2, <2>1, QueueKeeps DEF LedgerOK, QueuesOf
<1>8. QueueOf(u, u.pending, "Queued")
  <2>1. CASE run
    BY <1>1, <1>7, <2>1
  <2>2. CASE ~run
    <3> DEFINE q == Append(t.pending, k)
    <3>1. /\ Len(q) = Len(t.pending) + 1 /\ q[Len(t.pending) + 1] = k
          /\ \A i \in 1..Len(t.pending) : q[i] = t.pending[i]
      BY <1>2
    <3>2. u.pending = q /\ u.rec[k].stage = "Queued"
      BY <1>1, <2>2
    <3> HIDE DEF q
    <3>3. \A i \in 1..Len(t.pending) : t.pending[i] # k
      BY <1>5 DEF LedgerOK, QueuesOf, QueueOf
    <3>4. \A i \in 1..Len(q) : u.rec[q[i]].stage = "Queued"
      BY <1>2, <1>7, <3>1, <3>2 DEF QueueOf
    <3>5. \A i, j \in 1..Len(q) : q[i] = q[j] => i = j
      <4>1. \A i, j \in 1..Len(t.pending) : t.pending[i] = t.pending[j] => i = j
        BY <1>7 DEF QueueOf
      <4>2. \A i \in 1..Len(q) : i \in 1..Len(t.pending) \/ i = Len(t.pending) + 1
        BY <1>2, <3>1
      <4> QED
        BY <3>1, <3>3, <4>1, <4>2
    <3> QED
      BY <3>2, <3>4, <3>5 DEF QueueOf
  <2> QED
    BY <2>1, <2>2
<1>9. WorkOf(u, FALSE)
  <2>1. CASE run
    BY <1>1, <1>2, <2>1, LimitTypes DEF LedgerOK, WorkOf
  <2>2. CASE ~run
    <3>1. Len(Append(t.pending, k)) = Len(t.pending) + 1
      BY <1>2
    <3> QED
      BY <1>1, <1>2, <2>2, <3>1, LimitTypes DEF LedgerOK, WorkOf
  <2> QED
    BY <2>1, <2>2
<1> QED
  BY <1>3, <1>4, <1>6, <1>8, <1>9 DEF LedgerOK, QueuesOf, u

\* A step of the job or launcher of k that keeps the stage of its record.
LEMMA UpdateKeeps ==
  ASSUME NEW t \in Ledger, NEW k \in Keys, NEW r \in Record, NEW now, NEW isClosed,
         LedgerOK(t, now, isClosed), CallOK(r),
         r.stage = t.rec[k].stage, r.inst = t.rec[k].inst, r.admittedAt = t.rec[k].admittedAt,
         r.prevEnd = t.rec[k].prevEnd, r.completedAt = t.rec[k].completedAt
  PROVE  LedgerOK([t EXCEPT !.rec[k] = r], now, isClosed)
<1> DEFINE f == [t.rec EXCEPT ![k] = r]
           u == [t EXCEPT !.rec = f]
<1>1. [t EXCEPT !.rec[k] = r] = u
  OBVIOUS
<1>2. f[k] = r /\ \A j \in Keys \ {k} : f[j] = t.rec[j]
  BY LedgerParts
<1> HIDE DEF f
<1>3. /\ u.rec = f /\ u.pending = t.pending /\ u.completed = t.completed /\ u.running = t.running
      /\ u.cached = t.cached
  BY DEF Ledger
<1> HIDE DEF u
<1>4. \A j \in Keys : /\ u.rec[j].stage = t.rec[j].stage /\ u.rec[j].inst = t.rec[j].inst
                       /\ u.rec[j].admittedAt = t.rec[j].admittedAt /\ u.rec[j].prevEnd = t.rec[j].prevEnd
                       /\ u.rec[j].completedAt = t.rec[j].completedAt
  BY <1>2, <1>3
<1>5. FenceOf(u, now, isClosed)
  BY <1>4 DEF LedgerOK, FenceOf, Present
<1>6. CallsOK(u)
  BY <1>2, <1>3 DEF LedgerOK, CallsOK
<1>7. QueuesOf(u)
  <2>1. t.pending \in Seq(Keys) /\ t.completed \in Seq(Keys)
    BY LedgerParts
  <2>2. QueueOf(t, t.pending, "Queued") /\ QueueOf(t, t.completed, "Complete")
    BY DEF LedgerOK, QueuesOf
  <2>3. QueueOf(u, t.pending, "Queued")
    BY <1>4, <2>1, <2>2, QueueKeeps
  <2>4. QueueOf(u, t.completed, "Complete")
    BY <1>4, <2>1, <2>2, QueueKeeps
  <2> QED
    BY <1>3, <2>3, <2>4 DEF QueuesOf
<1>8. WorkOf(u, isClosed)
  BY <1>3 DEF LedgerOK, WorkOf
<1> QED
  BY <1>1, <1>5, <1>6, <1>7, <1>8 DEF LedgerOK

\* completeQueued() takes a queued record out of the queue.
LEMMA ClaimedKeeps ==
  ASSUME NEW t \in Ledger, NEW k \in Keys, NEW now, NEW isClosed, NEW reason \in RejectedBeforeExecution,
         LedgerOK(t, now, isClosed), t.rec[k].stage = "Queued"
  PROVE  LedgerOK(Claimed(t, k, reason), now, isClosed)
<1> DEFINE r == [t.rec[k] EXCEPT !.stage = "Finalizing", !.task = "select", !.terminal = reason]
           f == [t.rec EXCEPT ![k] = r]
           q == Without(t.pending, k)
           u == [t EXCEPT !.pending = q, !.rec = f]
<1>1. Claimed(t, k, reason) = u
  BY DEF Claimed
<1>2. t.pending \in Seq(Keys) /\ t.completed \in Seq(Keys) /\ t.rec[k] \in Record
  BY LedgerParts
<1>3. /\ r.stage = "Finalizing" /\ r.task = "select" /\ r.terminal = reason /\ r.began = t.rec[k].began
      /\ r.launcher = t.rec[k].launcher /\ r.inst = t.rec[k].inst /\ r.admittedAt = t.rec[k].admittedAt
      /\ r.prevEnd = t.rec[k].prevEnd /\ r.completedAt = t.rec[k].completedAt
  BY <1>2, Zenon DEF Record
<1> HIDE DEF r
<1>4. f[k] = r /\ \A j \in Keys \ {k} : f[j] = t.rec[j]
  BY LedgerParts
<1>5. \A i, j \in 1..Len(t.pending) : t.pending[i] = t.pending[j] => i = j
  BY DEF LedgerOK, QueuesOf, QueueOf
<1>6. /\ Len(q) <= Len(t.pending) /\ (q # <<>> => t.pending # <<>>)
      /\ \A i \in 1..Len(q) : q[i] # k /\ \E j \in 1..Len(t.pending) : q[i] = t.pending[j]
      /\ \A i, j \in 1..Len(q) : q[i] = q[j] => i = j
  BY <1>2, <1>5, WithoutElements
<1>7. q \in Seq(Keys)
  BY <1>2, WithoutType
<1> HIDE DEF f, q
<1>8. /\ u.rec = f /\ u.pending = q /\ u.completed = t.completed /\ u.running = t.running
      /\ u.cached = t.cached
  BY DEF Ledger
<1> HIDE DEF u
<1>9. FenceOf(u, now, isClosed)
  <2> SUFFICES ASSUME NEW j \in Keys
               PROVE  /\ f[j].inst > 1 /\ Present(f[j]) => f[j].admittedAt >= f[j].prevEnd + RecordTtl
                      /\ ~isClosed /\ f[j].inst > 0 /\ ~Present(f[j]) => now >= f[j].completedAt + RecordTtl
    BY <1>8 DEF FenceOf
  <2>1. CASE j = k
    BY <1>3, <1>4, <2>1 DEF LedgerOK, FenceOf, Present
  <2>2. CASE j # k
    BY <1>4, <2>2 DEF LedgerOK, FenceOf
  <2> QED
    BY <2>1, <2>2
<1>10. CallsOK(u)
  <2>1. ~t.rec[k].began /\ t.rec[k].launcher # "due"
    BY DEF LedgerOK, CallsOK, CallOK
  <2>2. reason # "none"
    BY DEF RejectedBeforeExecution
  <2>3. ~r.began /\ r.launcher # "due"
    BY <1>3, <2>1, Zenon
  <2>4. CallOK(r)
    BY <1>3, <2>2, <2>3 DEF CallOK
  <2> QED
    BY <1>4, <1>8, <2>4 DEF LedgerOK, CallsOK
<1>11. QueueOf(u, u.completed, "Complete")
  <2>1. \A j \in Keys : t.rec[j].stage = "Complete" => f[j].stage = "Complete"
    BY <1>4
  <2> QED
    BY <1>2, <1>8, <2>1, QueueKeeps DEF LedgerOK, QueuesOf
<1>12. QueueOf(u, u.pending, "Queued")
  <2>1. \A j \in 1..Len(t.pending) : t.pending[j] \in Keys /\ t.rec[t.pending[j]].stage = "Queued"
    BY <1>2 DEF LedgerOK, QueuesOf, QueueOf
  <2>2. \A i \in 1..Len(q) : q[i] \in Keys \ {k} /\ t.rec[q[i]].stage = "Queued"
    BY <1>6, <2>1
  <2>3. \A i \in 1..Len(q) : f[q[i]].stage = "Queued"
    BY <1>4, <2>2
  <2> QED
    BY <1>6, <1>8, <2>3 DEF QueueOf
<1>13. WorkOf(u, isClosed)
  <2>1. Len(q) \in Nat /\ Len(t.pending) \in Nat
    BY <1>2, <1>7, LenProperties
  <2> QED
    BY <1>6, <1>8, <2>1, LimitTypes DEF LedgerOK, WorkOf
<1> QED
  BY <1>1, <1>9, <1>10, <1>11, <1>12, <1>13 DEF LedgerOK, QueuesOf

\* The head of the queue takes the slot that was freed.
LEMMA PromoteKeeps ==
  ASSUME NEW t \in Ledger, NEW now, FenceOf(t, now, FALSE), CallsOK(t), QueuesOf(t),
         t.running <= RunningCalls, Len(t.pending) <= QueuedCalls, Len(t.cached) <= CacheBodies,
         t.pending # <<>> => t.running >= RunningCalls - 1
  PROVE  LedgerOK(Promote(t), now, FALSE)
<1> DEFINE u == Promote(t)
           h == Head(t.pending)
<1>1. /\ u.completed = t.completed /\ u.cached = t.cached
      /\ IF t.running < RunningCalls /\ t.pending # <<>>
         THEN /\ h \in Keys /\ u.pending = Tail(t.pending) /\ u.running = t.running + 1
              /\ u.rec[h] = [t.rec[h] EXCEPT !.stage = "Running", !.launcher = "due"]
              /\ \A j \in Keys \ {h} : u.rec[j] = t.rec[j]
         ELSE u = t
  BY PromoteEffect
<1>2. t.running \in Int /\ t.pending \in Seq(Keys) /\ t.completed \in Seq(Keys) /\ Len(t.pending) \in Nat
  BY LedgerParts, LenProperties
<1> HIDE DEF u
<1>3. CASE t.running < RunningCalls /\ t.pending # <<>>
  <2> DEFINE q == Tail(t.pending)
  <2>1. /\ h = t.pending[1] /\ q \in Seq(Keys) /\ Len(q) = Len(t.pending) - 1
        /\ \A i \in 1..Len(q) : i + 1 \in 1..Len(t.pending) /\ q[i] = t.pending[i + 1]
        /\ 1 \in 1..Len(t.pending)
    BY <1>2, <1>3
  <2> HIDE DEF h, q
  <2>2. h \in Keys /\ t.rec[h] \in Record /\ t.rec[h].stage = "Queued"
    BY <1>1, <1>3, <2>1, LedgerParts DEF QueuesOf, QueueOf
  <2>3. /\ u.rec[h].stage = "Running" /\ u.rec[h].launcher = "due" /\ u.rec[h].task = t.rec[h].task
        /\ u.rec[h].terminal = t.rec[h].terminal /\ u.rec[h].began = t.rec[h].began
        /\ u.rec[h].inst = t.rec[h].inst /\ u.rec[h].admittedAt = t.rec[h].admittedAt
        /\ u.rec[h].prevEnd = t.rec[h].prevEnd
    BY <1>1, <1>3, <2>2, Zenon DEF Record
  <2>4. FenceOf(u, now, FALSE)
    <3> SUFFICES ASSUME NEW j \in Keys
                 PROVE  /\ u.rec[j].inst > 1 /\ Present(u.rec[j]) => u.rec[j].admittedAt >= u.rec[j].prevEnd + RecordTtl
                        /\ u.rec[j].inst > 0 /\ ~Present(u.rec[j]) => now >= u.rec[j].completedAt + RecordTtl
      BY DEF FenceOf
    <3>1. CASE j = h
      BY <2>2, <2>3, <3>1 DEF FenceOf, Present
    <3>2. CASE j # h
      BY <1>1, <1>3, <3>2 DEF FenceOf
    <3> QED
      BY <3>1, <3>2
  <2>5. CallsOK(u)
    <3>1. t.rec[h].task = "none" /\ t.rec[h].terminal = "none" /\ ~t.rec[h].began
      BY <2>2 DEF CallsOK, CallOK
    <3>2. ~u.rec[h].began /\ u.rec[h].task = "none" /\ u.rec[h].terminal = "none"
      BY <2>3, <3>1, Zenon
    <3>3. CallOK(u.rec[h])
      BY <2>3, <3>2, Zenon DEF CallOK
    <3> QED
      BY <1>1, <1>3, <3>3 DEF CallsOK
  <2>6. QueueOf(u, u.completed, "Complete")
    <3>1. \A j \in Keys : t.rec[j].stage = "Complete" => u.rec[j].stage = "Complete"
      BY <1>1, <1>3, <2>2
    <3> QED
      BY <1>1, <1>2, <3>1, QueueKeeps DEF QueuesOf
  <2>7. QueueOf(u, q, "Queued")
    <3>1. \A i, j \in 1..Len(t.pending) : t.pending[i] = t.pending[j] => i = j
      BY DEF QueuesOf, QueueOf
    <3>2. \A i \in 1..Len(t.pending) : t.pending[i] \in Keys /\ t.rec[t.pending[i]].stage = "Queued"
      BY <1>2 DEF QueuesOf, QueueOf
    <3>3. \A i \in 1..Len(q) : q[i] # h
      <4> SUFFICES ASSUME NEW i \in 1..Len(q), q[i] = h PROVE FALSE
        OBVIOUS
      <4>1. i + 1 = 1
        BY <2>1, <3>1
      <4> QED
        BY <4>1
    <3>4. \A i \in 1..Len(q) : q[i] \in Keys /\ t.rec[q[i]].stage = "Queued"
      BY <2>1, <3>2
    <3>5. \A i \in 1..Len(q) : u.rec[q[i]].stage = "Queued"
      BY <1>1, <1>3, <3>3, <3>4
    <3>6. \A i, j \in 1..Len(q) : q[i] = q[j] => i = j
      <4> SUFFICES ASSUME NEW i \in 1..Len(q), NEW j \in 1..Len(q), q[i] = q[j] PROVE i = j
        OBVIOUS
      <4>1. i + 1 = j + 1
        BY <2>1, <3>1
      <4> QED
        BY <4>1
    <3> QED
      BY <3>5, <3>6 DEF QueueOf
  <2>8. u.pending = q /\ u.running = t.running + 1
    BY <1>1, <1>3 DEF q
  <2>9. WorkOf(u, FALSE)
    <3>1. u.running = RunningCalls
      BY <1>2, <1>3, <2>8, LimitTypes
    <3>2. Len(u.pending) <= QueuedCalls
      BY <1>2, <2>1, <2>8, LimitTypes
    <3>3. Len(u.cached) <= CacheBodies
      BY <1>1
    <3> QED
      BY <3>1, <3>2, <3>3, LimitTypes DEF WorkOf
  <2> QED
    BY <2>4, <2>5, <2>6, <2>7, <2>8, <2>9 DEF LedgerOK, QueuesOf, u
<1>4. CASE ~(t.running < RunningCalls /\ t.pending # <<>>)
  <2>1. u = t
    BY <1>1, <1>4
  <2>2. WorkOf(t, FALSE)
    BY <1>2, <1>4, LimitTypes DEF WorkOf
  <2> QED
    BY <2>1, <2>2 DEF LedgerOK, u
<1> QED
  BY <1>3, <1>4

\* finish() of a call whose job has ended.
LEMMA CompletedKeeps ==
  ASSUME NEW t \in Ledger, NEW k \in Keys, NEW now \in Nat, NEW isClosed \in BOOLEAN,
         LedgerOK(t, now, isClosed), t.rec[k].task = "commit"
  PROVE  LedgerOK(Completed(t, k, now, isClosed), now, isClosed)
<1>1. PICK v \in Ledger :
         /\ Completed(t, k, now, isClosed) = IF isClosed THEN v ELSE Promote(v)
         /\ v.pending = IF t.rec[k].stage = "Queued" THEN Without(t.pending, k) ELSE t.pending
         /\ v.running = t.running - Frees(t.rec[k])
         /\ v.completed = IF isClosed THEN t.completed ELSE Append(t.completed, k)
         /\ IF isClosed THEN v.cached = t.cached ELSE Len(v.cached) <= CacheBodies
         /\ \A j \in Keys \ {k} : SameCall(t.rec[j], v.rec[j])
         /\ v.rec[k].inst = t.rec[k].inst /\ v.rec[k].completedAt = now
         /\ IF isClosed THEN v.rec[k] = Absent(t.rec[k].inst, now)
            ELSE /\ v.rec[k].stage = "Complete" /\ v.rec[k].task = "none"
                 /\ v.rec[k].admittedAt = t.rec[k].admittedAt /\ v.rec[k].prevEnd = t.rec[k].prevEnd
                 /\ v.rec[k].terminal = t.rec[k].terminal /\ v.rec[k].launcher = t.rec[k].launcher
                 /\ (v.rec[k].began <=> t.rec[k].began)
                 /\ v.rec[k].sig = t.rec[k].sig /\ v.rec[k].result \in {t.rec[k].terminal, "none"}
  BY CompletedEffect
<1>2. t.rec[k].stage \in {"Running", "Finalizing"} /\ CallOK(t.rec[k])
  BY DEF LedgerOK, CallsOK, CallOK
<1>3. t.pending \in Seq(Keys) /\ t.completed \in Seq(Keys) /\ Len(t.completed) \in Nat /\ t.running \in Int
  BY LedgerParts, LenProperties
<1>4. v.pending = t.pending
  BY <1>1, <1>2
<1>5. Frees(t.rec[k]) \in {0, 1}
  BY DEF Frees
<1>6. QueueOf(v, t.pending, "Queued") /\ QueueOf(v, t.completed, "Complete")
  <2>1. \A j \in Keys : t.rec[j].stage \in {"Queued", "Complete"} => j # k
    BY <1>2
  <2>2. \A j \in Keys : t.rec[j].stage \in {"Queued", "Complete"} => v.rec[j].stage = t.rec[j].stage
    BY <1>1, <2>1 DEF SameCall
  <2>3. QueueOf(v, t.pending, "Queued")
    BY <1>3, <2>2, QueueKeeps DEF LedgerOK, QueuesOf
  <2>4. QueueOf(v, t.completed, "Complete")
    BY <1>3, <2>2, QueueKeeps DEF LedgerOK, QueuesOf
  <2> QED
    BY <2>3, <2>4
<1>7. \A j \in Keys \ {k} : CallOK(v.rec[j])
  BY <1>1, SameCallOK DEF LedgerOK, CallsOK
<1>8. \A j \in Keys \ {k} :
        /\ v.rec[j].inst > 1 /\ Present(v.rec[j]) => v.rec[j].admittedAt >= v.rec[j].prevEnd + RecordTtl
        /\ ~isClosed /\ v.rec[j].inst > 0 /\ ~Present(v.rec[j]) => now >= v.rec[j].completedAt + RecordTtl
  BY <1>1 DEF LedgerOK, FenceOf, SameCall, Present
<1>9. CASE isClosed
  <2>1. v.rec[k] = Absent(t.rec[k].inst, now) /\ v.completed = t.completed /\ v.cached = t.cached
        /\ Completed(t, k, now, isClosed) = v
    BY <1>1, <1>9
  <2>2. CallOK(v.rec[k]) /\ ~Present(v.rec[k])
    BY <2>1, AbsentOK DEF Present
  <2>3. FenceOf(v, now, isClosed)
    BY <1>8, <1>9, <2>2 DEF FenceOf
  <2>4. CallsOK(v)
    BY <1>7, <2>2 DEF CallsOK
  <2>5. QueuesOf(v)
    BY <1>4, <1>6, <2>1 DEF QueuesOf
  <2>6. WorkOf(v, isClosed)
    BY <1>1, <1>3, <1>4, <1>5, <1>9, <2>1, LimitTypes DEF LedgerOK, WorkOf
  <2> QED
    BY <2>1, <2>3, <2>4, <2>5, <2>6 DEF LedgerOK
<1>10. CASE ~isClosed
  <2>1. CallsOK(v)
    <3>1. CallOK(v.rec[k])
      <4>1. t.rec[k].launcher # "due" /\ t.rec[k].terminal # "none"
        BY <1>2 DEF CallOK
      <4>2. v.rec[k].launcher # "due" /\ v.rec[k].task = "none" /\ v.rec[k].stage = "Complete"
            /\ v.rec[k].terminal = t.rec[k].terminal /\ (v.rec[k].began <=> t.rec[k].began)
        BY <1>1, <1>10, <4>1
      <4> QED
        BY <1>2, <4>1, <4>2 DEF CallOK
    <3> QED
      BY <1>7, <3>1 DEF CallsOK
  <2>2. FenceOf(v, now, FALSE)
    <3>1. t.rec[k].inst > 1 => t.rec[k].admittedAt >= t.rec[k].prevEnd + RecordTtl
      BY <1>2 DEF LedgerOK, FenceOf, Present
    <3>2. /\ v.rec[k].inst > 1 => v.rec[k].admittedAt >= v.rec[k].prevEnd + RecordTtl
          /\ Present(v.rec[k])
      BY <1>1, <1>10, <3>1 DEF Present
    <3> QED
      BY <1>8, <1>10, <3>2 DEF FenceOf
  <2>3. QueuesOf(v)
    <3> DEFINE s == t.completed
               q == Append(s, k)
    <3>1. /\ Len(q) = Len(s) + 1 /\ q[Len(s) + 1] = k
          /\ \A i \in 1..Len(s) : q[i] = s[i]
      BY <1>3
    <3>2. v.completed = q /\ v.rec[k].stage = "Complete"
      BY <1>1, <1>10
    <3> HIDE DEF q
    <3>3. \A i \in 1..Len(s) : s[i] # k
      BY <1>2 DEF LedgerOK, QueuesOf, QueueOf
    <3>4. \A i \in 1..Len(q) : v.rec[q[i]].stage = "Complete"
      BY <1>3, <1>6, <3>1, <3>2 DEF QueueOf
    <3>5. \A i, j \in 1..Len(q) : q[i] = q[j] => i = j
      BY <1>3, <1>6, <3>1, <3>3, SMTT(30) DEF QueueOf
    <3> QED
      BY <1>4, <1>6, <3>2, <3>4, <3>5 DEF QueueOf, QueuesOf
  <2>4. /\ v.running <= RunningCalls /\ Len(v.pending) <= QueuedCalls
        /\ v.pending # <<>> => v.running >= RunningCalls - 1
    BY <1>1, <1>3, <1>4, <1>5, <1>10, LimitTypes DEF LedgerOK, WorkOf
  <2>5. Len(v.cached) <= CacheBodies
    BY <1>1, <1>10
  <2>6. LedgerOK(Promote(v), now, FALSE)
    BY <2>1, <2>2, <2>3, <2>4, <2>5, PromoteKeeps
  <2>7. Completed(t, k, now, isClosed) = Promote(v) /\ isClosed = FALSE
    BY <1>1, <1>10
  <2> QED
    BY <2>6, <2>7
<1> QED
  BY <1>9, <1>10

\* The end of close() forgets every tombstone.
LEMMA CloseKeeps ==
  ASSUME NEW t \in Ledger, NEW now, LedgerOK(t, now, TRUE)
  PROVE  LedgerOK([Retire(t, Range(t.completed)) EXCEPT !.completed = <<>>, !.cached = <<>>], now, TRUE)
<1> DEFINE w == Retire(t, Range(t.completed))
           u == [w EXCEPT !.completed = <<>>, !.cached = <<>>]
<1>1. t.pending \in Seq(Keys) /\ t.completed \in Seq(Keys)
  BY LedgerParts
<1>2. w \in Ledger
  BY <1>1, QueuedKeys, RetireType
<1>3. /\ w.pending = t.pending /\ w.running = t.running
      /\ \A k \in Keys : w.rec[k] = IF k \in Range(t.completed) THEN Forget(t.rec[k]) ELSE t.rec[k]
  BY RetireEffect
<1>4. \A k \in Range(t.completed) : t.rec[k].stage = "Complete"
  BY <1>1, LenProperties DEF Range, LedgerOK, QueuesOf, QueueOf
<1> HIDE DEF w
<1>5. u.rec = w.rec /\ u.pending = w.pending /\ u.running = w.running /\ u.completed = <<>> /\ u.cached = <<>>
  BY <1>2 DEF Ledger
<1> HIDE DEF u
<1>6. \A k \in Keys : CallOK(u.rec[k]) /\ (u.rec[k] = t.rec[k] \/ ~Present(u.rec[k]))
  BY <1>3, <1>5, AbsentOK DEF Forget, Present, LedgerOK, CallsOK
<1>7. FenceOf(u, now, TRUE)
  BY <1>6 DEF LedgerOK, FenceOf
<1>8. QueuesOf(u)
  <2>1. \A k \in Keys : t.rec[k].stage = "Queued" => u.rec[k].stage = "Queued"
    BY <1>3, <1>4, <1>5
  <2>2. QueueOf(u, u.pending, "Queued")
    BY <1>1, <1>3, <1>5, <2>1, QueueKeeps DEF LedgerOK, QueuesOf
  <2>3. QueueOf(u, u.completed, "Complete")
    BY <1>5 DEF QueueOf
  <2> QED
    BY <2>2, <2>3 DEF QueuesOf
<1>9. WorkOf(u, TRUE)
  BY <1>3, <1>5, LimitTypes DEF LedgerOK, WorkOf
<1> QED
  BY <1>6, <1>7, <1>8, <1>9 DEF LedgerOK, CallsOK, u, w
-----------------------------------------------------------------------------
(* Each step keeps the invariant.                                          *)

LEMMA WithoutLength ==
  ASSUME NEW s \in Seq(Keys), NEW e
  PROVE  Len(Without(s, e)) <= Len(s)
<1>1. Len(s) \in Nat
  BY LenProperties
<1>2. CASE \E n \in 1..Len(s) : s[n] = e
  <2> DEFINE p == CHOOSE n \in 1..Len(s) : s[n] = e
             a == SubSeq(s, 1, p - 1)
             b == SubSeq(s, p + 1, Len(s))
  <2>1. p \in 1..Len(s)
    BY <1>2
  <2>2. Without(s, e) = a \o b
    BY <1>2 DEF Without, RemoveAt
  <2> HIDE DEF p
  <2>3. a \in Seq(Keys) /\ Len(a) = p - 1 /\ b \in Seq(Keys) /\ Len(b) = Len(s) - p
    BY <1>1, <2>1
  <2> HIDE DEF a, b
  <2>4. Len(a \o b) = Len(a) + Len(b)
    BY <2>3, ConcatProperties
  <2> QED
    BY <1>1, <2>1, <2>2, <2>3, <2>4
<1>3. CASE ~\E n \in 1..Len(s) : s[n] = e
  BY <1>1, <1>3 DEF Without
<1> QED
  BY <1>2, <1>3

\* Time only passes.
LEMMA LaterKeeps ==
  ASSUME NEW t \in Ledger, NEW now \in Nat, NEW isClosed, LedgerOK(t, now, isClosed)
  PROVE  LedgerOK(t, now + 1, isClosed)
<1>1. \A k \in Keys : t.rec[k].completedAt \in Nat
  BY LedgerParts DEF Record
<1>2. RecordTtl \in Nat
  BY LimitTypes
<1>3. FenceOf(t, now + 1, isClosed)
  BY <1>1, <1>2 DEF LedgerOK, FenceOf
<1> QED
  BY <1>3 DEF LedgerOK

\* A closed engine promises less.
LEMMA ClosedKeeps ==
  ASSUME NEW t, NEW now, NEW isClosed, LedgerOK(t, now, isClosed)
  PROVE  LedgerOK(t, now, TRUE)
<1>1. FenceOf(t, now, TRUE)
  BY DEF LedgerOK, FenceOf
<1>2. WorkOf(t, TRUE)
  BY DEF LedgerOK, WorkOf
<1> QED
  BY <1>1, <1>2 DEF LedgerOK

LEMMA DropOldestKeeps ==
  ASSUME NEW t \in Ledger, NEW n \in 0..Len(t.cached), NEW now, NEW isClosed, LedgerOK(t, now, isClosed)
  PROVE  LedgerOK(DropOldest(t, n), now, isClosed)
<1> DEFINE u == DropOldest(t, n)
<1>1. u \in Ledger
  BY DropOldestType
<1>2. SameCalls(t, u) /\ u.cached = From(t.cached, n)
  BY DropOldestEffect
<1>3. Len(t.cached) \in Nat /\ t.cached \in Seq(Keys)
  BY LedgerParts, LenProperties
<1> HIDE DEF u
<1>4. Len(u.cached) = Len(t.cached) - n
  BY <1>2, <1>3 DEF From
<1>5. Len(u.cached) <= CacheBodies
  BY <1>3, <1>4, LimitTypes DEF LedgerOK, WorkOf
<1> QED
  BY <1>1, <1>2, <1>5, SameCallsKeep DEF u

LEMMA dropResultBodyKeeps ==
  ASSUME NEW t \in Ledger, NEW k \in Keys, NEW now, NEW isClosed, LedgerOK(t, now, isClosed)
  PROVE  LedgerOK(dropResultBody(t, k), now, isClosed)
<1> DEFINE u == dropResultBody(t, k)
<1>1. u \in Ledger
  BY dropResultBodyType
<1>2. SameCalls(t, u) /\ u.cached \in {t.cached, Without(t.cached, k)}
  BY dropResultBodyEffect
<1>3. t.cached \in Seq(Keys) /\ Len(t.cached) \in Nat
  BY LedgerParts, LenProperties
<1>4. Len(Without(t.cached, k)) <= Len(t.cached) /\ Len(Without(t.cached, k)) \in Nat
  BY <1>3, WithoutLength, WithoutType, LenProperties
<1> HIDE DEF u
<1>5. Len(u.cached) <= CacheBodies
  BY <1>2, <1>3, <1>4, LimitTypes DEF LedgerOK, WorkOf
<1> QED
  BY <1>1, <1>2, <1>5, SameCallsKeep DEF u

LEMMA RequestCancelKeeps ==
  ASSUME NEW t \in Ledger, NEW ks, NEW now, NEW isClosed, LedgerOK(t, now, isClosed)
  PROVE  LedgerOK(RequestCancel(t, ks), now, isClosed)
<1> DEFINE u == RequestCancel(t, ks)
<1>1. u \in Ledger
  BY RequestCancelType
<1>2. SameCalls(t, u) /\ u.cached = t.cached
  BY RequestCancelEffect
<1> HIDE DEF u
<1>3. Len(u.cached) <= CacheBodies
  BY <1>2 DEF LedgerOK, WorkOf
<1> QED
  BY <1>1, <1>2, <1>3, SameCallsKeep DEF u

\* Where the parts of SafetyInv come from.
LEMMA SafetyParts ==
  ASSUME SafetyInv
  PROVE  /\ TypeOK /\ ledger \in Ledger /\ clock \in Nat /\ closed \in BOOLEAN
         /\ LedgerOK(ledger, clock, closed)
<1>1. TypeOK /\ OwnerTypes /\ CallTypes
  BY TypeParts DEF SafetyInv
<1>2. clock \in Nat
  BY <1>1 DEF OwnerTypes
<1> QED
  BY <1>1, <1>2 DEF SafetyInv, CallTypes, closed

\* What a step that leaves the clock and the engine open or closed has to show.
LEMMA SteadySafe ==
  ASSUME UNCHANGED <<clock, phase>>, LedgerOK(ledger', clock, closed)
  PROVE  LedgerOK(ledger', clock', closed')
BY DEF closed

LEMMA InvokeSafe ==
  ASSUME SafetyInv, NEW l \in Links, InvokeStep(l)
  PROVE  LedgerOK(ledger', clock', closed')
<1> DEFINE t == expireLocked(ledger, clock)
           k == KeyOf(l)
           x == reader[l]
<1>1. /\ TypeOK /\ ledger \in Ledger /\ clock \in Nat /\ closed \in BOOLEAN
      /\ LedgerOK(ledger, clock, closed)
  BY SafetyParts
<1>2. t \in Ledger /\ LedgerOK(t, clock, closed)
  BY <1>1, expireLockedType, expireLockedKeeps
<1>3. k \in Keys
  BY <1>1, KeyOfType
<1>4. x \in Reader
  BY <1>1, TypeParts DEF CallTypes
<1>5. x.sig \in Sigs /\ x.sess \in Sessions \cup {NoSession} /\ x.dl \in Nat
  BY <1>4 DEF Reader
<1>6. UNCHANGED <<clock, phase>>
  BY DEF InvokeStep, InvokeLookup, InvokeDenied, InvokeAllowed, Authenticated, AuthenticationDenied,
     scopedDuplicate, Admit, ByReader
<1>7. \/ ledger' \in {ledger, t}
      \/ Admit(l) /\ ledger' \notin {ledger, t}
  BY DEF InvokeStep, InvokeLookup, InvokeDenied, InvokeAllowed, Authenticated, AuthenticationDenied,
     scopedDuplicate
<1>8. ASSUME Admit(l), ledger' \notin {ledger, t} PROVE LedgerOK(ledger', clock, closed)
  <2>1. /\ ~Present(t.rec[k]) /\ ~(closed \/ k[1] \notin trusted \/ AtCapacity(t, k[1]))
        /\ \E n \in (IF BudgetTight THEN 0..Len(t.cached) ELSE {0}) :
             ledger' \in {Install(DropOldest(t, n), k, x.sig, x.sess, x.dl, clock), DropOldest(t, n)}
    BY <1>8, Zenon DEF Admit, t, k, x
  <2> HIDE DEF t, k, x
  <2>2. Len(t.cached) \in Nat /\ t.running \in Int /\ t.pending \in Seq(Keys) /\ Len(t.pending) \in Nat
    BY <1>2, LedgerParts, LenProperties
  <2>3. PICK n \in 0..Len(t.cached) :
          ledger' \in {Install(DropOldest(t, n), k, x.sig, x.sess, x.dl, clock), DropOldest(t, n)}
    BY <2>1, <2>2
  <2> DEFINE u == DropOldest(t, n)
  <2>4. u \in Ledger /\ LedgerOK(u, clock, closed) /\ SameCalls(t, u)
    BY <1>2, DropOldestType, DropOldestKeeps, DropOldestEffect
  <2> HIDE DEF u
  <2>5. ~Present(u.rec[k]) /\ u.running = t.running /\ u.pending = t.pending
    BY <1>3, <2>1, <2>4 DEF SameCalls, SameCall, Present
  <2>6. t.running >= RunningCalls => Len(t.pending) < QueuedCalls
    BY <2>1, <2>2, LimitTypes DEF AtCapacity
  <2>7. closed = FALSE
    BY <2>1, <1>1
  <2>8. LedgerOK(Install(u, k, x.sig, x.sess, x.dl, clock), clock, FALSE)
    BY <1>1, <1>3, <1>5, <2>4, <2>5, <2>6, <2>7, InstallKeeps
  <2> QED
    BY <2>3, <2>4, <2>7, <2>8 DEF u
<1> HIDE DEF t, k, x
<1> QED
  BY <1>1, <1>2, <1>6, <1>7, <1>8, SteadySafe

LEMMA ControlSafe ==
  ASSUME SafetyInv, NEW l \in Links, ControlStep(l)
  PROVE  LedgerOK(ledger', clock', closed')
<1> DEFINE t == expireLocked(ledger, clock)
           k == KeyOf(l)
<1>1. /\ TypeOK /\ ledger \in Ledger /\ clock \in Nat /\ closed \in BOOLEAN
      /\ LedgerOK(ledger, clock, closed)
  BY SafetyParts
<1>2. t \in Ledger /\ LedgerOK(t, clock, closed)
  BY <1>1, expireLockedType, expireLockedKeeps
<1>3. k \in Keys
  BY <1>1, KeyOfType
<1>4. UNCHANGED <<clock, phase>>
  BY DEF ControlStep, ControlDenied, ControlAllowed, ScopedLookup, ScopedCommit, ByReader
<1>5. ASSUME NEW u \in {ledger, t}, Controlled(l, u, k) PROVE LedgerOK(ledger', clock, closed)
  <2>1. ledger' \in {dropResultBody(u, k), RequestCancel(u, {k}), u}
    BY <1>5, Zenon DEF Controlled
  <2> HIDE DEF t, k
  <2>2. u \in Ledger /\ LedgerOK(u, clock, closed)
    BY <1>1, <1>2
  <2> QED
    BY <1>3, <2>1, <2>2, dropResultBodyKeeps, RequestCancelKeeps
<1>6. \/ ledger' \in {ledger, t} \/ Controlled(l, t, k) \/ Controlled(l, ledger, k)
  <2>1. ControlDenied(l) => ledger' = ledger
    BY DEF ControlDenied
  <2>2. ControlAllowed(l) => ledger' = t \/ Controlled(l, t, k)
    BY Zenon DEF ControlAllowed
  <2>3. ScopedLookup(l) => ledger' = t
    BY DEF ScopedLookup
  <2>4. ScopedCommit(l) => ledger' = ledger \/ Controlled(l, ledger, k)
    BY Zenon DEF ScopedCommit
  <2> QED
    BY <2>1, <2>2, <2>3, <2>4 DEF ControlStep
<1> HIDE DEF t, k
<1>7. LedgerOK(ledger', clock, closed)
  BY <1>1, <1>2, <1>5, <1>6
<1> QED
  BY <1>4, <1>7, SteadySafe

LEMMA UpdateSafe ==
  ASSUME SafetyInv, NEW k \in Keys, NEW r \in Record, Update(k, r), CallOK(r),
         r.stage = ledger.rec[k].stage, r.inst = ledger.rec[k].inst,
         r.admittedAt = ledger.rec[k].admittedAt,
         r.prevEnd = ledger.rec[k].prevEnd, r.completedAt = ledger.rec[k].completedAt
  PROVE  LedgerOK(ledger', clock', closed')
<1>1. ledger \in Ledger /\ LedgerOK(ledger, clock, closed)
  BY SafetyParts
<1>2. LedgerOK([ledger EXCEPT !.rec[k] = r], clock, closed)
  BY <1>1, UpdateKeeps
<1>3. ledger' = [ledger EXCEPT !.rec[k] = r] /\ UNCHANGED <<clock, phase>>
  BY DEF Update, ByJob
<1> QED
  BY <1>2, <1>3, SteadySafe

\* A job ends with an outcome that tells whether its handler began.
LEMMA EndJobSafe ==
  ASSUME SafetyInv, NEW k \in Keys, NEW o \in Outcomes, EndJob(k, o),
         ledger.rec[k].task \in {"ready", "decoding", "handler"},
         ledger.rec[k].began <=> o \notin RejectedBeforeExecution \cup {"AccessRevoked"}
  PROVE  LedgerOK(ledger', clock', closed')
<1> DEFINE r == ledger.rec[k]
           e == [r EXCEPT !.task = "select", !.terminal = o]
<1>1. ledger \in Ledger /\ r \in Record /\ CallOK(r)
  BY SafetyParts, LedgerParts DEF LedgerOK, CallsOK
<1>2. Update(k, e)
  BY DEF EndJob
<1> HIDE DEF r
<1>3. e \in Record
  BY <1>1 DEF Record, Tasks
<1>4. /\ e.stage = r.stage /\ e.inst = r.inst /\ e.admittedAt = r.admittedAt /\ e.prevEnd = r.prevEnd
      /\ e.completedAt = r.completedAt /\ e.launcher = r.launcher /\ e.began = r.began
      /\ e.task = "select" /\ e.terminal = o
  BY <1>1, Zenon DEF Record
<1> HIDE DEF e
<1>5. r.stage \in {"Running", "Finalizing"} /\ r.launcher # "due"
  BY <1>1 DEF CallOK, r
<1>6. o # "none"
  BY DEF Outcomes, Bodies, RejectedBeforeExecution, MayHaveExecuted
<1>7. e.began <=> o \notin RejectedBeforeExecution \cup {"AccessRevoked"}
  BY <1>4, Zenon DEF r
<1>8. CallOK(e)
  BY <1>4, <1>5, <1>6, <1>7 DEF CallOK
<1> QED
  BY <1>2, <1>3, <1>4, <1>8, UpdateSafe DEF r

LEMMA JobSafe ==
  ASSUME SafetyInv, NEW k \in Keys, JobStep(k)
  PROVE  LedgerOK(ledger', clock', closed')
<1> DEFINE r == ledger.rec[k]
<1>1. /\ TypeOK /\ ledger \in Ledger /\ clock \in Nat /\ closed \in BOOLEAN
      /\ LedgerOK(ledger, clock, closed)
  BY SafetyParts
<1>2. r \in Record /\ CallOK(r)
  BY <1>1, LedgerParts DEF LedgerOK, CallsOK
<1>3. r.task \in {"ready", "decoding"} => ~r.began
  BY <1>2 DEF CallOK
<1>4. r.task = "handler" => r.began
  BY <1>2 DEF CallOK
<1>5. RejectedBeforeExecution \cup {"AccessRevoked"} \subseteq Outcomes
  BY DEF Outcomes, MayHaveExecuted
<1>6. ASSUME NEW o \in RejectedBeforeExecution \cup {"AccessRevoked"}, EndJob(k, o),
             r.task \in {"ready", "decoding"}
      PROVE  LedgerOK(ledger', clock', closed')
  <2>1. ledger.rec[k].began <=> o \notin RejectedBeforeExecution \cup {"AccessRevoked"}
    BY <1>3, <1>6
  <2> QED
    BY <1>5, <1>6, <2>1, EndJobSafe
<1>7. ASSUME NEW e \in Record, Update(k, e), CallOK(e), e.stage = r.stage, e.inst = r.inst,
             e.admittedAt = r.admittedAt, e.prevEnd = r.prevEnd, e.completedAt = r.completedAt
      PROVE  LedgerOK(ledger', clock', closed')
  BY <1>7, UpdateSafe
<1> HIDE DEF r
<1>8. CASE Launch(k)
  <2> DEFINE e == [r EXCEPT !.launcher = "launched", !.task = "ready"]
  <2>1. r.launcher = "due" /\ Update(k, e)
    BY <1>8 DEF Launch, r
  <2>2. e \in Record
    BY <1>2 DEF Record, Launcher, Tasks
  <2>3. /\ e.stage = r.stage /\ e.inst = r.inst /\ e.admittedAt = r.admittedAt /\ e.prevEnd = r.prevEnd
        /\ e.completedAt = r.completedAt /\ e.launcher = "launched" /\ e.began = r.began
        /\ e.task = "ready" /\ e.terminal = r.terminal
    BY <1>2, Zenon DEF Record
  <2> HIDE DEF e
  <2>4. r.stage = "Running" /\ r.terminal = "none" /\ ~r.began
    BY <1>2, <2>1 DEF CallOK
  <2>5. CallOK(e)
    BY <2>3, <2>4, Zenon DEF CallOK
  <2> QED
    BY <1>7, <2>1, <2>2, <2>3, <2>5
<1>9. ASSUME NEW e \in Record, Update(k, e), r.launcher # "due", e.launcher \in {"published", "checked"},
             e.stage = r.stage, e.inst = r.inst, e.admittedAt = r.admittedAt, e.prevEnd = r.prevEnd,
             e.completedAt = r.completedAt, e.began = r.began, e.task = r.task, e.terminal = r.terminal
      PROVE  LedgerOK(ledger', clock', closed')
  <2>1. CallOK(e)
    BY <1>2, <1>9, Zenon DEF CallOK
  <2> QED
    BY <1>7, <1>9, <2>1
<1>10. CASE PublishJob(k)
  <2> DEFINE e == [r EXCEPT !.launcher = "published"]
  <2>1. r.launcher = "launched" /\ Update(k, e)
    BY <1>10 DEF PublishJob, r
  <2>2. e \in Record
    BY <1>2 DEF Record, Launcher
  <2>3. /\ e.stage = r.stage /\ e.inst = r.inst /\ e.admittedAt = r.admittedAt /\ e.prevEnd = r.prevEnd
        /\ e.completedAt = r.completedAt /\ e.launcher = "published" /\ e.began = r.began
        /\ e.task = r.task /\ e.terminal = r.terminal
    BY <1>2, Zenon DEF Record
  <2> HIDE DEF e
  <2> QED
    BY <1>9, <2>1, <2>2, <2>3
<1>11. CASE CheckCancel(k)
  <2> DEFINE e == [r EXCEPT !.launcher = "checked", !.jobCancelled = r.jobCancelled \/ r.cancelRequested]
  <2>1. r.launcher = "published" /\ Update(k, e)
    BY <1>11 DEF CheckCancel, r
  <2>2. "checked" \in Launcher
    BY DEF Launcher
  <2>3. e \in Record
    BY <1>2, <2>2, Zenon DEF Record
  <2>4. /\ e.stage = r.stage /\ e.inst = r.inst /\ e.admittedAt = r.admittedAt /\ e.prevEnd = r.prevEnd
        /\ e.completedAt = r.completedAt /\ e.launcher = "checked" /\ e.began = r.began
        /\ e.task = r.task /\ e.terminal = r.terminal
    BY <1>2, Zenon DEF Record
  <2> HIDE DEF e
  <2> QED
    BY <1>9, <2>1, <2>3, <2>4
<1>12. CASE JobStart(k)
  <2> DEFINE e == [r EXCEPT !.task = "decoding"]
  <2>1. r.task = "ready" /\ (\/ EndJob(k, "CancelledBeforeStart") \/ EndJob(k, "DeadlineBeforeStart")
                             \/ Update(k, e))
    BY <1>12, Zenon DEF JobStart, r
  <2>2. CASE Update(k, e)
    <3>1. e \in Record
      BY <1>2 DEF Record, Tasks
    <3>2. /\ e.stage = r.stage /\ e.inst = r.inst /\ e.admittedAt = r.admittedAt /\ e.prevEnd = r.prevEnd
          /\ e.completedAt = r.completedAt /\ e.launcher = r.launcher /\ e.began = r.began
          /\ e.task = "decoding" /\ e.terminal = r.terminal
      BY <1>2, Zenon DEF Record
    <3> HIDE DEF e
    <3>3. CallOK(e)
      <4>1. r.stage \in {"Running", "Finalizing"} /\ r.launcher # "due" /\ r.terminal = "none" /\ ~r.began
        BY <1>2, <2>1 DEF CallOK
      <4> QED
        BY <3>2, <4>1, Zenon DEF CallOK
    <3> QED
      BY <1>7, <2>2, <3>1, <3>2, <3>3
  <2> HIDE DEF e
  <2> QED
    BY <1>6, <2>1, <2>2 DEF RejectedBeforeExecution
<1>13. CASE JobBegin(k)
  <2> DEFINE e == [r EXCEPT !.task = "handler", !.began = TRUE]
  <2>1. r.task = "decoding" /\ Update(k, e)
    BY <1>13 DEF JobBegin, r
  <2>2. "handler" \in Tasks
    BY DEF Tasks
  <2>3. e \in Record
    BY <1>2, <2>2, Zenon DEF Record
  <2>4. /\ e.stage = r.stage /\ e.inst = r.inst /\ e.admittedAt = r.admittedAt /\ e.prevEnd = r.prevEnd
        /\ e.completedAt = r.completedAt /\ e.launcher = r.launcher /\ e.began
        /\ e.task = "handler" /\ e.terminal = r.terminal
    BY <1>2, Zenon DEF Record
  <2> HIDE DEF e
  <2>5. CallOK(e)
    <3>1. r.stage \in {"Running", "Finalizing"} /\ r.launcher # "due" /\ r.terminal = "none"
      BY <1>2, <2>1 DEF CallOK
    <3> QED
      BY <2>4, <3>1 DEF CallOK
  <2> QED
    BY <1>7, <2>1, <2>3, <2>4, <2>5
<1>14. CASE JobFails(k)
  <2>1. r.task = "decoding" /\ \E o \in RejectedBeforeExecution \cup {"AccessRevoked"} : EndJob(k, o)
    BY <1>14 DEF JobFails, RejectedBeforeExecution, r
  <2> QED
    BY <1>6, <2>1
<1>15. CASE HandlerEnds(k)
  <2>1. PICK o \in Endings : EndJob(k, o)
    BY <1>15 DEF HandlerEnds
  <2>2. r.task = "handler"
    BY <1>15 DEF HandlerEnds, r
  <2>3. o \in Outcomes /\ o \notin RejectedBeforeExecution \cup {"AccessRevoked"}
    BY ConstantsAssumption DEF HandlerOutcomes, Outcomes, MayHaveExecuted, RejectedBeforeExecution, Bodies
  <2>4. ledger.rec[k].began <=> o \notin RejectedBeforeExecution \cup {"AccessRevoked"}
    BY <1>4, <2>2, <2>3 DEF r
  <2> QED
    BY <2>1, <2>2, <2>3, <2>4, EndJobSafe DEF r
<1>16. CASE FinishSelect(k)
  <2> DEFINE c == IF links[k[1]] \in ready \cap TrustedLinks THEN links[k[1]] ELSE NoLink
             e == [r EXCEPT !.task = "commit", !.candidate = c]
  <2>1. c \in Links \cup {NoLink}
    BY <1>1, TypeParts DEF LinkTypes
  <2>2. r.task = "select" /\ Update(k, e)
    BY <1>16 DEF FinishSelect, r
  <2> HIDE DEF c
  <2>3. e \in Record
    BY <1>2, <2>1 DEF Record, Tasks
  <2>4. /\ e.stage = r.stage /\ e.inst = r.inst /\ e.admittedAt = r.admittedAt /\ e.prevEnd = r.prevEnd
        /\ e.completedAt = r.completedAt /\ e.launcher = r.launcher /\ e.began = r.began
        /\ e.task = "commit" /\ e.terminal = r.terminal
    BY <1>2, Zenon DEF Record
  <2> HIDE DEF e
  <2>5. CallOK(e)
    <3>1. /\ r.stage \in {"Running", "Finalizing"} /\ r.launcher # "due" /\ r.terminal # "none"
          /\ r.began <=> r.terminal \notin RejectedBeforeExecution \cup {"AccessRevoked"}
      BY <1>2, <2>2 DEF CallOK
    <3>2. e.began <=> e.terminal \notin RejectedBeforeExecution \cup {"AccessRevoked"}
      BY <2>4, <3>1, Zenon
    <3> QED
      BY <2>4, <3>1, <3>2 DEF CallOK
  <2> QED
    BY <1>7, <2>2, <2>3, <2>4, <2>5
<1>17. CASE FinishCommit(k)
  <2>1. /\ ledger.rec[k].task = "commit" /\ UNCHANGED <<clock, phase>>
        /\ ledger' = Completed(ledger, k, clock, closed)
    BY <1>17 DEF FinishCommit, ByJob
  <2>2. LedgerOK(Completed(ledger, k, clock, closed), clock, closed)
    BY <1>1, <2>1, CompletedKeeps
  <2> QED
    BY <2>1, <2>2, SteadySafe
<1> QED
  BY <1>8, <1>10, <1>11, <1>12, <1>13, <1>14, <1>15, <1>16, <1>17 DEF JobStep

LEMMA CancelSafe ==
  ASSUME SafetyInv, NEW c \in cancels, CancelStep(c)
  PROVE  LedgerOK(ledger', clock', closed')
<1>1. /\ TypeOK /\ ledger \in Ledger /\ clock \in Nat /\ closed \in BOOLEAN
      /\ LedgerOK(ledger, clock, closed)
  BY SafetyParts
<1>2. c.k \in Keys /\ ledger.rec[c.k] \in Record
  BY <1>1, TypeParts, LedgerParts DEF CallTypes, Cancellation
<1>3. UNCHANGED <<clock, phase>>
  BY DEF CancelStep, completeQueued, AwaitFinish, CancelJob, CancelAbandoned, ByJob
<1> SUFFICES LedgerOK(ledger', clock, closed)
  BY <1>3, SteadySafe
<1>4. CASE completeQueued(c)
  <2> DEFINE why == IF c.by = "sweep" THEN "DeadlineBeforeStart" ELSE "CancelledBeforeStart"
  <2>1. \/ ledger' = ledger
        \/ ledger.rec[c.k].stage = "Queued" /\ ledger' = Claimed(ledger, c.k, why)
    BY <1>4 DEF completeQueued
  <2>2. why \in RejectedBeforeExecution
    BY DEF RejectedBeforeExecution
  <2> HIDE DEF why
  <2> QED
    BY <1>1, <1>2, <2>1, <2>2, ClaimedKeeps
<1>5. CASE AwaitFinish(c) \/ CancelAbandoned(c)
  BY <1>1, <1>5 DEF AwaitFinish, CancelAbandoned
<1>6. CASE CancelJob(c)
  <2> DEFINE r == ledger.rec[c.k]
             e == [r EXCEPT !.jobCancelled = TRUE]
             u == [ledger EXCEPT !.rec[c.k] = e]
  <2>1. ledger' = ledger \/ ledger' = u
    BY <1>6 DEF CancelJob
  <2>2. e \in Record
    BY <1>2, Zenon DEF Record
  <2>3. SameCall(r, e)
    BY <1>2, SameCallUpdates
  <2>4. CallOK(r)
    BY <1>1, <1>2 DEF LedgerOK, CallsOK
  <2> HIDE DEF e
  <2>5. CallOK(e)
    BY <2>3, <2>4, SameCallOK
  <2>6. LedgerOK(u, clock, closed)
    BY <1>1, <1>2, <2>2, <2>3, <2>5, UpdateKeeps DEF SameCall
  <2> QED
    BY <1>1, <2>1, <2>6
<1> QED
  BY <1>4, <1>5, <1>6 DEF CancelStep

\* Cancelling several calls at once, also when that closes the engine.
LEMMA CancelAllSafe ==
  ASSUME SafetyInv, NEW ks, NEW by, NEW plan, CancelAll(ks, by, plan), closed' \in {closed, TRUE}
  PROVE  LedgerOK(ledger', clock', closed')
<1>1. ledger \in Ledger /\ LedgerOK(ledger, clock, closed)
  BY SafetyParts
<1>2. ledger' = RequestCancel(ledger, ks) /\ clock' = clock
  BY DEF CancelAll
<1>3. LedgerOK(ledger', clock', closed)
  BY <1>1, <1>2, RequestCancelKeeps
<1>4. LedgerOK(ledger', clock', TRUE)
  BY <1>3, ClosedKeeps
<1> QED
  BY <1>3, <1>4

LEMMA HostSafe ==
  ASSUME SafetyInv, HostStep
  PROVE  LedgerOK(ledger', clock', closed')
<1>1. /\ TypeOK /\ ledger \in Ledger /\ clock \in Nat /\ closed \in BOOLEAN
      /\ LedgerOK(ledger, clock, closed)
  BY SafetyParts
<1>2. CASE AttachCloseOld \/ RevokeClose
  <2>1. UNCHANGED <<clock, phase, ledger>>
    BY <1>2 DEF AttachCloseOld, RevokeClose, ByLink, callVars
  <2> QED
    BY <1>1, <2>1, SteadySafe
<1>3. CASE RevokeMark
  <2>1. closed' = closed
    BY <1>3 DEF RevokeMark, closed
  <2> QED
    BY <1>3, <2>1, CancelAllSafe DEF RevokeMark
<1>4. CASE CloseBegin
  <2>1. closed' = TRUE
    BY <1>4 DEF CloseBegin, closed
  <2> QED
    BY <1>4, <2>1, CancelAllSafe DEF CloseBegin
<1>5. CASE CloseLinks
  <2>1. UNCHANGED <<clock, ledger>> /\ closed = TRUE /\ closed' = TRUE
    BY <1>5 DEF CloseLinks, callVars, closed
  <2> QED
    BY <1>1, <2>1
<1>6. CASE CloseEnd
  <2>1. UNCHANGED clock /\ closed = TRUE /\ closed' = TRUE
    BY <1>6 DEF CloseEnd, closed
  <2>2. ledger' = [Retire(ledger, Range(ledger.completed)) EXCEPT !.completed = <<>>, !.cached = <<>>]
    BY <1>6 DEF CloseEnd
  <2>3. LedgerOK([Retire(ledger, Range(ledger.completed)) EXCEPT !.completed = <<>>, !.cached = <<>>], clock, TRUE)
    BY <1>1, <2>1, CloseKeeps
  <2> QED
    BY <2>1, <2>2, <2>3, Zenon
<1>7. CASE sweep
  <2>1. ledger' = expireLocked(ledger, clock) /\ UNCHANGED <<clock, phase>>
    BY <1>7 DEF sweep, ByJob
  <2> QED
    BY <1>1, <2>1, expireLockedKeeps, SteadySafe
<1>8. CASE Tick
  <2>1. ledger' = ledger /\ clock' = clock + 1 /\ closed' = closed
    BY <1>8 DEF Tick, callVars, closed
  <2> QED
    BY <1>1, <2>1, LaterKeeps
<1> QED
  BY <1>2, <1>3, <1>4, <1>5, <1>6, <1>7, <1>8 DEF HostStep

\* Steps that do not touch the records, the clock or the phase.
LEMMA OtherSafe ==
  ASSUME SafetyInv, UNCHANGED <<clock, phase, ledger>>
  PROVE  LedgerOK(ledger', clock', closed')
BY SafetyParts, SteadySafe

LEMMA SafetyInit == Init => SafetyInv
<1> SUFFICES ASSUME Init PROVE SafetyInv
  OBVIOUS
<1>1. TypeOK
  BY InitType
<1>2. /\ \A k \in Keys : ledger.rec[k] = Absent(0, 0)
      /\ ledger.pending = <<>> /\ ledger.completed = <<>> /\ ledger.cached = <<>> /\ ledger.running = 0
  BY DEF Init
<1>3. \A k \in Keys : CallOK(ledger.rec[k]) /\ ledger.rec[k].inst = 0
  BY <1>2, AbsentOK
<1>4. FenceOf(ledger, clock, closed)
  BY <1>3 DEF FenceOf
<1>5. CallsOK(ledger)
  BY <1>3 DEF CallsOK
<1>6. QueuesOf(ledger)
  BY <1>2 DEF QueuesOf, QueueOf
<1>7. WorkOf(ledger, closed)
  BY <1>2, LimitTypes DEF WorkOf
<1> QED
  BY <1>1, <1>4, <1>5, <1>6, <1>7 DEF SafetyInv, LedgerOK

LEMMA SafetyNext == SafetyInv /\ [Next]_vars => SafetyInv'
<1> SUFFICES ASSUME SafetyInv, [Next]_vars PROVE SafetyInv'
  OBVIOUS
<1>1. TypeOK'
  BY NextType DEF SafetyInv
<1> SUFFICES LedgerOK(ledger', clock', closed')
  BY <1>1 DEF SafetyInv
<1>2. CASE UNCHANGED vars
  BY <1>2, OtherSafe DEF vars, callVars
<1>3. ASSUME NEW l \in Links, LinkStep(l) PROVE LedgerOK(ledger', clock', closed')
  BY <1>3, OtherSafe DEF LinkStep, attach, AttachFails, LinkLost, detach, ByLink, callVars
<1>4. ASSUME NEW l \in Links, ReaderStep(l) PROVE LedgerOK(ledger', clock', closed')
  <2>1. CASE Hello(l) \/ onMessage(l) \/ Send(l) \/ ReaderCancelled(l)
    BY <2>1, OtherSafe DEF Hello, onMessage, Send, ReaderCancelled, ByReader
  <2> QED
    BY <1>4, <2>1, InvokeSafe, ControlSafe DEF ReaderStep
<1>5. ASSUME NEW d \in deliver, Deliver(d) PROVE LedgerOK(ledger', clock', closed')
  BY <1>5, OtherSafe DEF Deliver
<1>6. ASSUME NEW p \in Peers, TrustChange(p) PROVE LedgerOK(ledger', clock', closed')
  BY <1>6, OtherSafe DEF TrustChange, callVars
<1>7. ASSUME NEW s \in Sessions, SessionStep(s) PROVE LedgerOK(ledger', clock', closed')
  <2>1. CASE SessionEnds(s) \/ SessionRevoked(s)
    BY <2>1, OtherSafe DEF SessionEnds, SessionRevoked, callVars
  <2>2. CASE SessionMark(s)
    <3>1. closed' = closed
      BY <2>2 DEF SessionMark, closed
    <3> QED
      BY <2>2, <3>1, CancelAllSafe DEF SessionMark
  <2> QED
    BY <1>7, <2>1, <2>2 DEF SessionStep
<1> QED
  BY <1>2, <1>3, <1>4, <1>5, <1>6, <1>7, JobSafe, CancelSafe, HostSafe DEF Next

\* The inductive invariant: what the records, the queues, the slots and the
\* history of every key have to do with each other at every step.
THEOREM SafetyInvariant == Spec => []SafetyInv
BY SafetyInit, SafetyNext, PTL DEF Spec

\* A request id is executed again only after the retention of its previous
\* record, whatever Receipt, eviction, cancellation and reconnection did.
THEOREM TombstoneFenceHolds == Spec => []TombstoneFence
<1>1. SafetyInv => TombstoneFence
  BY DEF SafetyInv, LedgerOK, FenceOf, TombstoneFence
<1> QED
  BY <1>1, SafetyInvariant, PTL

\* The evidence a finished call carries says truly whether its handler began.
THEOREM EvidenceTruthfulHolds == Spec => []EvidenceTruthful
<1>1. SafetyInv => EvidenceTruthful
  BY DEF SafetyInv, LedgerOK, CallsOK, CallOK, EvidenceTruthful
<1> QED
  BY <1>1, SafetyInvariant, PTL

\* The limits hold, and no call waits in the queue of an open engine while a
\* running slot is free.
THEOREM WorkConservingHolds == Spec => []WorkConserving
<1>1. SafetyInv => WorkConserving
  BY DEF SafetyInv, LedgerOK, WorkOf, WorkConserving
<1> QED
  BY <1>1, SafetyInvariant, PTL
-----------------------------------------------------------------------------
(* Which link is answered on.                                              *)

LEMMA DetachedCurrent ==
  ASSUME TypeOK, ReadyIsCurrent, NEW l \in Links, Detached(l)
  PROVE  ReadyIsCurrent'
<1>1. links \in [Peers -> Links \cup {NoLink}] /\ ready \subseteq Links /\ LinkPeer \in [Links -> Peers]
  BY ConstantsAssumption, TypeParts DEF LinkTypes
<1> QED
  BY <1>1 DEF Detached, ReadyIsCurrent

LEMMA AttachCurrent ==
  ASSUME TypeOK, ReadyIsCurrent, NEW l \in Links, attach(l)
  PROVE  ReadyIsCurrent'
<1>1. links \in [Peers -> Links \cup {NoLink}] /\ ready \subseteq Links /\ LinkPeer \in [Links -> Peers]
  BY ConstantsAssumption, TypeParts DEF LinkTypes
<1>2. CASE UNCHANGED <<links, ready>>
  BY <1>2 DEF ReadyIsCurrent
<1>3. CASE /\ links' = [links EXCEPT ![LinkPeer[l]] = l]
           /\ ready' = ready \ {links[LinkPeer[l]]}
  BY <1>1, <1>3 DEF ReadyIsCurrent
<1> QED
  BY <1>2, <1>3 DEF attach

LEMMA ReadyNext == TypeOK /\ ReadyIsCurrent /\ [Next]_vars => ReadyIsCurrent'
<1> SUFFICES ASSUME TypeOK, ReadyIsCurrent, [Next]_vars PROVE ReadyIsCurrent'
  OBVIOUS
<1>1. UNCHANGED <<links, ready>> => ReadyIsCurrent'
  BY DEF ReadyIsCurrent
<1>2. UNCHANGED linkVars => UNCHANGED <<links, ready>>
  BY DEF linkVars
<1>3. \A l \in Links : CloseLink(l) => UNCHANGED <<links, ready>>
  BY DEF CloseLink
<1>4. \A l \in Links : protocolFailure(l) => UNCHANGED <<links, ready>>
  BY <1>3 DEF protocolFailure
<1>5. \A o : \A l \in Links : refuse(l, o) => UNCHANGED <<links, ready>>
  BY <1>2 DEF refuse
<1>6. CASE UNCHANGED vars
  BY <1>1, <1>2, <1>6 DEF vars
<1>7. ASSUME NEW l \in Links, LinkStep(l) PROVE ReadyIsCurrent'
  <2>1. CASE LinkLost(l)
    BY <1>1, <1>3, <2>1 DEF LinkLost
  <2>2. CASE AttachFails(l) \/ detach(l)
    BY <2>2, DetachedCurrent DEF AttachFails, detach
  <2> QED
    BY <1>7, <2>1, <2>2, AttachCurrent DEF LinkStep
<1>8. ASSUME NEW l \in Links, ReaderStep(l) PROVE ReadyIsCurrent'
  <2>1. CASE Hello(l)
    <3>1. CASE permitted(l) /\ ready' = ready \cup {l} /\ links' = links
      BY <3>1 DEF permitted, ReadyIsCurrent
    <3> QED
      BY <1>1, <1>4, <2>1, <3>1 DEF Hello
  <2>2. CASE onMessage(l)
    <3>1. \E m, stale : Gate(l, m, stale)
      BY <2>2 DEF onMessage
    <3>2. UNCHANGED <<links, ready>>
      BY <1>2, <1>4, <3>1 DEF Gate, Begin
    <3> QED
      BY <1>1, <3>2
  <2>3. CASE Send(l) \/ ReaderCancelled(l)
    BY <1>1, <1>2, <1>3, <2>3 DEF Send, ReaderCancelled, Offer
  <2>4. CASE InvokeStep(l)
    <3>1. protocolFailure(l) \/ UNCHANGED linkVars
      <4>1. \A o : refuse(l, o) => UNCHANGED linkVars
        BY DEF refuse
      <4>2. InvokeLookup(l) => protocolFailure(l) \/ UNCHANGED linkVars
        BY <4>1, Zenon DEF InvokeLookup
      <4>3. InvokeDenied(l) => UNCHANGED linkVars
        BY <4>1, Zenon DEF InvokeDenied
      <4>4. InvokeAllowed(l) => protocolFailure(l) \/ UNCHANGED linkVars
        BY <4>1, Zenon DEF InvokeAllowed
      <4>5. Authenticated(l) => UNCHANGED linkVars
        BY DEF Authenticated, linkVars
      <4>6. AuthenticationDenied(l) => protocolFailure(l) \/ UNCHANGED linkVars
        BY <4>1, Zenon DEF AuthenticationDenied
      <4>7. scopedDuplicate(l) => UNCHANGED linkVars
        BY <4>1, Zenon DEF scopedDuplicate
      <4>8. Admit(l) => protocolFailure(l) \/ UNCHANGED linkVars
        BY <4>1, Zenon DEF Admit
      <4> QED
        BY <2>4, <4>2, <4>3, <4>4, <4>5, <4>6, <4>7, <4>8 DEF InvokeStep
    <3> QED
      BY <1>1, <1>2, <1>4, <3>1
  <2>5. CASE ControlStep(l)
    <3>1. ControlDenied(l) => UNCHANGED <<links, ready>>
      BY <1>5 DEF ControlDenied
    <3>2. ControlAllowed(l) => UNCHANGED <<links, ready>>
      BY <1>2, <1>4 DEF ControlAllowed
    <3>3. ScopedLookup(l) => UNCHANGED <<links, ready>>
      <4>1. ScopedLookup(l) => protocolFailure(l) \/ UNCHANGED linkVars
        BY Zenon DEF ScopedLookup
      <4> QED
        BY <1>2, <1>4, <4>1
    <3>4. ScopedCommit(l) => UNCHANGED <<links, ready>>
      BY <1>2 DEF ScopedCommit
    <3> QED
      BY <1>1, <2>5, <3>1, <3>2, <3>3, <3>4 DEF ControlStep
  <2> QED
    BY <1>8, <2>1, <2>2, <2>3, <2>4, <2>5 DEF ReaderStep
<1>9. ASSUME NEW k \in Keys, JobStep(k) PROVE ReadyIsCurrent'
  <2>1. ByJob
    BY <1>9 DEF JobStep, Launch, PublishJob, CheckCancel, JobStart, JobBegin, JobFails, HandlerEnds,
       FinishSelect, FinishCommit, EndJob, Update
  <2> QED
    BY <1>1, <1>2, <2>1 DEF ByJob
<1>10. ASSUME NEW d \in deliver, Deliver(d) PROVE ReadyIsCurrent'
  <2>1. UNCHANGED linkVars \/ CloseLink(d.link)
    BY <1>10 DEF Deliver, Offer
  <2> QED
    BY <1>1, <1>2, <2>1 DEF CloseLink
<1>11. ASSUME NEW c \in cancels, CancelStep(c) PROVE ReadyIsCurrent'
  BY <1>1, <1>2, <1>11 DEF CancelStep, completeQueued, AwaitFinish, CancelJob, CancelAbandoned, ByJob
<1>12. ASSUME NEW p \in Peers, TrustChange(p) PROVE ReadyIsCurrent'
  BY <1>1, <1>2, <1>12 DEF TrustChange
<1>13. ASSUME NEW s \in Sessions, SessionStep(s) PROVE ReadyIsCurrent'
  BY <1>1, <1>2, <1>13 DEF SessionStep, SessionEnds, SessionMark, SessionRevoked, CancelAll
<1>14. CASE HostStep
  <2>1. CASE CloseEnd
    BY <2>1 DEF CloseEnd, ReadyIsCurrent
  <2>2. CASE RevokeClose
    <3>1. UNCHANGED linkVars \/ CloseLink(links[revoke.peer])
      BY <2>2 DEF RevokeClose
    <3> QED
      BY <1>1, <1>2, <3>1 DEF CloseLink
  <2>3. CASE AttachCloseOld \/ CloseLinks \/ Tick
    BY <1>1, <1>2, <2>3 DEF AttachCloseOld, CloseLinks, Tick
  <2>4. CASE RevokeMark \/ CloseBegin
    BY <1>1, <1>2, <2>4 DEF RevokeMark, CloseBegin, CancelAll
  <2>5. CASE sweep
    BY <1>1, <1>2, <2>5 DEF sweep, ByJob
  <2> QED
    BY <1>14, <2>1, <2>2, <2>3, <2>4, <2>5 DEF HostStep
<1> QED
  BY <1>6, <1>7, <1>8, <1>9, <1>10, <1>11, <1>12, <1>13, <1>14 DEF Next

\* Calls are taken and answered only on the current link of their peer: a
\* late HELLO, a replacement and a detach never leave a stale ready link.
THEOREM ReadyIsCurrentHolds == Spec => []ReadyIsCurrent
<1>1. Init => ReadyIsCurrent
  BY DEF Init, ReadyIsCurrent
<1> QED
  BY <1>1, TypeCorrect, ReadyNext, PTL DEF Spec
-----------------------------------------------------------------------------
(* The books: what the counters, the queue and the two eviction orders say *)
(* about the records.                                                      *)

Once(s) == \A i, j \in 1..Len(s) : s[i] = s[j] => i = j

\* s lists the members of S, each once; n counts them.
Lists(s, S) ==
  (\A k \in S : \E i \in 1..Len(s) : s[i] = k) /\ (\A i \in 1..Len(s) : s[i] \in S) /\ Once(s)
Counts(n, S) == IsFiniteSet(S) /\ n = Cardinality(S)

StageSet(t, st) == {k \in Keys : t.rec[k].stage \in st}
BodySet(t) == {k \in Keys : t.rec[k].stage = "Complete" /\ t.rec[k].result \in Bodies}

\* The entries of s completed in the order in which s lists them.
InOrder(t, s) ==
  \A i, j \in 1..Len(s) : i <= j => t.rec[s[i]].completedAt <= t.rec[s[j]].completedAt

PeerBooks(t, p) ==
  /\ Counts(t.recordsPerPeer[p], OfPeer(p, Records(t)))
  /\ Counts(t.activePerPeer[p], OfPeer(p, StageSet(t, Active)))

ListBooks(t) ==
  /\ Lists(t.pending, StageSet(t, {"Queued"})) /\ Lists(t.completed, StageSet(t, {"Complete"}))
  /\ Lists(t.cached, BodySet(t))

OrderBooks(t, now) ==
  /\ InOrder(t, t.completed) /\ InOrder(t, t.cached)
  /\ \A k \in Keys : t.rec[k].stage = "Complete" => t.rec[k].completedAt <= now

Books(t, now) ==
  /\ Counts(t.running, StageSet(t, {"Running"})) /\ ListBooks(t)
  /\ (\A p \in Peers : PeerBooks(t, p)) /\ OrderBooks(t, now)

BooksInv == SafetyInv /\ Books(ledger, clock)

LEMMA CountsAdd ==
  ASSUME NEW n \in Int, NEW S, NEW k, Counts(n, S), k \notin S
  PROVE  Counts(n + 1, S \cup {k})
BY FS_AddElement DEF Counts

LEMMA CountsDrop ==
  ASSUME NEW n \in Int, NEW S, NEW k, Counts(n, S), k \in S
  PROVE  Counts(n - 1, S \ {k})
BY FS_RemoveElement DEF Counts

LEMMA CountsLess ==
  ASSUME NEW n \in Int, NEW S, NEW G, Counts(n, S), G \subseteq S
  PROVE  Counts(n - Cardinality(G), S \ G)
<1>1. IsFiniteSet(S) /\ IsFiniteSet(G)
  BY FS_Subset DEF Counts
<1>2. S \cap G = G
  OBVIOUS
<1>3. IsFiniteSet(S \ G) /\ Cardinality(S \ G) = Cardinality(S) - Cardinality(G)
  BY <1>1, <1>2, FS_Difference
<1> QED
  BY <1>3 DEF Counts

LEMMA ListsAdd ==
  ASSUME NEW s \in Seq(Keys), NEW S, NEW k \in Keys, Lists(s, S), k \notin S
  PROVE  Lists(Append(s, k), S \cup {k})
<1> DEFINE q == Append(s, k)
<1>1. Len(s) \in Nat /\ Len(q) = Len(s) + 1 /\ q[Len(s) + 1] = k /\ \A i \in 1..Len(s) : q[i] = s[i]
  BY LenProperties
<1> HIDE DEF q
<1>2. \A i \in 1..Len(q) : i \in 1..Len(s) \/ i = Len(s) + 1
  BY <1>1
<1>3. \A i \in 1..Len(s) : i \in 1..Len(q) /\ s[i] # k
  BY <1>1 DEF Lists
<1>4. Len(s) + 1 \in 1..Len(q)
  BY <1>1
<1>5. \A j : j \in S \cup {k} <=> \E i \in 1..Len(q) : q[i] = j
  BY <1>1, <1>2, <1>3, <1>4 DEF Lists
<1>6. Once(q)
  BY <1>1, <1>2, <1>3 DEF Lists, Once
<1> QED
  BY <1>5, <1>6 DEF Lists, q

LEMMA ListsFrom ==
  ASSUME NEW s \in Seq(Keys), NEW S, NEW n \in 0..Len(s), Lists(s, S)
  PROVE  Lists(From(s, n), S \ First(s, n))
<1> DEFINE c == From(s, n)
<1>1. /\ Len(s) \in Nat /\ n \in Nat /\ Len(c) = Len(s) - n
      /\ \A i \in 1..Len(c) : c[i] = s[i + n] /\ i + n \in 1..Len(s)
  BY LenProperties DEF From
<1> HIDE DEF c
<1>2. \A i \in 1..Len(s) : i \in 1..n \/ (i - n \in 1..Len(c) /\ c[i - n] = s[i])
  <2> SUFFICES ASSUME NEW i \in 1..Len(s), i > n PROVE i - n \in 1..Len(c) /\ c[i - n] = s[i]
    BY <1>1
  <2>1. i - n \in 1..Len(c) /\ (i - n) + n = i
    BY <1>1
  <2> QED
    BY <1>1, <2>1
<1>3. \A i \in 1..Len(c) : s[i + n] \notin First(s, n)
  <2> SUFFICES ASSUME NEW i \in 1..Len(c), NEW j \in 1..n, s[i + n] = s[j] PROVE FALSE
    BY DEF First
  <2>1. j \in 1..Len(s) /\ i + n \in 1..Len(s)
    BY <1>1
  <2>2. i + n = j
    BY <2>1 DEF Lists, Once
  <2> QED
    BY <1>1, <2>2
<1>4. ASSUME NEW k \in S \ First(s, n) PROVE \E i \in 1..Len(c) : c[i] = k
  <2>1. PICK i \in 1..Len(s) : s[i] = k
    BY DEF Lists
  <2>2. i \notin 1..n
    BY <2>1 DEF First
  <2> QED
    BY <1>2, <2>1, <2>2
<1>5. ASSUME NEW i \in 1..Len(c) PROVE c[i] \in S \ First(s, n)
  BY <1>1, <1>3 DEF Lists
<1>6. Once(c)
  <2> SUFFICES ASSUME NEW i \in 1..Len(c), NEW j \in 1..Len(c), c[i] = c[j] PROVE i = j
    BY DEF Once
  <2>1. i + n = j + n
    BY <1>1 DEF Lists, Once
  <2> QED
    BY <1>1, <2>1
<1> QED
  BY <1>4, <1>5, <1>6 DEF Lists, c

LEMMA ListsTail ==
  ASSUME NEW s \in Seq(Keys), NEW S, Lists(s, S), s # <<>>
  PROVE  Head(s) \in S /\ Lists(Tail(s), S \ {Head(s)})
<1>1. Len(s) \in Nat \ {0} /\ Head(s) = s[1]
  BY LenProperties, EmptySeq
<1>2. 1 \in 0..Len(s) /\ 1 \in 1..Len(s)
  BY <1>1
<1>3. First(s, 1) = {Head(s)}
  BY <1>1 DEF First
<1>4. From(s, 1) = Tail(s)
  BY <1>1 DEF From
<1>5. Lists(From(s, 1), S \ First(s, 1))
  BY <1>2, ListsFrom
<1>6. Head(s) \in S
  BY <1>1, <1>2 DEF Lists
<1> QED
  BY <1>3, <1>4, <1>5, <1>6

LEMMA ListsCount ==
  ASSUME NEW s \in Seq(Keys), NEW S, Lists(s, S)
  PROVE  Range(s) = S /\ IsFiniteSet(S) /\ Len(s) = Cardinality(S)
<1>1. Len(s) \in Nat /\ DOMAIN s = 1..Len(s)
  BY LenProperties
<1>2. Range(s) = S
  BY <1>1 DEF Lists, Range
<1>3. IsFiniteSet(1..Len(s)) /\ Cardinality(1..Len(s)) = Len(s)
  <2>1. 1 \in Int /\ Len(s) \in Int
    BY <1>1
  <2> QED
    BY <1>1, <2>1, FS_Interval
<1> DEFINE f == [i \in 1..Len(s) |-> s[i]]
<1>4. f \in Bijection(1..Len(s), S)
  <2>1. f \in [1..Len(s) -> S]
    BY DEF Lists
  <2>2. \A i, j \in 1..Len(s) : f[i] = f[j] => i = j
    BY DEF Lists, Once
  <2>3. \A k \in S : \E i \in 1..Len(s) : f[i] = k
    BY DEF Lists
  <2> QED
    BY <2>1, <2>2, <2>3 DEF Bijection, Injection, Surjection, IsInjective
<1>5. IsFiniteSet(S) /\ Cardinality(S) = Cardinality(1..Len(s))
  <2>1. ExistsBijection(1..Len(s), S)
    BY <1>4 DEF ExistsBijection
  <2> QED
    BY <1>3, <2>1, FS_Bijection
<1> QED
  BY <1>2, <1>3, <1>5

\* Any two entries of w are entries of s in the same order.
Within(w, s) ==
  \A i, j \in 1..Len(w) : i <= j => \E m, n \in 1..Len(s) : m <= n /\ w[i] = s[m] /\ w[j] = s[n]

\* remove(k) of a list leaves the others in their order.
LEMMA ListsWithout ==
  ASSUME NEW s \in Seq(Keys), NEW S, NEW e, Lists(s, S)
  PROVE  Lists(Without(s, e), S \ {e}) /\ Within(Without(s, e), s)
<1> DEFINE w == Without(s, e)
           p == CHOOSE n \in 1..Len(s) : s[n] = e
<1>0. Len(s) \in Nat
  BY LenProperties
<1>1. CASE ~\E n \in 1..Len(s) : s[n] = e
  <2>1. w = s
    BY <1>1 DEF Without
  <2>2. S \ {e} = S
    BY <1>1 DEF Lists
  <2>3. Within(s, s)
    BY <1>0 DEF Within
  <2> QED
    BY <2>1, <2>2, <2>3
<1>2. CASE \E n \in 1..Len(s) : s[n] = e
  <2>1. p \in 1..Len(s) /\ s[p] = e
    BY <1>2
  <2>2. w = SubSeq(s, 1, p - 1) \o SubSeq(s, p + 1, Len(s))
    BY <1>2 DEF Without, RemoveAt
  <2> HIDE DEF p, w
  <2> DEFINE a == SubSeq(s, 1, p - 1)
             b == SubSeq(s, p + 1, Len(s))
  <2>a. a \in Seq(Keys) /\ Len(a) = p - 1 /\ \A i \in 1..(p - 1) : a[i] = s[i]
    BY <1>0, <2>1
  <2>b. b \in Seq(Keys) /\ Len(b) = Len(s) - p /\ \A i \in 1..(Len(s) - p) : b[i] = s[p + i]
    BY <1>0, <2>1
  <2> HIDE DEF a, b
  <2>c. /\ Len(a \o b) = Len(a) + Len(b)
        /\ \A i \in 1..(Len(a) + Len(b)) : (a \o b)[i] = IF i <= Len(a) THEN a[i] ELSE b[i - Len(a)]
    BY <2>a, <2>b, ConcatProperties
  <2>d. w = a \o b
    BY <2>2 DEF a, b
  <2>3. Len(w) = Len(s) - 1
    <3>1. Len(w) = (p - 1) + (Len(s) - p)
      BY <2>a, <2>b, <2>c, <2>d
    <3> QED
      BY <1>0, <2>1, <3>1
  <2>4. \A i \in 1..Len(w) : w[i] = IF i < p THEN s[i] ELSE s[i + 1]
    <3> SUFFICES ASSUME NEW i \in 1..(Len(s) - 1) PROVE w[i] = IF i < p THEN s[i] ELSE s[i + 1]
      BY <2>3
    <3>1. w[i] = IF i <= p - 1 THEN a[i] ELSE b[i - (p - 1)]
      BY <1>0, <2>1, <2>a, <2>b, <2>c, <2>d
    <3>2. CASE i < p
      BY <1>0, <2>1, <2>a, <3>1, <3>2
    <3>3. CASE ~(i < p)
      <4>1. i - (p - 1) \in 1..(Len(s) - p) /\ p + (i - (p - 1)) = i + 1
        BY <1>0, <2>1, <3>3
      <4> QED
        BY <1>0, <2>1, <2>b, <3>1, <3>3, <4>1
    <3> QED
      BY <3>2, <3>3
  <2>5. \A n \in 1..Len(s) : n # p =>
          LET i == IF n < p THEN n ELSE n - 1 IN i \in 1..Len(w) /\ w[i] = s[n]
    <3> SUFFICES ASSUME NEW n \in 1..Len(s), n # p
                 PROVE  LET i == IF n < p THEN n ELSE n - 1 IN i \in 1..Len(w) /\ w[i] = s[n]
      OBVIOUS
    <3>1. CASE n < p
      BY <1>0, <2>1, <2>3, <2>4, <3>1
    <3>2. CASE n > p
      <4>1. n - 1 \in 1..Len(w) /\ ~(n - 1 < p) /\ (n - 1) + 1 = n
        BY <1>0, <2>1, <2>3, <3>2
      <4>2. w[n - 1] = s[n]
        BY <2>4, <4>1
      <4> QED
        BY <3>2, <4>1, <4>2, <2>1
    <3> QED
      BY <1>0, <2>1, <3>1, <3>2
  <2>6. ASSUME NEW k \in S \ {e} PROVE \E i \in 1..Len(w) : w[i] = k
    <3>1. PICK n \in 1..Len(s) : s[n] = k
      BY DEF Lists
    <3> QED
      BY <2>1, <2>5, <3>1
  <2>7. \A i \in 1..Len(w) : (IF i < p THEN i ELSE i + 1) \in (1..Len(s)) \ {p}
    BY <1>0, <2>1, <2>3
  <2>8. ASSUME NEW i \in 1..Len(w) PROVE w[i] \in S \ {e}
    BY <2>1, <2>4, <2>7 DEF Lists, Once
  <2>9. Once(w)
    BY <1>0, <2>1, <2>3, <2>4, <2>7 DEF Lists, Once
  <2>10. Within(w, s)
    <3> SUFFICES ASSUME NEW i \in 1..Len(w), NEW j \in 1..Len(w), i <= j
                 PROVE  \E m, n \in 1..Len(s) : m <= n /\ w[i] = s[m] /\ w[j] = s[n]
      BY DEF Within
    <3> DEFINE m == IF i < p THEN i ELSE i + 1
               n == IF j < p THEN j ELSE j + 1
    <3>1. m \in 1..Len(s) /\ n \in 1..Len(s) /\ w[i] = s[m] /\ w[j] = s[n]
      BY <2>4, <2>7
    <3>2. m <= n
      BY <1>0, <2>1, <2>3
    <3> QED
      BY <3>1, <3>2
  <2> QED
    BY <2>6, <2>8, <2>9, <2>10 DEF Lists, w
<1> QED
  BY <1>1, <1>2


LEMMA OrderKeeps ==
  ASSUME NEW t, NEW u, NEW s, InOrder(t, s),
         \A i \in 1..Len(s) : u.rec[s[i]].completedAt = t.rec[s[i]].completedAt
  PROVE  InOrder(u, s)
BY DEF InOrder

LEMMA OrderFrom ==
  ASSUME NEW t, NEW s \in Seq(Keys), NEW n \in 0..Len(s), InOrder(t, s)
  PROVE  InOrder(t, From(s, n))
<1> DEFINE c == From(s, n)
<1>1. /\ Len(s) \in Nat /\ n \in Nat /\ Len(c) = Len(s) - n
      /\ \A i \in 1..Len(c) : c[i] = s[i + n] /\ i + n \in 1..Len(s)
  BY LenProperties DEF From
<1> HIDE DEF c
<1>2. ASSUME NEW i \in 1..Len(c), NEW j \in 1..Len(c), i <= j
      PROVE  t.rec[c[i]].completedAt <= t.rec[c[j]].completedAt
  <2>1. i + n <= j + n /\ i + n \in 1..Len(s) /\ j + n \in 1..Len(s)
    BY <1>1, <1>2
  <2>2. c[i] = s[i + n] /\ c[j] = s[j + n]
    BY <1>1
  <2> QED
    BY <2>1, <2>2 DEF InOrder
<1> QED
  BY <1>2 DEF InOrder, c

\* A record that completes now goes to the end of its order.
LEMMA OrderAdd ==
  ASSUME NEW t, NEW s \in Seq(Keys), NEW k \in Keys, InOrder(t, s), t.rec[k].completedAt \in Nat,
         \A i \in 1..Len(s) : t.rec[s[i]].completedAt <= t.rec[k].completedAt
  PROVE  InOrder(t, Append(s, k))
<1> DEFINE q == Append(s, k)
<1>1. Len(s) \in Nat /\ Len(q) = Len(s) + 1 /\ q[Len(s) + 1] = k /\ \A i \in 1..Len(s) : q[i] = s[i]
  BY LenProperties
<1> HIDE DEF q
<1>2. \A i \in 1..Len(q) : i \in 1..Len(s) \/ i = Len(s) + 1
  BY <1>1
<1>3. ASSUME NEW i \in 1..Len(q), NEW j \in 1..Len(q), i <= j
      PROVE  t.rec[q[i]].completedAt <= t.rec[q[j]].completedAt
  <2>1. CASE j \in 1..Len(s)
    <3>1. i \in 1..Len(s)
      BY <1>1, <1>3, <2>1
    <3> QED
      BY <1>1, <1>3, <2>1, <3>1 DEF InOrder
  <2>2. CASE j = Len(s) + 1
    BY <1>1, <1>2, <2>2
  <2> QED
    BY <1>2, <2>1, <2>2
<1> QED
  BY <1>3 DEF InOrder, q

\* The loops of expireLocked stop at the first entry that is still young, and
\* then no later entry is overdue.
LEMMA LapsedYoung ==
  ASSUME NEW t \in Ledger, NEW s \in Seq(Keys), NEW ttl \in Nat, NEW now \in Nat, InOrder(t, s),
         NEW i \in 1..Len(s), i > Lapsed(t, s, ttl, now)
  PROVE  now < t.rec[s[i]].completedAt + ttl
<1> DEFINE m == Lapsed(t, s, ttl, now)
           L == {n \in 1..Len(s) : \A j \in 1..n : now >= t.rec[s[j]].completedAt + ttl}
<1>1. m \in 0..Len(s) /\ m \in Nat /\ Len(s) \in Nat
  <2>1. m \in 0..Len(s) /\ Len(s) \in Nat
    BY LapsedBound, LenProperties
  <2> HIDE DEF m
  <2> QED
    BY <2>1
<1>c. m = Cardinality(L)
  BY DEF Lapsed
<1>2. \A j \in 1..m : now >= t.rec[s[j]].completedAt + ttl
  BY LapsedOld
<1>3. \A j \in 1..Len(s) : t.rec[s[j]].completedAt \in Nat
  BY LedgerParts DEF Record
<1>4. IsFiniteSet(L)
  <2>1. IsFiniteSet(1..Len(s))
    <3>1. 1 \in Int /\ Len(s) \in Int
      BY LenProperties
    <3> QED
      BY <3>1, FS_Interval
  <2> QED
    BY <2>1, FS_Subset
<1> HIDE DEF m
<1>5. m + 1 \in 1..Len(s)
  BY <1>1, LenProperties DEF m
<1>6. now < t.rec[s[m + 1]].completedAt + ttl
  <2> SUFFICES ASSUME now >= t.rec[s[m + 1]].completedAt + ttl PROVE FALSE
    BY <1>3, <1>5
  <2>1. \A j \in 1..(m + 1) : now >= t.rec[s[j]].completedAt + ttl
    <3>1. \A j \in 1..(m + 1) : j \in 1..m \/ j = m + 1
      BY <1>1
    <3> QED
      BY <1>2, <3>1
  <2>2. 1..(m + 1) \subseteq L
    <3> SUFFICES ASSUME NEW n \in 1..(m + 1) PROVE n \in L
      OBVIOUS
    <3>1. n \in 1..Len(s) /\ 1..n \subseteq 1..(m + 1)
      BY <1>1, <1>5
    <3> QED
      BY <2>1, <3>1
  <2> HIDE DEF L
  <2>3. Cardinality(1..(m + 1)) = m + 1
    <3>1. PICK e \in Nat : e = m + 1 /\ e >= 1
      BY <1>1
    <3>2. 1 \in Int /\ e \in Int
      BY <3>1
    <3>3. Cardinality(1..e) = e
      BY <3>1, <3>2, FS_Interval
    <3> QED
      BY <3>1, <3>3
  <2>4. Cardinality(1..(m + 1)) <= Cardinality(L)
    BY <1>4, <2>2, FS_Subset
  <2> QED
    BY <1>1, <1>c, <2>3, <2>4
<1>7. t.rec[s[m + 1]].completedAt <= t.rec[s[i]].completedAt
  <2>1. m + 1 <= i
    BY <1>1 DEF m
  <2> QED
    BY <1>5, <2>1 DEF InOrder
<1> QED
  BY <1>3, <1>5, <1>6, <1>7

LEMMA LapsedYoungFrom ==
  ASSUME NEW t \in Ledger, NEW s \in Seq(Keys), NEW ttl \in Nat, NEW now \in Nat, InOrder(t, s),
         NEW i \in 1..Len(From(s, Lapsed(t, s, ttl, now)))
  PROVE  now < t.rec[From(s, Lapsed(t, s, ttl, now))[i]].completedAt + ttl
<1> DEFINE n == Lapsed(t, s, ttl, now)
           c == From(s, n)
<1>1. n \in 0..Len(s) /\ Len(s) \in Nat
  BY LapsedBound, LenProperties
<1>2. \A j \in 1..Len(s) : j > n => now < t.rec[s[j]].completedAt + ttl
  BY LapsedYoung
<1> HIDE DEF n
<1>3. Len(c) = Len(s) - n /\ \A j \in 1..(Len(s) - n) : c[j] = s[j + n]
  BY <1>1 DEF From
<1>4. i \in 1..(Len(s) - n)
  BY <1>3 DEF n
<1>5. i + n \in 1..Len(s) /\ i + n > n /\ c[i] = s[i + n]
  BY <1>1, <1>3, <1>4
<1> QED
  BY <1>2, <1>5 DEF n

\* Nothing the books are about changes.
LEMMA SameBooks ==
  ASSUME NEW t \in Ledger, NEW u, NEW now, Books(t, now),
         u.running = t.running, u.pending = t.pending, u.completed = t.completed, u.cached = t.cached,
         u.recordsPerPeer = t.recordsPerPeer, u.activePerPeer = t.activePerPeer,
         \A k \in Keys : /\ u.rec[k].stage = t.rec[k].stage /\ u.rec[k].result = t.rec[k].result
                         /\ u.rec[k].completedAt = t.rec[k].completedAt
  PROVE  Books(u, now)
<1>1. /\ \A st : StageSet(u, st) = StageSet(t, st)
      /\ Records(u) = Records(t) /\ BodySet(u) = BodySet(t)
  BY DEF StageSet, Records, BodySet, Present
<1>2. ListBooks(u)
  BY <1>1 DEF Books, ListBooks
<1>3. \A p \in Peers : PeerBooks(u, p)
  BY <1>1 DEF Books, PeerBooks
<1>4. OrderBooks(u, now)
  <2>1. \A i \in 1..Len(t.completed) : t.completed[i] \in Keys
    BY LedgerParts
  <2>2. \A i \in 1..Len(t.cached) : t.cached[i] \in Keys
    BY LedgerParts
  <2>3. InOrder(u, t.completed) /\ InOrder(u, t.cached)
    BY <2>1, <2>2, OrderKeeps DEF Books, OrderBooks
  <2> QED
    BY <2>3 DEF Books, OrderBooks
<1> QED
  BY <1>1, <1>2, <1>3, <1>4 DEF Books

LEMMA DropOldestBooks ==
  ASSUME NEW t \in Ledger, NEW n \in 0..Len(t.cached), NEW now, Books(t, now)
  PROVE  Books(DropOldest(t, n), now)
<1> DEFINE f == [k \in Keys |-> IF k \in First(t.cached, n) THEN [t.rec[k] EXCEPT !.result = "none"]
                                                           ELSE t.rec[k]]
           c == From(t.cached, n)
           u == [t EXCEPT !.cached = c, !.rec = f]
<1>1. DropOldest(t, n) = u
  BY DEF DropOldest
<1>2. \A k \in Keys : /\ f[k].stage = t.rec[k].stage /\ f[k].completedAt = t.rec[k].completedAt
                      /\ f[k].result = IF k \in First(t.cached, n) THEN "none" ELSE t.rec[k].result
  <2>1. \A r \in Record : LET q == [r EXCEPT !.result = "none"] IN
          q.stage = r.stage /\ q.completedAt = r.completedAt /\ q.result = "none"
    BY DEF Record
  <2> QED
    BY <2>1, LedgerParts
<1> HIDE DEF f, c
<1>3. /\ u.running = t.running /\ u.pending = t.pending /\ u.completed = t.completed /\ u.cached = c
      /\ u.recordsPerPeer = t.recordsPerPeer /\ u.activePerPeer = t.activePerPeer /\ u.rec = f
  BY DEF Ledger
<1> HIDE DEF u
<1>4. \A st : StageSet(u, st) = StageSet(t, st)
  BY <1>2, <1>3 DEF StageSet
<1>5. Records(u) = Records(t)
  BY <1>2, <1>3 DEF Records, Present
<1>6. BodySet(u) = BodySet(t) \ First(t.cached, n)
  BY <1>2, <1>3 DEF BodySet, Bodies
<1>7. ListBooks(u)
  <2>1. Lists(c, BodySet(t) \ First(t.cached, n))
    BY ListsFrom, LedgerParts DEF Books, ListBooks, c
  <2> QED
    BY <1>3, <1>4, <1>6, <2>1 DEF Books, ListBooks
<1>8. \A p \in Peers : PeerBooks(u, p)
  BY <1>3, <1>4, <1>5 DEF Books, PeerBooks
<1>9. OrderBooks(u, now)
  <2>1. InOrder(t, c) /\ c \in Seq(Keys)
    BY OrderFrom, FirstFrom, LedgerParts DEF Books, OrderBooks, c
  <2>2. \A k \in Keys : u.rec[k].completedAt = t.rec[k].completedAt
    BY <1>2, <1>3
  <2>3. InOrder(u, c)
    BY <2>1, <2>2, OrderKeeps
  <2>4. InOrder(u, t.completed)
    BY <2>2, OrderKeeps, LedgerParts DEF Books, OrderBooks
  <2> QED
    BY <1>2, <1>3, <2>3, <2>4 DEF Books, OrderBooks
<1> QED
  BY <1>1, <1>3, <1>4, <1>7, <1>8, <1>9 DEF Books


\* The completed records gone have left the table of t, and the lists of u are
\* those of t without them.
Retired(t, u, gone) ==
  /\ gone \subseteq StageSet(t, {"Complete"})
  /\ u.running = t.running /\ u.pending = t.pending /\ u.activePerPeer = t.activePerPeer
  /\ \A k \in Keys : u.rec[k] = IF k \in gone THEN Forget(t.rec[k]) ELSE t.rec[k]
  /\ \A p \in Peers : u.recordsPerPeer[p] = t.recordsPerPeer[p] - Cardinality(OfPeer(p, gone))
  /\ u.completed \in Seq(Keys) /\ u.cached \in Seq(Keys)
  /\ Lists(u.completed, StageSet(t, {"Complete"}) \ gone) /\ InOrder(t, u.completed)
  /\ Lists(u.cached, BodySet(t) \ gone) /\ InOrder(t, u.cached)

LEMMA RetireBooks ==
  ASSUME NEW t \in Ledger, NEW u, NEW gone, NEW now, Books(t, now), Retired(t, u, gone)
  PROVE  Books(u, now)
<1>1. \A k \in gone : /\ k \in Keys /\ t.rec[k].stage = "Complete" /\ u.rec[k].stage = "Absent"
                      /\ u.rec[k].completedAt = t.rec[k].completedAt
  BY AbsentOK DEF Retired, StageSet, Forget
<1>2. \A k \in Keys \ gone : u.rec[k] = t.rec[k]
  BY DEF Retired
<1>3. /\ StageSet(u, {"Running"}) = StageSet(t, {"Running"})
      /\ StageSet(u, {"Queued"}) = StageSet(t, {"Queued"})
      /\ StageSet(u, Active) = StageSet(t, Active)
  BY <1>1, <1>2 DEF StageSet, Active
<1>4. StageSet(u, {"Complete"}) = StageSet(t, {"Complete"}) \ gone
  BY <1>1, <1>2 DEF StageSet
<1>5. BodySet(u) = BodySet(t) \ gone
  BY <1>1, <1>2 DEF BodySet
<1>6. Records(u) = Records(t) \ gone /\ gone \subseteq Records(t)
  BY <1>1, <1>2 DEF Records, Present
<1>7. ListBooks(u)
  BY <1>3, <1>4, <1>5 DEF Books, ListBooks, Retired
<1>8. ASSUME NEW p \in Peers PROVE PeerBooks(u, p)
  <2> DEFINE S == OfPeer(p, Records(t))
             G == OfPeer(p, gone)
  <2>1. Counts(t.recordsPerPeer[p], S) /\ t.recordsPerPeer[p] \in Int
    BY LedgerParts DEF Books, PeerBooks
  <2>2. G \subseteq S
    BY <1>6 DEF OfPeer
  <2>3. OfPeer(p, Records(u)) = S \ G
    BY <1>6 DEF OfPeer
  <2>4. u.recordsPerPeer[p] = t.recordsPerPeer[p] - Cardinality(G)
    BY DEF Retired
  <2> HIDE DEF S, G
  <2>5. Counts(u.recordsPerPeer[p], OfPeer(p, Records(u)))
    BY <2>1, <2>2, <2>3, <2>4, CountsLess
  <2> QED
    BY <1>3, <2>5 DEF Books, PeerBooks, Retired
<1>9. OrderBooks(u, now)
  <2>1. \A k \in Keys : u.rec[k].completedAt = t.rec[k].completedAt
    BY <1>1, <1>2
  <2>2. InOrder(u, u.completed) /\ InOrder(u, u.cached)
    BY <2>1, OrderKeeps DEF Retired
  <2>3. \A k \in Keys : u.rec[k].stage = "Complete" => t.rec[k].stage = "Complete"
    BY <1>1, <1>2
  <2> QED
    BY <2>1, <2>2, <2>3 DEF Books, OrderBooks
<1> QED
  BY <1>3, <1>7, <1>8, <1>9 DEF Books, Retired

\* What Retire does to the counts of the peers.
LEMMA RetireCounts ==
  ASSUME NEW t \in Ledger, NEW gone
  PROVE  LET u == Retire(t, gone) IN
         /\ u.activePerPeer = t.activePerPeer
         /\ \A p \in Peers : u.recordsPerPeer[p] = t.recordsPerPeer[p] - Cardinality(OfPeer(p, gone))
<1> DEFINE f == [k \in Keys |-> IF k \in gone THEN Forget(t.rec[k]) ELSE t.rec[k]]
           g == [p \in Peers |-> t.recordsPerPeer[p] - Cardinality({k \in gone : k[1] = p})]
<1>1. Retire(t, gone) = [t EXCEPT !.rec = f, !.recordsPerPeer = g]
  BY DEF Retire
<1>2. \A p \in Peers : g[p] = t.recordsPerPeer[p] - Cardinality(OfPeer(p, gone))
  BY DEF OfPeer
<1> HIDE DEF f, g
<1>3. LET u == [t EXCEPT !.rec = f, !.recordsPerPeer = g] IN
      u.activePerPeer = t.activePerPeer /\ u.recordsPerPeer = g
  BY DEF Ledger
<1> QED
  BY <1>1, <1>2, <1>3

\* The bodies that DropOldest leaves after Lapsed are all young.
LEMMA DropLapsed ==
  ASSUME NEW t \in Ledger, NEW ttl \in Nat, NEW now \in Nat, Books(t, now)
  PROVE  LET b == DropOldest(t, Lapsed(t, t.cached, ttl, now)) IN
         /\ b \in Ledger /\ Books(b, now) /\ SameCalls(t, b)
         /\ \A k \in BodySet(b) : k \in BodySet(t) /\ now < b.rec[k].completedAt + ttl
<1> DEFINE n == Lapsed(t, t.cached, ttl, now)
           b == DropOldest(t, n)
<1>1. n \in 0..Len(t.cached) /\ t.cached \in Seq(Keys)
  BY LapsedBound, LedgerParts
<1>2. \A i \in 1..Len(From(t.cached, n)) : now < t.rec[From(t.cached, n)[i]].completedAt + ttl
  BY <1>1, LapsedYoungFrom DEF Books, OrderBooks
<1> HIDE DEF n
<1>3. b \in Ledger /\ SameCalls(t, b) /\ b.cached = From(t.cached, n)
  BY <1>1, DropOldestType, DropOldestEffect
<1>4. Books(b, now)
  BY <1>1, DropOldestBooks
<1> HIDE DEF b
<1>5. ASSUME NEW k \in BodySet(b) PROVE k \in BodySet(t) /\ now < b.rec[k].completedAt + ttl
  <2>1. PICK i \in 1..Len(b.cached) : b.cached[i] = k
    BY <1>4 DEF Books, ListBooks, Lists
  <2>2. k \in Keys /\ b.rec[k].stage = "Complete" /\ b.rec[k].result \in Bodies
    BY DEF BodySet
  <2>3. SameCall(t.rec[k], b.rec[k])
    BY <1>3, <2>2 DEF SameCalls
  <2>4. k \in BodySet(t) /\ b.rec[k].completedAt = t.rec[k].completedAt
    BY <2>2, <2>3 DEF BodySet, SameCall, Bodies
  <2> QED
    BY <1>2, <1>3, <2>1, <2>4
<1> QED
  BY <1>3, <1>4, <1>5 DEF b, n

\* expireLocked() keeps the books, and nothing overdue is left in them: the
\* tombstones past their time have no body left in the cache order.
LEMMA expireLockedBooks ==
  ASSUME NEW t \in Ledger, NEW now \in Nat, Books(t, now)
  PROVE  LET u == expireLocked(t, now) IN
         /\ Books(u, now)
         /\ \A k \in StageSet(u, {"Complete"}) : now < u.rec[k].completedAt + RecordTtl
         /\ \A k \in BodySet(u) : now < u.rec[k].completedAt + BodyTtl
<1> DEFINE b == DropOldest(t, Lapsed(t, t.cached, BodyTtl, now))
           c == DropOldest(b, Lapsed(b, b.cached, RecordTtl, now))
           n == Lapsed(c, c.completed, RecordTtl, now)
           gone == First(c.completed, n)
           w == Retire(c, gone)
           d == From(w.completed, n)
           u == [w EXCEPT !.completed = d]
<1>0. BodyTtl \in Nat /\ RecordTtl \in Nat
  BY LimitsAssumption
<1>1. /\ b \in Ledger /\ Books(b, now)
      /\ \A k \in BodySet(b) : now < b.rec[k].completedAt + BodyTtl
  BY <1>0, DropLapsed
<1>2. expireLocked(t, now) = u
  BY DEF expireLocked
<1> HIDE DEF b
<1>3. /\ c \in Ledger /\ Books(c, now) /\ SameCalls(b, c)
      /\ \A k \in BodySet(c) : k \in BodySet(b) /\ now < c.rec[k].completedAt + RecordTtl
  BY <1>0, <1>1, DropLapsed
<1> HIDE DEF c
<1>4. \A k \in BodySet(c) : now < c.rec[k].completedAt + BodyTtl
  <2> SUFFICES ASSUME NEW k \in BodySet(c) PROVE now < c.rec[k].completedAt + BodyTtl
    OBVIOUS
  <2>1. k \in Keys /\ k \in BodySet(b)
    BY <1>3 DEF BodySet
  <2>2. c.rec[k].completedAt = b.rec[k].completedAt
    BY <1>3, <2>1 DEF SameCalls, SameCall
  <2> QED
    BY <1>1, <2>1, <2>2
<1>5. c.completed \in Seq(Keys) /\ c.cached \in Seq(Keys)
  BY <1>3, LedgerParts
<1>6. n \in 0..Len(c.completed)
  BY <1>5, LapsedBound
<1>7. \A k \in gone : now >= c.rec[k].completedAt + RecordTtl
  <2>1. \A i \in 1..n : now >= c.rec[c.completed[i]].completedAt + RecordTtl
    BY <1>5, LapsedOld
  <2> QED
    BY <2>1 DEF First
<1>8. \A i \in 1..Len(From(c.completed, n)) : now < c.rec[From(c.completed, n)[i]].completedAt + RecordTtl
  BY <1>0, <1>3, <1>5, LapsedYoungFrom DEF Books, OrderBooks
<1> HIDE DEF n
<1>9. gone \subseteq StageSet(c, {"Complete"})
  <2>1. \A i \in 1..n : i \in 1..Len(c.completed)
    BY <1>5, <1>6, LenProperties
  <2> QED
    BY <1>3, <2>1 DEF Books, ListBooks, Lists, First
<1>10. gone \cap BodySet(c) = {}
  <2> SUFFICES ASSUME NEW k \in gone, k \in BodySet(c) PROVE FALSE
    OBVIOUS
  <2>1. c.rec[k].completedAt \in Nat
    BY <1>3, LedgerParts DEF BodySet, Record
  <2> QED
    BY <1>0, <1>3, <1>7, <2>1
<1>11. /\ w.pending = c.pending /\ w.completed = c.completed /\ w.running = c.running /\ w.cached = c.cached
       /\ \A k \in Keys : w.rec[k] = IF k \in gone THEN Forget(c.rec[k]) ELSE c.rec[k]
  BY <1>3, RetireEffect
<1>12. /\ w.activePerPeer = c.activePerPeer
       /\ \A p \in Peers : w.recordsPerPeer[p] = c.recordsPerPeer[p] - Cardinality(OfPeer(p, gone))
  BY <1>3, RetireCounts
<1>13. w \in Ledger
  BY <1>3, <1>5, <1>6, FirstFrom, RetireType
<1>14. d = From(c.completed, n)
  BY <1>11
<1>15. d \in Seq(Keys) /\ Lists(d, StageSet(c, {"Complete"}) \ gone) /\ InOrder(c, d)
  BY <1>3, <1>5, <1>6, <1>14, FirstFrom, ListsFrom, OrderFrom DEF Books, ListBooks, OrderBooks
<1> HIDE DEF w, d, gone
<1>16. /\ u.pending = w.pending /\ u.running = w.running /\ u.completed = d /\ u.rec = w.rec
       /\ u.cached = w.cached /\ u.activePerPeer = w.activePerPeer /\ u.recordsPerPeer = w.recordsPerPeer
  BY <1>13 DEF Ledger
<1> HIDE DEF u
<1>17. BodySet(c) \ gone = BodySet(c)
  BY <1>10
<1>18. Lists(u.cached, BodySet(c) \ gone) /\ InOrder(c, u.cached) /\ u.cached \in Seq(Keys)
  BY <1>3, <1>5, <1>11, <1>16, <1>17 DEF Books, ListBooks, OrderBooks
<1>19. Books(u, now)
  <2>1. u.running = c.running /\ u.pending = c.pending /\ u.activePerPeer = c.activePerPeer
    BY <1>11, <1>12, <1>16
  <2>2. \A k \in Keys : u.rec[k] = IF k \in gone THEN Forget(c.rec[k]) ELSE c.rec[k]
    BY <1>11, <1>16
  <2>3. \A p \in Peers : u.recordsPerPeer[p] = c.recordsPerPeer[p] - Cardinality(OfPeer(p, gone))
    BY <1>12, <1>16
  <2>4. /\ u.completed \in Seq(Keys) /\ Lists(u.completed, StageSet(c, {"Complete"}) \ gone)
        /\ InOrder(c, u.completed)
    BY <1>15, <1>16
  <2>5. Retired(c, u, gone)
    BY <1>9, <1>18, <2>1, <2>2, <2>3, <2>4 DEF Retired
  <2> QED
    BY <1>3, <2>5, RetireBooks
<1>20. \A k \in Keys : k \notin gone => u.rec[k] = c.rec[k]
  BY <1>11, <1>16
<1>21. \A k \in gone : u.rec[k].stage = "Absent" /\ k \in Keys
  BY <1>9, <1>11, <1>16, AbsentOK DEF Forget, StageSet
<1>22. ASSUME NEW k \in StageSet(u, {"Complete"}) PROVE now < u.rec[k].completedAt + RecordTtl
  <2>1. k \in Keys /\ k \notin gone
    BY <1>21 DEF StageSet
  <2>2. PICK i \in 1..Len(d) : d[i] = k
    BY <1>16, <1>19 DEF Books, ListBooks, Lists
  <2> QED
    BY <1>8, <1>14, <1>20, <2>1, <2>2
<1>23. ASSUME NEW k \in BodySet(u) PROVE now < u.rec[k].completedAt + BodyTtl
  <2>1. k \in Keys /\ k \notin gone
    BY <1>21 DEF BodySet
  <2>2. k \in BodySet(c)
    BY <1>20, <2>1 DEF BodySet
  <2> QED
    BY <1>4, <1>20, <2>1, <2>2
<1> QED
  BY <1>2, <1>19, <1>22, <1>23


LEMMA RequestCancelBooks ==
  ASSUME NEW t \in Ledger, NEW ks, NEW now, Books(t, now)
  PROVE  Books(RequestCancel(t, ks), now)
<1> DEFINE f == [k \in Keys |-> IF k \in ks THEN [t.rec[k] EXCEPT !.cancelRequested = TRUE]
                                            ELSE t.rec[k]]
           u == [t EXCEPT !.rec = f]
<1>1. RequestCancel(t, ks) = u
  BY DEF RequestCancel
<1>2. \A k \in Keys : /\ f[k].stage = t.rec[k].stage /\ f[k].completedAt = t.rec[k].completedAt
                      /\ f[k].result = t.rec[k].result
  <2>1. \A r \in Record : LET q == [r EXCEPT !.cancelRequested = TRUE] IN
          q.stage = r.stage /\ q.completedAt = r.completedAt /\ q.result = r.result
    BY Zenon DEF Record
  <2> QED
    BY <2>1, LedgerParts
<1> HIDE DEF f
<1>3. /\ u.running = t.running /\ u.pending = t.pending /\ u.completed = t.completed /\ u.cached = t.cached
      /\ u.recordsPerPeer = t.recordsPerPeer /\ u.activePerPeer = t.activePerPeer /\ u.rec = f
  BY DEF Ledger
<1> HIDE DEF u
<1>4. \A k \in Keys : /\ u.rec[k].stage = t.rec[k].stage /\ u.rec[k].completedAt = t.rec[k].completedAt
                      /\ u.rec[k].result = t.rec[k].result
  BY <1>2, <1>3
<1> QED
  BY <1>1, <1>3, <1>4, SameBooks

LEMMA UpdateBooks ==
  ASSUME NEW t \in Ledger, NEW k \in Keys, NEW r, NEW now, Books(t, now), r.stage = t.rec[k].stage,
         r.completedAt = t.rec[k].completedAt, r.result = t.rec[k].result
  PROVE  Books([t EXCEPT !.rec[k] = r], now)
<1> DEFINE f == [t.rec EXCEPT ![k] = r]
           u == [t EXCEPT !.rec = f]
<1>1. [t EXCEPT !.rec[k] = r] = u
  OBVIOUS
<1>2. f[k] = r /\ \A j \in Keys \ {k} : f[j] = t.rec[j]
  BY LedgerParts
<1> HIDE DEF f
<1>3. /\ u.running = t.running /\ u.pending = t.pending /\ u.completed = t.completed /\ u.cached = t.cached
      /\ u.recordsPerPeer = t.recordsPerPeer /\ u.activePerPeer = t.activePerPeer /\ u.rec = f
  BY DEF Ledger
<1> HIDE DEF u
<1>4. \A j \in Keys : /\ u.rec[j].stage = t.rec[j].stage /\ u.rec[j].completedAt = t.rec[j].completedAt
                      /\ u.rec[j].result = t.rec[j].result
  BY <1>2, <1>3
<1> QED
  BY <1>1, <1>3, <1>4, SameBooks

\* Receipt: one body leaves the cache order, wherever it stands in it.
LEMMA dropResultBodyBooks ==
  ASSUME NEW t \in Ledger, NEW k \in Keys, NEW now, Books(t, now)
  PROVE  Books(dropResultBody(t, k), now)
<1>1. CASE t.rec[k].result \notin Bodies
  BY <1>1 DEF dropResultBody
<1>2. CASE t.rec[k].result \in Bodies
  <2> DEFINE r == [t.rec[k] EXCEPT !.result = "none"]
             f == [t.rec EXCEPT ![k] = r]
             c == Without(t.cached, k)
             u == [t EXCEPT !.cached = c, !.rec = f]
  <2>1. dropResultBody(t, k) = u
    BY <1>2 DEF dropResultBody
  <2>2. r.stage = t.rec[k].stage /\ r.completedAt = t.rec[k].completedAt /\ r.result = "none"
    BY LedgerParts DEF Record
  <2> HIDE DEF r
  <2>3. f[k] = r /\ \A j \in Keys \ {k} : f[j] = t.rec[j]
    BY LedgerParts
  <2>4. t.cached \in Seq(Keys) /\ t.completed \in Seq(Keys) /\ c \in Seq(Keys)
    BY LedgerParts, WithoutType
  <2>5. Lists(c, BodySet(t) \ {k}) /\ Within(c, t.cached)
    <3>1. Lists(t.cached, BodySet(t))
      BY DEF Books, ListBooks
    <3> QED
      BY <2>4, <3>1, ListsWithout
  <2> HIDE DEF f, c
  <2>6. /\ u.running = t.running /\ u.pending = t.pending /\ u.completed = t.completed /\ u.cached = c
        /\ u.recordsPerPeer = t.recordsPerPeer /\ u.activePerPeer = t.activePerPeer /\ u.rec = f
    BY DEF Ledger
  <2> HIDE DEF u
  <2>7. \A j \in Keys : u.rec[j].stage = t.rec[j].stage /\ u.rec[j].completedAt = t.rec[j].completedAt
    BY <2>2, <2>3, <2>6
  <2>8. (\A st : StageSet(u, st) = StageSet(t, st)) /\ Records(u) = Records(t)
    BY <2>7 DEF StageSet, Records, Present
  <2>9. BodySet(u) = BodySet(t) \ {k}
    BY <2>2, <2>3, <2>6 DEF BodySet, Bodies
  <2>10. ListBooks(u)
    BY <2>5, <2>6, <2>8, <2>9 DEF Books, ListBooks
  <2>11. \A p \in Peers : PeerBooks(u, p)
    BY <2>6, <2>8 DEF Books, PeerBooks
  <2>12. OrderBooks(u, now)
    <3>1. InOrder(t, c)
      <4>1. \A m, n \in 1..Len(t.cached) : m <= n =>
              t.rec[t.cached[m]].completedAt <= t.rec[t.cached[n]].completedAt
        BY DEF Books, OrderBooks, InOrder
      <4>2. ASSUME NEW i \in 1..Len(c), NEW j \in 1..Len(c), i <= j
            PROVE  t.rec[c[i]].completedAt <= t.rec[c[j]].completedAt
        <5>1. PICK m \in 1..Len(t.cached), n \in 1..Len(t.cached) :
                m <= n /\ c[i] = t.cached[m] /\ c[j] = t.cached[n]
          BY <2>5, <4>2 DEF Within
        <5> QED
          BY <4>1, <5>1
      <4> QED
        BY <4>2 DEF InOrder
    <3>2. InOrder(u, c) /\ InOrder(u, t.completed)
      BY <2>4, <2>7, <3>1, OrderKeeps DEF Books, OrderBooks
    <3> QED
      BY <2>6, <2>7, <3>2 DEF Books, OrderBooks
  <2> QED
    BY <2>1, <2>6, <2>8, <2>10, <2>11, <2>12 DEF Books
<1> QED
  BY <1>1, <1>2

LEMMA trimCacheBooks ==
  ASSUME NEW t \in Ledger, NEW now, Books(t, now)
  PROVE  Books(trimCache(t), now)
<1>1. CacheBodies \in Nat /\ Len(t.cached) \in Nat
  BY LimitsAssumption, LedgerParts, LenProperties
<1>2. CASE Len(t.cached) > CacheBodies
  <2>1. Len(t.cached) - CacheBodies \in 0..Len(t.cached)
    BY <1>1, <1>2
  <2>2. trimCache(t) = DropOldest(t, Len(t.cached) - CacheBodies)
    BY <1>2 DEF trimCache
  <2> QED
    BY <2>1, <2>2, DropOldestBooks
<1>3. CASE ~(Len(t.cached) > CacheBodies)
  <2>1. trimCache(t) = t
    BY <1>3, Zenon DEF trimCache
  <2> QED
    BY <2>1
<1> QED
  BY <1>2, <1>3

\* close(): every tombstone goes, and with them both orders.
LEMMA CloseBooks ==
  ASSUME NEW t \in Ledger, NEW now, Books(t, now)
  PROVE  Books([Retire(t, Range(t.completed)) EXCEPT !.completed = <<>>, !.cached = <<>>], now)
<1> DEFINE gone == Range(t.completed)
           w == Retire(t, gone)
           u == [w EXCEPT !.completed = <<>>, !.cached = <<>>]
<1>1. gone = StageSet(t, {"Complete"}) /\ IsFiniteSet(gone)
  BY LedgerParts, ListsCount DEF Books, ListBooks
<1>2. gone \subseteq Keys
  BY <1>1 DEF StageSet
<1> HIDE DEF gone
<1>3. w \in Ledger
  BY <1>1, <1>2, RetireType
<1>4. /\ w.pending = t.pending /\ w.running = t.running
      /\ \A k \in Keys : w.rec[k] = IF k \in gone THEN Forget(t.rec[k]) ELSE t.rec[k]
  BY RetireEffect
<1>5. /\ w.activePerPeer = t.activePerPeer
      /\ \A p \in Peers : w.recordsPerPeer[p] = t.recordsPerPeer[p] - Cardinality(OfPeer(p, gone))
  BY RetireCounts
<1> HIDE DEF w
<1>6. /\ u.pending = w.pending /\ u.running = w.running /\ u.completed = <<>> /\ u.rec = w.rec
      /\ u.cached = <<>> /\ u.activePerPeer = w.activePerPeer /\ u.recordsPerPeer = w.recordsPerPeer
  BY <1>3 DEF Ledger
<1> HIDE DEF u
<1>7. Lists(<<>>, {}) /\ InOrder(t, <<>>)
  BY DEF Lists, Once, InOrder
<1>8. StageSet(t, {"Complete"}) \ gone = {} /\ BodySet(t) \ gone = {}
  BY <1>1 DEF StageSet, BodySet
<1>9. <<>> \in Seq(Keys)
  OBVIOUS
<1>10. Retired(t, u, gone)
  BY <1>1, <1>4, <1>5, <1>6, <1>7, <1>8, <1>9 DEF Retired
<1>11. Books(u, now)
  BY <1>10, RetireBooks
<1> QED
  BY <1>11 DEF u, w, gone
-----------------------------------------------------------------------------
(* One call changes its stage.                                             *)

LEMMA Moved ==
  ASSUME NEW t, NEW u, NEW k \in Keys, \A j \in Keys \ {k} : u.rec[j] = t.rec[j], NEW st
  PROVE  StageSet(u, st) = IF u.rec[k].stage \in st THEN StageSet(t, st) \cup {k} ELSE StageSet(t, st) \ {k}
BY DEF StageSet

LEMMA PeerAdd ==
  ASSUME NEW n \in Int, NEW p, NEW S, NEW k, Counts(n, OfPeer(p, S)), k \notin S
  PROVE  Counts(IF k[1] = p THEN n + 1 ELSE n, OfPeer(p, S \cup {k}))
<1>1. CASE k[1] = p
  <2>1. OfPeer(p, S \cup {k}) = OfPeer(p, S) \cup {k} /\ k \notin OfPeer(p, S)
    BY <1>1 DEF OfPeer
  <2> QED
    BY <1>1, <2>1, CountsAdd
<1>2. CASE k[1] # p
  <2>1. OfPeer(p, S \cup {k}) = OfPeer(p, S)
    BY <1>2 DEF OfPeer
  <2> QED
    BY <1>2, <2>1
<1> QED
  BY <1>1, <1>2

LEMMA PeerDrop ==
  ASSUME NEW n \in Int, NEW p, NEW S, NEW k, Counts(n, OfPeer(p, S)), k \in S
  PROVE  Counts(IF k[1] = p THEN n - 1 ELSE n, OfPeer(p, S \ {k}))
<1>1. CASE k[1] = p
  <2>1. OfPeer(p, S \ {k}) = OfPeer(p, S) \ {k} /\ k \in OfPeer(p, S)
    BY <1>1 DEF OfPeer
  <2> QED
    BY <1>1, <2>1, CountsDrop
<1>2. CASE k[1] # p
  <2>1. OfPeer(p, S \ {k}) = OfPeer(p, S)
    BY <1>2 DEF OfPeer
  <2> QED
    BY <1>2, <2>1
<1> QED
  BY <1>1, <1>2


\* A call that is not complete, and does not become so, leaves both orders alone.
LEMMA MovedOrder ==
  ASSUME NEW t \in Ledger, NEW u, NEW k \in Keys, NEW now, Books(t, now),
         \A j \in Keys \ {k} : u.rec[j] = t.rec[j], t.rec[k].stage # "Complete", u.rec[k].stage # "Complete",
         u.completed = t.completed, u.cached = t.cached
  PROVE  /\ Lists(u.completed, StageSet(u, {"Complete"})) /\ Lists(u.cached, BodySet(u))
         /\ OrderBooks(u, now)
<1>1. StageSet(u, {"Complete"}) = StageSet(t, {"Complete"}) /\ BodySet(u) = BodySet(t)
  BY DEF StageSet, BodySet
<1>2. \A i \in 1..Len(t.completed) : t.completed[i] \in Keys \ {k}
  BY DEF Books, ListBooks, Lists, StageSet
<1>3. \A i \in 1..Len(t.cached) : t.cached[i] \in Keys \ {k}
  BY DEF Books, ListBooks, Lists, BodySet
<1>4. InOrder(u, t.completed) /\ InOrder(u, t.cached)
  BY <1>2, <1>3, OrderKeeps DEF Books, OrderBooks
<1>5. \A j \in Keys : u.rec[j].stage = "Complete" => u.rec[j].completedAt <= now
  BY DEF Books, OrderBooks
<1> QED
  BY <1>1, <1>4, <1>5 DEF Books, ListBooks, OrderBooks

LEMMA InstallBooks ==
  ASSUME NEW t \in Ledger, NEW k \in Keys, NEW sig \in Sigs,
         NEW sess \in Sessions \cup {NoSession}, NEW dl \in Nat, NEW now \in Nat,
         Books(t, now), ~Present(t.rec[k])
  PROVE  Books(Install(t, k, sig, sess, dl, now), now)
<1> DEFINE u == Install(t, k, sig, sess, dl, now)
           run == t.running < RunningCalls
           g == [t.recordsPerPeer EXCEPT ![k[1]] = @ + 1]
           h == [t.activePerPeer EXCEPT ![k[1]] = @ + 1]
<1>1. /\ u.completed = t.completed /\ u.cached = t.cached
      /\ u.running = IF run THEN t.running + 1 ELSE t.running
      /\ u.pending = IF run THEN t.pending ELSE Append(t.pending, k)
      /\ \A j \in Keys \ {k} : u.rec[j] = t.rec[j]
      /\ u.rec[k].stage = IF run THEN "Running" ELSE "Queued"
  BY InstallEffect
<1>2. u.recordsPerPeer = g /\ u.activePerPeer = h
  <2> DEFINE r == [Absent(t.rec[k].inst + 1, 0) EXCEPT
                     !.stage = IF run THEN "Running" ELSE "Queued",
                     !.sig = sig, !.sess = sess, !.deadline = dl, !.admittedAt = now,
                     !.prevEnd = t.rec[k].completedAt, !.launcher = IF run THEN "due" ELSE "none"]
             f == [t.rec EXCEPT ![k] = r]
             m == IF run THEN t.running + 1 ELSE t.running
             q == IF run THEN t.pending ELSE Append(t.pending, k)
  <2>1. u = [t EXCEPT !.rec = f, !.running = m, !.pending = q, !.recordsPerPeer = g, !.activePerPeer = h]
    BY DEF Install
  <2> HIDE DEF r, f, m, q, g, h, u
  <2> QED
    BY <2>1 DEF Ledger
<1>3. /\ t.recordsPerPeer \in [Peers -> Int] /\ t.activePerPeer \in [Peers -> Int] /\ t.running \in Int
      /\ t.pending \in Seq(Keys)
  BY LedgerParts
<1>4. \A p \in Peers : /\ g[p] = IF k[1] = p THEN t.recordsPerPeer[p] + 1 ELSE t.recordsPerPeer[p]
                       /\ h[p] = IF k[1] = p THEN t.activePerPeer[p] + 1 ELSE t.activePerPeer[p]
  BY <1>3 DEF Keys
<1> HIDE DEF u, g, h
<1>5. t.rec[k].stage = "Absent"
  BY DEF Present
<1>6. \A st : "Absent" \notin st => k \notin StageSet(t, st)
  BY <1>5 DEF StageSet
<1>7. \A st : StageSet(u, st) = IF u.rec[k].stage \in st THEN StageSet(t, st) \cup {k} ELSE StageSet(t, st) \ {k}
  <2>1. \A j \in Keys \ {k} : u.rec[j] = t.rec[j]
    BY <1>1
  <2> QED
    BY <2>1, Moved
<1>8. Counts(u.running, StageSet(u, {"Running"}))
  <2>1. Counts(t.running, StageSet(t, {"Running"})) /\ k \notin StageSet(t, {"Running"})
    BY <1>6 DEF Books
  <2>2. CASE run
    <3>1. StageSet(u, {"Running"}) = StageSet(t, {"Running"}) \cup {k}
      BY <1>1, <1>7, <2>2
    <3> QED
      BY <1>1, <1>3, <2>1, <2>2, <3>1, CountsAdd
  <2>3. CASE ~run
    <3>1. StageSet(u, {"Running"}) = StageSet(t, {"Running"})
      BY <1>1, <1>7, <2>1, <2>3
    <3> QED
      BY <1>1, <2>1, <2>3, <3>1
  <2> QED
    BY <2>2, <2>3
<1>9. Lists(u.pending, StageSet(u, {"Queued"}))
  <2>1. Lists(t.pending, StageSet(t, {"Queued"})) /\ k \notin StageSet(t, {"Queued"})
    BY <1>6 DEF Books, ListBooks
  <2>2. CASE run
    <3>1. StageSet(u, {"Queued"}) = StageSet(t, {"Queued"})
      BY <1>1, <1>7, <2>1, <2>2
    <3> QED
      BY <1>1, <2>1, <2>2, <3>1
  <2>3. CASE ~run
    <3>1. StageSet(u, {"Queued"}) = StageSet(t, {"Queued"}) \cup {k}
      BY <1>1, <1>7, <2>3
    <3> QED
      BY <1>1, <1>3, <2>1, <2>3, <3>1, ListsAdd
  <2> QED
    BY <2>2, <2>3
<1>10. /\ Lists(u.completed, StageSet(u, {"Complete"})) /\ Lists(u.cached, BodySet(u))
       /\ OrderBooks(u, now)
  <2>1. u.rec[k].stage # "Complete" /\ t.rec[k].stage # "Complete"
    BY <1>1, <1>5
  <2> QED
    BY <1>1, <2>1, MovedOrder
<1>11. Records(u) = Records(t) \cup {k} /\ k \notin Records(t)
  BY <1>1, <1>5 DEF Records, Present
<1>12. StageSet(u, Active) = StageSet(t, Active) \cup {k} /\ k \notin StageSet(t, Active)
  BY <1>1, <1>6, <1>7 DEF Active
<1>13. ASSUME NEW p \in Peers PROVE PeerBooks(u, p)
  <2>1. /\ Counts(t.recordsPerPeer[p], OfPeer(p, Records(t)))
        /\ Counts(t.activePerPeer[p], OfPeer(p, StageSet(t, Active)))
        /\ t.recordsPerPeer[p] \in Int /\ t.activePerPeer[p] \in Int
    BY <1>3 DEF Books, PeerBooks
  <2>2. Counts(g[p], OfPeer(p, Records(t) \cup {k}))
    BY <1>4, <1>11, <2>1, PeerAdd
  <2>3. Counts(h[p], OfPeer(p, StageSet(t, Active) \cup {k}))
    BY <1>4, <1>12, <2>1, PeerAdd
  <2> QED
    BY <1>2, <1>11, <1>12, <2>2, <2>3 DEF PeerBooks
<1> QED
  BY <1>8, <1>9, <1>10, <1>13 DEF Books, ListBooks, u

LEMMA ClaimedBooks ==
  ASSUME NEW t \in Ledger, NEW k \in Keys, NEW now, NEW reason, Books(t, now), t.rec[k].stage = "Queued"
  PROVE  Books(Claimed(t, k, reason), now)
<1> DEFINE r == [t.rec[k] EXCEPT !.stage = "Finalizing", !.task = "select", !.terminal = reason]
           f == [t.rec EXCEPT ![k] = r]
           q == Without(t.pending, k)
           u == [t EXCEPT !.pending = q, !.rec = f]
<1>1. Claimed(t, k, reason) = u
  BY DEF Claimed
<1>2. r.stage = "Finalizing"
  BY LedgerParts DEF Record
<1> HIDE DEF r
<1>3. f[k] = r /\ \A j \in Keys \ {k} : f[j] = t.rec[j]
  BY LedgerParts
<1>4. Lists(q, StageSet(t, {"Queued"}) \ {k})
  BY LedgerParts, ListsWithout DEF Books, ListBooks
<1> HIDE DEF f, q
<1>5. /\ u.running = t.running /\ u.pending = q /\ u.completed = t.completed /\ u.cached = t.cached
      /\ u.recordsPerPeer = t.recordsPerPeer /\ u.activePerPeer = t.activePerPeer /\ u.rec = f
  BY DEF Ledger
<1> HIDE DEF u
<1>6. u.rec[k].stage = "Finalizing" /\ \A j \in Keys \ {k} : u.rec[j] = t.rec[j]
  BY <1>2, <1>3, <1>5
<1>7. /\ Lists(u.completed, StageSet(u, {"Complete"})) /\ Lists(u.cached, BodySet(u))
      /\ OrderBooks(u, now)
  BY <1>5, <1>6, MovedOrder
<1>8. StageSet(u, {"Queued"}) = StageSet(t, {"Queued"}) \ {k}
  BY <1>6 DEF StageSet
<1>9. StageSet(u, {"Running"}) = StageSet(t, {"Running"}) /\ StageSet(u, Active) = StageSet(t, Active)
  BY <1>6 DEF StageSet, Active
<1>10. Records(u) = Records(t)
  BY <1>6 DEF Records, Present
<1>11. \A p \in Peers : PeerBooks(u, p)
  BY <1>5, <1>9, <1>10 DEF Books, PeerBooks
<1> QED
  BY <1>1, <1>4, <1>5, <1>7, <1>8, <1>9, <1>11 DEF Books, ListBooks

LEMMA PromoteBooks ==
  ASSUME NEW t \in Ledger, NEW now, Books(t, now)
  PROVE  Books(Promote(t), now)
<1>1. CASE ~(t.running < RunningCalls /\ t.pending # <<>>)
  BY <1>1, Zenon DEF Promote
<1>2. CASE t.running < RunningCalls /\ t.pending # <<>>
  <2> DEFINE k == Head(t.pending)
             q == Tail(t.pending)
             r == [t.rec[k] EXCEPT !.stage = "Running", !.launcher = "due"]
             f == [t.rec EXCEPT ![k] = r]
             m == t.running + 1
             u == [t EXCEPT !.rec = f, !.running = m, !.pending = q]
  <2>1. Promote(t) = u
    BY <1>2 DEF Promote
  <2>2. k \in StageSet(t, {"Queued"}) /\ Lists(q, StageSet(t, {"Queued"}) \ {k})
    BY <1>2, LedgerParts, ListsTail DEF Books, ListBooks
  <2> HIDE DEF k, q
  <2>3. k \in Keys /\ t.rec[k].stage = "Queued"
    BY <2>2 DEF StageSet
  <2>4. r.stage = "Running"
    BY <2>3, LedgerParts DEF Record
  <2> HIDE DEF r
  <2>5. f[k] = r /\ \A j \in Keys \ {k} : f[j] = t.rec[j]
    BY <2>3, LedgerParts
  <2> HIDE DEF f, m
  <2>6. /\ u.running = m /\ u.pending = q /\ u.completed = t.completed /\ u.cached = t.cached
        /\ u.recordsPerPeer = t.recordsPerPeer /\ u.activePerPeer = t.activePerPeer /\ u.rec = f
    BY DEF Ledger
  <2> HIDE DEF u
  <2>7. u.rec[k].stage = "Running" /\ \A j \in Keys \ {k} : u.rec[j] = t.rec[j]
    BY <2>4, <2>5, <2>6
  <2>8. /\ Lists(u.completed, StageSet(u, {"Complete"})) /\ Lists(u.cached, BodySet(u))
        /\ OrderBooks(u, now)
    BY <2>3, <2>6, <2>7, MovedOrder
  <2>9. StageSet(u, {"Queued"}) = StageSet(t, {"Queued"}) \ {k}
    BY <2>7 DEF StageSet
  <2>10. /\ StageSet(u, {"Running"}) = StageSet(t, {"Running"}) \cup {k}
         /\ k \notin StageSet(t, {"Running"})
    BY <2>3, <2>7 DEF StageSet
  <2>11. Counts(u.running, StageSet(u, {"Running"}))
    <3>1. t.running \in Int /\ Counts(t.running, StageSet(t, {"Running"}))
      BY LedgerParts DEF Books
    <3>2. u.running = t.running + 1
      BY <2>6 DEF m
    <3> QED
      BY <2>10, <3>1, <3>2, CountsAdd
  <2>12. StageSet(u, Active) = StageSet(t, Active) /\ Records(u) = Records(t)
    BY <2>3, <2>7 DEF StageSet, Active, Records, Present
  <2>13. \A p \in Peers : PeerBooks(u, p)
    BY <2>6, <2>12 DEF Books, PeerBooks
  <2> QED
    BY <2>1, <2>2, <2>6, <2>8, <2>9, <2>11, <2>13 DEF Books, ListBooks
<1> QED
  BY <1>1, <1>2


\* A call that ends gives back its slot and its place among its peer's calls.
LEMMA EndedCounts ==
  ASSUME NEW t \in Ledger, NEW u, NEW k \in Keys, NEW now, Books(t, now),
         \A j \in Keys \ {k} : u.rec[j] = t.rec[j],
         t.rec[k].stage \in {"Running", "Finalizing"}, u.rec[k].stage \in {"Absent", "Complete"},
         u.running = t.running - Frees(t.rec[k]), u.pending = t.pending,
         u.activePerPeer = [t.activePerPeer EXCEPT ![k[1]] = @ - 1]
  PROVE  /\ Counts(u.running, StageSet(u, {"Running"})) /\ Lists(u.pending, StageSet(u, {"Queued"}))
         /\ \A p \in Peers : Counts(u.activePerPeer[p], OfPeer(p, StageSet(u, Active)))
<1>1. StageSet(u, {"Queued"}) = StageSet(t, {"Queued"})
  BY DEF StageSet
<1>2. StageSet(u, {"Running"}) = StageSet(t, {"Running"}) \ {k}
  BY DEF StageSet
<1>3. StageSet(u, Active) = StageSet(t, Active) \ {k} /\ k \in StageSet(t, Active)
  BY DEF StageSet, Active
<1>4. t.running \in Int /\ Counts(t.running, StageSet(t, {"Running"})) /\ t.activePerPeer \in [Peers -> Int]
  BY LedgerParts DEF Books
<1>5. Counts(u.running, StageSet(u, {"Running"}))
  <2>1. CASE t.rec[k].stage = "Running"
    <3>1. k \in StageSet(t, {"Running"}) /\ u.running = t.running - 1
      BY <2>1 DEF StageSet, Frees
    <3> QED
      BY <1>2, <1>4, <3>1, CountsDrop
  <2>2. CASE t.rec[k].stage = "Finalizing"
    <3>1. StageSet(t, {"Running"}) \ {k} = StageSet(t, {"Running"}) /\ u.running = t.running
      BY <1>4, <2>2 DEF StageSet, Frees
    <3> QED
      BY <1>2, <1>4, <3>1
  <2> QED
    BY <2>1, <2>2
<1>6. ASSUME NEW p \in Peers PROVE Counts(u.activePerPeer[p], OfPeer(p, StageSet(u, Active)))
  <2>1. Counts(t.activePerPeer[p], OfPeer(p, StageSet(t, Active))) /\ t.activePerPeer[p] \in Int
    BY <1>4 DEF Books, PeerBooks
  <2>2. u.activePerPeer[p] = IF k[1] = p THEN t.activePerPeer[p] - 1 ELSE t.activePerPeer[p]
    BY <1>4 DEF Keys
  <2> QED
    BY <1>3, <2>1, <2>2, PeerDrop
<1> QED
  BY <1>1, <1>5, <1>6 DEF Books, ListBooks

\* finish() while the engine is open: the call of k becomes a tombstone, the
\* last in the order of completion.
Kept(t, u, k, now) ==
  /\ \A j \in Keys \ {k} : u.rec[j] = t.rec[j]
  /\ t.rec[k].stage \in {"Running", "Finalizing"} /\ u.rec[k].stage = "Complete"
  /\ u.rec[k].completedAt = now /\ u.rec[k].result = t.rec[k].terminal
  /\ u.running = t.running - Frees(t.rec[k]) /\ u.pending = t.pending
  /\ u.activePerPeer = [t.activePerPeer EXCEPT ![k[1]] = @ - 1]
  /\ u.recordsPerPeer = t.recordsPerPeer
  /\ u.completed = Append(t.completed, k)
  /\ u.cached = IF t.rec[k].terminal \in Bodies THEN Append(t.cached, k) ELSE t.cached

LEMMA KeptBooks ==
  ASSUME NEW t \in Ledger, NEW u, NEW k \in Keys, NEW now \in Nat, Books(t, now), Kept(t, u, k, now)
  PROVE  Books(u, now)
<1>a. /\ \A j \in Keys \ {k} : u.rec[j] = t.rec[j]
      /\ t.rec[k].stage \in {"Running", "Finalizing"} /\ u.rec[k].stage = "Complete"
  BY DEF Kept
<1>b. /\ u.rec[k].completedAt = now /\ u.rec[k].result = t.rec[k].terminal
      /\ u.running = t.running - Frees(t.rec[k]) /\ u.pending = t.pending
      /\ u.activePerPeer = [t.activePerPeer EXCEPT ![k[1]] = @ - 1]
      /\ u.recordsPerPeer = t.recordsPerPeer
      /\ u.completed = Append(t.completed, k)
  BY DEF Kept
<1>c. t.rec[k].terminal \in Bodies => u.cached = Append(t.cached, k)
  BY DEF Kept
<1>d. t.rec[k].terminal \notin Bodies => u.cached = t.cached
  BY DEF Kept
<1>1. /\ Counts(u.running, StageSet(u, {"Running"})) /\ Lists(u.pending, StageSet(u, {"Queued"}))
      /\ \A p \in Peers : Counts(u.activePerPeer[p], OfPeer(p, StageSet(u, Active)))
  BY <1>a, <1>b, EndedCounts
<1>2. StageSet(u, {"Complete"}) = StageSet(t, {"Complete"}) \cup {k} /\ k \notin StageSet(t, {"Complete"})
  BY <1>a DEF StageSet
<1>3. t.completed \in Seq(Keys) /\ t.cached \in Seq(Keys)
  BY LedgerParts
<1>4. Lists(u.completed, StageSet(u, {"Complete"}))
  BY <1>2, <1>3, <1>b, ListsAdd DEF Books, ListBooks
<1>5. k \notin BodySet(t)
  BY <1>a DEF BodySet
<1>6. Lists(u.cached, BodySet(u))
  <2>1. Lists(t.cached, BodySet(t))
    BY DEF Books, ListBooks
  <2>2. CASE t.rec[k].terminal \in Bodies
    <3>1. BodySet(u) = BodySet(t) \cup {k}
      BY <1>a, <1>b, <2>2 DEF BodySet
    <3> QED
      BY <1>3, <1>5, <1>c, <2>1, <2>2, <3>1, ListsAdd
  <2>3. CASE t.rec[k].terminal \notin Bodies
    <3>1. BodySet(u) = BodySet(t)
      BY <1>a, <1>b, <2>3 DEF BodySet
    <3> QED
      BY <1>d, <2>1, <2>3, <3>1
  <2> QED
    BY <2>2, <2>3
<1>7. Records(u) = Records(t)
  BY <1>a DEF Records, Present
<1>8. \A p \in Peers : PeerBooks(u, p)
  BY <1>1, <1>7, <1>b DEF Books, PeerBooks
<1>9. OrderBooks(u, now)
  <2>1. \A i \in 1..Len(t.completed) : t.completed[i] \in Keys \ {k} /\ t.rec[t.completed[i]].stage = "Complete"
    BY <1>a DEF Books, ListBooks, Lists, StageSet
  <2>2. \A i \in 1..Len(t.cached) : t.cached[i] \in Keys \ {k} /\ t.rec[t.cached[i]].stage = "Complete"
    BY <1>a DEF Books, ListBooks, Lists, BodySet
  <2>3. \A j \in Keys : t.rec[j].stage = "Complete" => t.rec[j].completedAt <= now
    BY DEF Books, OrderBooks
  <2>4. InOrder(u, t.completed) /\ InOrder(u, t.cached)
    <3>1. \A i \in 1..Len(t.completed) : u.rec[t.completed[i]].completedAt = t.rec[t.completed[i]].completedAt
      BY <1>a, <2>1
    <3>2. \A i \in 1..Len(t.cached) : u.rec[t.cached[i]].completedAt = t.rec[t.cached[i]].completedAt
      BY <1>a, <2>2
    <3>3. InOrder(t, t.completed) /\ InOrder(t, t.cached)
      BY DEF Books, OrderBooks
    <3> QED
      BY <3>1, <3>2, <3>3, OrderKeeps
  <2>5. \A i \in 1..Len(t.completed) : u.rec[t.completed[i]].completedAt <= u.rec[k].completedAt
    BY <1>a, <1>b, <2>1, <2>3
  <2>6. \A i \in 1..Len(t.cached) : u.rec[t.cached[i]].completedAt <= u.rec[k].completedAt
    BY <1>a, <1>b, <2>2, <2>3
  <2>7. u.rec[k].completedAt \in Nat
    BY <1>b
  <2>8. InOrder(u, Append(t.completed, k)) /\ InOrder(u, Append(t.cached, k))
    BY <1>3, <2>4, <2>5, <2>6, <2>7, OrderAdd
  <2>9. \A j \in Keys : u.rec[j].stage = "Complete" => u.rec[j].completedAt <= now
    BY <1>a, <1>b, <2>3
  <2> QED
    BY <1>b, <1>c, <1>d, <2>4, <2>8, <2>9 DEF OrderBooks
<1> QED
  BY <1>1, <1>4, <1>6, <1>8, <1>9 DEF Books, ListBooks

\* finish() once the engine is closed: nothing of the call stays behind.
LEMMA GoneBooks ==
  ASSUME NEW t \in Ledger, NEW u, NEW k \in Keys, NEW now, Books(t, now),
         \A j \in Keys \ {k} : u.rec[j] = t.rec[j],
         t.rec[k].stage \in {"Running", "Finalizing"}, u.rec[k].stage = "Absent",
         u.running = t.running - Frees(t.rec[k]), u.pending = t.pending,
         u.activePerPeer = [t.activePerPeer EXCEPT ![k[1]] = @ - 1],
         u.recordsPerPeer = [t.recordsPerPeer EXCEPT ![k[1]] = @ - 1],
         u.completed = t.completed, u.cached = t.cached
  PROVE  Books(u, now)
<1>1. /\ Counts(u.running, StageSet(u, {"Running"})) /\ Lists(u.pending, StageSet(u, {"Queued"}))
      /\ \A p \in Peers : Counts(u.activePerPeer[p], OfPeer(p, StageSet(u, Active)))
  BY EndedCounts
<1>2. /\ Lists(u.completed, StageSet(u, {"Complete"})) /\ Lists(u.cached, BodySet(u))
      /\ OrderBooks(u, now)
  BY MovedOrder
<1>3. Records(u) = Records(t) \ {k} /\ k \in Records(t)
  BY DEF Records, Present
<1>4. ASSUME NEW p \in Peers PROVE PeerBooks(u, p)
  <2>1. Counts(t.recordsPerPeer[p], OfPeer(p, Records(t))) /\ t.recordsPerPeer \in [Peers -> Int]
    BY LedgerParts DEF Books, PeerBooks
  <2>2. u.recordsPerPeer[p] = IF k[1] = p THEN t.recordsPerPeer[p] - 1 ELSE t.recordsPerPeer[p]
    BY <2>1 DEF Keys
  <2>3. Counts(u.recordsPerPeer[p], OfPeer(p, Records(u)))
    BY <1>3, <2>1, <2>2, PeerDrop
  <2> QED
    BY <1>1, <2>3 DEF PeerBooks
<1> QED
  BY <1>1, <1>2, <1>4 DEF Books, ListBooks

LEMMA CompletedBooks ==
  ASSUME NEW t \in Ledger, NEW k \in Keys, NEW now \in Nat, NEW isClosed \in BOOLEAN, Books(t, now),
         t.rec[k].stage \in {"Running", "Finalizing"}
  PROVE  Books(Completed(t, k, now, isClosed), now)
<1> DEFINE r     == t.rec[k]
           done  == [r EXCEPT !.stage = "Complete", !.completedAt = now,
                              !.task = "none", !.candidate = NoLink, !.result = r.terminal]
           f     == [t.rec EXCEPT ![k] = done]
           n     == t.running - Frees(r)
           q     == IF r.stage = "Queued" THEN Without(t.pending, k) ELSE t.pending
           h     == [t.activePerPeer EXCEPT ![k[1]] = @ - 1]
           freed == [t EXCEPT !.rec = f, !.running = n, !.pending = q, !.activePerPeer = h]
           co    == Append(freed.completed, k)
           ca    == IF r.terminal \in Bodies THEN Append(freed.cached, k) ELSE freed.cached
           kept  == [freed EXCEPT !.completed = co, !.cached = ca]
           f2    == [freed.rec EXCEPT ![k] = Forget(done)]
           g2    == [freed.recordsPerPeer EXCEPT ![k[1]] = @ - 1]
           gone  == [freed EXCEPT !.rec = f2, !.recordsPerPeer = g2]
<1>1. r \in Record
  BY LedgerParts
<1>2. Completed(t, k, now, isClosed) = IF isClosed THEN gone ELSE Promote(trimCache(kept))
  BY DEF Completed
<1>3. h \in [Peers -> Int] /\ q = t.pending /\ q \in Seq(Keys)
  BY LedgerParts DEF Keys
<1>4. n \in Int
  BY LedgerParts DEF Frees
<1> HIDE DEF r
<1>5. done \in Record
  BY <1>1 DEF Record, Stages, Tasks
<1>6. done.stage = "Complete" /\ done.completedAt = now /\ done.result = r.terminal
  BY <1>1, Zenon DEF Record
<1> HIDE DEF done
<1>7. Forget(done).stage = "Absent"
  BY AbsentOK DEF Forget
<1>8. f \in [Keys -> Record] /\ f[k] = done /\ \A j \in Keys \ {k} : f[j] = t.rec[j]
  BY <1>5, LedgerParts
<1> HIDE DEF f, n, q, h
<1>9. freed \in Ledger
  BY <1>3, <1>4, <1>8 DEF Ledger
<1>10. /\ freed.rec = f /\ freed.running = n /\ freed.pending = q /\ freed.activePerPeer = h
       /\ freed.completed = t.completed /\ freed.cached = t.cached /\ freed.recordsPerPeer = t.recordsPerPeer
  BY DEF Ledger
<1> HIDE DEF freed
<1>11. /\ f2[k] = Forget(done) /\ \A j \in Keys \ {k} : f2[j] = t.rec[j]
       /\ co \in Seq(Keys) /\ ca \in Seq(Keys)
  BY <1>8, <1>10, LedgerParts
<1>12. /\ co = Append(t.completed, k) /\ g2 = [t.recordsPerPeer EXCEPT ![k[1]] = @ - 1]
       /\ ca = IF r.terminal \in Bodies THEN Append(t.cached, k) ELSE t.cached
  BY <1>10
<1> HIDE DEF f2, g2, co, ca
<1>13. kept \in Ledger
  BY <1>9, <1>11 DEF Ledger
<1>14. /\ gone.rec = f2 /\ gone.running = n /\ gone.pending = q /\ gone.activePerPeer = h
       /\ gone.completed = t.completed /\ gone.cached = t.cached /\ gone.recordsPerPeer = g2
  BY <1>9, <1>10 DEF Ledger
<1>15. /\ kept.rec = f /\ kept.running = n /\ kept.pending = q /\ kept.activePerPeer = h
       /\ kept.completed = co /\ kept.cached = ca /\ kept.recordsPerPeer = t.recordsPerPeer
  BY <1>9, <1>10 DEF Ledger
<1> HIDE DEF gone, kept
<1>16. CASE isClosed
  <2>1. gone.rec[k].stage = "Absent" /\ \A j \in Keys \ {k} : gone.rec[j] = t.rec[j]
    BY <1>7, <1>11, <1>14
  <2>2. gone.running = t.running - Frees(t.rec[k]) /\ gone.pending = t.pending
    BY <1>3, <1>14 DEF n, r
  <2>3. /\ gone.activePerPeer = [t.activePerPeer EXCEPT ![k[1]] = @ - 1]
        /\ gone.recordsPerPeer = [t.recordsPerPeer EXCEPT ![k[1]] = @ - 1]
    BY <1>12, <1>14 DEF h
  <2>4. Books(gone, now)
    BY <1>14, <2>1, <2>2, <2>3, GoneBooks
  <2> QED
    BY <1>2, <1>16, <2>4
<1>17. CASE ~isClosed
  <2>1. /\ kept.rec[k].stage = "Complete" /\ kept.rec[k].completedAt = now
        /\ kept.rec[k].result = t.rec[k].terminal /\ \A j \in Keys \ {k} : kept.rec[j] = t.rec[j]
    BY <1>6, <1>8, <1>15 DEF r
  <2>2. kept.running = t.running - Frees(t.rec[k]) /\ kept.pending = t.pending
    BY <1>3, <1>15 DEF n, r
  <2>3. kept.activePerPeer = [t.activePerPeer EXCEPT ![k[1]] = @ - 1]
    BY <1>15 DEF h
  <2>4. /\ kept.completed = Append(t.completed, k) /\ kept.recordsPerPeer = t.recordsPerPeer
        /\ kept.cached = IF t.rec[k].terminal \in Bodies THEN Append(t.cached, k) ELSE t.cached
    BY <1>12, <1>15 DEF r
  <2>5. Kept(t, kept, k, now)
    BY <2>1, <2>2, <2>3, <2>4 DEF Kept
  <2>6. Books(trimCache(kept), now) /\ trimCache(kept) \in Ledger
    BY <1>13, <2>5, KeptBooks, trimCacheBooks, trimCacheType
  <2>7. Books(Promote(trimCache(kept)), now)
    BY <2>6, PromoteBooks
  <2> QED
    BY <1>2, <1>17, <2>7
<1> QED
  BY <1>16, <1>17

-----------------------------------------------------------------------------
(* The steps of the engine keep the books.                                 *)

LEMMA BooksParts ==
  ASSUME BooksInv
  PROVE  /\ SafetyInv /\ TypeOK /\ ledger \in Ledger /\ clock \in Nat /\ closed \in BOOLEAN
         /\ Books(ledger, clock)
BY SafetyParts DEF BooksInv

\* Time only passes.
LEMMA LaterBooks ==
  ASSUME NEW t \in Ledger, NEW now \in Nat, Books(t, now)
  PROVE  Books(t, now + 1)
<1>1. \A k \in Keys : t.rec[k].completedAt \in Nat
  BY LedgerParts DEF Record
<1>2. OrderBooks(t, now + 1)
  BY <1>1 DEF Books, OrderBooks
<1> QED
  BY <1>2 DEF Books

LEMMA InvokeBooks ==
  ASSUME BooksInv, NEW l \in Links, InvokeStep(l)
  PROVE  Books(ledger', clock')
<1> DEFINE t == expireLocked(ledger, clock)
           k == KeyOf(l)
           x == reader[l]
<1>1. SafetyInv /\ TypeOK /\ ledger \in Ledger /\ clock \in Nat /\ Books(ledger, clock)
  BY BooksParts
<1>2. t \in Ledger /\ Books(t, clock)
  BY <1>1, expireLockedType, expireLockedBooks
<1>3. k \in Keys
  BY <1>1, KeyOfType
<1>4. x \in Reader
  BY <1>1, TypeParts DEF CallTypes
<1>5. x.sig \in Sigs /\ x.sess \in Sessions \cup {NoSession} /\ x.dl \in Nat
  BY <1>4 DEF Reader
<1>6. UNCHANGED clock
  BY DEF InvokeStep, InvokeLookup, InvokeDenied, InvokeAllowed, Authenticated, AuthenticationDenied,
     scopedDuplicate, Admit, ByReader
<1>7. \/ ledger' \in {ledger, t}
      \/ Admit(l) /\ ledger' \notin {ledger, t}
  BY DEF InvokeStep, InvokeLookup, InvokeDenied, InvokeAllowed, Authenticated, AuthenticationDenied,
     scopedDuplicate
<1>8. ASSUME Admit(l), ledger' \notin {ledger, t} PROVE Books(ledger', clock)
  <2>1. /\ ~Present(t.rec[k])
        /\ \E n \in (IF BudgetTight THEN 0..Len(t.cached) ELSE {0}) :
             ledger' \in {Install(DropOldest(t, n), k, x.sig, x.sess, x.dl, clock), DropOldest(t, n)}
    BY <1>8, Zenon DEF Admit, t, k, x
  <2> HIDE DEF t, k, x
  <2>2. Len(t.cached) \in Nat
    BY <1>2, LedgerParts, LenProperties
  <2>3. PICK n \in 0..Len(t.cached) :
          ledger' \in {Install(DropOldest(t, n), k, x.sig, x.sess, x.dl, clock), DropOldest(t, n)}
    BY <2>1, <2>2
  <2> DEFINE u == DropOldest(t, n)
  <2>4. u \in Ledger /\ Books(u, clock) /\ SameCalls(t, u)
    BY <1>2, DropOldestType, DropOldestBooks, DropOldestEffect
  <2> HIDE DEF u
  <2>5. ~Present(u.rec[k])
    BY <1>3, <2>1, <2>4 DEF SameCalls, SameCall, Present
  <2>6. Books(Install(u, k, x.sig, x.sess, x.dl, clock), clock)
    BY <1>1, <1>3, <1>5, <2>4, <2>5, InstallBooks
  <2> QED
    BY <2>3, <2>4, <2>6 DEF u
<1> HIDE DEF t, k, x
<1> QED
  BY <1>1, <1>2, <1>6, <1>7, <1>8

LEMMA ControlBooks ==
  ASSUME BooksInv, NEW l \in Links, ControlStep(l)
  PROVE  Books(ledger', clock')
<1> DEFINE t == expireLocked(ledger, clock)
           k == KeyOf(l)
<1>1. TypeOK /\ ledger \in Ledger /\ clock \in Nat /\ Books(ledger, clock)
  BY BooksParts
<1>2. t \in Ledger /\ Books(t, clock)
  BY <1>1, expireLockedType, expireLockedBooks
<1>3. k \in Keys
  BY <1>1, KeyOfType
<1>4. UNCHANGED clock
  BY DEF ControlStep, ControlDenied, ControlAllowed, ScopedLookup, ScopedCommit, ByReader
<1>5. ASSUME NEW u \in {ledger, t}, Controlled(l, u, k) PROVE Books(ledger', clock)
  <2>1. ledger' \in {dropResultBody(u, k), RequestCancel(u, {k}), u}
    BY <1>5, Zenon DEF Controlled
  <2> HIDE DEF t, k
  <2>2. u \in Ledger /\ Books(u, clock)
    BY <1>1, <1>2
  <2> QED
    BY <1>3, <2>1, <2>2, dropResultBodyBooks, RequestCancelBooks
<1>6. \/ ledger' \in {ledger, t} \/ Controlled(l, t, k) \/ Controlled(l, ledger, k)
  <2>1. ControlDenied(l) => ledger' = ledger
    BY DEF ControlDenied
  <2>2. ControlAllowed(l) => ledger' = t \/ Controlled(l, t, k)
    BY Zenon DEF ControlAllowed
  <2>3. ScopedLookup(l) => ledger' = t
    BY DEF ScopedLookup
  <2>4. ScopedCommit(l) => ledger' = ledger \/ Controlled(l, ledger, k)
    BY Zenon DEF ScopedCommit
  <2> QED
    BY <2>1, <2>2, <2>3, <2>4 DEF ControlStep
<1> HIDE DEF t, k
<1> QED
  BY <1>1, <1>2, <1>4, <1>5, <1>6

\* The launcher and the job of a call do not touch what the books are about,
\* until finish() ends the call.
LEMMA JobBooks ==
  ASSUME BooksInv, NEW k \in Keys, JobStep(k)
  PROVE  Books(ledger', clock')
<1> DEFINE r == ledger.rec[k]
<1>1. SafetyInv /\ ledger \in Ledger /\ clock \in Nat /\ closed \in BOOLEAN /\ Books(ledger, clock)
  BY BooksParts
<1>2. r \in Record
  BY <1>1, LedgerParts
<1>3. ASSUME NEW e, Update(k, e), e.stage = r.stage, e.completedAt = r.completedAt, e.result = r.result
      PROVE  Books(ledger', clock')
  <2>1. ledger' = [ledger EXCEPT !.rec[k] = e] /\ UNCHANGED clock
    BY <1>3 DEF Update, ByJob
  <2> QED
    BY <1>1, <1>3, <2>1, UpdateBooks
<1>4. ASSUME NEW o, EndJob(k, o) PROVE Books(ledger', clock')
  <2> DEFINE e == [r EXCEPT !.task = "select", !.terminal = o]
  <2>1. Update(k, e)
    BY <1>4 DEF EndJob
  <2>2. e.stage = r.stage /\ e.completedAt = r.completedAt /\ e.result = r.result
    BY <1>2, Zenon DEF Record
  <2> HIDE DEF e
  <2> QED
    BY <1>3, <2>1, <2>2
<1> HIDE DEF r
<1>5. CASE Launch(k)
  <2> DEFINE e == [r EXCEPT !.launcher = "launched", !.task = "ready"]
  <2>1. Update(k, e)
    BY <1>5 DEF Launch, r
  <2>2. e.stage = r.stage /\ e.completedAt = r.completedAt /\ e.result = r.result
    BY <1>2, Zenon DEF Record
  <2> HIDE DEF e
  <2> QED
    BY <1>3, <2>1, <2>2
<1>6. CASE PublishJob(k)
  <2> DEFINE e == [r EXCEPT !.launcher = "published"]
  <2>1. Update(k, e)
    BY <1>6 DEF PublishJob, r
  <2>2. e.stage = r.stage /\ e.completedAt = r.completedAt /\ e.result = r.result
    BY <1>2, Zenon DEF Record
  <2> HIDE DEF e
  <2> QED
    BY <1>3, <2>1, <2>2
<1>7. CASE CheckCancel(k)
  <2> DEFINE e == [r EXCEPT !.launcher = "checked", !.jobCancelled = r.jobCancelled \/ r.cancelRequested]
  <2>1. Update(k, e)
    BY <1>7 DEF CheckCancel, r
  <2>2. e.stage = r.stage /\ e.completedAt = r.completedAt /\ e.result = r.result
    BY <1>2, Zenon DEF Record
  <2> HIDE DEF e
  <2> QED
    BY <1>3, <2>1, <2>2
<1>8. CASE JobStart(k)
  <2> DEFINE e == [r EXCEPT !.task = "decoding"]
  <2>1. EndJob(k, "CancelledBeforeStart") \/ EndJob(k, "DeadlineBeforeStart") \/ Update(k, e)
    BY <1>8, Zenon DEF JobStart, r
  <2>2. e.stage = r.stage /\ e.completedAt = r.completedAt /\ e.result = r.result
    BY <1>2, Zenon DEF Record
  <2> HIDE DEF e
  <2> QED
    BY <1>3, <1>4, <2>1, <2>2
<1>9. CASE JobBegin(k)
  <2> DEFINE e == [r EXCEPT !.task = "handler", !.began = TRUE]
  <2>1. Update(k, e)
    BY <1>9 DEF JobBegin, r
  <2>2. e.stage = r.stage /\ e.completedAt = r.completedAt /\ e.result = r.result
    BY <1>2, Zenon DEF Record
  <2> HIDE DEF e
  <2> QED
    BY <1>3, <2>1, <2>2
<1>10. CASE JobFails(k) \/ HandlerEnds(k)
  BY <1>4, <1>10 DEF JobFails, HandlerEnds
<1>11. CASE FinishSelect(k)
  <2> DEFINE c == IF links[k[1]] \in ready \cap TrustedLinks THEN links[k[1]] ELSE NoLink
             e == [r EXCEPT !.task = "commit", !.candidate = c]
  <2>1. Update(k, e)
    BY <1>11 DEF FinishSelect, r
  <2> HIDE DEF c
  <2>2. e.stage = r.stage /\ e.completedAt = r.completedAt /\ e.result = r.result
    BY <1>2, Zenon DEF Record
  <2> HIDE DEF e
  <2> QED
    BY <1>3, <2>1, <2>2
<1>12. CASE FinishCommit(k)
  <2>1. r.task = "commit" /\ ledger' = Completed(ledger, k, clock, closed) /\ UNCHANGED clock
    BY <1>12 DEF FinishCommit, ByJob, r
  <2>2. ledger.rec[k].stage \in {"Running", "Finalizing"}
    BY <1>1, <2>1 DEF SafetyInv, LedgerOK, CallsOK, CallOK, r
  <2> QED
    BY <1>1, <2>1, <2>2, CompletedBooks
<1> QED
  BY <1>5, <1>6, <1>7, <1>8, <1>9, <1>10, <1>11, <1>12 DEF JobStep

LEMMA CancelBooks ==
  ASSUME BooksInv, NEW c \in cancels, CancelStep(c)
  PROVE  Books(ledger', clock')
<1>1. TypeOK /\ ledger \in Ledger /\ clock \in Nat /\ Books(ledger, clock)
  BY BooksParts
<1>2. c.k \in Keys /\ ledger.rec[c.k] \in Record
  BY <1>1, TypeParts, LedgerParts DEF CallTypes, Cancellation
<1>3. UNCHANGED clock
  BY DEF CancelStep, completeQueued, AwaitFinish, CancelJob, CancelAbandoned, ByJob
<1>4. CASE completeQueued(c)
  <2> DEFINE why == IF c.by = "sweep" THEN "DeadlineBeforeStart" ELSE "CancelledBeforeStart"
  <2>1. \/ ledger' = ledger
        \/ ledger.rec[c.k].stage = "Queued" /\ ledger' = Claimed(ledger, c.k, why)
    BY <1>4 DEF completeQueued
  <2> HIDE DEF why
  <2> QED
    BY <1>1, <1>2, <1>3, <2>1, ClaimedBooks
<1>5. CASE AwaitFinish(c) \/ CancelAbandoned(c)
  BY <1>1, <1>3, <1>5 DEF AwaitFinish, CancelAbandoned
<1>6. CASE CancelJob(c)
  <2> DEFINE r == ledger.rec[c.k]
             e == [r EXCEPT !.jobCancelled = TRUE]
             u == [ledger EXCEPT !.rec[c.k] = e]
  <2>1. ledger' = ledger \/ ledger' = u
    BY <1>6 DEF CancelJob
  <2>2. e.stage = r.stage /\ e.completedAt = r.completedAt /\ e.result = r.result
    BY <1>2, Zenon DEF Record
  <2> HIDE DEF e
  <2>3. Books(u, clock)
    BY <1>1, <1>2, <2>2, UpdateBooks
  <2> QED
    BY <1>1, <1>3, <2>1, <2>3
<1> QED
  BY <1>4, <1>5, <1>6 DEF CancelStep

LEMMA CancelAllBooks ==
  ASSUME BooksInv, NEW ks, NEW by, NEW plan, CancelAll(ks, by, plan)
  PROVE  Books(ledger', clock')
<1>1. ledger \in Ledger /\ Books(ledger, clock)
  BY BooksParts
<1>2. ledger' = RequestCancel(ledger, ks) /\ clock' = clock
  BY DEF CancelAll
<1> QED
  BY <1>1, <1>2, RequestCancelBooks

LEMMA HostStepBooks ==
  ASSUME BooksInv, HostStep
  PROVE  Books(ledger', clock')
<1>1. ledger \in Ledger /\ clock \in Nat /\ Books(ledger, clock)
  BY BooksParts
<1>2. CASE AttachCloseOld \/ RevokeClose \/ CloseLinks
  <2>1. UNCHANGED <<clock, ledger>>
    BY <1>2 DEF AttachCloseOld, RevokeClose, CloseLinks, ByLink, callVars
  <2> QED
    BY <1>1, <2>1
<1>3. CASE RevokeMark
  BY <1>3, CancelAllBooks DEF RevokeMark
<1>4. CASE CloseBegin
  BY <1>4, CancelAllBooks DEF CloseBegin
<1>5. CASE CloseEnd
  <2>1. /\ ledger' = [Retire(ledger, Range(ledger.completed)) EXCEPT !.completed = <<>>, !.cached = <<>>]
        /\ UNCHANGED clock
    BY <1>5 DEF CloseEnd
  <2>2. Books([Retire(ledger, Range(ledger.completed)) EXCEPT !.completed = <<>>, !.cached = <<>>], clock)
    BY <1>1, CloseBooks
  <2> QED
    BY <2>1, <2>2, Zenon
<1>6. CASE sweep
  <2>1. ledger' = expireLocked(ledger, clock) /\ UNCHANGED clock
    BY <1>6 DEF sweep, ByJob
  <2> QED
    BY <1>1, <2>1, expireLockedBooks
<1>7. CASE Tick
  <2>1. ledger' = ledger /\ clock' = clock + 1
    BY <1>7 DEF Tick, callVars
  <2> QED
    BY <1>1, <2>1, LaterBooks
<1> QED
  BY <1>2, <1>3, <1>4, <1>5, <1>6, <1>7 DEF HostStep

LEMMA BooksInit == Init => BooksInv
<1> SUFFICES ASSUME Init PROVE BooksInv
  OBVIOUS
<1>1. /\ \A k \in Keys : ledger.rec[k] = Absent(0, 0)
      /\ ledger.pending = <<>> /\ ledger.completed = <<>> /\ ledger.cached = <<>> /\ ledger.running = 0
      /\ \A p \in Peers : ledger.recordsPerPeer[p] = 0 /\ ledger.activePerPeer[p] = 0
  BY DEF Init
<1>2. \A k \in Keys : ledger.rec[k].stage = "Absent"
  BY <1>1, AbsentOK
<1>3. \A st : "Absent" \notin st => StageSet(ledger, st) = {}
  BY <1>2 DEF StageSet
<1>4. StageSet(ledger, {"Running"}) = {} /\ StageSet(ledger, {"Queued"}) = {} /\ StageSet(ledger, {"Complete"}) = {}
  BY <1>3
<1>5. StageSet(ledger, Active) = {} /\ BodySet(ledger) = {} /\ Records(ledger) = {}
  BY <1>2 DEF StageSet, Active, BodySet, Records, Present
<1>6. Counts(0, {})
  BY FS_EmptySet DEF Counts
<1>7. Lists(<<>>, {}) /\ InOrder(ledger, <<>>)
  BY DEF Lists, Once, InOrder
<1>8. ListBooks(ledger)
  BY <1>1, <1>4, <1>5, <1>7 DEF ListBooks
<1>9. \A p \in Peers : PeerBooks(ledger, p)
  BY <1>1, <1>5, <1>6 DEF PeerBooks, OfPeer
<1>10. OrderBooks(ledger, clock)
  BY <1>1, <1>2, <1>7 DEF OrderBooks
<1>11. Books(ledger, clock)
  BY <1>1, <1>4, <1>6, <1>8, <1>9, <1>10 DEF Books
<1> QED
  BY <1>11, SafetyInit DEF BooksInv

LEMMA BooksNext == BooksInv /\ [Next]_vars => BooksInv'
<1> SUFFICES ASSUME BooksInv, [Next]_vars PROVE BooksInv'
  OBVIOUS
<1>1. SafetyInv'
  BY SafetyNext DEF BooksInv
<1> SUFFICES Books(ledger', clock')
  BY <1>1 DEF BooksInv
<1>2. ASSUME UNCHANGED <<clock, ledger>> PROVE Books(ledger', clock')
  BY <1>2, BooksParts
<1>3. CASE UNCHANGED vars
  BY <1>2, <1>3 DEF vars, callVars
<1>4. ASSUME NEW l \in Links, LinkStep(l) PROVE Books(ledger', clock')
  BY <1>2, <1>4 DEF LinkStep, attach, AttachFails, LinkLost, detach, ByLink, callVars
<1>5. ASSUME NEW l \in Links, ReaderStep(l) PROVE Books(ledger', clock')
  <2>1. CASE Hello(l) \/ onMessage(l) \/ Send(l) \/ ReaderCancelled(l)
    BY <1>2, <2>1 DEF Hello, onMessage, Send, ReaderCancelled, ByReader
  <2> QED
    BY <1>5, <2>1, InvokeBooks, ControlBooks DEF ReaderStep
<1>6. ASSUME NEW d \in deliver, Deliver(d) PROVE Books(ledger', clock')
  BY <1>2, <1>6 DEF Deliver
<1>7. ASSUME NEW p \in Peers, TrustChange(p) PROVE Books(ledger', clock')
  BY <1>2, <1>7 DEF TrustChange, callVars
<1>8. ASSUME NEW s \in Sessions, SessionStep(s) PROVE Books(ledger', clock')
  <2>1. CASE SessionEnds(s) \/ SessionRevoked(s)
    BY <1>2, <2>1 DEF SessionEnds, SessionRevoked, callVars
  <2>2. CASE SessionMark(s)
    BY <2>2, CancelAllBooks DEF SessionMark
  <2> QED
    BY <1>8, <2>1, <2>2 DEF SessionStep
<1> QED
  BY <1>3, <1>4, <1>5, <1>6, <1>7, <1>8, JobBooks, CancelBooks, HostStepBooks DEF Next

\* The inductive invariant of the books: slots, queue, eviction orders and
\* per-peer counts say what the records say, and the orders are by age.
THEOREM BooksInvariant == Spec => []BooksInv
BY BooksInit, BooksNext, PTL DEF Spec

\* The counters and queues beside `records` are exact in every reachable state,
\* whatever the interleaving of completion, cancellation, expiry and close.
THEOREM AccountingExactHolds == Spec => []AccountingExact
<1>1. ASSUME BooksInv PROVE AccountingExact
  <2>1. ledger \in Ledger /\ Books(ledger, clock)
    BY <1>1, BooksParts
  <2>2. \A st : InStage(st) = StageSet(ledger, st)
    BY DEF InStage, StageSet
  <2>3. BodySet(ledger) = {k \in InStage({"Complete"}) : ledger.rec[k].result \in Bodies}
    BY DEF InStage, BodySet
  <2>4. Range(ledger.pending) = InStage({"Queued"}) /\ Len(ledger.pending) = Cardinality(InStage({"Queued"}))
    BY <2>1, <2>2, LedgerParts, ListsCount DEF Books, ListBooks
  <2>5. Range(ledger.completed) = InStage({"Complete"}) /\ Len(ledger.completed) = Cardinality(InStage({"Complete"}))
    BY <2>1, <2>2, LedgerParts, ListsCount DEF Books, ListBooks
  <2>6. Range(ledger.cached) = BodySet(ledger) /\ Len(ledger.cached) = Cardinality(BodySet(ledger))
    BY <2>1, LedgerParts, ListsCount DEF Books, ListBooks
  <2>7. ledger.running = Cardinality(InStage({"Running"}))
    BY <2>1, <2>2 DEF Books, Counts
  <2>8. \A p \in Peers : /\ ledger.recordsPerPeer[p] = Cardinality(OfPeer(p, Records(ledger)))
                         /\ ledger.activePerPeer[p] = Cardinality(OfPeer(p, InStage(Active)))
    BY <2>1, <2>2 DEF Books, PeerBooks, Counts
  <2>9. \A q \in {<<ledger.pending, InStage({"Queued"})>>, <<ledger.completed, InStage({"Complete"})>>,
                  <<ledger.cached, BodySet(ledger)>>} : Range(q[1]) = q[2] /\ Len(q[1]) = Cardinality(q[2])
    BY <2>4, <2>5, <2>6
  <2> QED
    BY <2>3, <2>7, <2>8, <2>9 DEF AccountingExact
<1> QED
  BY <1>1, BooksInvariant, PTL

\* Expiry stops at the first young entry of each order, and no overdue record
\* or body is left behind it.
THEOREM ExpiryCompleteHolds == Spec => []ExpiryComplete
<1>1. ASSUME BooksInv PROVE ExpiryComplete
  <2> DEFINE t == expireLocked(ledger, clock)
  <2>1. ledger \in Ledger /\ clock \in Nat /\ Books(ledger, clock)
    BY <1>1, BooksParts
  <2>2. /\ \A k \in StageSet(t, {"Complete"}) : clock < t.rec[k].completedAt + RecordTtl
        /\ \A k \in BodySet(t) : clock < t.rec[k].completedAt + BodyTtl
    BY <2>1, expireLockedBooks
  <2> HIDE DEF t
  <2>3. \A k \in Keys : t.rec[k].stage = "Complete" =>
          /\ clock < t.rec[k].completedAt + RecordTtl
          /\ t.rec[k].result \in Bodies => clock < t.rec[k].completedAt + BodyTtl
    BY <2>2 DEF StageSet, BodySet
  <2> QED
    BY <2>3 DEF ExpiryComplete, t
<1> QED
  BY <1>1, BooksInvariant, PTL

-----------------------------------------------------------------------------
(* What the records, the readers and the cancellers have to do with each   *)
(* other, beyond SafetyInv.                                                *)

NotBegunCodes == {"CancelledBeforeStart", "DeadlineBeforeStart", "InvalidPayload", "AccessRevoked"}

\* The codes a call can end with, what is kept of one that ended, and that its
\* procedure was looked up before it was admitted.
CodeOK(r) ==
  /\ r.terminal \in {"none"} \cup NotBegunCodes \cup HandlerOutcomes
  /\ r.stage = "Complete" => r.terminal # "none" /\ r.result \in {r.terminal, "none"}
  /\ Present(r) => r.sig \in Known

Codes == \A k \in Keys : CodeOK(ledger.rec[k])

\* A reader at work belongs to a link that was attached, and authorizes only
\* procedures it has found.
ReaderOK(l) ==
  /\ reader[l].pc # "idle" => linkState[l] # "new"
  /\ reader[l].pc \in {"auth", "admit"} => reader[l].sig \in Known

Readers == \A l \in Links : ReaderOK(l)

\* An owner of cancellations has marked the call of k: its login, trust in its
\* device, or the engine itself is gone.
Owners == Sessions \cup {"revoke", "close"}
Marked(k, b) ==
  \/ b = "close" /\ closed
  \/ b = "revoke" /\ k[1] \notin trusted /\ ~(revoke.pc = "mark" /\ revoke.peer = k[1])
  \/ b \in Sessions /\ ledger.rec[k].sess = b /\ session[b] \in {"cancelling", "revoked"}

\* The owner b still has to take the step `what` for the call of k.
Owes(b, k, what) ==
  \E c \in cancels : /\ c.by = b /\ c.k = k /\ c.inst = ledger.rec[k].inst
                     /\ \E i \in 1..Len(c.plan) : c.plan[i] = what

Exposed(r) == r.launcher = "checked" /\ r.task \in {"ready", "decoding", "handler"} /\ ~r.jobCancelled

\* A marked call knows that it is cancelled; while it is queued its owner has
\* yet to claim it, and while its job runs on its owner has yet to cancel it.
Reached ==
  \A k \in Keys, b \in Owners : ledger.rec[k].stage \in Active /\ Marked(k, b) =>
    /\ ledger.rec[k].cancelRequested
    /\ ledger.rec[k].stage = "Queued" => Owes(b, k, "claim")
    /\ Exposed(ledger.rec[k]) => Owes(b, k, "job")

\* An owner that has returned owes nothing.
Settled ==
  \A c \in cancels :
    /\ c.by = "revoke" => revoke.pc # "idle"
    /\ c.by = "close" => phase \notin {"links", "sealed"}
    /\ \A s \in Sessions : c.by = s => session[s] # "revoked"

-----------------------------------------------------------------------------
(* How one step may change a record r to q.                                *)

\* What belongs to one admission stays, and a cancellation is not withdrawn.
Carries(r, q) ==
  /\ q.inst = r.inst /\ q.sig = r.sig /\ q.sess = r.sess
  /\ (r.cancelRequested => q.cancelRequested) /\ (r.jobCancelled => q.jobCancelled)

\* The tombstone is given up: its time has come, or the engine is closed.
Lapses(r, q, now, isClosed) ==
  /\ r.stage = "Complete" /\ (isClosed \/ now >= r.completedAt + RecordTtl)
  /\ SameCall(Absent(r.inst, r.completedAt), q)

\* The head of the queue gets a slot.
Rises(r, q) ==
  /\ Carries(r, q) /\ r.stage = "Queued" /\ q.stage = "Running" /\ q.launcher = "due"
  /\ q.task = "none" /\ q.terminal = "none" /\ ~q.began

\* A canceller claims a queued call.
Taken(r, q) ==
  /\ Carries(r, q) /\ r.stage = "Queued" /\ q.stage = "Finalizing" /\ q.task = "select"
  /\ q.terminal \in NotBegunCodes /\ ~q.began /\ q.launcher = r.launcher

\* The launcher publishes its job and looks again for a cancellation.
Publishes(r, q) ==
  /\ Carries(r, q) /\ q.stage = r.stage /\ q.task = r.task /\ q.terminal = r.terminal
  /\ (q.began <=> r.began) /\ q.result = r.result /\ q.completedAt = r.completedAt
  /\ r.launcher \in {"launched", "published"} /\ q.launcher \in {"published", "checked"}
  /\ q.launcher = "checked" /\ q.cancelRequested => q.jobCancelled

\* The job goes on.
Runs(r, q) ==
  /\ Carries(r, q) /\ r.stage \in {"Running", "Finalizing"} /\ q.stage = r.stage /\ q.terminal = r.terminal
  /\ (q.began <=> r.began) \/ (q.began /\ ~r.began)
  /\ \/ q.launcher = "launched"
     \/ q.task = "commit"
     \/ q.launcher = r.launcher /\ r.task \in {"ready", "decoding"}

\* The job ends with a code that tells whether its handler began.
Ends(r, q) ==
  /\ Carries(r, q) /\ r.stage \in {"Running", "Finalizing"} /\ q.stage = r.stage
  /\ q.task = "select" /\ (q.began <=> r.began)
  /\ q.terminal \in IF r.began THEN HandlerOutcomes ELSE NotBegunCodes

\* finish() leaves a tombstone, or nothing once the engine is closed.
Finishes(r, q, now) ==
  /\ r.task = "commit" /\ q.stage = "Complete" /\ q.completedAt = now /\ q.sig = r.sig
  /\ q.terminal = r.terminal /\ (q.began <=> r.began) /\ q.result \in {r.terminal, "none"}

Vanishes(r, q, now, isClosed) ==
  r.task = "commit" /\ isClosed /\ SameCall(Absent(r.inst, now), q)

Lives(r, q, now, isClosed) ==
  \/ SameCall(r, q) \/ Lapses(r, q, now, isClosed) \/ Rises(r, q) \/ Taken(r, q) \/ Publishes(r, q)
  \/ Runs(r, q) \/ Ends(r, q) \/ Finishes(r, q, now) \/ Vanishes(r, q, now, isClosed)

\* A new call of the same id.
Renewed(r, q, now) ==
  /\ ~Present(r) \/ (r.stage = "Complete" /\ now >= r.completedAt + RecordTtl)
  /\ q.inst = r.inst + 1 /\ q.stage \in {"Running", "Queued"} /\ q.launcher \in {"due", "none"}
  /\ q.task = "none" /\ q.terminal = "none" /\ ~q.began /\ q.result = "none"

LEMMA AbsentInst ==
  ASSUME NEW inst, NEW end
  PROVE  Absent(inst, end).inst = inst
BY DEF Absent

LEMMA AbsentStage ==
  ASSUME NEW inst, NEW end
  PROVE  Absent(inst, end).stage = "Absent"
BY DEF Absent

LEMMA AbsentTerminal ==
  ASSUME NEW inst, NEW end
  PROVE  Absent(inst, end).terminal = "none"
BY DEF Absent

LEMMA SameCallTransitive ==
  ASSUME NEW a, NEW b, NEW c, SameCall(a, b), SameCall(b, c)
  PROVE  SameCall(a, c)
BY DEF SameCall

LEMMA AbsentSame ==
  ASSUME NEW inst \in Nat, NEW end \in Nat
  PROVE  SameCall(Absent(inst, end), Absent(inst, end))
BY AbsentType, SameCallUpdates

\* Expiry: a record stays as it is or lapses.
Expires(r, q, now) ==
  \/ SameCall(r, q)
  \/ r.stage = "Complete" /\ now >= r.completedAt + RecordTtl /\ SameCall(Absent(r.inst, r.completedAt), q)

LEMMA ExpiresLives ==
  ASSUME NEW r, NEW q, NEW now, NEW isClosed, Expires(r, q, now)
  PROVE  Lives(r, q, now, isClosed)
BY DEF Expires, Lives, Lapses

LEMMA ExpiresThen ==
  ASSUME NEW a, NEW b, NEW c, NEW now, Expires(a, b, now), SameCall(b, c)
  PROVE  Expires(a, c, now)
<1>1. CASE SameCall(a, b)
  BY <1>1, SameCallTransitive DEF Expires
<1>2. CASE ~SameCall(a, b)
  <2>1. a.stage = "Complete" /\ now >= a.completedAt + RecordTtl /\ SameCall(Absent(a.inst, a.completedAt), b)
    BY <1>2, Zenon DEF Expires
  <2>2. SameCall(Absent(a.inst, a.completedAt), c)
    BY <2>1, SameCallTransitive
  <2> QED
    BY <2>1, <2>2 DEF Expires
<1> QED
  BY <1>1, <1>2

LEMMA expireLockedLives ==
  ASSUME NEW t \in Ledger, NEW now \in Nat, QueuesOf(t), NEW k \in Keys
  PROVE  Expires(t.rec[k], expireLocked(t, now).rec[k], now)
<1> DEFINE u == expireLocked(t, now)
<1>1. PICK n \in 0..Len(t.completed) :
        /\ \A j \in First(t.completed, n) : now >= t.rec[j].completedAt + RecordTtl
        /\ \A j \in Keys :
             IF j \in First(t.completed, n)
             THEN u.rec[j] = Absent(t.rec[j].inst, t.rec[j].completedAt)
             ELSE SameCall(t.rec[j], u.rec[j])
  <2>1. \E n \in 0..Len(t.completed) :
           /\ u.pending = t.pending /\ u.running = t.running
           /\ u.completed = From(t.completed, n)
           /\ Len(u.cached) <= Len(t.cached)
           /\ \A j \in First(t.completed, n) : now >= t.rec[j].completedAt + RecordTtl
           /\ \A j \in Keys :
                IF j \in First(t.completed, n)
                THEN u.rec[j] = Absent(t.rec[j].inst, t.rec[j].completedAt)
                ELSE SameCall(t.rec[j], u.rec[j])
    BY expireLockedEffect
  <2> HIDE DEF u
  <2> QED
    BY <2>1
<1> HIDE DEF u
<1>2. t.completed \in Seq(Keys) /\ t.rec[k] \in Record /\ t.rec[k].inst \in Nat /\ t.rec[k].completedAt \in Nat
  BY LedgerParts DEF Record
<1>3. CASE k \in First(t.completed, n)
  <2>1. t.rec[k].stage = "Complete"
    BY <1>2, <1>3 DEF First, QueuesOf, QueueOf
  <2>2. SameCall(Absent(t.rec[k].inst, t.rec[k].completedAt), u.rec[k])
    BY <1>1, <1>2, <1>3, AbsentSame
  <2> QED
    BY <1>1, <1>3, <2>1, <2>2 DEF Expires, u
<1>4. CASE k \notin First(t.completed, n)
  BY <1>1, <1>4 DEF Expires, u
<1> QED
  BY <1>3, <1>4
-----------------------------------------------------------------------------
(* Every step of the engine changes the records in these ways.             *)

AllLive == \A k \in Keys : Lives(ledger.rec[k], ledger'.rec[k], clock, closed')

LEMMA RecordOf ==
  ASSUME SafetyInv, NEW k \in Keys
  PROVE  /\ ledger.rec[k] \in Record /\ CallOK(ledger.rec[k]) /\ SameCall(ledger.rec[k], ledger.rec[k])
         /\ ledger.rec[k].inst \in Nat /\ ledger.rec[k].completedAt \in Nat
<1>1. ledger.rec[k] \in Record /\ CallOK(ledger.rec[k])
  BY SafetyParts, LedgerParts DEF LedgerOK, CallsOK
<1> QED
  BY <1>1, SameCallUpdates DEF Record

LEMMA SteadyLive ==
  ASSUME SafetyInv, UNCHANGED ledger
  PROVE  AllLive
BY RecordOf DEF AllLive, Lives

LEMMA UpdateLive ==
  ASSUME SafetyInv, NEW k \in Keys, NEW e, Update(k, e), Lives(ledger.rec[k], e, clock, closed')
  PROVE  AllLive
<1>1. ledger \in Ledger /\ ledger' = [ledger EXCEPT !.rec[k] = e]
  BY SafetyParts DEF Update
<1> DEFINE f == [ledger.rec EXCEPT ![k] = e]
<1>2. ledger' = [ledger EXCEPT !.rec = f]
  BY <1>1
<1>3. f[k] = e /\ \A j \in Keys \ {k} : f[j] = ledger.rec[j]
  BY <1>1, LedgerParts
<1> HIDE DEF f
<1>4. ledger'.rec = f
  BY <1>1, <1>2 DEF Ledger
<1>5. \A j \in Keys \ {k} : Lives(ledger.rec[j], ledger.rec[j], clock, closed')
  BY RecordOf DEF Lives
<1>6. ASSUME NEW j \in Keys PROVE Lives(ledger.rec[j], ledger'.rec[j], clock, closed')
  <2>1. CASE j = k
    BY <1>3, <1>4, <2>1
  <2>2. CASE j # k
    BY <1>3, <1>4, <1>5, <2>2
  <2> QED
    BY <2>1, <2>2
<1> QED
  BY <1>6 DEF AllLive

\* The outcome of a job is one of a call that began or of one that did not.
LEMMA EndJobLive ==
  ASSUME SafetyInv, NEW k \in Keys, NEW o, EndJob(k, o),
         \/ ledger.rec[k].task = "handler" /\ o \in HandlerOutcomes
         \/ ledger.rec[k].task \in {"ready", "decoding"} /\ o \in NotBegunCodes
  PROVE  AllLive
<1> DEFINE r == ledger.rec[k]
           e == [r EXCEPT !.task = "select", !.terminal = o]
<1>1. r \in Record /\ CallOK(r)
  BY RecordOf
<1>2. Update(k, e)
  BY DEF EndJob
<1>3. o \in IF r.began THEN HandlerOutcomes ELSE NotBegunCodes
  BY <1>1 DEF CallOK
<1>4. r.stage \in {"Running", "Finalizing"}
  BY <1>1 DEF CallOK
<1> HIDE DEF r
<1>5. /\ e.inst = r.inst /\ e.sig = r.sig /\ e.sess = r.sess /\ e.cancelRequested = r.cancelRequested
      /\ e.jobCancelled = r.jobCancelled /\ e.stage = r.stage /\ e.task = "select"
      /\ e.began = r.began /\ e.terminal = o
  BY <1>1, Zenon DEF Record
<1> HIDE DEF e
<1>6. Carries(r, e) /\ (e.began <=> r.began)
  BY <1>5, Zenon DEF Carries
<1>7. Ends(r, e)
  BY <1>3, <1>4, <1>5, <1>6 DEF Ends
<1> QED
  BY <1>2, <1>7, UpdateLive DEF Lives, r

\* A step of the job or the launcher that changes neither stage nor code.
LEMMA RunLive ==
  ASSUME SafetyInv, NEW k \in Keys, NEW e, Update(k, e), Runs(ledger.rec[k], e) \/ Publishes(ledger.rec[k], e)
  PROVE  AllLive
BY UpdateLive DEF Lives

LEMMA CompletedLive ==
  ASSUME NEW t \in Ledger, NEW k \in Keys, NEW now \in Nat, NEW isClosed \in BOOLEAN,
         CallsOK(t), QueuesOf(t), t.rec[k].task = "commit"
  PROVE  \A j \in Keys : Lives(t.rec[j], Completed(t, k, now, isClosed).rec[j], now, isClosed)
<1>1. PICK v \in Ledger :
         /\ Completed(t, k, now, isClosed) = IF isClosed THEN v ELSE Promote(v)
         /\ v.pending = IF t.rec[k].stage = "Queued" THEN Without(t.pending, k) ELSE t.pending
         /\ v.running = t.running - Frees(t.rec[k])
         /\ v.completed = IF isClosed THEN t.completed ELSE Append(t.completed, k)
         /\ IF isClosed THEN v.cached = t.cached ELSE Len(v.cached) <= CacheBodies
         /\ \A j \in Keys \ {k} : SameCall(t.rec[j], v.rec[j])
         /\ v.rec[k].inst = t.rec[k].inst /\ v.rec[k].completedAt = now
         /\ IF isClosed THEN v.rec[k] = Absent(t.rec[k].inst, now)
            ELSE /\ v.rec[k].stage = "Complete" /\ v.rec[k].task = "none"
                 /\ v.rec[k].admittedAt = t.rec[k].admittedAt /\ v.rec[k].prevEnd = t.rec[k].prevEnd
                 /\ v.rec[k].terminal = t.rec[k].terminal /\ v.rec[k].launcher = t.rec[k].launcher
                 /\ (v.rec[k].began <=> t.rec[k].began)
                 /\ v.rec[k].sig = t.rec[k].sig /\ v.rec[k].result \in {t.rec[k].terminal, "none"}
  BY CompletedEffect
<1> TAKE j \in Keys
<1> DEFINE u == Completed(t, k, now, isClosed)
<1>2. t.rec[k] \in Record /\ t.rec[k].inst \in Nat /\ t.rec[k].stage \in {"Running", "Finalizing"}
      /\ t.pending \in Seq(Keys)
  BY LedgerParts DEF Record, CallsOK, CallOK
<1>3. CASE isClosed
  <2>1. u = v /\ v.rec[k] = Absent(t.rec[k].inst, now)
    BY <1>1, <1>3
  <2> HIDE DEF u
  <2>2. CASE j = k
    <3>1. SameCall(Absent(t.rec[k].inst, now), v.rec[k])
      BY <1>2, <2>1, AbsentSame
    <3> QED
      BY <1>3, <2>1, <2>2, <3>1 DEF Lives, Vanishes, u
  <2>3. CASE j # k
    BY <1>1, <2>1, <2>3 DEF Lives, u
  <2> QED
    BY <2>2, <2>3
<1>4. CASE ~isClosed
  <2>1. u = Promote(v)
    BY <1>1, <1>4
  <2>2. Finishes(t.rec[k], v.rec[k], now)
    BY <1>1, <1>4 DEF Finishes
  <2>3. v.pending = t.pending
    BY <1>1, <1>2
  <2> DEFINE h == Head(v.pending)
  <2>4. IF v.running < RunningCalls /\ v.pending # <<>>
        THEN /\ h \in Keys
             /\ u.rec[h] = [v.rec[h] EXCEPT !.stage = "Running", !.launcher = "due"]
             /\ \A i \in Keys \ {h} : u.rec[i] = v.rec[i]
        ELSE u = v
    BY <2>1, PromoteEffect
  <2> HIDE DEF u
  <2>5. CASE j = k /\ u.rec[j] = v.rec[j]
    BY <2>2, <2>5 DEF Lives, u
  <2>6. CASE j # k /\ u.rec[j] = v.rec[j]
    BY <1>1, <2>6 DEF Lives, u
  <2>7. CASE v.running < RunningCalls /\ v.pending # <<>> /\ j = h
    <3>1. h = t.pending[1] /\ 1 \in 1..Len(t.pending)
      BY <1>2, <2>3, <2>7
    <3>2. t.rec[h].stage = "Queued"
      BY <1>2, <3>1 DEF QueuesOf, QueueOf
    <3>3. h # k /\ h \in Keys
      BY <1>2, <2>4, <2>7, <3>2
    <3>4. SameCall(t.rec[h], v.rec[h]) /\ CallOK(t.rec[h]) /\ v.rec[h] \in Record
      BY <1>1, <3>3, LedgerParts DEF CallsOK
    <3> HIDE DEF h
    <3> DEFINE a == t.rec[h]
               b == v.rec[h]
               c == [b EXCEPT !.stage = "Running", !.launcher = "due"]
    <3>5. u.rec[h] = c
      BY <2>4, <2>7
    <3>6. a.task = "none" /\ a.terminal = "none" /\ ~a.began
      BY <3>2, <3>4 DEF CallOK
    <3>7. b.task = "none" /\ b.terminal = "none" /\ ~b.began
      BY <3>4, <3>6 DEF SameCall
    <3> HIDE DEF b
    <3>8. /\ c.stage = "Running" /\ c.launcher = "due" /\ c.inst = b.inst /\ c.sig = b.sig /\ c.sess = b.sess
          /\ c.cancelRequested = b.cancelRequested /\ c.jobCancelled = b.jobCancelled
          /\ c.task = b.task /\ c.terminal = b.terminal /\ c.began = b.began
      BY <3>4, Zenon DEF Record, b
    <3> HIDE DEF a, c
    <3>9. /\ b.inst = a.inst /\ b.sig = a.sig /\ b.sess = a.sess
          /\ (a.cancelRequested => b.cancelRequested) /\ (a.jobCancelled => b.jobCancelled)
      BY <3>4, Zenon DEF SameCall, a, b
    <3>10. Carries(a, c)
      BY <3>8, <3>9, Zenon DEF Carries
    <3>11. c.task = "none" /\ c.terminal = "none" /\ ~c.began
      BY <3>7, <3>8, Zenon
    <3>12. Rises(a, c)
      BY <3>2, <3>8, <3>10, <3>11 DEF Rises, a
    <3> QED
      BY <2>7, <3>5, <3>12 DEF Lives, a, u
  <2>8. u.rec[j] = v.rec[j] \/ (v.running < RunningCalls /\ v.pending # <<>> /\ j = h)
    BY <2>4
  <2> QED
    BY <2>5, <2>6, <2>7, <2>8
<1> QED
  BY <1>3, <1>4

LEMMA JobLive ==
  ASSUME SafetyInv, NEW k \in Keys, JobStep(k)
  PROVE  AllLive
<1> DEFINE r == ledger.rec[k]
<1>1. r \in Record /\ CallOK(r)
  BY RecordOf
<1>2. /\ \A o \in NotBegunCodes : (r.task \in {"ready", "decoding"} /\ EndJob(k, o)) => AllLive
      /\ \A o \in HandlerOutcomes : (r.task = "handler" /\ EndJob(k, o)) => AllLive
  BY EndJobLive
<1>3. \A e : (Update(k, e) /\ (Runs(r, e) \/ Publishes(r, e))) => AllLive
  BY RunLive
<1>4. CASE FinishCommit(k)
  <2>1. /\ r.task = "commit" /\ ledger' = Completed(ledger, k, clock, closed) /\ closed' = closed
    BY <1>4 DEF FinishCommit, ByJob, closed
  <2>2. /\ ledger \in Ledger /\ clock \in Nat /\ closed \in BOOLEAN /\ CallsOK(ledger) /\ QueuesOf(ledger)
    BY SafetyParts DEF LedgerOK
  <2>3. \A j \in Keys : Lives(ledger.rec[j], Completed(ledger, k, clock, closed).rec[j], clock, closed)
    BY <2>1, <2>2, CompletedLive
  <2> QED
    BY <2>1, <2>3 DEF AllLive
<1> HIDE DEF r
<1>5. CASE Launch(k)
  <2> DEFINE e == [r EXCEPT !.launcher = "launched", !.task = "ready"]
  <2>1. r.launcher = "due" /\ Update(k, e)
    BY <1>5 DEF Launch, r
  <2>2. /\ e.inst = r.inst /\ e.sig = r.sig /\ e.sess = r.sess /\ e.cancelRequested = r.cancelRequested
        /\ e.jobCancelled = r.jobCancelled /\ e.stage = r.stage /\ e.terminal = r.terminal
        /\ e.began = r.began /\ e.launcher = "launched"
    BY <1>1, Zenon DEF Record
  <2> HIDE DEF e
  <2>3. Carries(r, e) /\ (e.began <=> r.began) /\ r.stage = "Running"
    BY <1>1, <2>1, <2>2, Zenon DEF Carries, CallOK
  <2> QED
    BY <1>3, <2>1, <2>2, <2>3 DEF Runs
<1>6. CASE PublishJob(k)
  <2> DEFINE e == [r EXCEPT !.launcher = "published"]
  <2>1. r.launcher = "launched" /\ Update(k, e)
    BY <1>6 DEF PublishJob, r
  <2>2. /\ e.inst = r.inst /\ e.sig = r.sig /\ e.sess = r.sess /\ e.cancelRequested = r.cancelRequested
        /\ e.jobCancelled = r.jobCancelled /\ e.stage = r.stage /\ e.terminal = r.terminal
        /\ e.began = r.began /\ e.launcher = "published" /\ e.task = r.task /\ e.result = r.result
        /\ e.completedAt = r.completedAt
    BY <1>1, Zenon DEF Record
  <2> HIDE DEF e
  <2>3. Carries(r, e) /\ (e.began <=> r.began)
    BY <2>2, Zenon DEF Carries
  <2> QED
    BY <1>3, <2>1, <2>2, <2>3 DEF Publishes
<1>7. CASE CheckCancel(k)
  <2> DEFINE e == [r EXCEPT !.launcher = "checked", !.jobCancelled = r.jobCancelled \/ r.cancelRequested]
  <2>1. r.launcher = "published" /\ Update(k, e)
    BY <1>7 DEF CheckCancel, r
  <2>2. /\ e.inst = r.inst /\ e.sig = r.sig /\ e.sess = r.sess /\ e.cancelRequested = r.cancelRequested
        /\ e.stage = r.stage /\ e.terminal = r.terminal
        /\ e.began = r.began /\ e.launcher = "checked" /\ e.task = r.task /\ e.result = r.result
        /\ e.completedAt = r.completedAt /\ e.jobCancelled = (r.jobCancelled \/ r.cancelRequested)
    BY <1>1, Zenon DEF Record
  <2> HIDE DEF e
  <2>3. Carries(r, e) /\ (e.began <=> r.began) /\ (e.cancelRequested => e.jobCancelled)
    BY <2>2, Zenon DEF Carries
  <2> QED
    BY <1>3, <2>1, <2>2, <2>3 DEF Publishes
<1>8. CASE JobStart(k)
  <2> DEFINE e == [r EXCEPT !.task = "decoding"]
  <2>1. r.task = "ready" /\ (\/ EndJob(k, "CancelledBeforeStart") \/ EndJob(k, "DeadlineBeforeStart")
                             \/ Update(k, e))
    BY <1>8, Zenon DEF JobStart, r
  <2>2. /\ e.inst = r.inst /\ e.sig = r.sig /\ e.sess = r.sess /\ e.cancelRequested = r.cancelRequested
        /\ e.jobCancelled = r.jobCancelled /\ e.stage = r.stage /\ e.terminal = r.terminal
        /\ e.began = r.began /\ e.launcher = r.launcher
    BY <1>1, Zenon DEF Record
  <2> HIDE DEF e
  <2>3. Carries(r, e) /\ (e.began <=> r.began)
    BY <2>2, Zenon DEF Carries
  <2>4. r.stage \in {"Running", "Finalizing"}
    BY <1>1, <2>1 DEF CallOK
  <2>5. Runs(r, e)
    BY <2>1, <2>2, <2>3, <2>4 DEF Runs
  <2> QED
    BY <1>2, <1>3, <2>1, <2>5 DEF NotBegunCodes
<1>9. CASE JobBegin(k)
  <2> DEFINE e == [r EXCEPT !.task = "handler", !.began = TRUE]
  <2>1. r.task = "decoding" /\ Update(k, e)
    BY <1>9 DEF JobBegin, r
  <2>2. /\ e.inst = r.inst /\ e.sig = r.sig /\ e.sess = r.sess /\ e.cancelRequested = r.cancelRequested
        /\ e.jobCancelled = r.jobCancelled /\ e.stage = r.stage /\ e.terminal = r.terminal
        /\ e.began /\ e.launcher = r.launcher
    BY <1>1, Zenon DEF Record
  <2> HIDE DEF e
  <2>3. Carries(r, e)
    BY <2>2, Zenon DEF Carries
  <2>4. r.stage \in {"Running", "Finalizing"} /\ ~r.began
    BY <1>1, <2>1 DEF CallOK
  <2>5. Runs(r, e)
    BY <2>1, <2>2, <2>3, <2>4 DEF Runs
  <2> QED
    BY <1>3, <2>1, <2>5
<1>10. CASE JobFails(k)
  <2>1. r.task = "decoding" /\ \E o \in NotBegunCodes : EndJob(k, o)
    BY <1>10 DEF JobFails, NotBegunCodes, r
  <2> QED
    BY <1>2, <2>1
<1>11. CASE HandlerEnds(k)
  <2>1. r.task = "handler" /\ \E o \in HandlerOutcomes : EndJob(k, o)
    BY <1>11, ConstantsAssumption DEF HandlerEnds, r
  <2> QED
    BY <1>2, <2>1
<1>12. CASE FinishSelect(k)
  <2> DEFINE c == IF links[k[1]] \in ready \cap TrustedLinks THEN links[k[1]] ELSE NoLink
             e == [r EXCEPT !.task = "commit", !.candidate = c]
  <2>1. r.task = "select" /\ Update(k, e)
    BY <1>12 DEF FinishSelect, r
  <2> HIDE DEF c
  <2>2. /\ e.inst = r.inst /\ e.sig = r.sig /\ e.sess = r.sess /\ e.cancelRequested = r.cancelRequested
        /\ e.jobCancelled = r.jobCancelled /\ e.stage = r.stage /\ e.terminal = r.terminal
        /\ e.began = r.began /\ e.task = "commit"
    BY <1>1, Zenon DEF Record
  <2> HIDE DEF e
  <2>3. Carries(r, e) /\ (e.began <=> r.began)
    BY <2>2, Zenon DEF Carries
  <2>4. r.stage \in {"Running", "Finalizing"}
    BY <1>1, <2>1 DEF CallOK
  <2> QED
    BY <1>3, <2>1, <2>2, <2>3, <2>4 DEF Runs
<1> QED
  BY <1>4, <1>5, <1>6, <1>7, <1>8, <1>9, <1>10, <1>11, <1>12 DEF JobStep

LEMMA ClaimedLive ==
  ASSUME SafetyInv, NEW k \in Keys, NEW reason \in NotBegunCodes, ledger.rec[k].stage = "Queued",
         ledger' = Claimed(ledger, k, reason)
  PROVE  AllLive
<1> DEFINE r == ledger.rec[k]
           e == [r EXCEPT !.stage = "Finalizing", !.task = "select", !.terminal = reason]
           f == [ledger.rec EXCEPT ![k] = e]
           q == Without(ledger.pending, k)
<1>1. r \in Record /\ CallOK(r) /\ ledger \in Ledger
  BY RecordOf, SafetyParts
<1>2. ledger' = [ledger EXCEPT !.pending = q, !.rec = f]
  BY DEF Claimed
<1>3. f[k] = e /\ \A j \in Keys \ {k} : f[j] = ledger.rec[j]
  BY <1>1, LedgerParts
<1> HIDE DEF f, q
<1>4. ledger'.rec = f
  BY <1>1, <1>2 DEF Ledger
<1>5. ~r.began
  BY <1>1 DEF CallOK
<1>6. r.stage = "Queued"
  OBVIOUS
<1> HIDE DEF r
<1>7. /\ e.inst = r.inst /\ e.sig = r.sig /\ e.sess = r.sess /\ e.cancelRequested = r.cancelRequested
      /\ e.jobCancelled = r.jobCancelled /\ e.stage = "Finalizing" /\ e.terminal = reason
      /\ e.began = r.began /\ e.task = "select" /\ e.launcher = r.launcher
  BY <1>1, Zenon DEF Record
<1> HIDE DEF e
<1>8. Carries(r, e) /\ ~e.began
  BY <1>5, <1>7, Zenon DEF Carries
<1>9. Taken(r, e)
  BY <1>6, <1>7, <1>8 DEF Taken
<1>10. ASSUME NEW j \in Keys PROVE Lives(ledger.rec[j], ledger'.rec[j], clock, closed')
  <2>1. CASE j = k
    BY <1>3, <1>4, <1>9, <2>1 DEF Lives, r
  <2>2. CASE j # k
    BY <1>3, <1>4, <2>2, RecordOf DEF Lives
  <2> QED
    BY <2>1, <2>2
<1> QED
  BY <1>10 DEF AllLive

LEMMA CancelLive ==
  ASSUME SafetyInv, NEW c \in cancels, CancelStep(c)
  PROVE  AllLive
<1>1. c.k \in Keys /\ ledger \in Ledger
  BY SafetyParts, TypeParts DEF CallTypes, Cancellation
<1>2. CASE completeQueued(c)
  <2> DEFINE why == IF c.by = "sweep" THEN "DeadlineBeforeStart" ELSE "CancelledBeforeStart"
  <2>1. \/ ledger' = ledger
        \/ ledger.rec[c.k].stage = "Queued" /\ ledger' = Claimed(ledger, c.k, why)
    BY <1>2 DEF completeQueued
  <2>2. why \in NotBegunCodes
    BY DEF NotBegunCodes
  <2> HIDE DEF why
  <2> QED
    BY <1>1, <2>1, <2>2, ClaimedLive, SteadyLive
<1>3. CASE AwaitFinish(c) \/ CancelAbandoned(c)
  BY <1>3, SteadyLive DEF AwaitFinish, CancelAbandoned
<1>4. CASE CancelJob(c)
  <2> DEFINE r == ledger.rec[c.k]
             e == [r EXCEPT !.jobCancelled = TRUE]
  <2>1. ledger' = ledger \/ Update(c.k, e) \/ ledger' = [ledger EXCEPT !.rec[c.k] = e]
    BY <1>4 DEF CancelJob
  <2>2. r \in Record
    BY <1>1, RecordOf
  <2>3. SameCall(r, e)
    BY <2>2, SameCallUpdates
  <2> DEFINE f == [ledger.rec EXCEPT ![c.k] = e]
  <2>4. f[c.k] = e /\ \A j \in Keys \ {c.k} : f[j] = ledger.rec[j]
    BY <1>1, LedgerParts
  <2>5. ledger' = ledger \/ ledger' = [ledger EXCEPT !.rec = f]
    BY <1>4 DEF CancelJob
  <2> HIDE DEF f, e
  <2>6. ledger' = ledger \/ ledger'.rec = f
    BY <1>1, <2>5 DEF Ledger
  <2>7. ledger' = ledger => AllLive
    BY SteadyLive
  <2>8. ASSUME ledger'.rec = f, NEW j \in Keys PROVE Lives(ledger.rec[j], ledger'.rec[j], clock, closed')
    <3>1. CASE j = c.k
      BY <2>3, <2>4, <2>8, <3>1 DEF Lives
    <3>2. CASE j # c.k
      BY <2>4, <2>8, <3>2, RecordOf DEF Lives
    <3> QED
      BY <3>1, <3>2
  <2>9. ledger'.rec = f => AllLive
    BY <2>8 DEF AllLive
  <2> QED
    BY <2>6, <2>7, <2>9
<1> QED
  BY <1>2, <1>3, <1>4 DEF CancelStep

LEMMA SameCallsLive ==
  ASSUME NEW u, ledger' = u, \A k \in Keys : SameCall(ledger.rec[k], u.rec[k])
  PROVE  AllLive
BY DEF AllLive, Lives

LEMMA CancelAllLive ==
  ASSUME SafetyInv, NEW ks, NEW by, NEW plan, CancelAll(ks, by, plan)
  PROVE  AllLive
<1>1. ledger \in Ledger /\ ledger' = RequestCancel(ledger, ks)
  BY SafetyParts DEF CancelAll
<1>2. SameCalls(ledger, ledger')
  BY <1>1, RequestCancelEffect
<1> QED
  BY <1>2, SameCallsLive DEF SameCalls

LEMMA HostLive ==
  ASSUME SafetyInv, HostStep
  PROVE  AllLive
<1>1. /\ ledger \in Ledger /\ clock \in Nat /\ QueuesOf(ledger)
  BY SafetyParts DEF LedgerOK
<1>2. CASE AttachCloseOld \/ RevokeClose \/ CloseLinks \/ Tick
  BY <1>2, SteadyLive DEF AttachCloseOld, RevokeClose, CloseLinks, Tick, ByLink, callVars
<1>3. CASE RevokeMark \/ CloseBegin
  BY <1>3, CancelAllLive DEF RevokeMark, CloseBegin
<1>4. CASE sweep
  <2>1. ledger' = expireLocked(ledger, clock)
    BY <1>4 DEF sweep
  <2> QED
    BY <1>1, <2>1, expireLockedLives, ExpiresLives DEF AllLive
<1>5. CASE CloseEnd
  <2> DEFINE w == Retire(ledger, Range(ledger.completed))
             u == [w EXCEPT !.completed = <<>>, !.cached = <<>>]
  <2>1. ledger' = u /\ closed'
    BY <1>5 DEF CloseEnd, closed
  <2>2. ledger.completed \in Seq(Keys)
    BY <1>1, LedgerParts
  <2>3. w \in Ledger
    BY <1>1, <2>2, QueuedKeys, RetireType
  <2>4. \A k \in Keys : w.rec[k] = IF k \in Range(ledger.completed) THEN Forget(ledger.rec[k]) ELSE ledger.rec[k]
    BY <1>1, RetireEffect
  <2>5. \A k \in Range(ledger.completed) : ledger.rec[k].stage = "Complete"
    BY <1>1, <2>2, LenProperties DEF Range, QueuesOf, QueueOf
  <2> HIDE DEF w
  <2>6. u.rec = w.rec
    BY <2>3 DEF Ledger
  <2> HIDE DEF u
  <2>7. ASSUME NEW k \in Keys PROVE Lives(ledger.rec[k], ledger'.rec[k], clock, closed')
    <3>1. CASE k \in Range(ledger.completed)
      <4>1. ledger'.rec[k] = Absent(ledger.rec[k].inst, ledger.rec[k].completedAt)
        BY <2>1, <2>4, <2>6, <3>1 DEF Forget
      <4>2. SameCall(Absent(ledger.rec[k].inst, ledger.rec[k].completedAt), ledger'.rec[k])
        BY <4>1, RecordOf, AbsentSame
      <4> QED
        BY <2>1, <2>5, <3>1, <4>2 DEF Lives, Lapses
    <3>2. CASE k \notin Range(ledger.completed)
      BY <2>1, <2>4, <2>6, <3>2, RecordOf DEF Lives
    <3> QED
      BY <3>1, <3>2
  <2> QED
    BY <2>7 DEF AllLive
<1> QED
  BY <1>2, <1>3, <1>4, <1>5 DEF HostStep

\* Admit(l) installs a new call, and the other records expire at most.
Enters(l) ==
  LET k == KeyOf(l) IN
  /\ reader[l].pc = "admit" /\ Return(l) /\ UNCHANGED <<linkVars, cancels>> /\ ByReader
  /\ ~closed /\ k[1] \in trusted /\ Permits(reader[l].sess)
  /\ Renewed(ledger.rec[k], ledger'.rec[k], clock)
  /\ ledger'.rec[k].sig = reader[l].sig /\ ledger'.rec[k].sess = reader[l].sess
  /\ \A j \in Keys \ {k} : Lives(ledger.rec[j], ledger'.rec[j], clock, closed')

\* Dropping bodies after an expiry is still an expiry.
LEMMA ExpiredThen ==
  ASSUME SafetyInv, NEW u, SameCalls(expireLocked(ledger, clock), u), NEW k \in Keys
  PROVE  Expires(ledger.rec[k], u.rec[k], clock)
<1>1. ledger \in Ledger /\ clock \in Nat /\ QueuesOf(ledger)
  BY SafetyParts DEF LedgerOK
<1>2. Expires(ledger.rec[k], expireLocked(ledger, clock).rec[k], clock)
  BY <1>1, expireLockedLives
<1>3. SameCall(expireLocked(ledger, clock).rec[k], u.rec[k])
  BY DEF SameCalls
<1> QED
  BY <1>2, <1>3, ExpiresThen

LEMMA ExpiredLive ==
  ASSUME SafetyInv, NEW u, SameCalls(expireLocked(ledger, clock), u), ledger' = u
  PROVE  AllLive
BY ExpiredThen, ExpiresLives DEF AllLive

LEMMA SameCallsItself ==
  ASSUME NEW t \in Ledger
  PROVE  SameCalls(t, t)
BY LedgerParts, SameCallUpdates DEF SameCalls

\* What Install puts in the table, as far as the calls are concerned.
Installed(u, w, k, sig, sess) ==
  /\ \A j \in Keys \ {k} : w.rec[j] = u.rec[j]
  /\ w.rec[k].stage \in {"Running", "Queued"} /\ w.rec[k].launcher \in {"due", "none"}
  /\ w.rec[k].inst = u.rec[k].inst + 1
  /\ w.rec[k].task = "none" /\ w.rec[k].terminal = "none" /\ ~w.rec[k].began
  /\ w.rec[k].sig = sig /\ w.rec[k].sess = sess /\ w.rec[k].result = "none"

LEMMA InstallRecord ==
  ASSUME NEW t \in Ledger, NEW k \in Keys, NEW sig \in Sigs,
         NEW sess \in Sessions \cup {NoSession}, NEW dl \in Nat, NEW now \in Nat
  PROVE  Installed(t, Install(t, k, sig, sess, dl, now), k, sig, sess)
<1> DEFINE u == Install(t, k, sig, sess, dl, now)
           r == u.rec[k]
           run == t.running < RunningCalls
<1>1. /\ u.completed = t.completed /\ u.cached = t.cached
      /\ u.running = IF run THEN t.running + 1 ELSE t.running
      /\ u.pending = IF run THEN t.pending ELSE Append(t.pending, k)
      /\ \A j \in Keys \ {k} : u.rec[j] = t.rec[j]
      /\ r.stage = IF run THEN "Running" ELSE "Queued"
      /\ r.launcher = IF run THEN "due" ELSE "none"
      /\ r.inst = t.rec[k].inst + 1 /\ r.prevEnd = t.rec[k].completedAt /\ r.admittedAt = now
      /\ r.task = "none" /\ r.terminal = "none" /\ ~r.began
      /\ r.sig = sig /\ r.sess = sess /\ r.result = "none"
  BY InstallEffect
<1> HIDE DEF u, run
<1> QED
  BY <1>1 DEF Installed, u

LEMMA AdmitLive ==
  ASSUME SafetyInv, NEW l \in Links, Admit(l)
  PROVE  AllLive \/ Enters(l)
<1> DEFINE t == expireLocked(ledger, clock)
           k == KeyOf(l)
           x == reader[l]
<1>1. /\ TypeOK /\ ledger \in Ledger /\ clock \in Nat /\ QueuesOf(ledger)
  BY SafetyParts DEF LedgerOK
<1>2. t \in Ledger /\ SameCalls(t, t)
  BY <1>1, expireLockedType, SameCallsItself
<1>3. k \in Keys /\ x \in Reader
  BY <1>1, KeyOfType
<1>4. x.sig \in Sigs /\ x.sess \in Sessions \cup {NoSession} /\ x.dl \in Nat
  BY <1>3 DEF Reader
<1>5. CASE ledger' = t
  BY <1>2, <1>5, ExpiredLive
<1>6. CASE ledger' # t
  <2>1. /\ ~Present(t.rec[k]) /\ ~(closed \/ k[1] \notin trusted \/ AtCapacity(t, k[1])) /\ Permits(x.sess)
        /\ \E n \in (IF BudgetTight THEN 0..Len(t.cached) ELSE {0}) :
             \/ ledger' = Install(DropOldest(t, n), k, x.sig, x.sess, x.dl, clock) /\ Return(l) /\ UNCHANGED linkVars
             \/ ledger' = DropOldest(t, n)
        /\ x.pc = "admit" /\ UNCHANGED cancels /\ ByReader
    BY <1>6, Zenon DEF Admit, t, k, x
  <2> HIDE DEF t, k, x
  <2>2. Len(t.cached) \in Nat
    BY <1>2, LedgerParts, LenProperties
  <2>3. PICK n \in 0..Len(t.cached) :
             \/ ledger' = Install(DropOldest(t, n), k, x.sig, x.sess, x.dl, clock) /\ Return(l) /\ UNCHANGED linkVars
             \/ ledger' = DropOldest(t, n)
    BY <2>1, <2>2
  <2> DEFINE u == DropOldest(t, n)
  <2>4. u \in Ledger /\ SameCalls(t, u)
    BY <1>2, DropOldestType, DropOldestEffect
  <2> HIDE DEF u
  <2>5. CASE ledger' = u
    BY <2>4, <2>5, ExpiredLive DEF t
  <2>6. CASE ledger' = Install(u, k, x.sig, x.sess, x.dl, clock) /\ Return(l) /\ UNCHANGED linkVars
    <3> DEFINE w == Install(u, k, x.sig, x.sess, x.dl, clock)
    <3> DEFINE sig == x.sig
               sess == x.sess
               dl == x.dl
    <3>0. sig \in Sigs /\ sess \in Sessions \cup {NoSession} /\ dl \in Nat
      BY <1>4
    <3> HIDE DEF sig, sess, dl
    <3>a. Installed(u, Install(u, k, sig, sess, dl, clock), k, sig, sess)
      BY <3>0, <1>1, <1>3, <2>4, InstallRecord
    <3>1. Installed(u, w, k, sig, sess)
      BY <3>a DEF sig, sess, dl
    <3> HIDE DEF w
    <3>2. \A j \in Keys : Expires(ledger.rec[j], u.rec[j], clock)
      BY <2>4, ExpiredThen DEF t
    <3>3. ledger' = w
      BY <2>6 DEF w
    <3>4. \A j \in Keys \ {k} : Lives(ledger.rec[j], ledger'.rec[j], clock, closed')
      BY <3>1, <3>2, <3>3, ExpiresLives DEF Installed
    <3>5. ~Present(u.rec[k])
      BY <1>3, <2>1, <2>4 DEF SameCalls, SameCall, Present
    <3>6. u.rec[k].inst = ledger.rec[k].inst
          /\ (~Present(ledger.rec[k]) \/ (ledger.rec[k].stage = "Complete" /\ clock >= ledger.rec[k].completedAt + RecordTtl))
      <4>1. CASE SameCall(ledger.rec[k], u.rec[k])
        BY <3>5, <4>1 DEF SameCall, Present
      <4>2. CASE ~SameCall(ledger.rec[k], u.rec[k])
        <5>1. /\ ledger.rec[k].stage = "Complete" /\ clock >= ledger.rec[k].completedAt + RecordTtl
              /\ SameCall(Absent(ledger.rec[k].inst, ledger.rec[k].completedAt), u.rec[k])
          BY <1>3, <3>2, <4>2, Zenon DEF Expires
        <5>2. u.rec[k].inst = Absent(ledger.rec[k].inst, ledger.rec[k].completedAt).inst
          BY <5>1 DEF SameCall
        <5>3. Absent(ledger.rec[k].inst, ledger.rec[k].completedAt).inst = ledger.rec[k].inst
          BY AbsentInst
        <5> QED
          BY <5>1, <5>2, <5>3, Zenon
      <4> QED
        BY <4>1, <4>2
    <3>7. Renewed(ledger.rec[k], ledger'.rec[k], clock)
      BY <3>1, <3>3, <3>6 DEF Renewed, Installed
    <3>8. ledger'.rec[k].sig = x.sig /\ ledger'.rec[k].sess = x.sess
      BY <3>1, <3>3 DEF Installed, sig, sess
    <3>9. Enters(l)
      BY <2>1, <2>6, <3>4, <3>7, <3>8, Zenon DEF Enters, k, x
    <3> QED
      BY <3>9
  <2> QED
    BY <2>3, <2>5, <2>6 DEF u
<1> QED
  BY <1>5, <1>6

LEMMA ReaderLive ==
  ASSUME SafetyInv, NEW l \in Links, ReaderStep(l)
  PROVE  AllLive \/ Enters(l)
<1> DEFINE t == expireLocked(ledger, clock)
           k == KeyOf(l)
<1>1. TypeOK /\ ledger \in Ledger
  BY SafetyParts
<1>2. t \in Ledger /\ k \in Keys
  BY <1>1, expireLockedType, KeyOfType
<1>3. ledger' = ledger => AllLive
  BY SteadyLive
<1>4. ledger' = t => AllLive
  BY <1>2, SameCallsItself, ExpiredLive
<1>5. ASSUME Controlled(l, t, k) PROVE AllLive
  <2>1. ledger' \in {dropResultBody(t, k), RequestCancel(t, {k}), t}
    BY <1>5, Zenon DEF Controlled
  <2>2. SameCalls(t, ledger')
    <3> HIDE DEF t, k
    <3> QED
      BY <1>2, <2>1, dropResultBodyEffect, RequestCancelEffect, SameCallsItself
  <2> QED
    BY <2>2, ExpiredLive
<1>6. ASSUME Controlled(l, ledger, k) PROVE AllLive
  <2>1. ledger' \in {dropResultBody(ledger, k), RequestCancel(ledger, {k}), ledger}
    BY <1>6, Zenon DEF Controlled
  <2>2. SameCalls(ledger, ledger')
    <3> HIDE DEF k
    <3> QED
      BY <1>1, <1>2, <2>1, dropResultBodyEffect, RequestCancelEffect, SameCallsItself
  <2> QED
    BY <2>2, SameCallsLive DEF SameCalls
<1> HIDE DEF t, k
<1>7. CASE Hello(l) \/ onMessage(l) \/ Send(l) \/ ReaderCancelled(l)
  BY <1>3, <1>7 DEF Hello, onMessage, Send, ReaderCancelled
<1>8. CASE InvokeStep(l)
  <2>1. ledger' = ledger \/ ledger' = t \/ Admit(l)
    BY <1>8 DEF InvokeStep, InvokeLookup, InvokeDenied, InvokeAllowed, Authenticated, AuthenticationDenied,
       scopedDuplicate, t
  <2> QED
    BY <1>3, <1>4, <2>1, AdmitLive
<1>9. CASE ControlStep(l)
  <2>1. ControlDenied(l) => ledger' = ledger
    BY DEF ControlDenied
  <2>2. ControlAllowed(l) => ledger' = t \/ Controlled(l, t, k)
    BY Zenon DEF ControlAllowed, t, k
  <2>3. ScopedLookup(l) => ledger' = t
    BY DEF ScopedLookup, t
  <2>4. ScopedCommit(l) => ledger' = ledger \/ Controlled(l, ledger, k)
    BY Zenon DEF ScopedCommit, k
  <2> QED
    BY <1>3, <1>4, <1>5, <1>6, <1>9, <2>1, <2>2, <2>3, <2>4 DEF ControlStep
<1> QED
  BY <1>7, <1>8, <1>9 DEF ReaderStep

\* Every step of the engine is a step of each call's life, or an admission.
LEMMA StepLives ==
  ASSUME SafetyInv, [Next]_vars
  PROVE  AllLive \/ \E l \in Links : Enters(l)
<1>1. UNCHANGED ledger => AllLive
  BY SteadyLive
<1>2. CASE UNCHANGED vars
  BY <1>1, <1>2 DEF vars, callVars
<1>3. ASSUME NEW l \in Links, LinkStep(l) PROVE AllLive
  BY <1>1, <1>3 DEF LinkStep, attach, AttachFails, LinkLost, detach, ByLink, callVars
<1>4. ASSUME NEW d \in deliver, Deliver(d) PROVE AllLive
  BY <1>1, <1>4 DEF Deliver
<1>5. ASSUME NEW p \in Peers, TrustChange(p) PROVE AllLive
  BY <1>1, <1>5 DEF TrustChange, callVars
<1>6. ASSUME NEW s \in Sessions, SessionStep(s) PROVE AllLive
  <2>1. CASE SessionEnds(s) \/ SessionRevoked(s)
    BY <1>1, <2>1 DEF SessionEnds, SessionRevoked, callVars
  <2>2. CASE SessionMark(s)
    BY <2>2, CancelAllLive DEF SessionMark
  <2> QED
    BY <1>6, <2>1, <2>2 DEF SessionStep
<1> QED
  BY <1>2, <1>3, <1>4, <1>5, <1>6, ReaderLive, JobLive, CancelLive, HostLive DEF Next
-----------------------------------------------------------------------------
(* What the steps of the readers and the jobs leave alone.                 *)

LEMMA ReaderFrame ==
  ASSUME NEW l \in Links, ReaderStep(l)
  PROVE  UNCHANGED <<clock, phase, trusted, revoke, session>>
<1>1. InvokeStep(l) => ByReader
  BY Zenon DEF InvokeStep, InvokeLookup, InvokeDenied, InvokeAllowed, Authenticated, AuthenticationDenied,
     scopedDuplicate, Admit
<1>2. ControlStep(l) => ByReader
  BY Zenon DEF ControlStep, ControlDenied, ControlAllowed, ScopedLookup, ScopedCommit
<1>3. Send(l) \/ ReaderCancelled(l) => ByReader
  BY DEF Send, ReaderCancelled
<1>4. ByReader \/ Hello(l) \/ onMessage(l)
  BY <1>1, <1>2, <1>3 DEF ReaderStep
<1> QED
  BY <1>4 DEF ByReader, Hello, onMessage, trustVars

LEMMA JobFrame ==
  ASSUME NEW k \in Keys, JobStep(k)
  PROVE  ByJob
BY DEF JobStep, Launch, PublishJob, CheckCancel, JobStart, JobBegin, JobFails, HandlerEnds,
   FinishSelect, FinishCommit, EndJob, Update

-----------------------------------------------------------------------------
(* Codes, readers and refusals.                                            *)

LEMMA LivesCode ==
  ASSUME NEW r, NEW q, NEW now, NEW isClosed, Lives(r, q, now, isClosed), CallOK(r), CodeOK(r)
  PROVE  CodeOK(q)
<1>1. CASE SameCall(r, q)
  BY <1>1 DEF SameCall, CodeOK, Present
<1>2. CASE Lapses(r, q, now, isClosed) \/ Vanishes(r, q, now, isClosed)
  <2>1. q.stage = "Absent" /\ q.terminal = "none"
    BY <1>2, AbsentStage, AbsentTerminal DEF Lapses, Vanishes, SameCall
  <2> QED
    BY <2>1 DEF CodeOK, Present
<1>3. CASE Rises(r, q) \/ Taken(r, q)
  BY <1>3 DEF Rises, Taken, Carries, CodeOK, Present
<1>4. CASE Publishes(r, q)
  BY <1>4 DEF Publishes, Carries, CodeOK, Present
<1>5. CASE Runs(r, q) \/ Ends(r, q)
  BY <1>5 DEF Runs, Ends, Carries, CodeOK, Present
<1>6. CASE Finishes(r, q, now)
  <2>1. r.terminal # "none" /\ r.stage \in {"Running", "Finalizing"}
    BY <1>6 DEF CallOK, Finishes
  <2> QED
    BY <1>6, <2>1 DEF Finishes, CodeOK, Present
<1> QED
  BY <1>1, <1>2, <1>3, <1>4, <1>5, <1>6 DEF Lives

LEMMA CodesNext ==
  ASSUME SafetyInv, Codes, Readers, [Next]_vars
  PROVE  Codes'
<1> SUFFICES ASSUME NEW k \in Keys PROVE CodeOK(ledger'.rec[k])
  BY DEF Codes
<1>1. Lives(ledger.rec[k], ledger'.rec[k], clock, closed') => CodeOK(ledger'.rec[k])
  BY RecordOf, LivesCode DEF Codes
<1>2. CASE AllLive
  BY <1>1, <1>2 DEF AllLive
<1>3. ASSUME NEW l \in Links, Enters(l) PROVE CodeOK(ledger'.rec[k])
  <2>1. CASE k = KeyOf(l)
    <3>1. reader[l].sig \in Known
      BY <1>3 DEF Enters, Readers, ReaderOK
    <3>2. ledger'.rec[k].sig \in Known /\ Renewed(ledger.rec[k], ledger'.rec[k], clock)
      BY <1>3, <2>1, <3>1 DEF Enters
    <3> QED
      BY <3>2 DEF Renewed, CodeOK
  <2>2. CASE k # KeyOf(l)
    BY <1>1, <1>3, <2>2 DEF Enters
  <2> QED
    BY <2>1, <2>2
<1> QED
  BY <1>2, <1>3, StepLives

\* A link that was attached is not new again.
Seen == \A m \in Links : linkState[m] # "new" => linkState'[m] # "new"

LEMMA ClosingSeen ==
  ASSUME TypeOK, NEW l, NEW m \in Links
  PROVE  Closing(l)[m] = linkState[m] \/ (linkState[m] \in {"attaching", "open"} /\ Closing(l)[m] = "closed")
BY DEF TypeOK, Closing

LEMMA SeenNext ==
  ASSUME TypeOK, [Next]_vars
  PROVE  Seen
<1>1. UNCHANGED linkState => Seen
  BY DEF Seen
<1>2. UNCHANGED linkVars => Seen
  BY <1>1 DEF linkVars
<1>3. \A l : CloseLink(l) => Seen
  BY ClosingSeen DEF CloseLink, Seen
<1>4. \A l : protocolFailure(l) => Seen
  BY <1>3 DEF protocolFailure
<1>5. \A l, o : refuse(l, o) => Seen
  BY <1>2 DEF refuse
<1>6. CASE UNCHANGED vars
  BY <1>2, <1>6 DEF vars
<1>7. ASSUME NEW l \in Links, LinkStep(l) PROVE Seen
  <2>1. CASE LinkLost(l)
    BY <1>3, <2>1 DEF LinkLost
  <2>2. CASE attach(l) \/ detach(l)
    BY <2>2 DEF attach, detach, Seen, TypeOK
  <2>3. CASE AttachFails(l)
    <3>1. \A m \in Links : linkState'[m] = IF m = l THEN "gone" ELSE Closing(replaced)[m]
      BY <2>3 DEF AttachFails, TypeOK, Closing
    <3> QED
      BY <3>1, ClosingSeen DEF Seen
  <2> QED
    BY <1>7, <2>1, <2>2, <2>3 DEF LinkStep
<1>8. ASSUME NEW l \in Links, ReaderStep(l) PROVE Seen
  <2>1. CASE Hello(l)
    BY <1>1, <1>4, <2>1 DEF Hello
  <2>2. CASE onMessage(l)
    <3>1. \E m, stale : Gate(l, m, stale)
      BY <2>2 DEF onMessage
    <3> QED
      BY <1>2, <1>4, <3>1 DEF Gate, Begin
  <2>3. CASE Send(l) \/ ReaderCancelled(l)
    BY <1>2, <1>3, <2>3 DEF Send, ReaderCancelled, Offer
  <2>4. CASE InvokeStep(l)
    <3>1. \A o : refuse(l, o) => UNCHANGED linkVars
      BY DEF refuse
    <3>2. InvokeLookup(l) => protocolFailure(l) \/ UNCHANGED linkVars
      BY <3>1, Zenon DEF InvokeLookup
    <3>3. InvokeDenied(l) => UNCHANGED linkVars
      BY <3>1, Zenon DEF InvokeDenied
    <3>4. InvokeAllowed(l) => protocolFailure(l) \/ UNCHANGED linkVars
      BY <3>1, Zenon DEF InvokeAllowed
    <3>5. Authenticated(l) => UNCHANGED linkVars
      BY DEF Authenticated, linkVars
    <3>6. AuthenticationDenied(l) => protocolFailure(l) \/ UNCHANGED linkVars
      BY <3>1, Zenon DEF AuthenticationDenied
    <3>7. scopedDuplicate(l) => UNCHANGED linkVars
      BY <3>1, Zenon DEF scopedDuplicate
    <3>8. Admit(l) => protocolFailure(l) \/ UNCHANGED linkVars
      BY <3>1, Zenon DEF Admit
    <3> QED
      BY <1>2, <1>4, <2>4, <3>2, <3>3, <3>4, <3>5, <3>6, <3>7, <3>8 DEF InvokeStep
  <2>5. CASE ControlStep(l)
    <3>1. ControlDenied(l) => Seen
      BY <1>5 DEF ControlDenied
    <3>2. ControlAllowed(l) => Seen
      BY <1>2, <1>4 DEF ControlAllowed
    <3>3. ScopedLookup(l) => protocolFailure(l) \/ UNCHANGED linkVars
      BY Zenon DEF ScopedLookup
    <3>4. ScopedCommit(l) => Seen
      BY <1>2 DEF ScopedCommit
    <3> QED
      BY <1>2, <1>4, <2>5, <3>1, <3>2, <3>3, <3>4 DEF ControlStep
  <2> QED
    BY <1>8, <2>1, <2>2, <2>3, <2>4, <2>5 DEF ReaderStep
<1>9. ASSUME NEW k \in Keys, JobStep(k) PROVE Seen
  BY <1>2, <1>9, JobFrame DEF ByJob
<1>10. ASSUME NEW d \in deliver, Deliver(d) PROVE Seen
  BY <1>2, <1>3, <1>10 DEF Deliver, Offer
<1>11. ASSUME NEW c \in cancels, CancelStep(c) PROVE Seen
  BY <1>2, <1>11 DEF CancelStep, completeQueued, AwaitFinish, CancelJob, CancelAbandoned, ByJob
<1>12. ASSUME NEW p \in Peers, TrustChange(p) PROVE Seen
  BY <1>2, <1>12 DEF TrustChange
<1>13. ASSUME NEW s \in Sessions, SessionStep(s) PROVE Seen
  BY <1>2, <1>13 DEF SessionStep, SessionEnds, SessionMark, SessionRevoked, CancelAll
<1>14. CASE HostStep
  <2>1. CASE RevokeClose
    BY <1>2, <1>3, <2>1 DEF RevokeClose
  <2>2. CASE AttachCloseOld
    BY <2>2, ClosingSeen DEF AttachCloseOld, Seen
  <2>3. CASE CloseLinks
    BY <2>3, ClosingSeen DEF CloseLinks, Seen
  <2>4. CASE CloseEnd \/ Tick \/ RevokeMark \/ CloseBegin \/ sweep
    BY <1>1, <1>2, <2>4 DEF CloseEnd, Tick, RevokeMark, CloseBegin, CancelAll, sweep, ByJob
  <2> QED
    BY <1>14, <2>1, <2>2, <2>3, <2>4 DEF HostStep
<1> QED
  BY <1>6, <1>7, <1>8, <1>9, <1>10, <1>11, <1>12, <1>13, <1>14 DEF Next

\* What a step of the reader of l may leave behind.
Answered(l) ==
  /\ \A m \in Links \ {l} : reader'[m] = reader[m]
  /\ reader'[l].pc # "idle" => linkState[l] # "new"
  /\ reader'[l].pc \in {"auth", "admit"} => reader'[l].sig \in Known
  /\ reader'[l].pc = "send" /\ reader'[l].reply \in RejectedBeforeExecution =>
       NotExecuting(ledger'.rec[<<LinkPeer[l], reader'[l].id>>])

LEMMA ReturnAnswers ==
  ASSUME TypeOK, NEW l \in Links, Return(l)
  PROVE  Answered(l)
<1>1. reader'[l] = IdleReader /\ \A m \in Links \ {l} : reader'[m] = reader[m]
  BY DEF TypeOK, Return
<1>2. IdleReader.pc = "idle"
  BY DEF IdleReader
<1> QED
  BY <1>1, <1>2 DEF Answered

LEMMA ReplyAnswers ==
  ASSUME TypeOK, NEW l \in Links, NEW what, Reply(l, what), linkState[l] # "new",
         what \in RejectedBeforeExecution => NotExecuting(ledger'.rec[KeyOf(l)])
  PROVE  Answered(l)
<1>1. reader[l] \in Reader /\ reader \in [Links -> Reader]
  BY DEF TypeOK
<1> DEFINE x == reader[l]
           y == [x EXCEPT !.pc = "send", !.reply = what]
<1>2. reader' = [reader EXCEPT ![l] = y]
  BY DEF Reply
<1>3. y.pc = "send" /\ y.reply = what /\ y.id = reader[l].id
  BY <1>1 DEF Reader
<1> HIDE DEF y
<1>4. reader'[l] = y /\ \A m \in Links \ {l} : reader'[m] = reader[m]
  BY <1>1, <1>2
<1> QED
  BY <1>3, <1>4 DEF Answered, KeyOf

LEMMA GotoAnswers ==
  ASSUME TypeOK, NEW l \in Links, Goto(l, "admit"), linkState[l] # "new", reader[l].sig \in Known
  PROVE  Answered(l)
<1>1. reader[l] \in Reader /\ reader \in [Links -> Reader]
  BY DEF TypeOK
<1> DEFINE x == reader[l]
           y == [x EXCEPT !.pc = "admit"]
<1>2. reader' = [reader EXCEPT ![l] = y]
  BY DEF Goto
<1>3. y.pc = "admit" /\ y.sig = reader[l].sig
  BY <1>1 DEF Reader
<1> HIDE DEF y
<1>4. reader'[l] = y /\ \A m \in Links \ {l} : reader'[m] = reader[m]
  BY <1>1, <1>2
<1> QED
  BY <1>3, <1>4 DEF Answered

LEMMA AuthAnswers ==
  ASSUME TypeOK, NEW l \in Links, NEW i, reader' = [reader EXCEPT ![l].pc = "auth", ![l].inst = i],
         linkState[l] # "new", reader[l].sig \in Known
  PROVE  Answered(l)
<1>1. reader[l] \in Reader /\ reader \in [Links -> Reader]
  BY DEF TypeOK
<1> DEFINE x == reader[l]
           y == [x EXCEPT !.pc = "auth", !.inst = i]
<1>2. reader' = [reader EXCEPT ![l] = y]
  OBVIOUS
<1>3. y.pc = "auth" /\ y.sig = reader[l].sig
  BY <1>1 DEF Reader
<1> HIDE DEF y
<1>4. reader'[l] = y /\ \A m \in Links \ {l} : reader'[m] = reader[m]
  BY <1>1, <1>2
<1> QED
  BY <1>3, <1>4 DEF Answered

LEMMA AdmitAnswers ==
  ASSUME TypeOK, NEW l \in Links, NEW s, reader' = [reader EXCEPT ![l].pc = "admit", ![l].sess = s],
         linkState[l] # "new", reader[l].sig \in Known
  PROVE  Answered(l)
<1>1. reader[l] \in Reader /\ reader \in [Links -> Reader]
  BY DEF TypeOK
<1> DEFINE x == reader[l]
           y == [x EXCEPT !.pc = "admit", !.sess = s]
<1>2. reader' = [reader EXCEPT ![l] = y]
  OBVIOUS
<1>3. y.pc = "admit" /\ y.sig = reader[l].sig
  BY <1>1 DEF Reader
<1> HIDE DEF y
<1>4. reader'[l] = y /\ \A m \in Links \ {l} : reader'[m] = reader[m]
  BY <1>1, <1>2
<1> QED
  BY <1>3, <1>4 DEF Answered

LEMMA HoldAnswers ==
  ASSUME TypeOK, NEW l \in Links, NEW pc \in {"dup", "scoped"}, NEW r, Hold(l, pc, r), linkState[l] # "new"
  PROVE  Answered(l)
<1>1. reader[l] \in Reader /\ reader \in [Links -> Reader]
  BY DEF TypeOK
<1> DEFINE x == reader[l]
           y == [x EXCEPT !.pc = pc, !.inst = r.inst, !.sess = r.sess]
<1>2. reader' = [reader EXCEPT ![l] = y]
  BY DEF Hold
<1>3. y.pc = pc
  BY <1>1 DEF Reader
<1> HIDE DEF y
<1>4. reader'[l] = y /\ \A m \in Links \ {l} : reader'[m] = reader[m]
  BY <1>1, <1>2
<1> QED
  BY <1>3, <1>4 DEF Answered

\* The answer of a finished call tells whether it began.
LEMMA SnapshotTruthful ==
  ASSUME NEW r, CallOK(r), CodeOK(r), snapshotResult(r) \in RejectedBeforeExecution
  PROVE  NotExecuting(r)
<1>1. r.stage = "Complete" /\ r.result \in RejectedBeforeExecution
  BY DEF snapshotResult, RejectedBeforeExecution
<1>2. r.terminal \in RejectedBeforeExecution
  BY <1>1 DEF CodeOK, RejectedBeforeExecution
<1>3. ~r.began
  BY <1>2 DEF CallOK, RejectedBeforeExecution
<1> QED
  BY <1>1, <1>3 DEF NotExecuting

LEMMA MessageAnswers ==
  ASSUME SafetyInv, Readers, NEW l \in Links,
         Hello(l) \/ onMessage(l) \/ Send(l) \/ ReaderCancelled(l)
  PROVE  Answered(l)
<1>1. TypeOK /\ reader[l] \in Reader /\ reader \in [Links -> Reader]
  BY SafetyParts DEF TypeOK
<1>2. Return(l) => Answered(l)
  BY <1>1, ReturnAnswers
<1>3. CASE Send(l) \/ ReaderCancelled(l)
  BY <1>2, <1>3 DEF Send, ReaderCancelled
<1>4. CASE Hello(l)
  <2>1. linkState[l] # "new" /\ "Ready" \notin RejectedBeforeExecution
    BY <1>4 DEF Hello, Listening, RejectedBeforeExecution
  <2>2. CASE protocolFailure(l)
    BY <1>2, <2>2 DEF protocolFailure
  <2>3. CASE ~protocolFailure(l)
    <3>1. Reply(l, "Ready")
      BY <1>4, <2>3, Zenon DEF Hello, Reply
    <3> QED
      BY <1>1, <2>1, <3>1, ReplyAnswers
  <2> QED
    BY <2>2, <2>3
<1>5. CASE onMessage(l)
  <2>1. linkState[l] # "new"
    BY <1>5 DEF onMessage, Listening
  <2>2. \E m, stale : Gate(l, m, stale) /\ m \in Reader
    <3>1. PICK kind \in Events \cap (Controls \cup {"Invoke"}), i \in Ids, s \in Sigs,
             again \in BOOLEAN, b \in Budgets, stale \in BOOLEAN :
            Gate(l, Message(kind, i, s, again, IF kind = "Invoke" THEN clock + b ELSE 0), stale)
      BY <1>5, Zenon DEF onMessage
    <3> DEFINE d == IF kind = "Invoke" THEN clock + b ELSE 0
    <3>2. d \in Nat
      BY SafetyParts, Limits
    <3> HIDE DEF d
    <3>3. Message(kind, i, s, again, d) \in Reader
      BY <3>2, IdleReaderType, Zenon DEF Reader, Message
    <3> QED
      BY <3>1, <3>3, Zenon DEF d
  <2>3. PICK m \in Reader : \E stale : Gate(l, m, stale)
    BY <2>2
  <2>4. ASSUME NEW pc \in {"send", "lookup", "control"}, NEW reply \in {"HostRestarted", "none"}, Begin(l, m, pc, reply)
        PROVE  Answered(l)
    <3> DEFINE y == [m EXCEPT !.pc = pc, !.reply = reply]
    <3>1. reader' = [reader EXCEPT ![l] = y]
      BY <2>4 DEF Begin
    <3>2. y.pc = pc /\ y.reply = reply
      BY DEF Reader
    <3> HIDE DEF y
    <3>3. reader'[l] = y /\ \A n \in Links \ {l} : reader'[n] = reader[n]
      BY <1>1, <3>1
    <3> QED
      BY <2>1, <3>2, <3>3 DEF Answered, RejectedBeforeExecution
  <2>5. CASE protocolFailure(l)
    BY <1>2, <2>5 DEF protocolFailure
  <2> QED
    BY <2>3, <2>4, <2>5, Zenon DEF Gate
<1> QED
  BY <1>3, <1>4, <1>5

\* Records that have just been swept are as good as the others.
LEMMA SweptOK ==
  ASSUME SafetyInv, Codes, NEW k \in Keys
  PROVE  /\ CallOK(ledger.rec[k]) /\ CodeOK(ledger.rec[k])
         /\ CallOK(expireLocked(ledger, clock).rec[k]) /\ CodeOK(expireLocked(ledger, clock).rec[k])
<1>1. ledger \in Ledger /\ clock \in Nat /\ LedgerOK(ledger, clock, closed) /\ QueuesOf(ledger)
  BY SafetyParts DEF LedgerOK
<1>2. CallOK(ledger.rec[k]) /\ CodeOK(ledger.rec[k])
  BY RecordOf DEF Codes
<1>3. CallOK(expireLocked(ledger, clock).rec[k])
  BY <1>1, expireLockedKeeps DEF LedgerOK, CallsOK
<1>4. Lives(ledger.rec[k], expireLocked(ledger, clock).rec[k], clock, closed)
  BY <1>1, expireLockedLives, ExpiresLives
<1> QED
  BY <1>2, <1>3, <1>4, LivesCode

LEMMA UnbegunAbsent ==
  ASSUME NEW r, ~Present(r)
  PROVE  NotExecuting(r)
BY DEF NotExecuting

LEMMA InvokeAnswers ==
  ASSUME SafetyInv, Codes, Readers, NEW l \in Links, InvokeStep(l)
  PROVE  Answered(l)
<1> DEFINE t == expireLocked(ledger, clock)
           k == KeyOf(l)
           x == reader[l]
           r == ledger.rec[k]
           q == t.rec[k]
<1>1. TypeOK /\ k \in Keys /\ ledger \in Ledger /\ t \in Ledger
  BY SafetyParts, KeyOfType, expireLockedType
<1>2. CallOK(r) /\ CodeOK(r) /\ CallOK(q) /\ CodeOK(q)
  BY <1>1, SweptOK
<1>3. x.pc \in {"lookup", "auth", "dup", "admit"}
  BY DEF InvokeStep, InvokeLookup, InvokeDenied, InvokeAllowed, Authenticated, AuthenticationDenied,
     scopedDuplicate, Admit
<1>4. linkState[l] # "new" /\ (x.pc \in {"auth", "admit"} => x.sig \in Known)
  BY <1>3 DEF Readers, ReaderOK
<1>5. protocolFailure(l) \/ Return(l) => Answered(l)
  BY <1>1, ReturnAnswers DEF protocolFailure
<1>6. ASSUME NEW o, refuse(l, o) \/ Reply(l, o), o \in RejectedBeforeExecution => NotExecuting(ledger'.rec[k])
      PROVE  Answered(l)
  BY <1>1, <1>4, <1>6, ReplyAnswers DEF refuse
<1>7. "AccessRevoked" \notin RejectedBeforeExecution /\ "UnknownOutcome" \notin RejectedBeforeExecution
  BY DEF RejectedBeforeExecution
<1>8. \A e : (Hold(l, "dup", e) => Answered(l))
  BY <1>1, <1>4, HoldAnswers
<1>9. ASSUME NEW o, refuse(l, o), ~Present(ledger'.rec[k]) PROVE Answered(l)
  BY <1>6, <1>9, UnbegunAbsent
<1>10. ASSUME NEW o, refuse(l, o), o = snapshotResult(ledger'.rec[k]), CallOK(ledger'.rec[k]), CodeOK(ledger'.rec[k])
       PROVE Answered(l)
  BY <1>6, <1>10, SnapshotTruthful
<1>11. refuse(l, "AccessRevoked") \/ refuse(l, "UnknownOutcome") \/ Reply(l, "AccessRevoked") => Answered(l)
  BY <1>6, <1>7
<1>12. (Present(r) => r.sig \in Known) /\ (Present(q) => q.sig \in Known)
  BY <1>2 DEF CodeOK
<1> HIDE DEF t, k, x
<1>13. CASE InvokeLookup(l)
  <2>1. ledger' = t
    BY <1>13 DEF InvokeLookup, t
  <2>2. x.sig \notin Known /\ ~(Present(q) /\ ~matches(q, x.sig)) => ~Present(q)
    BY <1>12 DEF matches
  <2> DEFINE i == IF Present(q) THEN q.inst ELSE 0
  <2>3. \/ protocolFailure(l)
        \/ x.sig \notin Known /\ ~Present(q) /\ refuse(l, "UnknownProcedure")
        \/ Hold(l, "dup", q)
        \/ ~Present(q) /\ refuse(l, "InvalidPayload")
        \/ refuse(l, "AccessRevoked")
        \/ x.sig \in Known /\ reader' = [reader EXCEPT ![l].pc = "auth", ![l].inst = i]
    BY <1>13, <2>2 DEF InvokeLookup, t, k, x
  <2> HIDE DEF i
  <2>4. x.sig \in Known /\ reader' = [reader EXCEPT ![l].pc = "auth", ![l].inst = i] => Answered(l)
    BY <1>1, <1>4, AuthAnswers DEF x
  <2> QED
    BY <1>5, <1>8, <1>9, <1>11, <2>1, <2>3, <2>4, Zenon
<1>14. CASE InvokeDenied(l)
  <2>1. ledger' = ledger
    BY <1>14 DEF InvokeDenied
  <2>2. \/ refuse(l, "AccessRevoked")
        \/ ~Present(r) /\ (refuse(l, "DeadlineBeforeStart") \/ refuse(l, "Unauthorized"))
    BY <1>14 DEF InvokeDenied, k, x
  <2> QED
    BY <1>9, <1>11, <2>1, <2>2, Zenon
<1>15. CASE InvokeAllowed(l)
  <2>1. ledger' = ledger /\ x.sig \in Known
    BY <1>4, <1>15 DEF InvokeAllowed, x
  <2>2. \/ protocolFailure(l)
        \/ refuse(l, snapshotResult(r))
        \/ ~Present(r) /\ (refuse(l, "InvalidPayload") \/ refuse(l, "DeadlineBeforeStart"))
        \/ Goto(l, "admit")
    BY <1>15 DEF InvokeAllowed, k, x
  <2>3. refuse(l, snapshotResult(r)) => Answered(l)
    BY <1>2, <1>10, <2>1
  <2>4. Goto(l, "admit") => Answered(l)
    BY <1>1, <1>4, <2>1, GotoAnswers DEF x
  <2> QED
    BY <1>5, <1>9, <2>1, <2>2, <2>3, <2>4, Zenon
<1>16. CASE Authenticated(l)
  <2>1. x.sig \in Known
    BY <1>4, <1>16 DEF Authenticated, x
  <2>2. \/ Reply(l, "AccessRevoked")
        \/ \E s \in Sessions : reader' = [reader EXCEPT ![l].pc = "admit", ![l].sess = s]
    BY <1>16 DEF Authenticated
  <2> QED
    BY <1>1, <1>4, <1>11, <2>1, <2>2, AdmitAnswers DEF x
<1>17. CASE AuthenticationDenied(l)
  <2>1. protocolFailure(l) \/ Hold(l, "dup", r) \/ refuse(l, "AccessRevoked")
    BY <1>17, Zenon DEF AuthenticationDenied, k
  <2> QED
    BY <1>5, <1>8, <1>11, <2>1
<1>18. CASE scopedDuplicate(l)
  <2>1. ledger' = ledger
    BY <1>18 DEF scopedDuplicate
  <2>2. refuse(l, "AccessRevoked") \/ refuse(l, snapshotResult(r)) \/ refuse(l, "UnknownOutcome")
    BY <1>18 DEF scopedDuplicate, k
  <2> QED
    BY <1>2, <1>10, <1>11, <2>1, <2>2
<1>19. CASE Admit(l)
  <2>1. CASE ledger' = t
    <3>1. \/ protocolFailure(l) \/ Hold(l, "dup", q) \/ refuse(l, snapshotResult(q))
          \/ ~Present(q) /\ (refuse(l, "AccessRevoked") \/ refuse(l, "Overloaded") \/ refuse(l, "DeadlineBeforeStart"))
          \/ Return(l)
      BY <1>19 DEF Admit, t, k, x
    <3> QED
      BY <1>2, <1>5, <1>8, <1>9, <1>10, <2>1, <3>1
  <2>2. CASE ledger' # t
    <3>1. /\ ~Present(q)
          /\ \E n \in (IF BudgetTight THEN 0..Len(t.cached) ELSE {0}) :
               Return(l) \/ (ledger' = DropOldest(t, n) /\ refuse(l, "Overloaded"))
      BY <1>19, <2>2, Zenon DEF Admit, t, k, x
    <3>2. Len(t.cached) \in Nat
      BY <1>1, LedgerParts, LenProperties
    <3>3. PICK n \in 0..Len(t.cached) : Return(l) \/ (ledger' = DropOldest(t, n) /\ refuse(l, "Overloaded"))
      BY <3>1, <3>2
    <3>4. ledger' = DropOldest(t, n) => ~Present(ledger'.rec[k])
      BY <1>1, <3>1, DropOldestEffect DEF SameCalls, SameCall, Present
    <3> QED
      BY <1>5, <1>9, <3>3, <3>4
  <2> QED
    BY <2>1, <2>2
<1> QED
  BY <1>13, <1>14, <1>15, <1>16, <1>17, <1>18, <1>19 DEF InvokeStep

LEMMA ControlAnswers ==
  ASSUME SafetyInv, Codes, Readers, NEW l \in Links, ControlStep(l)
  PROVE  Answered(l)
<1> DEFINE t == expireLocked(ledger, clock)
           k == KeyOf(l)
           x == reader[l]
           r == ledger.rec[k]
           q == t.rec[k]
<1>1. TypeOK /\ k \in Keys /\ ledger \in Ledger /\ t \in Ledger
  BY SafetyParts, KeyOfType, expireLockedType
<1>2. CallOK(r) /\ CodeOK(r) /\ CallOK(q) /\ CodeOK(q)
  BY <1>1, SweptOK
<1>3. x.pc \in {"control", "scoped"}
  BY DEF ControlStep, ControlDenied, ControlAllowed, ScopedLookup, ScopedCommit
<1>4. linkState[l] # "new"
  BY <1>3 DEF Readers, ReaderOK
<1>5. protocolFailure(l) \/ Return(l) => Answered(l)
  BY <1>1, ReturnAnswers DEF protocolFailure
<1>6. ASSUME NEW o, refuse(l, o) \/ Reply(l, o), o \in RejectedBeforeExecution => NotExecuting(ledger'.rec[k])
      PROVE  Answered(l)
  BY <1>1, <1>4, <1>6, ReplyAnswers DEF refuse
<1>7. "AccessRevoked" \notin RejectedBeforeExecution /\ "UnknownOutcome" \notin RejectedBeforeExecution
  BY DEF RejectedBeforeExecution
<1>8. \A e : (Hold(l, "scoped", e) => Answered(l))
  BY <1>1, <1>4, HoldAnswers
<1>9. Unmatched(l) => Answered(l)
  BY <1>5, <1>6, <1>7 DEF Unmatched
<1>10. ASSUME NEW u, u \in {ledger, t}, Controlled(l, u, k) PROVE Answered(l)
  <2>1. CallOK(u.rec[k]) /\ CodeOK(u.rec[k])
    BY <1>2, <1>10
  <2>2. \/ Return(l)
        \/ ledger' = u /\ Reply(l, snapshotResult(u.rec[k]))
    BY <1>10 DEF Controlled
  <2>3. ledger' = u /\ Reply(l, snapshotResult(u.rec[k])) => Answered(l)
    BY <1>6, <2>1, SnapshotTruthful
  <2> QED
    BY <1>5, <2>2, <2>3
<1> HIDE DEF t, k, x
<1>11. CASE ControlDenied(l)
  BY <1>6, <1>7, <1>11 DEF ControlDenied
<1>12. CASE ControlAllowed(l)
  <2>1. protocolFailure(l) \/ Controlled(l, t, k) \/ Unmatched(l)
    BY <1>12, Zenon DEF ControlAllowed, t, k
  <2> QED
    BY <1>5, <1>9, <1>10, <2>1
<1>13. CASE ScopedLookup(l)
  <2>1. protocolFailure(l) \/ Hold(l, "scoped", q) \/ Return(l)
    BY <1>13, Zenon DEF ScopedLookup, t, k
  <2> QED
    BY <1>5, <1>8, <2>1
<1>14. CASE ScopedCommit(l)
  <2>1. Controlled(l, ledger, k) \/ Unmatched(l)
    BY <1>14, Zenon DEF ScopedCommit, k
  <2> QED
    BY <1>9, <1>10, <2>1
<1> QED
  BY <1>11, <1>12, <1>13, <1>14, Zenon DEF ControlStep

\* Only its own reader answers on a link.
LEMMA StepAnswers ==
  ASSUME SafetyInv, Codes, Readers, [Next]_vars
  PROVE  UNCHANGED reader \/ \E l \in Links : Answered(l)
<1>1. ASSUME NEW l \in Links, ReaderStep(l) PROVE Answered(l)
  BY <1>1, MessageAnswers, InvokeAnswers, ControlAnswers DEF ReaderStep
<1>2. ASSUME NEW l \in Links, LinkStep(l) PROVE UNCHANGED reader
  BY <1>2 DEF LinkStep, attach, AttachFails, LinkLost, detach, ByLink, callVars
<1>3. ASSUME NEW k \in Keys, JobStep(k) PROVE UNCHANGED reader
  BY <1>3, JobFrame DEF ByJob
<1>4. ASSUME NEW d \in deliver, Deliver(d) PROVE UNCHANGED reader
  BY <1>4 DEF Deliver
<1>5. ASSUME NEW c \in cancels, CancelStep(c) PROVE UNCHANGED reader
  BY <1>5 DEF CancelStep, completeQueued, AwaitFinish, CancelJob, CancelAbandoned, ByJob
<1>6. ASSUME NEW p \in Peers, TrustChange(p) PROVE UNCHANGED reader
  BY <1>6 DEF TrustChange, callVars
<1>7. ASSUME NEW s \in Sessions, SessionStep(s) PROVE UNCHANGED reader
  BY <1>7 DEF SessionStep, SessionEnds, SessionMark, SessionRevoked, CancelAll, callVars
<1>8. HostStep => UNCHANGED reader
  BY DEF HostStep, AttachCloseOld, RevokeMark, RevokeClose, CloseBegin, CloseLinks, CloseEnd, sweep, Tick,
     CancelAll, ByLink, ByJob, callVars
<1>9. UNCHANGED vars => UNCHANGED reader
  BY DEF vars, callVars
<1> QED
  BY <1>1, <1>2, <1>3, <1>4, <1>5, <1>6, <1>7, <1>8, <1>9 DEF Next

LEMMA ReadersNext ==
  ASSUME SafetyInv, Codes, Readers, [Next]_vars
  PROVE  Readers'
<1>1. TypeOK /\ Seen
  BY SafetyParts, SeenNext
<1> SUFFICES ASSUME NEW m \in Links
             PROVE  /\ reader'[m].pc # "idle" => linkState'[m] # "new"
                    /\ reader'[m].pc \in {"auth", "admit"} => reader'[m].sig \in Known
  BY DEF Readers, ReaderOK
<1>2. CASE reader'[m] = reader[m]
  BY <1>1, <1>2 DEF Readers, ReaderOK, Seen
<1>3. CASE Answered(m)
  BY <1>1, <1>3 DEF Answered, Seen
<1> QED
  BY <1>2, <1>3, StepAnswers DEF Answered

\* The inductive invariant behind RefusalTruthful and the refinement.
AnswerInv == SafetyInv /\ Codes /\ Readers

LEMMA AnswerInit == Init => AnswerInv
<1> SUFFICES ASSUME Init PROVE AnswerInv
  OBVIOUS
<1>1. SafetyInv
  BY SafetyInit
<1>2. \A k \in Keys : ledger.rec[k] = Absent(0, 0)
  BY DEF Init
<1>3. Codes
  BY <1>2, AbsentStage, AbsentTerminal DEF Codes, CodeOK, Present
<1>4. \A l \in Links : reader[l].pc = "idle"
  BY DEF Init, IdleReader
<1> QED
  BY <1>1, <1>3, <1>4 DEF AnswerInv, Readers, ReaderOK

LEMMA AnswerNext == AnswerInv /\ [Next]_vars => AnswerInv'
<1> SUFFICES ASSUME AnswerInv, [Next]_vars PROVE AnswerInv'
  OBVIOUS
<1>1. SafetyInv'
  BY SafetyNext DEF AnswerInv
<1>2. Codes' /\ Readers'
  BY CodesNext, ReadersNext DEF AnswerInv
<1> QED
  BY <1>1, <1>2 DEF AnswerInv

\* The codes and the readers of the engine go together in every
\* reachable state: what invoke(), control() and finish() leave behind.
THEOREM AnswerInvariant == Spec => []AnswerInv
BY AnswerInit, AnswerNext, PTL DEF Spec

\* For every instance: whoever decides in invoke() or control() to answer
\* "rejected before execution" does so while no call of that device and id is
\* queued, runs or has run within its retention, whatever other connections of
\* the device admitted during the reader's suspensions.
THEOREM RefusalTruthfulHolds == Spec => RefusalTruthful
<1>1. ASSUME AnswerInv, [Next]_vars, NEW l \in Links, Refuses(l)
      PROVE  NotExecuting(ledger.rec[KeyOf(l)])'
  <2>1. reader'[l].pc = "send" /\ reader[l].pc # "send" /\ reader'[l].reply \in RejectedBeforeExecution
    BY <1>1 DEF Refuses
  <2>2. Answered(l)
    BY <1>1, <2>1, StepAnswers DEF AnswerInv, Answered
  <2> QED
    BY <2>1, <2>2 DEF Answered, KeyOf
<1>2. AnswerInv /\ [Next]_vars => [\A l \in Links : Refuses(l) => NotExecuting(ledger.rec[KeyOf(l)])']_vars
  BY <1>1
<1> QED
  BY <1>2, AnswerInvariant, PTL DEF Spec, RefusalTruthful
-----------------------------------------------------------------------------
(* The engine implements RpcCall.                                          *)

HeldCall == Contract!CallAs("held", "none", FALSE, 0)
BeganCall == Contract!CallAs("began", "none", FALSE, 0)
EndedCall(o, body, t) == Contract!CallAs("ended", o, body, t)

\* What the contract sees of a record.
LEMMA CallOfAbsent ==
  ASSUME NEW r, ~Present(r)
  PROVE  CallOf(r) = Contract!NoCall
BY DEF CallOf, LifeOf, Present, Contract!NoCall, Contract!CallAs

LEMMA CallOfHeld ==
  ASSUME NEW r, r.stage \in Active, ~r.began
  PROVE  CallOf(r) = HeldCall
<1>1. LifeOf(r) = "held" /\ r.stage # "Complete"
  BY DEF LifeOf, Present, Active
<1> QED
  BY <1>1 DEF CallOf, HeldCall, Contract!CallAs

LEMMA CallOfBegan ==
  ASSUME NEW r, r.stage \in Active, r.began
  PROVE  CallOf(r) = BeganCall
<1>1. LifeOf(r) = "began" /\ r.stage # "Complete"
  BY DEF LifeOf, Present, Active
<1> QED
  BY <1>1 DEF CallOf, BeganCall, Contract!CallAs

LEMMA CallOfEnded ==
  ASSUME NEW r, r.stage = "Complete"
  PROVE  CallOf(r) = EndedCall(r.terminal, r.result \in Bodies, r.completedAt)
<1>1. LifeOf(r) = "ended"
  BY DEF LifeOf, Present
<1> QED
  BY <1>1 DEF CallOf, EndedCall, Contract!CallAs

\* The moves of the contract.
LEMMA MoveHold ==
  ASSUME NEW t, NEW o
  PROVE  HeldCall \in Contract!Moves(Contract!NoCall, t, o)
<1>1. Contract!NoCall.life = "none"
  BY DEF Contract!NoCall, Contract!CallAs
<1>2. HeldCall \in Contract!Held(Contract!NoCall)
  BY <1>1 DEF Contract!Held, HeldCall
<1> QED
  BY <1>2 DEF Contract!Moves

LEMMA MoveBegin ==
  ASSUME NEW t, NEW o
  PROVE  BeganCall \in Contract!Moves(HeldCall, t, o)
<1>1. HeldCall.life = "held"
  BY DEF HeldCall, Contract!CallAs
<1>2. BeganCall \in Contract!Began(HeldCall)
  BY <1>1 DEF Contract!Began, BeganCall
<1> QED
  BY <1>2 DEF Contract!Moves

LEMMA MoveEndHeld ==
  ASSUME NEW t, NEW o, NEW code \in NotBegunCodes
  PROVE  EndedCall(code, code \in Bodies, t) \in Contract!Moves(HeldCall, t, o)
<1>1. HeldCall.life = "held"
  BY DEF HeldCall, Contract!CallAs
<1>2. EndedCall(code, code \in Bodies, t) \in Contract!Ended(HeldCall, t)
  BY <1>1 DEF Contract!Ended, EndedCall, NotBegunCodes
<1> QED
  BY <1>2 DEF Contract!Moves

LEMMA MoveEndBegan ==
  ASSUME NEW t, NEW o, NEW code \in HandlerOutcomes
  PROVE  EndedCall(code, code \in Bodies, t) \in Contract!Moves(BeganCall, t, o)
<1>1. BeganCall.life = "began"
  BY DEF BeganCall, Contract!CallAs
<1>2. EndedCall(code, code \in Bodies, t) \in Contract!Ended(BeganCall, t)
  BY <1>1 DEF Contract!Ended, EndedCall, HandlerOutcomes
<1> QED
  BY <1>2 DEF Contract!Moves

LEMMA MoveDrop ==
  ASSUME NEW t, NEW o, NEW code, NEW body, body, NEW since
  PROVE  EndedCall(code, FALSE, since) \in Contract!Moves(EndedCall(code, body, since), t, o)
<1> DEFINE c == EndedCall(code, body, since)
<1>1. c.kept /\ c.life = "ended" /\ c.outcome = code /\ c.since = since
  BY DEF EndedCall, Contract!CallAs
<1> HIDE DEF c
<1>2. EndedCall(code, FALSE, since) \in Contract!BodyDropped(c)
  BY <1>1 DEF Contract!BodyDropped, EndedCall
<1> QED
  BY <1>2 DEF Contract!Moves, c

LEMMA MoveForget ==
  ASSUME NEW t, NEW o, NEW code, NEW body, NEW since, ~o \/ t >= since + RecordTtl
  PROVE  Contract!NoCall \in Contract!Moves(EndedCall(code, body, since), t, o)
BY DEF Contract!Moves, Contract!Forgotten, EndedCall, Contract!CallAs

LEMMA OneMove ==
  ASSUME NEW c, NEW d, NEW t, NEW o, d = c \/ d \in Contract!Moves(c, t, o)
  PROVE  d \in Contract!Steps(c, t, o)
BY DEF Contract!Steps

LEMMA TwoMoves ==
  ASSUME NEW c, NEW d, NEW e, NEW t, NEW o, d \in Contract!Moves(c, t, o), e \in Contract!Moves(d, t, o)
  PROVE  e \in Contract!Steps(c, t, o)
BY DEF Contract!Steps

\* A code a call can end with fits what its handler did.
LEMMA CodeFits ==
  ASSUME NEW r, CallOK(r), CodeOK(r), r.task = "commit"
  PROVE  /\ r.stage \in Active
         /\ r.began => r.terminal \in HandlerOutcomes
         /\ ~r.began => r.terminal \in NotBegunCodes
<1>1. r.terminal \in NotBegunCodes \cup HandlerOutcomes /\ r.stage \in {"Running", "Finalizing"}
  BY DEF CallOK, CodeOK
<1>2. r.began <=> r.terminal \notin RejectedBeforeExecution \cup {"AccessRevoked"}
  BY DEF CallOK
<1> QED
  BY <1>1, <1>2 DEF Active, NotBegunCodes, HandlerOutcomes, Bodies, RejectedBeforeExecution

\* The call ends, as the contract has it.
LEMMA CommitEnds ==
  ASSUME NEW r, CallOK(r), CodeOK(r), r.task = "commit", NEW t, NEW o
  PROVE  EndedCall(r.terminal, r.terminal \in Bodies, t) \in Contract!Moves(CallOf(r), t, o)
<1>1. CASE r.began
  BY <1>1, CodeFits, CallOfBegan, MoveEndBegan
<1>2. CASE ~r.began
  BY <1>2, CodeFits, CallOfHeld, MoveEndHeld
<1> QED
  BY <1>1, <1>2

\* Records that the contract cannot tell apart.
LEMMA SameLife ==
  ASSUME NEW r, NEW q, r.stage \in Active, q.stage \in Active, q.began <=> r.began
  PROVE  CallOf(q) = CallOf(r)
BY CallOfBegan, CallOfHeld

LEMMA SameCallSteps ==
  ASSUME NEW r, NEW q, r.stage \in Stages, SameCall(r, q), NEW t, NEW o
  PROVE  CallOf(q) \in Contract!Steps(CallOf(r), t, o)
<1>1. q.stage = r.stage /\ (q.began <=> r.began)
  BY DEF SameCall
<1>2. CASE r.stage = "Absent"
  BY <1>1, <1>2, CallOfAbsent, OneMove DEF Present
<1>3. CASE r.stage \in Active
  BY <1>1, <1>3, SameLife, OneMove
<1>4. CASE r.stage = "Complete"
  <2>1. q.terminal = r.terminal /\ q.completedAt = r.completedAt /\ q.result \in {r.result, "none"}
    BY DEF SameCall
  <2>2. CASE q.result = r.result
    BY <1>1, <1>4, <2>1, <2>2, CallOfEnded, OneMove
  <2>3. CASE q.result = "none"
    <3>1. CallOf(q) = EndedCall(r.terminal, FALSE, r.completedAt)
      <4>1. (q.result \in Bodies) = FALSE
        BY <2>3 DEF Bodies
      <4> QED
        BY <1>1, <1>4, <2>1, <4>1, CallOfEnded
    <3>2. CASE r.result \in Bodies
      BY <1>4, <3>1, <3>2, CallOfEnded, MoveDrop, OneMove
    <3>3. CASE r.result \notin Bodies
      <4>1. (r.result \in Bodies) = FALSE
        BY <3>3
      <4> QED
        BY <1>4, <3>1, <4>1, CallOfEnded, OneMove
    <3> QED
      BY <3>2, <3>3
  <2> QED
    BY <2>1, <2>2, <2>3
<1> QED
  BY <1>2, <1>3, <1>4 DEF Stages, Active

LEMMA FinishSteps ==
  ASSUME NEW r, NEW q, CallOK(r), CodeOK(r), NEW t, NEW o, Finishes(r, q, t)
  PROVE  CallOf(q) \in Contract!Steps(CallOf(r), t, o)
<1> DEFINE e == EndedCall(r.terminal, r.terminal \in Bodies, t)
<1>1. e \in Contract!Moves(CallOf(r), t, o)
  BY CommitEnds DEF Finishes
<1>2. /\ CallOf(q) = EndedCall(r.terminal, q.result \in Bodies, t)
      /\ q.result = r.terminal \/ q.result = "none"
  BY CallOfEnded DEF Finishes
<1>3. CASE q.result = r.terminal
  BY <1>1, <1>2, <1>3, OneMove
<1>4. CASE q.result = "none"
  <2>1. CallOf(q) = EndedCall(r.terminal, FALSE, t)
    <3>1. (q.result \in Bodies) = FALSE
      BY <1>4 DEF Bodies
    <3> QED
      BY <1>2, <3>1
  <2>2. CASE r.terminal \in Bodies
    <3>1. EndedCall(r.terminal, FALSE, t) \in Contract!Moves(e, t, o)
      BY <2>2, MoveDrop
    <3> HIDE DEF e
    <3> QED
      BY <1>1, <2>1, <3>1, TwoMoves
  <2>3. CASE r.terminal \notin Bodies
    <3>1. (r.terminal \in Bodies) = FALSE
      BY <2>3
    <3> QED
      BY <1>1, <2>1, <3>1, OneMove
  <2> QED
    BY <2>2, <2>3
<1> QED
  BY <1>2, <1>3, <1>4

\* Every way a record may change is a step of the contract.
LEMMA LivesSteps ==
  ASSUME NEW r, NEW q, r.stage \in Stages, CallOK(r), CodeOK(r), NEW t, NEW isClosed, Lives(r, q, t, isClosed)
  PROVE  CallOf(q) \in Contract!Steps(CallOf(r), t, ~isClosed)
<1>1. CASE Lapses(r, q, t, isClosed)
  <2>1. CallOf(q) = Contract!NoCall
    BY <1>1, AbsentStage, CallOfAbsent DEF Lapses, SameCall, Present
  <2>2. r.stage = "Complete" /\ (~(~isClosed) \/ t >= r.completedAt + RecordTtl)
    BY <1>1 DEF Lapses
  <2> QED
    BY <2>1, <2>2, CallOfEnded, MoveForget, OneMove
<1>2. CASE Vanishes(r, q, t, isClosed)
  <2>1. CallOf(q) = Contract!NoCall
    BY <1>2, AbsentStage, CallOfAbsent DEF Vanishes, SameCall, Present
  <2>2. r.task = "commit" /\ ~(~isClosed)
    BY <1>2 DEF Vanishes
  <2> QED
    BY <2>1, <2>2, CommitEnds, MoveForget, TwoMoves
<1>3. CASE Rises(r, q) \/ Taken(r, q)
  <2>1. r.stage \in Active /\ q.stage \in Active /\ ~q.began
    BY <1>3 DEF Rises, Taken, Active
  <2>2. ~r.began
    BY <1>3 DEF Rises, Taken, CallOK
  <2> QED
    BY <2>1, <2>2, SameLife, OneMove
<1>4. CASE Publishes(r, q)
  <2>1. /\ q.stage = r.stage /\ (q.began <=> r.began) /\ q.terminal = r.terminal
        /\ q.result = r.result /\ q.completedAt = r.completedAt
    BY <1>4 DEF Publishes
  <2>2. CallOf(q) = CallOf(r)
    <3>1. CASE r.stage = "Absent"
      BY <2>1, <3>1, CallOfAbsent DEF Present
    <3>2. CASE r.stage \in Active
      BY <2>1, <3>2, SameLife
    <3>3. CASE r.stage = "Complete"
      BY <2>1, <3>3, CallOfEnded
    <3> QED
      BY <3>1, <3>2, <3>3 DEF Stages, Active
  <2> QED
    BY <2>2, OneMove
<1>5. CASE Runs(r, q)
  <2>1. r.stage \in Active /\ q.stage \in Active /\ ((q.began <=> r.began) \/ (q.began /\ ~r.began))
    BY <1>5 DEF Runs, Active
  <2>2. CASE q.began <=> r.began
    BY <2>1, <2>2, SameLife, OneMove
  <2>3. CASE q.began /\ ~r.began
    BY <2>1, <2>3, CallOfHeld, CallOfBegan, MoveBegin, OneMove
  <2> QED
    BY <2>1, <2>2, <2>3
<1>6. CASE Ends(r, q)
  <2>1. r.stage \in Active /\ q.stage \in Active /\ (q.began <=> r.began)
    BY <1>6 DEF Ends, Active
  <2> QED
    BY <2>1, SameLife, OneMove
<1> QED
  BY <1>1, <1>2, <1>3, <1>4, <1>5, <1>6, SameCallSteps, FinishSteps DEF Lives

LEMMA RenewedSteps ==
  ASSUME NEW r, NEW q, NEW t, NEW o, Renewed(r, q, t)
  PROVE  CallOf(q) \in Contract!Steps(CallOf(r), t, o)
<1>1. CallOf(q) = HeldCall
  BY CallOfHeld DEF Renewed, Active
<1>2. HeldCall \in Contract!Moves(Contract!NoCall, t, o)
  BY MoveHold
<1>3. CASE ~Present(r)
  BY <1>1, <1>2, <1>3, CallOfAbsent, OneMove
<1>4. CASE r.stage = "Complete" /\ t >= r.completedAt + RecordTtl
  BY <1>1, <1>2, <1>4, CallOfEnded, MoveForget, TwoMoves
<1> QED
  BY <1>3, <1>4 DEF Renewed

LEMMA StepSteps ==
  ASSUME AnswerInv, [Next]_vars, NEW k \in Keys
  PROVE  CallOf(ledger'.rec[k]) \in Contract!Steps(CallOf(ledger.rec[k]), clock, ~closed')
<1>1. SafetyInv /\ ledger.rec[k].stage \in Stages /\ CallOK(ledger.rec[k]) /\ CodeOK(ledger.rec[k])
  BY RecordOf DEF AnswerInv, Codes, Record
<1>2. Lives(ledger.rec[k], ledger'.rec[k], clock, closed') =>
        CallOf(ledger'.rec[k]) \in Contract!Steps(CallOf(ledger.rec[k]), clock, ~closed')
  BY <1>1, LivesSteps
<1>3. CASE AllLive
  BY <1>2, <1>3 DEF AllLive
<1>4. ASSUME NEW l \in Links, Enters(l)
      PROVE  CallOf(ledger'.rec[k]) \in Contract!Steps(CallOf(ledger.rec[k]), clock, ~closed')
  <2>1. CASE k = KeyOf(l)
    BY <1>4, <2>1, RenewedSteps DEF Enters
  <2>2. CASE k # KeyOf(l)
    BY <1>2, <1>4, <2>2 DEF Enters
  <2> QED
    BY <2>1, <2>2
<1> QED
  BY <1>1, <1>3, <1>4, StepLives

LEMMA CallOfType ==
  ASSUME NEW r \in Record, CodeOK(r)
  PROVE  CallOf(r) \in Contract!Call
<1>1. LifeOf(r) \in {"none", "held", "began", "ended"}
  BY DEF LifeOf
<1>2. (IF r.stage = "Complete" THEN r.terminal ELSE "none") \in Contract!Outcome \cup {"none"}
  BY DEF CodeOK, NotBegunCodes, HandlerOutcomes, Contract!Outcome
<1>3. (IF r.stage = "Complete" THEN r.completedAt ELSE 0) \in Nat
  BY DEF Record
<1>4. (r.stage = "Complete" /\ r.result \in Bodies) \in BOOLEAN
  OBVIOUS
<1> QED
  BY <1>1, <1>2, <1>3, <1>4 DEF CallOf, Contract!Call

\* Time goes on by ticks, and a closed engine stays closed.
LEMMA OnlyForward ==
  ASSUME TypeOK, [Next]_vars
  PROVE  clock' \in {clock, clock + 1} /\ (closed => closed')
<1>1. UNCHANGED <<clock, phase>> => clock' \in {clock, clock + 1} /\ (closed => closed')
  BY DEF closed
<1>2. ASSUME NEW l \in Links, LinkStep(l) PROVE UNCHANGED <<clock, phase>>
  BY <1>2 DEF LinkStep, attach, AttachFails, LinkLost, detach, ByLink
<1>3. ASSUME NEW l \in Links, ReaderStep(l) PROVE UNCHANGED <<clock, phase>>
  BY <1>3, ReaderFrame
<1>4. ASSUME NEW k \in Keys, JobStep(k) PROVE UNCHANGED <<clock, phase>>
  BY <1>4 DEF JobStep, Launch, PublishJob, CheckCancel, JobStart, JobBegin, JobFails, HandlerEnds,
     FinishSelect, FinishCommit, EndJob, Update, ByJob
<1>5. ASSUME NEW d \in deliver, Deliver(d) PROVE UNCHANGED <<clock, phase>>
  BY <1>5 DEF Deliver
<1>6. ASSUME NEW c \in cancels, CancelStep(c) PROVE UNCHANGED <<clock, phase>>
  BY <1>6 DEF CancelStep, completeQueued, AwaitFinish, CancelJob, CancelAbandoned, ByJob
<1>7. ASSUME NEW p \in Peers, TrustChange(p) PROVE UNCHANGED <<clock, phase>>
  BY <1>7 DEF TrustChange
<1>8. ASSUME NEW s \in Sessions, SessionStep(s) PROVE UNCHANGED <<clock, phase>>
  BY <1>8 DEF SessionStep, SessionEnds, SessionMark, SessionRevoked, CancelAll
<1>9. CASE HostStep
  <2>1. CASE AttachCloseOld \/ RevokeMark \/ RevokeClose \/ sweep
    BY <1>1, <2>1 DEF AttachCloseOld, RevokeMark, RevokeClose, sweep, CancelAll, ByLink, ByJob
  <2>2. CASE CloseBegin \/ CloseLinks \/ CloseEnd \/ Tick
    BY <2>2 DEF CloseBegin, CloseLinks, CloseEnd, Tick, CancelAll, closed
  <2> QED
    BY <1>9, <2>1, <2>2 DEF HostStep
<1>10. UNCHANGED vars => UNCHANGED <<clock, phase>>
  BY DEF vars
<1> QED
  BY <1>1, <1>2, <1>3, <1>4, <1>5, <1>6, <1>7, <1>8, <1>9, <1>10 DEF Next

LEMMA ContractInit ==
  ASSUME Init
  PROVE  Contract!Init
<1>1. \A k \in Keys : ~Present(ledger.rec[k])
  BY AbsentStage DEF Init, Present
<1>2. [k \in Keys |-> CallOf(ledger.rec[k])] = [k \in Keys |-> Contract!NoCall]
  BY <1>1, CallOfAbsent
<1> QED
  BY <1>2 DEF Init, Contract!Init, closed

LEMMA ContractNext ==
  ASSUME AnswerInv, AnswerInv', [Next]_vars
  PROVE  Contract!Next
<1>1. clock' \in {clock, clock + 1} /\ (closed => closed')
  BY OnlyForward, SafetyParts DEF AnswerInv
<1>2. (~closed') \in {~closed, FALSE}
  BY <1>1 DEF closed
<1>3. \A k \in Keys : CallOf(ledger'.rec[k]) \in Contract!Call
  <2>1. ledger' \in Ledger /\ Codes'
    BY SafetyParts DEF AnswerInv, SafetyInv, TypeOK
  <2> QED
    BY <2>1, LedgerParts, CallOfType DEF Codes
<1>4. \A k \in Keys : CallOf(ledger'.rec[k]) \in Contract!Steps(CallOf(ledger.rec[k]), clock, ~closed')
  BY StepSteps
<1> QED
  BY <1>1, <1>2, <1>3, <1>4 DEF Contract!Next

\* The engine implements the contract of a request id: every lock section of
\* RpcHostEngine.kt maps to moves of the calls it touches or to a stutter, so an
\* id is held before its handler begins, begins at most once per admission, ends
\* with a truthful code and is forgotten only after its retention time or close().
THEOREM ImplementsContractHolds == Spec => ImplementsContract
<1>1. Init => Contract!Init
  BY ContractInit
<1>2. AnswerInv /\ AnswerInv' /\ [Next]_vars => Contract!Next
  BY ContractNext
<1> QED
  BY <1>1, <1>2, AnswerInvariant, PTL DEF Spec, ImplementsContract, Contract!Spec
-----------------------------------------------------------------------------
(* Cancellations reach the calls they cover.                               *)

HasStep(c, what) == \E i \in 1..Len(c.plan) : c.plan[i] = what

\* A record that is active after a step was active before it, under the same
\* admission, and is exposed only if it was, once its cancellation is asked for.
LEMMA LivesActive ==
  ASSUME NEW r, NEW q, NEW now, NEW isClosed, Lives(r, q, now, isClosed), CallOK(r),
         r.stage \in Stages, q.stage \in Active
  PROVE  /\ r.stage \in Active /\ Carries(r, q)
         /\ q.stage = "Queued" => r.stage = "Queued"
         /\ Exposed(q) /\ q.cancelRequested => Exposed(r)
<1>1. CASE SameCall(r, q)
  BY <1>1 DEF SameCall, Carries, Exposed
<1>2. CASE Lapses(r, q, now, isClosed) \/ Vanishes(r, q, now, isClosed)
  <2>1. q.stage = "Absent"
    BY <1>2, AbsentStage DEF Lapses, Vanishes, SameCall
  <2> QED
    BY <2>1 DEF Active
<1>3. CASE Rises(r, q) \/ Taken(r, q)
  BY <1>3 DEF Rises, Taken, Exposed, Active
<1>4. CASE Publishes(r, q)
  <2>1. Carries(r, q) /\ q.stage = r.stage /\ (q.launcher = "checked" /\ q.cancelRequested => q.jobCancelled)
    BY <1>4 DEF Publishes
  <2> QED
    BY <2>1 DEF Exposed
<1>5. CASE Runs(r, q)
  <2>1. /\ Carries(r, q) /\ r.stage \in {"Running", "Finalizing"} /\ q.stage = r.stage
        /\ \/ q.launcher = "launched"
           \/ q.task = "commit"
           \/ q.launcher = r.launcher /\ r.task \in {"ready", "decoding"}
    BY <1>5 DEF Runs
  <2>2. r.jobCancelled => q.jobCancelled
    BY <2>1 DEF Carries
  <2>3. Exposed(q) => Exposed(r)
    BY <2>1, <2>2 DEF Exposed
  <2> QED
    BY <2>1, <2>3 DEF Active
<1>6. CASE Ends(r, q)
  BY <1>6 DEF Ends, Exposed, Active
<1>7. CASE Finishes(r, q, now)
  BY <1>7 DEF Finishes, Active
<1> QED
  BY <1>1, <1>2, <1>3, <1>4, <1>5, <1>6, <1>7 DEF Lives

\* RequestCancel marks its calls and nothing else of them.
LEMMA RequestCancelMarks ==
  ASSUME NEW t \in Ledger, NEW ks, NEW k \in Keys, k \in ks
  PROVE  /\ RequestCancel(t, ks).rec[k].cancelRequested
         /\ RequestCancel(t, ks).rec[k].inst = t.rec[k].inst
<1> DEFINE f == [j \in Keys |-> IF j \in ks THEN [t.rec[j] EXCEPT !.cancelRequested = TRUE] ELSE t.rec[j]]
<1>1. RequestCancel(t, ks) = [t EXCEPT !.rec = f]
  BY DEF RequestCancel
<1>2. f[k] = [t.rec[k] EXCEPT !.cancelRequested = TRUE]
  OBVIOUS
<1>3. t.rec[k] \in Record
  BY LedgerParts
<1>4. f[k].cancelRequested /\ f[k].inst = t.rec[k].inst
  BY <1>2, <1>3 DEF Record
<1> HIDE DEF f
<1>5. RequestCancel(t, ks).rec = f
  BY <1>1 DEF Ledger
<1> QED
  BY <1>4, <1>5

LEMMA PlanSteps ==
  /\ \E i \in 1..Len(ClaimThenJob) : ClaimThenJob[i] = "claim"
  /\ \E i \in 1..Len(ClaimThenJob) : ClaimThenJob[i] = "job"
  /\ \E i \in 1..Len(JobThenClaim) : JobThenClaim[i] = "claim"
  /\ \E i \in 1..Len(JobThenClaim) : JobThenClaim[i] = "job"
<1>1. Len(ClaimThenJob) = 2 /\ ClaimThenJob[1] = "claim" /\ ClaimThenJob[2] = "job"
  BY DEF ClaimThenJob
<1>2. Len(JobThenClaim) = 2 /\ JobThenClaim[1] = "job" /\ JobThenClaim[2] = "claim"
  BY DEF JobThenClaim
<1> HIDE DEF ClaimThenJob, JobThenClaim
<1>3. 1 \in 1..2 /\ 2 \in 1..2
  OBVIOUS
<1> QED
  BY <1>1, <1>2, <1>3

\* The calls an owner has just marked.
Fresh(k, b) ==
  /\ ledger'.rec[k].cancelRequested
  /\ \A what \in {"claim", "job"} :
       \E c \in cancels' : c.by = b /\ c.k = k /\ c.inst = ledger'.rec[k].inst /\ HasStep(c, what)

LEMMA CancelAllFresh ==
  ASSUME TypeOK, NEW ks, NEW b, NEW plan \in {ClaimThenJob, JobThenClaim}, CancelAll(ks, b, plan),
         NEW k \in Keys, k \in ks
  PROVE  Fresh(k, b)
<1>1. ledger \in Ledger /\ ledger' = RequestCancel(ledger, ks) /\ cancels' = cancels \cup Cancelling(ks, b, plan)
  BY DEF TypeOK, CancelAll
<1>2. ledger'.rec[k].cancelRequested /\ ledger'.rec[k].inst = ledger.rec[k].inst
  BY <1>1, RequestCancelMarks
<1> DEFINE c == [k |-> k, inst |-> ledger.rec[k].inst, by |-> b, plan |-> plan]
<1>3. c \in cancels'
  BY <1>1 DEF Cancelling
<1>4. c.by = b /\ c.k = k /\ c.inst = ledger.rec[k].inst /\ c.plan = plan
  OBVIOUS
<1> HIDE DEF c
<1>5. HasStep(c, "claim") /\ HasStep(c, "job")
  BY <1>4, PlanSteps DEF HasStep
<1> QED
  BY <1>2, <1>3, <1>4, <1>5 DEF Fresh

\* A new call is not marked: admission looks at the engine, the device and the
\* login in the same lock section.
LEMMA EntersUnmarked ==
  ASSUME SafetyInv, NEW l \in Links, Enters(l), NEW b \in Owners, NEW k \in Keys, k = KeyOf(l)
  PROVE  ~Marked(k, b)'
<1> DEFINE s == reader[l].sess
<1>1. UNCHANGED <<phase, trusted, revoke, session>>
  BY DEF Enters, ByReader, trustVars
<1>2. ~closed' /\ k[1] \in trusted'
  BY <1>1 DEF Enters, closed
<1>3. ledger'.rec[k].sess = s /\ (s \in Sessions => session'[s] = "active")
  <2>1. s \in Sessions => s # NoSession
    BY ConstantsAssumption
  <2> QED
    BY <1>1, <2>1 DEF Enters, Permits, isActive
<1> HIDE DEF s
<1> QED
  BY <1>2, <1>3 DEF Marked

\* The record goes on as a marked call.
LEMMA StillMarked ==
  ASSUME NEW k \in Keys, NEW b \in Owners, ledger'.rec[k].sess = ledger.rec[k].sess,
         UNCHANGED <<phase, trusted, revoke, session>>, Marked(k, b)'
  PROVE  Marked(k, b)
BY DEF Marked, closed

LEMMA OwnersApart == "revoke" \notin Sessions /\ "close" \notin Sessions
BY OwnersAssumption

\* A call is marked by its owner's first step, which leaves nothing out.
LEMMA StepMarks ==
  ASSUME SafetyInv, [Next]_vars, NEW k \in Keys, NEW b \in Owners,
         ledger'.rec[k].stage \in Active, Marked(k, b)'
  PROVE  \/ Marked(k, b) /\ Lives(ledger.rec[k], ledger'.rec[k], clock, closed')
         \/ Fresh(k, b)
<1> DEFINE r == ledger.rec[k]
           q == ledger'.rec[k]
<1>1. TypeOK /\ CallOK(r) /\ r.stage \in Stages
  BY SafetyParts, RecordOf DEF Record
<1>2. Lives(r, q, clock, closed')
  BY StepLives, EntersUnmarked DEF AllLive, Enters
<1>3. r.stage \in Active /\ q.sess = r.sess
  BY <1>1, <1>2, LivesActive DEF Carries
<1> SUFFICES Marked(k, b) \/ Fresh(k, b)
  BY <1>2
<1>4. UNCHANGED <<phase, trusted, revoke, session>> => Marked(k, b)
  BY <1>3, StillMarked
<1>5. CASE UNCHANGED vars
  BY <1>4, <1>5 DEF vars, trustVars
<1>6. ASSUME NEW l \in Links, LinkStep(l) PROVE Marked(k, b)
  BY <1>4, <1>6 DEF LinkStep, attach, AttachFails, LinkLost, detach, ByLink, trustVars
<1>7. ASSUME NEW l \in Links, ReaderStep(l) PROVE Marked(k, b)
  BY <1>4, <1>7, ReaderFrame
<1>8. ASSUME NEW j \in Keys, JobStep(j) PROVE Marked(k, b)
  BY <1>4, <1>8, JobFrame DEF ByJob, trustVars
<1>9. ASSUME NEW d \in deliver, Deliver(d) PROVE Marked(k, b)
  BY <1>4, <1>9 DEF Deliver, trustVars
<1>10. ASSUME NEW c \in cancels, CancelStep(c) PROVE Marked(k, b)
  BY <1>4, <1>10 DEF CancelStep, completeQueued, AwaitFinish, CancelJob, CancelAbandoned, ByJob, trustVars
<1>11. ASSUME NEW p \in Peers, TrustChange(p) PROVE Marked(k, b)
  <2>1. UNCHANGED <<phase, session>> /\ revoke.pc = "idle"
    BY <1>11 DEF TrustChange
  <2>2. \/ trusted' = trusted \ {p} /\ revoke' = [pc |-> "mark", peer |-> p]
        \/ trusted' = trusted \cup {p} /\ revoke' = revoke
    BY <1>11 DEF TrustChange
  <2>3. CASE b = "revoke"
    <3>1. k[1] \notin trusted' /\ ~(revoke'.pc = "mark" /\ revoke'.peer = k[1])
      BY <2>3, OwnersApart DEF Marked
    <3>2. k[1] \notin trusted
      <4>1. CASE trusted' = trusted \ {p} /\ revoke' = [pc |-> "mark", peer |-> p]
        BY <3>1, <4>1
      <4>2. CASE trusted' = trusted \cup {p} /\ revoke' = revoke
        BY <3>1, <4>2
      <4> QED
        BY <2>2, <4>1, <4>2
    <3> QED
      BY <2>1, <2>3, <3>2 DEF Marked
  <2>4. CASE b # "revoke"
    BY <1>3, <2>1, <2>4 DEF Marked, closed
  <2> QED
    BY <2>3, <2>4
<1>12. ASSUME NEW s \in Sessions, SessionStep(s) PROVE Marked(k, b) \/ Fresh(k, b)
  <2>1. UNCHANGED <<phase, trusted, revoke>>
    BY <1>12 DEF SessionStep, SessionEnds, SessionMark, SessionRevoked, CancelAll, trustVars
  <2>2. CASE ~(b \in Sessions)
    BY <2>1, <2>2 DEF Marked, closed
  <2>3. CASE b \in Sessions
    <3>1. r.sess = b /\ session'[b] \in {"cancelling", "revoked"}
      BY <1>3, <2>3, OwnersApart DEF Marked
    <3>2. session \in [Sessions -> {"active", "ended", "fenced", "cancelling", "revoked"}]
      BY <1>1 DEF TypeOK
    <3>3. CASE session[b] \in {"cancelling", "revoked"}
      BY <2>3, <3>1, <3>3 DEF Marked
    <3>4. CASE session[b] \notin {"cancelling", "revoked"}
      <4>1. SessionMark(s) /\ b = s
        <5>1. \E v : session' = [session EXCEPT ![s] = v]
          BY <1>12 DEF SessionStep, SessionEnds, SessionMark, SessionRevoked
        <5>2. b = s
          BY <3>1, <3>2, <3>4, <5>1
        <5>3. ~SessionEnds(s)
          BY <3>1, <3>2, <5>2 DEF SessionEnds
        <5>4. ~SessionRevoked(s)
          BY <3>4, <5>2 DEF SessionRevoked
        <5> QED
          BY <1>12, <5>2, <5>3, <5>4 DEF SessionStep
      <4>2. k \in {j \in Keys : ledger.rec[j].sess = s /\ ledger.rec[j].stage \in Active}
        BY <1>3, <3>1, <4>1
      <4>3. CancelAll({j \in Keys : ledger.rec[j].sess = s /\ ledger.rec[j].stage \in Active}, s, JobThenClaim)
        BY <4>1 DEF SessionMark
      <4> QED
        BY <1>1, <4>1, <4>2, <4>3, CancelAllFresh
    <3> QED
      BY <3>3, <3>4
  <2> QED
    BY <2>2, <2>3
<1>13. CASE HostStep
  <2>1. CASE AttachCloseOld \/ sweep \/ Tick
    BY <1>4, <2>1 DEF AttachCloseOld, sweep, Tick, ByLink, ByJob, trustVars
  <2>2. CASE RevokeMark
    <3>1. /\ revoke.pc = "mark" /\ UNCHANGED <<phase, session, trusted>>
          /\ CancelAll({j \in Keys : j[1] = revoke.peer /\ ledger.rec[j].stage \in Active}, "revoke", ClaimThenJob)
      BY <2>2 DEF RevokeMark, CancelAll
    <3>2. CASE b = "revoke" /\ k[1] = revoke.peer
      BY <1>1, <1>3, <3>1, <3>2, CancelAllFresh
    <3>3. CASE b = "revoke" /\ k[1] # revoke.peer
      BY <3>1, <3>3, OwnersApart DEF Marked
    <3>4. CASE b # "revoke"
      BY <1>3, <3>1, <3>4 DEF Marked, closed
    <3> QED
      BY <3>2, <3>3, <3>4
  <2>3. CASE RevokeClose
    <3>1. UNCHANGED <<phase, session, trusted>> /\ revoke.pc = "cancel"
      BY <2>3 DEF RevokeClose
    <3> QED
      BY <1>3, <3>1 DEF Marked, closed
  <2>4. CASE CloseBegin
    <3>1. UNCHANGED <<trusted, revoke, session>> /\ CancelAll(Records(ledger), "close", ClaimThenJob)
      BY <2>4 DEF CloseBegin, CancelAll
    <3>2. CASE b = "close"
      <4>1. k \in Records(ledger)
        BY <1>3 DEF Records, Present, Active
      <4> QED
        BY <1>1, <3>1, <3>2, <4>1, CancelAllFresh
    <3>3. CASE b # "close"
      BY <1>3, <3>1, <3>3 DEF Marked
    <3> QED
      BY <3>2, <3>3
  <2>5. CASE CloseLinks \/ CloseEnd
    <3>1. UNCHANGED <<trusted, revoke, session>> /\ closed
      BY <2>5 DEF CloseLinks, CloseEnd, trustVars, closed
    <3> QED
      BY <1>3, <3>1 DEF Marked
  <2> QED
    BY <1>13, <2>1, <2>2, <2>3, <2>4, <2>5 DEF HostStep
<1> QED
  BY <1>5, <1>6, <1>7, <1>8, <1>9, <1>10, <1>11, <1>12, <1>13 DEF Next

\* The same cancellation, with a step of its plan still to come.
Continues(c, what) ==
  \E d \in cancels' : d.by = c.by /\ d.k = c.k /\ d.inst = c.inst /\ HasStep(d, what)

\* A step of an owner's plan is dropped only when it has been taken.
Pursued ==
  \A c \in cancels : c.by \in Owners =>
    /\ HasStep(c, "claim") =>
         \/ Continues(c, "claim") \/ ~(Same(ledger, c.k, c.inst) /\ ledger.rec[c.k].stage = "Queued")
         \/ ledger'.rec[c.k].stage # "Queued"
    /\ HasStep(c, "job") =>
         \/ Continues(c, "job") \/ ~(Same(ledger, c.k, c.inst) /\ ledger.rec[c.k].launcher = "checked")
         \/ ledger'.rec[c.k].jobCancelled

LEMMA MorePursued ==
  ASSUME cancels \subseteq cancels'
  PROVE  Pursued
BY DEF Pursued, Continues

LEMMA TailHas ==
  ASSUME NEW S, NEW p \in Seq(S), NEW what, NEW i \in 1..Len(p), p[i] = what, Head(p) # what
  PROVE  /\ \E j \in 1..Len(Tail(p)) : Tail(p)[j] = what
         /\ \E j \in 1..Len(<<"await">> \o Tail(p)) : (<<"await">> \o Tail(p))[j] = what
<1>1. Len(p) \in Nat /\ i # 1 /\ p # <<>>
  BY LenProperties
<1>2. Tail(p) \in Seq(S) /\ Len(Tail(p)) = Len(p) - 1 /\ \A j \in 1..(Len(p) - 1) : Tail(p)[j] = p[j + 1]
  BY <1>1, HeadTailProperties
<1>3. i - 1 \in 1..Len(Tail(p)) /\ Tail(p)[i - 1] = what
  BY <1>1, <1>2
<1> DEFINE t == Tail(p)
           a == <<"await">>
<1>4. t \in Seq(S) /\ a \in Seq({"await"}) /\ Len(a) = 1
  BY <1>2
<1>5. t \in Seq(S \cup {"await"}) /\ a \in Seq(S \cup {"await"})
  BY <1>4
<1> HIDE DEF t, a
<1>6. /\ Len(a \o t) = Len(a) + Len(t)
      /\ \A j \in 1..(Len(a) + Len(t)) : (a \o t)[j] = IF j <= Len(a) THEN a[j] ELSE t[j - Len(a)]
  BY <1>5, ConcatProperties
<1>7. i \in 1..Len(a \o t) /\ (a \o t)[i] = t[i - 1]
  BY <1>1, <1>2, <1>4, <1>6 DEF t
<1> QED
  BY <1>3, <1>7 DEF t, a

\* An owner goes on with the rest of its plan.
LEMMA AdvanceContinues ==
  ASSUME TypeOK, NEW c \in cancels, NEW plan \in Seq({"claim", "await", "job"}), Advance(c, plan)
  PROVE  /\ \A d \in cancels \ {c} : d \in cancels'
         /\ \A what : (\E j \in 1..Len(plan) : plan[j] = what) => Continues(c, what)
<1>1. c \in Cancellation
  BY DEF TypeOK
<1>2. \A d \in cancels \ {c} : d \in cancels'
  BY DEF Advance
<1>3. ASSUME NEW what, \E j \in 1..Len(plan) : plan[j] = what PROVE Continues(c, what)
  <2> DEFINE e == [c EXCEPT !.plan = plan]
  <2>1. plan # <<>>
    BY <1>3
  <2>2. e \in cancels'
    BY <2>1 DEF Advance
  <2>3. e.by = c.by /\ e.k = c.k /\ e.inst = c.inst /\ e.plan = plan
    BY <1>1 DEF Cancellation
  <2> HIDE DEF e
  <2> QED
    BY <1>3, <2>2, <2>3 DEF Continues, HasStep
<1> QED
  BY <1>2, <1>3

LEMMA ClaimedStage ==
  ASSUME NEW t \in Ledger, NEW k \in Keys, NEW reason
  PROVE  Claimed(t, k, reason).rec[k].stage = "Finalizing"
<1> DEFINE e == [t.rec[k] EXCEPT !.stage = "Finalizing", !.task = "select", !.terminal = reason]
           f == [t.rec EXCEPT ![k] = e]
           p == Without(t.pending, k)
<1>1. Claimed(t, k, reason) = [t EXCEPT !.pending = p, !.rec = f]
  BY DEF Claimed
<1>2. e.stage = "Finalizing"
  BY LedgerParts DEF Record
<1> HIDE DEF e
<1>3. f[k] = e
  BY LedgerParts
<1> HIDE DEF f, p
<1>4. Claimed(t, k, reason).rec = f
  BY <1>1 DEF Ledger
<1> QED
  BY <1>2, <1>3, <1>4

LEMMA JobCancelledSet ==
  ASSUME NEW t \in Ledger, NEW k \in Keys
  PROVE  [t EXCEPT !.rec[k].jobCancelled = TRUE].rec[k].jobCancelled
<1> DEFINE e == [t.rec[k] EXCEPT !.jobCancelled = TRUE]
           f == [t.rec EXCEPT ![k] = e]
<1>1. [t EXCEPT !.rec[k].jobCancelled = TRUE] = [t EXCEPT !.rec = f]
  OBVIOUS
<1>2. e.jobCancelled
  BY LedgerParts DEF Record
<1> HIDE DEF e
<1>3. f[k] = e
  BY LedgerParts
<1> HIDE DEF f
<1>4. [t EXCEPT !.rec[k].jobCancelled = TRUE].rec = f
  BY <1>1 DEF Ledger
<1> QED
  BY <1>2, <1>3, <1>4

LEMMA CancelPursued ==
  ASSUME SafetyInv, NEW c \in cancels, CancelStep(c)
  PROVE  Pursued
<1>1. TypeOK /\ ledger \in Ledger /\ c \in Cancellation
  BY SafetyParts DEF TypeOK
<1>2. c.k \in Keys /\ c.plan \in Seq({"claim", "await", "job"}) /\ c.plan # <<>>
  BY <1>1 DEF Cancellation
<1> DEFINE p == c.plan
           rest == Tail(p)
           waits == <<"await">> \o rest
<1>3. rest \in Seq({"claim", "await", "job"}) /\ waits \in Seq({"claim", "await", "job"})
  BY <1>2
<1>4. ASSUME NEW what, HasStep(c, what), Head(c.plan) # what, Advance(c, rest) \/ Advance(c, waits)
      PROVE  Continues(c, what)
  <2>1. PICK i \in 1..Len(p) : p[i] = what
    BY <1>4 DEF HasStep
  <2>2. /\ \E j \in 1..Len(rest) : rest[j] = what
        /\ \E j \in 1..Len(waits) : waits[j] = what
    BY <1>2, <1>4, <2>1, TailHas
  <2> HIDE DEF rest, waits
  <2> QED
    BY <1>1, <1>3, <1>4, <2>2, AdvanceContinues
<1>5. Advance(c, rest) \/ Advance(c, waits) => \A d \in cancels \ {c} : d \in cancels'
  BY DEF Advance
<1> HIDE DEF rest, waits, p
<1> SUFFICES ASSUME NEW d \in cancels, d.by \in Owners
             PROVE  /\ HasStep(d, "claim") =>
                         \/ Continues(d, "claim")
                         \/ ~(Same(ledger, d.k, d.inst) /\ ledger.rec[d.k].stage = "Queued")
                         \/ ledger'.rec[d.k].stage # "Queued"
                    /\ HasStep(d, "job") =>
                         \/ Continues(d, "job")
                         \/ ~(Same(ledger, d.k, d.inst) /\ ledger.rec[d.k].launcher = "checked")
                         \/ ledger'.rec[d.k].jobCancelled
  BY DEF Pursued
<1>6. CASE CancelAbandoned(c)
  <2>1. c.by \notin Owners
    <3>1. c.by \in Links \/ c.by = "sweep"
      BY <1>6 DEF CancelAbandoned
    <3> QED
      BY <3>1, OwnersAssumption DEF Owners
  <2>2. d \in cancels'
    BY <1>6, <2>1 DEF CancelAbandoned
  <2> QED
    BY <2>2 DEF Continues
<1>7. CASE ~CancelAbandoned(c)
  <2>1. Advance(c, rest) \/ Advance(c, waits)
    BY <1>7, Zenon DEF CancelStep, completeQueued, AwaitFinish, CancelJob, rest, waits, p
  <2>2. CASE d # c
    BY <1>5, <2>1, <2>2 DEF Continues
  <2>3. CASE d = c
    <3>1. \A what : HasStep(c, what) /\ Head(c.plan) # what => Continues(c, what)
      BY <1>4, <2>1
    <3>2. CASE completeQueued(c)
      <4>1. Head(c.plan) = "claim"
        BY <3>2 DEF completeQueued
      <4>2. Same(ledger, c.k, c.inst) /\ ledger.rec[c.k].stage = "Queued" => ledger'.rec[c.k].stage # "Queued"
        <5>1. SUFFICES ASSUME Same(ledger, c.k, c.inst) /\ ledger.rec[c.k].stage = "Queued"
                       PROVE  ledger'.rec[c.k].stage # "Queued"
          OBVIOUS
        <5>2. \E reason : ledger' = Claimed(ledger, c.k, reason)
          BY <3>2, <5>1 DEF completeQueued
        <5> QED
          BY <1>1, <1>2, <5>2, ClaimedStage
      <4> QED
        BY <2>3, <3>1, <4>1, <4>2
    <3>3. CASE AwaitFinish(c)
      <4>1. Head(c.plan) = "await"
        BY <3>3 DEF AwaitFinish
      <4> QED
        BY <2>3, <3>1, <4>1
    <3>4. CASE CancelJob(c)
      <4>1. Head(c.plan) = "job"
        BY <3>4 DEF CancelJob
      <4>2. Same(ledger, c.k, c.inst) /\ ledger.rec[c.k].launcher = "checked" => ledger'.rec[c.k].jobCancelled
        <5>1. SUFFICES ASSUME Same(ledger, c.k, c.inst) /\ ledger.rec[c.k].launcher = "checked"
                       PROVE  ledger'.rec[c.k].jobCancelled
          OBVIOUS
        <5>2. ledger' = [ledger EXCEPT !.rec[c.k].jobCancelled = TRUE]
          BY <3>4, <5>1 DEF CancelJob
        <5> QED
          BY <1>1, <1>2, <5>2, JobCancelledSet
      <4> QED
        BY <2>3, <3>1, <4>1, <4>2
    <3> QED
      BY <1>7, <3>2, <3>3, <3>4 DEF CancelStep
  <2> QED
    BY <2>2, <2>3
<1> QED
  BY <1>6, <1>7

\* Outside the cancellers' own steps, cancellations are only added: by a
\* reader or the sweeper, or by an owner that is at work.
Adds ==
  \A d \in cancels' \ cancels :
    \/ d.by \notin Owners
    \/ d.by = "revoke" /\ revoke'.pc # "idle"
    \/ d.by = "close" /\ phase' \notin {"links", "sealed"}
    \/ d.by \in Sessions /\ session'[d.by] # "revoked"

LEMMA ControlledAdds ==
  ASSUME NEW l \in Links, NEW t, NEW k, Controlled(l, t, k)
  PROVE  cancels \subseteq cancels' /\ Adds
<1>1. cancels' = cancels \/ cancels' = cancels \cup Cancelling({k}, l, ClaimThenJob)
  BY Zenon DEF Controlled
<1>2. \A d \in Cancelling({k}, l, ClaimThenJob) : d.by = l
  BY DEF Cancelling
<1>3. l \notin Owners
  BY OwnersAssumption DEF Owners
<1> HIDE DEF Cancelling
<1> QED
  BY <1>1, <1>2, <1>3 DEF Adds

LEMMA CancelAllAdds ==
  ASSUME NEW ks, NEW b, NEW plan, CancelAll(ks, b, plan),
         \/ b = "revoke" /\ revoke'.pc # "idle"
         \/ b = "close" /\ phase' \notin {"links", "sealed"}
         \/ b \in Sessions /\ session'[b] # "revoked"
  PROVE  cancels \subseteq cancels' /\ Adds
<1>1. cancels' = cancels \cup Cancelling(ks, b, plan)
  BY DEF CancelAll
<1>2. \A d \in Cancelling(ks, b, plan) : d.by = b
  BY DEF Cancelling
<1> HIDE DEF Cancelling
<1> QED
  BY <1>1, <1>2 DEF Adds

LEMMA StepAdds ==
  ASSUME SafetyInv, [Next]_vars, ~\E c \in cancels : CancelStep(c)
  PROVE  cancels \subseteq cancels' /\ Adds
<1>1. UNCHANGED cancels => cancels \subseteq cancels' /\ Adds
  BY DEF Adds
<1>2. CASE UNCHANGED vars
  BY <1>1, <1>2 DEF vars, callVars
<1>3. ASSUME NEW l \in Links, LinkStep(l) PROVE UNCHANGED cancels
  BY <1>3 DEF LinkStep, attach, AttachFails, LinkLost, detach, ByLink, callVars
<1>4. ASSUME NEW l \in Links, ReaderStep(l) PROVE cancels \subseteq cancels' /\ Adds
  <2>1. CASE InvokeStep(l)
    <3>1. UNCHANGED cancels
      BY <2>1, Zenon DEF InvokeStep, InvokeLookup, InvokeDenied, InvokeAllowed, Authenticated, AuthenticationDenied,
         scopedDuplicate, Admit
    <3> QED
      BY <1>1, <3>1
  <2>2. CASE ControlStep(l)
    <3>1. UNCHANGED cancels \/ \E t, k : Controlled(l, t, k)
      BY <2>2, Zenon DEF ControlStep, ControlDenied, ControlAllowed, ScopedLookup, ScopedCommit, Unmatched
    <3> QED
      BY <1>1, <3>1, ControlledAdds
  <2>3. CASE Hello(l) \/ onMessage(l) \/ Send(l) \/ ReaderCancelled(l)
    <3>1. UNCHANGED cancels
      BY <2>3 DEF Hello, onMessage, Send, ReaderCancelled
    <3> QED
      BY <1>1, <3>1
  <2> QED
    BY <1>4, <2>1, <2>2, <2>3 DEF ReaderStep
<1>5. ASSUME NEW k \in Keys, JobStep(k) PROVE UNCHANGED cancels
  BY <1>5 DEF JobStep, Launch, PublishJob, CheckCancel, JobStart, JobBegin, JobFails, HandlerEnds,
     FinishSelect, FinishCommit, EndJob, Update
<1>6. ASSUME NEW d \in deliver, Deliver(d) PROVE UNCHANGED cancels
  BY <1>6 DEF Deliver
<1>7. ASSUME NEW p \in Peers, TrustChange(p) PROVE UNCHANGED cancels
  BY <1>7 DEF TrustChange, callVars
<1>8. ASSUME NEW s \in Sessions, SessionStep(s) PROVE cancels \subseteq cancels' /\ Adds
  <2>1. CASE SessionMark(s)
    <3>1. session'[s] = "cancelling"
      BY <2>1, SafetyParts DEF SessionMark, TypeOK
    <3>2. \E ks, plan : CancelAll(ks, s, plan)
      BY <2>1 DEF SessionMark
    <3> QED
      BY <3>1, <3>2, CancelAllAdds
  <2>2. CASE SessionEnds(s) \/ SessionRevoked(s)
    BY <1>1, <2>2 DEF SessionEnds, SessionRevoked, callVars
  <2> QED
    BY <1>8, <2>1, <2>2 DEF SessionStep
<1>9. CASE HostStep
  <2>1. CASE RevokeMark
    <3>1. revoke'.pc = "cancel"
      BY <2>1, SafetyParts DEF RevokeMark, TypeOK
    <3>2. \E ks, plan : CancelAll(ks, "revoke", plan)
      BY <2>1 DEF RevokeMark
    <3> QED
      BY <3>1, <3>2, CancelAllAdds
  <2>2. CASE CloseBegin
    <3>1. phase' = "closing" /\ \E ks, plan : CancelAll(ks, "close", plan)
      BY <2>2 DEF CloseBegin
    <3> QED
      BY <3>1, CancelAllAdds
  <2>3. CASE sweep
    <3>1. \E ks : cancels' = cancels \cup Cancelling(ks, "sweep", <<"claim">>)
      BY <2>3, Zenon DEF sweep
    <3>2. "sweep" \notin Owners
      BY OwnersAssumption DEF Owners
    <3>3. \A ks : \A d \in Cancelling(ks, "sweep", <<"claim">>) : d.by = "sweep"
      BY DEF Cancelling
    <3> HIDE DEF Cancelling
    <3> QED
      BY <3>1, <3>2, <3>3 DEF Adds
  <2>4. CASE AttachCloseOld \/ RevokeClose \/ CloseLinks \/ CloseEnd \/ Tick
    BY <1>1, <2>4 DEF AttachCloseOld, RevokeClose, CloseLinks, CloseEnd, Tick, ByLink, callVars
  <2> QED
    BY <1>9, <2>1, <2>2, <2>3, <2>4 DEF HostStep
<1> QED
  BY <1>1, <1>2, <1>3, <1>4, <1>5, <1>6, <1>7, <1>8, <1>9 DEF Next

\* An owner returns only when none of its cancellations is left.
Waits ==
  /\ revoke'.pc = "idle" => revoke.pc = "idle" \/ \A c \in cancels : c.by # "revoke"
  /\ phase' \in {"links", "sealed"} => phase \in {"links", "sealed"} \/ \A c \in cancels : c.by # "close"
  /\ \A s \in Sessions : session'[s] = "revoked" => session[s] = "revoked" \/ \A c \in cancels : c.by # s

LEMMA StepWaits ==
  ASSUME SafetyInv, [Next]_vars
  PROVE  Waits
<1>1. UNCHANGED <<phase, revoke, session>> => Waits
  BY DEF Waits
<1>2. TypeOK
  BY SafetyParts
<1>3. CASE UNCHANGED vars
  BY <1>1, <1>3 DEF vars, trustVars
<1>4. ASSUME NEW l \in Links, LinkStep(l) PROVE Waits
  BY <1>1, <1>4 DEF LinkStep, attach, AttachFails, LinkLost, detach, ByLink, trustVars
<1>5. ASSUME NEW l \in Links, ReaderStep(l) PROVE Waits
  BY <1>1, <1>5, ReaderFrame
<1>6. ASSUME NEW j \in Keys, JobStep(j) PROVE Waits
  BY <1>1, <1>6, JobFrame DEF ByJob, trustVars
<1>7. ASSUME NEW d \in deliver, Deliver(d) PROVE Waits
  BY <1>1, <1>7 DEF Deliver, trustVars
<1>8. ASSUME NEW c \in cancels, CancelStep(c) PROVE Waits
  BY <1>1, <1>8 DEF CancelStep, completeQueued, AwaitFinish, CancelJob, CancelAbandoned, ByJob, trustVars
<1>9. ASSUME NEW p \in Peers, TrustChange(p) PROVE Waits
  BY <1>9 DEF TrustChange, Waits
<1>10. ASSUME NEW s \in Sessions, SessionStep(s) PROVE Waits
  <2>1. UNCHANGED <<phase, revoke>>
    BY <1>10 DEF SessionStep, SessionEnds, SessionMark, SessionRevoked, CancelAll, trustVars
  <2>2. session \in [Sessions -> {"active", "ended", "fenced", "cancelling", "revoked"}]
    BY <1>2 DEF TypeOK
  <2>3. ASSUME NEW r \in Sessions, session'[r] = "revoked"
        PROVE  session[r] = "revoked" \/ \A c \in cancels : c.by # r
    <3>1. CASE r = s
      <4>1. SessionRevoked(s)
        BY <1>10, <2>2, <2>3, <3>1 DEF SessionStep, SessionEnds, SessionMark
      <4> QED
        BY <3>1, <4>1 DEF SessionRevoked
    <3>2. CASE r # s
      BY <1>10, <2>2, <2>3, <3>2 DEF SessionStep, SessionEnds, SessionMark, SessionRevoked
    <3> QED
      BY <3>1, <3>2
  <2> QED
    BY <2>1, <2>3 DEF Waits
<1>11. CASE HostStep
  <2>1. CASE AttachCloseOld \/ sweep \/ Tick
    BY <1>1, <2>1 DEF AttachCloseOld, sweep, Tick, ByLink, ByJob, trustVars
  <2>2. CASE RevokeMark
    <3>1. revoke'.pc = "cancel" /\ UNCHANGED <<phase, session>>
      BY <1>2, <2>2 DEF RevokeMark, TypeOK
    <3> QED
      BY <3>1 DEF Waits
  <2>3. CASE RevokeClose \/ CloseBegin \/ CloseLinks \/ CloseEnd
    BY <2>3 DEF RevokeClose, CloseBegin, CloseLinks, CloseEnd, trustVars, Waits
  <2> QED
    BY <1>11, <2>1, <2>2, <2>3 DEF HostStep
<1> QED
  BY <1>3, <1>4, <1>5, <1>6, <1>7, <1>8, <1>9, <1>10, <1>11 DEF Next

\* A canceller that goes on is still the same owner's.
LEMMA CancelStepOwners ==
  ASSUME TypeOK, NEW c \in cancels, CancelStep(c), NEW d \in cancels'
  PROVE  \E e \in cancels : d.by = e.by
<1>1. c \in Cancellation
  BY DEF TypeOK
<1>2. d \in cancels \/ \E plan : d = [c EXCEPT !.plan = plan]
  BY Zenon DEF CancelStep, completeQueued, AwaitFinish, CancelJob, CancelAbandoned, Advance
<1>3. \A plan : [c EXCEPT !.plan = plan].by = c.by
  BY <1>1 DEF Cancellation
<1> QED
  BY <1>2, <1>3

LEMMA SettledNext ==
  ASSUME SafetyInv, Settled, [Next]_vars
  PROVE  Settled'
<1>1. TypeOK /\ Waits
  BY SafetyParts, StepWaits
<1>2. ASSUME NEW e \in cancels
      PROVE  /\ e.by = "revoke" => revoke'.pc # "idle"
             /\ e.by = "close" => phase' \notin {"links", "sealed"}
             /\ \A s \in Sessions : e.by = s => session'[s] # "revoked"
  BY <1>1, <1>2 DEF Settled, Waits
<1>3. ASSUME NEW d \in cancels'
      PROVE  /\ d.by = "revoke" => revoke'.pc # "idle"
             /\ d.by = "close" => phase' \notin {"links", "sealed"}
             /\ \A s \in Sessions : d.by = s => session'[s] # "revoked"
  <2>1. CASE \E c \in cancels : CancelStep(c)
    <3>1. \E e \in cancels : d.by = e.by
      BY <1>1, <2>1, CancelStepOwners
    <3> QED
      BY <1>2, <3>1
  <2>2. CASE ~\E c \in cancels : CancelStep(c)
    <3>1. Adds
      BY <2>2, StepAdds
    <3>2. CASE d \in cancels
      BY <1>2, <3>2
    <3>3. CASE d \notin cancels
      BY <3>1, <3>3, OwnersApart DEF Adds, Owners
    <3> QED
      BY <3>2, <3>3
  <2> QED
    BY <2>1, <2>2
<1> QED
  BY <1>3 DEF Settled

LEMMA ReachedNext ==
  ASSUME SafetyInv, Reached, [Next]_vars
  PROVE  Reached'
<1>1. Pursued
  BY StepAdds, MorePursued, CancelPursued
<1> SUFFICES ASSUME NEW k \in Keys, NEW b \in Owners, ledger'.rec[k].stage \in Active, Marked(k, b)'
             PROVE  /\ ledger'.rec[k].cancelRequested
                    /\ ledger'.rec[k].stage = "Queued" => Owes(b, k, "claim")'
                    /\ Exposed(ledger'.rec[k]) => Owes(b, k, "job")'
  BY DEF Reached
<1> DEFINE r == ledger.rec[k]
           q == ledger'.rec[k]
<1>2. CASE Fresh(k, b)
  BY <1>2 DEF Fresh, Owes, HasStep
<1>3. CASE Marked(k, b) /\ Lives(r, q, clock, closed')
  <2>1. CallOK(r) /\ r.stage \in Stages
    BY RecordOf DEF Record
  <2>2. /\ r.stage \in Active /\ Carries(r, q)
        /\ q.stage = "Queued" => r.stage = "Queued"
        /\ Exposed(q) /\ q.cancelRequested => Exposed(r)
    BY <1>3, <2>1, LivesActive
  <2>3. /\ r.cancelRequested
        /\ r.stage = "Queued" => Owes(b, k, "claim")
        /\ Exposed(r) => Owes(b, k, "job")
    BY <1>3, <2>2 DEF Reached
  <2>4. q.cancelRequested /\ q.inst = r.inst
    BY <2>2, <2>3 DEF Carries
  <2>5. ASSUME q.stage = "Queued" PROVE Owes(b, k, "claim")'
    <3>1. PICK c \in cancels : c.by = b /\ c.k = k /\ c.inst = r.inst /\ HasStep(c, "claim")
      BY <2>2, <2>3, <2>5 DEF Owes, HasStep
    <3>2. Same(ledger, c.k, c.inst) /\ ledger.rec[c.k].stage = "Queued" /\ ledger'.rec[c.k].stage = "Queued"
      BY <2>2, <2>5, <3>1 DEF Same, Present
    <3>3. Continues(c, "claim")
      BY <1>1, <3>1, <3>2 DEF Pursued
    <3> QED
      BY <2>4, <3>1, <3>3 DEF Continues, Owes, HasStep
  <2>6. ASSUME Exposed(q) PROVE Owes(b, k, "job")'
    <3>1. PICK c \in cancels : c.by = b /\ c.k = k /\ c.inst = r.inst /\ HasStep(c, "job")
      BY <2>2, <2>3, <2>4, <2>6 DEF Owes, HasStep
    <3>2. Same(ledger, c.k, c.inst) /\ ledger.rec[c.k].launcher = "checked" /\ ~ledger'.rec[c.k].jobCancelled
      BY <2>2, <2>4, <2>6, <3>1 DEF Same, Present, Exposed, Active
    <3>3. Continues(c, "job")
      BY <1>1, <3>1, <3>2 DEF Pursued
    <3> QED
      BY <2>4, <3>1, <3>3 DEF Continues, Owes, HasStep
  <2> QED
    BY <2>4, <2>5, <2>6
<1> QED
  BY <1>2, <1>3, StepMarks


\* The inductive invariant behind CancelReaches.
CancelInv == SafetyInv /\ Reached /\ Settled

LEMMA CancelInit == Init => CancelInv
<1> SUFFICES ASSUME Init PROVE CancelInv
  OBVIOUS
<1>1. SafetyInv
  BY SafetyInit
<1>2. \A k \in Keys : ledger.rec[k].stage \notin Active
  BY AbsentStage DEF Init, Active
<1>3. cancels = {}
  BY DEF Init
<1> QED
  BY <1>1, <1>2, <1>3 DEF CancelInv, Reached, Settled

LEMMA CancelNext == CancelInv /\ [Next]_vars => CancelInv'
<1> SUFFICES ASSUME CancelInv, [Next]_vars PROVE CancelInv'
  OBVIOUS
<1>1. SafetyInv'
  BY SafetyNext DEF CancelInv
<1>2. Reached' /\ Settled'
  BY ReachedNext, SettledNext DEF CancelInv
<1> QED
  BY <1>1, <1>2 DEF CancelInv

\* Every call that a revocation, the end of a login or close() covers knows that
\* it is cancelled, and its owner still has the steps to take that it needs.
THEOREM CancelInvariant == Spec => []CancelInv
BY CancelInit, CancelNext, PTL DEF Spec

LEMMA ReachedCovers ==
  ASSUME CancelInv
  PROVE  CancelReaches
<1> SUFFICES ASSUME NEW k \in InStage(Active),
                    \/ ledger.rec[k].sess # NoSession /\ session[ledger.rec[k].sess] = "revoked"
                    \/ k[1] \notin trusted /\ revoke.pc = "idle"
                    \/ phase \in {"links", "sealed"}
             PROVE  /\ ledger.rec[k].stage # "Queued"
                    /\ ledger.rec[k].launcher = "checked" /\ ledger.rec[k].task \in {"ready", "decoding", "handler"} =>
                         ledger.rec[k].jobCancelled
  BY DEF CancelReaches
<1>1. k \in Keys /\ ledger.rec[k].stage \in Active /\ ledger.rec[k].sess \in Sessions \cup {NoSession}
  BY RecordOf DEF InStage, CancelInv, Record
<1>2. \E b \in Owners : Marked(k, b) /\ \A c \in cancels : c.by # b
  <2>1. CASE ledger.rec[k].sess # NoSession /\ session[ledger.rec[k].sess] = "revoked"
    BY <1>1, <2>1 DEF CancelInv, Settled, Marked, Owners
  <2>2. CASE k[1] \notin trusted /\ revoke.pc = "idle"
    BY <2>2 DEF CancelInv, Settled, Marked, Owners
  <2>3. CASE phase \in {"links", "sealed"}
    BY <2>3 DEF CancelInv, Settled, Marked, Owners, closed
  <2> QED
    BY <2>1, <2>2, <2>3
<1>3. PICK b \in Owners : Marked(k, b) /\ \A c \in cancels : c.by # b
  BY <1>2
<1>4. ~Owes(b, k, "claim") /\ ~Owes(b, k, "job")
  BY <1>3 DEF Owes
<1>5. ledger.rec[k].stage # "Queued" /\ ~Exposed(ledger.rec[k])
  BY <1>1, <1>3, <1>4 DEF CancelInv, Reached
<1> QED
  BY <1>5 DEF Exposed

\* After revokeApplicationSession(), RpcTrust.revoke() or the cancelling part of
\* close() has returned, no call it covers is still queued and every launched and
\* checked job of one is cancelled: for every number of calls, links and logins.
THEOREM CancelReachesHolds == Spec => []CancelReaches
BY ReachedCovers, CancelInvariant, PTL
=============================================================================
