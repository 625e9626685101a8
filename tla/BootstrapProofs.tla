-------------------------- MODULE BootstrapProofs ---------------------------
(* Proofs about the cache bootstrap as a whole: for every choice of the       *)
(* fences, every number of troubles and every set of records that may be      *)
(* replaced, nothing is lost silently at the end of a process or of a stage,  *)
(* and no stage returns a result over an original that was replaced before    *)
(* it began.  One inductive invariant, BootInv, carries both; each template   *)
(* of HostedOwner and HostedParent keeps it wherever its places allow, and    *)
(* each step of a stage is an instance of a template.                         *)
EXTENDS Bootstrap, TLAPS

-----------------------------------------------------------------------------
(* Types.                                                                     *)

Resources == {"directories", "stdout", "stderr", "scope", "leaf"}

OwnerRecord ==
  [held : SUBSET Resources, failed : BOOLEAN, unknown : BOOLEAN, closed : BOOLEAN,
   phase : {"WORK", "RETURN", "FINAL", "READ"}, old : Nat \X Nat, outer : {<<>>},
   work : Nat, final : Nat, read : Nat]
ChildRecord == [st : {"none", "running", "wrote", "exited", "gone"}, ok : BOOLEAN, tree : BOOLEAN]

\* The names of records and places are strings, of which nothing is assumed.
IsDisk(r) == r = [written |-> r.written, swapped |-> r.swapped]
IsControl(r) == r = [stage |-> r.stage, pc |-> r.pc] /\ r.stage \in 1 .. 19

TypeOK ==
  /\ now \in Nat /\ trouble \in Nat /\ cancelled \in BOOLEAN /\ quarantine \in BOOLEAN
  /\ IsControl(at) /\ own \in OwnerRecord /\ IsDisk(disk) /\ child \in ChildRecord
  /\ published \subseteq 1 .. 18

-----------------------------------------------------------------------------
(* The inductive invariant.                                                   *)

\* Between the launch of a child and the end of its drain.
Native == {"phase-birth", "phase-poll", "phase-drain", "birth", "poll", "finish", "finish-return",
           "cancel-child", "return-child"}

\* After the close of an owner, before another one is opened.
Settled == {"start", "raised", "done", "closed", "handoff-closed", "complete-closed", "closed-2", "closed-3",
            "closed-4", "bind", "returning"}

\* A child that was never launched left nothing behind.
ChildOK == child.st = "none" => ~child.tree

\* Whatever may still be running or open is unknown or still to be closed.
LeakOK ==
  \/ quarantine
  \/ /\ Alive => at.pc \in Native \/ own.unknown
     /\ at.pc \in Settled => own.held = {} /\ ~own.unknown

\* Stage s has compared all it inherits when it is at p and has not failed.
Compared(s, p) ==
  /\ p \notin {"start", "raised", "done"}
  /\ s = 2 => p # "prepared"
  /\ s = 3 => p # "read-1"
  /\ s \in {4, 5, 9, 10} => p # "originals"
  /\ s \in {12, 13} => p # "leaf"
  /\ s \in 15 .. 18 => p # "open"

Fresh(s) == StaleSince(s) \cap Inherited(s) = {}

ChainOK ==
  /\ \A s \in published : s < at.stage /\ Fresh(s)
  /\ ~own.failed /\ Compared(at.stage, at.pc) => Fresh(at.stage)

BootInv == TypeOK /\ ChildOK /\ LeakOK /\ ChainOK

-----------------------------------------------------------------------------
(* Owners and their fences.                                                   *)

LEMMA LeastNat == \A m, n \in Nat : Least(m, n) \in Nat
BY DEF Least

LEMMA OpenedType ==
  ASSUME TypeOK, NEW w \in Nat, NEW c \in Nat
  PROVE  /\ Opened(w, c) \in OwnerRecord
         /\ Opened(w, c).held = {} /\ ~Opened(w, c).unknown
<1>1. now + w \in Nat /\ now + w + c \in Nat /\ now + w + c + c \in Nat /\ JobEnd \in Nat
  BY BoundsAssumption DEF TypeOK
<1>2. /\ Least(now + w, JobEnd) \in Nat /\ Least(now + w + c, JobEnd) \in Nat
      /\ Least(now + w + c + c, JobEnd) \in Nat
  BY <1>1, LeastNat
<1> QED
  BY <1>2 DEF Opened, OwnerRecord

LEMMA FinalType ==
  ASSUME TypeOK
  PROVE  /\ Final \in OwnerRecord
         /\ Final.held = own.held /\ Final.unknown = own.unknown /\ Final.failed = own.failed
<1>1. own.final \in Nat /\ now + Clean \in Nat
  BY BoundsAssumption DEF TypeOK, OwnerRecord
<1>2. Least(own.final, now + Clean) \in Nat
  BY <1>1, LeastNat
<1> QED
  BY <1>2 DEF Final, TypeOK, OwnerRecord

LEMMA BrokenType ==
  ASSUME TypeOK
  PROVE  /\ Broken \in OwnerRecord
         /\ Broken.held = own.held /\ (own.unknown => Broken.unknown) /\ Broken.failed
BY DEF Broken, Launched, TypeOK, OwnerRecord, ChildRecord

-----------------------------------------------------------------------------
(* A step within a stage.                                                     *)

LEMMA FreshKept ==
  ASSUME NEW s, Fresh(s), disk'.swapped \subseteq disk.swapped
  PROVE  Fresh(s)'
BY DEF Fresh, StaleSince

\* The types of what a step of a process changes.
Typed ==
  /\ IsControl(at') /\ own' \in OwnerRecord /\ IsDisk(disk') /\ child' \in ChildRecord
  /\ at'.stage = at.stage /\ disk'.swapped \subseteq disk.swapped

Counted == Smooth \/ Raised

LEMMA Moves ==
  ASSUME BootInv, Typed, Frame, Counted, quarantine' \in BOOLEAN,
         ChildOK', LeakOK', ~own'.failed /\ Compared(at.stage, at'.pc) => Fresh(at.stage)
  PROVE  BootInv'
<1>1. TypeOK'
  BY DEF BootInv, TypeOK, Typed, Frame, Counted, Smooth, Raised
<1>2. ChainOK'
  <2>1. (\A s \in published : s < at.stage /\ Fresh(s))'
    BY FreshKept DEF BootInv, ChainOK, Typed, Frame
  <2>2. (~own.failed /\ Compared(at.stage, at.pc) => Fresh(at.stage))'
    BY FreshKept DEF Typed, Compared, Fresh, StaleSince
  <2> QED
    BY <2>1, <2>2 DEF ChainOK
<1> QED
  BY <1>1, <1>2 DEF BootInv

\* The places of a step that stays outside the child's life or inside it.
Within(p, q) == q \notin Settled /\ (p \in Native => q \in Native)

LEMMA Leaks ==
  ASSUME BootInv, UNCHANGED <<child, quarantine>>, own.unknown => own'.unknown,
         Within(at.pc, at'.pc)
  PROVE  ChildOK' /\ LeakOK'
BY DEF BootInv, ChildOK, LeakOK, Alive, Within

\* A stage keeps what it has compared, and compares the rest in rd.
Compares(s, p, q, rd) == Compared(s, q) => Compared(s, p) \/ Inherited(s) \subseteq rd

LEMMA OriginalsFresh ==
  ASSUME NEW s, NEW rd, Originals(rd), Inherited(s) \subseteq rd
  PROVE  Fresh(s)
BY DEF Originals, Fresh, StaleSince

\* What the small changes of a step leave typed.
LEMMA GoesTo ==
  ASSUME TypeOK, NEW q, at' = [at EXCEPT !.pc = q]
  PROVE  IsControl(at') /\ at'.stage = at.stage /\ at'.pc = q
BY DEF TypeOK, IsControl

LEMMA Writes ==
  ASSUME TypeOK, NEW w, disk' = disk \/ disk' = [disk EXCEPT !.written = @ \cup w]
  PROVE  IsDisk(disk') /\ disk'.swapped = disk.swapped
BY DEF TypeOK, IsDisk

-----------------------------------------------------------------------------
(* The templates of HostedOwner.                                              *)

LEMMA StepKeeps ==
  ASSUME NEW p, NEW q, NEW e, NEW live, NEW rd,
         NEW wr, NEW tk \in SUBSET Resources,
         BootInv, Step(p, q, e, live, rd, wr, tk), Within(p, q), Within(p, e),
         Compares(at.stage, p, q, rd)
  PROVE  BootInv'
<1>1. TypeOK /\ at.pc = p /\ UNCHANGED <<child, quarantine>> /\ Frame /\ Counted
  BY DEF Step, BootInv, Counted
<1>2. CASE /\ Originals(rd) /\ at' = [at EXCEPT !.pc = q]
           /\ own' = [own EXCEPT !.held = @ \cup tk]
           /\ disk' = [disk EXCEPT !.written = @ \cup wr]
  <2>1. Typed /\ own'.unknown = own.unknown /\ own'.failed = own.failed /\ at'.pc = q
    BY <1>1, <1>2 DEF TypeOK, Typed, IsControl, OwnerRecord, IsDisk
  <2>2. ~own'.failed /\ Compared(at.stage, at'.pc) => Fresh(at.stage)
    BY <1>1, <1>2, <2>1, OriginalsFresh DEF Compares, BootInv, ChainOK
  <2> QED
    BY <1>1, <2>1, <2>2, Leaks, Moves DEF TypeOK
<1>3. CASE /\ at' = [at EXCEPT !.pc = e] /\ UNCHANGED disk
           /\ \/ own' = [own EXCEPT !.failed = TRUE]
              \/ own' = [own EXCEPT !.failed = TRUE, !.unknown = TRUE]
              \/ own' = [own EXCEPT !.failed = TRUE, !.held = @ \cup tk]
  <2>1. own' \in OwnerRecord /\ (own.unknown => own'.unknown) /\ own'.failed
    <3>1. CASE own' = [own EXCEPT !.failed = TRUE]
      BY <1>1, <3>1 DEF TypeOK, OwnerRecord
    <3>2. CASE own' = [own EXCEPT !.failed = TRUE, !.unknown = TRUE]
      BY <1>1, <3>2 DEF TypeOK, OwnerRecord
    <3>3. CASE own' = [own EXCEPT !.failed = TRUE, !.held = @ \cup tk]
      BY <1>1, <3>3 DEF TypeOK, OwnerRecord
    <3> QED
      BY <1>3, <3>1, <3>2, <3>3
  <2>2. Typed /\ at'.pc = e
    BY <1>1, <1>3, <2>1 DEF TypeOK, Typed, IsControl
  <2> QED
    BY <1>1, <2>1, <2>2, Leaks, Moves DEF TypeOK
<1> QED
  BY <1>2, <1>3 DEF Step

\* The places at which some stage has not yet compared what it inherits.
Beginnings == {"start", "raised", "done", "prepared", "read-1", "originals", "leaf", "open"}

LEMMA StepOn ==
  ASSUME NEW p, NEW q, NEW e, NEW live, NEW rd, NEW wr, NEW tk \in SUBSET Resources,
         BootInv, Step(p, q, e, live, rd, wr, tk), Within(p, q), Within(p, e), p \notin Beginnings
  PROVE  BootInv'
<1>1. Compared(at.stage, p)
  BY DEF Compared, Beginnings
<1> QED
  BY <1>1, StepKeeps DEF Compares

LEMMA RetainKeeps ==
  ASSUME NEW p, NEW q, NEW f,
         BootInv, Retain(p, q, f), Within(p, q), Compares(at.stage, p, q, {})
  PROVE  BootInv'
<1>1. TypeOK /\ at.pc = p /\ UNCHANGED <<own, child, quarantine>> /\ Frame /\ Counted
  BY DEF Retain, BootInv, Counted
<1>2. at' = [at EXCEPT !.pc = q] /\ (disk' = disk \/ disk' = [disk EXCEPT !.written = @ \cup {f}])
  BY <1>1 DEF Retain
<1>3. IsControl(at') /\ at'.stage = at.stage /\ at'.pc = q
  BY <1>1, <1>2, GoesTo
<1>4. IsDisk(disk') /\ disk'.swapped = disk.swapped
  BY <1>1, <1>2, Writes
<1>5. Typed /\ at'.pc = q
  BY <1>1, <1>3, <1>4 DEF TypeOK, Typed
<1>6. ~own'.failed /\ Compared(at.stage, at'.pc) => Fresh(at.stage)
  BY <1>1, <1>5 DEF Compares, BootInv, ChainOK, Fresh
<1> QED
  BY <1>1, <1>2, <1>5, <1>6, Leaks, Moves DEF TypeOK

LEMMA CloseKeeps ==
  ASSUME NEW p, NEW q,
         BootInv, CloseOwner(p, q), p \notin Native, Compared(at.stage, q) => Compared(at.stage, p)
  PROVE  BootInv'
<1>1. TypeOK /\ at.pc = p /\ UNCHANGED <<disk, child>> /\ Frame /\ Counted
  BY DEF CloseOwner, CloseKnown, CloseUnknown, BootInv, Counted
<1>2. Typed /\ at'.pc = q /\ (own.failed => own'.failed)
  <2>1. CASE CloseKnown(p, q)
    BY <1>1, <2>1 DEF CloseKnown, TypeOK, Typed, IsControl, OwnerRecord
  <2>2. CASE CloseUnknown(p, q)
    BY <1>1, <2>2 DEF CloseUnknown, TypeOK, Typed, IsControl, OwnerRecord
  <2> QED
    BY <2>1, <2>2 DEF CloseOwner
<1>3. ~own'.failed /\ Compared(at.stage, at'.pc) => Fresh(at.stage)
  BY <1>1, <1>2 DEF BootInv, ChainOK
<1>4. quarantine' \in BOOLEAN /\ ChildOK'
  BY <1>1 DEF CloseOwner, CloseKnown, CloseUnknown, BootInv, TypeOK, ChildOK
<1>5. LeakOK'
  <2>1. CASE CloseKnown(p, q)
    BY <1>1, <2>1 DEF CloseKnown, BootInv, LeakOK, Alive, TypeOK, OwnerRecord
  <2>2. CASE CloseUnknown(p, q)
    BY <2>2 DEF CloseUnknown, LeakOK
  <2> QED
    BY <2>1, <2>2 DEF CloseOwner
<1> QED
  BY <1>1, <1>2, <1>3, <1>4, <1>5, Moves

LEMMA LeafCloseKeeps ==
  ASSUME NEW p, NEW q,
         BootInv, LeafClose(p, q), Within(p, q), Within(p, "closing"),
         Compared(at.stage, p)
  PROVE  BootInv'
<1>1. TypeOK /\ at.pc = p /\ UNCHANGED <<disk, child, quarantine>> /\ Frame /\ Counted
  BY DEF LeafClose, BootInv, Counted
<1>2. own' \in OwnerRecord /\ (own.failed => own'.failed) /\ (own.unknown => own'.unknown)
  <2>1. \/ own' = own
        \/ own' = [own EXCEPT !.held = @ \ {"leaf"}]
        \/ own' = [own EXCEPT !.failed = TRUE, !.unknown = TRUE]
    BY DEF LeafClose
  <2> QED
    BY <1>1, <2>1 DEF TypeOK, OwnerRecord
<1>3. Typed /\ at'.pc \in {q, "closing"}
  <2>1. at' = [at EXCEPT !.pc = q] \/ at' = [at EXCEPT !.pc = "closing"]
    BY DEF LeafClose
  <2>2. IsControl(at') /\ at'.stage = at.stage /\ at'.pc \in {q, "closing"}
    BY <1>1, <2>1 DEF TypeOK, IsControl
  <2> QED
    BY <1>1, <1>2, <2>2 DEF TypeOK, Typed
<1>4. ~own'.failed => Fresh(at.stage)
  BY <1>1, <1>2 DEF BootInv, ChainOK
<1> QED
  BY <1>1, <1>2, <1>3, <1>4, Leaks, Moves DEF TypeOK

LEMMA SpawnKeeps ==
  ASSUME NEW p, NEW q, NEW e, NEW live, NEW rd,
         BootInv, Spawn(p, q, e, live, rd), {q, e} \subseteq Native, Compared(at.stage, p)
  PROVE  BootInv'
<1>1. TypeOK /\ at.pc = p /\ UNCHANGED <<disk, quarantine>> /\ Frame /\ Counted
  BY DEF Spawn, BootInv, Counted
<1>2. own' = own \/ own' = [own EXCEPT !.failed = TRUE]
  BY DEF Spawn
<1>3. own' \in OwnerRecord /\ (own.failed => own'.failed)
  BY <1>1, <1>2 DEF TypeOK, OwnerRecord
<1>4. child' \in ChildRecord /\ ChildOK'
  <2>1. child' = child \/ \E st \in {"running", "gone"} : child' = [NoChild EXCEPT !.st = st]
    BY DEF Spawn
  <2> QED
    BY <1>1, <2>1 DEF TypeOK, ChildRecord, NoChild, ChildOK, BootInv
<1>5. at' = [at EXCEPT !.pc = q] \/ at' = [at EXCEPT !.pc = e]
  BY DEF Spawn
<1>6. Typed /\ at'.pc \in Native
  BY <1>1, <1>3, <1>4, <1>5, GoesTo DEF TypeOK, Typed
<1>7. LeakOK'
  BY <1>6 DEF LeakOK, Native, Settled
<1>8. ~own'.failed => Fresh(at.stage)
  BY <1>1, <1>3 DEF BootInv, ChainOK
<1> QED
  BY <1>1, <1>4, <1>6, <1>7, <1>8, Moves DEF TypeOK

LEMMA PollKeeps ==
  ASSUME NEW p, NEW q, NEW live,
         BootInv, Poll(p, q, live), Within(p, q), Compared(at.stage, p)
  PROVE  BootInv'
<1>1. TypeOK /\ at.pc = p /\ UNCHANGED <<disk, child, quarantine>> /\ Frame /\ Counted
  BY DEF Poll, BootInv, Counted
<1>2. PICK b \in BOOLEAN : (own.failed => b) /\ own' = [own EXCEPT !.failed = b]
  <2>1. own' = [own EXCEPT !.failed = own.failed \/ ~live \/ ~child.ok \/ child.tree]
    BY DEF Poll
  <2>2. (own.failed \/ ~live \/ ~child.ok \/ child.tree) \in BOOLEAN
    OBVIOUS
  <2> QED
    BY <2>1, <2>2
<1>3. own' \in OwnerRecord /\ (own.failed => own'.failed) /\ own'.unknown = own.unknown
  BY <1>1, <1>2 DEF TypeOK, OwnerRecord
<1>4. Typed /\ at'.pc = q
  BY <1>1, <1>3, GoesTo DEF Poll, TypeOK, Typed
<1>5. ~own'.failed => Fresh(at.stage)
  BY <1>1, <1>3 DEF BootInv, ChainOK
<1> QED
  BY <1>1, <1>3, <1>4, <1>5, Leaks, Moves DEF TypeOK

\* A drained child is gone.
Retired == IF child.st = "none" THEN child ELSE [child EXCEPT !.st = "gone", !.tree = FALSE]

LEMMA RetiredDead ==
  ASSUME BootInv
  PROVE  /\ Retired \in ChildRecord /\ (Retired.st = "none" => ~Retired.tree)
         /\ Retired.st \notin {"running", "wrote"} /\ ~Retired.tree
BY DEF Retired, BootInv, TypeOK, ChildRecord, ChildOK

\* The end of a native child: it is dead, or the owner is unknown.
LEMMA RetireLeaks ==
  ASSUME BootInv, child' = Retired \/ (own'.unknown /\ child' \in {child, Retired}),
         at'.pc \notin Settled, UNCHANGED quarantine
  PROVE  child' \in ChildRecord /\ ChildOK' /\ LeakOK'
<1>1. CASE child' = Retired
  BY <1>1, RetiredDead DEF ChildOK, LeakOK, Alive
<1>2. CASE own'.unknown /\ child' \in {child, Retired}
  BY <1>2, RetiredDead DEF ChildOK, LeakOK, Alive, BootInv, TypeOK
<1> QED
  BY <1>1, <1>2

LEMMA DrainKeeps ==
  ASSUME NEW p, NEW q,
         BootInv, Drain(p, q), q \notin Settled, Compared(at.stage, p)
  PROVE  BootInv'
<1>1. /\ TypeOK /\ at.pc = p /\ at' = [at EXCEPT !.pc = q] /\ UNCHANGED <<disk, quarantine>>
      /\ Frame /\ Counted
  BY DEF Drain, DrainKnown, DrainUnknown, BootInv, Counted
<1>2. at'.pc = q
  BY <1>1, GoesTo
<1>3. CASE DrainKnown(p, q)
  <2>1. own' \in OwnerRecord /\ own'.failed = own.failed
    BY <1>1, <1>3 DEF DrainKnown, TypeOK, OwnerRecord
  <2>2. child' = Retired
    BY <1>3 DEF DrainKnown, Retired
  <2>3. child' \in ChildRecord /\ ChildOK' /\ LeakOK'
    BY <1>1, <1>2, <2>2, RetireLeaks
  <2>4. Typed
    BY <1>1, <2>1, <2>3, GoesTo DEF TypeOK, Typed
  <2> QED
    BY <1>1, <2>1, <2>3, <2>4, Moves DEF TypeOK, BootInv, ChainOK
<1>4. CASE DrainUnknown(p, q)
  <2>1. own' \in OwnerRecord /\ own'.failed /\ own'.unknown
    BY <1>1, <1>4 DEF DrainUnknown, TypeOK, OwnerRecord
  <2>2. child' \in {child, Retired}
    <3>1. child.st = "none" => [child EXCEPT !.st = IF @ = "none" THEN @ ELSE "gone", !.tree = FALSE] = child
      BY DEF BootInv, TypeOK, ChildOK, ChildRecord
    <3> QED
      BY <1>4, <3>1 DEF DrainUnknown, Retired
  <2>3. child' \in ChildRecord /\ ChildOK' /\ LeakOK'
    BY <1>1, <1>2, <2>1, <2>2, RetireLeaks
  <2>4. Typed
    BY <1>1, <2>1, <2>3, GoesTo DEF TypeOK, Typed
  <2> QED
    BY <1>1, <2>1, <2>3, <2>4, Moves DEF TypeOK
<1> QED
  BY <1>3, <1>4 DEF Drain

LEMMA ReopenKeeps ==
  ASSUME NEW p, NEW q, NEW next \in OwnerRecord,
         BootInv, Reopen(p, q, next), p \in Settled, q \notin Settled, Compared(at.stage, p)
  PROVE  BootInv'
<1>1. TypeOK /\ at.pc = p /\ UNCHANGED <<disk, child, quarantine>> /\ Frame /\ Counted
  BY DEF Reopen, BootInv, Counted
<1>2. CASE at' = [at EXCEPT !.pc = "raised"] /\ UNCHANGED own
  <2>1. Typed /\ at'.pc = "raised"
    <3>1. IsControl(at') /\ at'.stage = at.stage /\ at'.pc = "raised"
      BY <1>1, <1>2 DEF TypeOK, IsControl
    <3> QED
      BY <1>1, <1>2, <3>1 DEF TypeOK, Typed
  <2>2. ChildOK' /\ LeakOK'
    BY <1>1, <1>2, <2>1 DEF BootInv, ChildOK, LeakOK, Alive, Native, Settled
  <2>3. ~Compared(at.stage, at'.pc)
    BY <2>1 DEF Compared
  <2> QED
    BY <1>1, <2>1, <2>2, <2>3, Moves DEF TypeOK
<1>3. CASE /\ ~own.failed /\ ~own.unknown /\ at' = [at EXCEPT !.pc = q]
           /\ own' = [next EXCEPT !.held = own.held]
  <2>0. own' \in OwnerRecord
    BY <1>1, <1>3 DEF TypeOK, OwnerRecord
  <2>1. Typed /\ at'.pc = q
    BY <1>1, <1>3, <2>0, GoesTo DEF TypeOK, Typed
  <2>2. ChildOK' /\ LeakOK'
    BY <1>1, <1>3, <2>1 DEF BootInv, ChildOK, LeakOK, Alive, Native, Settled
  <2>3. Fresh(at.stage)
    BY <1>1, <1>3 DEF BootInv, ChainOK
  <2> QED
    BY <1>1, <2>1, <2>2, <2>3, Moves DEF TypeOK
<1> QED
  BY <1>2, <1>3 DEF Reopen

\* The return of a stage: what it inherited was compared, and the next stage
\* starts with nothing held.
LEMMA PublishKeeps ==
  ASSUME NEW p, NEW s \in 1 .. 18, NEW ok, NEW next \in OwnerRecord,
         BootInv, Publish(p, s, ok, next), p \in Settled, Compared(s, p),
         quarantine \/ ~next.unknown
  PROVE  BootInv'
<1>1. /\ TypeOK /\ at.pc = p /\ at.stage = s /\ Smooth
      /\ UNCHANGED <<now, cancelled, disk, quarantine>>
  BY DEF Publish, BootInv
<1>2. CASE /\ ~own.failed /\ ~own.unknown
           /\ at' = [stage |-> s + 1, pc |-> "start"] /\ published' = published \cup {s}
           /\ own' = [next EXCEPT !.held = own.held] /\ child' = IF Alive THEN child ELSE NoChild
  <2>0. own' \in OwnerRecord /\ own'.held = own.held /\ own'.unknown = next.unknown
    BY <1>1, <1>2 DEF TypeOK, OwnerRecord
  <2>1. TypeOK'
    <3>1. IsControl(at') /\ child' \in ChildRecord
      BY <1>1, <1>2 DEF IsControl, ChildRecord, NoChild, TypeOK
    <3>2. published' \subseteq 1 .. 18
      BY <1>1, <1>2 DEF TypeOK
    <3> QED
      BY <1>1, <1>2, <2>0, <3>1, <3>2 DEF TypeOK, Smooth
  <2>2. ChildOK' /\ LeakOK'
    <3>1. quarantine \/ (~Alive /\ own.held = {})
      BY <1>1, <1>2 DEF BootInv, LeakOK, Native, Settled
    <3>2. ChildOK' /\ (~Alive => ~Alive')
      BY <1>2 DEF BootInv, ChildOK, Alive, NoChild
    <3> QED
      BY <1>1, <1>2, <2>0, <3>1, <3>2 DEF LeakOK
  <2>3. Fresh(s)
    BY <1>1, <1>2 DEF BootInv, ChainOK
  <2>4. (\A t \in published : t < at.stage /\ Fresh(t))'
    <3>1. \A t \in published \cup {s} : t < s + 1 /\ Fresh(t)
      <4>1. \A t \in published : t < s /\ Fresh(t) /\ t \in 1 .. 18
        BY <1>1 DEF BootInv, ChainOK, TypeOK
      <4> QED
        BY <2>3, <4>1
    <3> QED
      BY <1>1, <1>2, <3>1, FreshKept
  <2>5. ~Compared(at'.stage, at'.pc)
    BY <1>2 DEF Compared
  <2> QED
    BY <2>1, <2>2, <2>4, <2>5 DEF BootInv, ChainOK
<1>3. CASE at' = [at EXCEPT !.pc = "raised"] /\ UNCHANGED <<published, own, child>>
  <2>1. Typed /\ at'.pc = "raised"
    <3>1. IsControl(at') /\ at'.stage = at.stage /\ at'.pc = "raised"
      BY <1>1, <1>3 DEF TypeOK, IsControl
    <3> QED
      BY <1>1, <1>3, <3>1 DEF TypeOK, Typed
  <2>2. ChildOK' /\ LeakOK'
    BY <1>1, <1>3, <2>1 DEF BootInv, ChildOK, LeakOK, Alive, Native, Settled
  <2>3. ~Compared(at.stage, at'.pc)
    BY <2>1 DEF Compared
  <2> QED
    BY <1>1, <1>3, <2>1, <2>2, <2>3, Moves DEF TypeOK, Frame, Counted
<1> QED
  BY <1>2, <1>3 DEF Publish

-----------------------------------------------------------------------------
(* The templates of HostedParent.                                             *)

LEMMA ParentStepKeeps ==
  ASSUME NEW p, NEW q, NEW rd, NEW wr, NEW tk \in SUBSET Resources,
         BootInv, ParentStep(p, q, rd, wr, tk), Within(p, q), p \notin Native, Compares(at.stage, p, q, rd)
  PROVE  BootInv'
<1>1. TypeOK /\ at.pc = p /\ UNCHANGED <<child, quarantine>> /\ Frame /\ Counted
  BY DEF ParentStep, BootInv, Counted
<1>2. CASE /\ Originals(rd) /\ at' = [at EXCEPT !.pc = q]
           /\ own' = [own EXCEPT !.held = @ \cup tk]
           /\ disk' = [disk EXCEPT !.written = @ \cup wr]
  <2>1. Typed /\ own'.unknown = own.unknown /\ own'.failed = own.failed /\ at'.pc = q
    BY <1>1, <1>2 DEF TypeOK, Typed, IsControl, OwnerRecord, IsDisk
  <2>2. ~own'.failed /\ Compared(at.stage, at'.pc) => Fresh(at.stage)
    BY <1>1, <1>2, <2>1, OriginalsFresh DEF Compares, BootInv, ChainOK
  <2> QED
    BY <1>1, <2>1, <2>2, Leaks, Moves DEF TypeOK
<1>3. CASE /\ at' = [at EXCEPT !.pc = "failed"] /\ UNCHANGED disk
           /\ \/ own' = Broken
              \/ own' = [Broken EXCEPT !.unknown = TRUE]
              \/ own' = [Broken EXCEPT !.held = @ \cup tk]
  <2>1. own' \in OwnerRecord /\ (own.unknown => own'.unknown) /\ own'.failed
    <3>1. CASE own' = Broken
      BY <1>1, <3>1, BrokenType
    <3>2. CASE own' = [Broken EXCEPT !.unknown = TRUE]
      BY <1>1, <3>2, BrokenType DEF OwnerRecord
    <3>3. CASE own' = [Broken EXCEPT !.held = @ \cup tk]
      BY <1>1, <3>3, BrokenType DEF OwnerRecord
    <3> QED
      BY <1>3, <3>1, <3>2, <3>3
  <2>2. Typed /\ at'.pc = "failed"
    BY <1>1, <1>3, <2>1 DEF TypeOK, Typed, IsControl
  <2>3. Within(at.pc, at'.pc)
    BY <1>1, <2>2 DEF Within, Settled
  <2> QED
    BY <1>1, <2>1, <2>2, <2>3, Leaks, Moves DEF TypeOK
<1> QED
  BY <1>2, <1>3 DEF ParentStep

LEMMA ParentStepOn ==
  ASSUME NEW p, NEW q, NEW rd, NEW wr, NEW tk \in SUBSET Resources,
         BootInv, ParentStep(p, q, rd, wr, tk), Within(p, q), p \notin Native, p \notin Beginnings
  PROVE  BootInv'
<1>1. Compared(at.stage, p)
  BY DEF Compared, Beginnings
<1> QED
  BY <1>1, ParentStepKeeps DEF Compares

LEMMA FinishKeeps ==
  ASSUME NEW q, BootInv, FinishKnown(q) \/ FinishUnknown, q \notin Settled, Compared(at.stage, "finish")
  PROVE  BootInv'
<1>1. TypeOK /\ at.pc = "finish" /\ UNCHANGED <<disk, quarantine>> /\ Frame /\ Counted
  BY DEF FinishKnown, FinishUnknown, BootInv, Counted
<1>2. ~own.failed => Fresh(at.stage)
  BY <1>1 DEF BootInv, ChainOK
<1>3. CASE FinishKnown(q)
  <2> DEFINE bad == own.failed \/ now >= own.final
  <2>1. child' = Retired
    BY <1>3 DEF FinishKnown, Launched, Retired
  <2>2. /\ own' = [Final EXCEPT !.held = @ \ {"scope", "stdout", "stderr"}, !.failed = bad,
                                !.unknown = bad /\ Launched]
        /\ at' = [at EXCEPT !.pc = IF bad THEN "failed" ELSE q]
    BY <1>3 DEF FinishKnown
  <2>3. bad \in BOOLEAN /\ (bad /\ Launched) \in BOOLEAN
    BY DEF Launched
  <2> HIDE DEF bad
  <2>4. own' \in OwnerRecord /\ own'.failed = bad
    BY <1>1, <2>2, <2>3, FinalType DEF OwnerRecord
  <2>5. own.failed => own'.failed
    BY <2>4 DEF bad
  <2>6. IsControl(at') /\ at'.stage = at.stage /\ at'.pc \in {"failed", q}
    BY <1>1, <2>2 DEF TypeOK, IsControl
  <2>7. child' \in ChildRecord /\ ChildOK' /\ LeakOK'
    BY <1>1, <2>1, <2>6, RetireLeaks DEF Settled
  <2>8. Typed
    BY <1>1, <2>4, <2>6, <2>7 DEF TypeOK, Typed
  <2> QED
    BY <1>1, <1>2, <2>5, <2>7, <2>8, Moves DEF TypeOK
<1>4. CASE FinishUnknown
  <2>1. own' \in OwnerRecord /\ own'.failed /\ own'.unknown
    BY <1>1, <1>4, FinalType DEF FinishUnknown, OwnerRecord
  <2>2. child' \in {child, Retired}
    BY <1>4 DEF FinishUnknown, Launched, Retired
  <2>3. IsControl(at') /\ at'.stage = at.stage /\ at'.pc = "failed"
    BY <1>1, <1>4 DEF FinishUnknown, TypeOK, IsControl
  <2>4. child' \in ChildRecord /\ ChildOK' /\ LeakOK'
    BY <1>1, <2>1, <2>2, <2>3, RetireLeaks DEF Settled
  <2>5. Typed
    BY <1>1, <2>1, <2>3, <2>4 DEF TypeOK, Typed
  <2> QED
    BY <1>1, <2>1, <2>4, <2>5, Moves DEF TypeOK
<1> QED
  BY <1>3, <1>4

LEMMA BeginReadKeeps ==
  ASSUME NEW p, NEW q, BootInv, BeginRead(p, q), Within(p, q), p \notin Native, Compared(at.stage, p)
  PROVE  BootInv'
<1>1. TypeOK /\ at.pc = p /\ UNCHANGED <<disk, child, quarantine>> /\ Frame /\ Counted
  BY DEF BeginRead, BootInv, Counted
<1>2. own' \in OwnerRecord /\ (own.failed => own'.failed) /\ (own.unknown => own'.unknown)
  <2>1. CASE own' = [own EXCEPT !.phase = "READ", !.read = Least(@, now + Clean)]
    <3>1. own.read \in Nat /\ now + Clean \in Nat
      BY <1>1, BoundsAssumption DEF TypeOK, OwnerRecord
    <3>2. Least(own.read, now + Clean) \in Nat
      BY <3>1, LeastNat
    <3> QED
      BY <1>1, <2>1, <3>2 DEF TypeOK, OwnerRecord
  <2>2. CASE own' = Broken
    BY <1>1, <2>2, BrokenType
  <2> QED
    BY <2>1, <2>2 DEF BeginRead
<1>3. Typed /\ at'.pc \in {q, "failed"}
  <2>1. at' = [at EXCEPT !.pc = q] \/ at' = [at EXCEPT !.pc = "failed"]
    BY DEF BeginRead
  <2> QED
    BY <1>1, <1>2, <2>1 DEF TypeOK, Typed, IsControl
<1>4. Within(at.pc, at'.pc)
  BY <1>1, <1>3 DEF Within, Settled
<1>5. ~own'.failed => Fresh(at.stage)
  BY <1>1, <1>2 DEF BootInv, ChainOK
<1> QED
  BY <1>1, <1>2, <1>3, <1>4, <1>5, Leaks, Moves DEF TypeOK

LEMMA ParentRetainKeeps ==
  ASSUME NEW f, BootInv, ParentRetain(f), Compared(at.stage, "failed")
  PROVE  BootInv'
<1>1. TypeOK /\ at.pc = "failed" /\ UNCHANGED <<child, quarantine>> /\ Frame /\ Counted
  BY DEF ParentRetain, BootInv, Counted
<1>2. own' \in OwnerRecord /\ own'.failed = own.failed /\ own'.unknown = own.unknown
  BY <1>1, FinalType DEF ParentRetain, TypeOK
<1>3. disk' = disk \/ disk' = [disk EXCEPT !.written = @ \cup {f}]
  BY DEF ParentRetain
<1>4. IsDisk(disk') /\ disk'.swapped = disk.swapped
  BY <1>1, <1>3, Writes
<1>5. Typed /\ at'.pc = "closing"
  BY <1>1, <1>2, <1>4 DEF ParentRetain, TypeOK, Typed, IsControl
<1>6. Within(at.pc, at'.pc)
  BY <1>1, <1>5 DEF Within, Settled, Native
<1>7. ~own'.failed => Fresh(at.stage)
  BY <1>1, <1>2 DEF BootInv, ChainOK
<1> QED
  BY <1>1, <1>2, <1>5, <1>6, <1>7, Leaks, Moves DEF TypeOK

-----------------------------------------------------------------------------
(* The phase of a service child.                                              *)

LEMMA PhaseEnterKeeps ==
  ASSUME BootInv, PhaseEnter
  PROVE  BootInv'
<1>1. TypeOK /\ at.pc = "phase" /\ UNCHANGED <<child, quarantine>> /\ Frame /\ Counted
  BY DEF PhaseEnter, BootInv, Counted
<1>2. IsDisk(disk') /\ disk'.swapped \subseteq disk.swapped
  BY DEF PhaseEnter, NewService, IsDisk
<1>3. own' \in OwnerRecord /\ (own.failed => own'.failed) /\ own'.unknown = own.unknown
  <2>1. CASE own' = [own EXCEPT !.failed = TRUE]
    BY <1>1, <2>1 DEF TypeOK, OwnerRecord
  <2>2. CASE own' = [own EXCEPT !.work = Least(@, now + Clean), !.old = <<own.work, own.final>>,
                                !.final = Least(@, Least(own.work, now + Clean) + Clean)]
    <3>1. own.work \in Nat /\ own.final \in Nat /\ now + Clean \in Nat /\ Clean \in Nat
      BY <1>1, BoundsAssumption DEF TypeOK, OwnerRecord
    <3>2. Least(own.work, now + Clean) \in Nat
      BY <3>1, LeastNat
    <3>3. Least(own.work, now + Clean) + Clean \in Nat
      BY <3>1, <3>2
    <3>4. Least(own.final, Least(own.work, now + Clean) + Clean) \in Nat
      BY <3>1, <3>3, LeastNat
    <3>5. <<own.work, own.final>> \in Nat \X Nat
      BY <3>1
    <3> HIDE DEF Least
    <3> QED
      BY <1>1, <2>2, <3>2, <3>4, <3>5 DEF TypeOK, OwnerRecord
  <2> QED
    BY <2>1, <2>2 DEF PhaseEnter
<1>4. Typed /\ at'.pc \in {"phase-setup", "failed"}
  <2>1. at' = [at EXCEPT !.pc = "phase-setup"] \/ at' = [at EXCEPT !.pc = "failed"]
    BY DEF PhaseEnter
  <2> QED
    BY <1>1, <1>2, <1>3, <2>1 DEF TypeOK, Typed, IsControl
<1>5. Within(at.pc, at'.pc)
  BY <1>1, <1>4 DEF Within, Settled, Native
<1>6. ~own'.failed => Fresh(at.stage)
  BY <1>1, <1>3 DEF BootInv, ChainOK, Compared
<1> QED
  BY <1>1, <1>3, <1>4, <1>5, <1>6, Leaks, Moves DEF TypeOK

LEMMA PhaseCapturesKeeps ==
  ASSUME BootInv, PhaseCaptures
  PROVE  BootInv'
<1>1. /\ TypeOK /\ at.pc = "phase-captures" /\ at' = [at EXCEPT !.pc = "phase-receipt"]
      /\ UNCHANGED <<child, quarantine>> /\ Frame /\ Counted
  BY DEF PhaseCaptures, BootInv, Counted
<1>2. disk' = disk \/ disk' = [disk EXCEPT !.written = @ \cup {"captures"}]
  BY DEF PhaseCaptures
<1>3. IsDisk(disk') /\ disk'.swapped = disk.swapped
  BY <1>1, <1>2, Writes
<1>4. own' \in OwnerRecord /\ (own.failed => own'.failed) /\ (own.unknown => own'.unknown)
  <2>1. CASE own' = [own EXCEPT !.held = @ \ {"stdout", "stderr"}, !.failed = @ \/ ~Live(TRUE)]
    BY <1>1, <2>1 DEF TypeOK, OwnerRecord
  <2>2. CASE \E kept \in SUBSET {"stdout", "stderr"} :
               own' = [own EXCEPT !.held = (@ \ {"stdout", "stderr"}) \cup kept, !.failed = TRUE,
                                  !.unknown = TRUE]
    <3>1. PICK kept \in SUBSET {"stdout", "stderr"} :
               own' = [own EXCEPT !.held = (@ \ {"stdout", "stderr"}) \cup kept, !.failed = TRUE,
                                  !.unknown = TRUE]
      BY <2>2
    <3>2. (own.held \ {"stdout", "stderr"}) \cup kept \in SUBSET Resources
      BY <1>1 DEF TypeOK, OwnerRecord, Resources
    <3> QED
      BY <1>1, <3>1, <3>2 DEF TypeOK, OwnerRecord
  <2>3. CASE UNCHANGED own
    BY <1>1, <2>3 DEF TypeOK
  <2> QED
    BY <2>1, <2>2, <2>3 DEF PhaseCaptures
<1>5. Typed /\ at'.pc = "phase-receipt"
  BY <1>1, <1>3, <1>4 DEF TypeOK, Typed, IsControl
<1>6. Within(at.pc, at'.pc)
  BY <1>1, <1>5 DEF Within, Settled, Native
<1>7. ~own'.failed => Fresh(at.stage)
  BY <1>1, <1>4 DEF BootInv, ChainOK, Compared
<1> QED
  BY <1>1, <1>4, <1>5, <1>6, <1>7, Leaks, Moves DEF TypeOK

LEMMA PhaseReceiptKeeps ==
  ASSUME BootInv, PhaseReceipt
  PROVE  BootInv'
<1>1. /\ TypeOK /\ at.pc = "phase-receipt" /\ at' = [at EXCEPT !.pc = "phase-leave"]
      /\ UNCHANGED <<child, quarantine>> /\ Frame /\ Counted
  BY DEF PhaseReceipt, BootInv, Counted
<1>2. disk' = disk \/ disk' = [disk EXCEPT !.written = @ \cup {"result"}]
  BY DEF PhaseReceipt
<1>3. IsDisk(disk') /\ disk'.swapped = disk.swapped
  BY <1>1, <1>2, Writes
<1>4. own' \in OwnerRecord /\ (own.failed => own'.failed) /\ own'.unknown = own.unknown
  <2>1. own' = [own EXCEPT !.failed = @ \/ ~Live(TRUE)] \/ own' = [own EXCEPT !.failed = TRUE]
    BY DEF PhaseReceipt
  <2> QED
    BY <1>1, <2>1 DEF TypeOK, OwnerRecord
<1>5. Typed /\ at'.pc = "phase-leave"
  BY <1>1, <1>3, <1>4 DEF TypeOK, Typed, IsControl
<1>6. Within(at.pc, at'.pc)
  BY <1>1, <1>5 DEF Within, Settled, Native
<1>7. ~own'.failed => Fresh(at.stage)
  BY <1>1, <1>4 DEF BootInv, ChainOK, Compared
<1> QED
  BY <1>1, <1>4, <1>5, <1>6, <1>7, Leaks, Moves DEF TypeOK

LEMMA PhaseLeaveKeeps ==
  ASSUME NEW q, BootInv, PhaseLeave(q), q \notin Settled
  PROVE  BootInv'
<1>1. TypeOK /\ at.pc = "phase-leave" /\ UNCHANGED <<disk, child, quarantine>> /\ Frame /\ Counted
  BY DEF PhaseLeave, BootInv, Counted
<1>2. own' \in OwnerRecord /\ own'.failed = own.failed /\ own'.unknown = own.unknown
  <2>1. own.old[1] \in Nat /\ own.old[2] \in Nat /\ <<0, 0>> \in Nat \X Nat
    BY <1>1 DEF TypeOK, OwnerRecord
  <2> QED
    BY <1>1, <2>1 DEF PhaseLeave, TypeOK, OwnerRecord
<1>3. Typed /\ at'.pc \in {q, "failed"}
  <2>1. at' = [at EXCEPT !.pc = q] \/ at' = [at EXCEPT !.pc = "failed"]
    BY DEF PhaseLeave
  <2> QED
    BY <1>1, <1>2, <2>1 DEF TypeOK, Typed, IsControl
<1>4. Within(at.pc, at'.pc)
  BY <1>1, <1>3 DEF Within, Settled, Native
<1>5. ~own'.failed => Fresh(at.stage)
  BY <1>1, <1>2 DEF BootInv, ChainOK, Compared
<1> QED
  BY <1>1, <1>2, <1>3, <1>4, <1>5, Leaks, Moves DEF TypeOK

-----------------------------------------------------------------------------
(* The child.  It does nothing to the owner that waits for it, and only a     *)
(* child that runs leaves something behind.                                   *)

LEMMA ChildMoves ==
  ASSUME BootInv, UNCHANGED <<at, own, quarantine>>, Frame, Counted, child.st \in {"running", "wrote"},
         child' \in ChildRecord, child'.st # "none", IsDisk(disk'), disk'.swapped = disk.swapped
  PROVE  BootInv'
<1>1. Typed
  BY DEF BootInv, TypeOK, Typed
<1>2. ChildOK' /\ LeakOK'
  BY DEF BootInv, ChildOK, LeakOK, Alive
<1>3. ~own'.failed /\ Compared(at.stage, at'.pc) => Fresh(at.stage)
  BY DEF BootInv, ChainOK
<1> QED
  BY <1>1, <1>2, <1>3, Moves DEF BootInv, TypeOK

LEMMA ChildWritesKeeps ==
  ASSUME NEW rd, NEW wr, BootInv, ChildWrites(rd, wr)
  PROVE  BootInv'
<1>1. child' \in ChildRecord /\ child'.st # "none" /\ IsDisk(disk') /\ disk'.swapped = disk.swapped
  BY DEF ChildWrites, BootInv, TypeOK, ChildRecord, IsDisk
<1> QED
  BY <1>1, ChildMoves DEF ChildWrites, Counted

LEMMA ChildReturnsKeeps ==
  ASSUME BootInv, ChildReturns
  PROVE  BootInv'
<1>1. child' \in ChildRecord /\ child'.st # "none" /\ IsDisk(disk') /\ disk'.swapped = disk.swapped
  BY DEF ChildReturns, BootInv, TypeOK, ChildRecord
<1> QED
  BY <1>1, ChildMoves DEF ChildReturns, Counted

LEMMA ChildFailsKeeps ==
  ASSUME NEW rd, BootInv, ChildFails(rd)
  PROVE  BootInv'
<1>1. child' \in ChildRecord /\ child'.st # "none" /\ IsDisk(disk') /\ disk'.swapped = disk.swapped
  BY DEF ChildFails, BootInv, TypeOK, ChildRecord
<1> QED
  BY <1>1, ChildMoves DEF ChildFails, Counted

LEMMA ChildNextKeeps ==
  ASSUME BootInv, ChildNext
  PROVE  BootInv'
<1>1. CASE In(1) /\ ServiceChild({"context", "admission"})
  BY <1>1, ChildWritesKeeps, ChildReturnsKeeps, ChildFailsKeeps DEF ServiceChild
<1>2. CASE RecipientChild
  BY <1>2, ChildWritesKeeps, ChildReturnsKeeps, ChildFailsKeeps DEF RecipientChild
<1>3. CASE InitializerChild
  BY <1>3, ChildWritesKeeps, ChildReturnsKeeps, ChildFailsKeeps DEF InitializerChild
<1>4. CASE ProducerChild
  <2>1. CASE /\ child.st \in {"running", "wrote"} /\ Smooth
             /\ child' = [child EXCEPT !.st = "exited", !.ok = FALSE]
             /\ UNCHANGED <<at, own, disk, quarantine>> /\ Frame
    <3>1. child' \in ChildRecord /\ child'.st # "none" /\ IsDisk(disk') /\ disk'.swapped = disk.swapped
      BY <2>1 DEF BootInv, TypeOK, ChildRecord
    <3> QED
      BY <2>1, <3>1, ChildMoves DEF Counted
  <2> QED
    BY <1>4, <2>1, ChildWritesKeeps, ChildReturnsKeeps, ChildFailsKeeps DEF ProducerChild
<1> QED
  BY <1>1, <1>2, <1>3, <1>4 DEF ChildNext

-----------------------------------------------------------------------------
(* The environment.                                                           *)

LEMMA StutterKeeps ==
  ASSUME BootInv, UNCHANGED <<at, own, disk, child, quarantine, published>>,
         now' \in Nat, trouble' \in Nat, cancelled' \in BOOLEAN
  PROVE  BootInv'
<1>1. TypeOK' /\ ChildOK' /\ LeakOK'
  BY DEF BootInv, TypeOK, ChildOK, LeakOK, Alive
<1>2. ChainOK'
  BY DEF BootInv, ChainOK, Fresh, StaleSince, Compared
<1> QED
  BY <1>1, <1>2 DEF BootInv

\* A record that is replaced in a stage is not stale for it, nor for the stages
\* that have returned.
LEMMA SwapKeeps ==
  ASSUME NEW f, BootInv, Swap(f)
  PROVE  BootInv'
<1>1. /\ UNCHANGED <<now, cancelled, at, own, child, quarantine, published>> /\ trouble' \in Nat
      /\ disk' = [disk EXCEPT !.swapped = @ \cup {<<f, at.stage>>}]
  BY DEF Swap, Raised, BootInv, TypeOK
<1>2. IsDisk(disk') /\ disk'.swapped = disk.swapped \cup {<<f, at.stage>>}
  BY <1>1 DEF BootInv, TypeOK, IsDisk
<1>3. TypeOK' /\ ChildOK' /\ LeakOK'
  BY <1>1, <1>2 DEF BootInv, TypeOK, ChildOK, LeakOK, Alive
<1>4. \A s \in 1 .. at.stage : Fresh(s) => Fresh(s)'
  <2> SUFFICES ASSUME NEW s \in 1 .. at.stage, Fresh(s) PROVE Fresh(s)'
    OBVIOUS
  <2>1. ~(at.stage < s)
    BY DEF BootInv, TypeOK, IsControl
  <2>2. {t \in disk'.swapped : t[2] < s} = {t \in disk.swapped : t[2] < s}
    BY <1>2, <2>1
  <2> QED
    BY <2>2 DEF Fresh, StaleSince
<1>5. ChainOK'
  <2>1. \A s \in published : s \in 1 .. at.stage /\ s < at.stage
    BY DEF BootInv, ChainOK, TypeOK, IsControl
  <2>2. (\A s \in published : s < at.stage /\ Fresh(s))'
    BY <1>1, <1>4, <2>1 DEF BootInv, ChainOK
  <2>3. at.stage \in 1 .. at.stage
    BY DEF BootInv, TypeOK, IsControl
  <2>4. (~own.failed /\ Compared(at.stage, at.pc) => Fresh(at.stage))'
    <3>1. ~own.failed /\ Compared(at.stage, at.pc) => Fresh(at.stage)
      BY DEF BootInv, ChainOK
    <3>2. PICK s : s = at.stage
      OBVIOUS
    <3>3. ~own.failed /\ Compared(s, at.pc) => Fresh(s)'
      BY <1>4, <2>3, <3>1, <3>2
    <3> QED
      BY <1>1, <3>2, <3>3 DEF Fresh, StaleSince, Compared
  <2> QED
    BY <2>2, <2>4 DEF ChainOK
<1> QED
  BY <1>3, <1>5 DEF BootInv

LEMMA EnvironmentKeeps ==
  ASSUME BootInv, Tick \/ Cancel \/ (\E f \in disk.written : Swap(f)) \/ Exited
  PROVE  BootInv'
<1>1. CASE Tick
  BY <1>1, StutterKeeps DEF Tick, BootInv, TypeOK
<1>2. CASE Cancel
  BY <1>2, StutterKeeps DEF Cancel, Raised, BootInv, TypeOK
<1>3. CASE Exited
  BY <1>3, StutterKeeps DEF Exited, ownerVars, BootInv, TypeOK
<1> QED
  BY <1>1, <1>2, <1>3, SwapKeeps

-----------------------------------------------------------------------------
(* What a stage inherits, stage by stage.                                     *)

LEMMA StageInherits ==
  /\ Inherited(1) = {} /\ Inherited(11) = {} /\ Inherited(14) = {}
  /\ Inherited(2) = Prepared /\ Inherited(3) = EntryOriginals /\ Inherited(4) = Readmitted
  /\ Inherited(5) = Readmitted \cup RecipientChain
  /\ \A s \in 6 .. 8 : Inherited(s) = StagingOriginals
  /\ Inherited(9) = ProducerOriginals /\ Inherited(10) = CollectionOriginals
  /\ Inherited(12) = {"canonical", "init-context", "staging"} /\ Inherited(13) = {"staging", "exported"}
  /\ \A s \in 15 .. 18 : Inherited(s) = Inherits(s)
<1>1. \A s \in 6 .. 8 : Inherited(s) = StagingOriginals
  BY DEF Inherited, StagingOriginals
<1>2. \A s \in 15 .. 18 : Inherited(s) = Inherits(s)
  BY DEF Inherited
<1> QED
  BY <1>1, <1>2 DEF Inherited

-----------------------------------------------------------------------------
(* The owners the stages open.                                                *)

\* A new owner of the right type that holds nothing.
IsNew(o) == o \in OwnerRecord /\ o.held = {} /\ ~o.unknown

LEMMA Openings ==
  ASSUME BootInv
  PROVE  /\ IsNew(Opened(Work, Clean)) /\ IsNew(Opened(Work, 0)) /\ IsNew(Opened(Clean, 0))
         /\ IsNew(Opened(Work + Clean, 0))
<1>1. Work \in Nat /\ Clean \in Nat /\ Work + Clean \in Nat /\ 0 \in Nat
  BY BoundsAssumption
<1>2. TypeOK
  BY DEF BootInv
<1> QED
  BY <1>1, <1>2, OpenedType DEF IsNew

LEMMA Reopened ==
  ASSUME BootInv
  PROVE  LET o == [own EXCEPT !.closed = FALSE]
         IN o \in OwnerRecord /\ o.held = own.held /\ o.unknown = own.unknown
BY DEF BootInv, TypeOK, OwnerRecord

LEMMA AdopterType ==
  ASSUME BootInv
  PROVE  Adopter \in OwnerRecord /\ Adopter.held = own.held /\ Adopter.unknown = own.unknown
<1>1. own.work \in Nat /\ own.final \in Nat /\ now + Clean \in Nat
  BY BoundsAssumption DEF BootInv, TypeOK, OwnerRecord
<1>2. Least(own.work, now + Clean) \in Nat /\ Least(own.final, now + Clean) \in Nat
  BY <1>1, LeastNat
<1> QED
  BY <1>2 DEF Adopter, BootInv, TypeOK, OwnerRecord

LEMMA NewEntryWindowType ==
  ASSUME BootInv
  PROVE  IsNew(NewEntryWindow)
<1> DEFINE final == Least(now + Work + Clean, JobEnd)
           earlier == IF final > Clean THEN final - Clean ELSE 0
           work == Least(now + Work, earlier)
<1>1. now + Work + Clean \in Nat /\ now + Work \in Nat /\ JobEnd \in Nat /\ Clean \in Nat
  BY BoundsAssumption DEF BootInv, TypeOK
<1>2. final \in Nat
  BY <1>1, LeastNat
<1>3. earlier \in Nat
  <2> HIDE DEF final
  <2> QED
    BY <1>1, <1>2
<1>4. work \in Nat
  <2> HIDE DEF earlier
  <2> QED
    BY <1>1, <1>3, LeastNat
<1>5. NewEntryWindow = [Opened(Work, Clean) EXCEPT !.work = work, !.final = final]
  BY DEF NewEntryWindow
<1> HIDE DEF final, work
<1> QED
  BY <1>2, <1>4, <1>5, Openings DEF IsNew, OwnerRecord

LEMMA StagingWindowType ==
  ASSUME BootInv, NEW s
  PROVE  IsNew(StagingWindow(s))
<1>1. CASE s = 7
  BY <1>1, Openings DEF StagingWindow
<1>2. CASE s # 7
  <2>1. StagingWindow(s) = [Opened(Work + Clean, 0) EXCEPT !.read = Opened(Work + Clean, 0).final]
    BY <1>2 DEF StagingWindow
  <2> QED
    BY <2>1, Openings DEF IsNew, OwnerRecord
<1> QED
  BY <1>1, <1>2

\* An owner that is closed and not in quarantine holds nothing.
LEMMA SettledOwner ==
  ASSUME BootInv, at.pc \in Settled
  PROVE  quarantine \/ (own.held = {} /\ ~own.unknown)
BY DEF BootInv, LeakOK

-----------------------------------------------------------------------------
(* The stages, step by step.                                                  *)

LEMMA HandoffReturnKeeps ==
  ASSUME BootInv, HandoffReturn
  PROVE  BootInv'
<1>1. at.pc \in Settled
  BY DEF HandoffReturn, Publish, Settled
<1>2. Compared(1, "handoff-closed") /\ "handoff-closed" \in Settled
  BY DEF Compared, Settled
<1> QED
  BY <1>1, <1>2, AdopterType, SettledOwner, PublishKeeps DEF HandoffReturn

\* Stages 1 to 3.
LEMMA EntryKeeps ==
  ASSUME BootInv, EntryNext
  PROVE  BootInv'
<1>1. CASE PrepareOpen
  <2>1. Compares(at.stage, "start", "admit", {})
    BY <1>1, StageInherits DEF PrepareOpen, In, Compares, Compared
  <2>2. Within("start", "admit") /\ Within("start", "failed") /\ {"directories"} \in SUBSET Resources
    BY DEF Within, Native, Settled, Resources
  <2> QED
    BY <1>1, <2>1, <2>2, StepKeeps DEF PrepareOpen
<1>2. CASE PrepareAdmit
  BY <1>2, StepOn DEF PrepareAdmit, Beginnings, Within, Native, Settled, Resources
<1>3. CASE PrepareContext
  BY <1>3, StepOn DEF PrepareContext, Beginnings, Within, Native, Settled, Resources
<1>4. CASE PhaseEnter
  BY <1>4, PhaseEnterKeeps
<1>5. CASE PhaseSetup
  BY <1>5, StepOn DEF PhaseSetup, Beginnings, Within, Native, Settled, Resources
<1>6. CASE PhaseStreams
  BY <1>6, StepOn DEF PhaseStreams, Beginnings, Within, Native, Settled, Resources
<1>7. CASE PhaseSpawn
  BY <1>7, SpawnKeeps DEF PhaseSpawn, In, Compared, Native
<1>8. CASE PhaseBirth
  BY <1>8, StepOn DEF PhaseBirth, Beginnings, Within, Native, Settled, Resources
<1>9. CASE PhasePoll
  BY <1>9, PollKeeps DEF PhasePoll, In, Within, Compared, Native, Settled
<1>10. CASE PhaseDrain
  BY <1>10, DrainKeeps DEF PhaseDrain, Compared, Settled
<1>11. CASE PhaseCaptures
  BY <1>11, PhaseCapturesKeeps
<1>12. CASE PhaseReceipt
  BY <1>12, PhaseReceiptKeeps
<1>13. CASE PhaseLeave("revalidate")
  BY <1>13, PhaseLeaveKeeps DEF Settled
<1>14. CASE Revalidate
  <2>1. /\ "revalidate" \notin Beginnings /\ {} \in SUBSET Resources
        /\ Within("revalidate", "final-admit") /\ Within("revalidate", "failed")
    BY DEF Beginnings, Within, Native, Settled, Resources
  <2> QED
    BY <1>14, <2>1, StepOn DEF Revalidate
<1>15. CASE FinalAdmit
  BY <1>15, StepOn DEF FinalAdmit, Beginnings, Within, Native, Settled, Resources
<1>16. CASE OriginResult
  <2>1. /\ "origin" \notin Beginnings /\ {} \in SUBSET Resources
        /\ Within("origin", "closing") /\ Within("origin", "failed")
    BY DEF Beginnings, Within, Native, Settled, Resources
  <2> QED
    BY <1>16, <2>1, StepOn DEF OriginResult
<1>17. CASE PrepareFailed
  BY <1>17, RetainKeeps DEF PrepareFailed, In, Within, Compares, Compared, Native, Settled
<1>18. CASE PrepareClose
  BY <1>18, CloseKeeps DEF PrepareClose, In, Compared, Native
<1>19. CASE HandoffOpen
  BY <1>19, ReopenKeeps, Reopened DEF HandoffOpen, In, Compared, Settled
<1>20. CASE HandoffWrite
  BY <1>20, StepOn DEF HandoffWrite, Beginnings, Within, Native, Settled, Resources
<1>21. CASE HandoffClose
  BY <1>21, CloseKeeps DEF HandoffClose, In, Compared, Native
<1>22. CASE HandoffReturn
  BY <1>22, HandoffReturnKeeps
<1>23. CASE AdoptOpen
  <2>1. Compares(at.stage, "start", "prepared", {"handoff", "context", "prelude"})
    BY <1>23, StageInherits DEF AdoptOpen, In, Compares, Compared
  <2>2. Within("start", "prepared") /\ Within("start", "failed") /\ {"directories"} \in SUBSET Resources
    BY DEF Within, Native, Settled, Resources
  <2> QED
    BY <1>23, <2>1, <2>2, StepKeeps DEF AdoptOpen
<1>24. CASE AdoptPrepared
  <2>1. Compares(at.stage, "prepared", "admit", Prepared)
    BY <1>24, StageInherits DEF AdoptPrepared, In, Compares, Compared
  <2>2. Within("prepared", "admit") /\ Within("prepared", "failed") /\ {"directories"} \in SUBSET Resources
    BY DEF Within, Native, Settled, Resources
  <2> QED
    BY <1>24, <2>1, <2>2, StepKeeps DEF AdoptPrepared
<1>25. CASE AdoptAdmit
  BY <1>25, StepOn DEF AdoptAdmit, Beginnings, Within, Native, Settled, Resources
<1>26. CASE ExecutionEntry
  <2>1. /\ "entry" \notin Beginnings /\ {} \in SUBSET Resources
        /\ Within("entry", "adoption") /\ Within("entry", "failed")
    BY DEF Beginnings, Within, Native, Settled, Resources
  <2> QED
    BY <1>26, <2>1, StepOn DEF ExecutionEntry
<1>27. CASE AdoptionResult
  BY <1>27, StepOn DEF AdoptionResult, Beginnings, Within, Native, Settled, Resources
<1>28. CASE AdoptFailed
  BY <1>28, RetainKeeps DEF AdoptFailed, In, Within, Compares, Compared, Native, Settled
<1>29. CASE BridgePending
  BY <1>29, StepOn DEF BridgePending, Beginnings, Within, Native, Settled, Resources
<1>30. CASE BridgeRecheck
  <2>1. /\ "bridge-recheck" \notin Beginnings /\ {} \in SUBSET Resources
        /\ Within("bridge-recheck", "closing") /\ Within("bridge-recheck", "bridge-failed")
    BY DEF Beginnings, Within, Native, Settled, Resources
  <2> QED
    BY <1>30, <2>1, StepOn DEF BridgeRecheck
<1>31. CASE BridgeFailed
  BY <1>31, RetainKeeps DEF BridgeFailed, In, Within, Compares, Compared, Native, Settled
<1>32. CASE EntryClose
  BY <1>32, CloseKeeps DEF EntryClose, In, Compared, Native
<1>33. CASE EntryReturn
  BY <1>33, PublishKeeps, NewEntryWindowType DEF EntryReturn, IsNew, Compared, Settled
<1>34. CASE ReadmitOpen
  <2>1. Compares(at.stage, "start", "read-1", {})
    BY <1>34, StageInherits DEF ReadmitOpen, In, Compares, Compared
  <2>2. Within("start", "read-1") /\ Within("start", "failed") /\ {"directories"} \in SUBSET Resources
    BY DEF Within, Native, Settled, Resources
  <2> QED
    BY <1>34, <2>1, <2>2, StepKeeps DEF ReadmitOpen
<1>35. CASE ReadFirst
  <2>1. Compares(at.stage, "read-1", "admit", EntryOriginals)
    BY <1>35, StageInherits DEF ReadFirst, In, Compares, Compared
  <2>2. Within("read-1", "admit") /\ Within("read-1", "failed") /\ {} \in SUBSET Resources
    BY DEF Within, Native, Settled, Resources
  <2> QED
    BY <1>35, <2>1, <2>2, StepKeeps DEF ReadFirst
<1>36. CASE ReadmitAdmit
  BY <1>36, StepOn DEF ReadmitAdmit, Beginnings, Within, Native, Settled, Resources
<1>37. CASE ReadSecond
  <2>1. /\ "read-2" \notin Beginnings /\ {} \in SUBSET Resources
        /\ Within("read-2", "read-3") /\ Within("read-2", "failed")
    BY DEF Beginnings, Within, Native, Settled, Resources
  <2> QED
    BY <1>37, <2>1, StepOn DEF ReadSecond
<1>38. CASE ReadThird
  <2>1. /\ "read-3" \notin Beginnings /\ {} \in SUBSET Resources
        /\ Within("read-3", "closing") /\ Within("read-3", "failed")
    BY DEF Beginnings, Within, Native, Settled, Resources
  <2> QED
    BY <1>38, <2>1, StepOn DEF ReadThird
<1>39. CASE ReadmitFailed
  BY <1>39, RetainKeeps DEF ReadmitFailed, In, Within, Compares, Compared, Native, Settled
<1>40. CASE ReadmitClose
  BY <1>40, CloseKeeps DEF ReadmitClose, In, Compared, Native
<1>41. CASE ReadmitReturn
  BY <1>41, PublishKeeps, Openings DEF ReadmitReturn, IsNew, Compared, Settled
<1> QED
  BY <1>1, <1>2, <1>3, <1>4, <1>5, <1>6, <1>7, <1>8, <1>9, <1>10, <1>11, <1>12, <1>13, <1>14,
     <1>15, <1>16, <1>17, <1>18, <1>19, <1>20, <1>21, <1>22, <1>23, <1>24, <1>25, <1>26, <1>27,
     <1>28, <1>29, <1>30, <1>31, <1>32, <1>33, <1>34, <1>35, <1>36, <1>37, <1>38, <1>39, <1>40,
     <1>41 DEF EntryNext

\* Stages 4 and 5.
LEMMA RecipientKeeps ==
  ASSUME BootInv, RecipientNext
  PROVE  BootInv'
<1>1. CASE RecipientOpen
  BY <1>1, ParentStepKeeps, StageInherits
    DEF RecipientOpen, In, Within, Compares, Compared, Native, Settled, Resources
<1>2. CASE RecipientOriginals
  BY <1>2, ParentStepKeeps, StageInherits
    DEF RecipientOriginals, In, Within, Compares, Compared, Native, Settled, Resources
<1>3. CASE RecipientContext
  BY <1>3, ParentStepOn DEF RecipientContext, Beginnings, Within, Native, Settled, Resources
<1>4. CASE RecipientStreams
  BY <1>4, StepOn DEF RecipientStreams, Beginnings, Within, Native, Settled, Resources, ParentStreams
<1>5. CASE RecipientSpawn
  BY <1>5, SpawnKeeps DEF RecipientSpawn, In, Compared, Native, ParentSpawn
<1>6. CASE RecipientBirth
  BY <1>6, StepOn DEF RecipientBirth, Beginnings, Within, Native, Settled, Resources, ParentBirth
<1>7. CASE RecipientPoll
  BY <1>7, PollKeeps DEF RecipientPoll, In, Within, Compared, Native, Settled, ParentPoll
<1>8. CASE RecipientFinish
  BY <1>8, FinishKeeps DEF RecipientFinish, In, Compared, Settled
<1>9. CASE RecipientBeginRead
  BY <1>9, BeginReadKeeps DEF RecipientBeginRead, In, Within, Compared, Native, Settled
<1>10. CASE RecipientReadChild
  BY <1>10, ParentStepOn DEF RecipientReadChild, Beginnings, Within, Native, Settled, Resources
<1>11. CASE RecipientResult
  BY <1>11, ParentStepOn DEF RecipientResult, Beginnings, Within, Native, Settled, Resources
<1>12. CASE RecipientPending
  BY <1>12, ParentStepOn DEF RecipientPending, Beginnings, Within, Native, Settled, Resources
<1>13. CASE RecipientReread
  BY <1>13, ParentStepOn DEF RecipientReread, Beginnings, Within, Native, Settled, Resources
<1>14. CASE RecipientFailed
  BY <1>14, ParentRetainKeeps DEF RecipientFailed, In, Compared
<1>15. CASE RecipientClose
  BY <1>15, CloseKeeps DEF RecipientClose, ParentClose, In, Compared, Native
<1>16. CASE RecipientReturn
  BY <1>16, PublishKeeps, Openings DEF RecipientReturn, ParentReturn, IsNew, Compared, Settled
<1>17. CASE InitializerOpen
  BY <1>17, ParentStepKeeps, StageInherits
    DEF InitializerOpen, In, Within, Compares, Compared, Native, Settled, Resources
<1>18. CASE InitializerOriginals
  BY <1>18, ParentStepKeeps, StageInherits
    DEF InitializerOriginals, In, Within, Compares, Compared, Native, Settled, Resources
<1>19. CASE InitializerRequest
  BY <1>19, ParentStepOn DEF InitializerRequest, Beginnings, Within, Native, Settled, Resources
<1>20. CASE InitializerAdmit
  BY <1>20, ParentStepOn DEF InitializerAdmit, Beginnings, Within, Native, Settled, Resources
<1>21. CASE InitializerContext
  BY <1>21, ParentStepOn DEF InitializerContext, Beginnings, Within, Native, Settled, Resources
<1>22. CASE InitializerStreams
  BY <1>22, StepOn DEF InitializerStreams, Beginnings, Within, Native, Settled, Resources, ParentStreams
<1>23. CASE InitializerSpawn
  BY <1>23, SpawnKeeps DEF InitializerSpawn, In, Compared, Native, ParentSpawn
<1>24. CASE InitializerBirth
  BY <1>24, StepOn DEF InitializerBirth, Beginnings, Within, Native, Settled, Resources, ParentBirth
<1>25. CASE InitializerPoll
  BY <1>25, PollKeeps DEF InitializerPoll, In, Within, Compared, Native, Settled, ParentPoll
<1>26. CASE InitializerFinish
  BY <1>26, FinishKeeps DEF InitializerFinish, In, Compared, Settled
<1>27. CASE InitializerBeginRead
  BY <1>27, BeginReadKeeps DEF InitializerBeginRead, In, Within, Compared, Native, Settled
<1>28. CASE InitializerReadChild
  BY <1>28, ParentStepOn DEF InitializerReadChild, Beginnings, Within, Native, Settled, Resources
<1>29. CASE InitializerPending
  BY <1>29, ParentStepOn DEF InitializerPending, Beginnings, Within, Native, Settled, Resources
<1>30. CASE InitializerReread
  BY <1>30, ParentStepOn DEF InitializerReread, Beginnings, Within, Native, Settled, Resources
<1>31. CASE InitializerFailed
  BY <1>31, ParentRetainKeeps DEF InitializerFailed, In, Compared
<1>32. CASE InitializerClose
  BY <1>32, CloseKeeps DEF InitializerClose, ParentClose, In, Compared, Native
<1>33. CASE InitializerReturn
  BY <1>33, PublishKeeps, Openings DEF InitializerReturn, ParentReturn, IsNew, Compared, Settled
<1> QED
  BY <1>1, <1>2, <1>3, <1>4, <1>5, <1>6, <1>7, <1>8, <1>9, <1>10, <1>11, <1>12, <1>13, <1>14,
     <1>15, <1>16, <1>17, <1>18, <1>19, <1>20, <1>21, <1>22, <1>23, <1>24, <1>25, <1>26, <1>27,
     <1>28, <1>29, <1>30, <1>31, <1>32, <1>33 DEF RecipientNext

\* Stages 6 to 8.
LEMMA StagingKeeps ==
  ASSUME BootInv, StagingNext
  PROVE  BootInv'
<1>1. CASE StagingOpen
  <2>1. Compares(at.stage, "start", "admit", StagingOriginals)
    BY <1>1, StageInherits DEF StagingOpen, In, Compares, Compared
  <2>2. Within("start", "admit") /\ Within("start", "closing") /\ {"directories"} \in SUBSET Resources
    BY DEF Within, Native, Settled, Resources
  <2> QED
    BY <1>1, <2>1, <2>2, StepKeeps DEF StagingOpen, StagingStep
<1>2. CASE StagingAdmit
  BY <1>2, StepOn DEF StagingAdmit, Beginnings, Within, Native, Settled, Resources, StagingStep
<1>3. CASE StageEmpty
  <2>1. Compares(at.stage, "leaf", "evidence", {"canonical", "init-context"})
    BY <1>3, StageInherits DEF StageEmpty, In, Compares, Compared
  <2>2. Within("leaf", "evidence") /\ Within("leaf", "closing") /\ {} \in SUBSET Resources
    BY DEF Within, Native, Settled, Resources
  <2> QED
    BY <1>3, <2>1, <2>2, StepKeeps DEF StageEmpty, StagingStep
<1>4. CASE ObserveEmptySeed
  <2>1. Compares(at.stage, "leaf", "evidence", {"canonical", "init-context", "staging"})
    BY <1>4, StageInherits DEF ObserveEmptySeed, In, Compares, Compared
  <2>2. Within("leaf", "evidence") /\ Within("leaf", "closing") /\ {} \in SUBSET Resources
    BY DEF Within, Native, Settled, Resources
  <2> QED
    BY <1>4, <2>1, <2>2, StepKeeps DEF ObserveEmptySeed, StagingStep
<1>5. CASE ReserveConfiguration
  <2>1. Compares(at.stage, "leaf", "evidence", {"canonical", "init-context", "staging"})
    BY <1>5, StageInherits DEF ReserveConfiguration, In, Compares, Compared
  <2>2. Within("leaf", "evidence") /\ Within("leaf", "closing") /\ {} \in SUBSET Resources
    BY DEF Within, Native, Settled, Resources
  <2> QED
    BY <1>5, <2>1, <2>2, StepKeeps DEF ReserveConfiguration, StagingStep
<1>6. CASE StagingEvidence
  BY <1>6, StepOn DEF StagingEvidence, Beginnings, Within, Native, Settled, Resources, StagingStep
<1>7. CASE StagingPending
  BY <1>7, StepOn DEF StagingPending, Beginnings, Within, Native, Settled, Resources, StagingStep
<1>8. CASE StagingReread
  BY <1>8, StepOn DEF StagingReread, Beginnings, Within, Native, Settled, Resources, StagingStep
<1>9. CASE StagingClose
  BY <1>9, CloseKeeps DEF StagingClose, In, Compared, Native
<1>10. CASE StagingReturn
  BY <1>10, PublishKeeps, Openings, StagingWindowType DEF StagingReturn, IsNew, Compared, Settled
<1> QED
  BY <1>1, <1>2, <1>3, <1>4, <1>5, <1>6, <1>7, <1>8, <1>9, <1>10 DEF StagingNext

\* Stage 9: the owner's own intervals around the child.
LEMMA EnterReturnKeeps ==
  ASSUME BootInv, EnterReturn
  PROVE  BootInv'
<1>1. /\ TypeOK /\ at.stage = 9 /\ at.pc = "finish-return" /\ UNCHANGED <<disk, child, quarantine>>
      /\ Frame /\ Counted
  BY DEF EnterReturn, In, BootInv, Counted
<1>2. own' \in OwnerRecord /\ own'.failed = own.failed /\ own'.unknown = own.unknown
  <2>1. own.final \in Nat /\ now + Clean \in Nat
    BY <1>1, BoundsAssumption DEF TypeOK, OwnerRecord
  <2>2. Least(own.final, now + Clean) \in Nat
    BY <2>1, LeastNat
  <2> QED
    BY <1>1, <2>2 DEF EnterReturn, TypeOK, OwnerRecord
<1>3. Typed /\ at'.pc \in {"cancel-child", "return-child"}
  <2>1. at' = [at EXCEPT !.pc = "cancel-child"] \/ at' = [at EXCEPT !.pc = "return-child"]
    BY DEF EnterReturn
  <2> QED
    BY <1>1, <1>2, <2>1 DEF TypeOK, Typed, IsControl
<1>4. Within(at.pc, at'.pc)
  BY <1>1, <1>3 DEF Within, Settled, Native
<1>5. ~own'.failed => Fresh(at.stage)
  BY <1>1, <1>2 DEF BootInv, ChainOK, Compared
<1> QED
  BY <1>1, <1>2, <1>3, <1>4, <1>5, Leaks, Moves DEF TypeOK

LEMMA CancellationRequestKeeps ==
  ASSUME BootInv, CancellationRequest
  PROVE  BootInv'
<1>1. /\ TypeOK /\ at.stage = 9 /\ at.pc = "cancel-child" /\ at' = [at EXCEPT !.pc = "return-child"]
      /\ UNCHANGED <<child, quarantine>> /\ Frame /\ Counted
  BY DEF CancellationRequest, In, BootInv, Counted
<1>2. own' \in OwnerRecord /\ own'.failed = own.failed /\ (own.unknown => own'.unknown)
  <2>1. own' = own \/ own' = [own EXCEPT !.unknown = TRUE]
    BY DEF CancellationRequest
  <2> QED
    BY <1>1, <2>1 DEF TypeOK, OwnerRecord
<1>3. IsDisk(disk') /\ disk'.swapped = disk.swapped
  <2>1. disk' = disk \/ disk' = [disk EXCEPT !.written = @ \cup {"cancellation"}]
    BY DEF CancellationRequest
  <2> QED
    BY <1>1, <2>1, Writes
<1>4. Typed /\ at'.pc = "return-child"
  BY <1>1, <1>2, <1>3 DEF TypeOK, Typed, IsControl
<1>5. Within(at.pc, at'.pc)
  BY <1>1, <1>4 DEF Within, Settled, Native
<1>6. ~own'.failed => Fresh(at.stage)
  BY <1>1, <1>2 DEF BootInv, ChainOK, Compared
<1> QED
  BY <1>1, <1>2, <1>4, <1>5, <1>6, Leaks, Moves DEF TypeOK

LEMMA ReturnChildKeeps ==
  ASSUME BootInv, ReturnChild
  PROVE  BootInv'
<1>1. /\ TypeOK /\ at.stage = 9 /\ at.pc = "return-child" /\ UNCHANGED <<disk, child, quarantine>>
      /\ Frame /\ Counted
  BY DEF ReturnChild, In, BootInv, Counted
<1>2. own' \in OwnerRecord /\ (own.failed => own'.failed) /\ own'.unknown = own.unknown
  BY <1>1 DEF ReturnChild, TypeOK, OwnerRecord
<1>3. Typed /\ at'.pc = "finish"
  BY <1>1, <1>2 DEF ReturnChild, TypeOK, Typed, IsControl
<1>4. Within(at.pc, at'.pc)
  BY <1>1, <1>3 DEF Within, Settled, Native
<1>5. ~own'.failed => Fresh(at.stage)
  BY <1>1, <1>2 DEF BootInv, ChainOK, Compared
<1> QED
  BY <1>1, <1>2, <1>3, <1>4, <1>5, Leaks, Moves DEF TypeOK

LEMMA ProducerFinishKeeps ==
  ASSUME BootInv, ProducerFinish \/ ProducerFinishUnknown
  PROVE  BootInv'
<1>1. /\ TypeOK /\ at.stage = 9 /\ at.pc = "finish" /\ UNCHANGED <<disk, quarantine>>
      /\ Frame /\ Counted
  BY DEF ProducerFinish, ProducerFinishUnknown, In, BootInv, Counted
<1>2. ~own.failed => Fresh(at.stage)
  BY <1>1 DEF BootInv, ChainOK, Compared
<1>3. CASE ProducerFinish
  <2> DEFINE bad == own.failed \/ now >= own.final
  <2>1. child' = Retired
    BY <1>3 DEF ProducerFinish, Launched, Retired
  <2>2. /\ own' = [Final EXCEPT !.held = @ \ {"scope", "stdout", "stderr"}, !.failed = bad]
        /\ at' = [at EXCEPT !.pc = IF bad THEN "closing" ELSE "begin-read"]
    BY <1>3 DEF ProducerFinish
  <2>3. bad \in BOOLEAN
    OBVIOUS
  <2> HIDE DEF bad
  <2>4. own' \in OwnerRecord /\ own'.failed = bad
    BY <1>1, <2>2, <2>3, FinalType DEF OwnerRecord
  <2>5. own.failed => own'.failed
    BY <2>4 DEF bad
  <2>6. IsControl(at') /\ at'.stage = at.stage /\ at'.pc \in {"closing", "begin-read"}
    BY <1>1, <2>2 DEF TypeOK, IsControl
  <2>7. child' \in ChildRecord /\ ChildOK' /\ LeakOK'
    BY <1>1, <2>1, <2>6, RetireLeaks DEF Settled
  <2>8. Typed
    BY <1>1, <2>4, <2>6, <2>7 DEF TypeOK, Typed
  <2> QED
    BY <1>1, <1>2, <2>5, <2>7, <2>8, Moves DEF TypeOK
<1>4. CASE ProducerFinishUnknown
  <2>1. own' \in OwnerRecord /\ own'.failed /\ own'.unknown
    BY <1>1, <1>4, FinalType DEF ProducerFinishUnknown, OwnerRecord
  <2>2. child' \in {child, Retired}
    BY <1>4 DEF ProducerFinishUnknown, Launched, Retired
  <2>3. IsControl(at') /\ at'.stage = at.stage /\ at'.pc = "closing"
    BY <1>1, <1>4 DEF ProducerFinishUnknown, TypeOK, IsControl
  <2>4. child' \in ChildRecord /\ ChildOK' /\ LeakOK'
    BY <1>1, <2>1, <2>2, <2>3, RetireLeaks DEF Settled
  <2>5. Typed
    BY <1>1, <2>1, <2>3, <2>4 DEF TypeOK, Typed
  <2> QED
    BY <1>1, <2>1, <2>4, <2>5, Moves DEF TypeOK
<1> QED
  BY <1>3, <1>4

LEMMA ReadPhaseType ==
  ASSUME TypeOK
  PROVE  LET o == [own EXCEPT !.phase = "READ", !.read = Least(@, now + Clean)]
         IN o \in OwnerRecord /\ o.held = own.held /\ o.failed = own.failed /\ o.unknown = own.unknown
<1>1. own.read \in Nat /\ now + Clean \in Nat
  BY BoundsAssumption DEF TypeOK, OwnerRecord
<1>2. Least(own.read, now + Clean) \in Nat
  BY <1>1, LeastNat
<1> QED
  BY <1>2 DEF TypeOK, OwnerRecord

LEMMA ProducerBeginReadKeeps ==
  ASSUME BootInv, ProducerBeginRead
  PROVE  BootInv'
<1>1. /\ TypeOK /\ at.stage = 9 /\ at.pc = "begin-read" /\ UNCHANGED <<disk, child, quarantine>>
      /\ Frame /\ Counted
  BY DEF ProducerBeginRead, In, BootInv, Counted
<1>2. own' \in OwnerRecord /\ (own.failed => own'.failed) /\ own'.unknown = own.unknown
  <2>1. CASE own' = [own EXCEPT !.phase = "READ", !.read = Least(@, now + Clean)]
    BY <1>1, <2>1, ReadPhaseType
  <2>2. CASE own' = [own EXCEPT !.failed = TRUE]
    BY <1>1, <2>2 DEF TypeOK, OwnerRecord
  <2> QED
    BY <2>1, <2>2 DEF ProducerBeginRead
<1>3. Typed /\ at'.pc \in {"read-canonical", "closing"}
  <2>1. at' = [at EXCEPT !.pc = "read-canonical"] \/ at' = [at EXCEPT !.pc = "closing"]
    BY DEF ProducerBeginRead
  <2> QED
    BY <1>1, <1>2, <2>1 DEF TypeOK, Typed, IsControl
<1>4. Within(at.pc, at'.pc)
  BY <1>1, <1>3 DEF Within, Settled, Native
<1>5. ~own'.failed => Fresh(at.stage)
  BY <1>1, <1>2 DEF BootInv, ChainOK, Compared
<1> QED
  BY <1>1, <1>2, <1>3, <1>4, <1>5, Leaks, Moves DEF TypeOK

\* A step from one settled place to another, with the same owner or one that
\* differs in nothing the invariant is about.
LEMMA SettledKeeps ==
  ASSUME NEW q, BootInv, at.pc \in Settled, at' = [at EXCEPT !.pc = q], q # "done",
         UNCHANGED <<disk, child, quarantine>>, Frame, Counted, Compared(at.stage, at.pc),
         own' \in OwnerRecord, own'.held = own.held, own'.unknown = own.unknown, own.failed => own'.failed
  PROVE  BootInv'
<1>1. Typed /\ at'.pc = q
  BY DEF Typed, BootInv, TypeOK, IsControl
<1>2. ChildOK' /\ LeakOK'
  BY <1>1 DEF BootInv, ChildOK, LeakOK, Alive, Native, Settled
<1>3. ~own'.failed => Fresh(at.stage)
  BY DEF BootInv, ChainOK
<1> QED
  BY <1>1, <1>2, <1>3, Moves DEF BootInv, TypeOK

LEMMA ProducerReturnKeeps ==
  ASSUME BootInv, ProducerReturn
  PROVE  BootInv'
<1>1. /\ at.stage = 9 /\ at.pc = "closed" /\ UNCHANGED <<own, disk, child, quarantine>> /\ Frame /\ Counted
      /\ own \in OwnerRecord
  BY DEF ProducerReturn, In, BootInv, TypeOK, Counted
<1>2. at' = [at EXCEPT !.pc = "bind"] \/ at' = [at EXCEPT !.pc = "raised"]
  BY DEF ProducerReturn
<1>3. at.pc \in Settled /\ Compared(at.stage, at.pc)
  BY <1>1 DEF Settled, Compared
<1> QED
  BY <1>1, <1>2, <1>3, SettledKeeps

\* Stage 9.
LEMMA ProducerKeeps ==
  ASSUME BootInv, ProducerNext
  PROVE  BootInv'
<1>1. CASE ProducerOpen
  <2>1. Compares(at.stage, "start", "originals", {})
    BY <1>1, StageInherits DEF ProducerOpen, In, Compares, Compared
  <2>2. Within("start", "originals") /\ Within("start", "finish-return") /\ {"directories"} \in SUBSET Resources
    BY DEF Within, Native, Settled, Resources
  <2> QED
    BY <1>1, <2>1, <2>2, StepKeeps DEF ProducerOpen, ProducerStep
<1>2. CASE ProducerRead
  <2>1. Compares(at.stage, "originals", "admit", ProducerOriginals)
    BY <1>2, StageInherits DEF ProducerRead, In, Compares, Compared
  <2>2. Within("originals", "admit") /\ Within("originals", "finish-return") /\ {"directories"} \in SUBSET Resources
    BY DEF Within, Native, Settled, Resources
  <2> QED
    BY <1>2, <2>1, <2>2, StepKeeps DEF ProducerRead, ProducerStep
<1>3. CASE ProducerAdmit
  BY <1>3, StepOn DEF ProducerAdmit, Beginnings, Within, Native, Settled, Resources, ProducerStep
<1>4. CASE ProducerCommand
  BY <1>4, StepOn DEF ProducerCommand, Beginnings, Within, Native, Settled, Resources, ProducerStep
<1>5. CASE ProducerStreams
  BY <1>5, StepOn DEF ProducerStreams, Beginnings, Within, Native, Settled, Resources, ProducerStep
<1>6. CASE ProducerSpawn
  BY <1>6, SpawnKeeps DEF ProducerSpawn, In, Compared, Native
<1>7. CASE ProducerBirth
  BY <1>7, StepOn DEF ProducerBirth, Beginnings, Within, Native, Settled, Resources, ProducerStep
<1>8. CASE ProducerPoll
  BY <1>8, PollKeeps DEF ProducerPoll, In, Within, Compared, Native, Settled
<1>9. CASE EnterReturn
  BY <1>9, EnterReturnKeeps
<1>10. CASE CancellationRequest
  BY <1>10, CancellationRequestKeeps
<1>11. CASE ReturnChild
  BY <1>11, ReturnChildKeeps
<1>12. CASE ProducerFinish
  BY <1>12, ProducerFinishKeeps
<1>13. CASE ProducerFinishUnknown
  BY <1>13, ProducerFinishKeeps
<1>14. CASE ProducerBeginRead
  BY <1>14, ProducerBeginReadKeeps
<1>15. CASE ReadCanonical
  BY <1>15, StepOn DEF ReadCanonical, Beginnings, Within, Native, Settled, Resources, ProducerStep
<1>16. CASE ProducerClose
  BY <1>16, CloseKeeps DEF ProducerClose, In, Compared, Native
<1>17. CASE ProducerReturn
  BY <1>17, ProducerReturnKeeps
<1> QED
  BY <1>1, <1>2, <1>3, <1>4, <1>5, <1>6, <1>7, <1>8, <1>9, <1>10, <1>11, <1>12, <1>13, <1>14,
     <1>15, <1>16, <1>17 DEF ProducerNext

\* Stage 10: FINAL before the close, READ after it.
LEMMA CollectionAdvanceKeeps ==
  ASSUME BootInv, CollectionAdvance
  PROVE  BootInv'
<1>1. /\ TypeOK /\ at.stage = 10 /\ at.pc \in {"advance", "closing"} /\ own' = Final
      /\ UNCHANGED <<disk, child, quarantine>> /\ Frame /\ Counted
  BY DEF CollectionAdvance, In, BootInv, Counted
<1>2. own' \in OwnerRecord /\ own'.failed = own.failed /\ own'.unknown = own.unknown
  BY <1>1, FinalType
<1>3. Typed /\ at'.pc = "closing"
  BY <1>1, <1>2 DEF CollectionAdvance, TypeOK, Typed, IsControl
<1>4. Within(at.pc, at'.pc)
  BY <1>1, <1>3 DEF Within, Settled, Native
<1>5. ~own'.failed => Fresh(at.stage)
  BY <1>1, <1>2 DEF BootInv, ChainOK, Compared
<1> QED
  BY <1>1, <1>2, <1>3, <1>4, <1>5, Leaks, Moves DEF TypeOK

LEMMA CollectionBeginReadKeeps ==
  ASSUME BootInv, CollectionBeginRead
  PROVE  BootInv'
<1>1. /\ TypeOK /\ at.stage = 10 /\ at.pc = "closed" /\ UNCHANGED <<disk, child, quarantine>>
      /\ Frame /\ Counted
  BY DEF CollectionBeginRead, In, BootInv, Counted
<1>2. /\ own' \in OwnerRecord /\ own'.held = own.held /\ (own.failed => own'.failed)
      /\ own'.unknown = own.unknown
  <2>1. CASE own' = [own EXCEPT !.phase = "READ", !.read = Least(@, now + Clean)]
    BY <1>1, <2>1, ReadPhaseType
  <2>2. CASE own' = [own EXCEPT !.failed = TRUE]
    BY <1>1, <2>2 DEF TypeOK, OwnerRecord
  <2> QED
    BY <2>1, <2>2 DEF CollectionBeginRead
<1>3. at' = [at EXCEPT !.pc = "returning"] \/ at' = [at EXCEPT !.pc = "raised"]
  BY DEF CollectionBeginRead
<1>4. at.pc \in Settled /\ Compared(at.stage, at.pc)
  BY <1>1 DEF Settled, Compared
<1> QED
  BY <1>1, <1>2, <1>3, <1>4, SettledKeeps

\* Stages 10 and 11.
LEMMA CollectionKeeps ==
  ASSUME BootInv, CollectionNext
  PROVE  BootInv'
<1>1. CASE CollectionBind
  BY <1>1, PublishKeeps, Openings DEF CollectionBind, IsNew, Compared, Settled
<1>2. CASE CollectionOpen
  <2>1. Compares(at.stage, "start", "originals", {})
    BY <1>2, StageInherits DEF CollectionOpen, In, Compares, Compared
  <2>2. Within("start", "originals") /\ Within("start", "advance") /\ {"directories"} \in SUBSET Resources
    BY DEF Within, Native, Settled, Resources
  <2> QED
    BY <1>2, <2>1, <2>2, StepKeeps DEF CollectionOpen, CollectionStep
<1>3. CASE CollectionRead
  <2>1. Compares(at.stage, "originals", "admit", CollectionOriginals \cup StateInputs)
    BY <1>3, StageInherits DEF CollectionRead, In, Compares, Compared
  <2>2. Within("originals", "admit") /\ Within("originals", "advance") /\ {"directories"} \in SUBSET Resources
    BY DEF Within, Native, Settled, Resources
  <2> QED
    BY <1>3, <2>1, <2>2, StepKeeps DEF CollectionRead, CollectionStep
<1>4. CASE CollectionAdmit
  BY <1>4, StepOn DEF CollectionAdmit, Beginnings, Within, Native, Settled, Resources
<1>5. CASE QueryFinal
  BY <1>5, LeafCloseKeeps DEF QueryFinal, In, Within, Compared, Native, Settled
<1>6. CASE CollectionManifest
  BY <1>6, StepOn DEF CollectionManifest, Beginnings, Within, Native, Settled, Resources, CollectionStep
<1>7. CASE CollectInventory
  <2>1. Compares(at.stage, "leaf", "leaf-closing", {"manifest", "canonical-receipt"})
    BY <1>7, StageInherits DEF CollectInventory, In, Compares, Compared
  <2>2. Within("leaf", "leaf-closing") /\ {"leaf"} \in SUBSET Resources
    BY DEF Within, Native, Settled, Resources
  <2> QED
    BY <1>7, <2>1, <2>2, StepKeeps DEF CollectInventory
<1>8. CASE CollectionLeafClose
  BY <1>8, LeafCloseKeeps DEF CollectionLeafClose, In, Within, Compared, Native, Settled
<1>9. CASE CollectionAfter
  BY <1>9, StepOn DEF CollectionAfter, Beginnings, Within, Native, Settled, Resources, CollectionStep
<1>10. CASE CollectionReread
  BY <1>10, StepOn DEF CollectionReread, Beginnings, Within, Native, Settled, Resources, CollectionStep
<1>11. CASE CollectionAdvance
  BY <1>11, CollectionAdvanceKeeps
<1>12. CASE CollectionClose
  BY <1>12, CloseKeeps DEF CollectionClose, In, Compared, Native
<1>13. CASE CollectionBeginRead
  BY <1>13, CollectionBeginReadKeeps
<1>14. CASE CollectionReturn
  BY <1>14, PublishKeeps, Openings DEF CollectionReturn, IsNew, Compared, Settled
<1>15. CASE NoLoaderOpen
  <2>1. Compares(at.stage, "start", "leaf", {})
    BY <1>15, StageInherits DEF NoLoaderOpen, In, Compares, Compared
  <2>2. Within("start", "leaf") /\ Within("start", "closing") /\ {} \in SUBSET Resources
    BY DEF Within, Native, Settled, Resources
  <2> QED
    BY <1>15, <2>1, <2>2, StepKeeps DEF NoLoaderOpen
<1>16. CASE ObserveAbsence
  <2>1. Compares(at.stage, "leaf", "leaf-closing", {})
    BY <1>16, StageInherits DEF ObserveAbsence, In, Compares, Compared
  <2>2. Within("leaf", "leaf-closing") /\ {"leaf"} \in SUBSET Resources
    BY DEF Within, Native, Settled, Resources
  <2> QED
    BY <1>16, <2>1, <2>2, StepKeeps DEF ObserveAbsence, NoLoaderAcquire
<1>17. CASE NoLoaderLeafClose
  BY <1>17, LeafCloseKeeps DEF NoLoaderLeafClose, In, Within, Compared, Native, Settled
<1>18. CASE NoLoaderClose
  BY <1>18, CloseKeeps DEF NoLoaderClose, In, Compared, Native
<1>19. CASE NoLoaderReturn
  BY <1>19, PublishKeeps, Openings DEF NoLoaderReturn, IsNew, Compared, Settled
<1> QED
  BY <1>1, <1>2, <1>3, <1>4, <1>5, <1>6, <1>7, <1>8, <1>9, <1>10, <1>11, <1>12, <1>13, <1>14,
     <1>15, <1>16, <1>17, <1>18, <1>19 DEF CollectionNext

\* Stages 12 to 14.
LEMMA SaveKeeps ==
  ASSUME BootInv, SaveNext
  PROVE  BootInv'
<1>1. CASE DriveOpen
  <2>1. Compares(at.stage, "start", "leaf", {})
    BY <1>1, StageInherits DEF DriveOpen, In, Compares, Compared
  <2>2. Within("start", "leaf") /\ Within("start", "closing") /\ {} \in SUBSET Resources
    BY DEF Within, Native, Settled, Resources
  <2> QED
    BY <1>1, <2>1, <2>2, StepKeeps DEF DriveOpen
<1>2. CASE ExportSnapshot
  <2>1. Compares(at.stage, "leaf", "leaf-closing", {"canonical", "init-context", "staging"})
    BY <1>2, StageInherits DEF ExportSnapshot, In, Compares, Compared
  <2>2. Within("leaf", "leaf-closing") /\ {"leaf"} \in SUBSET Resources
    BY DEF Within, Native, Settled, Resources
  <2> QED
    BY <1>2, <2>1, <2>2, StepKeeps DEF ExportSnapshot
<1>3. CASE BeforeSave
  <2>1. Compares(at.stage, "leaf", "leaf-closing", {"staging", "exported"})
    BY <1>3, StageInherits DEF BeforeSave, In, Compares, Compared
  <2>2. Within("leaf", "leaf-closing") /\ {"leaf"} \in SUBSET Resources
    BY DEF Within, Native, Settled, Resources
  <2> QED
    BY <1>3, <2>1, <2>2, StepKeeps DEF BeforeSave
<1>4. CASE DriveLeafClose
  BY <1>4, LeafCloseKeeps DEF DriveLeafClose, In, Within, Compared, Native, Settled
<1>5. CASE DriveClose
  BY <1>5, CloseKeeps DEF DriveClose, In, Compared, Native
<1>6. CASE DriveReturn
  BY <1>6, PublishKeeps, Openings DEF DriveReturn, IsNew, Compared, Settled
<1>7. CASE SaveHandoffWrite
  <2>1. Compares(at.stage, "start", "readback", {})
    BY <1>7, StageInherits DEF SaveHandoffWrite, In, Compares, Compared
  <2>2. Within("start", "readback") /\ Within("start", "closing") /\ {"directories"} \in SUBSET Resources
    BY DEF Within, Native, Settled, Resources
  <2> QED
    BY <1>7, <2>1, <2>2, StepKeeps DEF SaveHandoffWrite
<1>8. CASE SaveHandoffRead
  BY <1>8, StepOn DEF SaveHandoffRead, Beginnings, Within, Native, Settled, Resources
<1>9. CASE SaveHandoffClose
  BY <1>9, CloseKeeps DEF SaveHandoffClose, In, Compared, Native
<1>10. CASE CompleteOpen
  BY <1>10, ReopenKeeps, Reopened DEF CompleteOpen, In, Compared, Settled
<1>11. CASE CompleteWrite
  BY <1>11, StepOn DEF CompleteWrite, Beginnings, Within, Native, Settled, Resources
<1>12. CASE CompleteRead
  BY <1>12, StepOn DEF CompleteRead, Beginnings, Within, Native, Settled, Resources
<1>13. CASE CompleteClose
  BY <1>13, CloseKeeps DEF CompleteClose, In, Compared, Native
<1>14. CASE CompleteReturn
  BY <1>14, PublishKeeps, Openings DEF CompleteReturn, IsNew, Compared, Settled
<1> QED
  BY <1>1, <1>2, <1>3, <1>4, <1>5, <1>6, <1>7, <1>8, <1>9, <1>10, <1>11, <1>12, <1>13, <1>14 DEF SaveNext

\* The provider between two commands.
LEMMA ProviderKeeps ==
  ASSUME NEW s \in {16, 18}, NEW f, BootInv, Provider(s, f)
  PROVE  BootInv'
<1>1. /\ TypeOK /\ at.stage = s /\ at.pc = "start" /\ UNCHANGED <<child, quarantine>> /\ Frame /\ Counted
  BY DEF Provider, BootInv, Counted
<1>2. CASE /\ disk' = [disk EXCEPT !.written = @ \cup {f}] /\ at' = [at EXCEPT !.pc = "open"]
           /\ own' = Opened(Work, 0)
  <2>1. Typed /\ at'.pc = "open"
    BY <1>1, <1>2, Openings DEF IsNew, TypeOK, Typed, IsControl, IsDisk
  <2>2. ChildOK' /\ LeakOK'
    BY <1>1, <1>2, <2>1 DEF BootInv, ChildOK, LeakOK, Alive, Native, Settled
  <2>3. ~Compared(at.stage, at'.pc)
    BY <1>1, <2>1 DEF Compared
  <2> QED
    BY <1>1, <2>1, <2>2, <2>3, Moves DEF TypeOK
<1>3. CASE at' = [at EXCEPT !.pc = "raised"] /\ UNCHANGED <<own, disk>>
  <2>1. Typed /\ at'.pc = "raised"
    BY <1>1, <1>3 DEF TypeOK, Typed, IsControl
  <2>2. ChildOK' /\ LeakOK'
    BY <1>1, <1>3, <2>1 DEF BootInv, ChildOK, LeakOK, Alive, Native, Settled
  <2>3. ~Compared(at.stage, at'.pc)
    BY <2>1 DEF Compared
  <2> QED
    BY <1>1, <2>1, <2>2, <2>3, Moves DEF TypeOK
<1> QED
  BY <1>2, <1>3 DEF Provider

LEMMA CommandFailedKeeps ==
  ASSUME BootInv, CommandFailed
  PROVE  BootInv'
<1>1. CASE Command(15) /\ Retain("failed", "closing", "save-preparation-failure")
  BY <1>1, RetainKeeps DEF Within, Compares, Compared, Native, Settled
<1>2. CASE /\ at.pc = "failed" /\ Smooth /\ at' = [at EXCEPT !.pc = "closing"]
           /\ UNCHANGED <<own, disk, child, quarantine>> /\ Frame
  <2>1. Typed /\ at'.pc = "closing"
    BY <1>2 DEF BootInv, TypeOK, Typed, IsControl
  <2>2. Within(at.pc, at'.pc)
    BY <1>2, <2>1 DEF Within, Settled, Native
  <2>3. ~own'.failed => Fresh(at.stage)
    BY <1>2 DEF BootInv, ChainOK, Compared
  <2> QED
    BY <1>2, <2>1, <2>2, <2>3, Leaks, Moves DEF BootInv, TypeOK, Counted
<1> QED
  BY <1>1, <1>2 DEF CommandFailed

LEMMA ProbeReturnKeeps ==
  ASSUME BootInv, ProbeReturn
  PROVE  BootInv'
<1>1. at.pc \in Settled /\ own \in OwnerRecord
  BY DEF ProbeReturn, Publish, Settled, BootInv, TypeOK
<1> QED
  BY <1>1, SettledOwner, PublishKeeps DEF ProbeReturn, Compared, Settled

LEMMA CommandStartKeeps ==
  ASSUME BootInv, CommandStart
  PROVE  BootInv'
<1>1. Compares(at.stage, "start", "open", {})
  BY DEF CommandStart, Compares, Compared
<1>2. Within("start", "open") /\ Within("start", "closing") /\ {} \in SUBSET Resources
  BY DEF Within, Native, Settled
<1> QED
  BY <1>1, <1>2, StepKeeps DEF CommandStart

\* A command compares all it inherits first.
LEMMA CommandOpenKeeps ==
  ASSUME BootInv, CommandOpen
  PROVE  BootInv'
<1>1. Compares(at.stage, "open", "admit", Inherits(at.stage))
  BY StageInherits DEF CommandOpen, Compares
<1>2. Within("open", "admit") /\ Within("open", "failed") /\ {"directories"} \in SUBSET Resources
  BY DEF Within, Native, Settled, Resources
<1> QED
  BY <1>1, <1>2, StepKeeps DEF CommandOpen

LEMMA AfterSaveKeeps ==
  ASSUME BootInv, AfterSave
  PROVE  BootInv'
<1>1. Compares(at.stage, "leaf", "leaf-closing", {"staging", "exported"})
  BY DEF AfterSave, Command, Compares, Compared
<1>2. Within("leaf", "leaf-closing") /\ {"leaf"} \in SUBSET Resources
  BY DEF Within, Native, Settled, Resources
<1> QED
  BY <1>1, <1>2, StepKeeps DEF AfterSave

\* Stages 15 to 18.
LEMMA CommandsKeep ==
  ASSUME BootInv, CommandsNext
  PROVE  BootInv'
<1>1. CASE ProviderSave
  BY <1>1, ProviderKeeps DEF ProviderSave
<1>2. CASE ProviderLookup
  BY <1>2, ProviderKeeps DEF ProviderLookup
<1>3. CASE CommandStart
  BY <1>3, CommandStartKeeps
<1>4. CASE CommandOpen
  BY <1>4, CommandOpenKeeps
<1>5. CASE CommandAdmit
  BY <1>5, StepOn DEF CommandAdmit, Beginnings, Within, Native, Settled, Resources
<1>6. CASE CommandPackage
  BY <1>6, StepOn DEF CommandPackage, Beginnings, Within, Native, Settled, Resources
<1>7. CASE CommandStage
  BY <1>7, StepOn DEF CommandStage, Beginnings, Within, Native, Settled, Resources
<1>8. CASE CommandFinalAdmit
  BY <1>8, StepOn DEF CommandFinalAdmit, Beginnings, Within, Native, Settled, Resources
<1>9. CASE PrepareSave
  BY <1>9, StepOn DEF PrepareSave, Beginnings, Within, Native, Settled, Resources
<1>10. CASE PrepareProbe
  <2>1. /\ "final" \notin Beginnings /\ {} \in SUBSET Resources
        /\ Within("final", "closing")
    BY DEF Beginnings, Within, Native, Settled, Resources
  <2> QED
    BY <1>10, <2>1, StepOn DEF PrepareProbe
<1>11. CASE AfterFinal
  <2>1. /\ "final" \notin Beginnings /\ {} \in SUBSET Resources
        /\ Within("final", "closing")
    BY DEF Beginnings, Within, Native, Settled, Resources
  <2> QED
    BY <1>11, <2>1, StepOn DEF AfterFinal
<1>12. CASE CommandFailed
  BY <1>12, CommandFailedKeeps
<1>13. CASE CommandClose
  BY <1>13, CloseKeeps DEF CommandClose, In, Compared, Native
<1>14. CASE PrepareReturn
  BY <1>14, PublishKeeps, Openings DEF PrepareReturn, IsNew, Compared, Settled
<1>15. CASE AfterLeafOpen
  BY <1>15, ReopenKeeps, Openings DEF AfterLeafOpen, In, IsNew, Compared, Settled, Command
<1>16. CASE AfterSave
  BY <1>16, AfterSaveKeeps
<1>17. CASE AfterLeafClose
  BY <1>17, LeafCloseKeeps, CloseKeeps DEF AfterLeafClose, Command, Within, Compared, Native, Settled
<1>18. CASE ObservationOpen
  BY <1>18, ReopenKeeps, Openings DEF ObservationOpen, In, IsNew, Compared, Settled, Command
<1>19. CASE SaveObservation
  BY <1>19, StepOn DEF SaveObservation, Beginnings, Within, Native, Settled, Resources
<1>20. CASE ObservationClose
  BY <1>20, CloseKeeps DEF ObservationClose, In, Compared, Native, Command
<1>21. CASE OwnerReturnOpen
  BY <1>21, ReopenKeeps, Openings DEF OwnerReturnOpen, In, IsNew, Compared, Settled, Command
<1>22. CASE AfterSaveReturn
  BY <1>22, StepOn DEF AfterSaveReturn, Beginnings, Within, Native, Settled, Resources
<1>23. CASE AfterSaveClose
  BY <1>23, CloseKeeps DEF AfterSaveClose, In, Compared, Native, Command
<1>24. CASE AfterReturn
  BY <1>24, PublishKeeps, Openings DEF AfterReturn, IsNew, Compared, Settled
<1>25. CASE ProbeResultOpen
  BY <1>25, ReopenKeeps, Openings DEF ProbeResultOpen, In, IsNew, Compared, Settled, Command
<1>26. CASE ProbeResult
  BY <1>26, StepOn DEF ProbeResult, Beginnings, Within, Native, Settled, Resources
<1>27. CASE ProbeResultClose
  BY <1>27, CloseKeeps DEF ProbeResultClose, In, Compared, Native, Command
<1>28. CASE ProbeReturn
  BY <1>28, ProbeReturnKeeps
<1> QED
  BY <1>1, <1>2, <1>3, <1>4, <1>5, <1>6, <1>7, <1>8, <1>9, <1>10, <1>11, <1>12, <1>13, <1>14,
     <1>15, <1>16, <1>17, <1>18, <1>19, <1>20, <1>21, <1>22, <1>23, <1>24, <1>25, <1>26, <1>27,
     <1>28 DEF CommandsNext

-----------------------------------------------------------------------------
(* All stages.                                                                *)

LEMMA DoneKeeps ==
  ASSUME BootInv, Done
  PROVE  BootInv'
<1>1. /\ TypeOK /\ at.pc = "start" /\ UNCHANGED <<own, disk, child, quarantine>> /\ Frame /\ Counted
  BY DEF Done, BootInv, Frame, Counted, Smooth
<1>2. Typed /\ at'.pc = "done"
  BY <1>1 DEF Done, TypeOK, Typed, IsControl
<1>3. ChildOK' /\ LeakOK'
  BY <1>1, <1>2 DEF BootInv, ChildOK, LeakOK, Alive, Native, Settled
<1>4. ~Compared(at.stage, at'.pc)
  BY <1>2 DEF Compared
<1> QED
  BY <1>1, <1>2, <1>3, <1>4, Moves DEF TypeOK

LEMMA BootstrapInit ==
  ASSUME Init
  PROVE  BootInv
<1>1. at = [stage |-> 1, pc |-> "start"] /\ own = Opened(Work, Clean) /\ now = 0 /\ published = {}
  BY DEF Init, OwnerInit
<1>2. own \in OwnerRecord /\ own.held = {} /\ ~own.unknown
  <2>1. /\ now + Work \in Nat /\ now + Work + Clean \in Nat /\ now + Work + Clean + Clean \in Nat
        /\ JobEnd \in Nat
    BY <1>1, BoundsAssumption
  <2>2. /\ Least(now + Work, JobEnd) \in Nat /\ Least(now + Work + Clean, JobEnd) \in Nat
        /\ Least(now + Work + Clean + Clean, JobEnd) \in Nat
    BY <2>1, LeastNat
  <2> QED
    BY <1>1, <2>2 DEF Opened, OwnerRecord
<1>3. TypeOK
  <2>1. IsControl(at) /\ IsDisk(disk) /\ child \in ChildRecord
    BY <1>1 DEF Init, OwnerInit, IsControl, IsDisk, NoChild, ChildRecord
  <2>2. now = 0 /\ trouble = 0 /\ cancelled = FALSE /\ quarantine = FALSE /\ published = {}
    BY DEF Init, OwnerInit
  <2> QED
    BY <1>2, <2>1, <2>2 DEF TypeOK
<1>4. ChildOK /\ LeakOK
  BY <1>1, <1>2 DEF Init, OwnerInit, NoChild, ChildOK, LeakOK, Alive, Native
<1>5. ChainOK
  BY <1>1 DEF ChainOK, Compared
<1> QED
  BY <1>3, <1>4, <1>5 DEF BootInv

LEMMA BootstrapNext ==
  ASSUME BootInv, [Next]_ownerVars
  PROVE  BootInv'
<1>1. CASE UNCHANGED ownerVars
  BY <1>1, StutterKeeps DEF ownerVars, BootInv, TypeOK
<1>2. CASE Next
  BY <1>2, EnvironmentKeeps, EntryKeeps, RecipientKeeps, StagingKeeps, ProducerKeeps, CollectionKeeps,
     SaveKeeps, CommandsKeep, ChildNextKeeps, DoneKeeps DEF Next
<1> QED
  BY <1>1, <1>2

\* The inductive invariant of the bootstrap: whatever may still run or be open
\* is unknown or still to be closed, and a stage past its comparisons has
\* compared all it inherits (Owner.close, finish_native, read_originals).
THEOREM BootstrapInvariant == Spec => []BootInv
BY BootstrapInit, BootstrapNext, PTL DEF Spec

\* Nothing is lost silently: a resource still open or a child that may still
\* run at the end of a process or of a stage has put its owner in QUARANTINE,
\* whatever failed and however often (Owner.close, _close_parent,
\* finish_native).
THEOREM LeaksRecordedHolds == Spec => []LeaksRecorded
<1>1. BootInv => LeaksRecorded
  BY DEF BootInv, LeakOK, LeaksRecorded, Native, Settled
<1> QED
  BY <1>1, BootstrapInvariant, PTL

\* No stage returns over an original that was replaced before it began, for
\* every set of records that may be replaced (read_originals, _read_prepared,
\* private_inputs, reread_files, _read_save_handoff).
THEOREM NoStalePublicationHolds == Spec => []NoStalePublication
<1>1. BootInv => NoStalePublication
  BY DEF BootInv, ChainOK, Fresh, NoStalePublication
<1> QED
  BY <1>1, BootstrapInvariant, PTL

=============================================================================
