---------------------------- MODULE TestProofs ------------------------------
(* Proofs about the test controller and the delivery behind it: for every     *)
(* choice of the fences and every number of troubles, a device that was       *)
(* booted is retired or unknown, a pass is true of the machine, no signing    *)
(* key is exported, a complete delivery carries the originals and a child is  *)
(* asked to cancel at most once.  One inductive invariant, TestInv, carries   *)
(* all five; the lemmas below show, operation by operation, that it is kept.  *)
EXTENDS TestDelivery, TLAPS

-----------------------------------------------------------------------------
(* The operations, by the part of the run they belong to.                     *)

RestoreOps == {"identity", "job-time", "plan", "episode", "service", "readback", "accept", "restore-close"}
Setup == {"adopt", "seed-intent", "recipient-validation", "audit-init", "sim-prepare", "seed", "seed-receipt",
          "custody-prepare", "sim-prelaunch"}
Retiring == {"sim-before", "sim-shutdown", "sim-after"}
Primary == {"collect", "custody-collect", "custody-uninstall", "retire", "sim-record", "abi", "abi-generated",
            "abi-references", "abi-inputs", "abi-record"} \cup Retiring
Finishing == {"swift-before", "swift-shutdown", "swift-after"}
Bundle == {"central-bundle", "central-retire", "screen"}
Supplements == {"barrier", "supplement", "lock-policy", "swift", "swift-prelaunch", "swift-ui", "swift-finish",
                "swift-close", "swift-results", "central", "package", "sample-packaging"} \cup Finishing \cup Bundle
Exporting == {"export", "verify", "verify-packets", "verify-samples"}
MainOps == Setup \cup {"product", "authority"} \cup Primary \cup Supplements
FinalOps == Primary \cup Exporting \cup {"freeze", "result", "close"}
Early == RestoreOps \cup Setup

ModeOps(m) == IF m = "restore" THEN RestoreOps ELSE IF m = "main" THEN MainOps ELSE FinalOps

PhasePcs == {"op", "open", "spawn", "check", "look", "again", "caught", "drain", "receipt", "ret"}
Pcs(o) ==
  IF o \in Labels THEN PhasePcs
  ELSE IF o = "service" THEN {"op", "spawn", "poll", "drain", "ret"}
  ELSE IF o \in {"restore-close", "close"} THEN {"op", "done"} ELSE {"op"}

-----------------------------------------------------------------------------
(* Types.                                                                     *)

ControlRecord ==
  [profile : Profiles, mode : {"restore", "main", "final"}, op : RestoreOps \cup MainOps \cup FinalOps,
   pc : PhasePcs \cup {"poll", "done"}]
ControllerRecord ==
  [errors : BOOLEAN, unknown : BOOLEAN, exhausted : BOOLEAN, active : Canonical \cup {"none"}, request : BOOLEAN,
   recipient : BOOLEAN, seeded : BOOLEAN, product : BOOLEAN, created : BOOLEAN, custody : {"none", "RETAINED", "FAILED"},
   selected : BOOLEAN, authority : BOOLEAN, after : BOOLEAN, terminal : {"none", "HOLD", "KNOWN"},
   fail : {"no", "finish", "product"}, abi : {"none", "HOLD", "PASS"},
   completed : SUBSET {"lock-policy", "swift-ui", "central-bundle"},
   swift : {"NOT_REACHED", "PENDING", "UNKNOWN", "KNOWN_SHUTDOWN", "HOLD"},
   central : {"NOT_REACHED", "PENDING", "SCREENED_AND_REMOVED"}, samples : {"none", "PASS", "FAILED"},
   encrypted : BOOLEAN,
   attempted : SUBSET {"collect", "uninstall", "retire", "abi", "swift", "central", "samples"},
   result : {"none", "passed", "ready", "hold"}, signalled : BOOLEAN, exit : {"none", "zero", "hold"}]
PhaseRecord == [raised : BOOLEAN, code : {"none", "zero", "nonzero"}, scope : BOOLEAN, launched : BOOLEAN,
                asked : BOOLEAN, late : BOOLEAN, errs : BOOLEAN]
ChildRecord == [st : {"none", "running", "returned", "consumed", "killed"}, code : {"none", "zero", "nonzero"},
                seen : {"none", "Shutdown", "Booted"}]
RowsRecord == [all : SUBSET Labels, clean : SUBSET Labels]
Retained == {"receipts", "records", "packet", "package", "apps"}
WorldRecord ==
  [device : {"Shutdown", "Booted"}, by : {"none", "own", "other"}, keys : {"none", "present", "removed"},
   loader : BOOLEAN, product : {"none", "passed", "late", "failed"}, swapped : SUBSET (Retained \X {"none", "zero"})]
Deliveries == {"evidence", "desktop", "android"}
Unsealed == {"seal", "seal-inputs", "seal-phases", "seal-packets"}
Evidencing == {"seal-full", "seal-write", "seal-again", "evidence-before", "evidence-upload", "evidence-after"}
Sampling == {"desktop-before", "desktop-upload", "desktop-after", "android-before", "android-upload", "android-after"}
Steps == Unsealed \cup Evidencing \cup Sampling \cup {"package", "sample-delivery", "delivered", "stopped"}
DeliveryRecord == [step : Steps, sealed : {"none", "passed", "ready", "hold"},
                   uploaded : SUBSET (Deliveries \X BOOLEAN), complete : SUBSET Deliveries, end : Nat]

ControllerTypes ==
  /\ now \in Nat /\ cancelled \in BOOLEAN /\ ctl \in ControlRecord /\ c \in ControllerRecord /\ ph \in PhaseRecord
  /\ rows \in RowsRecord /\ child \in ChildRecord /\ requests \in Seq(Canonical) /\ world \in WorldRecord
TypeOK == ControllerTypes /\ dl \in DeliveryRecord

-----------------------------------------------------------------------------
(* The inductive invariant.                                                   *)

Asked(o) == \E i \in 1 .. Len(requests) : requests[i] = o

\* Where the controller is, and that it has returned.
ControlOK ==
  /\ ctl.op \in ModeOps(ctl.mode) /\ ctl.pc \in Pcs(ctl.op)
  /\ c.exit # "none" <=> ctl.pc = "done"
  /\ c.exit = "zero" => ctl.op = "close" /\ c.encrypted /\ ~c.unknown

\* The native child and what its phase knows of it.
ChildOK ==
  /\ child.seen = "Shutdown" => world.by # "own"
  /\ child.st \in {"none", "running", "killed"} => child.seen = "none" /\ child.code = "none"
  /\ ph.code # "none" => child.st \in {"returned", "consumed"} /\ ph.code = child.code
  /\ ctl.pc \in {"open", "spawn", "check", "look", "caught"} => ph.code = "none"
  /\ ctl.op \in Labels /\ ctl.pc \in {"open", "spawn"} => child.st = "none" /\ ~ph.asked
  /\ ctl.pc = "again" => child.st = "consumed"

\* The requests to cancel, against the target and the budget.
RequestOK ==
  /\ c.active # "none" => child.st # "consumed"
  /\ requests # <<>> => cancelled \/ c.exhausted
  /\ ctl.op \in Labels /\ ctl.pc \in {"open", "spawn"} => c.active = "none"
  /\ ctl.op \in Canonical /\ ctl.pc \in {"check", "look", "caught"} =>
       /\ c.active = ctl.op /\ (requests # <<>> => ph.asked) /\ (ph.asked => Asked(ctl.op))
       /\ (c.exhausted => ph.asked)
  /\ ctl.op \in Canonical /\ ctl.pc = "again" => c.active = "none"
  /\ ctl.op \in Canonical /\ ctl.pc = "drain" /\ child.st = "running" /\ c.exhausted => Asked(ctl.op)

\* The signing keys, against the screening and the export.
KeysOK ==
  /\ world.keys = "present" => "central" \in c.attempted /\ c.central # "SCREENED_AND_REMOVED"
  /\ ctl.op \in Bundle => "central" \in c.attempted /\ c.central = "PENDING"
  /\ ctl.mode # "final" => c.central # "SCREENED_AND_REMOVED"
  /\ ctl.op \in Exporting \/ c.encrypted \/ "export" \in rows.all =>
       ctl.mode = "final" /\ ("central" \in c.attempted => c.central = "SCREENED_AND_REMOVED")

\* A device that a child booted is on its way to a retirement, or unknown.
Pending ==
  \/ c.unknown
  \/ /\ ctl.op \in {"product", "authority", "collect", "custody-collect", "custody-uninstall", "retire"}
     /\ c.selected /\ "retire" \notin c.attempted
  \/ ctl.op \in Retiring \cup Finishing \cup {"swift-ui", "swift-finish"}
  \/ ctl.op = "sim-record" /\ c.fail # "no"
  \/ ctl.op = "swift-close" /\ ~c.after
DeviceOK ==
  /\ world.device = "Shutdown" => world.by = "none"
  /\ ctl.op \in Early \cup {"product", "authority"} => c.attempted = {}
  /\ ctl.op \in {"seed", "seed-receipt", "custody-prepare", "sim-prelaunch", "product", "authority"} /\ Full => c.selected
  /\ ctl.op \in Finishing => ~c.after
  /\ world.by = "own" => ctl.op \notin Early /\ Full /\ Pending

\* What the clean rows of the product and of the removal of its loader say.
ProductOK ==
  /\ ctl.op \in Early => rows.clean \cap {"product", "custody-uninstall"} = {}
  /\ "product" \in rows.clean =>
       world.product = "passed" /\ (ctl.op = "product" => ctl.pc = "ret" /\ child.st # "running")
  /\ "custody-uninstall" \in rows.clean => ~world.loader
  /\ ctl.op = "product" /\ ctl.pc # "op" /\ child.code = "zero" => world.product = "passed" \/ now >= Productive
  /\ ctl.op = "product" /\ ctl.pc \in {"drain", "receipt"} /\ ph.code = "zero" /\ ~ph.late => world.product = "passed"
  /\ ctl.op = "custody-uninstall" /\ ctl.pc # "op" /\ child.code = "zero" => ~world.loader
  /\ c.exit = "zero" /\ c.result = "passed" => {"product", "custody-uninstall"} \subseteq rows.clean

\* The delivery.
Carried(k) == IF k = "evidence" THEN "packet" ELSE "apps"
SealedSwaps == {<<"receipts", "none">>}
Reported == dl.step # "stopped" => \A u \in dl.uploaded : u[1] \in dl.complete \/ dl.step = Afterwards[u[1]]
DeliveryOK ==
  /\ dl.step # "seal" => c.exit = "zero"
  /\ dl.step \in Unsealed \cup Evidencing => dl.complete = {}
  /\ dl.step \notin Unsealed \cup {"stopped"} \/ dl.complete # {} => world.swapped \cap SealedSwaps = {}
  /\ \A k \in Deliveries : dl.step = Afterwards[k] =>
       <<k, FALSE>> \in dl.uploaded \/ ~Originals({Carried(k)})
  /\ dl.step \in Sampling => "evidence" \in dl.complete /\ dl.sealed = "passed"
  /\ Reported /\ CompleteTruthful

ControllerInv == ControlOK /\ ChildOK /\ RequestOK /\ KeysOK /\ DeviceOK /\ ProductOK
TestInv == TypeOK /\ ControllerInv /\ DeliveryOK

-----------------------------------------------------------------------------
(* How the control moves.                                                     *)

Goes(o) ==
  /\ ctl' \in ControlRecord /\ ctl'.profile = ctl.profile
  /\ ctl'.mode = ctl.mode /\ ctl'.op = o /\ ctl'.pc = "op"
Leaves ==
  /\ ctl' \in ControlRecord /\ ctl'.profile = ctl.profile /\ ctl'.pc = "op"
  /\ ctl.mode = "restore" => ctl'.mode = "restore" /\ ctl'.op = "restore-close"
  /\ ctl.mode = "main" => ctl'.mode = "final" /\ ctl'.op = "collect"
  /\ ctl.mode = "final" => ctl'.mode = "final" /\ ctl'.op = FinalAfter(ctl.op)
Stays(p) ==
  /\ ctl' \in ControlRecord /\ ctl'.profile = ctl.profile
  /\ ctl'.mode = ctl.mode /\ ctl'.op = ctl.op /\ ctl'.pc = p

LEMMA GoesTo ==
  ASSUME ctl \in ControlRecord, NEW o \in RestoreOps \cup MainOps \cup FinalOps, Goto(o)
  PROVE  Goes(o)
BY DEF Goto, Goes, ControlRecord, PhasePcs

LEMMA StaysAt ==
  ASSUME ctl \in ControlRecord, NEW p \in PhasePcs \cup {"poll", "done"}, PhaseGo(p)
  PROVE  Stays(p)
BY DEF PhaseGo, Stays, ControlRecord, PhasePcs

LEMMA FinalAfterOps == \A o : FinalAfter(o) \in {"retire", "abi", "freeze", "result"}
BY DEF FinalAfter

LEMMA LeavesFor ==
  ASSUME ctl \in ControlRecord, Leave
  PROVE  Leaves
<1>1. FinalAfter(ctl.op) \in FinalOps
  BY FinalAfterOps DEF FinalOps, Primary
<1>2. {"restore-close", "collect"} \subseteq RestoreOps \cup MainOps \cup FinalOps
  BY DEF RestoreOps, MainOps, Primary
<1>3. CASE ctl.mode = "restore"
  BY <1>2, <1>3 DEF Leave, Leaves, ControlRecord, PhasePcs
<1>4. CASE ctl.mode = "main"
  BY <1>2, <1>4 DEF Leave, Leaves, ControlRecord, PhasePcs
<1>5. CASE ctl.mode = "final"
  BY <1>1, <1>5 DEF Leave, Leaves, ControlRecord, PhasePcs
<1> QED
  BY <1>3, <1>4, <1>5 DEF ControlRecord

-----------------------------------------------------------------------------
(* What a step may do to the controller: it forgets neither an unknown owner  *)
(* nor an exhausted budget, and of the fields the invariant is about it       *)
(* changes those in F only.                                                   *)

Core == {"active", "selected", "after", "fail", "central", "encrypted", "attempted", "result", "exit"}
Alters(F) ==
  /\ c' \in ControllerRecord
  /\ (c.unknown => c'.unknown) /\ (c.exhausted => c'.exhausted)
  /\ \A f \in Core \ F : c'[f] = c[f]

Settled == UNCHANGED <<now, cancelled, rows, child, requests, ph, world>>

LEMMA AltersNothing ==
  ASSUME c \in ControllerRecord, UNCHANGED c
  PROVE  Alters({})
BY DEF Alters

LEMMA AltersMore ==
  ASSUME NEW F, NEW G, Alters(F), F \subseteq G
  PROVE  Alters(G)
BY DEF Alters

LEMMA AltersErrors ==
  ASSUME c \in ControllerRecord, NEW b \in BOOLEAN, c' = [c EXCEPT !.errors = b]
  PROVE  Alters({}) /\ c'.unknown = c.unknown /\ c'.exhausted = c.exhausted
BY DEF Alters, ControllerRecord, Core

LEMMA AltersUnknown ==
  ASSUME c \in ControllerRecord, NEW u \in BOOLEAN, c.unknown => u,
         c' = [c EXCEPT !.errors = TRUE, !.unknown = u]
  PROVE  Alters({}) /\ c'.unknown = u /\ c'.exhausted = c.exhausted
BY DEF Alters, ControllerRecord, Core

LEMMA AltersExhausted ==
  ASSUME c \in ControllerRecord, NEW x \in BOOLEAN, c.exhausted => x,
         c' = [c EXCEPT !.errors = TRUE, !.exhausted = x]
  PROVE  Alters({}) /\ c'.unknown = c.unknown /\ c'.exhausted = x
BY DEF Alters, ControllerRecord, Core

LEMMA MarkedType ==
  ASSUME c \in ControllerRecord, NEW fin \in BOOLEAN
  PROVE  Marked(fin) \in BOOLEAN /\ (c.exhausted => Marked(fin))
BY DEF Marked, ControllerRecord

LEMMA BooleanFields ==
  ASSUME c \in ControllerRecord
  PROVE  /\ c.errors \in BOOLEAN /\ c.unknown \in BOOLEAN /\ c.exhausted \in BOOLEAN /\ c.created \in BOOLEAN
         /\ c.selected \in BOOLEAN /\ c.after \in BOOLEAN /\ c.encrypted \in BOOLEAN /\ c.authority \in BOOLEAN
BY DEF ControllerRecord

-----------------------------------------------------------------------------
(* A step of the control between the phases.                                  *)

LEMMA AltersKeeps ==
  ASSUME NEW F, Alters(F), NEW f \in Core, f \notin F
  PROVE  c'[f] = c[f]
BY DEF Alters

\* A step between the phases leaves the machine alone, except for the keys.
Framed ==
  /\ UNCHANGED <<now, cancelled, rows, child, requests, ph>> /\ world' \in WorldRecord
  /\ world'.device = world.device /\ world'.by = world.by /\ world'.loader = world.loader
  /\ world'.product = world.product /\ world'.swapped = world.swapped

LEMMA SettledFramed ==
  ASSUME TestInv, Settled
  PROVE  Framed
BY DEF Settled, Framed, TestInv, TypeOK, ControllerTypes

\* The phases are over, or have not begun: what the child and the requests
\* have to do with them does not matter.
LEMMA CalmChild ==
  ASSUME TestInv, Framed, ctl'.pc \in {"op", "done"}
  PROVE  ChildOK'
BY DEF TestInv, ControllerInv, ChildOK, Framed

LEMMA CalmRequests ==
  ASSUME TestInv, Framed, ctl'.pc \in {"op", "done"}, c'.active = c.active, c.exhausted => c'.exhausted
  PROVE  RequestOK'
BY DEF TestInv, ControllerInv, RequestOK, Framed

LEMMA CalmProduct ==
  ASSUME TestInv, Framed, ctl'.pc \in {"op", "done"}, ctl'.op \in Early => ctl.op \in Early,
         ctl'.op = "product" => ctl.op \in Early,
         ctl'.op \in {"product", "custody-uninstall"} => ctl'.pc = "op",
         c'.exit = "zero" /\ c'.result = "passed" => {"product", "custody-uninstall"} \subseteq rows.clean
  PROVE  ProductOK'
BY DEF TestInv, ControllerInv, ProductOK, Framed

LEMMA CalmDelivery ==
  ASSUME TestInv, UNCHANGED dl, world'.swapped = world.swapped, c.exit = "zero" => c'.exit = "zero"
  PROVE  DeliveryOK'
BY DEF TestInv, DeliveryOK, Reported, CompleteTruthful, Originals

\* An operation goes on to the next one, given what becomes of keys and device.
LEMMA MovesAny ==
  ASSUME TestInv, Framed, UNCHANGED dl, NEW F, Alters(F), F \cap {"active", "exit"} = {},
         ctl' \in ControlRecord, ctl.pc \in {"op", "ret"}, ctl'.pc = "op", ctl'.op \in ModeOps(ctl'.mode),
         ctl'.op \in Early => ctl.op \in Early, ctl'.op = "product" => ctl.op \in Early,
         KeysOK', DeviceOK'
  PROVE  TestInv'
<1>1. c' \in ControllerRecord /\ (c.exhausted => c'.exhausted) /\ (c.unknown => c'.unknown)
  BY DEF Alters
<1>2. c'.active = c.active /\ c'.exit = c.exit
  BY AltersKeeps DEF Core
<1>3. c.exit = "none" /\ c'.exit = "none"
  BY <1>2 DEF TestInv, ControllerInv, ControlOK
<1>4. TypeOK'
  BY <1>1 DEF TestInv, TypeOK, ControllerTypes, Framed
<1>5. ControlOK'
  <2>1. "op" \in Pcs(ctl'.op)
    BY DEF Pcs, PhasePcs
  <2> QED
    BY <1>3, <2>1 DEF ControlOK
<1>6. ChildOK' /\ RequestOK'
  BY <1>1, <1>2, CalmChild, CalmRequests
<1>7. ProductOK'
  BY <1>3, CalmProduct
<1>8. DeliveryOK'
  BY <1>3, CalmDelivery DEF Framed
<1> QED
  BY <1>4, <1>5, <1>6, <1>7, <1>8 DEF TestInv, ControllerInv

LEMMA MovesOn ==
  ASSUME TestInv, Settled, UNCHANGED dl, NEW F, Alters(F), F \cap {"active", "exit", "central", "encrypted"} = {},
         "central" \in c'.attempted <=> "central" \in c.attempted,
         ctl' \in ControlRecord, ctl.pc \in {"op", "ret"}, ctl'.pc = "op", ctl'.op \in ModeOps(ctl'.mode),
         ctl.mode = "final" <=> ctl'.mode = "final",
         ctl'.op \in Early => ctl.op \in Early, ctl'.op = "product" => ctl.op \in Early,
         ctl'.op \in Bundle => ctl.op \in Bundle, ctl'.op \in Exporting => ctl.op \in Exporting,
         DeviceOK'
  PROVE  TestInv'
<1>1. c'.central = c.central /\ c'.encrypted = c.encrypted
  BY AltersKeeps DEF Core
<1>2. KeysOK'
  BY <1>1 DEF TestInv, ControllerInv, KeysOK, Settled
<1>3. F \cap {"active", "exit"} = {}
  OBVIOUS
<1> QED
  BY <1>2, <1>3, SettledFramed, MovesAny

\* An exception leaves for the finally, or for its next operation.
LEMMA LeaveAny ==
  ASSUME TestInv, Framed, Leave, UNCHANGED dl, Alters({"central", "after", "fail", "result"}), KeysOK', ctl.pc \in {"op", "ret"},
         ctl.op \notin {"restore-close", "result", "close", "collect", "retire"},
         /\ ctl.op \in Retiring \cup Finishing \cup {"swift-ui", "swift-finish", "sim-record", "swift-close"}
         /\ world.by = "own"
         => c'.unknown
  PROVE  TestInv'
<1>1. ctl \in ControlRecord /\ c \in ControllerRecord /\ ControlOK /\ DeviceOK
  BY DEF TestInv, TypeOK, ControllerTypes, ControllerInv
<1>2. Leaves
  BY <1>1, LeavesFor
<1>3. /\ c'.selected = c.selected /\ c'.attempted = c.attempted /\ c'.active = c.active
      /\ c'.exit = c.exit /\ c'.encrypted = c.encrypted
  BY AltersKeeps DEF Core
<1>4. /\ c'.exit = "none" /\ c' \in ControllerRecord /\ (c.unknown => c'.unknown)
      /\ (c.exhausted => c'.exhausted)
  BY <1>1, <1>3 DEF ControlOK, Alters
<1>5. ctl.mode \in {"restore", "main", "final"}
  BY <1>1 DEF ControlRecord
<1>6. ctl'.op \in ModeOps(ctl'.mode)
  <2>1. FinalAfter(ctl.op) \in FinalOps
    BY FinalAfterOps DEF FinalOps, Primary
  <2> QED
    BY <1>2, <1>5, <2>1 DEF Leaves, ModeOps, RestoreOps, FinalOps, Primary
<1>7. /\ ctl.mode # "restore" => ctl'.op \in {"collect", "retire", "abi", "freeze", "result"} /\ ctl'.mode = "final"
      /\ ctl.mode = "restore" => ctl'.op = "restore-close" /\ ctl'.mode = "restore"
  BY <1>2, <1>5, FinalAfterOps DEF Leaves
<1>8. ctl.mode = "restore" => ctl.op \in RestoreOps
  BY <1>1 DEF ControlOK, ModeOps
<1>10. DeviceOK'
  <2>1. ctl.mode = "restore" => c.attempted = {} /\ world.by # "own"
    BY <1>1, <1>8 DEF DeviceOK, Early
  <2>2. ctl'.op \notin Finishing \cup {"seed", "seed-receipt", "custody-prepare", "sim-prelaunch", "product", "authority"}
    BY <1>7 DEF Finishing
  <2>3. ctl.mode # "restore" => ctl'.op \notin Early \cup {"product", "authority"}
    BY <1>7 DEF Early, RestoreOps, Setup
  <2>4. ASSUME world.by = "own", ctl.op \in {"product", "authority", "custody-collect", "custody-uninstall"}, ~c.unknown
        PROVE  Pending'
    <3>1. ctl.mode # "restore"
      BY <2>1, <2>4
    <3>2. ctl.mode = "final" => ctl.op \notin {"product", "authority"}
      BY <1>1 DEF ControlOK, ModeOps, FinalOps, Primary, Exporting, Retiring
    <3>3. ctl'.op \in {"collect", "retire"}
      BY <1>2, <1>5, <2>4, <3>1, <3>2 DEF Leaves, FinalAfter
    <3>4. Pending
      BY <1>1, <2>4 DEF DeviceOK
    <3> QED
      BY <1>3, <2>4, <3>3, <3>4 DEF Pending, Retiring, Finishing
  <2>5. world.by = "own" => Pending'
    <3>1. ASSUME world.by = "own", ~c'.unknown PROVE ctl.op \in {"product", "authority", "custody-collect", "custody-uninstall"}
      BY <1>1, <1>4, <3>1 DEF DeviceOK, Pending
    <3>2. c'.unknown => Pending'
      BY DEF Pending
    <3> QED
      BY <1>4, <2>4, <3>1, <3>2
  <2>6. Full' <=> Full
    BY <1>2 DEF Leaves, Full
  <2> QED
    BY <1>1, <1>3, <2>1, <2>2, <2>3, <2>5, <2>6 DEF DeviceOK, Framed
<1>11. /\ ctl'.op \in Early => ctl.op \in Early
       /\ ctl'.op # "product"
  BY <1>7, <1>8, <1>5 DEF Early, RestoreOps, Setup
<1>12. TypeOK'
  BY <1>2, <1>4 DEF TestInv, TypeOK, ControllerTypes, Framed, Leaves
<1>13. ControlOK'
  <2>1. "op" \in Pcs(ctl'.op)
    BY DEF Pcs, PhasePcs
  <2> QED
    BY <1>2, <1>4, <1>6, <2>1 DEF ControlOK, Leaves
<1>14. ChildOK' /\ RequestOK' /\ ProductOK'
  BY <1>2, <1>3, <1>4, <1>11, CalmChild, CalmRequests, CalmProduct DEF Leaves
<1>15. DeliveryOK'
  BY <1>3, CalmDelivery DEF Framed
<1> QED
  BY <1>10, <1>12, <1>13, <1>14, <1>15 DEF TestInv, ControllerInv

LEMMA LeaveKeeps ==
  ASSUME TestInv, Settled, Leave, UNCHANGED dl, Alters({"after", "fail", "result"}), ctl.pc \in {"op", "ret"},
         ctl.op \notin {"restore-close", "result", "close", "collect", "retire"},
         /\ ctl.op \in Retiring \cup Finishing \cup {"swift-ui", "swift-finish", "sim-record", "swift-close"}
         /\ world.by = "own"
         => c'.unknown
  PROVE  TestInv'
<1>1. ctl \in ControlRecord /\ KeysOK
  BY DEF TestInv, TypeOK, ControllerTypes, ControllerInv
<1>2. Leaves
  BY <1>1, LeavesFor
<1>3. c'.central = c.central /\ c'.attempted = c.attempted /\ c'.encrypted = c.encrypted
  BY AltersKeeps DEF Core
<1>4. ctl.mode \in {"restore", "main", "final"}
  BY <1>1 DEF ControlRecord
<1>5. ctl'.op \notin Bundle \cup Exporting /\ (ctl.mode = "final" => ctl'.mode = "final") /\ (ctl'.mode # "final" => ctl.mode # "final")
  BY <1>2, <1>4, FinalAfterOps DEF Leaves, Bundle, Exporting
<1>6. KeysOK'
  BY <1>1, <1>3, <1>5 DEF KeysOK, Settled
<1>7. Alters({"central", "after", "fail", "result"})
  BY AltersMore
<1> QED
  BY <1>6, <1>7, SettledFramed, LeaveAny

\* The ways in which an operation is refused or fails.
Fails ==
  /\ Settled /\ Leave
  /\ \/ c' = [c EXCEPT !.errors = TRUE]
     \/ \E u \in BOOLEAN : c' = [c EXCEPT !.errors = TRUE, !.unknown = @ \/ u]
     \/ \E fin \in BOOLEAN : c' = [c EXCEPT !.errors = TRUE, !.exhausted = Marked(fin)]

LEMMA FailsAlters ==
  ASSUME TestInv, Fails
  PROVE  Alters({})
<1>1. c \in ControllerRecord
  BY DEF TestInv, TypeOK, ControllerTypes
<1>2. ASSUME c' = [c EXCEPT !.errors = TRUE] PROVE Alters({})
  BY <1>1, <1>2, AltersErrors
<1>3. ASSUME NEW u \in BOOLEAN, c' = [c EXCEPT !.errors = TRUE, !.unknown = @ \/ u] PROVE Alters({})
  <2>1. (c.unknown \/ u) \in BOOLEAN
    OBVIOUS
  <2> QED
    BY <1>1, <1>3, <2>1, AltersUnknown
<1>4. ASSUME NEW fin \in BOOLEAN, c' = [c EXCEPT !.errors = TRUE, !.exhausted = Marked(fin)] PROVE Alters({})
  BY <1>1, <1>4, MarkedType, AltersExhausted
<1> QED
  BY <1>2, <1>3, <1>4 DEF Fails

Unleaving == {"restore-close", "result", "close", "collect", "retire", "swift-ui", "swift-finish", "sim-record",
              "swift-close"} \cup Retiring \cup Finishing

LEMMA FailsKeeps ==
  ASSUME TestInv, Fails, UNCHANGED dl, ctl.pc \in {"op", "ret"}, ctl.op \notin Unleaving
  PROVE  TestInv'
<1>1. Alters({"after", "fail", "result"})
  BY FailsAlters, AltersMore
<1> QED
  BY <1>1, LeaveKeeps DEF Fails, Unleaving

\* The next operation, and what the device asks of it.
LEMMA GoesKeeps ==
  ASSUME TestInv, Settled, UNCHANGED dl, NEW o \in ModeOps(ctl.mode), Goto(o), ctl.pc \in {"op", "ret"},
         NEW F, Alters(F), F \cap {"active", "exit", "central", "encrypted"} = {},
         "central" \in c'.attempted <=> "central" \in c.attempted,
         o \in Early => ctl.op \in Early, o = "product" => ctl.op \in Early,
         o \in Bundle => ctl.op \in Bundle, o \in Exporting => ctl.op \in Exporting,
         o \in Early \cup {"product", "authority"} => c'.attempted = {},
         o \in {"seed", "seed-receipt", "custody-prepare", "sim-prelaunch", "product", "authority"} /\ Full => c'.selected,
         o \in Finishing => ~c'.after,
         world.by = "own" => o \notin Early /\ Pending'
  PROVE  TestInv'
<1>1. ctl \in ControlRecord /\ DeviceOK
  BY DEF TestInv, TypeOK, ControllerTypes, ControllerInv
<1>2. o \in RestoreOps \cup MainOps \cup FinalOps
  BY DEF ModeOps
<1>3. Goes(o)
  BY <1>1, <1>2, GoesTo
<1>4. Full' <=> Full
  BY <1>3 DEF Goes, Full
<1>5. DeviceOK'
  BY <1>1, <1>3, <1>4 DEF DeviceOK, Settled, Goes
<1> QED
  BY <1>3, <1>5, MovesOn DEF Goes

\* Within the restore or the setup.
LEMMA EarlyGoes ==
  ASSUME TestInv, Settled, UNCHANGED dl, NEW o \in ModeOps(ctl.mode), Goto(o), ctl.pc \in {"op", "ret"},
         ctl.op \in Early, o \in Early \cup {"product"}, Alters({"selected"}),
         o \in {"seed", "seed-receipt", "custody-prepare", "sim-prelaunch", "product"} /\ Full => c'.selected
  PROVE  TestInv'
<1>1. DeviceOK
  BY DEF TestInv, ControllerInv
<1>2. c'.attempted = c.attempted
  BY AltersKeeps DEF Core
<1>3. c.attempted = {} /\ world.by # "own"
  BY <1>1 DEF DeviceOK
<1>4. o \notin Bundle \cup Exporting \cup Finishing \cup {"authority"}
  BY DEF Bundle, Exporting, Finishing, Early, RestoreOps, Setup
<1>5. {"selected"} \cap {"active", "exit", "central", "encrypted"} = {}
  OBVIOUS
<1> QED
  BY <1>2, <1>3, <1>4, <1>5, GoesKeeps

\* The operations during which no device of the controller may run.
Calm == {"barrier", "abi", "abi-generated", "abi-references", "abi-inputs", "abi-record", "supplement", "lock-policy",
         "swift", "swift-prelaunch", "swift-results", "central", "package", "sample-packaging", "freeze", "result"}
        \cup Exporting

LEMMA CalmUnknown ==
  ASSUME TestInv, ctl.op \in Calm \cup Bundle, world.by = "own"
  PROVE  c.unknown
<1>1. DeviceOK
  BY DEF TestInv, ControllerInv
<1>2. ctl.op \notin {"product", "authority", "collect", "custody-collect", "custody-uninstall", "retire",
                     "sim-record", "swift-close", "swift-ui", "swift-finish"} \cup Retiring \cup Finishing
  BY DEF Calm, Exporting, Retiring, Finishing, Bundle
<1> QED
  BY <1>1, <1>2 DEF DeviceOK, Pending

LEMMA CalmGoes ==
  ASSUME TestInv, Settled, UNCHANGED dl, NEW o \in ModeOps(ctl.mode), Goto(o), ctl.pc \in {"op", "ret"},
         ctl.op \in Calm, o \in Calm \cup {"swift-ui"}, o \in Exporting => ctl.op \in Exporting,
         Alters({"attempted"}), "central" \in c'.attempted <=> "central" \in c.attempted
  PROVE  TestInv'
<1>1. o \notin Early \cup {"product", "authority", "seed", "seed-receipt", "custody-prepare", "sim-prelaunch"}
               \cup Bundle \cup Finishing
  BY DEF Calm, Early, RestoreOps, Setup, Bundle, Finishing, Exporting
<1>2. world.by = "own" => Pending'
  BY CalmUnknown DEF Pending, Alters
<1>3. {"attempted"} \cap {"active", "exit", "central", "encrypted"} = {}
  OBVIOUS
<1> QED
  BY <1>1, <1>2, <1>3, GoesKeeps

-----------------------------------------------------------------------------
(* The restore and the setup.                                                 *)

Selecting == {"seed", "seed-receipt", "custody-prepare", "sim-prelaunch", "product"}

\* An early operation fails, or goes on to o.
LEMMA EarlyStep ==
  ASSUME TestInv, UNCHANGED dl, ctl.op \in Early \ {"restore-close"}, ctl.pc \in {"op", "ret"},
         NEW o \in Early \cup {"product"}, o \in ModeOps(ctl.mode),
         \/ Fails
         \/ Settled /\ Goto(o) /\ Alters({"selected"}) /\ (o \in Selecting /\ Full => c'.selected)
  PROVE  TestInv'
<1>1. ctl.op \notin Unleaving
  BY DEF Early, RestoreOps, Setup, Unleaving, Retiring, Finishing
<1>2. CASE Fails
  BY <1>1, <1>2, FailsKeeps
<1>3. CASE Settled /\ Goto(o) /\ Alters({"selected"}) /\ (o \in Selecting /\ Full => c'.selected)
  BY <1>3, EarlyGoes DEF Selecting
<1> QED
  BY <1>2, <1>3

LEMMA ModeOf ==
  ASSUME TestInv
  PROVE  /\ ctl.op \in RestoreOps => ctl.mode = "restore"
         /\ ctl.op \in Setup \cup {"product", "authority"} \cup Supplements => ctl.mode = "main"
         /\ ctl.op \in Exporting \cup {"freeze", "result", "close"} => ctl.mode = "final"
         /\ ctl.op \in Primary => ctl.mode \in {"main", "final"}
<1>1. ctl.mode \in {"restore", "main", "final"} /\ ctl.op \in ModeOps(ctl.mode)
  BY DEF TestInv, TypeOK, ControllerTypes, ControlRecord, ControllerInv, ControlOK
<1>2. RestoreOps \cap (MainOps \cup FinalOps) = {}
  BY DEF RestoreOps, MainOps, FinalOps, Setup, Primary, Supplements, Exporting, Retiring, Finishing, Bundle
<1>3. (Setup \cup {"product", "authority"} \cup Supplements) \cap (RestoreOps \cup FinalOps) = {}
  BY DEF RestoreOps, FinalOps, Setup, Primary, Supplements, Exporting, Retiring, Finishing, Bundle
<1>4. (Exporting \cup {"freeze", "result", "close"}) \cap (RestoreOps \cup MainOps) = {}
  BY DEF RestoreOps, MainOps, Setup, Primary, Supplements, Exporting, Retiring, Finishing, Bundle
<1>5. ctl.op \in Primary => ctl.op \notin RestoreOps
  BY <1>2 DEF FinalOps
<1> QED
  BY <1>1, <1>2, <1>3, <1>4, <1>5 DEF ModeOps

LEMMA SameController ==
  ASSUME TestInv, UNCHANGED c, NEW F
  PROVE  Alters(F)
BY DEF Alters, TestInv, TypeOK, ControllerTypes

\* The steps of the restore that run no native child.
LEMMA RestoreKeeps ==
  ASSUME TestInv, UNCHANGED dl,
         Identity \/ JobTimeReturn \/ Plan \/ Episode \/ ServiceReturn \/ Readback \/ Accept
  PROVE  TestInv'
<1> DEFINE From(p, o) == /\ ctl.op = p /\ ctl.pc \in {"op", "ret"} /\ p \in RestoreOps \ {"restore-close"} /\ o \in RestoreOps
                         /\ (Fails \/ (Settled /\ Goto(o) /\ UNCHANGED c))
<1>1. ASSUME NEW p, NEW o, From(p, o) PROVE TestInv'
  <2>1. /\ ctl.op \in Early \ {"restore-close"} /\ o \in Early /\ o \in ModeOps(ctl.mode) /\ o \notin Selecting
    BY <1>1, ModeOf DEF Early, ModeOps, Selecting, RestoreOps
  <2>2. UNCHANGED c => Alters({"selected"})
    BY SameController
  <2> QED
    BY <1>1, <2>1, <2>2, EarlyStep
<1>2. CASE Identity
  <2>1. From("identity", "job-time")
    BY <1>2 DEF Identity, Op, Fails, Settled, OpFrame, RestoreOps
  <2> QED
    BY <1>1, <2>1
<1>3. CASE JobTimeReturn
  <2>1. From("job-time", "plan")
    BY <1>3 DEF JobTimeReturn, Fails, Settled, OpFrame, RestoreOps
  <2> QED
    BY <1>1, <2>1
<1>4. CASE Plan
  <2>1. From("plan", "episode")
    BY <1>4 DEF Plan, Op, Fails, Settled, OpFrame, RestoreOps
  <2> QED
    BY <1>1, <2>1
<1>5. CASE Episode
  <2>1. From("episode", "service")
    BY <1>5 DEF Episode, Op, Fails, Settled, OpFrame, RestoreOps
  <2> QED
    BY <1>1, <2>1
<1>6. CASE ServiceReturn
  <2> DEFINE ok == ~ph.raised /\ Check(FALSE)
  <2>1. ASSUME NEW u \in BOOLEAN, c' = [c EXCEPT !.errors = TRUE, !.unknown = @ \/ (u /\ ok)]
        PROVE  \E v \in BOOLEAN : c' = [c EXCEPT !.errors = TRUE, !.unknown = @ \/ v]
    <3>1. (u /\ ok) \in BOOLEAN
      OBVIOUS
    <3> QED
      BY <2>1, <3>1
  <2>2. From("service", "readback")
    BY <1>6, <2>1 DEF ServiceReturn, Fails, Settled, OpFrame, RestoreOps
  <2> QED
    BY <1>1, <2>2
<1>7. CASE Readback
  <2>1. From("readback", "accept")
    BY <1>7 DEF Readback, Op, Fails, Settled, OpFrame, RestoreOps
  <2> QED
    BY <1>1, <2>1
<1>8. CASE Accept
  <2>1. From("accept", "restore-close")
    BY <1>8 DEF Accept, Op, Fails, Settled, OpFrame, RestoreOps
  <2> QED
    BY <1>1, <2>1
<1> QED
  BY <1>2, <1>3, <1>4, <1>5, <1>6, <1>7, <1>8

\* The process ends, or the run begins.
LEMMA RestoreCloseKeeps ==
  ASSUME TestInv, UNCHANGED dl, RestoreClose
  PROVE  TestInv'
<1>1. /\ ctl.op = "restore-close" /\ ctl.pc = "op" /\ Settled
      /\ \/ UNCHANGED c /\ ctl' = [ctl EXCEPT !.mode = "main", !.op = "adopt"]
         \/ c' = [c EXCEPT !.exit = "hold"] /\ ctl' = [ctl EXCEPT !.pc = "done"]
  BY DEF RestoreClose, Settled, OpFrame
<1>2. ctl \in ControlRecord /\ c \in ControllerRecord /\ ControlOK /\ KeysOK /\ DeviceOK
  BY DEF TestInv, TypeOK, ControllerTypes, ControllerInv
<1>3. ctl.op \in Early /\ ctl.mode = "restore"
  BY <1>1, ModeOf DEF Early, RestoreOps
<1>4. c.attempted = {} /\ world.by # "own"
  BY <1>2, <1>3 DEF DeviceOK
<1>5. CASE UNCHANGED c /\ ctl' = [ctl EXCEPT !.mode = "main", !.op = "adopt"]
  <2>1. /\ ctl' \in ControlRecord /\ ctl'.pc = "op" /\ ctl'.mode = "main" /\ ctl'.op = "adopt"
    BY <1>1, <1>2, <1>5 DEF ControlRecord, MainOps, Setup
  <2>2. /\ ctl'.op \in ModeOps(ctl'.mode) /\ ctl'.op \in Early
        /\ ctl'.op \notin Bundle \cup Exporting \cup Finishing \cup {"product", "seed", "seed-receipt", "custody-prepare",
                                                                     "sim-prelaunch", "authority"}
    BY <2>1 DEF ModeOps, MainOps, Setup, Early, Bundle, Exporting, Finishing
  <2>3. DeviceOK'
    BY <1>1, <1>2, <1>4, <1>5, <2>2 DEF DeviceOK, Settled
  <2>4. Alters({})
    BY <1>5, SameController
  <2> QED
    BY <1>1, <1>3, <1>5, <2>1, <2>2, <2>3, <2>4, MovesOn
<1>6. CASE c' = [c EXCEPT !.exit = "hold"] /\ ctl' = [ctl EXCEPT !.pc = "done"]
  <2>1. /\ ctl' \in ControlRecord /\ ctl'.pc = "done" /\ ctl'.mode = ctl.mode /\ ctl'.op = ctl.op
        /\ ctl'.profile = ctl.profile
    BY <1>2, <1>6 DEF ControlRecord
  <2>2. /\ c' \in ControllerRecord /\ c'.exit = "hold" /\ c'.unknown = c.unknown /\ c'.exhausted = c.exhausted
        /\ \A f \in Core \ {"exit"} : c'[f] = c[f]
    BY <1>2, <1>6 DEF ControllerRecord, Core
  <2>3. /\ c'.active = c.active /\ c'.central = c.central /\ c'.encrypted = c.encrypted /\ c'.attempted = c.attempted
        /\ c'.selected = c.selected /\ c'.after = c.after
    BY <2>2 DEF Core
  <2>4. TypeOK'
    BY <1>1, <2>1, <2>2 DEF TestInv, TypeOK, ControllerTypes, Settled
  <2>5. ControlOK'
    BY <1>1, <1>2, <2>1, <2>2 DEF ControlOK, Pcs, Labels, Finalizing, Canonical, Preparing
  <2>6. ChildOK' /\ RequestOK' /\ ProductOK'
    BY <1>1, <2>1, <2>2, <2>3, SettledFramed, CalmChild, CalmRequests, CalmProduct
  <2>7. KeysOK'
    BY <1>1, <1>2, <2>1, <2>3 DEF KeysOK, Settled
  <2>8. DeviceOK'
    BY <1>1, <1>2, <1>4, <2>1, <2>3 DEF DeviceOK, Settled, Full
  <2>9. c.exit = "none"
    BY <1>1, <1>2 DEF ControlOK
  <2>10. DeliveryOK'
    BY <1>1, <2>9, CalmDelivery DEF Settled
  <2> QED
    BY <2>4, <2>5, <2>6, <2>7, <2>8, <2>10 DEF TestInv, ControllerInv
<1> QED
  BY <1>1, <1>5, <1>6

\* The setup: adoption, recipient, audit owner, simulator, seed, custody.
LEMMA SetupKeeps ==
  ASSUME TestInv, UNCHANGED dl,
         \/ Adopt \/ SeedIntent \/ Seed \/ SeedReceipt
         \/ ValidateReturn \/ InitReturn \/ SimPrepareReturn \/ PrepareReturn \/ PrelaunchReturn
  PROVE  TestInv'
<1> DEFINE From(p, o) == /\ ctl.op = p /\ ctl.pc \in {"op", "ret"} /\ p \in Setup /\ o \in Setup \cup {"product"}
                         /\ (Fails \/ (Settled /\ Goto(o) /\ Alters({"selected"}) /\ (o \in Selecting /\ Full => c'.selected)))
<1>1. ASSUME NEW p, NEW o, From(p, o) PROVE TestInv'
  <2>1. /\ ctl.op \in Early \ {"restore-close"} /\ o \in Early \cup {"product"} /\ o \in ModeOps(ctl.mode)
    BY <1>1, ModeOf DEF Early, ModeOps, MainOps, Setup
  <2> QED
    BY <1>1, <2>1, EarlyStep
<1>2. c \in ControllerRecord /\ ph \in PhaseRecord /\ DeviceOK
  BY DEF TestInv, TypeOK, ControllerTypes, ControllerInv
<1>3. UNCHANGED c => Alters({"selected"}) /\ c'.selected = c.selected
  BY SameController
<1>4. ctl.op \in Selecting /\ Full => c.selected
  BY <1>2 DEF DeviceOK, Selecting
<1>5. CASE Adopt
  <2>1. From("adopt", "seed-intent")
    BY <1>3, <1>5 DEF Adopt, Op, Fails, Settled, OpFrame, Setup, Selecting
  <2> QED
    BY <1>1, <2>1
<1>6. CASE SeedIntent
  <2>1. From("seed-intent", "recipient-validation")
    BY <1>3, <1>6 DEF SeedIntent, Op, Fails, Settled, OpFrame, Setup, Selecting
  <2> QED
    BY <1>1, <2>1
<1>7. CASE Seed
  <2>1. From("seed", "seed-receipt")
    BY <1>3, <1>4, <1>7 DEF Seed, Op, Fails, Settled, OpFrame, Setup, Selecting
  <2> QED
    BY <1>1, <2>1
<1>8. CASE SeedReceipt
  <2>1. ASSUME c' = [c EXCEPT !.seeded = TRUE] PROVE Alters({"selected"}) /\ c'.selected = c.selected
    BY <1>2, <2>1 DEF Alters, ControllerRecord, Core
  <2>2. From("seed-receipt", "custody-prepare")
    BY <1>4, <1>8, <2>1 DEF SeedReceipt, Op, Fails, Settled, OpFrame, Setup, Selecting
  <2> QED
    BY <1>1, <2>2
<1>9. CASE ValidateReturn
  <2>1. ph.launched \in BOOLEAN
    BY <1>2 DEF PhaseRecord
  <2>2. ASSUME c' = [c EXCEPT !.recipient = TRUE] PROVE Alters({"selected"})
    BY <1>2, <2>2 DEF Alters, ControllerRecord, Core
  <2>3. From("recipient-validation", "audit-init")
    BY <1>9, <2>1, <2>2 DEF ValidateReturn, AfterCrypto, Returned, Fails, Settled, OpFrame, Setup, Selecting
  <2> QED
    BY <1>1, <2>3
<1>10. CASE InitReturn
  <2>1. CASE Full
    <3>1. From("audit-init", "sim-prepare")
      BY <1>3, <1>10, <2>1 DEF InitReturn, After, Returned, Fails, Settled, OpFrame, Setup, Selecting
    <3> QED
      BY <1>1, <3>1
  <2>2. CASE ~Full
    <3>1. From("audit-init", "seed")
      BY <1>3, <1>10, <2>2 DEF InitReturn, After, Returned, Fails, Settled, OpFrame, Setup, Selecting
    <3> QED
      BY <1>1, <3>1
  <2> QED
    BY <2>1, <2>2
<1>11. CASE SimPrepareReturn
  <2>1. ASSUME c' = [c EXCEPT !.selected = TRUE] PROVE Alters({"selected"}) /\ c'.selected
    BY <1>2, <2>1 DEF Alters, ControllerRecord, Core
  <2>2. From("sim-prepare", "seed")
    BY <1>11, <2>1 DEF SimPrepareReturn, After, Returned, Fails, Settled, OpFrame, Setup, Selecting
  <2> QED
    BY <1>1, <2>2
<1>12. CASE PrepareReturn
  <2>1. ASSUME c' = [c EXCEPT !.request = TRUE] PROVE Alters({"selected"}) /\ c'.selected = c.selected
    BY <1>2, <2>1 DEF Alters, ControllerRecord, Core
  <2>2. CASE Full
    <3>1. From("custody-prepare", "sim-prelaunch")
      BY <1>4, <1>12, <2>1, <2>2 DEF PrepareReturn, After, Returned, Fails, Settled, OpFrame, Setup, Selecting
    <3> QED
      BY <1>1, <3>1
  <2>3. CASE ~Full
    <3>1. From("custody-prepare", "product")
      BY <1>4, <1>12, <2>1, <2>3 DEF PrepareReturn, After, Returned, Fails, Settled, OpFrame, Setup, Selecting
    <3> QED
      BY <1>1, <3>1
  <2> QED
    BY <2>2, <2>3
<1>13. CASE PrelaunchReturn
  <2>1. From("sim-prelaunch", "product")
    BY <1>3, <1>4, <1>13 DEF PrelaunchReturn, After, Returned, Fails, Settled, OpFrame, Setup, Selecting
  <2> QED
    BY <1>1, <2>1
<1> QED
  BY <1>5, <1>6, <1>7, <1>8, <1>9, <1>10, <1>11, <1>12, <1>13

-----------------------------------------------------------------------------
(* The product, its authority and the collection.                             *)

\* A step after which the retirement of the device is still ahead.
LEMMA AheadGoes ==
  ASSUME TestInv, Settled, UNCHANGED dl, ctl.pc \in {"op", "ret"},
         ctl.op \in {"product", "authority", "collect", "custody-collect", "custody-uninstall"},
         NEW o \in {"authority", "collect", "custody-collect", "custody-uninstall", "retire"}, Goto(o),
         o = "authority" => ctl.op = "product", Alters({"attempted", "fail"}),
         c'.attempted \in {c.attempted, c.attempted \cup {"collect"}, c.attempted \cup {"uninstall"}},
         o = "authority" => c'.attempted = c.attempted
  PROVE  TestInv'
<1>1. DeviceOK /\ ctl.mode \in {"main", "final"} /\ (ctl.op \in {"product", "authority"} => ctl.mode = "main")
  BY ModeOf DEF TestInv, ControllerInv, Primary
<1>2. c'.selected = c.selected
  BY AltersKeeps DEF Core
<1>3. o \in ModeOps(ctl.mode)
  BY <1>1 DEF ModeOps, MainOps, FinalOps, Primary
<1>4. o \notin Early \cup Bundle \cup Exporting \cup Finishing \cup {"seed", "seed-receipt", "custody-prepare", "sim-prelaunch", "product"}
  BY DEF Early, RestoreOps, Setup, Bundle, Exporting, Finishing
<1>5. o = "authority" => c'.attempted = {} /\ (Full => c'.selected)
  BY <1>1, <1>2 DEF DeviceOK
<1>6. "central" \in c'.attempted <=> "central" \in c.attempted
  OBVIOUS
<1>7. world.by = "own" => Pending'
  <2>1. ASSUME world.by = "own", ~c.unknown PROVE c.selected /\ "retire" \notin c.attempted
    BY <1>1, <2>1 DEF DeviceOK, Pending, Retiring, Finishing
  <2>2. c.unknown => c'.unknown
    BY DEF Alters
  <2>3. ctl'.op = o
    BY GoesTo, <1>3 DEF Goes, ModeOps, TestInv, TypeOK, ControllerTypes
  <2> QED
    BY <1>2, <2>1, <2>2, <2>3 DEF Pending
<1>8. {"attempted", "fail"} \cap {"active", "exit", "central", "encrypted"} = {}
  OBVIOUS
<1> QED
  BY <1>3, <1>4, <1>5, <1>6, <1>7, <1>8, GoesKeeps

\* The authority is frozen whatever the product did; then the collection.
LEMMA ProductKeeps ==
  ASSUME TestInv, UNCHANGED dl, ProductReturned \/ Authority
  PROVE  TestInv'
<1>1. c \in ControllerRecord /\ c.created \in BOOLEAN /\ c.unknown \in BOOLEAN /\ c.errors \in BOOLEAN
  BY BooleanFields DEF TestInv, TypeOK, ControllerTypes
<1>2. {"product", "authority"} \cap Unleaving = {}
  BY DEF Unleaving, Retiring, Finishing
<1>3. CASE ProductReturned
  <2>1. ctl.op = "product" /\ ctl.pc = "ret" /\ Settled
    BY <1>3 DEF ProductReturned, Returned, Settled, OpFrame
  <2>2. \/ Goto("authority") /\ c' = [c EXCEPT !.fail = IF ph.raised THEN "product" ELSE "no"]
        \/ Leave /\ c' = [c EXCEPT !.errors = TRUE]
        \/ Goto("collect") /\ UNCHANGED c
    BY <1>3 DEF ProductReturned
  <2>3. ASSUME c' = [c EXCEPT !.fail = IF ph.raised THEN "product" ELSE "no"]
        PROVE  Alters({"attempted", "fail"}) /\ c'.attempted = c.attempted
    BY <1>1, <2>3 DEF Alters, ControllerRecord, Core
  <2>4. UNCHANGED c => Alters({"attempted", "fail"}) /\ c'.attempted = c.attempted
    BY SameController
  <2>5. Leave /\ c' = [c EXCEPT !.errors = TRUE] => Fails
    BY <2>1 DEF Fails
  <2> QED
    BY <1>2, <2>1, <2>2, <2>3, <2>4, <2>5, AheadGoes, FailsKeeps
<1>4. CASE Authority
  <2>1. ctl.op = "authority" /\ ctl.pc = "op" /\ Settled
    BY <1>4 DEF Authority, Settled, OpFrame
  <2>2. \/ /\ Goto("collect") \/ Leave
           /\ c' = [c EXCEPT !.authority = c.created, !.errors = @ \/ c.fail # "no"]
        \/ Fails
    BY <1>4, <2>1 DEF Authority, Fails
  <2>3. ASSUME c' = [c EXCEPT !.authority = c.created, !.errors = @ \/ c.fail # "no"]
        PROVE  Alters({}) /\ c'.attempted = c.attempted
    <3>1. (c.errors \/ c.fail # "no") \in BOOLEAN
      OBVIOUS
    <3> QED
      BY <1>1, <2>3, <3>1, ZenonT(40) DEF Alters, ControllerRecord, Core
  <2>4. Alters({}) => Alters({"attempted", "fail"}) /\ Alters({"after", "fail", "result"})
    BY AltersMore
  <2>5. ctl.op \notin Retiring \cup Finishing \cup {"swift-ui", "swift-finish", "sim-record", "swift-close"}
    BY <2>1 DEF Retiring, Finishing
  <2> QED
    BY <1>2, <2>1, <2>2, <2>3, <2>4, <2>5, AheadGoes, LeaveKeeps, FailsKeeps
<1> QED
  BY <1>3, <1>4

\* The operations that ask nothing but what becomes of the device.
Later == Retiring \cup Finishing \cup
  {"collect", "custody-collect", "custody-uninstall", "retire", "sim-record", "abi", "barrier", "package", "swift-finish",
   "swift-close", "swift-results", "close"}

LEMMA LaterGoes ==
  ASSUME TestInv, Settled, UNCHANGED dl, ctl.pc \in {"op", "ret"}, NEW o \in Later, o \in ModeOps(ctl.mode), Goto(o),
         Alters({"attempted", "after", "fail", "result"}), "central" \in c'.attempted <=> "central" \in c.attempted,
         o \in Finishing => ~c'.after, world.by = "own" => Pending'
  PROVE  TestInv'
<1>1. o \notin Early \cup Bundle \cup Exporting
               \cup {"seed", "seed-receipt", "custody-prepare", "sim-prelaunch", "product", "authority"}
  BY DEF Later, Early, RestoreOps, Setup, Bundle, Exporting, Finishing, Retiring
<1>2. {"attempted", "after", "fail", "result"} \cap {"active", "exit", "central", "encrypted"} = {}
  OBVIOUS
<1> QED
  BY <1>1, <1>2, GoesKeeps

LEMMA GoesOp ==
  ASSUME TestInv, NEW o \in ModeOps(ctl.mode), Goto(o)
  PROVE  ctl'.op = o /\ ctl'.mode = ctl.mode /\ (Full' <=> Full)
<1>1. o \in RestoreOps \cup MainOps \cup FinalOps
  BY DEF ModeOps
<1> QED
  BY <1>1, GoesTo DEF Goes, Full, TestInv, TypeOK, ControllerTypes

\* Where the collection leads; without a simulator there is none to retire.
LEMMA AfterCollectKeeps ==
  ASSUME TestInv, Settled, UNCHANGED dl, ctl.pc \in {"op", "ret"},
         ctl.op \in {"collect", "custody-collect", "custody-uninstall"}, Goto(AfterCollect), UNCHANGED c
  PROVE  TestInv'
<1>1. Alters({"attempted", "fail"}) /\ Alters({"attempted", "after", "fail", "result"}) /\ DeviceOK
  BY SameController DEF TestInv, ControllerInv
<1>2. ctl.mode \in {"main", "final"}
  BY ModeOf DEF Primary
<1>3. CASE AfterCollect = "retire"
  BY <1>1, <1>3, AheadGoes
<1>4. CASE AfterCollect = "package"
  <2>1. ctl.mode = "main" /\ ~Full
    BY <1>4 DEF AfterCollect
  <2>2. "package" \in ModeOps(ctl.mode) /\ "package" \in Later /\ "package" \notin Finishing
    BY <2>1 DEF ModeOps, MainOps, Supplements, Later, Finishing
  <2>3. world.by # "own"
    BY <1>1, <2>1 DEF DeviceOK
  <2> QED
    BY <1>1, <1>4, <2>2, <2>3, LaterGoes
<1> QED
  BY <1>3, <1>4 DEF AfterCollect

LEMMA CollectKeeps ==
  ASSUME TestInv, UNCHANGED dl, Collect \/ CollectReturn \/ UninstallReturn
  PROVE  TestInv'
<1>1. c \in ControllerRecord
  BY DEF TestInv, TypeOK, ControllerTypes
<1>2. {"custody-collect", "custody-uninstall"} \cap Unleaving = {}
  BY DEF Unleaving, Retiring, Finishing
<1>3. CASE Collect
  <2>1. ctl.op = "collect" /\ ctl.pc = "op" /\ Settled
    BY <1>3 DEF Collect, Settled, OpFrame
  <2>2. \/ Goto(AfterCollect) /\ UNCHANGED c
        \/ Goto("custody-collect") /\ c' = [c EXCEPT !.attempted = @ \cup {"collect"}]
        \/ Goto("custody-uninstall") /\ c' = [c EXCEPT !.attempted = @ \cup {"uninstall"}]
    BY <1>3 DEF Collect
  <2>3. ASSUME c' = [c EXCEPT !.attempted = @ \cup {"collect"}]
        PROVE  Alters({"attempted", "fail"}) /\ c'.attempted = c.attempted \cup {"collect"}
    BY <1>1, <2>3 DEF Alters, ControllerRecord, Core
  <2>4. ASSUME c' = [c EXCEPT !.attempted = @ \cup {"uninstall"}]
        PROVE  Alters({"attempted", "fail"}) /\ c'.attempted = c.attempted \cup {"uninstall"}
    BY <1>1, <2>4 DEF Alters, ControllerRecord, Core
  <2> QED
    BY <2>1, <2>2, <2>3, <2>4, AheadGoes, AfterCollectKeeps
<1>4. CASE CollectReturn
  <2> DEFINE result == IF ph.code = "zero" /\ world.product \in {"passed", "late"} THEN "RETAINED" ELSE "FAILED"
  <2>1. ctl.op = "custody-collect" /\ ctl.pc = "ret" /\ Settled
    BY <1>4 DEF CollectReturn, Returned, Settled, OpFrame
  <2>2. \/ Goto("custody-uninstall") /\ c' = [c EXCEPT !.attempted = @ \cup {"uninstall"}, !.custody = result]
        \/ Leave /\ \E u \in BOOLEAN, v \in {"none", result} :
                       c' = [c EXCEPT !.errors = TRUE, !.unknown = @ \/ u, !.custody = v]
        \/ Leave /\ c' = [c EXCEPT !.errors = TRUE]
    BY <1>4 DEF CollectReturn
  <2> HIDE DEF result
  <2>10. result \in {"RETAINED", "FAILED"}
    BY DEF result
  <2>3. ASSUME c' = [c EXCEPT !.attempted = @ \cup {"uninstall"}, !.custody = result]
        PROVE  Alters({"attempted", "fail"}) /\ c'.attempted = c.attempted \cup {"uninstall"}
    BY <1>1, <2>3, <2>10 DEF Alters, ControllerRecord, Core
  <2>4. ASSUME NEW u \in BOOLEAN, NEW v \in {"none", result},
               c' = [c EXCEPT !.errors = TRUE, !.unknown = @ \/ u, !.custody = v]
        PROVE  Alters({"after", "fail", "result"})
    <3>1. (c.unknown \/ u) \in BOOLEAN /\ v \in {"none", "RETAINED", "FAILED"}
      BY <2>10
    <3>2. c' \in ControllerRecord
      BY <1>1, <2>4, <3>1, ZenonT(40) DEF ControllerRecord
    <3>3. /\ c'.unknown = (c.unknown \/ u) /\ c'.exhausted = c.exhausted
          /\ \A f \in Core : c'[f] = c[f]
      BY <1>1, <2>4, <3>1 DEF ControllerRecord, Core
    <3>4. Alters({})
      BY <3>2, <3>3 DEF Alters
    <3> QED
      BY <3>4, AltersMore
  <2>5. ASSUME c' = [c EXCEPT !.errors = TRUE]
        PROVE  Alters({"after", "fail", "result"})
    <3>1. Alters({})
      BY <1>1, <2>5, AltersErrors
    <3> QED
      BY <3>1, AltersMore
  <2>6. Leave /\ Alters({"after", "fail", "result"}) => TestInv'
    BY <1>2, <2>1, LeaveKeeps DEF Unleaving
  <2>7. Goto("custody-uninstall") /\ Alters({"attempted", "fail"}) /\ c'.attempted = c.attempted \cup {"uninstall"} => TestInv'
    BY <2>1, AheadGoes
  <2> QED
    BY <2>2, <2>3, <2>4, <2>5, <2>6, <2>7
<1>5. CASE UninstallReturn
  <2>1. /\ ctl.op = "custody-uninstall" /\ ctl.pc = "ret" /\ Settled
        /\ Fails \/ (Goto(AfterCollect) /\ UNCHANGED c)
    BY <1>5 DEF UninstallReturn, After, Returned, Fails, Settled, OpFrame
  <2> QED
    BY <1>2, <2>1, FailsKeeps, AfterCollectKeeps
<1> QED
  BY <1>3, <1>4, <1>5

-----------------------------------------------------------------------------
(* The two retirements of the device.                                         *)

LEMMA AfterRetireOp ==
  ASSUME TestInv, ctl.op \in {"retire", "sim-record"}
  PROVE  AfterRetire \in Later /\ AfterRetire \in ModeOps(ctl.mode) /\ AfterRetire \notin Finishing
BY ModeOf DEF AfterRetire, Later, ModeOps, MainOps, FinalOps, Primary, Supplements, Finishing

LEMMA AltersFailed ==
  ASSUME c \in ControllerRecord, c' = Failed
  PROVE  /\ Alters({"attempted", "after", "fail", "result"}) /\ c'.fail = "finish" /\ c'.after = c.after
         /\ c'.attempted = c.attempted /\ c'.unknown = c.unknown
BY ZenonT(40) DEF Failed, Alters, ControllerRecord, Core

LEMMA RetireKeeps ==
  ASSUME TestInv, UNCHANGED dl, Retire
  PROVE  TestInv'
<1>1. c \in ControllerRecord /\ DeviceOK
  BY DEF TestInv, TypeOK, ControllerTypes, ControllerInv
<1>2. ctl.op = "retire" /\ ctl.pc = "op" /\ Settled
  BY DEF Retire, Settled, OpFrame
<1>3. CASE (~Full \/ ~c.selected \/ "retire" \in c.attempted) /\ Goto(AfterRetire) /\ UNCHANGED c
  <2>1. world.by = "own" => c.unknown
    BY <1>1, <1>2, <1>3 DEF DeviceOK, Pending, Retiring, Finishing
  <2>2. world.by = "own" => Pending'
    BY <1>3, <2>1 DEF Pending
  <2>3. Alters({"attempted", "after", "fail", "result"})
    BY <1>3, SameController
  <2> QED
    BY <1>2, <1>3, <2>2, <2>3, AfterRetireOp, LaterGoes
<1>4. ASSUME NEW k, k = [c EXCEPT !.attempted = @ \cup {"retire"}, !.terminal = "HOLD", !.after = FALSE],
             Goto("sim-before"),
             \/ c' = [k EXCEPT !.fail = IF Check(TRUE) THEN "no" ELSE "finish", !.errors = @ \/ ~Check(TRUE)]
             \/ \E u \in BOOLEAN : c' = [k EXCEPT !.fail = "finish", !.errors = TRUE, !.unknown = @ \/ u]
      PROVE  TestInv'
  <2>1. /\ k \in ControllerRecord /\ k.unknown = c.unknown /\ k.exhausted = c.exhausted
        /\ k.attempted = c.attempted \cup {"retire"}
        /\ \A f \in Core \ {"attempted", "after"} : k[f] = c[f]
    BY <1>1, <1>4, ZenonT(40) DEF ControllerRecord, Core
  <2>2. ASSUME NEW x \in {"no", "finish"}, NEW b \in BOOLEAN, c' = [k EXCEPT !.fail = x, !.errors = b]
        PROVE  Alters({"attempted", "after", "fail", "result"}) /\ c'.attempted = k.attempted
    BY <2>1, <2>2, ZenonT(40) DEF Alters, ControllerRecord, Core
  <2>3. ASSUME c' = [k EXCEPT !.fail = IF Check(TRUE) THEN "no" ELSE "finish", !.errors = @ \/ ~Check(TRUE)]
        PROVE  Alters({"attempted", "after", "fail", "result"}) /\ c'.attempted = k.attempted
    <3>1. (k.errors \/ ~Check(TRUE)) \in BOOLEAN /\ (IF Check(TRUE) THEN "no" ELSE "finish") \in {"no", "finish"}
      OBVIOUS
    <3> QED
      BY <2>2, <2>3, <3>1
  <2>4. ASSUME NEW u \in BOOLEAN, c' = [k EXCEPT !.fail = "finish", !.errors = TRUE, !.unknown = @ \/ u]
        PROVE  Alters({"attempted", "after", "fail", "result"}) /\ c'.attempted = k.attempted
    <3>1. (k.unknown \/ u) \in BOOLEAN
      OBVIOUS
    <3> QED
      BY <2>1, <2>4, <3>1, ZenonT(40) DEF Alters, ControllerRecord, Core
  <2>5. Alters({"attempted", "after", "fail", "result"}) /\ c'.attempted = c.attempted \cup {"retire"}
    BY <1>4, <2>1, <2>3, <2>4
  <2>6. "sim-before" \in Later /\ "sim-before" \in ModeOps(ctl.mode) /\ "sim-before" \notin Finishing
    BY <1>2, ModeOf DEF Later, Retiring, ModeOps, MainOps, FinalOps, Primary, Finishing
  <2>7. Pending'
    BY <1>4, <2>6, GoesOp DEF Pending, Retiring
  <2> QED
    BY <1>2, <1>4, <2>5, <2>6, <2>7, LaterGoes
<1> QED
  BY <1>3, <1>4 DEF Retire

\* The operations of one retirement: b observes, s shuts down, a observes
\* again and r records.
Retirement(b, s, a, r) ==
  \/ {b, s, a} \subseteq Retiring /\ r = "sim-record"
  \/ {b, s, a} \subseteq Finishing /\ r = "swift-close"

LEMMA RetirementOps ==
  ASSUME TestInv, NEW b, NEW s, NEW a, NEW r, Retirement(b, s, a, r), ctl.op \in {b, s, a}
  PROVE  /\ {b, s, a, r} \subseteq Later /\ {b, s, a, r} \subseteq ModeOps(ctl.mode)
         /\ r \notin Finishing /\ (a \in Finishing => ctl.op \in Finishing) /\ (s \in Finishing => ctl.op \in Finishing)
         /\ {s, a} \subseteq Retiring \cup Finishing
         /\ r = "swift-close" => ctl.op \in Finishing
<1>1. CASE {b, s, a} \subseteq Retiring /\ r = "sim-record"
  <2>1. Retiring \cap Finishing = {} /\ Retiring \subseteq Primary /\ r \in Primary /\ r \notin Finishing
    BY <1>1 DEF Retiring, Finishing, Primary
  <2>2. ctl.mode \in {"main", "final"}
    BY <1>1, <2>1, ModeOf
  <2> QED
    BY <1>1, <2>1, <2>2 DEF Later, ModeOps, MainOps, FinalOps
<1>2. CASE {b, s, a} \subseteq Finishing /\ r = "swift-close"
  <2>1. Finishing \subseteq Supplements /\ r \in Supplements /\ r \notin Finishing
    BY <1>2 DEF Finishing, Supplements
  <2>2. ctl.mode = "main"
    BY <1>2, <2>1, ModeOf
  <2> QED
    BY <1>2, <2>1, <2>2 DEF Later, ModeOps, MainOps
<1> QED
  BY <1>1, <1>2 DEF Retirement

\* On to the next observation or the shutdown; past them with an unknown owner.
LEMMA InventoryKeeps ==
  ASSUME TestInv, Settled, UNCHANGED dl, ctl.pc = "ret", NEW b, NEW s, NEW a, NEW r, Retirement(b, s, a, r),
         ctl.op \in {b, s, a}, UNCHANGED c \/ c' = Failed, NEW o \in {s, a, r}, Goto(o), o = r => c.unknown
  PROVE  TestInv'
<1>1. c \in ControllerRecord /\ DeviceOK
  BY DEF TestInv, TypeOK, ControllerTypes, ControllerInv
<1>2. /\ Alters({"attempted", "after", "fail", "result"}) /\ c'.after = c.after /\ c'.attempted = c.attempted
      /\ c'.unknown = c.unknown
  BY <1>1, AltersFailed, SameController
<1>3. o \in Later /\ o \in ModeOps(ctl.mode) /\ (o # r => o \in Retiring \cup Finishing)
  BY RetirementOps
<1>4. o \in Finishing => ~c'.after
  <2>1. o \in Finishing => ctl.op \in Finishing
    BY RetirementOps
  <2> QED
    BY <1>1, <1>2, <2>1 DEF DeviceOK
<1>5. Pending'
  BY <1>2, <1>3, GoesOp DEF Pending
<1> QED
  BY <1>2, <1>3, <1>4, <1>5, LaterGoes

LEMMA BeforeKeeps ==
  ASSUME TestInv, UNCHANGED dl, NEW b, NEW s, NEW a, NEW r, Retirement(b, s, a, r), BeforeReturn(b, s, a, r)
  PROVE  TestInv'
<1>1. ctl.op = b /\ ctl.pc = "ret" /\ Settled
  BY DEF BeforeReturn, Returned, Settled, OpFrame
<1>2. /\ UNCHANGED c \/ c' = Failed
      /\ \/ Goto(a) \/ Goto(s)
         \/ Goto(r) /\ c.unknown
  BY DEF BeforeReturn, Inventory
<1>3. a # r /\ s # r
  BY DEF Retirement, Retiring, Finishing
<1> QED
  BY <1>1, <1>2, <1>3, InventoryKeeps

LEMMA ShutdownKeeps ==
  ASSUME TestInv, UNCHANGED dl, NEW b, NEW s, NEW a, NEW r, Retirement(b, s, a, r), ShutdownReturn(s, a, r)
  PROVE  TestInv'
<1>1. ctl.op = s /\ ctl.pc = "ret" /\ Settled
  BY DEF ShutdownReturn, Returned, Settled, OpFrame
<1>2. /\ UNCHANGED c \/ c' = Failed
      /\ \/ Goto(a)
         \/ Goto(r) /\ c.unknown
  BY DEF ShutdownReturn, Inventory
<1>3. a # r /\ s # r
  BY DEF Retirement, Retiring, Finishing
<1> QED
  BY <1>1, <1>2, <1>3, InventoryKeeps

\* The terminal inventory: the record may say that the device is shut down
\* only if the child has seen it.
LEMMA AfterKeeps ==
  ASSUME TestInv, UNCHANGED dl, NEW b, NEW s, NEW a, NEW r, Retirement(b, s, a, r), AfterReturn(a, r)
  PROVE  TestInv'
<1>1. c \in ControllerRecord /\ DeviceOK /\ ChildOK
  BY DEF TestInv, TypeOK, ControllerTypes, ControllerInv
<1>2. ctl.op = a /\ ctl.pc = "ret" /\ Settled /\ Goto(r)
  BY DEF AfterReturn, Returned, Settled, OpFrame
<1>3. \/ child.seen = "Shutdown" /\ c' = [c EXCEPT !.after = TRUE]
      \/ c' = Failed
  BY DEF AfterReturn
<1>4. /\ r \in Later /\ r \in ModeOps(ctl.mode) /\ r \notin Finishing
      /\ r = "swift-close" => ctl.op \in Finishing
  BY <1>2, RetirementOps
<1>5. ctl'.op = r
  BY <1>2, <1>4, GoesOp
<1>6. CASE child.seen = "Shutdown" /\ c' = [c EXCEPT !.after = TRUE]
  <2>1. Alters({"attempted", "after", "fail", "result"}) /\ c'.attempted = c.attempted
    BY <1>1, <1>6 DEF Alters, ControllerRecord, Core
  <2>2. world.by # "own"
    BY <1>1, <1>6 DEF ChildOK
  <2> QED
    BY <1>2, <1>4, <2>1, <2>2, LaterGoes
<1>7. CASE c' = Failed
  <2>1. /\ Alters({"attempted", "after", "fail", "result"}) /\ c'.attempted = c.attempted /\ c'.after = c.after
        /\ c'.fail = "finish"
    BY <1>1, <1>7, AltersFailed
  <2>2. r = "swift-close" => ~c'.after
    BY <1>1, <1>4, <2>1 DEF DeviceOK
  <2>3. Pending'
    BY <1>5, <2>1, <2>2 DEF Pending, Retirement
  <2> QED
    BY <1>2, <1>4, <2>1, <2>3, LaterGoes
<1> QED
  BY <1>3, <1>6, <1>7

LEMMA RetireRecordKeeps ==
  ASSUME TestInv, UNCHANGED dl, RetireRecord
  PROVE  TestInv'
<1>1. c \in ControllerRecord /\ DeviceOK
  BY DEF TestInv, TypeOK, ControllerTypes, ControllerInv
<1>2. ctl.op = "sim-record" /\ ctl.pc = "op" /\ Settled
  BY DEF RetireRecord, Settled, OpFrame
<1>3. \/ Leave /\ c' = [c EXCEPT !.unknown = TRUE, !.errors = TRUE]
      \/ c.fail = "no" /\ ~c.unknown /\ Goto(AfterRetire) /\ c' = [c EXCEPT !.terminal = "KNOWN"]
  BY DEF RetireRecord
<1>4. CASE Leave /\ c' = [c EXCEPT !.unknown = TRUE, !.errors = TRUE]
  <2>1. Alters({"after", "fail", "result"}) /\ c'.unknown
    BY <1>1, <1>4 DEF Alters, ControllerRecord, Core
  <2> QED
    BY <1>2, <1>4, <2>1, LeaveKeeps
<1>5. CASE c.fail = "no" /\ ~c.unknown /\ Goto(AfterRetire) /\ c' = [c EXCEPT !.terminal = "KNOWN"]
  <2>1. Alters({"attempted", "after", "fail", "result"}) /\ c'.attempted = c.attempted
    BY <1>1, <1>5 DEF Alters, ControllerRecord, Core
  <2>2. world.by # "own"
    BY <1>1, <1>2, <1>5 DEF DeviceOK, Pending, Retiring, Finishing
  <2> QED
    BY <1>2, <1>5, <2>1, <2>2, AfterRetireOp, LaterGoes
<1> QED
  BY <1>3, <1>4, <1>5

LEMMA RetireNextKeeps ==
  ASSUME TestInv, UNCHANGED dl, RetireNext
  PROVE  TestInv'
<1>1. Retirement("sim-before", "sim-shutdown", "sim-after", "sim-record")
  BY DEF Retirement, Retiring
<1> QED
  BY <1>1, RetireKeeps, BeforeKeeps, ShutdownKeeps, AfterKeeps, RetireRecordKeeps DEF RetireNext

-----------------------------------------------------------------------------
(* The barrier, the ABI and the supplements.                                  *)

\* A calm operation fails, or goes on to o.
LEMMA CalmStep ==
  ASSUME TestInv, UNCHANGED dl, ctl.op \in Calm \ {"result"}, ctl.pc \in {"op", "ret"}, NEW o \in Calm \cup {"swift-ui"},
         o \in ModeOps(ctl.mode), o \in Exporting => ctl.op \in Exporting,
         \/ Fails
         \/ Settled /\ Goto(o) /\ Alters({"attempted"}) /\ ("central" \in c'.attempted <=> "central" \in c.attempted)
  PROVE  TestInv'
<1>1. ctl.op \notin Unleaving
  BY DEF Calm, Unleaving, Exporting, Retiring, Finishing
<1>2. CASE Fails
  BY <1>1, <1>2, FailsKeeps
<1>3. CASE /\ Settled /\ Goto(o) /\ Alters({"attempted"})
           /\ "central" \in c'.attempted <=> "central" \in c.attempted
  BY <1>3, CalmGoes
<1> QED
  BY <1>2, <1>3

LEMMA CalmSame ==
  ASSUME TestInv, UNCHANGED c
  PROVE  Alters({"attempted"}) /\ ("central" \in c'.attempted <=> "central" \in c.attempted)
BY SameController

LEMMA AbiKeeps ==
  ASSUME TestInv, UNCHANGED dl, Barrier \/ AbiNext
  PROVE  TestInv'
<1> DEFINE Same == Alters({"attempted"}) /\ ("central" \in c'.attempted <=> "central" \in c.attempted)
           From(p, o) == /\ ctl.op = p /\ ctl.pc = "op" /\ p \in Calm \ {"result"} /\ o \in Calm \ Exporting
                         /\ o \in ModeOps(ctl.mode) /\ (Fails \/ (Settled /\ Goto(o) /\ Same))
<1>1. ASSUME NEW p, NEW o, From(p, o) PROVE TestInv'
  BY <1>1, CalmStep
<1>2. UNCHANGED c => Same
  BY CalmSame
<1>3. c \in ControllerRecord
  BY DEF TestInv, TypeOK, ControllerTypes
<1>4. /\ ctl.op \in Primary => {"abi", "abi-generated", "abi-references", "abi-inputs", "abi-record"} \subseteq ModeOps(ctl.mode)
      /\ ctl.op \in Primary => ctl.mode \in {"main", "final"}
      /\ ctl.mode = "main" => "supplement" \in ModeOps(ctl.mode)
      /\ ctl.mode = "final" => "freeze" \in ModeOps(ctl.mode)
  BY ModeOf DEF ModeOps, MainOps, FinalOps, Primary, Supplements
<1>5. {"abi", "abi-generated", "abi-references", "abi-inputs", "abi-record", "barrier", "supplement", "freeze"} \subseteq Calm \ (Exporting \cup {"result"})
  BY DEF Calm, Exporting
<1>6. {"abi", "abi-generated", "abi-references", "abi-inputs", "abi-record"} \subseteq Primary
  BY DEF Primary
<1> HIDE DEF Same
<1>7. CASE Barrier
  <2>1. /\ ctl.op = "barrier" /\ ctl.pc = "op" /\ (Fails \/ (Settled /\ Goto("abi") /\ UNCHANGED c))
    BY <1>7 DEF Barrier, Op, Fails, Settled, OpFrame
  <2>2. "abi" \in ModeOps(ctl.mode)
    BY <2>1, ModeOf DEF ModeOps, MainOps, Primary, Supplements
  <2>3. From("barrier", "abi")
    BY <1>2, <1>5, <2>1, <2>2
  <2> QED
    BY <1>1, <2>3
<1>8. CASE Abi
  <2>1. /\ ctl.op = "abi" /\ ctl.pc = "op" /\ Settled
        /\ \/ ctl.mode = "final" /\ Goto("freeze") /\ UNCHANGED c
           \/ Goto("abi-generated") /\ c' = [c EXCEPT !.attempted = @ \cup {"abi"}, !.abi = "HOLD"]
    BY <1>8 DEF Abi, Settled, OpFrame
  <2>2. ASSUME c' = [c EXCEPT !.attempted = @ \cup {"abi"}, !.abi = "HOLD"] PROVE Same
    BY <1>3, <2>2, ZenonT(40) DEF Alters, ControllerRecord, Core, Same
  <2>3. From("abi", "freeze") \/ From("abi", "abi-generated")
    BY <1>2, <1>4, <1>5, <1>6, <2>1, <2>2
  <2> QED
    BY <1>1, <2>3
<1>9. CASE AbiGenerated
  <2>1. /\ ctl.op = "abi-generated" /\ ctl.pc = "op" /\ (Fails \/ (Settled /\ Goto("abi-references") /\ UNCHANGED c))
    BY <1>9 DEF AbiGenerated, Op, Fails, Settled, OpFrame
  <2>2. From("abi-generated", "abi-references")
    BY <1>2, <1>4, <1>5, <1>6, <2>1
  <2> QED
    BY <1>1, <2>2
<1>10. CASE AbiReferences
  <2>1. /\ ctl.op = "abi-references" /\ ctl.pc = "op" /\ (Fails \/ (Settled /\ Goto("abi-inputs") /\ UNCHANGED c))
    BY <1>10 DEF AbiReferences, Op, Fails, Settled, OpFrame
  <2>2. From("abi-references", "abi-inputs")
    BY <1>2, <1>4, <1>5, <1>6, <2>1
  <2> QED
    BY <1>1, <2>2
<1>11. CASE AbiInputs
  <2>1. /\ ctl.op = "abi-inputs" /\ ctl.pc = "op" /\ (Fails \/ (Settled /\ Goto("abi-record") /\ UNCHANGED c))
    BY <1>11 DEF AbiInputs, Op, Fails, Settled, OpFrame
  <2>2. From("abi-inputs", "abi-record")
    BY <1>2, <1>4, <1>5, <1>6, <2>1
  <2> QED
    BY <1>1, <2>2
<1>12. CASE AbiRecord
  <2> DEFINE o == IF ctl.mode = "main" THEN "supplement" ELSE "freeze"
  <2>1. /\ ctl.op = "abi-record" /\ ctl.pc = "op" /\ (Fails \/ (Settled /\ Goto(o) /\ c' = [c EXCEPT !.abi = "PASS"]))
    BY <1>12 DEF AbiRecord, Op, Fails, Settled, OpFrame
  <2>2. ASSUME c' = [c EXCEPT !.abi = "PASS"] PROVE Same
    BY <1>3, <2>2, ZenonT(40) DEF Alters, ControllerRecord, Core, Same
  <2>3. o \in ModeOps(ctl.mode) /\ o \in Calm \ Exporting
    BY <1>4, <1>5, <1>6, <2>1
  <2>4. From("abi-record", o)
    BY <1>5, <2>1, <2>2, <2>3
  <2> QED
    BY <1>1, <2>4
<1> QED
  BY <1>7, <1>8, <1>9, <1>10, <1>11, <1>12 DEF AbiNext

LEMMA ScopeKeeps ==
  ASSUME TestInv, UNCHANGED dl, Supplement \/ LockPolicyReturn \/ Swift \/ SwiftPrelaunchReturn
  PROVE  TestInv'
<1> DEFINE Same == Alters({"attempted"}) /\ ("central" \in c'.attempted <=> "central" \in c.attempted)
           From(p, o) == /\ ctl.op = p /\ ctl.pc \in {"op", "ret"} /\ p \in Supplements /\ p \in Calm \ {"result"}
                         /\ o \in Supplements /\ o \in (Calm \ Exporting) \cup {"swift-ui"}
                         /\ (Fails \/ (Settled /\ Goto(o) /\ Same))
<1>1. ASSUME NEW p, NEW o, From(p, o) PROVE TestInv'
  <2>1. o \in ModeOps(ctl.mode) /\ o \notin Exporting
    BY <1>1, ModeOf DEF ModeOps, MainOps, Exporting
  <2> QED
    BY <1>1, <2>1, CalmStep
<1>2. UNCHANGED c => Same
  BY CalmSame
<1>3. c \in ControllerRecord
  BY DEF TestInv, TypeOK, ControllerTypes
<1>4. /\ {"supplement", "lock-policy", "swift", "swift-prelaunch"} \subseteq Supplements \cap (Calm \ (Exporting \cup {"result"}))
      /\ "swift-ui" \in Supplements
  BY DEF Supplements, Calm, Exporting
<1> HIDE DEF Same
<1>5. CASE Supplement
  <2>1. /\ ctl.op = "supplement" /\ ctl.pc = "op" /\ (Fails \/ (Settled /\ Goto("lock-policy") /\ UNCHANGED c))
    BY <1>5 DEF Supplement, NextScope, Op, Fails, Settled, OpFrame
  <2>2. From("supplement", "lock-policy")
    BY <1>2, <1>4, <2>1
  <2> QED
    BY <1>1, <2>2
<1>6. CASE LockPolicyReturn
  <2> DEFINE k == [c EXCEPT !.completed = @ \cup {"lock-policy"}]
  <2>1. /\ ctl.op = "lock-policy" /\ ctl.pc = "ret" /\ (Fails \/ (Settled /\ Goto("swift") /\ c' = k))
    BY <1>6 DEF LockPolicyReturn, After, Returned, Fails, Settled, OpFrame
  <2>2. ASSUME c' = k PROVE Same
    <3>1. c.completed \cup {"lock-policy"} \in SUBSET {"lock-policy", "swift-ui", "central-bundle"}
      BY <1>3 DEF ControllerRecord
    <3>2. Alters({"attempted"}) /\ c'.attempted = c.attempted
      BY <1>3, <2>2, <3>1 DEF Alters, ControllerRecord, Core
    <3> QED
      BY <3>2 DEF Same
  <2>3. From("lock-policy", "swift")
    BY <1>4, <2>1, <2>2
  <2> QED
    BY <1>1, <2>3
<1>7. CASE Swift
  <2> DEFINE k == [c EXCEPT !.authority = FALSE]
  <2>1. /\ ctl.op = "swift" /\ ctl.pc = "op" /\ (Fails \/ (Settled /\ Goto("swift-prelaunch") /\ c' = k))
    BY <1>7 DEF Swift, NextScope, Op, Fails, Settled, OpFrame
  <2>2. ASSUME c' = k PROVE Same
    <3>1. Alters({"attempted"}) /\ c'.attempted = c.attempted
      BY <1>3, <2>2, ZenonT(40) DEF Alters, ControllerRecord, Core
    <3> QED
      BY <3>1 DEF Same
  <2>3. From("swift", "swift-prelaunch")
    BY <1>4, <2>1, <2>2
  <2> QED
    BY <1>1, <2>3
<1>8. CASE SwiftPrelaunchReturn
  <2> DEFINE k == [c EXCEPT !.swift = "PENDING"]
  <2>1. /\ ctl.op = "swift-prelaunch" /\ ctl.pc = "ret" /\ (Fails \/ (Settled /\ Goto("swift-ui") /\ c' = k))
    BY <1>8 DEF SwiftPrelaunchReturn, After, Returned, Fails, Settled, OpFrame
  <2>2. ASSUME c' = k PROVE Same
    <3>1. Alters({"attempted"}) /\ c'.attempted = c.attempted
      BY <1>3, <2>2 DEF Alters, ControllerRecord, Core
    <3> QED
      BY <3>1 DEF Same
  <2>3. From("swift-prelaunch", "swift-ui")
    BY <1>4, <2>1, <2>2
  <2> QED
    BY <1>1, <2>3
<1> QED
  BY <1>5, <1>6, <1>7, <1>8

\* The Swift tests have returned; whatever they did, their device is retired.
LEMMA SwiftFinishKeeps ==
  ASSUME TestInv, UNCHANGED dl, SwiftReturn \/ SwiftFinish
  PROVE  TestInv'
<1>1. c \in ControllerRecord /\ ph \in PhaseRecord
  BY DEF TestInv, TypeOK, ControllerTypes
<1>2. CASE SwiftReturn
  <2>1. ctl.op = "swift-ui" /\ ctl.pc = "ret" /\ Settled /\ Goto("swift-finish")
    BY <1>2 DEF SwiftReturn, Returned, Settled, OpFrame
  <2>2. \E x \in {"no", "product"} : c' = [c EXCEPT !.fail = x]
    BY <1>2 DEF SwiftReturn
  <2>3. Alters({"attempted", "after", "fail", "result"}) /\ c'.attempted = c.attempted
    BY <1>1, <2>2 DEF Alters, ControllerRecord, Core
  <2>4. "swift-finish" \in Later /\ "swift-finish" \in ModeOps(ctl.mode) /\ "swift-finish" \notin Finishing
    BY <2>1, ModeOf DEF Later, ModeOps, MainOps, Supplements, Finishing
  <2>5. Pending'
    BY <2>1, <2>4, GoesOp DEF Pending
  <2> QED
    BY <2>1, <2>3, <2>4, <2>5, LaterGoes
<1>3. CASE SwiftFinish
  <2> DEFINE k == [c EXCEPT !.attempted = @ \cup {"swift"}, !.after = FALSE]
  <2>1. ctl.op = "swift-finish" /\ ctl.pc = "op" /\ Settled /\ Goto("swift-before")
    BY <1>3 DEF SwiftFinish, Settled, OpFrame
  <2>2. \/ c' = [k EXCEPT !.authority = ph.launched]
        \/ c' = [k EXCEPT !.fail = "finish"]
        \/ \E u \in BOOLEAN : c' = [k EXCEPT !.fail = "finish", !.unknown = @ \/ u]
    BY <1>3 DEF SwiftFinish
  <2>3. /\ k \in ControllerRecord /\ k.unknown = c.unknown /\ k.exhausted = c.exhausted /\ ~k.after
        /\ k.attempted = c.attempted \cup {"swift"}
        /\ \A f \in Core \ {"attempted", "after"} : k[f] = c[f]
    BY <1>1 DEF ControllerRecord, Core
  <2> HIDE DEF k
  <2>4. ASSUME c' = [k EXCEPT !.authority = ph.launched]
        PROVE  Alters({"attempted", "after", "fail", "result"}) /\ c'.attempted = k.attempted /\ ~c'.after
    BY <1>1, <2>3, <2>4 DEF Alters, ControllerRecord, PhaseRecord, Core
  <2>5. ASSUME c' = [k EXCEPT !.fail = "finish"]
        PROVE  Alters({"attempted", "after", "fail", "result"}) /\ c'.attempted = k.attempted /\ ~c'.after
    BY <2>3, <2>5 DEF Alters, ControllerRecord, Core
  <2>6. ASSUME NEW u \in BOOLEAN, c' = [k EXCEPT !.fail = "finish", !.unknown = @ \/ u]
        PROVE  Alters({"attempted", "after", "fail", "result"}) /\ c'.attempted = k.attempted /\ ~c'.after
    <3>1. (k.unknown \/ u) \in BOOLEAN
      OBVIOUS
    <3> QED
      BY <2>3, <2>6, <3>1, ZenonT(40) DEF Alters, ControllerRecord, Core
  <2>7. Alters({"attempted", "after", "fail", "result"}) /\ c'.attempted = c.attempted \cup {"swift"} /\ ~c'.after
    BY <2>2, <2>3, <2>4, <2>5, <2>6
  <2>8. "swift-before" \in Later /\ "swift-before" \in ModeOps(ctl.mode)
    BY <2>1, ModeOf DEF Later, ModeOps, MainOps, Supplements, Finishing
  <2>9. Pending'
    BY <2>1, <2>8, GoesOp DEF Pending, Finishing
  <2> QED
    BY <2>1, <2>7, <2>8, <2>9, LaterGoes
<1> QED
  BY <1>2, <1>3

LEMMA SwiftCloseKeeps ==
  ASSUME TestInv, UNCHANGED dl, SwiftClose
  PROVE  TestInv'
<1>1. c \in ControllerRecord /\ DeviceOK
  BY DEF TestInv, TypeOK, ControllerTypes, ControllerInv
<1>2. ctl.op = "swift-close" /\ ctl.pc = "op" /\ Settled
  BY DEF SwiftClose, Settled, OpFrame
<1>3. ~c.unknown /\ c.after => world.by # "own"
  BY <1>1, <1>2 DEF DeviceOK, Pending, Retiring, Finishing
<1>4. \/ Leave /\ c' = [c EXCEPT !.unknown = TRUE, !.swift = "UNKNOWN", !.errors = TRUE]
      \/ ~c.unknown /\ c.after /\ Goto("swift-results") /\ c' = [c EXCEPT !.swift = "KNOWN_SHUTDOWN"]
      \/ ~c.unknown /\ c.after /\ Leave /\ c' = [c EXCEPT !.swift = "HOLD", !.errors = TRUE]
  BY DEF SwiftClose
<1>5. CASE Leave /\ c' = [c EXCEPT !.unknown = TRUE, !.swift = "UNKNOWN", !.errors = TRUE]
  <2>1. Alters({"after", "fail", "result"}) /\ c'.unknown
    BY <1>1, <1>5, ZenonT(40) DEF Alters, ControllerRecord, Core
  <2> QED
    BY <1>2, <1>5, <2>1, LeaveKeeps
<1>6. CASE ~c.unknown /\ c.after /\ Goto("swift-results") /\ c' = [c EXCEPT !.swift = "KNOWN_SHUTDOWN"]
  <2>1. Alters({"attempted", "after", "fail", "result"}) /\ c'.attempted = c.attempted
    BY <1>1, <1>6 DEF Alters, ControllerRecord, Core
  <2>2. "swift-results" \in Later /\ "swift-results" \in ModeOps(ctl.mode) /\ "swift-results" \notin Finishing
    BY <1>2, ModeOf DEF Later, ModeOps, MainOps, Supplements, Finishing
  <2> QED
    BY <1>2, <1>3, <1>6, <2>1, <2>2, LaterGoes
<1>7. CASE ~c.unknown /\ c.after /\ Leave /\ c' = [c EXCEPT !.swift = "HOLD", !.errors = TRUE]
  <2>1. Alters({"after", "fail", "result"})
    BY <1>1, <1>7, ZenonT(40) DEF Alters, ControllerRecord, Core
  <2> QED
    BY <1>2, <1>3, <1>7, <2>1, LeaveKeeps
<1> QED
  BY <1>4, <1>5, <1>6, <1>7

LEMMA SwiftResultsKeeps ==
  ASSUME TestInv, UNCHANGED dl, SwiftResultsReturn
  PROVE  TestInv'
<1>1. c \in ControllerRecord
  BY DEF TestInv, TypeOK, ControllerTypes
<1>2. ctl.op = "swift-results" /\ ctl.pc = "ret" /\ Settled
  BY DEF SwiftResultsReturn, Returned, Settled, OpFrame
<1>3. \/ Goto("central") /\ c' = [c EXCEPT !.completed = @ \cup {"swift-ui"}]
      \/ Leave /\ \E u \in BOOLEAN : c' = [c EXCEPT !.errors = TRUE, !.unknown = u \/ @]
  BY DEF SwiftResultsReturn
<1>4. CASE Goto("central") /\ c' = [c EXCEPT !.completed = @ \cup {"swift-ui"}]
  <2>1. Alters({"attempted"}) /\ c'.attempted = c.attempted
    BY <1>1, <1>4 DEF Alters, ControllerRecord, Core
  <2>2. /\ "central" \in Calm /\ ctl.op \in Calm \ {"result"} /\ "central" \in ModeOps(ctl.mode) /\ "central" \notin Exporting
    BY <1>2, ModeOf DEF Calm, Exporting, ModeOps, MainOps, Supplements
  <2> QED
    BY <1>2, <1>4, <2>1, <2>2, CalmStep
<1>5. CASE Leave /\ \E u \in BOOLEAN : c' = [c EXCEPT !.errors = TRUE, !.unknown = u \/ @]
  <2>1. PICK u \in BOOLEAN : c' = [c EXCEPT !.errors = TRUE, !.unknown = u \/ @]
    BY <1>5
  <2>2. (u \/ c.unknown) \in BOOLEAN
    OBVIOUS
  <2>3. Alters({})
    BY <1>1, <2>1, <2>2, AltersUnknown
  <2>4. Alters({"after", "fail", "result"})
    BY <2>3, AltersMore
  <2>5. ctl.op \notin Retiring \cup Finishing
    BY <1>2 DEF Retiring, Finishing
  <2> QED
    BY <1>2, <1>5, <2>4, <2>5, LeaveKeeps
<1> QED
  BY <1>3, <1>4, <1>5

LEMMA SwiftNextKeeps ==
  ASSUME TestInv, UNCHANGED dl, SwiftNext
  PROVE  TestInv'
<1>1. Retirement("swift-before", "swift-shutdown", "swift-after", "swift-close")
  BY DEF Retirement, Finishing
<1> QED
  BY <1>1, ScopeKeeps, SwiftFinishKeeps, BeforeKeeps, ShutdownKeeps, AfterKeeps, SwiftCloseKeeps, SwiftResultsKeeps
     DEF SwiftNext

\* The bundle's tests are launched: from here on there may be keys.
LEMMA CentralKeeps ==
  ASSUME TestInv, UNCHANGED dl, Central
  PROVE  TestInv'
<1> DEFINE k == [c EXCEPT !.attempted = @ \cup {"central"}, !.central = "PENDING"]
<1>1. c \in ControllerRecord /\ ctl \in ControlRecord /\ KeysOK /\ DeviceOK
  BY DEF TestInv, TypeOK, ControllerTypes, ControllerInv
<1>2. /\ ctl.op = "central" /\ ctl.pc = "op" /\ (Fails \/ (Settled /\ Goto("central-bundle") /\ c' = k))
  BY DEF Central, NextScope, Op, Fails, Settled, OpFrame
<1>3. CASE Fails
  <2>1. ctl.op \notin Unleaving
    BY <1>2 DEF Unleaving, Retiring, Finishing
  <2> QED
    BY <1>2, <1>3, <2>1, FailsKeeps
<1>4. CASE Settled /\ Goto("central-bundle") /\ c' = k
  <2>1. /\ Alters({"attempted", "central"}) /\ c'.attempted = c.attempted \cup {"central"} /\ c'.central = "PENDING"
    <3>1. c' \in ControllerRecord
      BY <1>1, <1>4, ZenonT(40) DEF ControllerRecord
    <3>2. /\ c'.attempted = c.attempted \cup {"central"} /\ c'.central = "PENDING"
          /\ c'.unknown = c.unknown /\ c'.exhausted = c.exhausted
          /\ \A f \in Core \ {"attempted", "central"} : c'[f] = c[f]
      BY <1>1, <1>4 DEF ControllerRecord, Core
    <3> QED
      BY <3>1, <3>2 DEF Alters
  <2> HIDE DEF k
  <2>2. c'.encrypted = c.encrypted
    BY <2>1, AltersKeeps DEF Core
  <2>3. ctl.mode = "main" /\ "central-bundle" \in ModeOps(ctl.mode)
    BY <1>2, ModeOf DEF ModeOps, MainOps, Supplements, Bundle
  <2>4. Goes("central-bundle")
    BY <1>1, <1>4, GoesTo DEF MainOps, Supplements, Bundle
  <2>5. KeysOK'
    BY <1>1, <1>4, <2>1, <2>2, <2>3, <2>4 DEF KeysOK, Settled, Goes, Exporting, Bundle
  <2>6. "central-bundle" \notin Early \cup Finishing \cup {"product", "authority", "seed", "seed-receipt", "custody-prepare", "sim-prelaunch"}
    BY DEF Early, RestoreOps, Setup, Finishing
  <2>7. world.by = "own" => Pending'
    BY <1>2, <2>1, CalmUnknown DEF Pending, Calm, Alters
  <2>8. Full' <=> Full
    BY <2>4 DEF Goes, Full
  <2>9. DeviceOK'
    BY <1>1, <1>4, <2>4, <2>6, <2>7, <2>8 DEF DeviceOK, Settled, Goes
  <2>10. {"attempted", "central"} \cap {"active", "exit"} = {}
    OBVIOUS
  <2> QED
    BY <1>2, <1>4, <2>1, <2>3, <2>4, <2>5, <2>6, <2>9, <2>10, SettledFramed, MovesAny DEF Goes
<1> QED
  BY <1>2, <1>3, <1>4

\* The keys are still there: the retirement of the bundle is prepared.
LEMMA BundleGoes ==
  ASSUME TestInv, Settled, UNCHANGED dl, ctl.op \in Bundle, ctl.pc \in {"op", "ret"}, NEW o \in Bundle, Goto(o),
         Alters({"fail"})
  PROVE  TestInv'
<1>1. o \in ModeOps(ctl.mode)
  BY ModeOf DEF ModeOps, MainOps, Supplements
<1>2. o \notin Early \cup Finishing \cup Exporting \cup {"product", "authority", "seed", "seed-receipt", "custody-prepare", "sim-prelaunch"}
  BY DEF Bundle, Early, RestoreOps, Setup, Finishing, Exporting
<1>3. c'.attempted = c.attempted /\ (c.unknown => c'.unknown)
  BY AltersKeeps DEF Core, Alters
<1>4. world.by = "own" => Pending'
  BY <1>3, CalmUnknown DEF Pending
<1>5. {"fail"} \cap {"active", "exit", "central", "encrypted"} = {}
  OBVIOUS
<1> QED
  BY <1>1, <1>2, <1>3, <1>4, <1>5, GoesKeeps

LEMMA BundleKeeps ==
  ASSUME TestInv, UNCHANGED dl, CentralReturn \/ CentralRetireReturn
  PROVE  TestInv'
<1>1. c \in ControllerRecord
  BY DEF TestInv, TypeOK, ControllerTypes
<1>2. {"central-bundle", "central-retire", "screen"} = Bundle /\ Bundle \cap Unleaving = {}
  BY DEF Bundle, Unleaving, Retiring, Finishing
<1>3. CASE CentralReturn
  <2>1. ctl.op = "central-bundle" /\ ctl.pc = "ret" /\ Settled
    BY <1>3 DEF CentralReturn, Returned, Settled, OpFrame
  <2>2. \/ Goto("central-retire") /\ \E x \in {"no", "product"} : c' = [c EXCEPT !.fail = x]
        \/ Fails
    BY <1>3, <2>1 DEF CentralReturn, Fails
  <2>3. ASSUME NEW x \in {"no", "product"}, c' = [c EXCEPT !.fail = x] PROVE Alters({"fail"})
    BY <1>1, <2>3 DEF Alters, ControllerRecord, Core
  <2>4. Fails => TestInv'
    BY <1>2, <2>1, FailsKeeps
  <2>5. Goto("central-retire") /\ Alters({"fail"}) => TestInv'
    BY <1>2, <2>1, BundleGoes
  <2> QED
    BY <2>2, <2>3, <2>4, <2>5
<1>4. CASE CentralRetireReturn
  <2>1. ctl.op = "central-retire" /\ ctl.pc = "ret" /\ (Fails \/ (Settled /\ Goto("screen") /\ UNCHANGED c))
    BY <1>4 DEF CentralRetireReturn, After, Returned, Fails, Settled, OpFrame
  <2>2. UNCHANGED c => Alters({"fail"})
    BY SameController
  <2> QED
    BY <1>2, <2>1, <2>2, FailsKeeps, BundleGoes
<1> QED
  BY <1>3, <1>4

\* The status changes with the removal of the keys and never before it.
LEMMA ScreenKeeps ==
  ASSUME TestInv, UNCHANGED dl, Screen
  PROVE  TestInv'
<1> DEFINE w == [world EXCEPT !.keys = IF @ = "none" THEN @ ELSE "removed"]
<1>1. c \in ControllerRecord /\ ctl \in ControlRecord /\ KeysOK /\ world \in WorldRecord
  BY DEF TestInv, TypeOK, ControllerTypes, ControllerInv
<1>2. ctl.op = "screen" /\ ctl.pc = "op" /\ Leave /\ world' \in {world, w}
      /\ UNCHANGED <<now, cancelled, rows, child, requests, ph>>
  BY DEF Screen, OpFrame
<1>3. ctl.op \in Bundle /\ ctl.mode = "main" /\ ctl.op \notin Retiring \cup Finishing
  BY <1>2, ModeOf DEF Bundle, Supplements, Retiring, Finishing
<1>4. Leaves
  BY <1>1, <1>2, LeavesFor
<1>5. ctl'.mode = "final" /\ ctl'.op \notin Bundle \cup Exporting
  BY <1>3, <1>4 DEF Leaves, Bundle, Exporting
<1>6. w \in WorldRecord /\ w.keys # "present"
      /\ w.device = world.device /\ w.by = world.by /\ w.loader = world.loader
      /\ w.product = world.product /\ w.swapped = world.swapped
  BY <1>1 DEF WorldRecord
<1> HIDE DEF w
<1>7. Framed
  BY <1>1, <1>2, <1>6 DEF Framed
<1>8. ~c.encrypted /\ "export" \notin rows.all /\ "central" \in c.attempted /\ c.central = "PENDING"
  BY <1>1, <1>3 DEF KeysOK
<1>9. \/ world' = w /\ \E e \in BOOLEAN, x \in BOOLEAN, s \in SUBSET {"lock-policy", "swift-ui", "central-bundle"} :
           /\ c' = [c EXCEPT !.central = "SCREENED_AND_REMOVED", !.errors = e, !.exhausted = x, !.completed = s]
           /\ c.exhausted => x
      \/ c' = [c EXCEPT !.errors = TRUE]
  <2>1. CASE c' = [c EXCEPT !.errors = TRUE]
    BY <2>1
  <2>2. CASE c' # [c EXCEPT !.errors = TRUE]
    <3> DEFINE e == c.errors \/ c.fail # "no" \/ ~Check(FALSE)
               x == Marked(FALSE)
               s == IF c.fail = "no" /\ Check(FALSE) THEN c.completed \cup {"central-bundle"} ELSE c.completed
    <3>1. /\ world' = w
          /\ c' = [c EXCEPT !.central = "SCREENED_AND_REMOVED", !.errors = e, !.exhausted = x, !.completed = s]
      BY <2>2 DEF Screen, w
    <3>2. e \in BOOLEAN
      OBVIOUS
    <3>3. x \in BOOLEAN /\ (c.exhausted => x)
      BY <1>1, MarkedType
    <3>4. s \in SUBSET {"lock-policy", "swift-ui", "central-bundle"}
      BY <1>1 DEF ControllerRecord
    <3> HIDE DEF e, x, s
    <3> QED
      BY <3>1, <3>2, <3>3, <3>4
  <2> QED
    BY <2>1, <2>2
<1>10. CASE c' = [c EXCEPT !.errors = TRUE]
  <2>1. Alters({})
    BY <1>1, <1>10, AltersErrors
  <2>2. Alters({"central", "after", "fail", "result"})
    BY <2>1, AltersMore
  <2>3. c'.central = c.central /\ c'.attempted = c.attempted /\ c'.encrypted = c.encrypted
    BY <2>1, AltersKeeps DEF Core
  <2>4. KeysOK'
    BY <1>2, <1>5, <1>8, <2>3 DEF KeysOK
  <2> QED
    BY <1>2, <1>3, <1>7, <2>2, <2>4, LeaveAny
<1>11. ASSUME NEW e \in BOOLEAN, NEW x \in BOOLEAN, NEW s \in SUBSET {"lock-policy", "swift-ui", "central-bundle"},
              c' = [c EXCEPT !.central = "SCREENED_AND_REMOVED", !.errors = e, !.exhausted = x, !.completed = s],
              c.exhausted => x, world' = w
       PROVE  TestInv'
  <2>1. Alters({"central", "after", "fail", "result"}) /\ c'.central = "SCREENED_AND_REMOVED"
    <3>1. c' \in ControllerRecord
      <4> DEFINE d == [c EXCEPT !.central = "SCREENED_AND_REMOVED", !.errors = e]
      <4>1. d \in ControllerRecord
        BY <1>1, ZenonT(40) DEF ControllerRecord
      <4>2. c' = [d EXCEPT !.exhausted = x, !.completed = s]
        BY <1>11
      <4> HIDE DEF d
      <4> QED
        BY <4>1, <4>2, ZenonT(40) DEF ControllerRecord
    <3>2. /\ c'.central = "SCREENED_AND_REMOVED" /\ c'.unknown = c.unknown /\ c'.exhausted = x
          /\ \A f \in Core \ {"central"} : c'[f] = c[f]
      BY <1>1, <1>11 DEF ControllerRecord, Core
    <3> QED
      BY <1>11, <3>1, <3>2 DEF Alters
  <2>2. KeysOK'
    BY <1>5, <1>6, <1>11, <2>1 DEF KeysOK
  <2> QED
    BY <1>2, <1>3, <1>7, <2>1, <2>2, LeaveAny
<1> QED
  BY <1>9, <1>10, <1>11

-----------------------------------------------------------------------------
(* Packaging, export, result and close.                                       *)

LEMMA PackageKeeps ==
  ASSUME TestInv, UNCHANGED dl, Package \/ PackageReturn
  PROVE  TestInv'
<1>1. c \in ControllerRecord
  BY DEF TestInv, TypeOK, ControllerTypes
<1>2. CASE Package
  <2>1. /\ ctl.op = "package" /\ ctl.pc = "op"
        /\ Fails \/ (Settled /\ Goto("sample-packaging") /\ c' = [c EXCEPT !.attempted = @ \cup {"samples"}])
    BY <1>2 DEF Package, Op, Fails, Settled, OpFrame
  <2>2. ASSUME c' = [c EXCEPT !.attempted = @ \cup {"samples"}]
        PROVE  Alters({"attempted"}) /\ c'.attempted = c.attempted \cup {"samples"}
    BY <1>1, <2>2 DEF Alters, ControllerRecord, Core
  <2>3. /\ ctl.op \in Calm \ {"result"} /\ "sample-packaging" \in Calm /\ "sample-packaging" \notin Exporting
        /\ "sample-packaging" \in ModeOps(ctl.mode)
    BY <2>1, ModeOf DEF Calm, Exporting, ModeOps, MainOps, Supplements
  <2> QED
    BY <2>1, <2>2, <2>3, CalmStep
<1>3. CASE PackageReturn
  <2>1. ctl.op = "sample-packaging" /\ ctl.pc = "ret" /\ Settled /\ Leave
    BY <1>3 DEF PackageReturn, Returned, Settled, OpFrame
  <2>2. \/ c' = [c EXCEPT !.samples = "PASS"]
        \/ c' = [c EXCEPT !.samples = "FAILED", !.errors = TRUE]
    BY <1>3 DEF PackageReturn
  <2>3. Alters({"after", "fail", "result"})
    <3>1. CASE c' = [c EXCEPT !.samples = "PASS"]
      BY <1>1, <3>1 DEF Alters, ControllerRecord, Core
    <3>2. CASE c' = [c EXCEPT !.samples = "FAILED", !.errors = TRUE]
      <4> DEFINE d == [c EXCEPT !.samples = "FAILED"]
      <4>1. d \in ControllerRecord /\ d.unknown = c.unknown /\ d.exhausted = c.exhausted /\ \A f \in Core : d[f] = c[f]
        BY <1>1 DEF ControllerRecord, Core
      <4>2. c' = [d EXCEPT !.errors = TRUE]
        BY <3>2
      <4> HIDE DEF d
      <4> QED
        BY <4>1, <4>2 DEF Alters, ControllerRecord, Core
    <3> QED
      BY <2>2, <3>1, <3>2
  <2>4. ctl.op \notin Retiring \cup Finishing
    BY <2>1 DEF Retiring, Finishing
  <2> QED
    BY <2>1, <2>3, <2>4, LeaveKeeps
<1> QED
  BY <1>2, <1>3

\* A step of the end of the run whose keys are looked at.
LEMMA EndGoes ==
  ASSUME TestInv, Settled, UNCHANGED dl, ctl.op \in {"freeze"} \cup Exporting, ctl.pc = "op",
         NEW o \in {"export", "result"}, Goto(o), Alters({"encrypted"}),
         "central" \in c.attempted => c.central = "SCREENED_AND_REMOVED"
  PROVE  TestInv'
<1>1. ctl \in ControlRecord /\ KeysOK /\ DeviceOK /\ ctl.mode = "final"
  BY ModeOf DEF TestInv, TypeOK, ControllerTypes, ControllerInv
<1>2. /\ o \in FinalOps
      /\ o \notin Early \cup Bundle \cup Finishing \cup {"product", "authority", "seed", "seed-receipt", "custody-prepare", "sim-prelaunch"}
  BY DEF FinalOps, Exporting, Early, RestoreOps, Setup, Bundle, Finishing
<1>3. Goes(o)
  BY <1>1, <1>2, GoesTo
<1>4. c'.attempted = c.attempted /\ c'.central = c.central
  BY AltersKeeps DEF Core
<1>5. KeysOK'
  BY <1>1, <1>2, <1>3, <1>4 DEF KeysOK, Settled, Goes
<1>6. world.by = "own" => Pending'
  BY CalmUnknown DEF Calm, Pending, Alters
<1>7. Full' <=> Full
  BY <1>3 DEF Goes, Full
<1>8. DeviceOK'
  BY <1>1, <1>2, <1>3, <1>6, <1>7 DEF DeviceOK, Settled, Goes
<1>9. {"encrypted"} \cap {"active", "exit"} = {}
  OBVIOUS
<1>10. ctl'.op \in ModeOps(ctl'.mode)
  BY <1>1, <1>2, <1>3 DEF Goes, ModeOps
<1> QED
  BY <1>2, <1>3, <1>5, <1>8, <1>9, <1>10, SettledFramed, MovesAny DEF Goes

LEMMA ExportKeeps ==
  ASSUME TestInv, UNCHANGED dl, Freeze \/ ExportReturn \/ VerifyExport \/ VerifyPackets \/ VerifySamples
  PROVE  TestInv'
<1> DEFINE From(p, o) == /\ ctl.op = p /\ ctl.pc \in {"op", "ret"} /\ p \in Exporting /\ o \in Exporting
                         /\ (Fails \/ (Settled /\ Goto(o) /\ UNCHANGED c))
<1>1. ASSUME NEW p, NEW o, From(p, o) PROVE TestInv'
  <2>1. o \in ModeOps(ctl.mode) /\ o \in Calm /\ ctl.op \in Calm \ {"result"}
    BY <1>1, ModeOf DEF ModeOps, FinalOps, Calm, Exporting
  <2> QED
    BY <1>1, <2>1, CalmSame, CalmStep
<1>2. c \in ControllerRecord /\ ph \in PhaseRecord /\ KeysOK
  BY DEF TestInv, TypeOK, ControllerTypes, ControllerInv
<1>3. ({"freeze"} \cup Exporting) \cap Unleaving = {}
  BY DEF Exporting, Unleaving, Retiring, Finishing
<1>4. CASE Freeze
  <2>1. /\ ctl.op = "freeze" /\ ctl.pc = "op"
        /\ Fails \/ (/\ Settled /\ Goto("export") /\ UNCHANGED c
                     /\ "central" \in c.attempted => c.central = "SCREENED_AND_REMOVED")
    BY <1>4 DEF Freeze, Op, Fails, Settled, OpFrame
  <2>2. UNCHANGED c => Alters({"encrypted"})
    BY SameController
  <2> QED
    BY <1>3, <2>1, <2>2, FailsKeeps, EndGoes
<1>5. CASE ExportReturn
  <2>1. ph.launched \in BOOLEAN
    BY <1>2 DEF PhaseRecord
  <2>2. From("export", "verify")
    BY <1>5, <2>1 DEF ExportReturn, AfterCrypto, Returned, Fails, Settled, OpFrame, Exporting
  <2> QED
    BY <1>1, <2>2
<1>6. CASE VerifyExport
  <2>1. From("verify", "verify-packets")
    BY <1>6 DEF VerifyExport, Op, Fails, Settled, OpFrame, Exporting
  <2> QED
    BY <1>1, <2>1
<1>7. CASE VerifyPackets
  <2>1. From("verify-packets", "verify-samples")
    BY <1>7 DEF VerifyPackets, Op, Fails, Settled, OpFrame, Exporting
  <2> QED
    BY <1>1, <2>1
<1>8. CASE VerifySamples
  <2>1. /\ ctl.op = "verify-samples" /\ ctl.pc = "op"
        /\ Fails \/ (Settled /\ Goto("result") /\ c' = [c EXCEPT !.encrypted = TRUE])
    BY <1>8 DEF VerifySamples, Op, Fails, Settled, OpFrame
  <2>2. ctl.op \in Exporting
    BY <2>1 DEF Exporting
  <2>3. ASSUME c' = [c EXCEPT !.encrypted = TRUE] PROVE Alters({"encrypted"})
    BY <1>2, <2>3 DEF Alters, ControllerRecord, Core
  <2>4. "central" \in c.attempted => c.central = "SCREENED_AND_REMOVED"
    BY <1>2, <2>2 DEF KeysOK
  <2> QED
    BY <1>3, <2>1, <2>2, <2>3, <2>4, FailsKeeps, EndGoes
<1> QED
  BY <1>4, <1>5, <1>6, <1>7, <1>8

LEMMA ResultKeeps ==
  ASSUME TestInv, UNCHANGED dl, Result
  PROVE  TestInv'
<1>1. c \in ControllerRecord /\ cancelled \in BOOLEAN
  BY DEF TestInv, TypeOK, ControllerTypes
<1>2. ctl.op = "result" /\ ctl.pc = "op" /\ Settled /\ Goto("close")
  BY DEF Result, Settled, OpFrame
<1>3. \/ \E v \in {"passed", "ready", "hold"} : c' = [c EXCEPT !.result = v, !.signalled = cancelled]
      \/ c' = [c EXCEPT !.errors = TRUE]
  BY DEF Result
<1>4. Alters({"attempted", "after", "fail", "result"}) /\ c'.attempted = c.attempted
  <2>1. ASSUME NEW v \in {"passed", "ready", "hold"}, c' = [c EXCEPT !.result = v, !.signalled = cancelled]
        PROVE  Alters({"attempted", "after", "fail", "result"}) /\ c'.attempted = c.attempted
    <3>1. c' \in ControllerRecord
      <4> DEFINE d == [c EXCEPT !.result = v]
      <4>1. d \in ControllerRecord
        BY <1>1 DEF ControllerRecord
      <4>2. c' = [d EXCEPT !.signalled = cancelled]
        BY <2>1
      <4> HIDE DEF d
      <4> QED
        BY <1>1, <4>1, <4>2 DEF ControllerRecord
    <3>2. /\ c'.unknown = c.unknown /\ c'.exhausted = c.exhausted
          /\ \A f \in Core \ {"result"} : c'[f] = c[f]
      BY <1>1, <2>1 DEF ControllerRecord, Core
    <3> QED
      BY <3>1, <3>2 DEF Alters, Core
  <2>2. ASSUME c' = [c EXCEPT !.errors = TRUE]
        PROVE  Alters({"attempted", "after", "fail", "result"}) /\ c'.attempted = c.attempted
    BY <1>1, <2>2 DEF Alters, ControllerRecord, Core
  <2> QED
    BY <1>3, <2>1, <2>2
<1>5. "close" \in Later /\ "close" \in ModeOps(ctl.mode) /\ "close" \notin Finishing
  BY <1>2, ModeOf DEF Later, ModeOps, FinalOps, Finishing
<1>6. world.by = "own" => Pending'
  BY <1>2, <1>4, CalmUnknown DEF Calm, Pending, Alters
<1> QED
  BY <1>2, <1>4, <1>5, <1>6, LaterGoes

\* What a passed profile says of the rows.
LEMMA PassedRows ==
  ASSUME Passed(TRUE)
  PROVE  {"product", "custody-uninstall"} \subseteq rows.clean
<1>1. {"product", "custody-uninstall"} \subseteq FullLabels
  BY DEF FullLabels, Labels, Finalizing, Canonical, Preparing
<1>2. {"product", "custody-uninstall"} \subseteq SampleLabels
  BY DEF SampleLabels
<1>3. rows.all = rows.clean /\ (IF Full THEN FullLabels ELSE SampleLabels) \subseteq rows.all
  BY DEF Passed
<1> QED
  BY <1>1, <1>2, <1>3

LEMMA CloseKeeps ==
  ASSUME TestInv, UNCHANGED dl, Close
  PROVE  TestInv'
<1>1. c \in ControllerRecord /\ ctl \in ControlRecord /\ ControlOK /\ KeysOK /\ DeviceOK
  BY DEF TestInv, TypeOK, ControllerTypes, ControllerInv
<1>2. ctl.op = "close" /\ ctl.pc = "op" /\ Settled /\ ctl' = [ctl EXCEPT !.pc = "done"]
  BY DEF Close, Settled, OpFrame
<1>3. \/ \E x \in {"zero", "hold"} :
           /\ c' = [c EXCEPT !.exit = x]
           /\ x = "zero" => ~c.unknown /\ c.encrypted /\ (c.result = "passed" => Passed(TRUE))
      \/ c' = [c EXCEPT !.unknown = TRUE, !.errors = TRUE, !.exit = "hold"]
  BY DEF Close
<1>4. /\ ctl' \in ControlRecord /\ ctl'.pc = "done" /\ ctl'.mode = ctl.mode /\ ctl'.op = ctl.op
      /\ ctl'.profile = ctl.profile
  BY <1>1, <1>2 DEF ControlRecord
<1>5. /\ c' \in ControllerRecord /\ (c.unknown => c'.unknown) /\ c'.exhausted = c.exhausted
      /\ \A f \in Core \ {"exit"} : c'[f] = c[f]
      /\ c'.exit \in {"zero", "hold"}
      /\ c'.exit = "zero" => ~c'.unknown /\ c.encrypted /\ (c.result = "passed" => Passed(TRUE))
  <2>1. ASSUME NEW x \in {"zero", "hold"}, c' = [c EXCEPT !.exit = x]
        PROVE  /\ c' \in ControllerRecord /\ c'.unknown = c.unknown /\ c'.exhausted = c.exhausted
               /\ \A f \in Core \ {"exit"} : c'[f] = c[f]
               /\ c'.exit = x
    BY <1>1, <2>1 DEF ControllerRecord, Core
  <2>2. ASSUME c' = [c EXCEPT !.unknown = TRUE, !.errors = TRUE, !.exit = "hold"]
        PROVE  /\ c' \in ControllerRecord /\ c'.unknown /\ c'.exhausted = c.exhausted
               /\ \A f \in Core \ {"exit"} : c'[f] = c[f]
               /\ c'.exit = "hold"
    <3> DEFINE d == [c EXCEPT !.unknown = TRUE, !.errors = TRUE]
    <3>1. d \in ControllerRecord /\ d.unknown /\ d.exhausted = c.exhausted /\ \A f \in Core : d[f] = c[f]
      BY <1>1 DEF ControllerRecord, Core
    <3>2. c' = [d EXCEPT !.exit = "hold"]
      BY <2>2
    <3> HIDE DEF d
    <3> QED
      BY <3>1, <3>2 DEF ControllerRecord, Core
  <2> QED
    BY <1>3, <2>1, <2>2
<1>6. /\ c'.active = c.active /\ c'.central = c.central /\ c'.encrypted = c.encrypted /\ c'.attempted = c.attempted
      /\ c'.selected = c.selected /\ c'.after = c.after /\ c'.fail = c.fail /\ c'.result = c.result
  BY <1>5 DEF Core
<1>7. TypeOK'
  BY <1>2, <1>4, <1>5 DEF TestInv, TypeOK, ControllerTypes, Settled
<1>8. ControlOK'
  <2>1. "done" \in Pcs("close")
    BY DEF Pcs, Labels, Finalizing, Canonical, Preparing
  <2>2. ctl'.op = "close" /\ ctl'.op \in ModeOps(ctl'.mode) /\ ctl'.pc = "done"
    BY <1>1, <1>2, <1>4 DEF ControlOK
  <2>3. c'.exit # "none" /\ (c'.exit = "zero" => c'.encrypted /\ ~c'.unknown)
    BY <1>5, <1>6
  <2> QED
    BY <2>1, <2>2, <2>3 DEF ControlOK
<1>9. ChildOK' /\ RequestOK'
  BY <1>2, <1>4, <1>5, <1>6, SettledFramed, CalmChild, CalmRequests
<1>10. ProductOK'
  BY <1>2, <1>4, <1>5, <1>6, PassedRows, SettledFramed, CalmProduct
<1>11. KeysOK'
  BY <1>1, <1>2, <1>4, <1>6 DEF KeysOK, Settled
<1>12. DeviceOK'
  BY <1>1, <1>2, <1>4, <1>5, <1>6 DEF DeviceOK, Pending, Settled, Full
<1>13. DeliveryOK'
  BY <1>1, <1>2, CalmDelivery DEF Settled, ControlOK
<1> QED
  BY <1>7, <1>8, <1>9, <1>10, <1>11, <1>12, <1>13 DEF TestInv, ControllerInv

LEMMA ProfileKeeps ==
  ASSUME TestInv, UNCHANGED dl, ProfileNext
  PROVE  TestInv'
BY SetupKeeps, ProductKeeps, CollectKeeps, RetireNextKeeps, AbiKeeps, ScopeKeeps, SwiftNextKeeps, CentralKeeps,
   BundleKeeps, ScreenKeeps, PackageKeeps, ExportKeeps, ResultKeeps, CloseKeeps DEF ProfileNext

-----------------------------------------------------------------------------
(* The phases.  A step of a phase stays in its operation.                     *)

\* What such a step leaves alone of the controller.
Works ==
  /\ c' \in ControllerRecord
  /\ \A f \in Core \ {"active"} : c'[f] = c[f]

LEMMA PhaseMoves ==
  ASSUME TestInv, NEW p, Stays(p), p \in Pcs(ctl.op) \ {"done"}, ctl.pc # "done", UNCHANGED <<now, cancelled, world, dl>>,
         Works, c.unknown => c'.unknown \/ ctl.op \in Early,
         rows' \in RowsRecord, rows'.all \subseteq rows.all \cup {ctl.op},
         ph' \in PhaseRecord, child' \in ChildRecord, requests' \in Seq(Canonical), ChildOK', RequestOK', ProductOK'
  PROVE  TestInv'
<1>1. ctl.op = ctl'.op /\ ctl.mode = ctl'.mode /\ ctl'.pc = p /\ ctl' \in ControlRecord /\ (Full' <=> Full)
  BY DEF Stays, Full
<1>2. /\ c'.selected = c.selected /\ c'.after = c.after /\ c'.fail = c.fail /\ c'.central = c.central
      /\ c'.encrypted = c.encrypted /\ c'.attempted = c.attempted /\ c'.exit = c.exit
  BY DEF Works, Core
<1>3. ControlOK /\ KeysOK /\ DeviceOK
  BY DEF TestInv, ControllerInv
<1>4. TypeOK'
  BY <1>1 DEF TestInv, TypeOK, ControllerTypes, Works
<1>5. c.exit = "none"
  BY <1>3 DEF ControlOK
<1>6. ControlOK'
  BY <1>1, <1>2, <1>3, <1>5 DEF ControlOK
<1>7. KeysOK'
  BY <1>1, <1>2, <1>3 DEF KeysOK, Exporting
<1>8. DeviceOK'
  BY <1>1, <1>2, <1>3 DEF DeviceOK, Pending
<1>9. DeliveryOK'
  BY <1>5, CalmDelivery
<1> QED
  BY <1>4, <1>6, <1>7, <1>8, <1>9 DEF TestInv, ControllerInv

\* The product's row, before the receipt.
LEMMA PhaseProduct ==
  ASSUME TestInv, NEW p, Stays(p), ctl.pc \notin {"ret", "done"}, UNCHANGED <<world, now>>, rows'.clean = rows.clean, Works,
         child'.code \in {"none", child.code}, ctl.pc = "op" => child'.code = "none",
         p \in {"drain", "receipt"} /\ ph'.code = "zero" /\ ~ph'.late /\ ctl.op = "product" => world.product = "passed"
  PROVE  ProductOK'
<1>1. ctl.op = ctl'.op /\ ctl'.pc = p
  BY DEF Stays
<1>2. c'.exit = c.exit
  BY DEF Works, Core
<1>3. ControlOK /\ ProductOK
  BY DEF TestInv, ControllerInv
<1>4. c'.exit = "none"
  BY <1>2, <1>3 DEF ControlOK
<1> QED
  BY <1>1, <1>3, <1>4 DEF ProductOK

LEMMA PhaseBasics ==
  ASSUME TestInv
  PROVE  /\ now \in Nat /\ cancelled \in BOOLEAN /\ ctl \in ControlRecord /\ c \in ControllerRecord /\ ph \in PhaseRecord
         /\ rows \in RowsRecord /\ child \in ChildRecord /\ requests \in Seq(Canonical) /\ world \in WorldRecord
         /\ ControlOK /\ ChildOK /\ RequestOK /\ ProductOK
BY DEF TestInv, TypeOK, ControllerTypes, ControllerInv

LEMMA PhaseLabel ==
  ASSUME TestInv, NEW p \in PhasePcs, NEW q, Phase(q)
  PROVE  p \in Pcs(ctl.op) \ {"done"} /\ ctl.op \in Labels /\ ctl.pc = q
BY DEF Phase, Pcs, PhasePcs

LEMMA CanonicalWork == Canonical \cap Finalizing = {} /\ "none" \notin Canonical
BY DEF Canonical, Finalizing

LEMMA ExhaustedEffect ==
  ASSUME NEW k \in ControllerRecord, NEW x \in BOOLEAN
  PROVE  /\ [k EXCEPT !.exhausted = x] \in ControllerRecord
         /\ [k EXCEPT !.exhausted = x].exhausted = x /\ [k EXCEPT !.exhausted = x].unknown = k.unknown
         /\ [k EXCEPT !.exhausted = x].errors = k.errors
         /\ \A f \in Core : [k EXCEPT !.exhausted = x][f] = k[f]
BY DEF ControllerRecord, Core

LEMMA ErrorsEffect ==
  ASSUME NEW k \in ControllerRecord, NEW x \in BOOLEAN
  PROVE  /\ [k EXCEPT !.errors = x] \in ControllerRecord
         /\ [k EXCEPT !.errors = x].exhausted = k.exhausted /\ [k EXCEPT !.errors = x].unknown = k.unknown
         /\ \A f \in Core : [k EXCEPT !.errors = x][f] = k[f]
BY DEF ControllerRecord, Core

LEMMA UnknownEffect ==
  ASSUME NEW k \in ControllerRecord, NEW x \in BOOLEAN
  PROVE  /\ [k EXCEPT !.unknown = x] \in ControllerRecord
         /\ [k EXCEPT !.unknown = x].exhausted = k.exhausted /\ [k EXCEPT !.unknown = x].unknown = x
         /\ \A f \in Core : [k EXCEPT !.unknown = x][f] = k[f]
BY DEF ControllerRecord, Core

LEMMA ActiveEffect ==
  ASSUME NEW k \in ControllerRecord, NEW x \in Canonical \cup {"none"}
  PROVE  /\ [k EXCEPT !.active = x] \in ControllerRecord
         /\ [k EXCEPT !.active = x].exhausted = k.exhausted /\ [k EXCEPT !.active = x].unknown = k.unknown
         /\ [k EXCEPT !.active = x].active = x
         /\ \A f \in Core \ {"active"} : [k EXCEPT !.active = x][f] = k[f]
BY DEF ControllerRecord, Core

LEMMA NoPhaseType ==
  /\ NoPhase \in PhaseRecord /\ NoPhase.code = "none" /\ ~NoPhase.asked /\ ~NoPhase.late
  /\ [NoPhase EXCEPT !.raised = TRUE] \in PhaseRecord /\ [NoPhase EXCEPT !.raised = TRUE].code = "none"
  /\ [NoPhase EXCEPT !.scope = TRUE] \in PhaseRecord /\ [NoPhase EXCEPT !.scope = TRUE].code = "none"
  /\ NoChild \in ChildRecord /\ NoChild.st = "none" /\ NoChild.code = "none" /\ NoChild.seen = "none"
BY DEF NoPhase, PhaseRecord, NoChild, ChildRecord

LEMMA AdmitKeeps ==
  ASSUME TestInv, UNCHANGED dl, PhaseAdmit
  PROVE  TestInv'
<1> DEFINE k == [c EXCEPT !.exhausted = Marked(Fin)]
<1>1. now \in Nat /\ ctl \in ControlRecord /\ c \in ControllerRecord /\ rows \in RowsRecord /\ requests \in Seq(Canonical)
      /\ RequestOK
  BY PhaseBasics
<1>2. /\ ctl.op \in Labels /\ ctl.pc = "op" /\ child' = NoChild /\ UNCHANGED <<now, cancelled, requests, world>>
  BY DEF PhaseAdmit, Phase
<1>3. Marked(Fin) \in BOOLEAN /\ (c.exhausted => Marked(Fin))
  <2>1. Fin \in BOOLEAN
    BY DEF Fin
  <2> QED
    BY <1>1, <2>1, MarkedType
<1>4. /\ k \in ControllerRecord /\ (c.exhausted => k.exhausted) /\ k.unknown = c.unknown /\ k.errors = c.errors
      /\ \A f \in Core : k[f] = c[f]
  BY <1>1, <1>3, ExhaustedEffect
<1>5. \/ /\ c.active = "none" /\ PhaseGo("open") /\ c' = k /\ ph' = NoPhase
         /\ rows' = [rows EXCEPT !.all = @ \cup {ctl.op}]
      \/ /\ PhaseGo("ret") /\ ph' = [NoPhase EXCEPT !.raised = TRUE] /\ UNCHANGED rows
         /\ c' = k \/ c' = [k EXCEPT !.errors = TRUE, !.unknown = TRUE]
  BY DEF PhaseAdmit
<1> HIDE DEF k
<1>6. /\ c' \in ControllerRecord /\ (c.unknown => c'.unknown) /\ (c.exhausted => c'.exhausted)
      /\ \A f \in Core : c'[f] = c[f]
  <2>1. CASE c' = k
    BY <1>4, <2>1
  <2>2. CASE c' = [k EXCEPT !.errors = TRUE, !.unknown = TRUE]
    BY <1>4, <2>2 DEF ControllerRecord, Core
  <2> QED
    BY <1>5, <2>1, <2>2
<1>7. rows' \in RowsRecord /\ rows'.clean = rows.clean /\ rows'.all \subseteq rows.all \cup {ctl.op}
  BY <1>1, <1>2, <1>5 DEF RowsRecord
<1>8. ph' \in PhaseRecord /\ ph'.code = "none" /\ child' \in ChildRecord
      /\ child'.st = "none" /\ child'.code = "none" /\ child'.seen = "none"
  BY <1>2, <1>5, NoPhaseType
<1>9. Works /\ c'.active = c.active
  BY <1>6 DEF Works, Core
<1>10. PICK p \in {"open", "ret"} : PhaseGo(p) /\ (p = "open" => c.active = "none" /\ ~ph'.asked)
  BY <1>5, NoPhaseType
<1>11. Stays(p) /\ p \in Pcs(ctl.op) \ {"done"}
  BY <1>1, <1>2, <1>10, StaysAt DEF Pcs, PhasePcs
<1>12. ctl'.pc = p /\ ctl'.op = ctl.op
  BY <1>11 DEF Stays
<1>13. ChildOK'
  BY <1>8, <1>10, <1>12 DEF ChildOK
<1>14. RequestOK'
  BY <1>1, <1>2, <1>6, <1>8, <1>9, <1>10, <1>12 DEF RequestOK
<1>15. ProductOK'
  BY <1>2, <1>7, <1>8, <1>9, <1>10, <1>11, PhaseProduct
<1> QED
  BY <1>1, <1>2, <1>6, <1>7, <1>8, <1>9, <1>11, <1>13, <1>14, <1>15, PhaseMoves

-----------------------------------------------------------------------------
(* From the opening of a phase to the loop over its child.                    *)

\* What a step of a phase that moves no target may do to the controller.
Minor(k) ==
  /\ k \in ControllerRecord /\ (c.unknown => k.unknown) /\ (c.exhausted => k.exhausted)
  /\ \A f \in Core : k[f] = c[f]

LEMMA MinorWorks ==
  ASSUME Minor(c')
  PROVE  /\ Works /\ c'.active = c.active /\ (c.unknown => c'.unknown) /\ (c.exhausted => c'.exhausted)
         /\ c' \in ControllerRecord
BY DEF Minor, Works, Core

LEMMA MinorErrors ==
  ASSUME NEW k, Minor(k), NEW b \in BOOLEAN
  PROVE  Minor([k EXCEPT !.errors = b])
BY ErrorsEffect DEF Minor

LEMMA MinorUnknown ==
  ASSUME NEW k, Minor(k), NEW u \in BOOLEAN, k.unknown => u
  PROVE  Minor([k EXCEPT !.unknown = u])
BY UnknownEffect DEF Minor

LEMMA MinorMarked ==
  ASSUME c \in ControllerRecord
  PROVE  Minor([c EXCEPT !.exhausted = Marked(Fin)]) /\ Minor(c)
<1>1. Fin \in BOOLEAN
  BY DEF Fin
<1>2. Marked(Fin) \in BOOLEAN /\ (c.exhausted => Marked(Fin))
  BY <1>1, MarkedType
<1> QED
  BY <1>2, ExhaustedEffect DEF Minor

LEMMA PhaseStays ==
  ASSUME TestInv, NEW q, Phase(q), NEW p \in PhasePcs, PhaseGo(p)
  PROVE  /\ Stays(p) /\ p \in Pcs(ctl.op) \ {"done"} /\ ctl.op \in Labels /\ ctl.pc = q
         /\ ctl'.pc = p /\ ctl'.op = ctl.op
<1>1. Stays(p)
  BY StaysAt, PhaseBasics
<1> QED
  BY <1>1, PhaseLabel DEF Stays

\* A phase that has no child yet.
LEMMA Childless ==
  ASSUME TestInv, UNCHANGED dl, NEW q \in {"open", "spawn"}, Phase(q), NEW p \in {"spawn", "drain"}, PhaseGo(p),
         UNCHANGED <<now, cancelled, rows, child, requests, world>>, Minor(c'),
         ph' \in PhaseRecord, ph'.code = "none", ~ph'.asked
  PROVE  TestInv'
<1>1. /\ Stays(p) /\ p \in Pcs(ctl.op) \ {"done"} /\ ctl.op \in Labels /\ ctl.pc = q
      /\ ctl'.pc = p /\ ctl'.op = ctl.op
  BY PhaseStays DEF PhasePcs
<1>2. rows \in RowsRecord /\ child \in ChildRecord /\ requests \in Seq(Canonical) /\ ChildOK /\ RequestOK
  BY PhaseBasics
<1>3. /\ Works /\ c'.active = c.active /\ (c.unknown => c'.unknown) /\ (c.exhausted => c'.exhausted)
  BY MinorWorks
<1>4. child.st = "none" /\ c.active = "none"
  BY <1>1, <1>2 DEF ChildOK, RequestOK
<1>5. ChildOK'
  BY <1>1, <1>2, <1>4 DEF ChildOK
<1>6. RequestOK'
  BY <1>1, <1>2, <1>3, <1>4 DEF RequestOK
<1>7. ProductOK'
  BY <1>1, <1>3, <1>2, PhaseProduct
<1> QED
  BY <1>1, <1>2, <1>3, <1>5, <1>6, <1>7, PhaseMoves

\* An exception raised without a target goes to the finally.
LEMMA RaiseUntargeted ==
  ASSUME TestInv, NEW q, Phase(q), NEW k, Minor(k), c.active = "none", PhaseRaise(k)
  PROVE  /\ PhaseGo("drain") /\ Minor(c') /\ ph' \in PhaseRecord
         /\ ph'.code = ph.code /\ ph'.asked = ph.asked /\ ph'.late = ph.late
<1>1. k.active # ctl.op
  BY DEF Minor, Core, Phase, Labels, Finalizing, Canonical, Preparing
<1>2. c' = [k EXCEPT !.errors = TRUE] /\ ph' = [ph EXCEPT !.raised = TRUE, !.errs = TRUE] /\ PhaseGo("drain")
  BY <1>1 DEF PhaseRaise
<1>3. ph \in PhaseRecord
  BY PhaseBasics
<1> QED
  BY <1>2, <1>3, MinorErrors DEF PhaseRecord

LEMMA OpenKeeps ==
  ASSUME TestInv, UNCHANGED dl, PhaseOpen
  PROVE  TestInv'
<1> DEFINE k == [c EXCEPT !.exhausted = Marked(Fin)]
<1>1. c \in ControllerRecord /\ ph \in PhaseRecord /\ ChildOK /\ RequestOK
  BY PhaseBasics
<1>2. Phase("open") /\ UNCHANGED <<now, cancelled, rows, child, requests, world>>
  BY DEF PhaseOpen
<1>3. ph.code = "none" /\ ~ph.asked /\ c.active = "none"
  BY <1>1, <1>2 DEF Phase, ChildOK, RequestOK
<1>4. Minor(k)
  BY <1>1, MinorMarked
<1>5. \/ PhaseGo("spawn") /\ c' = k /\ ph' = [ph EXCEPT !.scope = TRUE]
      \/ PhaseRaise(k)
      \/ \E u \in BOOLEAN : PhaseRaise([c EXCEPT !.unknown = @ \/ u])
  BY DEF PhaseOpen
<1> HIDE DEF k
<1>6. CASE PhaseGo("spawn") /\ c' = k /\ ph' = [ph EXCEPT !.scope = TRUE]
  <2>1. ph' \in PhaseRecord /\ ph'.code = "none" /\ ~ph'.asked
    BY <1>1, <1>3, <1>6 DEF PhaseRecord
  <2> QED
    BY <1>2, <1>4, <1>6, <2>1, Childless
<1>7. ASSUME NEW m, Minor(m), PhaseRaise(m) PROVE TestInv'
  <2>1. /\ PhaseGo("drain") /\ Minor(c') /\ ph' \in PhaseRecord /\ ph'.code = "none" /\ ~ph'.asked
    BY <1>2, <1>3, <1>7, RaiseUntargeted
  <2> QED
    BY <1>2, <2>1, Childless
<1>8. ASSUME NEW u \in BOOLEAN PROVE Minor([c EXCEPT !.unknown = @ \/ u])
  <2>1. Minor(c) /\ (c.unknown \/ u) \in BOOLEAN
    BY <1>1, MinorMarked
  <2> QED
    BY <2>1, MinorUnknown
<1> QED
  BY <1>4, <1>5, <1>6, <1>7, <1>8

LEMMA SpawnKeeps ==
  ASSUME TestInv, UNCHANGED dl, PhaseSpawn
  PROVE  TestInv'
<1> DEFINE k == [c EXCEPT !.exhausted = Marked(Fin)]
           launched == [k EXCEPT !.product = @ \/ ctl.op = "product"]
           target == IF ctl.op \in Canonical THEN ctl.op ELSE launched.active
           made == launched.created \/ ctl.op = "product"
<1>1. c \in ControllerRecord /\ ph \in PhaseRecord /\ ChildOK /\ RequestOK /\ now \in Nat /\ rows \in RowsRecord
      /\ child \in ChildRecord /\ requests \in Seq(Canonical) /\ cancelled \in BOOLEAN
  BY PhaseBasics
<1>2. Phase("spawn") /\ UNCHANGED <<now, cancelled, rows, requests, world>>
  BY DEF PhaseSpawn
<1>3. ph.code = "none" /\ ~ph.asked /\ c.active = "none" /\ child.st = "none"
  BY <1>1, <1>2 DEF Phase, ChildOK, RequestOK
<1>4. Minor(k)
  BY <1>1, MinorMarked
<1>5. k.exhausted = Marked(Fin)
  <2>1. Marked(Fin) \in BOOLEAN
    <3>1. Fin \in BOOLEAN
      BY DEF Fin
    <3> QED
      BY <1>1, <3>1, MarkedType
  <2> QED
    BY <1>1, <2>1, ExhaustedEffect
<1>6. \/ /\ Check(Fin) /\ PhaseGo("check")
         /\ c' = [launched EXCEPT !.active = target, !.created = made]
         /\ child' = [NoChild EXCEPT !.st = "running"] /\ ph' = [ph EXCEPT !.launched = TRUE]
      \/ PhaseRaise(k) /\ UNCHANGED child
      \/ /\ Check(Fin) /\ PhaseGo("drain") /\ ph' = [ph EXCEPT !.raised = TRUE, !.errs = TRUE, !.launched = TRUE]
         /\ \E born \in BOOLEAN :
              /\ child' = IF born THEN [NoChild EXCEPT !.st = "running"] ELSE child
              /\ c' = [launched EXCEPT !.errors = TRUE, !.created = @ \/ (born /\ ctl.op = "product")]
  BY DEF PhaseSpawn
<1> HIDE DEF k
<1>7. Minor(launched) /\ launched.exhausted = k.exhausted
  <2>1. (k.product \/ ctl.op = "product") \in BOOLEAN /\ k \in ControllerRecord
    BY <1>4 DEF Minor
  <2>2. /\ launched \in ControllerRecord /\ launched.unknown = k.unknown /\ launched.exhausted = k.exhausted
        /\ \A f \in Core : launched[f] = k[f]
    BY <2>1, ZenonT(40) DEF ControllerRecord, Core
  <2> QED
    BY <1>4, <2>2 DEF Minor
<1> HIDE DEF launched
<1>8. CASE PhaseRaise(k) /\ UNCHANGED child
  <2>1. /\ PhaseGo("drain") /\ Minor(c') /\ ph' \in PhaseRecord /\ ph'.code = "none" /\ ~ph'.asked
    BY <1>2, <1>3, <1>4, <1>8, RaiseUntargeted
  <2> QED
    BY <1>2, <1>8, <2>1, Childless
<1>11. ctl.op \in Canonical /\ Check(Fin) => ~launched.exhausted /\ requests = <<>>
  <2>1. ctl.op \in Canonical => ~Fin
    BY CanonicalWork DEF Fin
  <2>2. ctl.op \in Canonical /\ Check(Fin) => ~c.exhausted /\ ~cancelled /\ ~(now >= Productive)
    BY <1>1, <2>1, FenceAssumption DEF Check
  <2>3. ctl.op \in Canonical /\ Check(Fin) => ~Marked(Fin)
    BY <2>2 DEF Marked
  <2> QED
    BY <1>1, <1>5, <1>7, <2>2, <2>3 DEF RequestOK
<1>9. CASE /\ Check(Fin) /\ PhaseGo("drain") /\ ph' = [ph EXCEPT !.raised = TRUE, !.errs = TRUE, !.launched = TRUE]
           /\ \E born \in BOOLEAN :
                /\ child' = IF born THEN [NoChild EXCEPT !.st = "running"] ELSE child
                /\ c' = [launched EXCEPT !.errors = TRUE, !.created = @ \/ (born /\ ctl.op = "product")]
  <2>1. PICK born \in BOOLEAN :
          /\ child' = IF born THEN [NoChild EXCEPT !.st = "running"] ELSE child
          /\ c' = [launched EXCEPT !.errors = TRUE, !.created = @ \/ (born /\ ctl.op = "product")]
    BY <1>9
  <2>2. ph' \in PhaseRecord /\ ph'.code = "none" /\ ~ph'.asked
    BY <1>1, <1>3, <1>9 DEF PhaseRecord
  <2>3. Minor(c') /\ c'.exhausted = launched.exhausted
    <3>1. launched \in ControllerRecord /\ (launched.created \/ (born /\ ctl.op = "product")) \in BOOLEAN
      BY <1>7 DEF Minor
    <3>2. /\ c' \in ControllerRecord /\ c'.unknown = launched.unknown /\ c'.exhausted = launched.exhausted
          /\ \A f \in Core : c'[f] = launched[f]
      BY <2>1, <3>1 DEF ControllerRecord, Core
    <3> QED
      BY <1>7, <3>2 DEF Minor
  <2>4. CASE ~born
    BY <1>2, <1>9, <2>1, <2>2, <2>3, <2>4, Childless
  <2>5. CASE born
    <3>1. /\ Stays("drain") /\ "drain" \in Pcs(ctl.op) \ {"done"} /\ ctl.op \in Labels /\ ctl.pc = "spawn"
          /\ ctl'.pc = "drain" /\ ctl'.op = ctl.op
      BY <1>2, <1>9, PhaseStays DEF PhasePcs
    <3>2. child' \in ChildRecord /\ child'.st = "running" /\ child'.code = "none" /\ child'.seen = "none"
      BY <2>1, <2>5 DEF ChildRecord, NoChild
    <3>3. Works /\ c'.active = "none" /\ (c.exhausted => c'.exhausted) /\ (c.unknown => c'.unknown)
      BY <1>3, <2>3, MinorWorks
    <3>4. ChildOK'
      BY <2>2, <3>1, <3>2 DEF ChildOK
    <3>5. RequestOK'
      BY <1>1, <1>2, <1>9, <1>11, <2>3, <3>1, <3>2, <3>3 DEF RequestOK
    <3>6. ProductOK'
      BY <1>2, <2>2, <3>1, <3>2, <3>3, PhaseProduct
    <3> QED
      BY <1>1, <1>2, <2>2, <3>1, <3>2, <3>3, <3>4, <3>5, <3>6, PhaseMoves
  <2> QED
    BY <2>4, <2>5
<1>10. CASE /\ Check(Fin) /\ PhaseGo("check")
            /\ c' = [launched EXCEPT !.active = target, !.created = made]
            /\ child' = [NoChild EXCEPT !.st = "running"] /\ ph' = [ph EXCEPT !.launched = TRUE]
  <2>1. launched \in ControllerRecord /\ launched.active = "none" /\ (c.unknown => launched.unknown)
    BY <1>3, <1>7 DEF Minor, Core
  <2>2. target \in Canonical \cup {"none"} /\ made \in BOOLEAN
    BY <2>1
  <2>3. /\ c' \in ControllerRecord /\ c'.active = target /\ c'.exhausted = launched.exhausted
        /\ c'.unknown = launched.unknown /\ \A f \in Core \ {"active"} : c'[f] = launched[f]
    <3> HIDE DEF target, made
    <3> QED
      BY <1>10, <2>1, <2>2 DEF ControllerRecord, Core
  <2>4. Works /\ (c.exhausted => c'.exhausted) /\ (c.unknown => c'.unknown)
    BY <1>7, <2>3 DEF Works, Minor
  <2>5. /\ Stays("check") /\ "check" \in Pcs(ctl.op) \ {"done"} /\ ctl.op \in Labels /\ ctl.pc = "spawn"
        /\ ctl'.pc = "check" /\ ctl'.op = ctl.op
    BY <1>2, <1>10, PhaseStays DEF PhasePcs
  <2>6. /\ child' \in ChildRecord /\ child'.st = "running" /\ child'.code = "none" /\ child'.seen = "none"
        /\ ph' \in PhaseRecord /\ ph'.code = "none" /\ ~ph'.asked
    BY <1>1, <1>3, <1>10 DEF ChildRecord, NoChild, PhaseRecord
  <2>7. ctl.op \in Canonical => ~c'.exhausted /\ requests = <<>>
    BY <1>10, <1>11, <2>3
  <2>8. ChildOK'
    BY <2>5, <2>6 DEF ChildOK
  <2>9. RequestOK'
    BY <1>1, <1>2, <2>1, <2>3, <2>4, <2>5, <2>6, <2>7 DEF RequestOK
  <2>10. ProductOK'
    BY <1>2, <2>4, <2>5, <2>6, PhaseProduct
  <2> QED
    BY <1>1, <1>2, <2>4, <2>5, <2>6, <2>8, <2>9, <2>10, PhaseMoves
<1> QED
  BY <1>6, <1>8, <1>9, <1>10

-----------------------------------------------------------------------------
(* The loop over the child, and the requests it makes.                        *)

LEMMA SeenEffect ==
  ASSUME NEW k, Minor(k)
  PROVE  Minor(Seen(k)) /\ Seen(k).exhausted = (k.exhausted \/ Cutoff)
<1> DEFINE x == k.exhausted \/ Cutoff
<1>1. k \in ControllerRecord
  BY DEF Minor
<1>2. x \in BOOLEAN /\ (k.exhausted => x)
  OBVIOUS
<1>3. Seen(k) = [k EXCEPT !.exhausted = x]
  BY DEF Seen
<1> HIDE DEF x
<1>4. /\ Seen(k) \in ControllerRecord /\ Seen(k).exhausted = x /\ Seen(k).unknown = k.unknown
      /\ \A f \in Core : Seen(k)[f] = k[f]
  BY <1>1, <1>2, <1>3, ExhaustedEffect
<1>5. Minor(Seen(k))
  BY <1>2, <1>4 DEF Minor
<1> QED
  BY <1>4, <1>5 DEF x

\* Only a canonical child that is the target is asked.
LEMMA AskTarget ==
  ASSUME TestInv, Ask, ctl.op \in Labels
  PROVE  ctl.op \in Canonical /\ c.active = ctl.op /\ ~ph.asked /\ (Cutoff \/ cancelled) /\ ~Fin
<1>1. c.active \in Canonical \cup {"none"}
  BY PhaseBasics DEF ControllerRecord
<1>2. c.active = ctl.op /\ ctl.op # "none"
  BY DEF Ask, Labels, Finalizing, Canonical, Preparing
<1> QED
  BY <1>1, <1>2, CanonicalWork DEF Ask, Stop, Fin

\* A request is recorded with its phase; while the child is a target, the
\* exhausted budget and the requests so far are this phase's.
LEMMA RequestEffect ==
  ASSUME TestInv, ctl.op \in Labels, ctl.pc \in {"check", "caught", "again"}, Request
  PROVE  /\ requests' \in Seq(Canonical)
         /\ requests' # <<>> => cancelled \/ c.exhausted \/ Cutoff
         /\ ctl.op \in Canonical /\ ctl.pc # "again" =>
              /\ c.active = ctl.op /\ (requests' # <<>> => ph.asked \/ Ask)
              /\ (ph.asked \/ Ask => \E i \in 1 .. Len(requests') : requests'[i] = ctl.op)
              /\ (c.exhausted \/ Cutoff => ph.asked \/ Ask)
<1>1. requests \in Seq(Canonical) /\ RequestOK
  BY PhaseBasics
<1>2. ASSUME ctl.op \in Canonical, ctl.pc # "again"
      PROVE  /\ c.active = ctl.op /\ (requests # <<>> => ph.asked) /\ (ph.asked => Asked(ctl.op))
             /\ (c.exhausted => ph.asked) /\ (Cutoff => ph.asked \/ Ask)
    <2>1. ~Fin
      BY <1>2, CanonicalWork DEF Fin
    <2> QED
      BY <1>1, <1>2, <2>1 DEF RequestOK, Ask, Stop
<1>3. CASE ~Ask
  <2>1. requests' = requests
    BY <1>3 DEF Request
  <2> QED
    BY <1>1, <1>2, <1>3, <2>1 DEF Asked, RequestOK
<1>4. CASE Ask
  <2>1. ctl.op \in Canonical /\ (Cutoff \/ cancelled)
    BY <1>4, AskTarget
  <2>2. requests' = Append(requests, ctl.op)
    BY <1>4 DEF Request
  <2>3. /\ requests' \in Seq(Canonical) /\ Len(requests') = Len(requests) + 1
        /\ Len(requests') \in 1 .. Len(requests') /\ requests'[Len(requests')] = ctl.op
    BY <1>1, <2>1, <2>2
  <2> QED
    BY <1>2, <1>4, <2>1, <2>3
<1> QED
  BY <1>3, <1>4

\* The head of the loop and the handler: the request, then the look or the
\* finally.
LEMMA AskingKeeps ==
  ASSUME TestInv, UNCHANGED <<dl, now, cancelled, rows, child, world>>, NEW q \in {"check", "caught"}, Phase(q), Request,
         NEW p \in {"look", "caught", "drain"}, PhaseGo(p), q = "check" /\ p = "drain" => c.active # ctl.op,
         Minor(c'), c'.exhausted = (c.exhausted \/ Cutoff),
         ph' \in PhaseRecord, ph'.code = ph.code, ph'.asked = (ph.asked \/ Ask)
  PROVE  TestInv'
<1>1. /\ Stays(p) /\ p \in Pcs(ctl.op) \ {"done"} /\ ctl.op \in Labels /\ ctl.pc = q
      /\ ctl'.pc = p /\ ctl'.op = ctl.op
  BY PhaseStays DEF PhasePcs
<1>2. rows \in RowsRecord /\ child \in ChildRecord /\ ChildOK /\ RequestOK
  BY PhaseBasics
<1>3. /\ Works /\ c'.active = c.active /\ (c.unknown => c'.unknown)
  BY MinorWorks
<1>4. ph'.code = "none"
  BY <1>1, <1>2 DEF ChildOK
<1>5. ChildOK'
  BY <1>1, <1>2, <1>4 DEF ChildOK
<1>6. /\ requests' \in Seq(Canonical)
      /\ requests' # <<>> => cancelled \/ c.exhausted \/ Cutoff
      /\ ctl.op \in Canonical =>
           /\ c.active = ctl.op /\ (requests' # <<>> => ph.asked \/ Ask)
           /\ (ph.asked \/ Ask => \E i \in 1 .. Len(requests') : requests'[i] = ctl.op)
           /\ (c.exhausted \/ Cutoff => ph.asked \/ Ask)
  BY <1>1, RequestEffect
<1>7. ctl.op \in Canonical /\ ph'.asked => Asked(ctl.op)'
  BY <1>1, <1>6 DEF Asked
<1>8. RequestOK'
  BY <1>1, <1>2, <1>3, <1>6, <1>7 DEF RequestOK
<1>9. ProductOK'
  BY <1>1, <1>2, <1>3, <1>4, PhaseProduct
<1> QED
  BY <1>1, <1>2, <1>3, <1>5, <1>6, <1>8, <1>9, PhaseMoves

LEMMA CheckKeeps ==
  ASSUME TestInv, UNCHANGED dl, PhaseCheck
  PROVE  TestInv'
<1>1. c \in ControllerRecord /\ ph \in PhaseRecord
  BY PhaseBasics
<1>2. Phase("check") /\ Request /\ UNCHANGED <<dl, now, cancelled, rows, child, world>>
  BY DEF PhaseCheck
<1>3. Minor(Seen(c)) /\ Seen(c).exhausted = (c.exhausted \/ Cutoff)
  BY <1>1, MinorMarked, SeenEffect
<1>4. \/ PhaseGo("look") /\ c' = Seen(c) /\ ph' = [ph EXCEPT !.asked = @ \/ Ask]
      \/ /\ PhaseGo(IF c.active = ctl.op THEN "caught" ELSE "drain")
         /\ c' = [Seen(c) EXCEPT !.errors = TRUE] /\ ph' = [ph EXCEPT !.raised = TRUE, !.errs = TRUE, !.asked = @ \/ Ask]
  BY DEF PhaseCheck
<1>5. (ph.asked \/ Ask) \in BOOLEAN
  OBVIOUS
<1>6. ph' \in PhaseRecord /\ ph'.code = ph.code /\ ph'.asked = (ph.asked \/ Ask)
  BY <1>1, <1>4, <1>5 DEF PhaseRecord
<1>7. Minor(c') /\ c'.exhausted = (c.exhausted \/ Cutoff)
  <2>1. Minor([Seen(c) EXCEPT !.errors = TRUE]) /\ Seen(c) \in ControllerRecord
    BY <1>3, MinorErrors DEF Minor
  <2>2. [Seen(c) EXCEPT !.errors = TRUE].exhausted = Seen(c).exhausted
    BY <2>1, ErrorsEffect
  <2> QED
    BY <1>3, <1>4, <2>1, <2>2
<1>8. PICK p \in {"look", "caught", "drain"} : PhaseGo(p) /\ (p = "drain" => c.active # ctl.op)
  BY <1>4
<1> QED
  BY <1>2, <1>6, <1>7, <1>8, AskingKeeps

LEMMA CaughtKeeps ==
  ASSUME TestInv, UNCHANGED dl, PhaseCaught
  PROVE  TestInv'
<1>1. c \in ControllerRecord /\ ph \in PhaseRecord
  BY PhaseBasics
<1>2. /\ Phase("caught") /\ Request /\ PhaseGo("drain") /\ UNCHANGED <<dl, now, cancelled, rows, child, world>>
      /\ c' = Seen(c) /\ ph' = [ph EXCEPT !.asked = @ \/ Ask]
  BY DEF PhaseCaught
<1>3. Minor(c') /\ c'.exhausted = (c.exhausted \/ Cutoff)
  BY <1>1, <1>2, MinorMarked, SeenEffect
<1>4. (ph.asked \/ Ask) \in BOOLEAN
  OBVIOUS
<1>5. ph' \in PhaseRecord /\ ph'.code = ph.code /\ ph'.asked = (ph.asked \/ Ask)
  BY <1>1, <1>2, <1>4 DEF PhaseRecord
<1> QED
  BY <1>2, <1>3, <1>5, AskingKeeps

\* The child is no longer a target.
LEMMA Untargeted ==
  ASSUME c \in ControllerRecord, c' = [c EXCEPT !.active = "none"]
  PROVE  /\ Works /\ c'.active = "none" /\ c'.unknown = c.unknown /\ c'.exhausted = c.exhausted
<1>1. "none" \in Canonical \cup {"none"}
  OBVIOUS
<1>2. /\ c' \in ControllerRecord /\ c'.exhausted = c.exhausted /\ c'.unknown = c.unknown /\ c'.active = "none"
      /\ \A f \in Core \ {"active"} : c'[f] = c[f]
  BY <1>1, ActiveEffect
<1> QED
  BY <1>2 DEF Works

LEMMA LookKeeps ==
  ASSUME TestInv, UNCHANGED dl, PhaseLook
  PROVE  TestInv'
<1>1. c \in ControllerRecord /\ ph \in PhaseRecord /\ child \in ChildRecord /\ rows \in RowsRecord
      /\ requests \in Seq(Canonical) /\ ChildOK /\ RequestOK
  BY PhaseBasics
<1>2. Phase("look") /\ UNCHANGED <<dl, now, cancelled, rows, requests, world>>
  BY DEF PhaseLook
<1>3. \/ /\ child.st = "returned" /\ PhaseGo("again") /\ c' = [c EXCEPT !.active = "none"]
         /\ ph' = [ph EXCEPT !.code = child.code] /\ child' = [child EXCEPT !.st = "consumed"]
      \/ PhaseGo("check") /\ UNCHANGED <<c, ph, child>>
      \/ PhaseRaise(c) /\ UNCHANGED child
  BY DEF PhaseLook
<1>4. CASE /\ child.st = "returned" /\ PhaseGo("again") /\ c' = [c EXCEPT !.active = "none"]
           /\ ph' = [ph EXCEPT !.code = child.code] /\ child' = [child EXCEPT !.st = "consumed"]
  <2>1. /\ Stays("again") /\ "again" \in Pcs(ctl.op) \ {"done"} /\ ctl.op \in Labels /\ ctl.pc = "look"
        /\ ctl'.pc = "again" /\ ctl'.op = ctl.op
    BY <1>2, <1>4, PhaseStays DEF PhasePcs
  <2>2. /\ Works /\ c'.active = "none" /\ (c.unknown => c'.unknown) /\ (c.exhausted => c'.exhausted)
    BY <1>1, <1>4, Untargeted
  <2>3. ph' \in PhaseRecord /\ ph'.code = child.code
    BY <1>1, <1>4 DEF PhaseRecord, ChildRecord
  <2>4. child' \in ChildRecord /\ child'.st = "consumed" /\ child'.code = child.code /\ child'.seen = child.seen
    BY <1>1, <1>4 DEF ChildRecord
  <2>5. ChildOK'
    BY <1>1, <1>2, <2>1, <2>3, <2>4 DEF ChildOK
  <2>6. RequestOK'
    BY <1>1, <1>2, <2>1, <2>2, <2>4 DEF RequestOK
  <2>7. ProductOK'
    BY <1>2, <2>1, <2>2, <2>4, PhaseProduct
  <2> QED
    BY <1>1, <1>2, <2>1, <2>2, <2>3, <2>4, <2>5, <2>6, <2>7, PhaseMoves
<1>5. ASSUME NEW p \in {"check", "caught", "drain"}, PhaseGo(p), p = "drain" => c.active # ctl.op, UNCHANGED child, Minor(c'),
             c'.exhausted = c.exhausted, ph' \in PhaseRecord, ph'.code = ph.code, ph'.asked = ph.asked
      PROVE  TestInv'
  <2>1. /\ Stays(p) /\ p \in Pcs(ctl.op) \ {"done"} /\ ctl.op \in Labels /\ ctl.pc = "look"
        /\ ctl'.pc = p /\ ctl'.op = ctl.op
    BY <1>2, <1>5, PhaseStays DEF PhasePcs
  <2>2. /\ Works /\ c'.active = c.active /\ (c.unknown => c'.unknown)
    BY <1>5, MinorWorks
  <2>3. ph'.code = "none"
    BY <1>1, <1>5, <2>1 DEF ChildOK
  <2>4. ChildOK'
    BY <1>1, <1>2, <1>5, <2>1, <2>3 DEF ChildOK
  <2>5. RequestOK'
    BY <1>1, <1>2, <1>5, <2>1, <2>2 DEF RequestOK, Asked
  <2>6. ProductOK'
    BY <1>1, <1>2, <1>5, <2>1, <2>2, <2>3, PhaseProduct
  <2> QED
    BY <1>1, <1>2, <1>5, <2>1, <2>2, <2>4, <2>5, <2>6, PhaseMoves
<1>6. CASE PhaseGo("check") /\ UNCHANGED <<c, ph, child>>
  BY <1>1, <1>5, <1>6, MinorMarked
<1>7. CASE PhaseRaise(c) /\ UNCHANGED child
  <2>1. /\ PhaseGo(IF c.active = ctl.op THEN "caught" ELSE "drain")
        /\ c' = [c EXCEPT !.errors = TRUE] /\ ph' = [ph EXCEPT !.raised = TRUE, !.errs = TRUE]
    BY <1>7 DEF PhaseRaise
  <2>2. Minor(c') /\ c'.exhausted = c.exhausted
    BY <1>1, <2>1, MinorMarked, MinorErrors, ErrorsEffect
  <2>3. ph' \in PhaseRecord /\ ph'.code = ph.code /\ ph'.asked = ph.asked
    BY <1>1, <2>1 DEF PhaseRecord
  <2>4. PICK p \in {"check", "caught", "drain"} : PhaseGo(p) /\ (p = "drain" => c.active # ctl.op)
    BY <2>1
  <2> QED
    BY <1>5, <1>7, <2>2, <2>3, <2>4
<1> QED
  BY <1>3, <1>4, <1>6, <1>7

-----------------------------------------------------------------------------
(* After the return.                                                          *)

LEMMA AgainKeeps ==
  ASSUME TestInv, UNCHANGED dl, PhaseAgain
  PROVE  TestInv'
<1> DEFINE bad == GiveUp \/ now >= WorkEnd(ctl.op)
           wrong == Seen(c).errors \/ bad
           asked == ph.asked \/ Ask
           late == now >= Productive
<1>1. c \in ControllerRecord /\ ph \in PhaseRecord /\ child \in ChildRecord /\ rows \in RowsRecord
      /\ requests \in Seq(Canonical) /\ ChildOK /\ RequestOK /\ ProductOK
  BY PhaseBasics
<1>2. /\ Phase("again") /\ Request /\ PhaseGo("drain") /\ UNCHANGED <<dl, now, cancelled, rows, child, world>>
      /\ c' = [Seen(c) EXCEPT !.errors = wrong]
      /\ ph' = [ph EXCEPT !.raised = bad, !.errs = bad, !.late = late, !.asked = asked]
  BY DEF PhaseAgain
<1>3. /\ Stays("drain") /\ "drain" \in Pcs(ctl.op) \ {"done"} /\ ctl.op \in Labels /\ ctl.pc = "again"
      /\ ctl'.pc = "drain" /\ ctl'.op = ctl.op
  BY <1>2, PhaseStays DEF PhasePcs
<1>4. bad \in BOOLEAN /\ wrong \in BOOLEAN /\ asked \in BOOLEAN /\ late \in BOOLEAN
  OBVIOUS
<1>5. child.st = "consumed" /\ c.active = "none"
  BY <1>1, <1>3 DEF ChildOK, RequestOK
<1>6. requests' = requests
  <2>1. ~Ask
    BY <1>3, <1>5, AskTarget, CanonicalWork
  <2> QED
    BY <1>2, <2>1 DEF Request
<1>7. ctl.op = "product" /\ child.code = "zero" /\ ~late => world.product = "passed"
  BY <1>1, <1>3 DEF ProductOK
<1> HIDE DEF bad, wrong, asked, late
<1>8. Minor(c')
  BY <1>1, <1>2, <1>4, MinorMarked, SeenEffect, MinorErrors
<1>9. /\ Works /\ c'.active = c.active /\ (c.unknown => c'.unknown) /\ (c.exhausted => c'.exhausted)
  BY <1>8, MinorWorks
<1>10. ph' \in PhaseRecord /\ ph'.code = ph.code /\ ph'.late = late
  BY <1>1, <1>2, <1>4 DEF PhaseRecord
<1>11. ChildOK'
  BY <1>1, <1>2, <1>3, <1>10 DEF ChildOK
<1>12. RequestOK'
  BY <1>1, <1>2, <1>3, <1>5, <1>6, <1>9 DEF RequestOK
<1>13. ph.code = "zero" => child.code = "zero"
  BY <1>1 DEF ChildOK
<1>14. ProductOK'
  BY <1>1, <1>2, <1>3, <1>7, <1>9, <1>10, <1>13, PhaseProduct
<1> QED
  BY <1>1, <1>2, <1>3, <1>6, <1>9, <1>10, <1>11, <1>12, <1>14, PhaseMoves

LEMMA KilledEffect ==
  ASSUME child \in ChildRecord, child' \in {child, [child EXCEPT !.st = "killed"]}, child' # child => child.st = "running"
  PROVE  /\ child' \in ChildRecord /\ child'.code = child.code /\ child'.seen = child.seen
         /\ child'.st = child.st \/ (child.st = "running" /\ child'.st = "killed")
BY DEF ChildRecord

LEMMA UnknownErrors ==
  ASSUME c \in ControllerRecord, c' = [c EXCEPT !.unknown = TRUE, !.errors = TRUE]
  PROVE  Minor(c')
BY DEF Minor, ControllerRecord, Core

LEMMA DrainKeeps ==
  ASSUME TestInv, UNCHANGED dl, PhaseDrain
  PROVE  TestInv'
<1>1. c \in ControllerRecord /\ ph \in PhaseRecord /\ child \in ChildRecord /\ rows \in RowsRecord
      /\ requests \in Seq(Canonical) /\ ChildOK /\ RequestOK /\ ProductOK
  BY PhaseBasics
<1>2. Phase("drain") /\ PhaseGo("receipt") /\ UNCHANGED <<now, cancelled, rows, requests, world>>
  BY DEF PhaseDrain
<1>3. /\ Stays("receipt") /\ "receipt" \in Pcs(ctl.op) \ {"done"} /\ ctl.op \in Labels /\ ctl.pc = "drain"
      /\ ctl'.pc = "receipt" /\ ctl'.op = ctl.op
  BY <1>2, PhaseStays DEF PhasePcs
<1>4. child' \in {child, [child EXCEPT !.st = "killed"]} /\ (child' # child => child.st = "running")
  BY DEF PhaseDrain
<1>5. c' = [c EXCEPT !.active = "none"] \/ c' = [c EXCEPT !.unknown = TRUE, !.errors = TRUE] \/ c' = c
  BY DEF PhaseDrain
<1>6. ph' = ph \/ ph' = [ph EXCEPT !.errs = TRUE]
  BY DEF PhaseDrain
<1>7. /\ child' \in ChildRecord /\ child'.code = child.code /\ child'.seen = child.seen
      /\ child'.st = child.st \/ (child.st = "running" /\ child'.st = "killed")
  BY <1>1, <1>4, KilledEffect
<1>8. ph' \in PhaseRecord /\ ph'.code = ph.code /\ ph'.late = ph.late
  BY <1>1, <1>6 DEF PhaseRecord
<1>9. /\ Works /\ c'.active \in {c.active, "none"} /\ (c.unknown => c'.unknown) /\ (c.exhausted => c'.exhausted)
  <2>1. CASE c' = [c EXCEPT !.active = "none"]
    BY <1>1, <2>1, Untargeted
  <2>2. CASE c' = [c EXCEPT !.unknown = TRUE, !.errors = TRUE]
    BY <1>1, <2>2, UnknownErrors, MinorWorks
  <2>3. CASE c' = c
    BY <1>1, <2>3 DEF Works
  <2> QED
    BY <1>5, <2>1, <2>2, <2>3
<1>10. ChildOK'
  BY <1>1, <1>2, <1>3, <1>7, <1>8 DEF ChildOK
<1>11. RequestOK'
  BY <1>1, <1>2, <1>3, <1>7, <1>9 DEF RequestOK
<1>12. ctl.op = "product" /\ ph'.code = "zero" /\ ~ph'.late => world.product = "passed"
  BY <1>1, <1>3, <1>8 DEF ProductOK
<1>13. ProductOK'
  BY <1>2, <1>3, <1>7, <1>9, <1>12, PhaseProduct
<1> QED
  BY <1>1, <1>2, <1>3, <1>7, <1>8, <1>9, <1>10, <1>11, <1>13, PhaseMoves

\* The receipt: a clean row says what the child did.
LEMMA ReceiptKeeps ==
  ASSUME TestInv, UNCHANGED dl, PhaseReceipt
  PROVE  TestInv'
<1>1. c \in ControllerRecord /\ ph \in PhaseRecord /\ child \in ChildRecord /\ rows \in RowsRecord
      /\ requests \in Seq(Canonical) /\ ControlOK /\ ChildOK /\ RequestOK /\ ProductOK
  BY PhaseBasics
<1>2. Phase("receipt") /\ PhaseGo("ret") /\ UNCHANGED <<now, cancelled, child, requests, world>>
  BY DEF PhaseReceipt
<1>3. PICK e \in BOOLEAN, x \in BOOLEAN, r \in BOOLEAN :
        c' = [c EXCEPT !.errors = e] /\ ph' = [ph EXCEPT !.errs = x, !.raised = r]
  BY DEF PhaseReceipt
<1>4. \/ rows' = rows
      \/ rows' = [rows EXCEPT !.clean = @ \cup {ctl.op}] /\ ph.code = "zero" /\ (Fin \/ ~ph.late)
  BY DEF PhaseReceipt
<1>5. /\ Stays("ret") /\ "ret" \in Pcs(ctl.op) \ {"done"} /\ ctl.op \in Labels /\ ctl.pc = "receipt"
      /\ ctl'.pc = "ret" /\ ctl'.op = ctl.op
  BY <1>2, PhaseStays DEF PhasePcs
<1>6. /\ Works /\ c'.active = c.active /\ (c.unknown => c'.unknown) /\ (c.exhausted => c'.exhausted)
  BY <1>1, <1>3, MinorMarked, MinorErrors, MinorWorks
<1>7. ph' \in PhaseRecord /\ ph'.code = ph.code
  BY <1>1, <1>3 DEF PhaseRecord
<1>8. /\ rows' \in RowsRecord /\ rows'.all = rows.all
      /\ rows'.clean = rows.clean \/ (rows'.clean = rows.clean \cup {ctl.op} /\ ph.code = "zero" /\ (Fin \/ ~ph.late))
  BY <1>1, <1>4, <1>5 DEF RowsRecord
<1>9. c'.exit = "none"
  BY <1>1, <1>5, <1>6 DEF ControlOK, Works, Core
<1>10. ChildOK'
  BY <1>1, <1>2, <1>5, <1>7 DEF ChildOK
<1>11. RequestOK'
  BY <1>1, <1>2, <1>5, <1>6 DEF RequestOK
<1>12. ProductOK'
  <2>1. ctl.op \in Early => ctl.op \notin {"product", "custody-uninstall"}
    BY DEF Early, RestoreOps, Setup
  <2>2. "product" \notin Finalizing
    BY DEF Finalizing
  <2>3. ph.code = "zero" => child.st # "running" /\ child.code = "zero"
    BY <1>1 DEF ChildOK
  <2>4. ctl.op = "product" /\ ph.code = "zero" /\ (Fin \/ ~ph.late) => world.product = "passed"
    BY <1>1, <1>5, <2>2 DEF ProductOK, Fin
  <2>5. ctl.op = "custody-uninstall" /\ ph.code = "zero" => ~world.loader
    BY <1>1, <1>5, <2>3 DEF ProductOK
  <2>6. "product" \in rows.clean => ctl.op # "product"
    BY <1>1, <1>5 DEF ProductOK
  <2> QED
    BY <1>1, <1>2, <1>5, <1>7, <1>8, <1>9, <2>1, <2>3, <2>4, <2>5, <2>6 DEF ProductOK
<1> QED
  BY <1>1, <1>2, <1>5, <1>6, <1>7, <1>8, <1>10, <1>11, <1>12, PhaseMoves

LEMMA PhaseKeeps ==
  ASSUME TestInv, UNCHANGED dl, PhaseNext
  PROVE  TestInv'
BY AdmitKeeps, OpenKeeps, SpawnKeeps, CheckKeeps, LookKeeps, AgainKeeps, CaughtKeeps, DrainKeeps, ReceiptKeeps
   DEF PhaseNext

-----------------------------------------------------------------------------
(* The provider's service before the run.                                     *)

LEMMA ServiceOp == "service" \notin Labels /\ "service" \notin Canonical /\ "service" \in Early
BY DEF Labels, Finalizing, Canonical, Preparing, Early, RestoreOps

\* A step of the service: its child is no target.
LEMMA ServiceStep ==
  ASSUME TestInv, UNCHANGED <<dl, now, cancelled, rows, requests, world>>, ctl.op = "service", ctl.pc \notin {"ret", "done"},
         NEW p \in {"spawn", "poll", "drain", "ret"}, PhaseGo(p), Works, c'.active = c.active, c.exhausted => c'.exhausted,
         ph' \in PhaseRecord, child' \in ChildRecord, child'.st \in {"none", "running", "killed"} \cup {child.st},
         child'.st = "consumed" => child.st = "consumed",
         child'.st \in {"none", "running", "killed"} => child'.code = "none",
         child'.code \in {"none", child.code}, child'.seen \in {"none", child.seen},
         child'.st \in {"none", "running", "killed"} => child'.seen = "none", ctl.pc = "op" => child'.code = "none",
         ph'.code # "none" => child'.st \in {"returned", "consumed"} /\ ph'.code = child'.code,
         p = "spawn" => ph'.code = "none"
  PROVE  TestInv'
<1>1. rows \in RowsRecord /\ requests \in Seq(Canonical) /\ ctl \in ControlRecord /\ ChildOK /\ RequestOK
  BY PhaseBasics
<1>2. Stays(p) /\ ctl'.pc = p /\ ctl'.op = "service"
  <2>1. Stays(p)
    BY <1>1, StaysAt DEF PhasePcs
  <2> QED
    BY <2>1 DEF Stays
<1>3. p \in Pcs(ctl.op) \ {"done"}
  BY ServiceOp DEF Pcs
<1>4. ChildOK'
  BY <1>1, <1>2, ServiceOp DEF ChildOK
<1>5. RequestOK'
  BY <1>1, <1>2, ServiceOp DEF RequestOK
<1>6. ProductOK'
  BY <1>2, PhaseProduct
<1> QED
  BY <1>1, <1>2, <1>3, <1>4, <1>5, <1>6, ServiceOp, PhaseMoves

LEMMA ServiceOpenKeeps ==
  ASSUME TestInv, UNCHANGED dl, ServiceOpen
  PROVE  TestInv'
<1>1. c \in ControllerRecord
  BY PhaseBasics
<1>2. ctl.op = "service" /\ ctl.pc = "op" /\ child' = NoChild /\ UNCHANGED <<dl, now, cancelled, rows, requests, world>>
  BY DEF ServiceOpen
<1>3. PICK u \in BOOLEAN :
        \/ PhaseGo("spawn") /\ UNCHANGED c /\ ph' = [NoPhase EXCEPT !.scope = TRUE]
        \/ PhaseGo("drain") /\ ph' = [NoPhase EXCEPT !.raised = TRUE] /\ c' = [c EXCEPT !.errors = TRUE, !.unknown = u]
  BY DEF ServiceOpen
<1>4. Works /\ c'.active = c.active /\ (c.exhausted => c'.exhausted)
  <2>1. CASE UNCHANGED c
    BY <1>1, <2>1 DEF Works, Core
  <2>2. CASE c' = [c EXCEPT !.errors = TRUE, !.unknown = u]
    <3> DEFINE d == [c EXCEPT !.errors = TRUE]
    <3>1. d \in ControllerRecord /\ d.exhausted = c.exhausted /\ \A f \in Core : d[f] = c[f]
      BY <1>1, ErrorsEffect
    <3>2. c' = [d EXCEPT !.unknown = u]
      BY <2>2
    <3> HIDE DEF d
    <3>3. c' \in ControllerRecord /\ c'.exhausted = d.exhausted /\ \A f \in Core : c'[f] = d[f]
      BY <3>1, <3>2, UnknownEffect
    <3> QED
      BY <3>1, <3>3 DEF Works, Core
  <2> QED
    BY <1>3, <2>1, <2>2
<1>5. PICK p \in {"spawn", "drain"} : PhaseGo(p)
  BY <1>3
<1>6. /\ ph' \in PhaseRecord /\ ph'.code = "none"
      /\ child' \in ChildRecord /\ child'.st = "none" /\ child'.code = "none" /\ child'.seen = "none"
  BY <1>2, <1>3, NoPhaseType
<1> QED
  BY <1>2, <1>4, <1>5, <1>6, ServiceStep

LEMMA ServiceSpawnKeeps ==
  ASSUME TestInv, UNCHANGED dl, ServiceSpawn
  PROVE  TestInv'
<1>1. c \in ControllerRecord /\ ph \in PhaseRecord /\ child \in ChildRecord /\ ChildOK
  BY PhaseBasics
<1>2. ctl.op = "service" /\ ctl.pc = "spawn" /\ UNCHANGED <<dl, now, cancelled, rows, requests, world>>
  BY DEF ServiceSpawn
<1>3. \/ PhaseGo("poll") /\ child' = [NoChild EXCEPT !.st = "running"] /\ UNCHANGED <<c, ph>>
      \/ PhaseGo("drain") /\ ph' = [ph EXCEPT !.raised = TRUE] /\ c' = [c EXCEPT !.errors = TRUE] /\ UNCHANGED child
  BY DEF ServiceSpawn
<1>4. Works /\ c'.active = c.active /\ (c.exhausted => c'.exhausted)
  <2>1. Minor(c')
    BY <1>1, <1>3, MinorMarked, MinorErrors
  <2> QED
    BY <2>1, MinorWorks
<1>5. PICK p \in {"poll", "drain"} : PhaseGo(p)
  BY <1>3
<1>6. ph' \in PhaseRecord /\ ph'.code = "none"
  BY <1>1, <1>2, <1>3 DEF PhaseRecord, ChildOK
<1>7. child' = child \/ (child'.st = "running" /\ child'.code = "none" /\ child'.seen = "none" /\ child' \in ChildRecord)
  BY <1>3 DEF NoChild, ChildRecord
<1> QED
  BY <1>1, <1>2, <1>4, <1>5, <1>6, <1>7, ServiceStep DEF ChildOK

LEMMA ServicePollKeeps ==
  ASSUME TestInv, UNCHANGED dl, ServicePoll
  PROVE  TestInv'
<1>1. c \in ControllerRecord /\ ph \in PhaseRecord /\ child \in ChildRecord /\ ChildOK
  BY PhaseBasics
<1>2. /\ ctl.op = "service" /\ ctl.pc = "poll" /\ PhaseGo("drain")
      /\ UNCHANGED <<dl, now, cancelled, rows, child, requests, world>>
  BY DEF ServicePoll
<1>3. PICK r \in BOOLEAN :
        \/ child.st = "returned" /\ ph' = [ph EXCEPT !.code = child.code, !.raised = r] /\ UNCHANGED c
        \/ ph' = [ph EXCEPT !.raised = r] /\ c' = [c EXCEPT !.errors = TRUE]
  BY DEF ServicePoll
<1>4. Works /\ c'.active = c.active /\ (c.exhausted => c'.exhausted)
  <2>1. Minor(c')
    BY <1>1, <1>3, MinorMarked, MinorErrors
  <2> QED
    BY <2>1, MinorWorks
<1>5. ph' \in PhaseRecord /\ (ph'.code = ph.code \/ (ph'.code = child.code /\ child.st = "returned"))
  BY <1>1, <1>3 DEF PhaseRecord, ChildRecord
<1> QED
  BY <1>1, <1>2, <1>4, <1>5, ServiceStep DEF ChildOK

LEMMA ServiceDrainKeeps ==
  ASSUME TestInv, UNCHANGED dl, ServiceDrain
  PROVE  TestInv'
<1>1. c \in ControllerRecord /\ ph \in PhaseRecord /\ child \in ChildRecord /\ ChildOK
  BY PhaseBasics
<1>2. /\ ctl.op = "service" /\ ctl.pc = "drain" /\ PhaseGo("ret") /\ UNCHANGED <<dl, now, cancelled, rows, requests, world>>
  BY DEF ServiceDrain
<1>3. child' \in {child, [child EXCEPT !.st = "killed"]} /\ (child' # child => child.st = "running")
  BY DEF ServiceDrain
<1>4. /\ c' = c \/ c' = [c EXCEPT !.unknown = TRUE, !.errors = TRUE]
      /\ ph' = ph \/ ph' = [ph EXCEPT !.raised = TRUE]
  BY DEF ServiceDrain
<1>5. /\ child' \in ChildRecord /\ child'.code = child.code /\ child'.seen = child.seen
      /\ child'.st = child.st \/ (child.st = "running" /\ child'.st = "killed")
  BY <1>1, <1>3, KilledEffect
<1>6. Works /\ c'.active = c.active /\ (c.exhausted => c'.exhausted)
  <2>1. Minor(c')
    BY <1>1, <1>4, MinorMarked, UnknownErrors
  <2> QED
    BY <2>1, MinorWorks
<1>7. ph' \in PhaseRecord /\ ph'.code = ph.code
  BY <1>1, <1>4 DEF PhaseRecord
<1> QED
  BY <1>1, <1>2, <1>5, <1>6, <1>7, ServiceStep DEF ChildOK

LEMMA RestoreNextKeeps ==
  ASSUME TestInv, UNCHANGED dl, RestoreNext
  PROVE  TestInv'
BY RestoreKeeps, RestoreCloseKeeps, ServiceOpenKeeps, ServiceSpawnKeeps, ServicePollKeeps, ServiceDrainKeeps
   DEF RestoreNext

-----------------------------------------------------------------------------
(* The environment.                                                           *)

LEMMA TickKeeps ==
  ASSUME TestInv, UNCHANGED dl, Tick
  PROVE  TestInv'
<1>1. /\ now' = now + 1 /\ UNCHANGED <<trouble, cancelled, ctl, c, ph, rows, child, requests, world>>
      /\ now \in Nat /\ ProductOK
  BY PhaseBasics DEF Tick
<1>2. now' \in Nat /\ (now >= Productive => now' >= Productive)
  BY <1>1, FenceAssumption
<1>3. ProductOK'
  BY <1>1, <1>2 DEF ProductOK
<1>4. TypeOK'
  BY <1>1, <1>2 DEF TestInv, TypeOK, ControllerTypes
<1>5. ControlOK' /\ ChildOK' /\ RequestOK' /\ KeysOK' /\ DeviceOK'
  BY <1>1 DEF TestInv, ControllerInv, ControlOK, ChildOK, RequestOK, Asked, KeysOK, DeviceOK, Pending, Full
<1>6. DeliveryOK'
  BY <1>1, CalmDelivery
<1> QED
  BY <1>3, <1>4, <1>5, <1>6 DEF TestInv, ControllerInv

LEMMA SignalKeeps ==
  ASSUME TestInv, UNCHANGED dl, Signal
  PROVE  TestInv'
<1>1. cancelled' = TRUE /\ UNCHANGED <<now, ctl, c, ph, rows, child, requests, world>>
  BY DEF Signal
<1>2. TypeOK'
  BY <1>1 DEF TestInv, TypeOK, ControllerTypes
<1>3. ControlOK' /\ ChildOK' /\ KeysOK' /\ DeviceOK' /\ ProductOK'
  BY <1>1 DEF TestInv, ControllerInv, ControlOK, ChildOK, KeysOK, DeviceOK, Pending, Full, ProductOK
<1>4. RequestOK'
  BY <1>1 DEF TestInv, ControllerInv, RequestOK, Asked
<1>5. DeliveryOK'
  BY <1>1, CalmDelivery
<1> QED
  BY <1>2, <1>3, <1>4, <1>5 DEF TestInv, ControllerInv

\* A step of the machine, with what it makes of child and device.
LEMMA WorldKeeps ==
  ASSUME TestInv, UNCHANGED <<dl, now, cancelled, ctl, c, ph, rows, requests>>, world' \in WorldRecord,
         child' \in ChildRecord, world'.swapped = world.swapped,
         child'.st \in {"consumed", "running"} => child'.st = child.st,
         ChildOK', DeviceOK', ProductOK', KeysOK'
  PROVE  TestInv'
<1>1. TypeOK'
  BY DEF TestInv, TypeOK, ControllerTypes
<1>2. ControlOK' /\ RequestOK'
  BY DEF TestInv, ControllerInv, ControlOK, RequestOK, Asked
<1>3. DeliveryOK'
  BY CalmDelivery
<1> QED
  BY <1>1, <1>2, <1>3 DEF TestInv, ControllerInv

LEMMA ForeignKeeps ==
  ASSUME TestInv, UNCHANGED dl, ForeignBoot
  PROVE  TestInv'
<1>1. /\ world.device = "Shutdown" /\ world' = [world EXCEPT !.device = "Booted", !.by = "other"]
      /\ UNCHANGED <<dl, now, cancelled, ctl, c, ph, rows, child, requests>>
  BY DEF ForeignBoot
<1>2. world \in WorldRecord /\ child \in ChildRecord /\ ChildOK /\ ProductOK /\ KeysOK /\ DeviceOK
  BY PhaseBasics DEF TestInv, ControllerInv
<1>3. /\ world' \in WorldRecord /\ world'.device = "Booted" /\ world'.by = "other" /\ world'.keys = world.keys
      /\ world'.loader = world.loader /\ world'.product = world.product /\ world'.swapped = world.swapped
  BY <1>1, <1>2 DEF WorldRecord
<1>4. ChildOK' /\ ProductOK' /\ KeysOK'
  BY <1>1, <1>2, <1>3 DEF ChildOK, ProductOK, KeysOK
<1>5. DeviceOK'
  BY <1>1, <1>2, <1>3 DEF DeviceOK, Full
<1> QED
  BY <1>1, <1>2, <1>3, <1>4, <1>5, WorldKeeps

LEMMA ActsKeeps ==
  ASSUME TestInv, UNCHANGED dl, ChildActs
  PROVE  TestInv'
<1>1. child.st = "running" /\ UNCHANGED <<dl, now, cancelled, ctl, c, ph, rows, child, requests>>
  BY DEF ChildActs
<1>2. world \in WorldRecord /\ child \in ChildRecord /\ ChildOK /\ ProductOK /\ KeysOK /\ DeviceOK
  BY PhaseBasics DEF TestInv, ControllerInv
<1>3. CASE ctl.op \in {"product", "swift-ui"} /\ Full /\ world' = [world EXCEPT !.device = "Booted", !.by = "own"]
  <2>1. /\ world' \in WorldRecord /\ world'.device = "Booted" /\ world'.by = "own" /\ world'.keys = world.keys
        /\ world'.loader = world.loader /\ world'.product = world.product /\ world'.swapped = world.swapped
    BY <1>2, <1>3 DEF WorldRecord
  <2>2. ChildOK' /\ ProductOK' /\ KeysOK'
    BY <1>1, <1>2, <2>1 DEF ChildOK, ProductOK, KeysOK
  <2>3. ctl.op \notin Early
    BY <1>3 DEF Early, RestoreOps, Setup
  <2>4. Pending
    BY <1>2, <1>3 DEF Pending, DeviceOK
  <2>5. Pending' /\ Full'
    BY <1>1, <1>3, <2>4 DEF Pending, Full
  <2>6. DeviceOK'
    BY <1>1, <1>2, <2>1, <2>3, <2>5 DEF DeviceOK, Full
  <2> QED
    BY <1>1, <1>2, <2>1, <2>2, <2>6, WorldKeeps
<1>4. CASE ctl.op = "central-bundle" /\ world' = [world EXCEPT !.keys = "present"]
  <2>1. /\ world' \in WorldRecord /\ world'.device = world.device /\ world'.by = world.by
        /\ world'.loader = world.loader /\ world'.product = world.product /\ world'.swapped = world.swapped
    BY <1>2, <1>4 DEF WorldRecord
  <2>2. ChildOK' /\ ProductOK'
    BY <1>1, <1>2, <2>1 DEF ChildOK, ProductOK
  <2>3. KeysOK'
    BY <1>1, <1>2, <1>4 DEF KeysOK, Bundle
  <2>4. DeviceOK'
    BY <1>1, <1>2, <2>1 DEF DeviceOK, Pending, Full
  <2> QED
    BY <1>1, <1>2, <2>1, <2>2, <2>3, <2>4, WorldKeeps
<1>5. CASE ctl.op = "custody-prepare" /\ world' = [world EXCEPT !.loader = TRUE]
  <2>1. /\ world' \in WorldRecord /\ world'.device = world.device /\ world'.by = world.by /\ world'.keys = world.keys
        /\ world'.product = world.product /\ world'.swapped = world.swapped
    BY <1>2, <1>5 DEF WorldRecord
  <2>2. ChildOK' /\ KeysOK'
    BY <1>1, <1>2, <2>1 DEF ChildOK, KeysOK
  <2>3. ctl.op \in Early
    BY <1>5 DEF Early, Setup
  <2>4. ProductOK'
    BY <1>1, <1>2, <1>5, <2>1, <2>3 DEF ProductOK
  <2>5. DeviceOK'
    BY <1>1, <1>2, <2>1 DEF DeviceOK, Pending, Full
  <2> QED
    BY <1>1, <1>2, <2>1, <2>2, <2>4, <2>5, WorldKeeps
<1> QED
  BY <1>3, <1>4, <1>5 DEF ChildActs

\* What a return leaves: a device is only shut down, a loader only removed.
LEMMA ReturnsEffect ==
  ASSUME TestInv, ChildReturns
  PROVE  \E ok \in BOOLEAN :
           /\ child' = [st |-> "returned", code |-> IF ok THEN "zero" ELSE "nonzero", seen |-> world.device]
           /\ world' \in WorldRecord /\ world'.keys = world.keys /\ world'.swapped = world.swapped
           /\ \/ world'.device = world.device /\ world'.by = world.by
              \/ world'.device = "Shutdown" /\ world'.by = "none"
           /\ (world'.loader => world.loader) /\ (ok /\ ctl.op = "custody-uninstall" => ~world'.loader)
           /\ ctl.op # "product" => world'.product = world.product
           /\ ok /\ ctl.op = "product" => world'.product = "passed" \/ now >= Productive
<1>1. PICK ok \in BOOLEAN :
        /\ child' = [st |-> "returned", code |-> IF ok THEN "zero" ELSE "nonzero", seen |-> world.device]
        /\ world' =
             CASE ok /\ ctl.op \in {"sim-shutdown", "swift-shutdown"} ->
                    [world EXCEPT !.device = "Shutdown", !.by = "none"]
               [] ok /\ ctl.op = "custody-uninstall" -> [world EXCEPT !.loader = FALSE]
               [] ctl.op = "product" ->
                    [world EXCEPT !.product = IF ~ok THEN "failed" ELSE IF now < Productive THEN "passed" ELSE "late"]
               [] OTHER -> world
  BY DEF ChildReturns
<1>2. world \in WorldRecord /\ now \in Nat /\ Productive \in Nat
  BY PhaseBasics, FenceAssumption
<1>3. CASE ok /\ ctl.op \in {"sim-shutdown", "swift-shutdown"}
  <2>1. world' = [world EXCEPT !.device = "Shutdown", !.by = "none"]
    BY <1>1, <1>3
  <2> QED
    BY <1>1, <1>2, <1>3, <2>1 DEF WorldRecord
<1>4. CASE ok /\ ctl.op = "custody-uninstall"
  <2>1. world' = [world EXCEPT !.loader = FALSE]
    BY <1>1, <1>4
  <2> QED
    BY <1>1, <1>2, <1>4, <2>1 DEF WorldRecord
<1>5. CASE ctl.op = "product"
  <2> DEFINE w == IF ~ok THEN "failed" ELSE IF now < Productive THEN "passed" ELSE "late"
  <2>1. world' = [world EXCEPT !.product = w]
    BY <1>1, <1>5
  <2>2. w \in {"passed", "late", "failed"} /\ (ok => w = "passed" \/ now >= Productive)
    BY <1>2
  <2> HIDE DEF w
  <2>3. /\ world' \in WorldRecord /\ world'.keys = world.keys /\ world'.swapped = world.swapped
        /\ world'.device = world.device /\ world'.by = world.by /\ world'.loader = world.loader /\ world'.product = w
    BY <1>2, <2>1, <2>2 DEF WorldRecord
  <2> QED
    BY <1>1, <1>5, <2>2, <2>3
<1>6. CASE ~(ok /\ ctl.op \in {"sim-shutdown", "swift-shutdown"}) /\ ~(ok /\ ctl.op = "custody-uninstall") /\ ctl.op # "product"
  <2>1. world' = world
    BY <1>1, <1>6
  <2> QED
    BY <1>1, <1>2, <1>6, <2>1
<1> QED
  BY <1>3, <1>4, <1>5, <1>6

LEMMA ReturnsKeeps ==
  ASSUME TestInv, UNCHANGED dl, ChildReturns
  PROVE  TestInv'
<1>1. child.st = "running" /\ UNCHANGED <<dl, now, cancelled, ctl, c, ph, rows, requests>>
  BY DEF ChildReturns
<1>2. world \in WorldRecord /\ ctl \in ControlRecord /\ ControlOK /\ ChildOK /\ ProductOK /\ KeysOK /\ DeviceOK
  BY PhaseBasics DEF TestInv, ControllerInv
<1>3. PICK ok \in BOOLEAN :
           /\ child' = [st |-> "returned", code |-> IF ok THEN "zero" ELSE "nonzero", seen |-> world.device]
           /\ world' \in WorldRecord /\ world'.keys = world.keys /\ world'.swapped = world.swapped
           /\ \/ world'.device = world.device /\ world'.by = world.by
              \/ world'.device = "Shutdown" /\ world'.by = "none"
           /\ (world'.loader => world.loader) /\ (ok /\ ctl.op = "custody-uninstall" => ~world'.loader)
           /\ ctl.op # "product" => world'.product = world.product
           /\ ok /\ ctl.op = "product" => world'.product = "passed" \/ now >= Productive
  BY ReturnsEffect
<1>4. /\ child' \in ChildRecord /\ child'.st = "returned" /\ child'.seen = world.device
      /\ (child'.code = "zero" => ok) /\ child'.code # "none"
  BY <1>2, <1>3 DEF ChildRecord, WorldRecord
<1>5. ph.code = "none"
  BY <1>1, <1>2 DEF ChildOK
<1>6. ChildOK'
  BY <1>1, <1>2, <1>3, <1>4, <1>5 DEF ChildOK, DeviceOK
<1>7. KeysOK'
  BY <1>1, <1>2, <1>3 DEF KeysOK
<1>8. DeviceOK'
  BY <1>1, <1>2, <1>3 DEF DeviceOK, Pending, Full
<1>9. ProductOK'
  BY <1>1, <1>2, <1>3, <1>4, <1>5 DEF ProductOK
<1> QED
  BY <1>1, <1>3, <1>4, <1>6, <1>7, <1>8, <1>9, WorldKeeps

\* A receipt that is replaced behind the controller's return is not one the
\* sealed evidence was compared with.
LEMMA ReplaceKeeps ==
  ASSUME TestInv, UNCHANGED dl, NEW f \in Retained, Replace(f)
  PROVE  TestInv'
<1>1. /\ c.exit # "hold" /\ world' = [world EXCEPT !.swapped = @ \cup {<<f, c.exit>>}]
      /\ UNCHANGED <<now, cancelled, ctl, c, ph, rows, child, requests, dl>>
  BY DEF Replace
<1>2. world \in WorldRecord /\ c \in ControllerRecord /\ DeliveryOK
  BY PhaseBasics DEF TestInv
<1>3. c.exit \in {"none", "zero"}
  BY <1>1, <1>2 DEF ControllerRecord
<1>4. /\ world' \in WorldRecord /\ world'.device = world.device /\ world'.by = world.by /\ world'.keys = world.keys
      /\ world'.loader = world.loader /\ world'.product = world.product
      /\ world'.swapped = world.swapped \cup {<<f, c.exit>>}
  BY <1>1, <1>2, <1>3 DEF WorldRecord
<1>5. TypeOK'
  BY <1>1, <1>4 DEF TestInv, TypeOK, ControllerTypes
<1>6. ControlOK' /\ ChildOK' /\ KeysOK' /\ DeviceOK' /\ ProductOK'
  BY <1>1, <1>4 DEF TestInv, ControllerInv, ControlOK, ChildOK, KeysOK, DeviceOK, Pending, Full, ProductOK
<1>7. RequestOK'
  BY <1>1 DEF TestInv, ControllerInv, RequestOK, Asked
<1>8. DeliveryOK'
  <2>1. c.exit = "zero" => world'.swapped \cap SealedSwaps = world.swapped \cap SealedSwaps
    BY <1>4 DEF SealedSwaps
  <2>2. dl.step \notin Unsealed \cup {"stopped"} \/ dl.complete # {} => c.exit = "zero"
    BY <1>2 DEF DeliveryOK, Unsealed
  <2>3. \A F : ~Originals(F) => ~Originals(F)'
    BY <1>4 DEF Originals
  <2>4. CompleteTruthful'
    BY <1>1, <1>2, <2>1, <2>2 DEF DeliveryOK, CompleteTruthful, SealedSwaps
  <2>5. \A k \in Deliveries : dl.step = Afterwards[k] =>
          (<<k, FALSE>> \in dl.uploaded \/ ~Originals({Carried(k)}))'
    <3> SUFFICES ASSUME NEW k \in Deliveries, dl.step = Afterwards[k]
                 PROVE  <<k, FALSE>> \in dl.uploaded \/ ~Originals({Carried(k)})'
      BY <1>1
    <3>1. <<k, FALSE>> \in dl.uploaded \/ ~Originals({Carried(k)})
      BY <1>2 DEF DeliveryOK
    <3> QED
      BY <2>3, <3>1
  <2> QED
    BY <1>1, <1>2, <2>1, <2>2, <2>4, <2>5 DEF DeliveryOK, Reported
<1> QED
  BY <1>5, <1>6, <1>7, <1>8 DEF TestInv, ControllerInv

-----------------------------------------------------------------------------
(* The delivery.                                                              *)

LEMMA DeliverySteps ==
  ASSUME TestInv, DeliveryFrame, dl' \in DeliveryRecord, DeliveryOK'
  PROVE  TestInv'
<1>1. UNCHANGED <<now, cancelled, ctl, c, ph, rows, child, requests, world>>
  BY DEF DeliveryFrame
<1>2. TypeOK'
  BY <1>1 DEF TestInv, TypeOK, ControllerTypes
<1>3. ControlOK' /\ ChildOK' /\ KeysOK' /\ DeviceOK' /\ ProductOK'
  BY <1>1 DEF TestInv, ControllerInv, ControlOK, ChildOK, KeysOK, DeviceOK, Pending, Full, ProductOK
<1>4. RequestOK'
  BY <1>1 DEF TestInv, ControllerInv, RequestOK, Asked
<1> QED
  BY <1>2, <1>3, <1>4 DEF TestInv, ControllerInv

LEMMA StepKinds ==
  /\ Afterwards["evidence"] = "evidence-after" /\ Afterwards["desktop"] = "desktop-after"
  /\ Afterwards["android"] = "android-after"
  /\ Before["desktop"] = "desktop-before" /\ Before["android"] = "android-before"
  /\ Uploading["evidence"] = "evidence-upload" /\ Uploading["desktop"] = "desktop-upload"
  /\ Uploading["android"] = "android-upload"
BY DEF Afterwards, Before, Uploading

\* A guard that finds something wrong, or fails, stops the delivery; a
\* delivery that was complete before stays so.
LEMMA StopKeeps ==
  ASSUME TestInv, Open, DeliveryFrame, dl' = [dl EXCEPT !.step = "stopped"]
  PROVE  TestInv'
<1>1. dl \in DeliveryRecord /\ DeliveryOK /\ c.exit = "zero"
  BY DEF TestInv, TypeOK, Open
<1>2. /\ dl' \in DeliveryRecord /\ dl'.step = "stopped" /\ dl'.sealed = dl.sealed /\ dl'.uploaded = dl.uploaded
      /\ dl'.complete = dl.complete
  BY <1>1 DEF DeliveryRecord, Steps
<1>3. UNCHANGED <<c, world>>
  BY DEF DeliveryFrame
<1>4. DeliveryOK'
  <2>1. CompleteTruthful'
    BY <1>1, <1>2, <1>3 DEF DeliveryOK, CompleteTruthful
  <2>2. \A k \in Deliveries : Afterwards[k] # "stopped"
    BY StepKinds DEF Deliveries
  <2>3. "stopped" \notin Unsealed \cup Evidencing \cup Sampling
    BY DEF Unsealed, Evidencing, Sampling
  <2> QED
    BY <1>1, <1>2, <1>3, <2>1, <2>2, <2>3 DEF DeliveryOK, Reported
<1> QED
  BY <1>2, <1>4, DeliverySteps

\* A host without applications for Android goes on to the last guard.
LEMMA SkipKeeps ==
  ASSUME TestInv, AndroidSkipped
  PROVE  TestInv'
<1>1. /\ dl \in DeliveryRecord /\ DeliveryOK /\ c.exit = "zero" /\ DeliveryFrame /\ dl.step = "android-before"
      /\ dl' = [dl EXCEPT !.step = "sample-delivery"]
  BY DEF TestInv, TypeOK, Open, AndroidSkipped
<1>2. /\ dl' \in DeliveryRecord /\ dl'.step = "sample-delivery" /\ dl'.sealed = dl.sealed /\ dl'.uploaded = dl.uploaded
      /\ dl'.complete = dl.complete
  BY <1>1 DEF DeliveryRecord, Steps
<1>3. UNCHANGED <<c, world>>
  BY <1>1 DEF DeliveryFrame
<1>4. \A k \in Deliveries : Afterwards[k] \notin {"sample-delivery", "android-before"}
  BY StepKinds DEF Deliveries
<1>5. "sample-delivery" \notin Unsealed \cup Evidencing \cup Sampling /\ "android-before" \notin Unsealed
  BY DEF Unsealed, Evidencing, Sampling
<1>6. \A u \in dl.uploaded : u[1] \in dl.complete
  BY <1>1, <1>4 DEF DeliveryOK, Reported, DeliveryRecord
<1>7. CompleteTruthful'
  BY <1>1, <1>2, <1>3, <1>6 DEF DeliveryOK, CompleteTruthful
<1>8. DeliveryOK'
  BY <1>1, <1>2, <1>3, <1>4, <1>5, <1>6, <1>7 DEF DeliveryOK, Reported
<1> QED
  BY <1>1, <1>2, <1>8, DeliverySteps

\* A guard over originals that goes on.
LEMMA GuardKeeps ==
  ASSUME TestInv, NEW s, NEW live, NEW F, NEW d, Guard(s, live, F, d),
         s = dl.step => d \in DeliveryRecord /\ Following(s) \in Steps \ {"evidence-after", "desktop-after", "android-after"},
         d.uploaded = dl.uploaded,
         s = dl.step => d.complete = dl.complete \/ (\E k \in Deliveries : /\ s = Afterwards[k] /\ Carried(k) \in F
                                                      /\ d.complete = dl.complete \cup {k}),
         dl.complete # {} => d.sealed = dl.sealed,
         s = dl.step /\ Following(s) \in Unsealed \cup Evidencing =>
           s \in Unsealed \cup Evidencing /\ d.complete = dl.complete,
         s \in {"evidence-after", "desktop-after", "android-after"} => \E k \in Deliveries : s = Afterwards[k] /\ k \in d.complete,
         s \in Unsealed => "receipts" \in F \/ Following(s) \in Unsealed,
         live /\ Following(s) \in Sampling =>
           s \in Sampling \/ ("evidence" \in dl.complete /\ dl.sealed = "passed")
  PROVE  TestInv'
<1>1. dl \in DeliveryRecord /\ world \in WorldRecord /\ DeliveryOK /\ Open /\ dl.step = s /\ DeliveryFrame
  BY DEF TestInv, TypeOK, ControllerTypes, Guard
<1>2. CASE dl' = [dl EXCEPT !.step = "stopped"]
  BY <1>1, <1>2, StopKeeps
<1>3. CASE live /\ Originals(F) /\ dl' = [d EXCEPT !.step = Following(s)]
  <2>1. /\ dl' \in DeliveryRecord /\ dl'.step = Following(s) /\ dl'.sealed = d.sealed /\ dl'.uploaded = dl.uploaded
        /\ dl'.complete = d.complete
    <3>1. d \in DeliveryRecord /\ Following(s) \in Steps
      BY <1>1
    <3> QED
      BY <1>3, <3>1 DEF DeliveryRecord
  <2>2. UNCHANGED <<c, world>> /\ c.exit = "zero"
    BY <1>1 DEF DeliveryFrame, Open
  <2>3. world.swapped \cap SealedSwaps = {} \/ dl'.step \in Unsealed
    <3>1. s \notin {"stopped"}
      BY <1>1 DEF Open
    <3>2. CASE s \notin Unsealed
      BY <1>1, <3>1, <3>2 DEF DeliveryOK
    <3>3. CASE "receipts" \in F
      <4>1. \A x \in world.swapped : x[1] # "receipts"
        BY <1>3, <3>3 DEF Originals
      <4>2. \A x \in SealedSwaps : x[1] = "receipts"
        BY DEF SealedSwaps
      <4> QED
        BY <4>1, <4>2
    <3> QED
      BY <2>1, <3>2, <3>3
  <2>4. dl'.step \in Unsealed \cup Evidencing => dl'.complete = {}
    BY <1>1, <2>1 DEF DeliveryOK
  <2>5. \A k \in Deliveries : dl'.step # Afterwards[k]
    BY <1>1, <2>1, StepKinds DEF Deliveries
  <2>6. dl.complete \subseteq dl'.complete /\ (dl.complete # {} => dl'.sealed = dl.sealed)
    BY <1>1, <2>1
  <2>7. dl'.step \in Sampling => "evidence" \in dl'.complete /\ dl'.sealed = "passed"
    <3>1. dl'.step \in Sampling => "evidence" \in dl.complete /\ dl.sealed = "passed"
      BY <1>1, <1>3, <2>1 DEF DeliveryOK
    <3> QED
      BY <2>6, <3>1
  <2>8. ASSUME NEW k \in dl'.complete
        PROVE  <<k, FALSE>> \in dl.uploaded /\ (k # "evidence" => "evidence" \in dl'.complete /\ dl'.sealed = "passed")
    <3>1. CASE k \in dl.complete
      <4>1. <<k, FALSE>> \in dl.uploaded /\ (k # "evidence" => "evidence" \in dl.complete /\ dl.sealed = "passed")
        BY <1>1, <3>1 DEF DeliveryOK, CompleteTruthful
      <4> QED
        BY <2>6, <3>1, <4>1
    <3>2. CASE k \notin dl.complete
      <4>1. k \in Deliveries /\ s = Afterwards[k] /\ Carried(k) \in F
        BY <1>1, <2>1, <3>2
      <4>2. Originals({Carried(k)})
        BY <1>3, <4>1 DEF Originals
      <4>3. <<k, FALSE>> \in dl.uploaded
        BY <1>1, <4>1, <4>2 DEF DeliveryOK
      <4>4. k # "evidence" => s \in Sampling
        BY <4>1, StepKinds DEF Deliveries, Sampling
      <4>5. s \in Sampling => "evidence" \in dl.complete /\ dl.sealed = "passed"
        BY <1>1 DEF DeliveryOK
      <4> QED
        BY <2>6, <4>3, <4>4, <4>5
    <3> QED
      BY <3>1, <3>2
  <2>9. dl'.complete # {} => world.swapped \cap SealedSwaps = {}
    BY <2>3, <2>4
  <2>12. \A u \in dl'.uploaded : u[1] \in dl'.complete
    <3> SUFFICES ASSUME NEW u \in dl.uploaded PROVE u[1] \in dl'.complete
      BY <2>1
    <3>1. u[1] \in Deliveries
      BY <1>1 DEF DeliveryRecord
    <3>2. CASE u[1] \in dl.complete
      BY <2>6, <3>2
    <3>3. CASE s = Afterwards[u[1]]
      <4>1. PICK k \in Deliveries : s = Afterwards[k] /\ k \in d.complete
        BY <3>1, <3>3, StepKinds DEF Deliveries
      <4>2. k = u[1]
        BY <3>1, <3>3, <4>1, StepKinds DEF Deliveries
      <4> QED
        BY <2>1, <4>1, <4>2
    <3> QED
      BY <1>1, <3>2, <3>3 DEF DeliveryOK, Reported, Open
  <2>10. CompleteTruthful'
    BY <2>1, <2>2, <2>8, <2>9, <2>12 DEF CompleteTruthful, SealedSwaps
  <2>11. DeliveryOK'
    BY <2>2, <2>3, <2>4, <2>5, <2>7, <2>9, <2>10, <2>12 DEF DeliveryOK, Reported
  <2> QED
    BY <1>1, <2>1, <2>11, DeliverySteps
<1> QED
  BY <1>2, <1>3 DEF Guard

\* A guard that keeps what was delivered.
LEMMA PlainGuard ==
  ASSUME TestInv, NEW s, NEW live, NEW F, Guard(s, live, F, dl),
         Following(s) \in Steps \ {"evidence-after", "desktop-after", "android-after"},
         Following(s) \in Unsealed \cup Evidencing => s \in Unsealed \cup Evidencing,
         s \notin {"evidence-after", "desktop-after", "android-after"},
         s \in Unsealed => "receipts" \in F \/ Following(s) \in Unsealed,
         live /\ Following(s) \in Sampling =>
           s \in Sampling \/ ("evidence" \in dl.complete /\ dl.sealed = "passed")
  PROVE  TestInv'
<1>1. dl \in DeliveryRecord
  BY DEF TestInv, TypeOK
<1> QED
  BY <1>1, GuardKeeps

LEMMA SealingKeeps ==
  ASSUME TestInv, Seal \/ SealInputs \/ SealPhases \/ SealPackets \/ SealFull \/ SealAgain \/ PackageGuard
         \/ SampleDelivery
  PROVE  TestInv'
<1>1. CASE Seal
  <2>1. Following("seal") = "seal-inputs"
    BY DEF Following
  <2> QED
    BY <1>1, <2>1, PlainGuard DEF Seal, Steps, Unsealed, Evidencing, Sampling
<1>2. CASE SealInputs
  <2>1. Following("seal-inputs") = "seal-phases"
    BY DEF Following
  <2> QED
    BY <1>2, <2>1, PlainGuard DEF SealInputs, Steps, Unsealed, Evidencing, Sampling
<1>3. CASE SealPhases
  <2>1. Following("seal-phases") = "seal-packets"
    BY DEF Following
  <2> QED
    BY <1>3, <2>1, PlainGuard DEF SealPhases, Steps, Unsealed, Evidencing, Sampling
<1>4. CASE SealPackets
  <2>1. Following("seal-packets") \in {"seal-full", "seal-write"}
    BY DEF Following
  <2> QED
    BY <1>4, <2>1, PlainGuard DEF SealPackets, Steps, Unsealed, Evidencing, Sampling
<1>5. CASE SealFull
  <2>1. Following("seal-full") = "seal-write"
    BY DEF Following
  <2> QED
    BY <1>5, <2>1, PlainGuard DEF SealFull, Steps, Unsealed, Evidencing, Sampling
<1>6. CASE SealAgain
  <2>1. Following("seal-again") = "evidence-before"
    BY DEF Following
  <2> QED
    BY <1>6, <2>1, PlainGuard DEF SealAgain, Steps, Unsealed, Evidencing, Sampling
<1>7. CASE PackageGuard
  <2>1. Following("package") = "desktop-before"
    BY DEF Following
  <2> QED
    BY <1>7, <2>1, PlainGuard DEF PackageGuard, Steps, Unsealed, Evidencing, Sampling
<1>8. CASE SampleDelivery
  <2>1. Following("sample-delivery") = "delivered"
    BY DEF Following
  <2> QED
    BY <1>8, <2>1, PlainGuard DEF SampleDelivery, Steps, Unsealed, Evidencing, Sampling
<1> QED
  BY <1>1, <1>2, <1>3, <1>4, <1>5, <1>6, <1>7, <1>8

\* The result is sealed before anything is delivered.
LEMMA SealWriteKeeps ==
  ASSUME TestInv, SealWrite
  PROVE  TestInv'
<1> DEFINE d == [dl EXCEPT !.sealed = c.result]
<1>1. dl \in DeliveryRecord /\ c \in ControllerRecord /\ DeliveryOK
  BY PhaseBasics DEF TestInv, TypeOK
<1>2. Following("seal-write") = "seal-again"
  BY DEF Following
<1>3. d \in DeliveryRecord /\ d.uploaded = dl.uploaded /\ d.complete = dl.complete
  BY <1>1 DEF DeliveryRecord, ControllerRecord
<1>4. Guard("seal-write", now < Delivery, {}, d)
  BY DEF SealWrite
<1>5. dl.step = "seal-write" /\ dl.complete = {}
  BY <1>1, <1>4 DEF Guard, DeliveryOK, Evidencing
<1> HIDE DEF d
<1> QED
  BY <1>2, <1>3, <1>4, <1>5, GuardKeeps DEF Steps, Unsealed, Evidencing, Sampling

LEMMA WindowType ==
  ASSUME TestInv
  PROVE  /\ [dl EXCEPT !.end = IF now + Upload < Delivery THEN now + Upload ELSE Delivery] \in DeliveryRecord
         /\ [dl EXCEPT !.end = IF now + Upload < Delivery THEN now + Upload ELSE Delivery].uploaded = dl.uploaded
         /\ [dl EXCEPT !.end = IF now + Upload < Delivery THEN now + Upload ELSE Delivery].complete = dl.complete
         /\ [dl EXCEPT !.end = IF now + Upload < Delivery THEN now + Upload ELSE Delivery].sealed = dl.sealed
<1>1. now \in Nat /\ dl \in DeliveryRecord
  BY PhaseBasics DEF TestInv, TypeOK
<1>2. (IF now + Upload < Delivery THEN now + Upload ELSE Delivery) \in Nat
  BY <1>1, FenceAssumption
<1> QED
  BY <1>1, <1>2 DEF DeliveryRecord

LEMMA WindowKeeps ==
  ASSUME TestInv, EvidenceBefore \/ SampleBefore("desktop") \/ SampleBefore("android")
  PROVE  TestInv'
<1> DEFINE d == [dl EXCEPT !.end = IF now + Upload < Delivery THEN now + Upload ELSE Delivery]
<1>1. d \in DeliveryRecord /\ d.uploaded = dl.uploaded /\ d.complete = dl.complete /\ d.sealed = dl.sealed
  BY WindowType
<1>2. CASE EvidenceBefore
  <2>1. Following("evidence-before") = "evidence-upload"
    BY DEF Following
  <2>2. Guard("evidence-before", now < Delivery, {"records", "packet"}, d)
    BY <1>2 DEF EvidenceBefore
  <2> HIDE DEF d
  <2> QED
    BY <1>1, <2>1, <2>2, GuardKeeps DEF Steps, Unsealed, Evidencing, Sampling
<1>3. CASE SampleBefore("desktop")
  <2>1. Following("desktop-before") = "desktop-upload"
    BY DEF Following
  <2>2. Guard("desktop-before", now < Delivery, {"records", "package", "apps"}, d)
    BY <1>3, StepKinds DEF SampleBefore
  <2> HIDE DEF d
  <2> QED
    BY <1>1, <2>1, <2>2, GuardKeeps DEF Steps, Unsealed, Evidencing, Sampling
<1>4. CASE SampleBefore("android")
  <2>1. Following("android-before") = "android-upload"
    BY DEF Following
  <2>2. Guard("android-before", now < dl.end, {"records", "package", "apps"}, dl)
    BY <1>4, StepKinds DEF SampleBefore
  <2> QED
    BY <2>1, <2>2, PlainGuard DEF Steps, Unsealed, Evidencing, Sampling
<1> QED
  BY <1>2, <1>3, <1>4

\* A guard after an upload reports what it finds to be the originals.
LEMMA AfterwardsKeeps ==
  ASSUME TestInv, EvidenceAfter \/ SampleAfter("desktop") \/ SampleAfter("android")
  PROVE  TestInv'
<1>1. dl \in DeliveryRecord
  BY DEF TestInv, TypeOK
<1>2. ASSUME NEW k \in Deliveries, NEW live, NEW F, Guard(Afterwards[k], live, F, [dl EXCEPT !.complete = @ \cup {k}]),
             Carried(k) \in F
      PROVE  TestInv'
  <2> DEFINE d == [dl EXCEPT !.complete = @ \cup {k}]
  <2>1. d \in DeliveryRecord /\ d.uploaded = dl.uploaded /\ d.complete = dl.complete \cup {k} /\ d.sealed = dl.sealed
    BY <1>1 DEF DeliveryRecord
  <2>2. /\ Following(Afterwards[k]) \in {"package", "delivered", "android-before", "sample-delivery"}
        /\ Following(Afterwards[k]) = "android-before" => Afterwards[k] = "desktop-after"
    BY StepKinds DEF Deliveries, Following
  <2>3. Afterwards[k] \notin Unsealed
    BY StepKinds DEF Deliveries, Unsealed
  <2>4. Following(Afterwards[k]) \in Steps \ {"evidence-after", "desktop-after", "android-after"}
    BY <2>2 DEF Steps, Sampling
  <2>5. /\ Following(Afterwards[k]) \notin Unsealed \cup Evidencing
        /\ Following(Afterwards[k]) \in Sampling => Afterwards[k] \in Sampling
    BY <2>2 DEF Unsealed, Evidencing, Sampling
  <2>6. Guard(Afterwards[k], live, F, d)
    BY <1>2
  <2> HIDE DEF d
  <2> QED
    BY <1>2, <2>1, <2>3, <2>4, <2>5, <2>6, GuardKeeps
<1>3. /\ EvidenceAfter => Guard(Afterwards["evidence"], now < dl.end, {"records", "packet"}, [dl EXCEPT !.complete = @ \cup {"evidence"}])
      /\ \A k \in {"desktop", "android"} : SampleAfter(k) =>
           Guard(Afterwards[k], now < dl.end, {"records", "package", "apps"}, [dl EXCEPT !.complete = @ \cup {k}])
  BY StepKinds DEF EvidenceAfter, SampleAfter
<1>4. Carried("evidence") = "packet" /\ Carried("desktop") = "apps" /\ Carried("android") = "apps"
  BY DEF Carried
<1>5. {"evidence", "desktop", "android"} \subseteq Deliveries
  BY DEF Deliveries
<1>6. CASE EvidenceAfter
  BY <1>2, <1>3, <1>4, <1>5, <1>6
<1>7. CASE SampleAfter("desktop")
  BY <1>2, <1>3, <1>4, <1>5, <1>7
<1>8. CASE SampleAfter("android")
  BY <1>2, <1>3, <1>4, <1>5, <1>8
<1> QED
  BY <1>6, <1>7, <1>8

\* The upload takes what is there, original or not.
LEMMA UploadKeeps ==
  ASSUME TestInv, NEW k \in Deliveries, UploadAction(k, Carried(k))
  PROVE  TestInv'
<1> DEFINE b == ~Originals({Carried(k)})
<1>1. /\ Open /\ dl.step = Uploading[k] /\ DeliveryFrame
      /\ dl' = [dl EXCEPT !.step = Following(Uploading[k]), !.uploaded = @ \cup {<<k, b>>}]
  BY DEF UploadAction
<1>2. dl \in DeliveryRecord /\ DeliveryOK
  BY DEF TestInv, TypeOK
<1>3. Following(Uploading[k]) = Afterwards[k]
  BY StepKinds DEF Deliveries, Following
<1>4. Afterwards[k] \in Steps /\ b \in BOOLEAN
  BY StepKinds DEF Deliveries, Steps, Evidencing, Sampling
<1>5. UNCHANGED <<c, world>> /\ c.exit = "zero"
  BY <1>1 DEF DeliveryFrame, Open
<1>6. b = TRUE \/ b = FALSE
  BY <1>4
<1>7. b \/ Originals({Carried(k)})
  OBVIOUS
<1>8. ~Originals({Carried(k)}) => ~Originals({Carried(k)})'
  BY <1>5 DEF Originals
<1>9. b => ~Originals({Carried(k)})
  OBVIOUS
<1> HIDE DEF b
<1>20. <<k, b>> \in Deliveries \X BOOLEAN
  BY <1>4
<1>10. /\ dl' \in DeliveryRecord /\ dl'.step = Afterwards[k] /\ dl'.sealed = dl.sealed /\ dl'.complete = dl.complete
       /\ dl'.uploaded = dl.uploaded \cup {<<k, b>>}
  BY <1>1, <1>2, <1>3, <1>4, <1>20 DEF DeliveryRecord
<1>11. <<k, FALSE>> \in dl'.uploaded \/ ~Originals({Carried(k)})'
  BY <1>6, <1>8, <1>9, <1>10
<1>12. /\ Uploading[k] \notin Unsealed \cup {"stopped"} /\ (Uploading[k] \in Sampling <=> k # "evidence")
       /\ (Afterwards[k] \in Sampling <=> k # "evidence") /\ Afterwards[k] \notin Unsealed
       /\ (k = "evidence" => Uploading[k] \in Evidencing) /\ (k # "evidence" => Afterwards[k] \notin Evidencing)
  BY StepKinds DEF Deliveries, Unsealed, Sampling, Evidencing
<1>13. \A j \in Deliveries : Afterwards[j] = Afterwards[k] => j = k
  BY StepKinds DEF Deliveries
<1>21. Afterwards[k] \notin {"stopped", "delivered"} /\ \A j \in Deliveries : Afterwards[j] # Uploading[k]
  BY StepKinds DEF Deliveries
<1>22. Reported'
  <2>1. \A u \in dl.uploaded : u[1] \in dl.complete
    BY <1>1, <1>2, <1>12, <1>21 DEF DeliveryOK, Reported, DeliveryRecord
  <2> QED
    BY <1>10, <2>1 DEF Reported
<1>14. CompleteTruthful'
  BY <1>2, <1>5, <1>10, <1>21 DEF DeliveryOK, CompleteTruthful
<1>15. \A j \in Deliveries : dl'.step = Afterwards[j] => <<j, FALSE>> \in dl'.uploaded \/ ~Originals({Carried(j)})'
  BY <1>10, <1>11, <1>13
<1>16. world'.swapped \cap SealedSwaps = {}
  BY <1>1, <1>2, <1>5, <1>12 DEF DeliveryOK
<1>17. dl'.step \in Unsealed \cup Evidencing => dl'.complete = {}
  BY <1>1, <1>2, <1>10, <1>12 DEF DeliveryOK
<1>18. dl'.step \in Sampling => "evidence" \in dl'.complete /\ dl'.sealed = "passed"
  BY <1>1, <1>2, <1>10, <1>12 DEF DeliveryOK
<1>19. DeliveryOK'
  BY <1>5, <1>14, <1>15, <1>16, <1>17, <1>18, <1>22 DEF DeliveryOK
<1> QED
  BY <1>1, <1>10, <1>19, DeliverySteps

LEMMA DeliveryKeeps ==
  ASSUME TestInv, DeliveryNext
  PROVE  TestInv'
<1>1. Carried("evidence") = "packet" /\ Carried("desktop") = "apps" /\ Carried("android") = "apps"
      /\ {"evidence", "desktop", "android"} \subseteq Deliveries
  BY DEF Carried, Deliveries
<1>2. UploadAction("evidence", "packet") \/ UploadAction("desktop", "apps") \/ UploadAction("android", "apps") => TestInv'
  BY <1>1, UploadKeeps
<1> QED
  <2>1. \/ Seal \/ SealInputs \/ SealPhases \/ SealPackets \/ SealFull \/ SealAgain \/ PackageGuard
        \/ AndroidSkipped \/ SampleDelivery \/ SealWrite \/ EvidenceBefore \/ SampleBefore("desktop") \/ SampleBefore("android")
        \/ EvidenceAfter \/ SampleAfter("desktop") \/ SampleAfter("android")
        \/ UploadAction("evidence", "packet") \/ UploadAction("desktop", "apps") \/ UploadAction("android", "apps")
    BY DEF DeliveryNext
  <2> QED
    BY <1>2, <2>1, SealingKeeps, SkipKeeps, SealWriteKeeps, WindowKeeps, AfterwardsKeeps

-----------------------------------------------------------------------------
(* The specification.                                                         *)

LEMMA InitInv ==
  ASSUME Init
  PROVE  TestInv
<1>1. /\ now = 0 /\ cancelled = FALSE /\ ph = NoPhase /\ rows = [all |-> {}, clean |-> {}] /\ child = NoChild
      /\ requests = <<>>
      /\ world = [device |-> "Shutdown", by |-> "none", keys |-> "none", loader |-> FALSE, product |-> "none",
                  swapped |-> {}]
      /\ dl = [step |-> "seal", sealed |-> "none", uploaded |-> {}, complete |-> {}, end |-> Delivery]
  BY DEF Init, ControllerInit, DeliveryInit
<1>2. PICK p \in Profiles : ctl = [profile |-> p, mode |-> "restore", op |-> "identity", pc |-> "op"]
  BY DEF Init, ControllerInit
<1>3. /\ c.active = "none" /\ c.exit = "none" /\ c.attempted = {} /\ c.central = "NOT_REACHED" /\ c.encrypted = FALSE
      /\ c \in ControllerRecord
  BY DEF Init, ControllerInit, ControllerRecord
<1>4. ctl \in ControlRecord /\ ctl.op = "identity" /\ ctl.pc = "op" /\ ctl.mode = "restore"
  BY <1>2 DEF ControlRecord, RestoreOps, PhasePcs
<1>5. dl \in DeliveryRecord
  BY <1>1, FenceAssumption DEF DeliveryRecord, Steps, Unsealed
<1>6. world \in WorldRecord /\ rows \in RowsRecord
  BY <1>1 DEF WorldRecord, RowsRecord
<1>7. TypeOK
  <2>1. requests \in Seq(Canonical)
    BY <1>1
  <2>3. now \in Nat /\ cancelled \in BOOLEAN
    BY <1>1, Zenon
  <2>2. ph \in PhaseRecord /\ child \in ChildRecord
    BY <1>1, NoPhaseType
  <2> QED
    BY <1>3, <1>4, <1>5, <1>6, <2>1, <2>2, <2>3 DEF TypeOK, ControllerTypes
<1>8. ControlOK
  BY <1>3, <1>4 DEF ControlOK, ModeOps, RestoreOps, Pcs, PhasePcs
<1>9. ChildOK
  BY <1>1, <1>4, NoPhaseType DEF ChildOK
<1>10. RequestOK
  BY <1>1, <1>3, <1>4 DEF RequestOK
<1>11. KeysOK
  BY <1>1, <1>3, <1>4 DEF KeysOK, Bundle, Exporting
<1>12. DeviceOK
  BY <1>1, <1>3, <1>4 DEF DeviceOK, Finishing
<1>13. ProductOK
  BY <1>1, <1>3, <1>4 DEF ProductOK
<1>14. DeliveryOK
  <2>1. \A k \in Deliveries : Afterwards[k] # "seal"
    BY StepKinds DEF Deliveries
  <2> QED
    BY <1>1, <2>1 DEF DeliveryOK, Reported, CompleteTruthful, Unsealed, Sampling
<1> QED
  BY <1>7, <1>8, <1>9, <1>10, <1>11, <1>12, <1>13, <1>14 DEF TestInv, ControllerInv

LEMMA StutterInv ==
  ASSUME TestInv, UNCHANGED testVars
  PROVE  TestInv'
<1>1. DeliveryFrame /\ UNCHANGED dl
  BY DEF testVars, controllerVars, DeliveryFrame
<1>2. dl \in DeliveryRecord /\ DeliveryOK'
  BY <1>1, CalmDelivery DEF TestInv, TypeOK, DeliveryFrame
<1> QED
  BY <1>1, <1>2, DeliverySteps

LEMMA NextInv ==
  ASSUME TestInv, Next
  PROVE  TestInv'
<1>1. CASE \E f \in {"receipts", "records", "packet", "package", "apps"} : Replace(f) /\ UNCHANGED dl
  BY <1>1, ReplaceKeeps DEF Retained
<1>2. CASE UNCHANGED dl /\ (Tick \/ Signal \/ ForeignBoot \/ ChildActs \/ ChildReturns)
  BY <1>2, TickKeeps, SignalKeeps, ForeignKeeps, ActsKeeps, ReturnsKeeps
<1>3. CASE UNCHANGED dl /\ (PhaseNext \/ RestoreNext \/ ProfileNext)
  BY <1>3, PhaseKeeps, RestoreNextKeeps, ProfileKeeps
<1>4. CASE DeliveryNext
  BY <1>4, DeliveryKeeps
<1>5. CASE Finished
  BY <1>5, StutterInv DEF Finished
<1> QED
  BY <1>1, <1>2, <1>3, <1>4, <1>5 DEF Next

\* The inductive invariant of the test controller and of the delivery behind
\* it: types, where each operation may stand, and what child, requests, keys,
\* device, product and delivery have to do with it.
THEOREM TestInvariant == Spec => []TestInv
<1>1. Init => TestInv
  BY InitInv
<1>2. TestInv /\ [Next]_testVars => TestInv'
  BY NextInv, StutterInv
<1> QED
  BY <1>1, <1>2, PTL DEF Spec

\* A device that a child of the controller booted is shut down again before
\* the controller returns, or the controller returns as unknown.
THEOREM DeviceRetiredHolds == Spec => []DeviceRetired
<1>1. TestInv => DeviceRetired
  <2> SUFFICES ASSUME TestInv, c.exit # "none", world.by = "own" PROVE c.unknown
    BY DEF DeviceRetired
  <2>1. ControlOK /\ DeviceOK
    BY DEF TestInv, ControllerInv
  <2>2. ctl.pc = "done" /\ ctl.pc \in Pcs(ctl.op)
    BY <2>1 DEF ControlOK
  <2>3. ctl.op \in {"restore-close", "close"}
    BY <2>2 DEF Pcs, PhasePcs
  <2>4. Pending
    BY <2>1 DEF DeviceOK
  <2> QED
    BY <2>3, <2>4 DEF Pending, Retiring, Finishing
<1> QED
  BY <1>1, TestInvariant, PTL

\* A result that says "passed" is true of the machine: the product returned
\* zero before the cutoff, its loader and its keys are gone and its device is
\* shut down.
THEOREM PassTruthfulHolds == Spec => []PassTruthful
<1>1. TestInv => PassTruthful
  <2> SUFFICES ASSUME TestInv, c.exit = "zero", c.result = "passed"
               PROVE  world.product = "passed" /\ ~world.loader /\ world.keys # "present" /\ world.by # "own"
    BY DEF PassTruthful
  <2>1. ControlOK /\ KeysOK /\ DeviceOK /\ ProductOK
    BY DEF TestInv, ControllerInv
  <2>2. ctl.op = "close" /\ c.encrypted /\ ~c.unknown
    BY <2>1 DEF ControlOK
  <2>3. world.product = "passed" /\ ~world.loader
    BY <2>1 DEF ProductOK
  <2>4. world.keys # "present"
    BY <2>1, <2>2 DEF KeysOK
  <2>5. ~Pending
    BY <2>2 DEF Pending, Retiring, Finishing
  <2>6. world.by # "own"
    BY <2>1, <2>5 DEF DeviceOK
  <2> QED
    BY <2>3, <2>4, <2>6
<1> QED
  BY <1>1, TestInvariant, PTL

\* Nothing is exported while signing keys of the bundle tests may be among it.
THEOREM KeysNeverExportedHolds == Spec => []KeysNeverExported
<1>1. TestInv => KeysNeverExported
  BY DEF TestInv, ControllerInv, KeysOK, KeysNeverExported
<1> QED
  BY <1>1, TestInvariant, PTL

\* What is reported delivered are the originals, evidence before samples,
\* samples of a passed profile only, behind receipts of restore and seeding
\* that nobody replaced before the controller returned; a delivery that ends
\* well reports all it uploaded.
THEOREM CompleteTruthfulHolds == Spec => []CompleteTruthful
<1>1. TestInv => CompleteTruthful
  BY DEF TestInv, DeliveryOK
<1> QED
  BY <1>1, TestInvariant, PTL

-----------------------------------------------------------------------------
(* The requests to cancel.                                                    *)

LEMMA OpsFrame ==
  /\ \A p, o, fin, live, k : Op(p, o, fin, live, k) => OpFrame
  /\ \A l, o, ok, k : After(l, o, ok, k) => OpFrame
  /\ \A l, o, k : AfterCrypto(l, o, k) => OpFrame
  /\ \A p, o, k : NextScope(p, o, k) => OpFrame
BY DEF Op, After, AfterCrypto, NextScope

LEMMA SetupFrame ==
  ASSUME Adopt \/ SeedIntent \/ Seed \/ SeedReceipt \/ ValidateReturn \/ InitReturn \/ SimPrepareReturn
         \/ PrepareReturn \/ PrelaunchReturn \/ ProductReturned \/ Authority
  PROVE  OpFrame
BY OpsFrame DEF Adopt, SeedIntent, Seed, SeedReceipt, ValidateReturn, InitReturn, SimPrepareReturn, PrepareReturn,
   PrelaunchReturn, ProductReturned, Authority

LEMMA PrimaryFrame ==
  ASSUME Collect \/ CollectReturn \/ UninstallReturn \/ RetireNext \/ Barrier \/ AbiNext
  PROVE  OpFrame
<1>1. CASE Collect \/ CollectReturn \/ UninstallReturn \/ Barrier
  BY <1>1, OpsFrame DEF Collect, CollectReturn, UninstallReturn, Barrier
<1>2. CASE RetireNext
  BY <1>2 DEF RetireNext, Retire, BeforeReturn, ShutdownReturn, AfterReturn, RetireRecord
<1>3. CASE AbiNext
  BY <1>3, OpsFrame DEF AbiNext, Abi, AbiGenerated, AbiReferences, AbiInputs, AbiRecord
<1> QED
  BY <1>1, <1>2, <1>3

LEMMA SupplementFrame ==
  ASSUME Supplement \/ LockPolicyReturn \/ SwiftNext \/ Central \/ CentralReturn \/ CentralRetireReturn \/ Screen
  PROVE  OpFrame
<1>1. CASE Supplement \/ LockPolicyReturn \/ Central \/ CentralReturn \/ CentralRetireReturn \/ Screen
  BY <1>1, OpsFrame DEF Supplement, LockPolicyReturn, Central, CentralReturn, CentralRetireReturn, Screen
<1>2. CASE SwiftNext
  BY <1>2, OpsFrame DEF SwiftNext, Swift, SwiftPrelaunchReturn, SwiftReturn, SwiftFinish, BeforeReturn, ShutdownReturn,
     AfterReturn, SwiftClose, SwiftResultsReturn
<1> QED
  BY <1>1, <1>2

LEMMA ExportFrame ==
  ASSUME Package \/ PackageReturn \/ Freeze \/ ExportReturn \/ VerifyExport \/ VerifyPackets \/ VerifySamples
         \/ Result \/ Close
  PROVE  OpFrame
BY OpsFrame DEF Package, PackageReturn, Freeze, ExportReturn, VerifyExport, VerifyPackets, VerifySamples, Result, Close

LEMMA ProfileFrame ==
  ASSUME ProfileNext
  PROVE  UNCHANGED <<child, requests>>
<1>1. OpFrame
  BY SetupFrame, PrimaryFrame, SupplementFrame, ExportFrame DEF ProfileNext
<1> QED
  BY <1>1 DEF OpFrame

LEMMA RestoreFrame ==
  ASSUME RestoreNext
  PROVE  requests' = requests /\ (child' = child \/ ctl.op = "service")
<1>1. CASE Identity \/ JobTimeReturn \/ Plan \/ Episode \/ ServiceReturn \/ Readback \/ Accept \/ RestoreClose
  BY <1>1, OpsFrame DEF Identity, JobTimeReturn, Plan, Episode, ServiceReturn, Readback, Accept, RestoreClose, OpFrame
<1>2. CASE ServiceOpen \/ ServiceSpawn \/ ServicePoll \/ ServiceDrain
  BY <1>2 DEF ServiceOpen, ServiceSpawn, ServicePoll, ServiceDrain
<1> QED
  BY <1>1, <1>2 DEF RestoreNext

LEMMA WorldFrame ==
  ASSUME Tick \/ Signal \/ ForeignBoot \/ ChildActs \/ ChildReturns \/ DeliveryNext \/ Finished
         \/ \E f \in {"receipts", "records", "packet", "package", "apps"} : Replace(f)
  PROVE  (requests' = requests /\ child'.st # "killed") \/ UNCHANGED <<child, requests>>
<1>1. CASE Tick \/ Signal \/ ForeignBoot \/ ChildActs
  BY <1>1 DEF Tick, Signal, ForeignBoot, ChildActs
<1>2. CASE ChildReturns
  <2>1. requests' = requests /\ child'.st = "returned"
    BY <1>2 DEF ChildReturns
  <2> QED
    BY <2>1
<1>3. CASE DeliveryNext
  <2>1. \A s, live, F, d : Guard(s, live, F, d) => DeliveryFrame
    BY DEF Guard
  <2>2. \A k, f : UploadAction(k, f) => DeliveryFrame
    BY DEF UploadAction
  <2>3. Seal \/ SealInputs \/ SealPhases \/ SealPackets \/ SealFull \/ SealWrite \/ SealAgain => DeliveryFrame
    BY <2>1 DEF Seal, SealInputs, SealPhases, SealPackets, SealFull, SealWrite, SealAgain
  <2>4. EvidenceBefore \/ EvidenceAfter \/ PackageGuard \/ SampleDelivery \/ AndroidSkipped => DeliveryFrame
    BY <2>1 DEF EvidenceBefore, EvidenceAfter, PackageGuard, SampleDelivery, AndroidSkipped
  <2>5. \A k : SampleBefore(k) \/ SampleAfter(k) => DeliveryFrame
    BY <2>1 DEF SampleBefore, SampleAfter
  <2>6. DeliveryFrame
    BY <1>3, <2>2, <2>3, <2>4, <2>5 DEF DeliveryNext
  <2> QED
    BY <2>6 DEF DeliveryFrame
<1>4. CASE Finished
  BY <1>4 DEF Finished, testVars, controllerVars
<1>5. CASE \E f \in {"receipts", "records", "packet", "package", "apps"} : Replace(f)
  BY <1>5 DEF Replace
<1> QED
  BY <1>1, <1>2, <1>3, <1>4, <1>5

\* Where a canonical child can be asked, nobody was asked before.
LEMMA AskFenced ==
  ASSUME TestInv, NEW q \in {"check", "again", "caught"}, Phase(q), Request, requests' # requests
  PROVE  child.st # "consumed" /\ \A i \in 1 .. Len(requests) : requests[i] # ctl.op
<1>1. RequestOK /\ ChildOK
  BY PhaseBasics
<1>2. Ask /\ ctl.op \in Labels /\ ctl.pc = q
  BY DEF Request, Phase
<1>3. ctl.op \in Canonical /\ c.active = ctl.op /\ ~ph.asked
  BY <1>2, AskTarget
<1>4. child.st # "consumed" /\ q # "again"
  BY <1>1, <1>2, <1>3, CanonicalWork DEF RequestOK, ChildOK
<1>5. requests = <<>>
  BY <1>1, <1>2, <1>3, <1>4 DEF RequestOK
<1> QED
  BY <1>4, <1>5

LEMMA PhaseFenced ==
  ASSUME TestInv, PhaseNext
  PROVE  /\ requests' # requests => child.st # "consumed" /\ \A i \in 1 .. Len(requests) : requests[i] # ctl.op
         /\ child.st = "running" /\ child'.st = "killed" /\ ctl.op \in Canonical /\ c.exhausted => Asked(ctl.op)
<1>1. child \in ChildRecord /\ RequestOK
  BY PhaseBasics
<1>2. CASE PhaseAdmit
  BY <1>2, NoPhaseType DEF PhaseAdmit
<1>3. CASE PhaseOpen \/ PhaseReceipt
  BY <1>3 DEF PhaseOpen, PhaseReceipt
<1>4. CASE PhaseSpawn
  <2>1. requests' = requests /\ child' \in {child, [NoChild EXCEPT !.st = "running"]}
    BY <1>4 DEF PhaseSpawn
  <2> QED
    BY <2>1 DEF NoChild
<1>5. CASE PhaseLook
  <2>1. requests' = requests /\ child' \in {child, [child EXCEPT !.st = "consumed"]}
    BY <1>5 DEF PhaseLook
  <2> QED
    BY <1>1, <2>1 DEF ChildRecord
<1>6. CASE PhaseCheck
  BY <1>6, AskFenced DEF PhaseCheck
<1>7. CASE PhaseAgain
  BY <1>7, AskFenced DEF PhaseAgain
<1>8. CASE PhaseCaught
  BY <1>8, AskFenced DEF PhaseCaught
<1>9. CASE PhaseDrain
  BY <1>1, <1>9 DEF PhaseDrain, Phase, RequestOK
<1> QED
  BY <1>2, <1>3, <1>4, <1>5, <1>6, <1>7, <1>8, <1>9 DEF PhaseNext

LEMMA NextFenced ==
  ASSUME TestInv, [Next]_testVars
  PROVE  /\ requests' # requests => child.st # "consumed" /\ \A i \in 1 .. Len(requests) : requests[i] # ctl.op
         /\ child.st = "running" /\ child'.st = "killed" /\ ctl.op \in Canonical /\ c.exhausted => Asked(ctl.op)
<1>1. CASE UNCHANGED testVars
  BY <1>1 DEF testVars, controllerVars
<1>2. CASE PhaseNext
  BY <1>2, PhaseFenced
<1>3. CASE RestoreNext
  BY <1>3, RestoreFrame, ServiceOp
<1>4. CASE ProfileNext
  BY <1>4, ProfileFrame
<1>5. CASE \/ Tick \/ Signal \/ ForeignBoot \/ ChildActs \/ ChildReturns \/ DeliveryNext \/ Finished
           \/ \E f \in {"receipts", "records", "packet", "package", "apps"} : Replace(f)
  BY <1>5, WorldFrame
<1> QED
  BY <1>1, <1>2, <1>3, <1>4, <1>5 DEF Next

\* A canonical child is asked to cancel at most once, never after its return
\* was consumed, and one that is killed after the controller saw the cutoff
\* has been asked before.
THEOREM RequestFencedHolds == Spec => RequestFenced
<1>1. TestInv /\ [Next]_testVars =>
        [/\ requests' # requests => child.st # "consumed" /\ \A i \in 1 .. Len(requests) : requests[i] # ctl.op
         /\ child.st = "running" /\ child'.st = "killed" /\ ctl.op \in Canonical /\ c.exhausted =>
              \E i \in 1 .. Len(requests) : requests[i] = ctl.op]_testVars
  BY NextFenced DEF Asked
<1> QED
  BY <1>1, TestInvariant, PTL DEF Spec, RequestFenced

=============================================================================
