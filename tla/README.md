# Formal verification of P2pKit

TLA+ modules for the core of P2pKit and for the hosted programs that build and test it under custody, the TLC configurations that check them on small instances, and TLAPS
proofs of the results that hold for every instance. `PROJECT.json` is the index: components, runs, mutants,
the map from definitions to source lines, hazards and theorems. Paths below are relative to the repository;
`rpc/` stands for `library/p2p-rpc/src/commonMain/kotlin/dev/p2pkit/rpc`, `core/` for
`library/p2p-core/src/commonMain/kotlin/dev/p2pkit/core`, and file names in `typewriter.py` are in `scripts/`.

Run a configuration with `tlc -config HostDedup.cfg MCRpcHostEngine`, check proofs with
`tlapm BootstrapProofs.tla` (and likewise for the other `*Proofs` modules).

## 1. Inventory

P2pKit is a Kotlin Multiplatform library for peer-to-peer communication on a LAN: discovery, authenticated
sessions that survive reconnection, messages and files, and on top of them a request/response layer (RPC)
between a host and its paired devices. The RPC layer carries the library's strongest promises
(`docs/rpc/protocol.md`, `docs/rpc/reliability.md`), is written as coroutines around one mutex per engine plus
lock-free tickets, and is modelled first.

The larger part of the repository by lines is Python under `scripts/`: programs that run on hosted machines,
start native children, fill caches, keep the evidence of a run in private custody, encrypt it and hand it
from one process to the next. They are sequential programs, but each is surrounded by what may go wrong at
any of its steps: a child that never returns or forks, a pid that is reused, a clock that passes a cutoff, a
cancellation, a record that was replaced while no process was looking, a failure in the cleanup of a failure.

| Part | State | Operations | Hard behaviour | What makes it correct |
|---|---|---|---|---|
| RPC host engine, `rpc/internal/RpcHostEngine.kt` | records by (device, id), queue of pending calls, eviction orders of bodies and tombstones, four counters, current and ready links, application sessions, closed flag | attach, detach, onMessage (Hello, Invoke, Status, Cancel, Receipt), launch, finish, sweep, revoke, revokeApplicationSession, close | authorization callbacks suspend between lookup and decision; five cancellers race promotion and launch; retention | an id executes once per retention, evidence is true, limits exact, slots handed on, revocation reaches everything, close ends |
| RPC link, `rpc/internal/RpcLink.kt`, `RpcSendAuthorization.kt`, `RpcPhysicalSession.kt` | two bounded queues of tickets, leases, writer, wake-up channel, closed flag | offer, begin, onStart, finish, cancelQueued, close | writer, producer, revocation and teardown race for one ticket; policy suspends before the start | each lease released once, nothing sent after it was given up, nothing of a revoked login, nothing stranded |
| Application sessions (logins), `rpc/RpcApplicationSession.kt` | active, gate, lifetime | commit, revoke | gate orders revocation against admission and sends | no commit after revoke returned |
| RPC client engine, `rpc/internal/RpcClientEngine.kt` | attachment with negotiation and READY, pending calls with ticket, evidence and reply channel, slots | attach, observe, detach, onMessage, callWithDetails, close | retries over connections that drop, hosts that restart, replies that come late, cancellation in the middle of a send | not executed twice, published evidence stays true, no call waits for nothing |
| Facades, `rpc/RpcHost.kt`, `rpc/RpcClient.kt` | engines, links, kit | connect, close, session routing | order of shutdown | as the engines |
| Trust and pairing, `rpc/RpcTrust.kt`, `rpc/RpcPairing.kt` | pins, health, invitations and nearby requests, cooldowns | approve, revoke, createInvitation, onRequest, approve, reject, expiry | storage fails half-way; approval races expiry, rejection and link loss | a failed mutation trusts nobody; a denied request never becomes trust |
| Payload ownership, `rpc/internal/RpcResources.kt`, `core/internal/ApplicationMessageQueue.kt` | reference counts, charges | retain, release, trySend, drain | lock-free counters | charge and lease given back exactly once |
| Session store and manager, `core/internal/SessionStore.kt`, `SessionManager.kt` | session and direction by peer, pending connects | startOrJoin, endPending, tryRegister, removeIfMatches, drainForShutdown | two kits connect to each other at once; replacement races termination | both sides keep the same connection; joiners are answered |
| Sessions and reconnection, `core/internal/P2pSessionImpl.kt` | connection, generation, state | sendAtGeneration, reconnect, close | bytes of one generation never on another | as assumed by the RPC layer |
| Cleanup, `core/internal/LifecycleCleanup.kt`, `SessionCleanupBudget.kt` | settlement and claim of a bounded operation | run, time out, cancel | three-way race for one result | a result reaches caller or disposer, once |
| Discovery, `core/internal/PeerRegistry.kt`, LAN transport | peers per source | upsert, remove, clear | conflated snapshots, platform callbacks | the registry converges |
| Files and frames, `core/internal/FileTransferDispatcher.kt`, `core/protocol/*` | transfers, reassembly buffers | offer, accept, chunk, cancel | limits, cancellation, malformed input | bounded buffers, one end per transfer |
| Process scope, `audit_processes.py` | baseline, marker, handles of the processes it found (pidfds; lineage and audit tokens; a job object) | spawn, discover, signal, drain, close | processes fork, exit and reuse pids between two reads; a process hides its marker; a launch fails half-way | only descendants are signalled; "nothing left" is true |
| Cache provider, `hosted_cache_provider_*.py` | files, scope and clock of a capture; worker and its packet; supervisor and entry with their slots | run, wait, drain, read back, acknowledge, cancel, close | four owners above each other, two cutoffs, cancellation against completion | exit code true, nothing released beneath a writer, entry returns |
| Hosted stages, `run-hosted-cache-bootstrap.py` and its leaves | owner of directories, streams and child; window; private records (originals) | eighteen stages in seven processes: adopt, initialize, stage, produce, collect, export, save, probe | failure inside cleanup; children that hang; originals replaced between processes | leaks recorded, no result over a replaced original, the process ends |
| Initial recipient, `run-hosted-initial-recipient*.py`, `hosted_initial_recipient_productive*.py` | as above, with authority, seal, proposal of windows, encrypted artifacts | prepare, initialize, copy, encrypt, close, seal, receive, tail, upload; produce, save, probe, final custody | some forty stages in a chain of processes, each with a clock of its own | what is inherited was compared; unknown is recorded; no process gains time |
| Test custody, `run-hosted-test-custody.py`, `hosted_full_supplements.py` | rows of phases, device, keys, product, budget | restore, run, collect, retire, retain, supplement, export, seal, guard | every act happens once whoever comes first; cutoff passes inside a phase | the report is true of the machine |
| Security, identity storage, network provisioning | keys, handshakes, Wi-Fi state | - | platform and cryptography | out of scope here |

How the parts interact: a session's `incoming` flow feeds the reader of a link, which calls `onMessage` of the
engine that owns the link; engines answer through `offer`, and the link's writer sends through
`sendAtGeneration`. Links report their end to the engine (`detach`). Trust and logins call back into the host
engine (`revoke`, `revokeApplicationSession`), and the engine consults both before every admission and the
link before every send. The kit owns sessions; the RPC layer never reconnects by itself. The hosted programs
interact with each other only through private records on disk, digests that the workflow hands on, and the
exit code; with their children through pipes, packets and the process scope.

## 2. Modules

| Module | Models | Notes |
|---|---|---|
| `RpcHostLedger` | records, queues and counters of the host with the pure operations on them (`expireLocked`, `trimCache`, `dropResultBody`, admission, completion with promotion) | no variables |
| `RpcHostEngine` | the host engine: one reader per link, one job per record, cancellers, sweeper, revocation, logins, `close()` | EXTENDS the ledger |
| `RpcCall` | abstract: what a host promises about one request id | no links, queues, locks |
| `RpcHostRefinement` | `RpcHostEngine` implements `RpcCall` | INSTANCE with a mapping |
| `RpcLink` | queues, tickets, writer, authorization gate, teardown | |
| `RpcClientEngine` | the client engine and the caller-visible part of its links | |
| `RpcSystem` | client composed with the host contract over connections that drop, and a host that crashes | EXTENDS the client, INSTANCE RpcCall |
| `SessionManager` | connect, joining, setup, arbitration, registration, watcher and shutdown of two kits | both ends of every connection |
| `MCRpcHostEngine`, `MCAuditProcesses` | constants and symmetry of the instances; the last also composes the three scopes | the other runs need none |
| `RpcHostEngineProofs`, `RpcLinkProofs`, `RpcSystemProofs`, `SessionManagerProofs`, `ScopeProofs`, `ProviderProofs`, `BootstrapProofs`, `TestProofs` | theorems | section 5 |
| `AuditProcesses`, `DarwinScope`, `WindowsScope` | the process scope of each platform beside the operating system | the latter two EXTEND the first |
| `ProviderCapture`, `ProviderSupervisor` | one capture of the cache provider; worker, supervisor, cancellation and entry around it | the second EXTENDS the first |
| `HostedOwner`, `HostedParent` | what all hosted stages share: owner, fences, native child, originals; the parent of a child | |
| `BootstrapEntry`, `BootstrapRecipient`, `BootstrapProducer`, `BootstrapCollection`, `Bootstrap` | the eighteen stages of the bootstrap, each module the next group of stages; `Bootstrap` composes them | a chain of EXTENDS |
| `RecipientSender`, `Recipient` | preparation and initialization, in the sending and the receiving process | |
| `CustodyExport`, `CustodyClose`, `CustodyTail`, `HostedUpload`, `Custody` | custody of a run's evidence from the copy to the upload | |
| `ProductiveProduce`, `ProductiveSteps`, `ProductiveFinal`, `ProductiveReceiver`, `Productive` | the productive run of a worker and its custody | EXTENDS the custody's modules where the code reuses them |
| `InitialRecipient` | the three programs of the workflow over one state | INSTANCEs the three above |
| `TestController`, `TestProfile`, `TestDelivery` | the controller and its phases; the operations of `_run`; what follows its return | a chain of EXTENDS |

**Grain.** A step is a lock section, a compare-and-set, or the return of a suspending callback together with
the lock section that follows it. Everything between two suspension points that touches only locals belongs
to the step. A definition keeps the name of the function it models when it stands for the whole of it.
Definitions marked "Fault" are plausible mistakes used as mutants and by nothing else.

**Host** (`RpcHostEngine`). A reader's program counter follows `onMessage` through authentication,
authorization, admission and reply; a record carries the stage of the code plus the launcher and task of its
coroutine (`launchRecord` publishes the job only after starting it, and checks for a cancellation afterwards).
`completeQueued` is split into its claim and its `finish`, because other coroutines run in between.
The gate of a message and the incarnation and trust reads after it are one step. Owners that cancel several
records do it in any order. What `offer` does with a reply is a choice between taken and refused. The memory
budget is a nondeterministic refusal (`BudgetTight`). Left out: statistics, request recorder, diagnostics,
notifications, non-`Exception` throwables, and the failing paths of `RpcTrust.revoke`. A wire Cancel whose
link closes between marking the record and cancelling its job leaves the job uncancelled (`CancelAbandoned`):
the code allows it, the job still ends by its deadline, and `CancelReaches` does not claim otherwise.

**Link** (`RpcLink`). A refused offer changes nothing. CAS, completion and release of a ticket are one step,
since nobody can observe them apart. A cancelled ticket stays in its queue until it is dequeued, as in the
code. `sendAtGeneration` (`P2pSessionImpl.sendOnGeneration`) sends on the generation named, or fails. The lifetime of a login is
not fenced by its gate in the code (only `revoke` is), so `RevocationFence` speaks of revocation only.

**Client** (`RpcClientEngine`). One record per call holds `Pending` and the locals of `callWithDetails`; its
`pc` names the suspension point. Time is abstracted: `due` says that the total deadline has passed, and each
shorter wait (back-off, reply wait, negotiation, receipt) may end at any moment. The CAS of `retireSend` and
its evidence update are one step: once the ticket has been retired, whether it has started cannot change.
`CancelledBeforeStart` stands for every code but `Overloaded` that promises rejection, `HandlerFailed` for every
end after a start. Left out: `awaitReady`, observation, totals, Notify and pairing messages, and the kinds of
link failure (each ends the call in `waitForSameHost` the same way).

**System** (`RpcSystem`). Each connection carries a sequence of messages to the host, each attachment one
from it. A drop loses any suffix of both; what survives may be processed long after the reconnect. The host
is `RpcCall` per id with the retention abstracted away: it may forget an ended call at any time, so nothing
end-to-end depends on the clock (a client's deadline of 30 s is shorter than the retention of 60 s, and the
properties hold without using that). A message on a connection without HELLO closes it. `Restart` is a process
crash: records gone, new incarnation, connections broken, answers already sent possibly delivered.

**Sessions** (`SessionManager`). An attempt is one call of `connect`; its name is also the name of its deferred
and of the connection it dials, whose two ends are set up by the two kits independently. `directionByPeer` is a
function of the connection and the kit, so it is not a variable. The lifecycle gate makes `tryRegister` and the
publication of the session one step, as in the code. Left out: session profiles, the reconnect policy and
the timing of the bounded cleanup of a refused connection.

**Process scope** (`AuditProcesses`). A discovery is one step per read of `/proc` (census, environment, pidfd,
recheck), and the operating system acts between any two. A process is its pid with its start time, the key
`LinuxScope._key` uses. "bounded" and "plain" are the two drains of the code. `DarwinScope` keeps what the kernel
knows of a process (original parent, visible marker, inherited pipe, audit session) apart from what the scope has
read: ownership is proved by marker, pipe or lineage, disproved by a baseline ancestor or a foreign session, and
otherwise open, which blocks the drain. An exec may hide the marker, drop the pipe and give an orphan to launchd.
A signal needs a fresh token of the lifetime. `WindowsScope` asks the job object for its members and terminates it;
the handle of the leader keeps its pid from being reused, and a launch that fails after the creation, even after
the child runs, terminates the job. A process that forks inside every sample can hide a child from any finite number of samples:
`DrainTruthful` exempts exactly that, as the code's comments do not claim more.

**Provider** (`ProviderCapture`, `ProviderSupervisor`). One clock stands for the two clocks of a window. The
packet is its outcome, with what the acknowledgement binds. `Roles` are POSIX and Windows, which close their files in
a different order. The contents of captures are three flags: whether each is complete. `retire()` of the cancellation
control is two steps, the last poll and the close of the pin; a byte written between them is never read, as the
header of `hosted_cache_provider_cancel.py` says, so `ExitTruthful` speaks of every byte sent before the
retirement began (`sentAtRetire`).

**Hosted stages** (`HostedOwner` and the modules above it). A stage opens an owner, runs its steps, retains a
failure record, closes the owner and only then returns. An operation may raise (`Raised`) before or after it acquired what it was to acquire; in the second case the code cannot know, and the
owner becomes unknown. A record on disk is an original or has been replaced: the many thousand lines of the
code that compare fields, digests and file attributes are the test `Originals`, which finds a replacement made
before the comparison and not one made after it. What matters, and is kept, is which records each stage
compares, at which step, and what it inherits by doing so. Child processes run, return, hang or are killed.
A stage that follows another (`Publish`, `Reopen`) starts with a fresh owner but not with a clean machine: what is
still held and a child that still runs stay, so `LeaksRecorded` is about them too. The steps of a provider stand for the return of
`hosted_cache_provider_native.py`, those of a canonical child for `run-audit-command.py`.
The contents of records, the archive format, the encryption and the logs are left out.

**Workflow** (`InitialRecipient`). The three programs belong to separate jobs, so one behaviour is one of them
from start to end. Their modules share the state of `HostedOwner`; the instance gives the recipient program a
longer job, because its proposal divides it into four windows. Up to the seal `EndOfStage` is computed from the start of the first
process and the constants, not from the windows the stages carry. A failure after the launch of the canonical initializer
is unknown with one exception, which the code makes by testing `phase_originals`: the child returned 0 and was retired whole,
and the receipt of that could not be retained.

**Test custody** (`TestController`, `TestProfile`, `TestDelivery`). `phase` is one function in the code and one
group of actions here; `_run` is the sequence `TestProfile` follows. Of the eleven supplements the two with
a retirement of their own and one plain one are told apart. Profiles are the full one and the one with
samples; the others run a subset of the same phases. Of restore and seeding the receipts are read again, never the
dependencies themselves, which later builds may change. The seal reads the records of the packaging; the package and upload
guards read the snapshot of the applications. Each delivery process has a signal flag of its own, so a controller
that was signalled but returned in order is still sealed. The Android uploads are skipped on the hosts without them.

## 3. Runs

Every run is exhaustive for its constants. `Events` selects what the environment of an instance does, so that
each run spends its states on one question; between them all events occur and every action fires.

| Run | Question | Properties |
|---|---|---|
| `processes` | each of the three scopes discovers and drains while processes fork, exit and reuse pids, one read or call refused | `SignalsOnlyOwned`, `DrainTruthful` |
| `provider` | one capture with worker, supervisor and entry; a hung, dying or late provider, one failing step, one cancellation | `ExitTruthful`, `PinsHeld`, `EntryReturns` |
| `bootstrap` | eighteen stages, any two of failed operations, cancellation and replaced records, with hanging children | `LeaksRecorded`, `NoStalePublication`, `ProcessEnds` |
| `initial_recipient` | the three programs of the workflow, each over all its processes, a failed operation, a cancellation or a replaced record, processes that start late | `OriginalsCarried`, `UnknownRecorded`, `WindowsKept` |
| `test_custody` | the controller from restore to delivery, two profiles, one failure, the clock passing the cutoff in any phase | `DeviceRetired`, `PassTruthful`, `KeysNeverExported`, `CompleteTruthful`, `RequestFenced` |
| `sessions` | two kits connect to each other, a call joins or retries, one fault out of nine | `Converges`, `LiveRegistered`, `JoinersOwned` |
| `link` | writer, producer, revocation, reconnect and teardown over a notification and a scoped reply | `LeaseExact`, `CloseDrains`, `WireTruthful`, `RevocationFence`, `OffersSettle` |
| `host_dedup` | one id over two connections of a device that replace each other, with denials, and expiry of body and record | `TombstoneFence`, `ReadyIsCurrent`, `RefusalTruthful` |
| `host_calls` | every kind of request and control, denials, refused offers, budget pressure, login and trust withdrawn and granted again | `CancelReaches`, `EvidenceTruthful` |
| `host_close` | two calls, one slot, one queue place; deadlines, sweeper and `close()` | `AccountingExact`, `WorkConserving`, `ExpiryComplete`, `CallsSettle`, `CloseCompletes`, `ImplementsContract` |
| `system_calls` | a call with an accept callback, two attempts, drops, half sends, bad and late replies, cancellation, denial, forgetting, crash | `AtMostOnce`, `PublishedTruthful`, `ReceiptAfterAcceptance` |
| `system_switch` | the application leaves a host and connects again, two calls and one slot | `SelectionKept`, `EndsWithAttachment` |

All runs pass. For the library they show, on these instances, that no interleaving of the modelled steps
executes a request id twice inside its retention, tells a caller "not sent" or "rejected" of a call that
executes, loses a slot, a lease or a wake-up, lets a withdrawn login send, leaves a call or `close()` waiting for
ever, or lets two kits disagree about their connection. For the hosted programs they show that a failure at
any step, one in the cleanup of another included, loses no child and no open resource silently, that no
process of a chain accepts a record replaced before it began, and that what the programs report (exit
codes, results, "complete") is true of processes, files, device and keys. Each property has a mutant in
`PROJECT.json`: a one-definition change, the kind of mistake the code guards against, under which TLC finds the
property violated. No disagreement between code and documentation was met.

**Bounds and why they are enough.**

- *Host.* Two calls with one slot and one queue place are the smallest instance in which promotion, a full
  queue and competing cancellers occur; a third call adds only longer queues. Two links of one device show
  replacement; devices interact only through the shared limits, which two ids of one device reach as well.
  `BodyTtl = 1`, `RecordTtl = 2` and a clock to 3 pass both expiries and allow a readmission. `MaxMessages` (3 or 4) lets an
  id be invoked, controlled and invoked again.
- *Link.* A notification and a scoped reply occupy one queue each; tickets of one queue do not interact except
  by order and by the limits, which this instance does not reach (a refused offer changes nothing). Two
  generations show one reconnect.
- *System.* Two attempts over two connections show one loss and one retry; the code allows three
  attempts, the third being a repetition of the second. `ReplySlots = 4` is the code's capacity. Two incarnations
  show one crash.
- *Sessions.* Two attempts on one side and one on the other make a simultaneous open, a join and a second
  round in one behaviour. One fault: each fault is a single early return or rollback.
- *Processes.* Two pids and three births, the leader's included, allow two forks, or a fork and a stranger on
  the pid of the ended child; the code asks for three quiet samples on POSIX, the instance for two, the smallest
  number in which a sample can be undone by the next.
- *Provider, hosted stages, test custody.* The clock has as many ticks as there are distinct fences, plus one
  beyond the last, so that every fence can expire before, between and after its neighbours. `MaxTrouble`
  bounds raised operations, replaced records and cancellations together: one, and two in the bootstrap,
  whose cleanup paths meet a failure while they handle one. Expired fences and hanging children are free.
  `Replaceable` names one record of each kind that some stage inherits from another process: records of one kind are
  compared at the same places.

In the host, link, session and system runs deadlock checking is off because an instance stops at its bounds,
and in `processes` because a drained scope stops; that nothing stops too early is what the liveness properties
say. The other runs check deadlock: an ended program stutters explicitly and nothing else may stop.

**Fairness.** `RpcHostEngine`: the clock advances, and sweeper, launchers, jobs, cancellers and `close()` are
weakly fair, since coroutines on a live dispatcher run; a handler is assumed to return only once its
deadline has passed, the least the code asks of a cooperative handler. Readers and the wire are not fair.
`RpcLink`: the writer (and with it `sendAtGeneration`) and
teardown after the writer died or the session closed are weakly fair. `RpcSystem`: the coroutines of a call, the writer, and the closing
of a link whose attachment is gone (`close()` runs `NonCancellable`); no reply, host step, reconnect or deadline
is assumed, which is the point of `EndsWithAttachment`. A call inside the application's `accept` callback is
exempt: the code does not bound it by the attachment. `ProviderSupervisor`: launcher, finisher and entry are weakly
fair and time passes while the entry runs; the worker, the provider and whoever cancels are not fair, since
the entry has to return without them. `Bootstrap`: the process itself takes its steps and time passes; its
children are not fair. In both, the clock is what ends every wait, as in the code.

## 4. Refinement

`RpcCall` states the contract of one request id: held before it begins, begun once, ended with a code that
tells whether it began, remembered for `RecordTtl` with or without its body. `RpcHostRefinement` maps a record to
such a call (`LifeOf` reads stage and `began`) and `host_close` checks that every step of the engine is a step
of the contract: one lock section makes at most two moves of one call (forget and hold again, end and drop
the body, end and forget). `RpcSystem` uses the moves of the same module as its host, so the end-to-end results
rest on what the engine has been checked to implement. Two outcomes may follow without a start,
`CancelledBeforeStart` and `AccessRevoked`; the client treats only the first as proof.

## 5. Proofs

| Theorem | Statement |
|---|---|
| `RpcHostEngineProofs!TypeCorrect` | `Spec => []TypeOK` |
| `RpcHostEngineProofs!SafetyInvariant` | `Spec => []SafetyInv` |
| `RpcHostEngineProofs!TombstoneFenceHolds` | `Spec => []TombstoneFence` |
| `RpcHostEngineProofs!EvidenceTruthfulHolds` | `Spec => []EvidenceTruthful` |
| `RpcHostEngineProofs!WorkConservingHolds` | `Spec => []WorkConserving` |
| `RpcHostEngineProofs!ReadyIsCurrentHolds` | `Spec => []ReadyIsCurrent` |
| `RpcHostEngineProofs!BooksInvariant` | `Spec => []BooksInv`: the lists, the order of both queues and the counters |
| `RpcHostEngineProofs!AccountingExactHolds` | `Spec => []AccountingExact` |
| `RpcHostEngineProofs!ExpiryCompleteHolds` | `Spec => []ExpiryComplete` |
| `RpcHostEngineProofs!RefusalTruthfulHolds` | `Spec => RefusalTruthful` (an action property) |
| `RpcHostEngineProofs!CancelReachesHolds` | `Spec => []CancelReaches` |
| `RpcHostEngineProofs!ImplementsContractHolds` | `Spec => ImplementsContract`: the engine refines `RpcCall` |
| `RpcLinkProofs!LinkTypes`, `LinkLeaseExact`, `LinkWireTruthful`, `LinkCloseDrains` | `Spec => []` of `TypeOK`, `LeaseExact`, `WireTruthful`, `CloseDrains` |
| `RpcLinkProofs!LinkRevocationFence` | `Spec => RevocationFence`, an action property |
| `SessionManagerProofs!SessionConverges`, `SessionLiveRegistered`, `SessionJoinersOwned` | `Spec => []` of `Converges`, `LiveRegistered`, `JoinersOwned` |
| `RpcSystemProofs!SystemInvariant`, `SystemTyped` | `Spec => []SystemInv`, `Spec => []TypeOK` |
| `RpcSystemProofs!AtMostOnceHolds`, `PublishedTruthfulHolds`, `ReceiptAfterAcceptanceHolds` | `Spec => []` of `AtMostOnce`, `PublishedTruthful`, `ReceiptAfterAcceptance` |
| `RpcSystemProofs!SelectionKeptHolds` | `Spec => SelectionKept`, an action property |
| `RpcSystemProofs!SlotsExactHolds` | `Spec => []SlotsExact`: no slot of the client is lost or given back twice |
| `ScopeProofs!ScopeSignalsOnlyOwned`, `ScopeDrainTruthful` | `ScopeSpec => [](backend # "Darwin" => P)` for `SignalsOnlyOwned` and `DrainTruthful`: the scopes of Linux and Windows |
| `ProviderProofs!SupervisorInvariant` | `Spec => []SupervisorInv` |
| `ProviderProofs!ExitTruthfulHolds`, `PinsHeldHolds` | `Spec => []` of `ExitTruthful`, `PinsHeld` |
| `BootstrapProofs!BootstrapInvariant` | `Spec => []BootInv` |
| `BootstrapProofs!LeaksRecordedHolds`, `NoStalePublicationHolds` | `Spec => []` of `LeaksRecorded`, `NoStalePublication` |
| `TestProofs!TestInvariant` | `Spec => []TestInv` |
| `TestProofs!DeviceRetiredHolds`, `PassTruthfulHolds`, `KeysNeverExportedHolds`, `CompleteTruthfulHolds` | `Spec => []` of `DeviceRetired`, `PassTruthful`, `KeysNeverExported`, `CompleteTruthful` |
| `TestProofs!RequestFencedHolds` | `Spec => RequestFenced`, an action property |

The assumptions on the constants are named in the module that declares them and evaluated by TLC in the runs;
only the tickets of a link are assumed finite (their entries are counted):

- host engine: `ConstantsAssumption` (links and logins belong to devices, none of the sets of devices, ids and
  procedures is empty), `LimitsAssumption` (limits and times are naturals; there is at least one slot and one
  record), `OwnersAssumption` (a link is not a login, and neither is one of the three reasons for which the engine
  itself ends calls; it keeps the owners of cancellations apart);
- link: `LinkConstants` (the sizes and limits are naturals, notifications and scoped tickets are tickets);
- client, and client with host: `ClientAssumption` (the idempotent calls and those with an accept callback are calls;
  the limits are positive). Nothing is assumed of `MaxIncarnations`, of the number of calls or of the failures that
  `Events` selects;
- sessions: `AttemptsDisjoint` (the connection attempts of the two kits are different);
- process scopes: `ProcessAssumption` (drain asks for at least one quiet sample);
- bootstrap: `BoundsAssumption` (the end of the job is a natural, the intervals are positive ones; that `MaxTrouble` is
  a natural is not used). Nothing is assumed of `Replaceable`;
- test controller: `FenceAssumption` (the fences are naturals in the order of the code; the proofs use only that the
  cutoff, the end of the delivery and the upload's interval are naturals). Nothing is assumed of `MaxTrouble`;
- provider: `WindowAssumption` (the ends of the intervals are positive naturals in the order of the code). Nothing is
  assumed of the bounds on faults, writes and cancellations.

`TypeOK` of the host, of the link and of client and host together is proved and not checked by a run.

### The host engine

**Ledger.** `TombstoneFence`, `EvidenceTruthful` and `WorkConserving` are not inductive alone. `SafetyInv` is
`TypeOK` with four statements about the ledger:

- `FenceOf`: besides the fence itself, a forgotten key of an open engine is old enough. Without it nothing
  would be known at the moment of readmission, when the record is gone.
- `CallsOK`: how stage, launcher, job and terminal code of a record go together. A code on its way to `finish`
  already agrees with `began`, and a record that is queued, due to be launched, ready or decoding has neither
  a code nor a start; so the code that any owner attaches later is true.
- `QueuesOf`: the pending queue lists queued records and the completion queue complete ones, each once. The
  head that is promoted is therefore not already running, and expiry removes only complete records.
- `WorkOf`: the limits, and that a record waits only while all slots are taken; whoever frees a slot promotes
  in the same transaction.

The invariant is stated on a ledger value and not on the variable, because one lock section applies several
operations in turn (expire, install; complete, promote, trim): each operation has a lemma that it keeps
`LedgerOK`, and an action composes them. The first part of `RpcHostEngineProofs` holds the typing lemmas of the
ledger's operations, so that the proofs about actions do not open the definitions on sequences. `ReadyIsCurrent`
is inductive together with `TypeOK` and has one step per action that touches links.

**Books.** `AccountingExact` and `ExpiryComplete` compare counters and lists with the records. `BooksInv` says that the
three lists hold exactly the queued records, the complete ones and those with a body, that the latter two are in the order
of completion, and that each counter is the number of the records it counts. The order is needed for the
counters too: `expireLocked` walks each list from its head and stops at the first entry that has not lapsed, so that it misses
nothing, and retires no record whose body is still counted, only because both lists are sorted by the same times.
Devices and ids are not assumed finite; that the sets which are counted are finite is part of the invariant.

**Calls over a step.** The last part of `RpcHostEngineProofs` rests on one lemma, `StepLives`: in every step each key lives in one of the
ways a record may live (it carries on, rises towards its start, begins, ends, is completed, loses its body, vanishes), or it is
the one key that the step admits. With it,

- the refinement follows key by key: every way of living is a move of `RpcCall`, at most two in one lock section.
  The attempt showed that `LifeOf` had been written with a `CASE` whose guards overlapped (a complete record that
  had begun satisfied two), which TLC resolved by order and the semantics of TLA+ leaves open; it is an `IF` chain now.
- `RefusalTruthful` is about the step in which a reader comes to hold an answer that promises rejection: at that moment no
  call of the device and id is queued, runs or has run within its retention, whichever connection admitted it while
  this reader was suspended. It rests on `AnswerInv` = `SafetyInv` with `Codes` (the codes a record can end with, and
  that its procedure is a known one) and `Readers` (a reader at work belongs to an attached link and authorizes only
  procedures it has found); `Answered` says of each reader step what its answer implies about the record it has just looked up again.
- `CancelReaches` is carried by `CancelInv` = `SafetyInv` with `Reached` (a call that a revocation, the end of a login or
  `close()` covers knows that it is cancelled; while it is queued that owner still has to claim it, and while its job
  runs on that owner still has to cancel the job) and `Settled` (an owner that has returned has nothing left to do).

### The link

`LinkInv` is `TypeOK`, `LeaseExact`, `WireTruthful`, `CloseDrains` and

- `Placed`: a ticket that is not settled is in a queue or in the writer's hand, and in the latter once it has started;
- `Handed`: what the writer knows, at each of its steps, of the ticket in its hand;
- `Gated`: between the check of a login and the start of a ticket under it the login cannot be revoked, because
  the gate is held;
- `Sealed`: the order in which closing sets its flags.

`LeaseExact` compares the byte counts with the tickets in the queues. The total is stated relationally (`Totals`: there
are prefix sums that lead from 0 to the count), which can be reasoned about without induction: an offer extends the
sums by one and taking the head shifts them.

### Client and host together

None of the properties of `RpcSystem` is about one side only: what a caller publishes is about executions at the host,
and the two communicate over connections that lose the ends of their streams, answers that outlive the host process that
sent them, and records the host forgets. `SystemInv` says where the one chance to execute can be:

- `CallOK`: how the fields of a call go together. Before an offer, `invoke` is set exactly if the evidence is still
  `NotSent` or `RejectedBeforeExecution`; while a message is out, `invoking` and `ambiguous` exclude each other; a
  published clean verdict leaves no ticket that may still invoke.
- `Tokens`: for a call the host was never asked to repeat there is one token. Either its first Invoke is `Unsettled` (not
  yet offered, or in the writer's hand), or it is on exactly one connection, or a refusal of it is on its way, or the host
  has it in its books. These exclude each other, and `Overloaded` is the one refusal after which the client invokes
  again: the token goes back. That only the answer to the first unanswered Invoke counts as a proof of rejection
  (`ambiguous` in `FailureReply`) is what keeps it a single token.
- `Known`: whatever is said to be a result (a record, an answer on the wire, a queued reply) is one of a finished call.
- `Receipts`: a receipt that is offered or on the wire is due, in the sense of `ReceiptAfterAcceptance`: its call is
  accepted, and it is on the connection that was current when the result was decoded.
- `Served`: a connection is served by one incarnation of the host, a READY on its way names it, and no connection is
  that of two attachments. New connections get the number after the largest in use; that there is a largest is the only
  place where well-foundedness (`WFMin` on the naturals) is used.

`AtMostOnce` follows from `Tokens`: wherever an Invoke is still possible nothing has executed and no record exists, and a
token that has reached the books is spent. When the host restarts or forgets, the record goes but no Invoke is left that
could bring it back, since a call whose Invoke may have arrived only asks for its status. Only an idempotent call that was
told it is forgotten is invoked `again`, and the invariant keeps that flag to idempotent calls.
The proof does not go action by action over the whole invariant: each action is shown to
move the calls it touches in one of few ways (`Moves`, `Rejects`, `Gets`, and what the wires may lose or gain), and the
invariant is shown to survive those. `SlotsExact` is inductive with `SystemInv`; it counts the calls that hold a slot and
needs no assumption that the calls are finite.

### Sessions

`SessionInv` is the type, `LiveRegistered`, `JoinersOwned` and `Registered` (the published sessions are the registered
ones, and a registered session that ends is watched), `PendingOwned` (the pending slot names a connector in its
transaction), `Undialed` (a call that has not been a connector has no connection) and `Uneventful`. `Converges` is about
behaviours in which nothing has failed, so it needs to know what such a behaviour looks like: `Uneventful` says that the
connections of the kit that wins the tie-break run into nothing, and without any so do the others.

### Process scopes

`LinuxInv` says that start times only grow (`Fresh`), that a known lifetime is a descendant's and one of the baseline is
not (`Owned`), what a descriptor names between the steps that acquire it (`Held`), and that every quiet sample a running
descendant survived had a fork in it (`Slips`): three quiet samples without a fork therefore prove the drain.
`WindowsInv` has the census in place of it: a member that the census does not know of joined after it began (`Surveys`),
and the open handle keeps the leader's pid from being used again (`LeaderHeld`). `ScopeInv` joins the platforms. The
Darwin scope finds members along parent links, which is a recursive definition; it is only model-checked.

### The provider

`SupervisorInv` goes from the inside out. The capture and the processes of the provider come first: which of them can
be alive at each step of the capture, and which files are open beneath them. A worker that dies leaves the
provider behind, so nothing about the processes follows from its end; only a drained scope says that they are gone, and
the supervisor that has retired its scope is the one place where the outer levels learn it. A packet that
says "result" was written by a worker whose provider exited 0 with complete captures, and no later step takes that back.
The cancellation pipe is the hardest part of `ExitTruthful`, since a byte may be written at any moment until the end is
closed: as long as the control has seen no byte, all the bytes that were sent are still unread, so a poll that
begins the retirement and finds the pipe empty means that none was sent before it. What is sent after it is
the gap the code documents, and no claim is made about it.

### The bootstrap

The eighteen stages are made of a dozen templates (`Step`, `Spawn`, `Poll`, `Drain`, `CloseOwner`, `Publish`, ... of
`HostedOwner` and `HostedParent`), so the proof has one lemma per template, which says at which places of a stage it
keeps `BootInv`, and one line per step of a stage. `LeakOK` follows the life of a child and of an owner: outside
the places between launch and drain a child that may run belongs to an unknown owner, and at the places
after a close nothing is held and nothing is unknown. `QUARANTINE` is never taken back, so either half may fail once it
is set; this is why the invariant is a disjunction and `LeaksRecorded` alone is not inductive, for the
step that ends a stage needs to know that the close before it left nothing. `ChainOK` says of the stage in progress
what `NoStalePublication` says of those that have returned: once it is past its comparisons (`Compared` names the
places before them) and has not failed, no record it inherits was replaced before it began. A record that is
replaced later is stale for the stages to come only, which is the reason the property speaks of the beginning of a stage.

### The test controller

`TestInv` is about one controller that passes through some sixty operations in three parts (restore, main, finally), most
of which own nothing. Each conjunct says what one resource has to do with the operation the controller is in:

- `ControlOK`: the operations of each part, and that only `close` exits with zero;
- `ChildOK` and `RequestOK`: between the spawn of a canonical child and the consumption of its return it is the
  cancellation target; while it is, there is a request exactly if the phase has asked, and an exhausted budget has been
  answered by a request. `RequestFenced` follows: whoever asks finds no request at all, and whoever kills after the
  cutoff finds one;
- `KeysOK`: keys are present only after the bundle supplement was entered and before it was screened, and the export, its
  operations and the `encrypted` flag are reached only by a finally that found it screened or never entered;
- `DeviceOK`: a device that a child booted has its retirement ahead of it (`Pending`) or is unknown. The retirement
  is attempted once, so `Pending` has to say which operations still lead to it, including every exception between the
  product and the finally;
- `ProductOK`: a clean row of the product is one of a return before the cutoff. The phase reads the clock after it has
  consumed the return; that the clock is not earlier than the return is what makes the row true;
- `DeliveryOK`: originals may be replaced between any two steps, so what the guard before an upload saw does not count.
  What was uploaded is the original if it is still the original at the guard behind it, and the receipts the seal reread
  were not replaced before the controller returned. `Reported` adds that what was uploaded is reported, unless the
  guard behind it is still to come or the delivery has stopped.

The lemmas follow the control: an operation goes on (`MovesOn`), leaves for the finally (`LeaveAny`) or stays in its
phase (`PhaseMoves`), and each of the three is shown once to keep the invariant.

### Only model-checked

Liveness (`CallsSettle`, `CloseCompletes`, `OffersSettle`, `EndsWithAttachment`, `EntryReturns`, `ProcessEnds`), which needs
fairness; the Darwin scope, whose census is recursive; and `OriginalsCarried`, `UnknownRecorded` and `WindowsKept` of
the three initial-recipient programs. Those use the templates of the bootstrap, but through three instances with
constants of their own and with owners that wait for other owners; the lemmas of `BootstrapProofs` would have to
be stated again for each of them.

## 6. Plan

The model is complete as far as section 7 says. What is left is proof: the properties of `InitialRecipient`, one program
after the other, along the lines of `BootInv`.

## 7. Not modelled

- Handshake and record encryption (a cryptographic protocol), platform key stores, sockets, Bonjour/JmDNS and
  Wi-Fi provisioning (platform APIs), byte formats, framing and serialization, statistics and diagnostics,
  samples, build logic and vendored code.
- Pairing, file transfer, the peer registry, the application message queue and the bounded-operation helper of
  the library. Each is small and separate from what is modelled; their outcomes are free choices where a
  modelled component depends on them. Their hazards carry a note in `PROJECT.json`.
- Of the hosted programs: the evidence the process scopes record and its size limits; the validation of records, inventories and
  file attributes, which is sequential code whose verdict the models take as "original or replaced", and which
  fills most of the remaining lines; the scripts for dependency updates, ordinary runs, qualification in
  the laboratory, packaging and release, which validate and call tools.

`PROJECT.json` lists each part with its reason.
