-------------------------- MODULE InitialRecipient --------------------------
(* The initial-recipient workflow: the preparation and initialization         *)
(* (Recipient), the custody of its evidence (Custody) and the productive run  *)
(* of a worker (Productive).  They are three programs of separate jobs, which *)
(* share the owner, the fences and the records of HostedOwner; a behaviour is *)
(* one of them from its start to its end.                                     *)
EXTENDS HostedOwner

CONSTANTS
  RecipientEnd,   \* JobEnd of Recipient, whose proposal divides the job into four
  RecipientWork   \* its working interval

VARIABLE program

R == INSTANCE Recipient WITH JobEnd <- RecipientEnd, Work <- RecipientWork
C == INSTANCE Custody
P == INSTANCE Productive

Init ==
  \/ program = "recipient" /\ R!Init
  \/ program = "custody" /\ C!Init
  \/ program = "productive" /\ P!Init

Next ==
  /\ UNCHANGED program
  /\ \/ program = "recipient" /\ R!Next
     \/ program = "custody" /\ C!Next
     \/ program = "productive" /\ P!Next

vars == <<ownerVars, program>>

Spec == Init /\ [][Next]_vars

-----------------------------------------------------------------------------

\* The records of earlier stages that stage s is answerable for.
Inherited(s) ==
  CASE program = "recipient" -> R!Inherited(s)
    [] program = "custody" -> C!Inherited(s)
    [] OTHER -> P!Inherited(s)

\* The chain has no gap: no process returns over a record that was replaced
\* before it began, however many processes lie between the one that wrote the
\* record and the one that relies on it (_read_initial_recipient_originals;
\* _collect_bundle, _tail_readback, _before_same_read; read_productive_handoff,
\* recheck_provider_inputs, _check_union).
OriginalsCarried == \A s \in published : StaleSince(s) \cap Inherited(s) = {}

\* The end that the original window or proposal gives the stage in progress.
EndOfStage ==
  CASE program = "recipient" -> R!EndOf(at.stage)
    [] program = "custody" -> C!EndOf(at.stage)
    [] OTHER -> P!EndOf(at.stage)

\* A process that starts later, with a clock of its own and no fence before it
\* has read one, gains no time: nothing is retained and nothing returned after
\* the original end of its stage (_bind_receiving_originals; Window._stage,
\* _CollectClock._bind_end, _TailClock._narrow, _BeforeClock._rebind; _shorten,
\* _enter_seal, tighten_finish).
WindowsKept ==
  [][disk'.written \ disk.written # {} \/ published' # published => now < EndOfStage]_ownerVars

\* The canonical initializer was launched in this process.
Initializing == program = "recipient" /\ In(6) /\ "init-start" \in disk.written /\ child.st # "none"

\* What nobody can vouch for is recorded as unknown, however the process ends:
\* a child or a resource it could not prove closed, and the canonical state that
\* a child was launched to initialize and that was not accepted.  One failure
\* of the initialization is an ordinary one: the child returned 0 and was
\* retired whole, and the receipt of that could not be written, so there are no
\* phase_originals yet (_receiving_initialize_native, _initialize_receiving).
UnknownRecorded ==
  /\ LeaksRecorded
  /\ Initializing /\ at.pc = "raised" /\ own.phase # "ACCEPTED" /\ ~quarantine
     => own.phase = "RETIRED" /\ "init-result" \notin disk.written

=============================================================================
