-------------------------- MODULE MCAuditProcesses --------------------------
(* Small instances of the three process scopes for TLC: make_scope gives     *)
(* each platform its own, and a behaviour is the life of one of them.        *)
EXTENDS DarwinScope, WindowsScope, TLC

CONSTANTS a, b

VARIABLE backend  \* platform.system()

DarwinUnused == kin = <<>> /\ gate = "none" /\ history = <<>> /\ unsent = {} /\ token = NoKey

ScopeInit ==
  /\ Init /\ WindowsInit
  /\ \/ backend = "Linux" /\ DarwinUnused
     \/ backend = "Darwin" /\ DarwinInit
     \/ backend = "Windows" /\ DarwinUnused

ScopeNext ==
  \/ backend = "Linux" /\ Next /\ UNCHANGED <<backend, darwinVars, windowsVars>>
  \/ backend = "Darwin" /\ DarwinNext /\ UNCHANGED <<backend, windowsVars>>
  \/ backend = "Windows" /\ WindowsNext /\ UNCHANGED <<backend, darwinVars>>

ScopeSpec == ScopeInit /\ [][ScopeNext]_<<vars, darwinVars, windowsVars, backend>>

\* Nothing in a scope orders pids.
PidSymmetry == Permutations(Pids)
=============================================================================
