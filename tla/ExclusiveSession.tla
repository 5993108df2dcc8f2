-------------------------- MODULE ExclusiveSession --------------------------
(***************************************************************************)
(* What the system-wide monitoring mode promises to processes: it is a     *)
(* service with a single owner.  A process opens the service when nobody   *)
(* has it, is served samples from then on, and closes it itself.           *)
(***************************************************************************)
CONSTANTS
  Proc,       \* the processes
  Nobody      \* not a process

VARIABLES
  owner,      \* the process that has the service open, or Nobody
  serving     \* are samples being delivered to the owner?

sessionVars == <<owner, serving>>

SessionInit == owner = Nobody /\ serving = FALSE

Open(p) == owner = Nobody /\ owner' = p /\ UNCHANGED serving

Serve == owner # Nobody /\ ~serving /\ serving' = TRUE /\ UNCHANGED owner

Withhold == serving /\ serving' = FALSE /\ UNCHANGED owner

(* The service is closed only after the deliveries have ceased.            *)
Close(p) == owner = p /\ ~serving /\ owner' = Nobody /\ UNCHANGED serving

SessionNext == (\E p \in Proc : Open(p) \/ Close(p)) \/ Serve \/ Withhold

SessionSpec == SessionInit /\ [][SessionNext]_sessionVars
=============================================================================
