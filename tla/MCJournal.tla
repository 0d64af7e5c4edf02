----------------------------- MODULE MCJournal -----------------------------
(***************************************************************************)
(* The journal backend for TLC. An initial state picks a scene: the writer  *)
(* lease with three processes, or the journal with two of them. Lease       *)
(* recovery is checked where no pid comes back while a file names it.       *)
(***************************************************************************)
EXTENDS JournalRegistry, TLC

CONSTANT Scenes

VARIABLE scene

mcVars == <<scene, vars>>

FreshPids == INSTANCE JournalRegistry WITH PidsReturn <- FALSE

MCInit == scene \in Scenes /\ Init

InLease(A) == A /\ UNCHANGED <<scene, disk, writer, accepted, history>>
TwoProcesses(A) == A /\ pc'["p3"] = "down" /\ UNCHANGED scene

MCNext ==
  \/ scene = "lease" /\ InLease(LeaseNext)
  \/ scene = "fresh pids" /\ InLease(FreshPids!LeaseNext)
  \/ scene = "journal" /\ TwoProcesses(Next)

(* The service manager starts processes again and their event loops run. *)
MCFairness ==
  \A p \in Process :
    /\ WF_mcVars(scene = "fresh pids" /\ InLease(FreshPids!Start(p)))
    /\ WF_mcVars(scene = "fresh pids" /\ InLease(LeaseStep(p)))

MCSpec == MCInit /\ [][MCNext]_mcVars /\ MCFairness

(***************************************************************************)
(* While processes keep being started, the lease of a dead process does    *)
(* not stay for ever, unless some process died between creating and        *)
(* removing the recovery file (acquireWriterLease, registry.ts).           *)
(***************************************************************************)
LeaseRecovers == scene = "fresh pids" => RecoversUnlessInterrupted
=============================================================================
