-------------------------- MODULE CredentialCustody --------------------------
(***************************************************************************)
(* What the task promises about the credentials it prepares for packer,    *)
(* whichever the provider and however the run goes: all of them are there  *)
(* before packer starts, none is taken away while packer works, none       *)
(* appears afterwards, and when custody ends in order nothing stays but    *)
(* the files whose deletion failed.  Only the loss of the process ends     *)
(* custody without a release.                                              *)
(***************************************************************************)
CONSTANT Files

VARIABLES
  files,      \* credential files on disk
  injected,   \* credential variables are set in the environment
  worker,     \* packer: "none", "working" or "gone"
  open,       \* the task has custody of what it prepared
  stuck       \* files whose deletion failed

vars == <<files, injected, worker, open, stuck>>

Init ==
  /\ files = {} /\ injected = FALSE /\ worker = "none"
  /\ open = TRUE /\ stuck = {}

\* Packer has not started yet.
Preparing == open /\ worker = "none"

AddFile(f) ==
  /\ Preparing
  /\ files' = files \cup {f}
  /\ UNCHANGED <<injected, worker, open, stuck>>

AddVariables ==
  /\ Preparing
  /\ injected' = TRUE
  /\ UNCHANGED <<files, worker, open, stuck>>

Start ==
  /\ Preparing
  /\ worker' = "working"
  /\ UNCHANGED <<files, injected, open, stuck>>

Stop ==
  /\ open /\ worker = "working"
  /\ worker' = "gone"
  /\ UNCHANGED <<files, injected, open, stuck>>

Dismiss == worker' = IF worker = "working" THEN "gone" ELSE worker

\* Everything goes at once; packer has ended, or is abandoned with it.
Release ==
  /\ open
  /\ open' = FALSE
  /\ injected' = FALSE
  /\ \E failed \in SUBSET files : files' = failed /\ stuck' = failed
  /\ Dismiss

\* SIGKILL, or the machine is gone.
Lose ==
  /\ open
  /\ open' = FALSE
  /\ Dismiss
  /\ UNCHANGED <<files, injected, stuck>>

Next ==
  \/ \E f \in Files : AddFile(f)
  \/ AddVariables \/ Start \/ Stop \/ Release \/ Lose

Spec == Init /\ [][Next]_vars

=============================================================================
