---------------------------- MODULE VerifiedStore ----------------------------
(***************************************************************************)
(* What the installer promises about the tool cache, however it downloads, *)
(* verifies, copies and records: a slot that holds one binary, a seal that *)
(* names contents somebody vouched for, and jobs that use the binary.  A   *)
(* job that insists on verification uses a vouched binary, unless it was   *)
(* excused; a job that insists on the network is never excused.            *)
(***************************************************************************)
CONSTANTS
  Jobs,
  Contents,   \* what the slot may hold
  Nothing     \* the slot is empty, or the seal is missing

VARIABLES
  held,       \* what the slot holds
  seal,       \* the contents the seal names
  vouched,    \* contents somebody vouched for
  state,      \* of each job
  strict,     \* the jobs that insist on verification
  online,     \* the jobs that insist on the network
  excused,    \* the jobs that announced that they go without
  used        \* what each job used

store == <<held, seal, vouched>>
jobs == <<state, strict, online, excused, used>>

Init ==
  /\ held \in Contents \cup {Nothing} /\ seal = Nothing /\ vouched = {}
  /\ state = [j \in Jobs |-> "waiting"]
  /\ strict \subseteq Jobs /\ online \subseteq Jobs
  /\ excused = {}
  /\ used = [j \in Jobs |-> Nothing]

Working(j) == state[j] = "working"

\* A job with new demands; it forgets what the previous one in its place did.
Begin(j) ==
  /\ ~Working(j)
  /\ state' = [state EXCEPT ![j] = "working"]
  /\ strict' \in {strict \cup {j}, strict \ {j}}
  /\ online' \in {online \cup {j}, online \ {j}}
  /\ excused' = excused \ {j}
  /\ used' = [used EXCEPT ![j] = Nothing]
  /\ UNCHANGED store

Vouch(c) ==
  /\ \E j \in Jobs : Working(j)
  /\ vouched' = vouched \cup {c}
  /\ UNCHANGED <<held, seal, jobs>>

\* The seal goes with the contents it names.
Empty ==
  /\ \E j \in Jobs : Working(j)
  /\ held' = Nothing /\ seal' = Nothing
  /\ UNCHANGED <<vouched, jobs>>

\* Only an unsealed slot is filled, by a working job.
Fill(c) ==
  /\ \E j \in Jobs : Working(j)
  /\ seal = Nothing
  /\ held' = c
  /\ UNCHANGED <<seal, vouched, jobs>>

\* Only what is vouched for is sealed.
Seal(c) ==
  /\ \E j \in Jobs : Working(j)
  /\ c \in vouched
  /\ seal' = c
  /\ UNCHANGED <<held, vouched, jobs>>

Excuse(j) ==
  /\ Working(j) /\ j \notin online
  /\ excused' = excused \cup {j}
  /\ UNCHANGED <<store, state, strict, online, used>>

Use(j) ==
  /\ Working(j)
  /\ j \in strict \ excused => held \in vouched
  /\ state' = [state EXCEPT ![j] = "done"]
  /\ used' = [used EXCEPT ![j] = held]
  /\ UNCHANGED <<store, strict, online, excused>>

Abandon(j) ==
  /\ Working(j)
  /\ state' = [state EXCEPT ![j] = "failed"]
  /\ UNCHANGED <<store, strict, online, excused, used>>

\* From outside, while no job works: other contents, or a lost seal.
Damage ==
  /\ \A j \in Jobs : ~Working(j)
  /\ held' \in Contents \cup {Nothing}
  /\ seal' \in {seal, Nothing}
  /\ UNCHANGED <<vouched, jobs>>

Next ==
  \/ \E j \in Jobs : Begin(j) \/ Excuse(j) \/ Use(j) \/ Abandon(j)
  \/ \E c \in Contents : Vouch(c) \/ Fill(c) \/ Seal(c)
  \/ Empty \/ Damage

Spec == Init /\ [][Next]_<<store, jobs>>

=============================================================================
