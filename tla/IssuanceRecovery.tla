-------------------------- MODULE IssuanceRecovery --------------------------
(***************************************************************************)
(* Whether an operator who follows the tool's error messages always gets   *)
(* back to a complete bundle.  Faults and requested rotations are finitely *)
(* many; after each failed run the operator removes what the error says to *)
(* remove, or re-runs with the -rotate flags that regenerate a torn key.   *)
(* Between successful runs roots may be deleted as after a compromise.     *)
(***************************************************************************)
EXTENDS IssuanceInvariants

CONSTANTS
  Fleet,        \* the inventory the operator issues for
  MaxFaults,    \* bound: crashes, kills and failed writes
  MaxWishes     \* bound: runs of Jobs, or new roots, the operator asks for

ASSUME FleetAssumption == Fleet \subseteq Slots /\ MaxFaults \in Nat /\ MaxWishes \in Nat

VARIABLES faults, wishes
rvars == <<vars, faults, wishes>>

\* Cabinets the error messages of a plain run point to, and that -rotate accepts.
TornCabinets ==
  {s[2] : s \in {q \in Fleet : /\ Torn \in {seed[UserKey(q)], seed[LeafKey(q)]}
                               /\ Torn \notin {creds[q], crt[q]}}}
RepairJob ==
  [inv |-> Fleet, rot |-> TornCabinets, rotOp |-> seed[OperatorSK] = Torn,
   rotAcct |-> {a \in Accounts : seed[AccountSK(a)] = Torn}]

BrokenCA == Torn \in {caCrt, seed[CAKey]} \/ (caCrt = None) # (seed[CAKey] = None)
BrokenRoots == {a \in Accounts : seed[AccountKey(a)] = Torn}

RInit == Init /\ faults = 0 /\ wishes = 0

\* A step of the run; an early end that the disk did not force is a fault.
RunOrFault ==
  /\ RunStep \/ Crash
  /\ IF pc' = "idle" /\ ~Blocked
     THEN faults < MaxFaults /\ faults' = faults + 1
     ELSE UNCHANGED faults
  /\ UNCHANGED wishes

\* After a failed run: remove the broken root files, or start over.
Repair ==
  /\ pc = "idle"
  /\ \/ BrokenCA /\ DeleteCA
     \/ \E a \in BrokenRoots : DeleteAccountRoot(a)
     \/ DeleteTornSeed
     \/ /\ ~BrokenCA /\ BrokenRoots = {}
        /\ \A f \in Unrotatable : seed[f] # Torn
        /\ Start(RepairJob)
  /\ UNCHANGED <<faults, wishes>>

\* After a successful run some other invocation, or a compromised root that the runbook
\* has the operator delete; after a failed one an impatient retry, nothing repaired.
Wish ==
  /\ wishes < MaxWishes
  /\ \/ pc = "done" /\ \E j \in Jobs : Start(j)
     \/ pc = "done" /\ DeleteCA
     \/ pc = "done" /\ \E a \in Accounts : DeleteAccountRoot(a)
     \/ pc = "idle" /\ Start(RepairJob)
  /\ wishes' = wishes + 1
  /\ UNCHANGED faults

\* A complete bundle and nothing asked for: the system may rest here.
Rest == pc = "done" /\ UNCHANGED rvars

RNext == RunOrFault \/ Repair \/ Wish \/ Rest

RecoverySpec == RInit /\ [][RNext]_rvars /\ WF_rvars(RunOrFault) /\ WF_rvars(Repair)

\* However runs crash and whatever they tear, the operator's repairs end in a complete
\* bundle: a failed run is followed, eventually, by a successful one.
AlwaysRecovers == pc = "idle" ~> pc = "done"

=============================================================================
