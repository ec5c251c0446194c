------------------------- MODULE IssuanceInvariants -------------------------
(***************************************************************************)
(* The inductive invariants behind Issuance's safety properties: what a    *)
(* run holds at each of its steps, and how every user JWT ever issued is   *)
(* accounted for by the disk.  TLC checks them on small instances,         *)
(* IssuanceProofs proves them.                                             *)
(***************************************************************************)
EXTENDS Issuance

AccountSteps == {"acctcap", "acctsk"}
CabinetSteps == {"capture", "user", "creds", "leaf", "crt"}
AfterAccounts ==
  {"inv", "cakey", "cabinet", "dmz", "dmzcreds", "bundle", "done"} \cup CabinetSteps

\* What the loop variables of IssueWithRotation range over at each step.
Focus ==
  /\ pc # "idle" => job \in Jobs
  /\ pc = "acct" => todo \subseteq Accounts
  /\ pc \in AccountSteps => cur \in Accounts /\ todo \subseteq Accounts
  /\ pc \in {"inv", "cakey", "cabinet"} \cup CabinetSteps => job.inv \in SUBSET Rows
  /\ pc = "cabinet" => todo \subseteq Rows
  /\ pc \in CabinetSteps => cur \in Slots /\ todo \subseteq Rows
  /\ pc = "dmz" => todo \subseteq DMZConsumers
  /\ pc = "dmzcreds" => cur \in DMZConsumers /\ todo \subseteq DMZConsumers
  /\ pc = "bundle" => todo \subseteq Accounts

\* Each audit log holds its own kind of record.
LogsTyped ==
  /\ log["cabinet"] \subseteq Retirement
  /\ tail["cabinet"] \in Retirement \cup {None, Torn}

\* The keypairs a run has in memory at each step are readable on disk: whatever it
\* signs with has been loaded or written before.
KeysHeld ==
  /\ pc \notin {"idle", "opkey"} => seed[OperatorKey] \in Nat
  /\ pc \notin {"idle", "opkey", "opcap", "opsk"} => seed[OperatorSK] \in Nat
  /\ pc = "acct" => \A a \in Accounts \ todo :
       seed[AccountKey(a)] \in Nat /\ seed[AccountSK(a)] \in Nat
  /\ pc \in AccountSteps =>
       /\ seed[AccountKey(cur)] \in Nat
       /\ \A a \in Accounts \ (todo \cup {cur}) :
            seed[AccountKey(a)] \in Nat /\ seed[AccountSK(a)] \in Nat
  /\ pc \in AfterAccounts => \A a \in Accounts :
       seed[AccountKey(a)] \in Nat /\ seed[AccountSK(a)] \in Nat
  /\ pc = "cakey" => caCrt \in Nat
  /\ pc \in {"cabinet"} \cup CabinetSteps => seed[CAKey] \in Nat
  /\ pc \in {"creds", "dmzcreds"} => seed[UserKey(cur)] \in Nat
  /\ pc = "crt" => seed[LeafKey(cur)] \in Nat

TypeInv == TypeOK /\ Focus /\ LogsTyped /\ KeysHeld

\* A line of retired.jsonl revokes user JWT j of slot s.
Covered(s, j) == \E r \in Parsed("cabinet") : Revokes(r, s, j)

\* Every user JWT ever written for a cabinet is either covered by a line of
\* retired.jsonl, or still readable from (or torn out of) the .creds beside the key it
\* was issued for, where captureRetired will find it.
Accounted(s, j) ==
  \/ Covered(s, j)
  \/ /\ seed[UserKey(s)] = j.sub
     /\ creds[s] # None
     /\ creds[s] # Torn => creds[s].sub = j.sub

IssuedAccounted ==
  \A s \in Slots : \A j \in issued[s] :
    /\ j.iat <= now
    /\ ~glued["cabinet"] => Accounted(s, j)

\* Between captureRetired and the key swap of a rotating cabinet, nothing it was ever
\* issued is left uncovered.
CapturedBeforeSwap ==
  pc = "user" /\ Rotating(cur) /\ ~glued["cabinet"] =>
    \A j \in issued[cur] : Covered(cur, j)

\* The account JWTs written so far carry exactly the revocations of the log.
BundleCurrent ==
  /\ pc = "bundle" => \A a \in Accounts \ todo :
       Readable(resolver[a]) /\ resolver[a].revs = RevocationsFor(a)
  /\ pc = "done" => \A a \in Accounts :
       Readable(resolver[a]) /\ resolver[a].revs = RevocationsFor(a)

RevocationInv == IssuedAccounted /\ CapturedBeforeSwap /\ BundleCurrent

-----------------------------------------------------------------------------
\* How far a run has come: the rows whose .creds, or whose certificate, mintCabinets has
\* written in this run, the consumers mintDMZConsumers has served, and the accounts whose
\* JWT writeResolverBundle has signed.
Closing == {"dmz", "dmzcreds", "bundle", "done"}

CredsDone(s) ==
  \/ pc \in {"cabinet", "leaf", "crt"} /\ s \in job.inv \ todo
  \/ pc \in {"capture", "user", "creds"} /\ s \in job.inv \ (todo \cup {cur})
  \/ pc \in Closing /\ job.inv # None /\ s \in job.inv
CertDone(s) ==
  \/ pc = "cabinet" /\ s \in job.inv \ todo
  \/ pc \in CabinetSteps /\ s \in job.inv \ (todo \cup {cur})
  \/ pc \in Closing /\ job.inv # None /\ s \in job.inv
ConsumerDone(c) ==
  \/ pc = "dmz" /\ c \notin todo
  \/ pc = "dmzcreds" /\ c \notin todo \cup {cur}
  \/ pc \in {"bundle", "done"}
AccountDone(a) == (pc = "bundle" /\ a \notin todo) \/ pc = "done"

\* The chain of trust as a run builds it: what is written is signed with the keys that
\* are in the key files, and they stay there until the run ends.
OperatorCurrent ==
  pc \notin {"idle", "opkey", "opcap", "opsk", "opjwt"} => opJWT = NewOperatorJWT
CAPairMatches == seed[CAKey] \in Nat => caCrt = seed[CAKey]
SignedFor(h, a) ==
  /\ Readable(creds[h])
  /\ creds[h].sub = seed[UserKey(h)]
  /\ creds[h].iss = seed[AccountSK(a)]
  /\ creds[h].acct = seed[AccountKey(a)]
CabinetsServed ==
  \A s \in Rows :
    /\ CredsDone(s) => s \in Slots /\ SignedFor(s, s[1])
    /\ CertDone(s) => s \in Slots /\ crt[s] = [key |-> seed[LeafKey(s)], ca |-> caCrt]
ConsumersServed == \A c \in DMZConsumers : ConsumerDone(c) => SignedFor(c, DMZ)
AccountsSigned ==
  \A a \in Accounts : AccountDone(a) =>
    /\ Readable(resolver[a])
    /\ resolver[a].iss = seed[OperatorSK]
    /\ resolver[a].sub = seed[AccountKey(a)]
    /\ resolver[a].sk = seed[AccountSK(a)]

ChainInv ==
  OperatorCurrent /\ CAPairMatches /\ CabinetsServed /\ ConsumersServed /\ AccountsSigned

\* No file outlives the key it was made with: .creds, .crt and the JWTs that declare a
\* signing key are first written when the key file is there, and those key files are
\* never deleted.
KeysFirst ==
  /\ \A s \in Slots :
       /\ seed[UserKey(s)] = None => creds[s] = None /\ crt[s] = None
       /\ seed[LeafKey(s)] = None => crt[s] = None
  /\ seed[OperatorSK] = None => opJWT = None
  /\ \A a \in Accounts : seed[AccountSK(a)] = None => resolver[a] = None

\* What captureRetired has read, a rotation may rely on until it overwrites it.
CapturedIntact ==
  /\ pc \in {"creds", "leaf", "crt"} => seed[UserKey(cur)] \in Nat
  /\ pc = "user" /\ Rotating(cur) => creds[cur] # Torn
  /\ pc \in {"user", "creds", "leaf"} /\ Rotating(cur) => crt[cur] # Torn

WedgeInv == KeysFirst /\ CapturedIntact /\ NeverWedged

\* Time: no record of retired.jsonl is from the future, and none of a row that was served
\* in this run is newer than what it was served.
RecordsPast ==
  /\ \A r \in Parsed("cabinet") : r.at <= now
  /\ \A s \in Rows : CredsDone(s) =>
       \A r \in Parsed("cabinet") : r.slot = s => r.at <= creds[s].iat

\* The account JWTs on disk, from whatever run, carry nothing the log has lost.
ServedFromLog ==
  ~glued["cabinet"] =>
    \A a \in Accounts : Readable(resolver[a]) => resolver[a].revs \subseteq RevocationsFor(a)

\* Between the capture of a signing key and the swap, the declared key is in its log.
AuditedBeforeSwap ==
  /\ pc = "opsk" /\ job.rotOp /\ Readable(opJWT) /\ ~glued["operator-sk"] =>
       [sk |-> opJWT.sk] \in Parsed("operator-sk")
  /\ pc = "acctsk" /\ cur \in job.rotAcct /\ Readable(resolver[cur])
       /\ ~glued["account-sk"] =>
       [acct |-> cur, sk |-> resolver[cur].sk] \in Parsed("account-sk")

-----------------------------------------------------------------------------
\* The authority an outsider sees: an unreadable key or account JWT counts as none, and
\* the revocation list is what loadRevocations makes of retired.jsonl.
UserKeys ==
  [s \in Slots |-> IF Readable(seed[UserKey(s)]) THEN seed[UserKey(s)] ELSE None]
ServedLists ==
  [a \in Accounts |-> IF Readable(resolver[a]) THEN resolver[a].revs ELSE None]

Authority == INSTANCE RevocationAuthority WITH
  key <- UserKeys, out <- issued, served <- ServedLists,
  listed <- Parsed("cabinet"), damaged <- glued["cabinet"]

\* The steps of cmd/issue, crashed and retried at will, implement that authority: no key
\* of a cabinet leaves its file before everything issued under it is in retired.jsonl,
\* and an account JWT carries what the file says when it is signed (issuance.go
\* mintCabinets, captureRetired, loadRevocations, writeResolverBundle).
ImplementsAuthority == Authority!AuthoritySpec

=============================================================================
