------------------------------ MODULE Issuance ------------------------------
(***************************************************************************)
(* cmd/issue as a state machine over the credentials directory.            *)
(*                                                                         *)
(* One run (issuance.IssueWithRotation) is a sequence of small steps; each *)
(* step reads or writes one file of the bundle.  os.WriteFile truncates    *)
(* before it writes and an audit append is a plain write(2), so a step     *)
(* that is killed, or meets a full disk, leaves a torn file.  A run may be *)
(* killed between any two steps.  What is on disk is all that survives.    *)
(*                                                                         *)
(* Key material is abstracted to a number per key file: the n-th keypair   *)
(* ever generated for that file.  A public key and its seed share the      *)
(* number.  JWTs and certificates are records of the numbers they name.    *)
(***************************************************************************)
EXTENDS Naturals

CONSTANTS
  Districts,    \* districts of the topology; each has an account of its name
  Accounts,     \* accounts.Build's model: the districts', and others
  DMZ,          \* the DMZ account's name; a member of Accounts iff the spec has a DMZ
  Cabinets,     \* cabinet ids
  Consumers,    \* external consumers aggregated from the DMZ account's users
  Unplaced,     \* stands for the district of an inventory row that fails validation
  None,         \* the file does not exist
  Torn,         \* the file exists and cannot be parsed
  Jobs,         \* the invocations of cmd/issue to consider
  MaxGen,       \* bound: keypairs generated per key file, by kind of key
  MaxClock      \* bound: seconds that pass

Slots == Districts \X Cabinets                  \* cabinets/<district>/<id>.*
Rows == Slots \cup ({Unplaced} \X Cabinets)     \* rows of an inventory
Holders == Slots \cup Consumers                 \* owners of a user key and a .creds

\* The key files of a bundle.
OperatorKey == <<"operator", "root">>           \* operator.nkey
OperatorSK == <<"operator", "sk">>              \* operator-sk.nkey
CAKey == <<"ca", "root">>                       \* ca/cabinet-ca.key
AccountKey(a) == <<"account", a>>               \* accounts/<NAME>.nkey
AccountSK(a) == <<"account-sk", a>>             \* accounts/<NAME>-sk.nkey
UserKey(h) == <<"user", h>>                     \* cabinets/<d>/<id>.nkey, dmz/<name>.nkey
LeafKey(s) == <<"leaf", s>>                     \* cabinets/<d>/<id>.key

KeyKinds == {"operator", "ca", "account", "account-sk", "user", "leaf"}
KeyFiles ==
  {OperatorKey, OperatorSK, CAKey}
    \cup {AccountKey(a) : a \in Accounts} \cup {AccountSK(a) : a \in Accounts}
    \cup {UserKey(h) : h \in Holders} \cup {LeafKey(s) : s \in Slots}

\* The public artifacts.
OperatorClaims == [sub : Nat, sk : Nat]
Retirement == [slot : Slots, pub : Nat \cup {None}, at : Nat]
AccountClaims == [sub : Nat, iss : Nat, sk : Nat, revs : SUBSET Retirement]
UserClaims == [sub : Nat, iat : Nat, iss : Nat, acct : Nat]
ClientCert == [key : Nat, ca : Nat]
RetiredOperatorSK == [sk : Nat]
RetiredSK == [acct : Accounts, sk : Nat]

\* The three audit logs under revocations/ and the records each holds.
LogFiles == {"cabinet", "operator-sk", "account-sk"}
LogRecord == Retirement \cup RetiredOperatorSK \cup RetiredSK

\* One invocation: the inventory given with -cabinets (None without it), the ids
\* of -rotate (and of -rotate-expiring --apply), -rotate-operator-sk and the
\* names of -rotate-account-sk.
JobType == [inv : (SUBSET Rows) \cup {None}, rot : SUBSET Cabinets,
            rotOp : BOOLEAN, rotAcct : SUBSET Accounts]

ASSUME SentinelAssumption ==
  /\ None # Torn
  /\ \A x \in {None, Torn} :
       x \notin Nat \cup OperatorClaims \cup AccountClaims \cup UserClaims
                    \cup ClientCert \cup LogRecord \cup Jobs
ASSUME DistrictAssumption ==
  /\ Districts \subseteq Accounts
  /\ Unplaced \notin Districts
ASSUME ConsumerAssumption == Consumers \cap Slots = {}
\* fleet.Load rejects an inventory that names a cabinet twice.
ASSUME JobAssumption ==
  /\ Jobs \subseteq JobType
  /\ \A j \in Jobs : j.inv # None =>
       \A r, q \in j.inv : r[2] = q[2] => r = q
ASSUME BoundAssumption == MaxGen \in [KeyKinds -> Nat] /\ MaxClock \in Nat

VARIABLES
  \* the running process
  pc,         \* the step the run is about to take; "idle" or "done" between runs
  job,        \* the invocation (None when there is none to speak of)
  todo,       \* what the current loop has still to visit
  cur,        \* the account, cabinet or consumer being visited
  now,        \* wall clock, in seconds
  \* the bundle on disk
  seed,       \* seed[f]: the key in key file f
  opJWT,      \* operator.jwt
  resolver,   \* resolver[a]: resolver/<pub>.jwt for a's current account pub
  caCrt,      \* ca/cabinet-ca.crt: the CA key it certifies
  creds,      \* creds[h]: <holder>.creds
  crt,        \* crt[s]: <id>.crt
  log,        \* log[f]: the parseable, newline-terminated lines of audit log f
  tail,       \* tail[f]: the bytes after the last newline of f
  \* history
  gen,        \* gen[f]: keypairs generated for f so far
  glued,      \* glued[f]: an append has landed on an unterminated line of f
  issued      \* issued[s]: the user JWTs ever written to s's .creds

proc == <<pc, job, todo, cur>>
bundle == <<seed, opJWT, resolver, caCrt, creds, crt, log, tail>>
history == <<gen, glued, issued>>
vars == <<proc, now, bundle, history>>

-----------------------------------------------------------------------------
\* Helpers

Resting == {"idle", "done"}
Steps == Resting \cup
  {"opkey", "opcap", "opsk", "opjwt", "acct", "acctcap", "acctsk", "inv", "cakey",
   "cabinet", "capture", "user", "creds", "leaf", "crt", "dmz", "dmzcreds", "bundle"}

Readable(x) == x \notin {None, Torn}

\* The run goes on with step n, with t left to visit and c being visited.
Goto(n, t, c) == pc' = n /\ todo' = t /\ cur' = c /\ UNCHANGED job

\* The run ends early: an error return, a signal, a power cut.
Abort == pc' = "idle" /\ todo' = {} /\ cur' = None /\ job' = None

Rotating(s) == s[2] \in job.rot

\* ensureKeypair and ensureLeafKey: reuse the file, or generate a key (force, or no
\* file yet) and write it.  A reused file that does not parse is Refuse's case.
MustMint(f, force) == force \/ seed[f] = None

\* Seeded fault: a reused seed is not parsed.
EnsureKeyUnparsed(f, force, n, t, c) ==
  \/ ~MustMint(f, force) /\ Goto(n, t, c) /\ UNCHANGED <<seed, gen>>
  \/ /\ MustMint(f, force) /\ gen[f] < MaxGen[f[1]]
     /\ \/ /\ seed' = [seed EXCEPT ![f] = gen[f] + 1]
           /\ gen' = [gen EXCEPT ![f] = gen[f] + 1]
           /\ Goto(n, t, c)
        \/ seed' = [seed EXCEPT ![f] = Torn] /\ UNCHANGED gen /\ Abort

EnsureKey(f, force, n, t, c) ==
  \/ /\ ~MustMint(f, force)
     /\ seed[f] # Torn
     /\ Goto(n, t, c)
     /\ UNCHANGED <<seed, gen>>
  \/ /\ MustMint(f, force)
     /\ gen[f] < MaxGen[f[1]]
     /\ \/ /\ seed' = [seed EXCEPT ![f] = gen[f] + 1]
           /\ gen' = [gen EXCEPT ![f] = gen[f] + 1]
           /\ Goto(n, t, c)
        \/ /\ seed' = [seed EXCEPT ![f] = Torn]
           /\ UNCHANGED gen
           /\ Abort

\* appendJSONLine: one write of record and newline, at whatever the file ends with.
\* After an unterminated line the two run together into one that does not parse.
\* Cut short, the write leaves part of the record, or all of it but the newline.
AppendRecord(f, r, n, t, c) ==
  /\ glued' = [glued EXCEPT ![f] = glued[f] \/ tail[f] # None]
  /\ \/ /\ log' = [log EXCEPT ![f] = IF tail[f] = None THEN @ \cup {r} ELSE @]
        /\ tail' = [tail EXCEPT ![f] = None]
        /\ Goto(n, t, c)
     \/ /\ \E left \in IF tail[f] = None THEN {Torn, r} ELSE {Torn} :
             tail' = [tail EXCEPT ![f] = left]
        /\ UNCHANGED log
        /\ Abort

\* What json.Unmarshal makes of the lines of a log.
Parsed(f) == log[f] \cup ({tail[f]} \ {None, Torn})

\* Seeded faults: only the rotations of this run are folded; one record per account
\* survives the grouping; a record's timestamp is replaced by the current time.
RevocationsForThisRun(a) ==
  {r \in Parsed("cabinet") : r.slot[1] = a /\ r.pub # None /\ r.slot[2] \in job.rot}
RevocationsForOne(a) ==
  LET all == {r \in Parsed("cabinet") : r.slot[1] = a /\ r.pub # None}
  IN  IF all = {} THEN {} ELSE {CHOOSE r \in all : TRUE}
RevocationsForNow(a) ==
  {[r EXCEPT !.at = now] : r \in {q \in Parsed("cabinet") : q.slot[1] = a /\ q.pub # None}}

\* loadRevocations: malformed lines and records without a user pubkey are skipped,
\* the rest is grouped by account.
RevocationsFor(a) == {r \in Parsed("cabinet") : r.slot[1] = a /\ r.pub # None}

\* External (nats-io/jwt): RevokeAt(pub, at) rejects every JWT for pub that was issued
\* no later than at, to the second.
Revokes(r, s, j) == r.slot = s /\ r.pub = j.sub /\ r.at >= j.iat

-----------------------------------------------------------------------------
\* Initial state: an empty directory.

Init ==
  /\ pc = "idle" /\ job = None /\ todo = {} /\ cur = None /\ now = 0
  /\ seed = [f \in KeyFiles |-> None]
  /\ gen = [f \in KeyFiles |-> 0]
  /\ opJWT = None /\ caCrt = None
  /\ resolver = [a \in Accounts |-> None]
  /\ creds = [h \in Holders |-> None]
  /\ crt = [s \in Slots |-> None]
  /\ log = [f \in LogFiles |-> {}]
  /\ tail = [f \in LogFiles |-> None]
  /\ glued = [f \in LogFiles |-> FALSE]
  /\ issued = [s \in Slots |-> {}]

-----------------------------------------------------------------------------
\* IssueWithRotation: argument checks.  A run they reject touches nothing: -rotate
\* without an inventory here, an unknown -rotate-account-sk name by JobType.

Start(j) ==
  /\ pc \in Resting
  /\ j.rot # {} => j.inv # None
  /\ pc' = "opkey" /\ job' = j /\ todo' = {} /\ cur' = None
  /\ UNCHANGED <<now, bundle, history>>

-----------------------------------------------------------------------------
\* ensureOperator

EnsureOperatorKey ==
  /\ pc = "opkey"
  /\ EnsureKey(OperatorKey, FALSE, IF job.rotOp THEN "opcap" ELSE "opsk", {}, None)
  /\ UNCHANGED <<now, opJWT, resolver, caCrt, creds, crt, log, tail, glued, issued>>

\* Seeded fault: the old signing key is not recorded.
CaptureRetiredOperatorSKSkipped ==
  /\ pc = "opcap"
  /\ Goto("opsk", {}, None)
  /\ UNCHANGED <<now, bundle, history>>

\* A missing or malformed operator.jwt retires nothing and blocks nothing.
CaptureRetiredOperatorSK ==
  /\ pc = "opcap"
  /\ \/ /\ ~Readable(opJWT)
        /\ Goto("opsk", {}, None)
        /\ UNCHANGED <<log, tail, glued>>
     \/ /\ Readable(opJWT)
        /\ AppendRecord("operator-sk", [sk |-> opJWT.sk], "opsk", {}, None)
  /\ UNCHANGED <<now, seed, opJWT, resolver, caCrt, creds, crt, gen, issued>>

EnsureOperatorSK ==
  /\ pc = "opsk"
  /\ EnsureKey(OperatorSK, job.rotOp, "opjwt", {}, None)
  /\ UNCHANGED <<now, opJWT, resolver, caCrt, creds, crt, log, tail, glued, issued>>

NewOperatorJWT == [sub |-> seed[OperatorKey], sk |-> seed[OperatorSK]]

WriteOperatorJWT ==
  /\ pc = "opjwt"
  /\ \/ opJWT' = NewOperatorJWT /\ Goto("acct", Accounts, None)
     \/ opJWT' = Torn /\ Abort
  /\ UNCHANGED <<now, seed, resolver, caCrt, creds, crt, log, tail, history>>

-----------------------------------------------------------------------------
\* ensureAccounts: the model's order of accounts is left open

EnsureAccountKey ==
  /\ pc = "acct"
  /\ \E a \in todo :
       EnsureKey(AccountKey(a), FALSE,
                 IF a \in job.rotAcct THEN "acctcap" ELSE "acctsk", todo \ {a}, a)
  /\ UNCHANGED <<now, opJWT, resolver, caCrt, creds, crt, log, tail, glued, issued>>

\* As for the operator: a missing or malformed account JWT retires nothing.
CaptureRetiredAccountSK ==
  /\ pc = "acctcap"
  /\ \/ /\ ~Readable(resolver[cur])
        /\ Goto("acctsk", todo, cur)
        /\ UNCHANGED <<log, tail, glued>>
     \/ /\ Readable(resolver[cur])
        /\ AppendRecord("account-sk", [acct |-> cur, sk |-> resolver[cur].sk],
                        "acctsk", todo, cur)
  /\ UNCHANGED <<now, seed, opJWT, resolver, caCrt, creds, crt, gen, issued>>

EnsureAccountSK ==
  /\ pc = "acctsk"
  /\ EnsureKey(AccountSK(cur), cur \in job.rotAcct, "acct", todo, None)
  /\ UNCHANGED <<now, opJWT, resolver, caCrt, creds, crt, log, tail, glued, issued>>

DMZConsumers == IF DMZ \in Accounts THEN Consumers ELSE {}

\* With an inventory the run goes on to mintCabinets, without one to the DMZ.
AccountsEnsured ==
  /\ pc = "acct" /\ todo = {}
  /\ IF job.inv = None THEN Goto("dmz", DMZConsumers, None) ELSE Goto("inv", {}, None)
  /\ UNCHANGED <<now, bundle, history>>

-----------------------------------------------------------------------------
\* mintCabinets

InventoryIds == {r[2] : r \in job.inv}

\* Seeded fault: a partial CA is replaced.
LoadOrCreateCAReRoots ==
  /\ pc = "inv"
  /\ job.rot \subseteq InventoryIds
  /\ \/ /\ Readable(caCrt) /\ Readable(seed[CAKey])
        /\ Goto("cabinet", job.inv, None)
        /\ UNCHANGED <<caCrt, gen>>
     \/ /\ caCrt = None \/ seed[CAKey] = None
        /\ gen[CAKey] < MaxGen["ca"]
        /\ caCrt' = gen[CAKey] + 1
        /\ gen' = [gen EXCEPT ![CAKey] = gen[CAKey] + 1]
        /\ Goto("cakey", {}, None)
  /\ UNCHANGED <<now, seed, opJWT, resolver, creds, crt, log, tail, glued, issued>>

\* -rotate is checked against the inventory, then the CA is loaded, or created when
\* neither of its files exists; any other state of the two is Refuse's case.
LoadOrCreateCA ==
  /\ pc = "inv"
  /\ job.rot \subseteq InventoryIds
  /\ \/ /\ Readable(caCrt) /\ Readable(seed[CAKey])
        /\ Goto("cabinet", job.inv, None)
        /\ UNCHANGED <<caCrt, gen>>
     \/ /\ caCrt = None /\ seed[CAKey] = None
        /\ gen[CAKey] < MaxGen["ca"]
        /\ \/ /\ caCrt' = gen[CAKey] + 1
              /\ gen' = [gen EXCEPT ![CAKey] = gen[CAKey] + 1]
              /\ Goto("cakey", {}, None)
           \/ caCrt' = Torn /\ UNCHANGED gen /\ Abort
  /\ UNCHANGED <<now, seed, opJWT, resolver, creds, crt, log, tail, glued, issued>>

WriteCAKey ==
  /\ pc = "cakey"
  /\ \/ /\ seed' = [seed EXCEPT ![CAKey] = caCrt]
        /\ Goto("cabinet", job.inv, None)
     \/ /\ seed' = [seed EXCEPT ![CAKey] = Torn]
        /\ Abort
  /\ UNCHANGED <<now, opJWT, resolver, caCrt, creds, crt, log, tail, history>>

\* One inventory row, in any order: a row that fails validation is Refuse's case.
BeginCabinet ==
  /\ pc = "cabinet"
  /\ \E s \in todo \cap Slots :
       Goto(IF Rotating(s) THEN "capture" ELSE "user", todo \ {s}, s)
  /\ UNCHANGED <<now, bundle, history>>

RetiredRecord(s) ==
  [slot |-> s, pub |-> IF creds[s] = None THEN None ELSE creds[s].sub, at |-> now]

\* Seeded faults: a torn .creds or .crt retires nothing instead of ending the run, as for
\* the signing keys; the rotation is recorded for no cabinet.
CaptureRetiredTolerant ==
  /\ pc = "capture"
  /\ \/ /\ ~Readable(creds[cur]) \/ ~Readable(crt[cur])
        /\ Goto("user", todo, cur)
        /\ UNCHANGED <<log, tail, glued>>
     \/ /\ Readable(creds[cur]) /\ Readable(crt[cur])
        /\ AppendRecord("cabinet", RetiredRecord(cur), "user", todo, cur)
  /\ UNCHANGED <<now, seed, opJWT, resolver, caCrt, creds, crt, gen, issued>>
CaptureRetiredSkipped ==
  /\ pc = "capture"
  /\ Torn \notin {creds[cur], crt[cur]}
  /\ Goto("user", todo, cur)
  /\ UNCHANGED <<now, bundle, history>>

\* captureRetired and the append.  A .creds or .crt that exists and does not parse is
\* Refuse's case; with neither file there is nothing to retire.
CaptureRetired ==
  /\ pc = "capture"
  /\ Torn \notin {creds[cur], crt[cur]}
  /\ \/ /\ creds[cur] = None /\ crt[cur] = None
        /\ Goto("user", todo, cur)
        /\ UNCHANGED <<log, tail, glued>>
     \/ /\ {creds[cur], crt[cur]} # {None}
        /\ AppendRecord("cabinet", RetiredRecord(cur), "user", todo, cur)
  /\ UNCHANGED <<now, seed, opJWT, resolver, caCrt, creds, crt, gen, issued>>

\* Seeded fault: the old key is read even when it is to be replaced.
EnsureUserKeyReadsFirst ==
  /\ pc = "user"
  /\ EnsureKey(UserKey(cur), Rotating(cur) /\ seed[UserKey(cur)] # Torn, "creds", todo, cur)
  /\ UNCHANGED <<now, opJWT, resolver, caCrt, creds, crt, log, tail, glued, issued>>

EnsureUserKey ==
  /\ pc = "user"
  /\ EnsureKey(UserKey(cur), Rotating(cur), "creds", todo, cur)
  /\ UNCHANGED <<now, opJWT, resolver, caCrt, creds, crt, log, tail, glued, issued>>

\* A user JWT for holder h, signed by the signing key of account a.
NewUserJWT(h, a) ==
  [sub |-> seed[UserKey(h)], iat |-> now, iss |-> seed[AccountSK(a)],
   acct |-> seed[AccountKey(a)]]

WriteCreds ==
  /\ pc = "creds"
  /\ \/ /\ creds' = [creds EXCEPT ![cur] = NewUserJWT(cur, cur[1])]
        /\ issued' = [issued EXCEPT ![cur] =
             @ \cup {[sub |-> seed[UserKey(cur)], iat |-> now]}]
        /\ Goto("leaf", todo, cur)
     \/ /\ creds' = [creds EXCEPT ![cur] = Torn]
        /\ UNCHANGED issued
        /\ Abort
  /\ UNCHANGED <<now, seed, opJWT, resolver, caCrt, crt, log, tail, gen, glued>>

EnsureLeafKey ==
  /\ pc = "leaf"
  /\ EnsureKey(LeafKey(cur), Rotating(cur), "crt", todo, cur)
  /\ UNCHANGED <<now, opJWT, resolver, caCrt, creds, crt, log, tail, glued, issued>>

WriteCert ==
  /\ pc = "crt"
  /\ \/ /\ crt' = [crt EXCEPT ![cur] = [key |-> seed[LeafKey(cur)], ca |-> seed[CAKey]]]
        /\ Goto("cabinet", todo, None)
     \/ /\ crt' = [crt EXCEPT ![cur] = Torn]
        /\ Abort
  /\ UNCHANGED <<now, seed, opJWT, resolver, caCrt, creds, log, tail, history>>

CabinetsMinted ==
  /\ pc = "cabinet" /\ todo = {}
  /\ Goto("dmz", DMZConsumers, None)
  /\ UNCHANGED <<now, bundle, history>>

-----------------------------------------------------------------------------
\* mintDMZConsumers

EnsureConsumerKey ==
  /\ pc = "dmz"
  /\ \E c \in todo : EnsureKey(UserKey(c), FALSE, "dmzcreds", todo \ {c}, c)
  /\ UNCHANGED <<now, opJWT, resolver, caCrt, creds, crt, log, tail, glued, issued>>

\* Seeded fault: a consumer's readable .creds is kept like its seed.
WriteConsumerCredsOnce ==
  /\ pc = "dmzcreds"
  /\ creds' = [creds EXCEPT ![cur] = IF Readable(@) THEN @ ELSE NewUserJWT(cur, DMZ)]
  /\ Goto("dmz", todo, None)
  /\ UNCHANGED <<now, seed, opJWT, resolver, caCrt, crt, log, tail, history>>

WriteConsumerCreds ==
  /\ pc = "dmzcreds"
  /\ \/ /\ creds' = [creds EXCEPT ![cur] = NewUserJWT(cur, DMZ)]
        /\ Goto("dmz", todo, None)
     \/ /\ creds' = [creds EXCEPT ![cur] = Torn]
        /\ Abort
  /\ UNCHANGED <<now, seed, opJWT, resolver, caCrt, crt, log, tail, history>>

ConsumersMinted ==
  /\ pc = "dmz" /\ todo = {}
  /\ Goto("bundle", Accounts, None)
  /\ UNCHANGED <<now, bundle, history>>

-----------------------------------------------------------------------------
\* writeResolverBundle

NewAccountJWT(a) ==
  [sub |-> seed[AccountKey(a)], iss |-> seed[OperatorSK], sk |-> seed[AccountSK(a)],
   revs |-> RevocationsFor(a)]

WriteAccountJWT ==
  /\ pc = "bundle"
  /\ \E a \in todo :
       \/ /\ resolver' = [resolver EXCEPT ![a] = NewAccountJWT(a)]
          /\ Goto("bundle", todo \ {a}, None)
       \/ /\ resolver' = [resolver EXCEPT ![a] = Torn]
          /\ Abort
  /\ UNCHANGED <<now, seed, opJWT, caCrt, creds, crt, log, tail, history>>

\* accounts.index and resolver.conf are written and never read back.
Finish ==
  /\ pc = "bundle" /\ todo = {}
  /\ Goto("done", {}, None)
  /\ UNCHANGED <<now, bundle, history>>

-----------------------------------------------------------------------------
\* Runs that end early

\* The error returns that depend on what is on disk or on the job.
Blocked ==
  \/ pc = "opkey" /\ seed[OperatorKey] = Torn
  \/ pc = "opsk" /\ seed[OperatorSK] = Torn /\ ~job.rotOp
  \/ pc = "acct" /\ \E a \in todo : seed[AccountKey(a)] = Torn
  \/ pc = "acctsk" /\ seed[AccountSK(cur)] = Torn /\ cur \notin job.rotAcct
  \/ pc = "inv" /\ \/ ~(job.rot \subseteq InventoryIds)
                   \/ Torn \in {caCrt, seed[CAKey]}
                   \/ (caCrt = None) # (seed[CAKey] = None)
  \/ pc = "cabinet" /\ \E r \in todo : r \notin Slots
  \/ pc = "capture" /\ Torn \in {creds[cur], crt[cur]}
  \/ pc = "user" /\ seed[UserKey(cur)] = Torn /\ ~Rotating(cur)
  \/ pc = "leaf" /\ seed[LeafKey(cur)] = Torn /\ ~Rotating(cur)
  \/ pc = "dmz" /\ \E c \in todo : seed[UserKey(c)] = Torn

Refuse ==
  /\ Blocked
  /\ Abort
  /\ UNCHANGED <<now, bundle, history>>

\* A signal, a power cut or an I/O error between two writes.
Crash ==
  /\ pc \notin Resting
  /\ Abort
  /\ UNCHANGED <<now, bundle, history>>

-----------------------------------------------------------------------------
\* The operator's hand on the directory between runs (credential-compromise.md)

\* Section C2: delete the account's root seed and its stale account JWT.
DeleteAccountRoot(a) ==
  /\ pc \in Resting
  /\ seed[AccountKey(a)] # None /\ gen[AccountKey(a)] < MaxGen["account"]
  /\ seed' = [seed EXCEPT ![AccountKey(a)] = None]
  /\ resolver' = [resolver EXCEPT ![a] = None]
  /\ Abort
  /\ UNCHANGED <<now, opJWT, caCrt, creds, crt, log, tail, history>>

\* Section E, and what the partial-CA error asks for: remove both CA files.
DeleteCA ==
  /\ pc \in Resting
  /\ {caCrt, seed[CAKey]} # {None} /\ gen[CAKey] < MaxGen["ca"]
  /\ seed' = [seed EXCEPT ![CAKey] = None]
  /\ caCrt' = None
  /\ Abort
  /\ UNCHANGED <<now, opJWT, resolver, creds, crt, log, tail, history>>

\* Key files no -rotate flag reaches: a torn one is removed to be minted again.
Unrotatable == {OperatorKey} \cup {UserKey(c) : c \in Consumers}

DeleteTornSeed ==
  /\ pc \in Resting
  /\ \E f \in Unrotatable :
       /\ seed[f] = Torn
       /\ seed' = [seed EXCEPT ![f] = None]
  /\ Abort
  /\ UNCHANGED <<now, opJWT, resolver, caCrt, creds, crt, log, tail, history>>

Tick ==
  /\ now < MaxClock
  /\ now' = now + 1
  /\ UNCHANGED <<proc, bundle, history>>

-----------------------------------------------------------------------------
RunStep ==
  \/ EnsureOperatorKey \/ CaptureRetiredOperatorSK \/ EnsureOperatorSK \/ WriteOperatorJWT
  \/ EnsureAccountKey \/ CaptureRetiredAccountSK \/ EnsureAccountSK \/ AccountsEnsured
  \/ LoadOrCreateCA \/ WriteCAKey \/ BeginCabinet \/ CaptureRetired \/ EnsureUserKey
  \/ WriteCreds \/ EnsureLeafKey \/ WriteCert \/ CabinetsMinted
  \/ EnsureConsumerKey \/ WriteConsumerCreds \/ ConsumersMinted
  \/ WriteAccountJWT \/ Finish \/ Refuse

Next ==
  \/ \E j \in Jobs : Start(j)
  \/ RunStep
  \/ Crash
  \/ \E a \in Accounts : DeleteAccountRoot(a)
  \/ DeleteCA
  \/ DeleteTornSeed
  \/ Tick

Spec == Init /\ [][Next]_vars

-----------------------------------------------------------------------------
\* Properties

\* Every variable keeps its shape: a key file holds a key, nothing or garbage, and
\* each artifact is a record of key numbers, nothing or garbage.
TypeOK ==
  /\ pc \in Steps
  /\ job \in Jobs \cup {None}
  /\ todo \subseteq Accounts \cup Rows \cup Consumers
  /\ cur \in Accounts \cup Holders \cup {None}
  /\ now \in Nat
  /\ seed \in [KeyFiles -> Nat \cup {None, Torn}]
  /\ gen \in [KeyFiles -> Nat]
  /\ opJWT \in OperatorClaims \cup {None, Torn}
  /\ resolver \in [Accounts -> AccountClaims \cup {None, Torn}]
  /\ caCrt \in Nat \cup {None, Torn}
  /\ creds \in [Holders -> UserClaims \cup {None, Torn}]
  /\ crt \in [Slots -> ClientCert \cup {None, Torn}]
  /\ log \in [LogFiles -> SUBSET LogRecord]
  /\ tail \in [LogFiles -> LogRecord \cup {None, Torn}]
  /\ glued \in [LogFiles -> BOOLEAN]
  /\ issued \in [Slots -> SUBSET [sub : Nat, iat : Nat]]

\* Rotation revokes: when a run succeeds, every user JWT ever written for a cabinet
\* under a key that is no longer the cabinet's is in its account's Revocations, with a
\* timestamp that covers it, whatever crashes, torn files and retries came before
\* (issuance.go captureRetired, loadRevocations, writeResolverBundle).  The premise
\* excludes histories in which an append to retired.jsonl ran into a torn line.
RetiredAreRevoked ==
  pc = "done" /\ ~glued["cabinet"] =>
    \A s \in Slots : \A j \in issued[s] :
      j.sub # seed[UserKey(s)] => \E r \in resolver[s[1]].revs : Revokes(r, s, j)

\* The same promise without the premise, as the runbook states it: a rotated-out user
\* JWT is revoked, not merely superseded.
RotationRevokes ==
  pc = "done" =>
    \A s \in Slots : \A j \in issued[s] :
      j.sub # seed[UserKey(s)] => \E r \in resolver[s[1]].revs : Revokes(r, s, j)

\* What the runbook promises of -rotate <id>: after the run, no user JWT written for that
\* cabinet id but the one just issued is still good, wherever it was minted.
RotatedIdRevoked ==
  pc = "done" =>
    \A s \in Slots : s[2] \in job.rot =>
      \A j \in issued[s] :
        s \notin job.inv \/ j.sub # seed[UserKey(s)] =>
          \E r \in resolver[s[1]].revs : Revokes(r, s, j)

\* A successful run leaves one chain of trust, whatever earlier runs left behind: the
\* operator JWT lists the operator signing key, it signs every account JWT, each lists
\* its account's signing key, that signs the .creds of the consumers and of every
\* cabinet of the inventory, and the cabinet CA signs their certificates.
UserChain(h, a) ==
  /\ Readable(creds[h])
  /\ creds[h].sub = seed[UserKey(h)]
  /\ creds[h].iss = resolver[a].sk
  /\ creds[h].acct = resolver[a].sub

TrustChain ==
  pc = "done" =>
    /\ opJWT = [sub |-> seed[OperatorKey], sk |-> seed[OperatorSK]]
    /\ \A a \in Accounts :
         /\ Readable(resolver[a])
         /\ resolver[a].iss = opJWT.sk
         /\ resolver[a].sub = seed[AccountKey(a)]
         /\ resolver[a].sk = seed[AccountSK(a)]
    /\ \A c \in DMZConsumers : UserChain(c, DMZ)
    /\ job.inv # None => \A s \in job.inv :
         /\ UserChain(s, s[1])
         /\ crt[s] = [key |-> seed[LeafKey(s)], ca |-> caCrt]

\* cmd/issue prints its warning for -rotate-account-sk without -cabinets, and only then.
Warned == job.rotAcct # {} /\ job.inv = None

\* What the runbook says of every run: it re-signs all account JWTs and re-emits every
\* cabinet's .creds, but for the warned case.  So after a run without the warning every
\* .creds in the bundle is signed by a key its account JWT lists.
UnwarnedRunsReissue ==
  pc = "done" /\ ~Warned =>
    \A s \in Slots : Readable(creds[s]) => creds[s].iss = resolver[s[1]].sk

\* A revocation of a served cabinet's current key, left by a rotation that died before it
\* swapped the key, is not newer than the user JWT the run has issued.  (At equal seconds
\* it does reject that JWT.)
ServedCredsOutliveRevocation ==
  pc = "done" /\ job.inv # None =>
    \A s \in job.inv : \A r \in resolver[s[1]].revs :
      r.slot = s /\ r.pub = creds[s].sub => r.at <= creds[s].iat

\* No sequence of crashes wedges a cabinet.  A torn user or leaf key is repaired by
\* -rotate, which refuses a torn .creds or .crt; those are repaired by a plain run, which
\* refuses a torn key.  The two never meet, but for a torn leaf key beside a torn .creds:
\* there a plain run rewrites the .creds before it refuses the leaf key.
NeverWedged ==
  \A s \in Slots :
    /\ seed[UserKey(s)] = Torn => Torn \notin {creds[s], crt[s]}
    /\ seed[LeafKey(s)] = Torn => crt[s] # Torn

\* A signing key that a readable JWT declares is in its audit log before the key file
\* is overwritten (captureRetiredOperatorSK, captureRetiredAccountSK), unless the log
\* itself was torn.
AuditBeforeSwap ==
  [][/\ seed'[OperatorSK] # seed[OperatorSK] /\ Readable(opJWT) /\ ~glued["operator-sk"]
          => [sk |-> opJWT.sk] \in Parsed("operator-sk")
     /\ \A a \in Accounts :
          seed'[AccountSK(a)] # seed[AccountSK(a)] /\ Readable(resolver[a])
            /\ ~glued["account-sk"]
          => [acct |-> a, sk |-> resolver[a].sk] \in Parsed("account-sk")]_vars

\* Revocations only accumulate: no rewrite of an account JWT drops a revocation an
\* earlier bundle carried, unless an append ran into a torn line.
RevocationsPersist ==
  [][\A a \in Accounts :
       Readable(resolver[a]) /\ Readable(resolver'[a]) /\ ~glued'["cabinet"]
         => resolver[a].revs \subseteq resolver'[a].revs]_vars

\* Identities are mint-once: the tool never replaces a readable operator root, account
\* root or CA certificate; only the operator's own deletion removes one.
RootsAreSticky ==
  [][/\ \A f \in {OperatorKey} \cup {AccountKey(a) : a \in Accounts} :
          Readable(seed[f]) => seed'[f] \in {seed[f], None}
     /\ Readable(caCrt) => caCrt' \in {caCrt, None}]_vars

=============================================================================
