------------------------ MODULE IssuanceSafetyProofs ------------------------
(***************************************************************************)
(* More of what Issuance guarantees, for every instance: who may write     *)
(* which file, that identities and revocations are never lost, that the    *)
(* audit precedes the swap, that no crash wedges a cabinet, and that a     *)
(* successful run leaves one chain of trust.                               *)
(***************************************************************************)
EXTENDS IssuanceProofs, IssuanceRecovery

-----------------------------------------------------------------------------
\* Who writes what

\* ensureKeypair and ensureLeafKey change no file but their own, and that one only when
\* forced to or when it does not exist; they never remove it.
LEMMA KeyMinted ==
  ASSUME TypeOK, NEW f \in KeyFiles, NEW force, NEW n, NEW t, NEW c,
         EnsureKey(f, force, n, t, c), NEW g \in KeyFiles, seed'[g] # seed[g]
  PROVE  g = f /\ MustMint(f, force) /\ seed'[f] # None
<1>1. g = f
  BY EnsureKeyOutcome
<1>2. gen[f] + 1 # None /\ Torn # None
  BY SentinelAssumption DEF TypeOK
<1> QED BY <1>1, <1>2 DEF EnsureKey, TypeOK

\* The steps that may write key file f, and when they do.
KeyMinter(f) ==
  \/ f = OperatorKey /\ EnsureOperatorKey /\ seed[f] = None
  \/ f = OperatorSK /\ EnsureOperatorSK /\ (job.rotOp \/ seed[f] = None)
  \/ \E a \in Accounts \cap todo :
       f = AccountKey(a) /\ EnsureAccountKey /\ seed[f] = None
  \/ /\ f = AccountSK(cur) /\ cur \in Accounts /\ EnsureAccountSK
     /\ cur \in job.rotAcct \/ seed[f] = None
  \/ f = CAKey /\ WriteCAKey /\ seed'[f] \in {caCrt, Torn}
  \/ f = UserKey(cur) /\ cur \in Slots /\ EnsureUserKey /\ (Rotating(cur) \/ seed[f] = None)
  \/ f = LeafKey(cur) /\ cur \in Slots /\ EnsureLeafKey /\ (Rotating(cur) \/ seed[f] = None)
  \/ \E c \in DMZConsumers \cap todo :
       f = UserKey(c) /\ EnsureConsumerKey /\ seed[f] = None

\* The operator's deletions, the only steps that remove key file f.
KeyRemover(f) ==
  \/ \E a \in Accounts : f = AccountKey(a) /\ DeleteAccountRoot(a)
  \/ f = CAKey /\ DeleteCA
  \/ f \in Unrotatable /\ DeleteTornSeed /\ seed[f] = Torn

\* Every change of a key file is one of them.
LEMMA KeyWriters ==
  ASSUME TypeInv, [Next]_vars, NEW f \in KeyFiles, seed'[f] # seed[f]
  PROVE  (KeyMinter(f) /\ seed'[f] # None) \/ (KeyRemover(f) /\ seed'[f] = None)
<1> DEFINE W == (KeyMinter(f) /\ seed'[f] # None) \/ (KeyRemover(f) /\ seed'[f] = None)
<1> USE FileMembers DEF TypeInv
<1>1. CASE EnsureOperatorKey
  <2>1. f = OperatorKey /\ MustMint(OperatorKey, FALSE) /\ seed'[f] # None
    BY <1>1, KeyMinted DEF EnsureOperatorKey
  <2> QED BY <1>1, <2>1 DEF KeyMinter, MustMint
<1>2. CASE EnsureOperatorSK
  <2>1. f = OperatorSK /\ MustMint(OperatorSK, job.rotOp) /\ seed'[f] # None
    BY <1>2, KeyMinted DEF EnsureOperatorSK
  <2> QED BY <1>2, <2>1 DEF KeyMinter, MustMint
<1>3. CASE EnsureAccountKey
  <2>1. PICK a \in todo, m \in {"acctcap", "acctsk"} :
          EnsureKey(AccountKey(a), FALSE, m, todo \ {a}, a)
    BY <1>3 DEF EnsureAccountKey
  <2>2. a \in Accounts
    BY <1>3 DEF EnsureAccountKey, Focus
  <2>3. f = AccountKey(a) /\ MustMint(AccountKey(a), FALSE) /\ seed'[f] # None
    BY <2>1, <2>2, KeyMinted
  <2> QED BY <1>3, <2>2, <2>3 DEF KeyMinter, MustMint
<1>4. CASE EnsureAccountSK
  <2>1. cur \in Accounts
    BY <1>4 DEF EnsureAccountSK, Focus, AccountSteps
  <2>2. f = AccountSK(cur) /\ MustMint(AccountSK(cur), cur \in job.rotAcct) /\ seed'[f] # None
    BY <1>4, <2>1, KeyMinted DEF EnsureAccountSK
  <2> QED BY <1>4, <2>1, <2>2 DEF KeyMinter, MustMint
<1>5. CASE WriteCAKey
  <2>1. f = CAKey /\ seed'[f] \in {caCrt, Torn}
    BY <1>5 DEF WriteCAKey, TypeOK
  <2>2. caCrt # None /\ Torn # None
    BY <1>5, SentinelAssumption DEF WriteCAKey, KeysHeld
  <2> QED BY <1>5, <2>1, <2>2 DEF KeyMinter
<1>6. CASE EnsureUserKey
  <2>1. cur \in Slots
    BY <1>6 DEF EnsureUserKey, Focus, CabinetSteps
  <2>2. f = UserKey(cur) /\ MustMint(UserKey(cur), Rotating(cur)) /\ seed'[f] # None
    BY <1>6, <2>1, KeyMinted DEF EnsureUserKey
  <2> QED BY <1>6, <2>1, <2>2 DEF KeyMinter, MustMint
<1>7. CASE EnsureLeafKey
  <2>1. cur \in Slots
    BY <1>7 DEF EnsureLeafKey, Focus, CabinetSteps
  <2>2. f = LeafKey(cur) /\ MustMint(LeafKey(cur), Rotating(cur)) /\ seed'[f] # None
    BY <1>7, <2>1, KeyMinted DEF EnsureLeafKey
  <2> QED BY <1>7, <2>1, <2>2 DEF KeyMinter, MustMint
<1>8. CASE EnsureConsumerKey
  <2>1. PICK c \in todo : EnsureKey(UserKey(c), FALSE, "dmzcreds", todo \ {c}, c)
    BY <1>8 DEF EnsureConsumerKey
  <2>2. c \in DMZConsumers
    BY <1>8 DEF EnsureConsumerKey, Focus
  <2>3. f = UserKey(c) /\ MustMint(UserKey(c), FALSE) /\ seed'[f] # None
    BY <2>1, <2>2, KeyMinted
  <2> QED BY <1>8, <2>1, <2>2, <2>3 DEF KeyMinter, MustMint
<1>9. ASSUME NEW a \in Accounts, DeleteAccountRoot(a) PROVE W
  <2>1. f = AccountKey(a) /\ seed'[f] = None
    BY <1>9 DEF DeleteAccountRoot, TypeOK
  <2> QED BY <1>9, <2>1 DEF KeyRemover
<1>10. CASE DeleteCA
  <2>1. f = CAKey /\ seed'[f] = None
    BY <1>10 DEF DeleteCA, TypeOK
  <2> QED BY <1>10, <2>1 DEF KeyRemover
<1>11. CASE DeleteTornSeed
  <2>1. PICK g \in Unrotatable : seed[g] = Torn /\ seed' = [seed EXCEPT ![g] = None]
    BY <1>11 DEF DeleteTornSeed
  <2>2. f = g /\ seed'[f] = None
    BY <2>1 DEF TypeOK
  <2> QED BY <1>11, <2>1, <2>2 DEF KeyRemover
<1>12. ASSUME seed' = seed PROVE FALSE
  BY <1>12
<1> QED
  BY <1>1, <1>2, <1>3, <1>4, <1>5, <1>6, <1>7, <1>8, <1>9, <1>10, <1>11, <1>12
     DEF Next, RunStep, Start, CaptureRetiredOperatorSK, WriteOperatorJWT,
         CaptureRetiredAccountSK, AccountsEnsured, LoadOrCreateCA, BeginCabinet, CaptureRetired,
         WriteCreds, WriteCert, CabinetsMinted, WriteConsumerCreds, ConsumersMinted,
         WriteAccountJWT, Finish, Refuse, Crash, Tick, vars, bundle

\* The keys of cabinets and the signing keys are never removed.
LEMMA KeysKept ==
  ASSUME TypeInv, [Next]_vars
  PROVE  /\ seed'[OperatorSK] = None => seed[OperatorSK] = None
         /\ \A a \in Accounts : seed'[AccountSK(a)] = None => seed[AccountSK(a)] = None
         /\ \A s \in Slots :
              /\ seed'[UserKey(s)] = None => seed[UserKey(s)] = None
              /\ seed'[LeafKey(s)] = None => seed[LeafKey(s)] = None
<1>1. ASSUME NEW f \in KeyFiles, seed'[f] = None, seed[f] # None PROVE KeyRemover(f)
  BY <1>1, KeyWriters
<1>2. \A s \in Slots : UserKey(s) \notin Unrotatable
  BY FilesDistinct, ConsumerAssumption DEF Unrotatable
<1>3. ~KeyRemover(OperatorSK)
  BY FilesDistinct DEF KeyRemover, Unrotatable
<1>4. \A a \in Accounts : ~KeyRemover(AccountSK(a))
  BY FilesDistinct DEF KeyRemover, Unrotatable
<1>5. \A s \in Slots : ~KeyRemover(UserKey(s)) /\ ~KeyRemover(LeafKey(s))
  BY <1>2, FilesDistinct DEF KeyRemover, Unrotatable
<1> QED BY <1>1, <1>3, <1>4, <1>5, FileMembers

\* operator.jwt is written by ensureOperator alone.
LEMMA OperatorJWTWriter ==
  ASSUME [Next]_vars, opJWT' # opJWT
  PROVE  WriteOperatorJWT
BY DEF Next, RunStep, Start, EnsureOperatorKey, CaptureRetiredOperatorSK, EnsureOperatorSK,
       EnsureAccountKey, CaptureRetiredAccountSK, EnsureAccountSK, AccountsEnsured,
       LoadOrCreateCA, WriteCAKey, BeginCabinet, CaptureRetired, EnsureUserKey, WriteCreds,
       EnsureLeafKey, WriteCert, CabinetsMinted, EnsureConsumerKey, WriteConsumerCreds,
       ConsumersMinted, WriteAccountJWT, Finish, Refuse, Crash, DeleteAccountRoot, DeleteCA,
       DeleteTornSeed, Tick, vars, bundle

\* The CA certificate is created once by LoadOrCreateCA, where there is no trace of a CA,
\* and removed by hand.
LEMMA CACertWriter ==
  ASSUME [Next]_vars, caCrt' # caCrt
  PROVE  \/ LoadOrCreateCA /\ caCrt = None /\ seed[CAKey] = None
         \/ DeleteCA
BY DEF Next, RunStep, Start, EnsureOperatorKey, CaptureRetiredOperatorSK, EnsureOperatorSK,
       WriteOperatorJWT, EnsureAccountKey, CaptureRetiredAccountSK, EnsureAccountSK,
       AccountsEnsured, LoadOrCreateCA, WriteCAKey, BeginCabinet, CaptureRetired, EnsureUserKey,
       WriteCreds, EnsureLeafKey, WriteCert, CabinetsMinted, EnsureConsumerKey,
       WriteConsumerCreds, ConsumersMinted, WriteAccountJWT, Finish, Refuse, Crash,
       DeleteAccountRoot, DeleteTornSeed, Tick, vars, bundle

\* An account JWT is written by writeResolverBundle and removed by hand.
LEMMA AccountJWTWriter ==
  ASSUME TypeInv, [Next]_vars, NEW a \in Accounts, resolver'[a] # resolver[a]
  PROVE  \/ /\ WriteAccountJWT /\ a \in todo
            /\ \/ resolver'[a] = NewAccountJWT(a) /\ Goto("bundle", todo \ {a}, None)
               \/ resolver'[a] = Torn /\ Abort
         \/ DeleteAccountRoot(a) /\ resolver'[a] = None
<1>1. CASE WriteAccountJWT
  <2>1. PICK b \in todo :
          \/ /\ resolver' = [resolver EXCEPT ![b] = NewAccountJWT(b)]
             /\ Goto("bundle", todo \ {b}, None)
          \/ resolver' = [resolver EXCEPT ![b] = Torn] /\ Abort
    BY <1>1 DEF WriteAccountJWT
  <2>2. a = b
    BY <2>1 DEF TypeInv, TypeOK
  <2> QED BY <1>1, <2>1, <2>2 DEF TypeInv, TypeOK
<1>2. ASSUME NEW b \in Accounts, DeleteAccountRoot(b)
      PROVE  DeleteAccountRoot(a) /\ resolver'[a] = None
  BY <1>2 DEF DeleteAccountRoot, TypeInv, TypeOK
<1>3. ASSUME resolver' = resolver PROVE FALSE
  BY <1>3
<1> QED
  BY <1>1, <1>2, <1>3
     DEF Next, RunStep, Start, EnsureOperatorKey, CaptureRetiredOperatorSK, EnsureOperatorSK,
         WriteOperatorJWT, EnsureAccountKey, CaptureRetiredAccountSK, EnsureAccountSK,
         AccountsEnsured, LoadOrCreateCA, WriteCAKey, BeginCabinet, CaptureRetired,
         EnsureUserKey, WriteCreds, EnsureLeafKey, WriteCert, CabinetsMinted,
         EnsureConsumerKey, WriteConsumerCreds, ConsumersMinted, Finish, Refuse, Crash,
         DeleteCA, DeleteTornSeed, Tick, vars, bundle

\* A .creds is written by mintCabinet, or for a DMZ consumer.
LEMMA CredsWriter ==
  ASSUME TypeInv, [Next]_vars, NEW h \in Holders, creds'[h] # creds[h]
  PROVE  \/ /\ WriteCreds /\ h = cur /\ h \in Slots
            /\ \/ creds'[h] = NewUserJWT(h, h[1]) /\ Goto("leaf", todo, cur)
               \/ creds'[h] = Torn /\ Abort
         \/ /\ WriteConsumerCreds /\ h = cur /\ h \in DMZConsumers
            /\ \/ creds'[h] = NewUserJWT(h, DMZ) /\ Goto("dmz", todo, None)
               \/ creds'[h] = Torn /\ Abort
<1>1. CASE WriteCreds
  BY <1>1 DEF WriteCreds, TypeInv, TypeOK, Focus, CabinetSteps
<1>2. CASE WriteConsumerCreds
  BY <1>2 DEF WriteConsumerCreds, TypeInv, TypeOK, Focus
<1>3. ASSUME creds' = creds PROVE FALSE
  BY <1>3
<1> QED
  BY <1>1, <1>2, <1>3
     DEF Next, RunStep, Start, EnsureOperatorKey, CaptureRetiredOperatorSK, EnsureOperatorSK,
         WriteOperatorJWT, EnsureAccountKey, CaptureRetiredAccountSK, EnsureAccountSK,
         AccountsEnsured, LoadOrCreateCA, WriteCAKey, BeginCabinet, CaptureRetired,
         EnsureUserKey, EnsureLeafKey, WriteCert, CabinetsMinted, EnsureConsumerKey,
         ConsumersMinted, WriteAccountJWT, Finish, Refuse, Crash, DeleteAccountRoot,
         DeleteCA, DeleteTornSeed, Tick, vars, bundle

\* A client certificate is written by mintCabinet.
LEMMA CertWriter ==
  ASSUME TypeInv, [Next]_vars, NEW s \in Slots, crt'[s] # crt[s]
  PROVE  /\ WriteCert /\ s = cur
         /\ \/ /\ crt'[s] = [key |-> seed[LeafKey(s)], ca |-> seed[CAKey]]
               /\ Goto("cabinet", todo, None)
            \/ crt'[s] = Torn /\ Abort
<1>1. CASE WriteCert
  BY <1>1 DEF WriteCert, TypeInv, TypeOK
<1>2. ASSUME crt' = crt PROVE FALSE
  BY <1>2
<1> QED
  BY <1>1, <1>2
     DEF Next, RunStep, Start, EnsureOperatorKey, CaptureRetiredOperatorSK, EnsureOperatorSK,
         WriteOperatorJWT, EnsureAccountKey, CaptureRetiredAccountSK, EnsureAccountSK,
         AccountsEnsured, LoadOrCreateCA, WriteCAKey, BeginCabinet, CaptureRetired,
         EnsureUserKey, WriteCreds, EnsureLeafKey, CabinetsMinted, EnsureConsumerKey,
         WriteConsumerCreds, ConsumersMinted, WriteAccountJWT, Finish, Refuse, Crash,
         DeleteAccountRoot, DeleteCA, DeleteTornSeed, Tick, vars, bundle

-----------------------------------------------------------------------------
\* Identities are mint-once

\* Only a missing root is minted, and only the operator's own deletion removes one.
LEMMA RootsStepSticky ==
  ASSUME TypeInv, [Next]_vars
  PROVE  /\ \A f \in {OperatorKey} \cup {AccountKey(a) : a \in Accounts} :
              Readable(seed[f]) => seed'[f] \in {seed[f], None}
         /\ Readable(caCrt) => caCrt' \in {caCrt, None}
<1>1. ASSUME NEW f \in {OperatorKey} \cup {AccountKey(a) : a \in Accounts},
             Readable(seed[f]), seed'[f] # seed[f]
      PROVE  seed'[f] = None
  <2>1. f \in KeyFiles /\ seed[f] # None
    BY <1>1, FileMembers DEF Readable
  <2>2. ~KeyMinter(f)
    BY <1>1, <2>1, FilesDistinct DEF KeyMinter
  <2> QED BY <1>1, <2>1, <2>2, KeyWriters
<1>2. ASSUME Readable(caCrt), caCrt' # caCrt PROVE caCrt' = None
  BY <1>2, CACertWriter DEF Readable, DeleteCA
<1> QED BY <1>1, <1>2

\* The tool never replaces a readable operator root, account root or CA certificate,
\* whatever runs, crashes and deletions come before (issuance.go ensureKeypair, pki
\* LoadOrCreateCA).
THEOREM IdentitiesAreMintOnce == Spec => RootsAreSticky
<1>1. TypeInv /\ [Next]_vars =>
        [/\ \A f \in {OperatorKey} \cup {AccountKey(a) : a \in Accounts} :
              Readable(seed[f]) => seed'[f] \in {seed[f], None}
         /\ Readable(caCrt) => caCrt' \in {caCrt, None}]_vars
  BY RootsStepSticky
<1> QED BY <1>1, TypeCorrect, PTL DEF Spec, RootsAreSticky

-----------------------------------------------------------------------------
\* The audit logs only grow

\* appendJSONLine onto a log that has never been torn loses no record of any log, adds at
\* most the one it was given, and has added it when the run goes on.
LEMMA AppendGrows ==
  ASSUME TypeOK, NEW f \in LogFiles, NEW r \in LogRecord, NEW n, NEW t, NEW c,
         AppendRecord(f, r, n, t, c), NEW g \in LogFiles
  PROVE  /\ g # f => Parsed(g)' = Parsed(g) /\ glued'[g] = glued[g]
         /\ ~glued'[g] => ~glued[g] /\ Parsed(g) \subseteq Parsed(g)'
         /\ g = f => Parsed(g)' \subseteq Parsed(g) \cup {r}
         /\ g = f /\ ~glued'[g] => r \in Parsed(g)' \/ Abort
<1>1. /\ g # f => log'[g] = log[g] /\ tail'[g] = tail[g] /\ glued'[g] = glued[g]
      /\ log'[f] \subseteq log[f] \cup {r}
      /\ tail'[f] \in {None, Torn, r}
      /\ glued'[f] = (glued[f] \/ tail[f] # None)
      /\ log[f] \subseteq log'[f]
      /\ \/ tail[f] = None => log'[f] = log[f] \cup {r}
         \/ Abort
  BY AppendOutcome
<1>2. CASE g # f
  BY <1>1, <1>2 DEF Parsed
<1>3. CASE g = f
  BY <1>1, <1>3 DEF Parsed
<1> QED BY <1>2, <1>3

\* The three records a run may append are of their log's kind.
LEMMA RecordTypes ==
  ASSUME TypeInv
  PROVE  /\ Readable(opJWT) => [sk |-> opJWT.sk] \in LogRecord
         /\ \A a \in Accounts : Readable(resolver[a]) =>
              [acct |-> a, sk |-> resolver[a].sk] \in LogRecord
         /\ \A s \in Slots : creds[s] # Torn => RetiredRecord(s) \in LogRecord
<1> USE DEF TypeInv
<1>1. Readable(opJWT) => [sk |-> opJWT.sk] \in LogRecord
  BY DEF Readable, TypeOK, OperatorClaims, LogRecord, RetiredOperatorSK
<1>2. ASSUME NEW a \in Accounts, Readable(resolver[a])
      PROVE  [acct |-> a, sk |-> resolver[a].sk] \in LogRecord
  BY <1>2 DEF Readable, TypeOK, AccountClaims, LogRecord, RetiredSK
<1>3. ASSUME NEW s \in Slots, creds[s] # Torn PROVE RetiredRecord(s) \in LogRecord
  BY <1>3 DEF Holders, RetiredRecord, Retirement, TypeOK, UserClaims, LogRecord
<1> QED BY <1>1, <1>2, <1>3

\* Each log has one writer.
LogWriter(f) ==
  \/ f = "operator-sk" /\ CaptureRetiredOperatorSK /\ Readable(opJWT)
       /\ AppendRecord(f, [sk |-> opJWT.sk], "opsk", {}, None)
  \/ f = "account-sk" /\ CaptureRetiredAccountSK /\ cur \in Accounts /\ Readable(resolver[cur])
       /\ AppendRecord(f, [acct |-> cur, sk |-> resolver[cur].sk], "acctsk", todo, cur)
  \/ f = "cabinet" /\ CaptureRetired /\ cur \in Slots /\ creds[cur] # Torn
       /\ AppendRecord(f, RetiredRecord(cur), "user", todo, cur)

\* A step that writes no log leaves them all as they are.
LEMMA LogWriters ==
  ASSUME TypeInv, [Next]_vars
  PROVE  UNCHANGED <<log, tail, glued>> \/ \E f \in LogFiles : LogWriter(f)
<1>1. CASE CaptureRetiredOperatorSK
  BY <1>1 DEF CaptureRetiredOperatorSK, LogFiles, LogWriter
<1>2. CASE CaptureRetiredAccountSK
  <2>1. cur \in Accounts
    BY <1>2 DEF CaptureRetiredAccountSK, TypeInv, Focus, AccountSteps
  <2> QED BY <1>2, <2>1 DEF CaptureRetiredAccountSK, LogFiles, LogWriter
<1>3. CASE CaptureRetired
  <2>1. cur \in Slots
    BY <1>3 DEF CaptureRetired, TypeInv, Focus, CabinetSteps
  <2> QED BY <1>3, <2>1 DEF CaptureRetired, LogFiles, LogWriter
<1>4. CASE ~(CaptureRetiredOperatorSK \/ CaptureRetiredAccountSK \/ CaptureRetired)
  BY <1>4
     DEF Next, RunStep, Start, EnsureOperatorKey, EnsureOperatorSK,
         WriteOperatorJWT, EnsureAccountKey, EnsureAccountSK,
         AccountsEnsured, LoadOrCreateCA, WriteCAKey, BeginCabinet,
         EnsureUserKey, WriteCreds, EnsureLeafKey, WriteCert, CabinetsMinted,
         EnsureConsumerKey, WriteConsumerCreds, ConsumersMinted, WriteAccountJWT, Finish,
         Refuse, Crash, DeleteAccountRoot, DeleteCA, DeleteTornSeed, Tick, vars, bundle,
         history
<1> QED BY <1>1, <1>2, <1>3, <1>4

\* No step loses a record of a log that has never been torn.
LEMMA LogsOnlyGrow ==
  ASSUME TypeInv, [Next]_vars, NEW g \in LogFiles, ~glued'[g]
  PROVE  ~glued[g] /\ Parsed(g) \subseteq Parsed(g)'
<1>1. CASE UNCHANGED <<log, tail, glued>>
  BY <1>1 DEF Parsed
<1>2. ASSUME NEW f \in LogFiles, LogWriter(f) PROVE ~glued[g] /\ Parsed(g) \subseteq Parsed(g)'
  <2> USE DEF TypeInv
  <2>1. CASE /\ f = "operator-sk" /\ Readable(opJWT)
             /\ AppendRecord(f, [sk |-> opJWT.sk], "opsk", {}, None)
    BY <2>1, RecordTypes, AppendGrows
  <2>2. CASE /\ f = "account-sk" /\ cur \in Accounts /\ Readable(resolver[cur])
             /\ AppendRecord(f, [acct |-> cur, sk |-> resolver[cur].sk], "acctsk", todo, cur)
    <3>1. [acct |-> cur, sk |-> resolver[cur].sk] \in LogRecord
      BY <2>2, RecordTypes
    <3> DEFINE r == [acct |-> cur, sk |-> resolver[cur].sk]
    <3>2. r \in LogRecord /\ AppendRecord(f, r, "acctsk", todo, cur)
      BY <2>2, <3>1
    <3> HIDE DEF r
    <3> QED BY <3>2, AppendGrows
  <2>3. CASE /\ f = "cabinet" /\ cur \in Slots /\ creds[cur] # Torn
             /\ AppendRecord(f, RetiredRecord(cur), "user", todo, cur)
    BY <2>3, RecordTypes, AppendGrows
  <2> QED BY <1>2, <2>1, <2>2, <2>3 DEF LogWriter
<1> QED BY <1>1, <1>2, LogWriters

-----------------------------------------------------------------------------
\* The control flow of a run

\* The step that takes a run to where it stands after it, unless it has just started, has
\* ended early, or has not moved.
Advance ==
  \/ EnsureOperatorKey /\ job.rotOp /\ Goto("opcap", {}, None)
  \/ EnsureOperatorKey /\ ~job.rotOp /\ Goto("opsk", {}, None)
  \/ CaptureRetiredOperatorSK /\ Goto("opsk", {}, None)
  \/ EnsureOperatorSK /\ Goto("opjwt", {}, None)
  \/ WriteOperatorJWT /\ opJWT' = NewOperatorJWT /\ Goto("acct", Accounts, None)
  \/ EnsureAccountKey /\ \E a \in todo :
       \/ a \in job.rotAcct /\ Goto("acctcap", todo \ {a}, a)
       \/ a \notin job.rotAcct /\ Goto("acctsk", todo \ {a}, a)
  \/ CaptureRetiredAccountSK /\ Goto("acctsk", todo, cur)
  \/ EnsureAccountSK /\ Goto("acct", todo, None)
  \/ AccountsEnsured /\ job.inv = None /\ Goto("dmz", DMZConsumers, None)
  \/ AccountsEnsured /\ Goto("inv", {}, None)
  \/ LoadOrCreateCA /\ Goto("cakey", {}, None)
  \/ LoadOrCreateCA /\ Goto("cabinet", job.inv, None)
  \/ WriteCAKey /\ Goto("cabinet", job.inv, None)
  \/ BeginCabinet /\ \E s \in todo \cap Slots :
       \/ Rotating(s) /\ Goto("capture", todo \ {s}, s)
       \/ ~Rotating(s) /\ Goto("user", todo \ {s}, s)
  \/ CaptureRetired /\ Goto("user", todo, cur)
  \/ EnsureUserKey /\ Goto("creds", todo, cur)
  \/ WriteCreds /\ creds'[cur] = NewUserJWT(cur, cur[1]) /\ Goto("leaf", todo, cur)
  \/ EnsureLeafKey /\ Goto("crt", todo, cur)
  \/ /\ WriteCert /\ crt'[cur] = [key |-> seed[LeafKey(cur)], ca |-> seed[CAKey]]
     /\ Goto("cabinet", todo, None)
  \/ CabinetsMinted /\ Goto("dmz", DMZConsumers, None)
  \/ EnsureConsumerKey /\ \E c \in todo : Goto("dmzcreds", todo \ {c}, c)
  \/ WriteConsumerCreds /\ creds'[cur] = NewUserJWT(cur, DMZ) /\ Goto("dmz", todo, None)
  \/ ConsumersMinted /\ Goto("bundle", Accounts, None)
  \/ /\ WriteAccountJWT
     /\ \E a \in todo : resolver'[a] = NewAccountJWT(a) /\ Goto("bundle", todo \ {a}, None)
  \/ Finish /\ Goto("done", {}, None)

\* Every step that leaves a run under way either advances it or is a tick of the clock.
LEMMA ControlFlow ==
  ASSUME TypeInv, [Next]_vars, pc' \notin {"idle", "opkey"}
  PROVE  Advance \/ UNCHANGED <<proc, bundle, history>>
<1> USE DEF TypeInv
<1>0. ~Abort
  BY DEF Abort
<1>1. CASE EnsureOperatorKey
  <2>1. CASE job.rotOp
    <3>1. EnsureKey(OperatorKey, FALSE, "opcap", {}, None)
      BY <1>1, <2>1 DEF EnsureOperatorKey
    <3> QED BY <1>0, <1>1, <2>1, <3>1 DEF EnsureKey, Advance
  <2>2. CASE ~job.rotOp
    <3>1. EnsureKey(OperatorKey, FALSE, "opsk", {}, None)
      BY <1>1, <2>2 DEF EnsureOperatorKey
    <3> QED BY <1>0, <1>1, <2>2, <3>1 DEF EnsureKey, Advance
  <2> QED BY <2>1, <2>2
<1>2. CASE CaptureRetiredOperatorSK
  BY <1>0, <1>2 DEF CaptureRetiredOperatorSK, AppendRecord, Advance
<1>3. CASE EnsureOperatorSK
  <2>1. Goto("opjwt", {}, None)
    BY <1>0, <1>3 DEF EnsureOperatorSK, EnsureKey
  <2> QED BY <1>3, <2>1 DEF Advance
<1>4. CASE WriteOperatorJWT
  BY <1>0, <1>4 DEF WriteOperatorJWT, Advance
<1>5. CASE EnsureAccountKey
  <2>1. PICK a \in todo :
          EnsureKey(AccountKey(a), FALSE,
                    IF a \in job.rotAcct THEN "acctcap" ELSE "acctsk", todo \ {a}, a)
    BY <1>5 DEF EnsureAccountKey
  <2>2. Goto(IF a \in job.rotAcct THEN "acctcap" ELSE "acctsk", todo \ {a}, a)
    BY <1>0, <2>1 DEF EnsureKey
  <2>3. \/ a \in job.rotAcct /\ Goto("acctcap", todo \ {a}, a)
        \/ a \notin job.rotAcct /\ Goto("acctsk", todo \ {a}, a)
    BY <2>2
  <2> QED BY <1>5, <2>3 DEF Advance
<1>6. CASE CaptureRetiredAccountSK
  <2>1. Goto("acctsk", todo, cur)
    BY <1>0, <1>6 DEF CaptureRetiredAccountSK, AppendRecord
  <2> QED BY <1>6, <2>1 DEF Advance
<1>7. CASE EnsureAccountSK
  <2>1. Goto("acct", todo, None)
    BY <1>0, <1>7 DEF EnsureAccountSK, EnsureKey
  <2> QED BY <1>7, <2>1 DEF Advance
<1>8. CASE AccountsEnsured
  BY <1>8 DEF AccountsEnsured, Advance
<1>9. CASE LoadOrCreateCA
  BY <1>0, <1>9 DEF LoadOrCreateCA, Advance
<1>10. CASE WriteCAKey
  BY <1>0, <1>10 DEF WriteCAKey, Advance
<1>11. CASE BeginCabinet
  <2>1. PICK s \in todo \cap Slots :
          Goto(IF Rotating(s) THEN "capture" ELSE "user", todo \ {s}, s)
    BY <1>11 DEF BeginCabinet
  <2>2. \/ Rotating(s) /\ Goto("capture", todo \ {s}, s)
        \/ ~Rotating(s) /\ Goto("user", todo \ {s}, s)
    BY <2>1
  <2> QED BY <1>11, <2>2 DEF Advance
<1>12. CASE CaptureRetired
  <2>1. Goto("user", todo, cur)
    BY <1>0, <1>12 DEF CaptureRetired, AppendRecord
  <2> QED BY <1>12, <2>1 DEF Advance
<1>13. CASE EnsureUserKey
  <2>1. Goto("creds", todo, cur)
    BY <1>0, <1>13 DEF EnsureUserKey, EnsureKey
  <2> QED BY <1>13, <2>1 DEF Advance
<1>14. CASE WriteCreds
  <2>1. cur \in Holders
    BY <1>14 DEF WriteCreds, Focus, CabinetSteps, Holders
  <2>2. creds'[cur] = NewUserJWT(cur, cur[1]) /\ Goto("leaf", todo, cur)
    BY <1>0, <1>14, <2>1 DEF WriteCreds, TypeOK
  <2> QED BY <1>14, <2>2 DEF Advance
<1>15. CASE EnsureLeafKey
  <2>1. Goto("crt", todo, cur)
    BY <1>0, <1>15 DEF EnsureLeafKey, EnsureKey
  <2> QED BY <1>15, <2>1 DEF Advance
<1>16. CASE WriteCert
  <2>1. cur \in Slots
    BY <1>16 DEF WriteCert, Focus, CabinetSteps
  <2>2. /\ crt'[cur] = [key |-> seed[LeafKey(cur)], ca |-> seed[CAKey]]
        /\ Goto("cabinet", todo, None)
    BY <1>0, <1>16, <2>1 DEF WriteCert, TypeOK
  <2> QED BY <1>16, <2>2 DEF Advance
<1>17. CASE CabinetsMinted
  BY <1>17 DEF CabinetsMinted, Advance
<1>18. CASE EnsureConsumerKey
  <2>1. \E c \in todo : Goto("dmzcreds", todo \ {c}, c)
    BY <1>0, <1>18 DEF EnsureConsumerKey, EnsureKey
  <2> QED BY <1>18, <2>1 DEF Advance
<1>19. CASE WriteConsumerCreds
  <2>1. cur \in Holders
    BY <1>19, FileMembers DEF WriteConsumerCreds, Focus
  <2>2. creds'[cur] = NewUserJWT(cur, DMZ) /\ Goto("dmz", todo, None)
    BY <1>0, <1>19, <2>1 DEF WriteConsumerCreds, TypeOK
  <2> QED BY <1>19, <2>2 DEF Advance
<1>20. CASE ConsumersMinted
  BY <1>20 DEF ConsumersMinted, Advance
<1>21. CASE WriteAccountJWT
  <2>1. PICK a \in todo :
          /\ resolver' = [resolver EXCEPT ![a] = NewAccountJWT(a)]
          /\ Goto("bundle", todo \ {a}, None)
    BY <1>0, <1>21 DEF WriteAccountJWT
  <2>2. a \in Accounts
    BY <1>21 DEF WriteAccountJWT, Focus
  <2>3. resolver'[a] = NewAccountJWT(a)
    BY <2>1, <2>2 DEF TypeOK
  <2> QED BY <1>21, <2>1, <2>3 DEF Advance
<1>22. CASE Finish
  BY <1>22 DEF Finish, Advance
<1>23. CASE Tick \/ UNCHANGED vars
  BY <1>23 DEF Tick, vars
<1>24. ASSUME \/ \E j \in Jobs : Start(j)
              \/ Refuse \/ Crash \/ (\E a \in Accounts : DeleteAccountRoot(a))
              \/ DeleteCA \/ DeleteTornSeed
       PROVE  FALSE
  BY <1>0, <1>24 DEF Start, Refuse, Crash, DeleteAccountRoot, DeleteCA, DeleteTornSeed
<1> QED
  BY <1>1, <1>2, <1>3, <1>4, <1>5, <1>6, <1>7, <1>8, <1>9, <1>10, <1>11, <1>12, <1>13,
     <1>14, <1>15, <1>16, <1>17, <1>18, <1>19, <1>20, <1>21, <1>22, <1>23, <1>24
     DEF Next, RunStep

-----------------------------------------------------------------------------
\* Revocations accumulate

\* Every step keeps the account JWTs within the log.
LEMMA ServedFromLogStep ==
  ASSUME TypeInv, ServedFromLog, [Next]_vars
  PROVE  ServedFromLog'
<1> SUFFICES ASSUME ~glued'["cabinet"], NEW a \in Accounts, Readable(resolver'[a])
             PROVE  resolver'[a].revs \subseteq RevocationsFor(a)'
  BY DEF ServedFromLog, Readable
<1>1. ~glued["cabinet"] /\ RevocationsFor(a) \subseteq RevocationsFor(a)'
  BY LogsOnlyGrow DEF LogFiles, RevocationsFor
<1>2. CASE resolver'[a] = resolver[a]
  BY <1>1, <1>2 DEF ServedFromLog, Readable
<1>3. CASE resolver'[a] # resolver[a]
  <2>1. resolver'[a] = NewAccountJWT(a)
    BY <1>3, AccountJWTWriter DEF Readable
  <2> QED BY <1>1, <2>1 DEF NewAccountJWT
<1> QED BY <1>2, <1>3

\* The account JWTs of every reachable bundle carry only what the log still has.
THEOREM ServedListsComeFromLog == Spec => []ServedFromLog
<1>1. Init => ServedFromLog
  BY DEF Init, ServedFromLog, Readable
<1> QED BY <1>1, TypeCorrect, ServedFromLogStep, PTL DEF Spec

\* No rewrite of an account JWT drops a revocation an earlier bundle carried, for every
\* history in which no append ran into a torn line (issuance.go loadRevocations,
\* writeResolverBundle).
THEOREM RevocationsAccumulate == Spec => RevocationsPersist
<1>1. TypeInv /\ ServedFromLog /\ [Next]_vars =>
        [\A a \in Accounts :
           Readable(resolver[a]) /\ Readable(resolver'[a]) /\ ~glued'["cabinet"]
             => resolver[a].revs \subseteq resolver'[a].revs]_vars
  <2> SUFFICES ASSUME TypeInv, ServedFromLog, [Next]_vars, NEW a \in Accounts,
                      Readable(resolver[a]), Readable(resolver'[a]), ~glued'["cabinet"],
                      resolver'[a] # resolver[a]
               PROVE  resolver[a].revs \subseteq resolver'[a].revs
    OBVIOUS
  <2>1. resolver'[a] = NewAccountJWT(a)
    BY AccountJWTWriter DEF Readable
  <2>2. ~glued["cabinet"]
    BY LogsOnlyGrow DEF LogFiles
  <2> QED BY <2>1, <2>2 DEF NewAccountJWT, ServedFromLog
<1> QED BY <1>1, TypeCorrect, ServedListsComeFromLog, PTL DEF Spec, RevocationsPersist

-----------------------------------------------------------------------------
\* No crash wedges a cabinet

\* No file appears before its key, and no key of a cabinet and no signing key disappears.
LEMMA KeysFirstStep ==
  ASSUME TypeInv, KeysFirst, CapturedIntact, [Next]_vars
  PROVE  KeysFirst'
<1> USE DEF TypeInv
<1>1. ASSUME NEW s \in Slots, seed'[UserKey(s)] = None
      PROVE  creds'[s] = None /\ crt'[s] = None
  <2>1. seed[UserKey(s)] = None /\ seed[UserKey(s)] \notin Nat
    BY <1>1, KeysKept, SentinelAssumption
  <2>2. s \in Holders /\ s \notin DMZConsumers
    BY ConsumerAssumption DEF Holders, DMZConsumers
  <2>3. creds'[s] = creds[s]
    BY <2>1, <2>2, CredsWriter DEF WriteCreds, KeysHeld
  <2>4. crt'[s] = crt[s]
    BY <2>1, CertWriter DEF WriteCert, CapturedIntact
  <2> QED BY <2>1, <2>3, <2>4 DEF KeysFirst
<1>2. ASSUME NEW s \in Slots, seed'[LeafKey(s)] = None
      PROVE  crt'[s] = None
  <2>1. seed[LeafKey(s)] = None /\ seed[LeafKey(s)] \notin Nat
    BY <1>2, KeysKept, SentinelAssumption
  <2>2. crt'[s] = crt[s]
    BY <2>1, CertWriter DEF WriteCert, KeysHeld
  <2> QED BY <2>1, <2>2 DEF KeysFirst
<1>3. ASSUME seed'[OperatorSK] = None PROVE opJWT' = None
  <2>1. seed[OperatorSK] = None /\ seed[OperatorSK] \notin Nat
    BY <1>3, KeysKept, SentinelAssumption
  <2>2. opJWT' = opJWT
    BY <2>1, OperatorJWTWriter DEF WriteOperatorJWT, KeysHeld
  <2> QED BY <2>1, <2>2 DEF KeysFirst
<1>4. ASSUME NEW a \in Accounts, seed'[AccountSK(a)] = None PROVE resolver'[a] = None
  <2>1. seed[AccountSK(a)] = None /\ seed[AccountSK(a)] \notin Nat
    BY <1>4, KeysKept, SentinelAssumption
  <2>2. resolver'[a] = resolver[a] \/ resolver'[a] = None
    BY <2>1, AccountJWTWriter DEF WriteAccountJWT, KeysHeld, AfterAccounts
  <2> QED BY <2>1, <2>2 DEF KeysFirst
<1> QED BY <1>1, <1>2, <1>3, <1>4 DEF KeysFirst

\* A rotation that has passed captureRetired keeps the files it read until it replaces
\* them, in the order key, .creds, leaf key, certificate.
LEMMA CapturedIntactStep ==
  ASSUME TypeInv, TypeInv', CapturedIntact, [Next]_vars
  PROVE  CapturedIntact'
<1> USE DEF TypeInv
<1> SUFFICES ASSUME pc' \in {"user", "creds", "leaf", "crt"} PROVE CapturedIntact'
  BY DEF CapturedIntact
<1>1. CASE UNCHANGED <<proc, bundle, history>>
  BY <1>1 DEF proc, bundle, CapturedIntact, Rotating
<1>2. CASE BeginCabinet /\ \E s \in todo \cap Slots :
             \/ Rotating(s) /\ Goto("capture", todo \ {s}, s)
             \/ ~Rotating(s) /\ Goto("user", todo \ {s}, s)
  BY <1>2 DEF Goto, CapturedIntact, Rotating
<1>3. CASE CaptureRetired /\ Goto("user", todo, cur)
  BY <1>3 DEF CaptureRetired, Goto, CapturedIntact
<1>4. CASE EnsureUserKey /\ Goto("creds", todo, cur)
  <2>1. seed'[UserKey(cur')] \in Nat
    BY <1>4 DEF Goto, KeysHeld
  <2> QED BY <1>4, <2>1 DEF EnsureUserKey, Goto, CapturedIntact, Rotating
<1>5. CASE WriteCreds /\ Goto("leaf", todo, cur)
  BY <1>5 DEF WriteCreds, Goto, CapturedIntact, Rotating
<1>6. CASE EnsureLeafKey /\ Goto("crt", todo, cur)
  <2>1. cur \in Slots
    BY <1>6 DEF EnsureLeafKey, Focus, CabinetSteps
  <2>2. seed'[UserKey(cur)] = seed[UserKey(cur)]
    BY <1>6, <2>1, EnsureKeyOutcome, FileMembers, FilesDistinct DEF EnsureLeafKey
  <2> QED BY <1>6, <2>2 DEF EnsureLeafKey, Goto, CapturedIntact
<1> QED BY <1>1, <1>2, <1>3, <1>4, <1>5, <1>6, ControlFlow DEF Advance, Goto

\* A key is torn only where no file it would have to be repaired with is, and the other
\* way round.
LEMMA NeverWedgedStep ==
  ASSUME TypeInv, WedgeInv, [Next]_vars
  PROVE  NeverWedged'
<1> USE FileMembers, FilesDistinct DEF TypeInv, WedgeInv
<1> SUFFICES ASSUME NEW s \in Slots
             PROVE  /\ seed'[UserKey(s)] = Torn => Torn \notin {creds'[s], crt'[s]}
                    /\ seed'[LeafKey(s)] = Torn => crt'[s] # Torn
  BY DEF NeverWedged
<1>0. s \in Holders /\ s \notin DMZConsumers /\ None # Torn /\ Torn \notin Nat
  BY ConsumerAssumption, SentinelAssumption DEF Holders, DMZConsumers
<1>1. CASE seed'[UserKey(s)] # seed[UserKey(s)]
  <2>1. EnsureUserKey /\ s = cur /\ (Rotating(s) \/ seed[UserKey(s)] = None)
    <3>1. KeyMinter(UserKey(s))
      BY <1>1, KeyWriters, KeysKept
    <3> QED BY <1>0, <3>1 DEF KeyMinter
  <2>2. Torn \notin {creds[s], crt[s]}
    BY <1>0, <2>1 DEF EnsureUserKey, CapturedIntact, KeysFirst
  <2>3. creds' = creds /\ crt' = crt
    BY <2>1 DEF EnsureUserKey
  <2> QED BY <2>2, <2>3
<1>2. CASE seed'[LeafKey(s)] # seed[LeafKey(s)]
  <2>1. EnsureLeafKey /\ s = cur /\ (Rotating(s) \/ seed[LeafKey(s)] = None)
    <3>1. KeyMinter(LeafKey(s))
      BY <1>2, KeyWriters, KeysKept
    <3> QED BY <1>0, <3>1 DEF KeyMinter
  <2>2. crt[s] # Torn
    BY <1>0, <2>1 DEF EnsureLeafKey, CapturedIntact, KeysFirst
  <2>3. /\ creds' = creds /\ crt' = crt
        /\ seed'[UserKey(s)] = seed[UserKey(s)]
    BY <2>1, EnsureKeyOutcome DEF EnsureLeafKey
  <2> QED BY <2>2, <2>3 DEF NeverWedged
<1>3. CASE seed'[UserKey(s)] = seed[UserKey(s)] /\ seed'[LeafKey(s)] = seed[LeafKey(s)]
  <2>1. CASE creds'[s] # creds[s]
    <3>1. WriteCreds /\ s = cur
      BY <1>0, <2>1, CredsWriter
    <3>2. seed[UserKey(s)] \in Nat /\ crt' = crt
      BY <3>1 DEF WriteCreds, KeysHeld
    <3> QED BY <1>0, <1>3, <3>2 DEF NeverWedged
  <2>2. CASE crt'[s] # crt[s]
    <3>1. WriteCert /\ s = cur
      BY <2>2, CertWriter
    <3>2. seed[UserKey(s)] \in Nat /\ seed[LeafKey(s)] \in Nat
      BY <3>1 DEF WriteCert, KeysHeld, CapturedIntact
    <3> QED BY <1>0, <1>3, <3>2
  <2>3. CASE creds'[s] = creds[s] /\ crt'[s] = crt[s]
    BY <1>3, <2>3 DEF NeverWedged
  <2> QED BY <2>1, <2>2, <2>3
<1> QED BY <1>1, <1>2, <1>3

\* The invariant behind the next two theorems.
THEOREM WedgeInvariant == Spec => []WedgeInv
<1>1. Init => WedgeInv
  BY FileMembers, SentinelAssumption
     DEF Init, WedgeInv, KeysFirst, CapturedIntact, NeverWedged, Holders
<1>2. TypeInv /\ TypeInv' /\ WedgeInv /\ [Next]_vars => WedgeInv'
  BY KeysFirstStep, CapturedIntactStep, NeverWedgedStep DEF WedgeInv
<1> QED BY <1>1, <1>2, TypeCorrect, PTL DEF Spec

\* Whatever crashes and failed writes a bundle has seen, each cabinet's damage is of a kind
\* that -rotate repairs or of a kind that a plain run repairs, never of both
\* (issuance.go mintCabinet, captureRetired).
THEOREM NoCabinetIsWedged == Spec => []NeverWedged
<1>1. WedgeInv => NeverWedged
  BY DEF WedgeInv
<1> QED BY <1>1, WedgeInvariant, PTL

-----------------------------------------------------------------------------
\* The audit precedes the swap

\* captureRetiredOperatorSK and captureRetiredAccountSK leave the declared key in its log
\* when the run goes on to the swap.
LEMMA AuditedBeforeSwapStep ==
  ASSUME TypeInv, AuditedBeforeSwap, [Next]_vars
  PROVE  AuditedBeforeSwap'
<1> USE DEF TypeInv
<1>1. ASSUME pc' = "opsk", job'.rotOp, Readable(opJWT'), ~glued'["operator-sk"]
      PROVE  [sk |-> opJWT'.sk] \in Parsed("operator-sk")'
  <2>1. CASE UNCHANGED <<proc, bundle, history>>
    BY <1>1, <2>1 DEF proc, bundle, history, AuditedBeforeSwap, Parsed
  <2>2. CASE EnsureOperatorKey /\ ~job.rotOp /\ Goto("opsk", {}, None)
    BY <1>1, <2>2 DEF Goto
  <2>3. CASE CaptureRetiredOperatorSK /\ Goto("opsk", {}, None)
    <3>1. opJWT' = opJWT /\ Readable(opJWT) /\ ~Abort
      BY <1>1, <2>3 DEF CaptureRetiredOperatorSK, Abort
    <3>2. AppendRecord("operator-sk", [sk |-> opJWT.sk], "opsk", {}, None)
      BY <2>3, <3>1 DEF CaptureRetiredOperatorSK
    <3>3. [sk |-> opJWT.sk] \in Parsed("operator-sk")'
      BY <1>1, <3>1, <3>2, RecordTypes, AppendGrows DEF LogFiles
    <3> QED BY <3>1, <3>3
  <2> QED BY <1>1, <2>1, <2>2, <2>3, ControlFlow DEF Advance, Goto
<1>2. ASSUME pc' = "acctsk", cur' \in job'.rotAcct, Readable(resolver'[cur']),
             ~glued'["account-sk"]
      PROVE  [acct |-> cur', sk |-> resolver'[cur'].sk] \in Parsed("account-sk")'
  <2>1. CASE UNCHANGED <<proc, bundle, history>>
    BY <1>2, <2>1 DEF proc, bundle, history, AuditedBeforeSwap, Parsed
  <2>2. CASE EnsureAccountKey /\ \E a \in todo :
               \/ a \in job.rotAcct /\ Goto("acctcap", todo \ {a}, a)
               \/ a \notin job.rotAcct /\ Goto("acctsk", todo \ {a}, a)
    BY <1>2, <2>2 DEF Goto
  <2>3. CASE CaptureRetiredAccountSK /\ Goto("acctsk", todo, cur)
    <3> DEFINE r == [acct |-> cur, sk |-> resolver[cur].sk]
    <3>1. /\ resolver' = resolver /\ cur' = cur /\ cur \in Accounts
          /\ Readable(resolver[cur]) /\ ~Abort
      BY <1>2, <2>3 DEF CaptureRetiredAccountSK, Abort, Goto, Focus, AccountSteps
    <3>2. AppendRecord("account-sk", r, "acctsk", todo, cur)
      BY <2>3, <3>1 DEF CaptureRetiredAccountSK
    <3>3. r \in LogRecord
      BY <3>1, RecordTypes
    <3>4. r \in Parsed("account-sk")'
      <4> HIDE DEF r
      <4> QED BY <1>2, <3>1, <3>2, <3>3, AppendGrows DEF LogFiles
    <3> QED BY <3>1, <3>4
  <2> QED BY <1>2, <2>1, <2>2, <2>3, ControlFlow DEF Advance, Goto
<1> QED BY <1>1, <1>2 DEF AuditedBeforeSwap, Readable

\* In every reachable state between a capture and its swap, the log has the declared key.
THEOREM CaptureIsOnRecord == Spec => []AuditedBeforeSwap
<1>1. Init => AuditedBeforeSwap
  BY DEF Init, AuditedBeforeSwap
<1> QED BY <1>1, TypeCorrect, AuditedBeforeSwapStep, PTL DEF Spec

\* A signing key that a readable JWT declares is in its audit log before the key file is
\* overwritten, for every history in which no append to that log ran into a torn line
\* (issuance.go captureRetiredOperatorSK, captureRetiredAccountSK).
THEOREM SwapsAreAudited == Spec => AuditBeforeSwap
<1>1. TypeInv /\ WedgeInv /\ AuditedBeforeSwap /\ [Next]_vars =>
        [/\ seed'[OperatorSK] # seed[OperatorSK] /\ Readable(opJWT) /\ ~glued["operator-sk"]
              => [sk |-> opJWT.sk] \in Parsed("operator-sk")
         /\ \A a \in Accounts :
              seed'[AccountSK(a)] # seed[AccountSK(a)] /\ Readable(resolver[a])
                /\ ~glued["account-sk"]
              => [acct |-> a, sk |-> resolver[a].sk] \in Parsed("account-sk")]_vars
  <2> SUFFICES ASSUME TypeInv, WedgeInv, AuditedBeforeSwap, [Next]_vars
               PROVE  /\ seed'[OperatorSK] # seed[OperatorSK] /\ Readable(opJWT)
                           /\ ~glued["operator-sk"]
                           => [sk |-> opJWT.sk] \in Parsed("operator-sk")
                      /\ \A a \in Accounts :
                           seed'[AccountSK(a)] # seed[AccountSK(a)] /\ Readable(resolver[a])
                             /\ ~glued["account-sk"]
                           => [acct |-> a, sk |-> resolver[a].sk] \in Parsed("account-sk")
    OBVIOUS
  <2> USE FileMembers, FilesDistinct DEF WedgeInv
  <2>1. ASSUME seed'[OperatorSK] # seed[OperatorSK], Readable(opJWT), ~glued["operator-sk"]
        PROVE  [sk |-> opJWT.sk] \in Parsed("operator-sk")
    <3>1. EnsureOperatorSK /\ (job.rotOp \/ seed[OperatorSK] = None)
      <4>1. KeyMinter(OperatorSK)
        BY <2>1, KeyWriters, KeysKept
      <4> QED BY <4>1 DEF KeyMinter
    <3>2. seed[OperatorSK] # None
      BY <2>1 DEF KeysFirst, Readable
    <3> QED BY <2>1, <3>1, <3>2 DEF EnsureOperatorSK, AuditedBeforeSwap
  <2>2. ASSUME NEW a \in Accounts, seed'[AccountSK(a)] # seed[AccountSK(a)],
               Readable(resolver[a]), ~glued["account-sk"]
        PROVE  [acct |-> a, sk |-> resolver[a].sk] \in Parsed("account-sk")
    <3>1. EnsureAccountSK /\ a = cur /\ (cur \in job.rotAcct \/ seed[AccountSK(a)] = None)
      <4>1. KeyMinter(AccountSK(a))
        BY <2>2, KeyWriters, KeysKept
      <4> QED BY <4>1 DEF KeyMinter
    <3>2. seed[AccountSK(a)] # None
      BY <2>2 DEF KeysFirst, Readable
    <3> QED BY <2>2, <3>1, <3>2 DEF EnsureAccountSK, AuditedBeforeSwap
  <2> QED BY <2>1, <2>2
<1> QED BY <1>1, TypeCorrect, WedgeInvariant, CaptureIsOnRecord, PTL DEF Spec, AuditBeforeSwap

-----------------------------------------------------------------------------
\* How a run makes progress

\* A row becomes served by the write of its .creds and by nothing else.
LEMMA CredsDoneGrows ==
  ASSUME TypeInv, [Next]_vars, NEW s, CredsDone(s)'
  PROVE  \/ CredsDone(s)
         \/ /\ WriteCreds /\ s = cur /\ cur \in Slots
            /\ creds'[s] = NewUserJWT(s, s[1]) /\ Goto("leaf", todo, cur)
<1>1. pc' \in {"cabinet", "capture", "user", "creds", "leaf", "crt"} \cup Closing
  BY DEF CredsDone
<1>2. CASE UNCHANGED <<proc, bundle, history>>
  BY <1>2 DEF proc, CredsDone
<1>3. CASE \/ LoadOrCreateCA /\ Goto("cabinet", job.inv, None)
           \/ WriteCAKey /\ Goto("cabinet", job.inv, None)
  BY <1>3 DEF Goto, CredsDone, Closing
<1>4. CASE BeginCabinet /\ \E q \in todo \cap Slots :
             \/ Rotating(q) /\ Goto("capture", todo \ {q}, q)
             \/ ~Rotating(q) /\ Goto("user", todo \ {q}, q)
  BY <1>4 DEF BeginCabinet, Goto, CredsDone, Closing
<1>5. CASE \/ CaptureRetired /\ Goto("user", todo, cur)
           \/ EnsureUserKey /\ Goto("creds", todo, cur)
           \/ EnsureLeafKey /\ Goto("crt", todo, cur)
           \/ WriteCert /\ Goto("cabinet", todo, None)
  BY <1>5 DEF CaptureRetired, EnsureUserKey, EnsureLeafKey, WriteCert, Goto, CredsDone, Closing
<1>6. CASE WriteCreds /\ creds'[cur] = NewUserJWT(cur, cur[1]) /\ Goto("leaf", todo, cur)
  BY <1>6 DEF WriteCreds, Goto, CredsDone, Closing, TypeInv, Focus, CabinetSteps
<1>7. CASE \/ AccountsEnsured /\ job.inv = None /\ Goto("dmz", DMZConsumers, None)
           \/ CabinetsMinted /\ Goto("dmz", DMZConsumers, None)
           \/ EnsureConsumerKey /\ \E c \in todo : Goto("dmzcreds", todo \ {c}, c)
           \/ WriteConsumerCreds /\ Goto("dmz", todo, None)
           \/ ConsumersMinted /\ Goto("bundle", Accounts, None)
           \/ WriteAccountJWT /\ \E a \in todo : Goto("bundle", todo \ {a}, None)
           \/ Finish /\ Goto("done", {}, None)
  BY <1>7 DEF CabinetsMinted, EnsureConsumerKey, WriteConsumerCreds, ConsumersMinted,
              WriteAccountJWT, Finish, Goto, CredsDone, Closing
<1> QED BY <1>1, <1>2, <1>3, <1>4, <1>5, <1>6, <1>7, ControlFlow DEF Advance, Goto, Closing

\* It becomes certified by the write of its certificate and by nothing else.
LEMMA CertDoneGrows ==
  ASSUME TypeInv, [Next]_vars, NEW s, CertDone(s)'
  PROVE  \/ CertDone(s)
         \/ /\ WriteCert /\ s = cur /\ cur \in Slots
            /\ crt'[s] = [key |-> seed[LeafKey(s)], ca |-> seed[CAKey]]
<1> USE DEF CabinetSteps
<1>1. pc' \in {"cabinet"} \cup CabinetSteps \cup Closing
  BY DEF CertDone
<1>2. CASE UNCHANGED <<proc, bundle, history>>
  BY <1>2 DEF proc, CertDone
<1>3. CASE \/ LoadOrCreateCA /\ Goto("cabinet", job.inv, None)
           \/ WriteCAKey /\ Goto("cabinet", job.inv, None)
  BY <1>3 DEF Goto, CertDone, Closing
<1>4. CASE BeginCabinet /\ \E q \in todo \cap Slots :
             \/ Rotating(q) /\ Goto("capture", todo \ {q}, q)
             \/ ~Rotating(q) /\ Goto("user", todo \ {q}, q)
  BY <1>4 DEF BeginCabinet, Goto, CertDone, Closing
<1>5. CASE \/ CaptureRetired /\ Goto("user", todo, cur)
           \/ EnsureUserKey /\ Goto("creds", todo, cur)
           \/ WriteCreds /\ Goto("leaf", todo, cur)
           \/ EnsureLeafKey /\ Goto("crt", todo, cur)
  BY <1>5 DEF CaptureRetired, EnsureUserKey, WriteCreds, EnsureLeafKey, Goto, CertDone, Closing
<1>6. CASE /\ WriteCert /\ crt'[cur] = [key |-> seed[LeafKey(cur)], ca |-> seed[CAKey]]
           /\ Goto("cabinet", todo, None)
  BY <1>6 DEF WriteCert, Goto, CertDone, Closing, TypeInv, Focus
<1>7. CASE \/ AccountsEnsured /\ job.inv = None /\ Goto("dmz", DMZConsumers, None)
           \/ CabinetsMinted /\ Goto("dmz", DMZConsumers, None)
           \/ EnsureConsumerKey /\ \E c \in todo : Goto("dmzcreds", todo \ {c}, c)
           \/ WriteConsumerCreds /\ Goto("dmz", todo, None)
           \/ ConsumersMinted /\ Goto("bundle", Accounts, None)
           \/ WriteAccountJWT /\ \E a \in todo : Goto("bundle", todo \ {a}, None)
           \/ Finish /\ Goto("done", {}, None)
  BY <1>7 DEF CabinetsMinted, EnsureConsumerKey, WriteConsumerCreds, ConsumersMinted,
              WriteAccountJWT, Finish, Goto, CertDone, Closing
<1> QED BY <1>1, <1>2, <1>3, <1>4, <1>5, <1>6, <1>7, ControlFlow DEF Advance, Goto, Closing

\* A consumer becomes served by the write of its .creds.
LEMMA ConsumerDoneGrows ==
  ASSUME TypeInv, [Next]_vars, NEW c \in DMZConsumers, ConsumerDone(c)'
  PROVE  \/ ConsumerDone(c)
         \/ WriteConsumerCreds /\ c = cur /\ creds'[c] = NewUserJWT(c, DMZ)
<1>1. pc' \in {"dmz", "dmzcreds", "bundle", "done"}
  BY DEF ConsumerDone
<1>2. CASE UNCHANGED <<proc, bundle, history>>
  BY <1>2 DEF proc, ConsumerDone
<1>3. CASE \/ AccountsEnsured /\ Goto("dmz", DMZConsumers, None)
           \/ CabinetsMinted /\ Goto("dmz", DMZConsumers, None)
  BY <1>3 DEF Goto, ConsumerDone
<1>4. CASE EnsureConsumerKey /\ \E x \in todo : Goto("dmzcreds", todo \ {x}, x)
  BY <1>4 DEF EnsureConsumerKey, Goto, ConsumerDone
<1>5. CASE /\ WriteConsumerCreds /\ creds'[cur] = NewUserJWT(cur, DMZ)
           /\ Goto("dmz", todo, None)
  BY <1>5 DEF WriteConsumerCreds, Goto, ConsumerDone
<1>6. CASE \/ ConsumersMinted /\ Goto("bundle", Accounts, None)
           \/ WriteAccountJWT /\ \E a \in todo : Goto("bundle", todo \ {a}, None)
           \/ Finish /\ Goto("done", {}, None)
  BY <1>6 DEF ConsumersMinted, WriteAccountJWT, Finish, Goto, ConsumerDone
<1> QED BY <1>1, <1>2, <1>3, <1>4, <1>5, <1>6, ControlFlow DEF Advance, Goto

\* An account becomes signed by the write of its JWT.
LEMMA AccountDoneGrows ==
  ASSUME TypeInv, [Next]_vars, NEW a \in Accounts, AccountDone(a)'
  PROVE  AccountDone(a) \/ (WriteAccountJWT /\ resolver'[a] = NewAccountJWT(a))
<1>1. pc' \in {"bundle", "done"}
  BY DEF AccountDone
<1>2. CASE UNCHANGED <<proc, bundle, history>>
  BY <1>2 DEF proc, AccountDone
<1>3. CASE ConsumersMinted /\ Goto("bundle", Accounts, None)
  BY <1>3 DEF Goto, AccountDone
<1>4. CASE /\ WriteAccountJWT
           /\ \E b \in todo :
                resolver'[b] = NewAccountJWT(b) /\ Goto("bundle", todo \ {b}, None)
  BY <1>4 DEF WriteAccountJWT, Goto, AccountDone
<1>5. CASE Finish /\ Goto("done", {}, None)
  BY <1>5 DEF Finish, Goto, AccountDone
<1> QED BY <1>1, <1>2, <1>3, <1>4, <1>5, ControlFlow DEF Advance, Goto

-----------------------------------------------------------------------------
\* One chain of trust

\* Past ensureAccounts a run changes no key that it signs with.
LEMMA SigningKeysStay ==
  ASSUME TypeInv, [Next]_vars, pc \in AfterAccounts, pc' # "idle"
  PROVE  /\ seed'[OperatorKey] = seed[OperatorKey] /\ seed'[OperatorSK] = seed[OperatorSK]
         /\ \A a \in Accounts : /\ seed'[AccountKey(a)] = seed[AccountKey(a)]
                                /\ seed'[AccountSK(a)] = seed[AccountSK(a)]
<1> USE FilesDistinct DEF AfterAccounts, CabinetSteps
<1>1. \A f \in KeyFiles : ~KeyRemover(f)
  BY DEF KeyRemover, DeleteAccountRoot, DeleteCA, DeleteTornSeed, Abort
<1>2. ~KeyMinter(OperatorKey) /\ ~KeyMinter(OperatorSK)
  BY DEF KeyMinter, EnsureOperatorKey, EnsureOperatorSK
<1>3. \A a \in Accounts : ~KeyMinter(AccountKey(a)) /\ ~KeyMinter(AccountSK(a))
  BY DEF KeyMinter, EnsureAccountKey, EnsureAccountSK
<1> QED BY <1>1, <1>2, <1>3, KeyWriters, FileMembers

\* operator.jwt is current from ensureOperator on.
LEMMA OperatorCurrentStep ==
  ASSUME TypeInv, OperatorCurrent, [Next]_vars
  PROVE  OperatorCurrent'
<1> DEFINE early == {"idle", "opkey", "opcap", "opsk", "opjwt"}
<1> SUFFICES ASSUME pc' \notin early PROVE opJWT' = NewOperatorJWT'
  BY DEF OperatorCurrent
<1>1. CASE pc \notin early
  <2>1. opJWT' = opJWT
    BY <1>1, OperatorJWTWriter DEF WriteOperatorJWT
  <2>2. \A f \in {OperatorKey, OperatorSK} : ~KeyMinter(f) /\ ~KeyRemover(f)
    BY <1>1, FilesDistinct
       DEF KeyMinter, EnsureOperatorKey, EnsureOperatorSK, KeyRemover, DeleteTornSeed, Abort
  <2>3. seed'[OperatorKey] = seed[OperatorKey] /\ seed'[OperatorSK] = seed[OperatorSK]
    BY <2>2, KeyWriters, FileMembers
  <2> QED BY <1>1, <2>1, <2>3 DEF OperatorCurrent, NewOperatorJWT
<1>2. CASE pc \in early
  <2>1. Advance
    BY <1>2, ControlFlow DEF proc
  <2>2. WriteOperatorJWT /\ opJWT' = NewOperatorJWT
    BY <1>2, <2>1
       DEF Advance, EnsureOperatorKey, CaptureRetiredOperatorSK, EnsureOperatorSK,
           EnsureAccountKey, CaptureRetiredAccountSK, EnsureAccountSK, AccountsEnsured,
           LoadOrCreateCA, WriteCAKey, BeginCabinet, CaptureRetired, EnsureUserKey, WriteCreds,
           EnsureLeafKey, WriteCert, CabinetsMinted, EnsureConsumerKey, WriteConsumerCreds,
           ConsumersMinted, WriteAccountJWT, Finish, Goto
  <2> QED BY <2>2 DEF WriteOperatorJWT, NewOperatorJWT
<1> QED BY <1>1, <1>2

\* A CA key on disk is the one the CA certificate is for.
LEMMA CAPairStep ==
  ASSUME TypeInv, CAPairMatches, [Next]_vars
  PROVE  CAPairMatches'
<1> USE FileMembers, FilesDistinct
<1> SUFFICES ASSUME seed'[CAKey] \in Nat PROVE caCrt' = seed'[CAKey]
  BY DEF CAPairMatches
<1>0. None \notin Nat /\ Torn \notin Nat
  BY SentinelAssumption
<1>1. CASE seed'[CAKey] = seed[CAKey]
  <2>1. caCrt' = caCrt
    <3>1. ~DeleteCA
      BY <1>0 DEF DeleteCA, TypeInv, TypeOK
    <3> QED BY <1>0, <1>1, <3>1, CACertWriter
  <2> QED BY <1>1, <2>1 DEF CAPairMatches
<1>2. CASE seed'[CAKey] # seed[CAKey]
  <2>1. KeyMinter(CAKey)
    BY <1>0, <1>2, KeyWriters
  <2>2. WriteCAKey /\ seed'[CAKey] = caCrt
    BY <1>0, <2>1 DEF KeyMinter
  <2> QED BY <2>2 DEF WriteCAKey
<1> QED BY <1>1, <1>2

\* The user JWTs a run writes are readable, and name the keys of their account.
LEMMA NewUserJWTReadable ==
  ASSUME TypeInv, pc \in AfterAccounts, NEW h \in Holders, NEW a \in Accounts,
         seed[UserKey(h)] \in Nat
  PROVE  /\ NewUserJWT(h, a) \in UserClaims
         /\ Readable(NewUserJWT(h, a))
<1>1. NewUserJWT(h, a) \in UserClaims
  BY DEF NewUserJWT, UserClaims, TypeInv, TypeOK, KeysHeld
<1> QED BY <1>1, SentinelAssumption DEF Readable

\* What mintCabinets has served stays served: the loop never comes back to a row.
LEMMA CabinetsServedStep ==
  ASSUME TypeInv, CAPairMatches, CabinetsServed, [Next]_vars
  PROVE  CabinetsServed'
<1> USE FileMembers, FilesDistinct DEF TypeInv
<1>1. ASSUME NEW s \in Rows, CredsDone(s)' PROVE s \in Slots /\ SignedFor(s, s[1])'
  <2>1. CASE CredsDone(s)
    <3>1. /\ s \in Slots /\ SignedFor(s, s[1]) /\ s \in Holders
          /\ s \notin DMZConsumers /\ s[1] \in Accounts
      BY <2>1, ConsumerAssumption, DistrictAssumption
         DEF CabinetsServed, Holders, DMZConsumers, Slots
    <3>2. pc \in AfterAccounts /\ pc' # "idle"
      BY <1>1, <2>1 DEF CredsDone, AfterAccounts, CabinetSteps, Closing
    <3>3. seed'[UserKey(s)] = seed[UserKey(s)]
      <4>1. ~KeyMinter(UserKey(s))
        BY <2>1, <3>1 DEF KeyMinter, EnsureUserKey, CredsDone, Closing
      <4>2. ~KeyRemover(UserKey(s))
        BY <3>2 DEF KeyRemover, DeleteTornSeed, Abort
      <4> QED BY <3>1, <4>1, <4>2, KeyWriters
    <3>4. creds'[s] = creds[s]
      BY <2>1, <3>1, CredsWriter DEF WriteCreds, CredsDone, Closing
    <3>5. /\ seed'[AccountSK(s[1])] = seed[AccountSK(s[1])]
          /\ seed'[AccountKey(s[1])] = seed[AccountKey(s[1])]
      BY <3>1, <3>2, SigningKeysStay
    <3> QED BY <3>1, <3>3, <3>4, <3>5 DEF SignedFor, Readable
  <2>2. CASE WriteCreds /\ s = cur /\ cur \in Slots /\ creds'[s] = NewUserJWT(s, s[1])
    <3>1. s \in Holders /\ s[1] \in Accounts
      BY <2>2, DistrictAssumption DEF Holders, Slots
    <3>2. Readable(NewUserJWT(s, s[1]))
      BY <2>2, <3>1, NewUserJWTReadable DEF WriteCreds, AfterAccounts, CabinetSteps, KeysHeld
    <3> QED BY <2>2, <3>2 DEF WriteCreds, NewUserJWT, SignedFor, Readable
  <2> QED BY <1>1, <2>1, <2>2, CredsDoneGrows
<1>2. ASSUME NEW s \in Rows, CertDone(s)'
      PROVE  s \in Slots /\ crt'[s] = [key |-> seed'[LeafKey(s)], ca |-> caCrt']
  <2>1. CASE CertDone(s)
    <3>1. s \in Slots /\ crt[s] = [key |-> seed[LeafKey(s)], ca |-> caCrt]
      BY <2>1 DEF CabinetsServed
    <3>2. pc' # "idle" /\ pc # "inv"
      BY <1>2, <2>1 DEF CertDone, CabinetSteps, Closing
    <3>3. seed'[LeafKey(s)] = seed[LeafKey(s)]
      <4>1. ~KeyMinter(LeafKey(s))
        BY <2>1, <3>1 DEF KeyMinter, EnsureLeafKey, CertDone, CabinetSteps, Closing
      <4>2. ~KeyRemover(LeafKey(s))
        BY <3>2 DEF KeyRemover, DeleteTornSeed, Abort
      <4> QED BY <3>1, <4>1, <4>2, KeyWriters
    <3>4. crt'[s] = crt[s]
      BY <2>1, <3>1, CertWriter DEF WriteCert, CertDone, CabinetSteps, Closing
    <3>5. caCrt' = caCrt
      BY <3>2, CACertWriter DEF LoadOrCreateCA, DeleteCA, Abort
    <3> QED BY <3>1, <3>3, <3>4, <3>5
  <2>2. CASE /\ WriteCert /\ s = cur /\ cur \in Slots
             /\ crt'[s] = [key |-> seed[LeafKey(s)], ca |-> seed[CAKey]]
    <3>1. caCrt = seed[CAKey]
      BY <2>2 DEF WriteCert, KeysHeld, CabinetSteps, CAPairMatches
    <3> QED BY <2>2, <3>1 DEF WriteCert
  <2> QED BY <1>2, <2>1, <2>2, CertDoneGrows
<1> QED BY <1>1, <1>2 DEF CabinetsServed

\* What mintDMZConsumers has served stays served.
LEMMA ConsumersServedStep ==
  ASSUME TypeInv, ConsumersServed, [Next]_vars
  PROVE  ConsumersServed'
<1> USE FileMembers, FilesDistinct DEF TypeInv
<1> SUFFICES ASSUME NEW c \in DMZConsumers, ConsumerDone(c)' PROVE SignedFor(c, DMZ)'
  BY DEF ConsumersServed, DMZConsumers
<1>0. c \in Holders /\ c \notin Slots /\ DMZ \in Accounts
  BY ConsumerAssumption DEF DMZConsumers
<1>1. CASE ConsumerDone(c)
  <2>1. SignedFor(c, DMZ) /\ pc \in AfterAccounts /\ pc' # "idle"
    BY <1>1 DEF ConsumersServed, ConsumerDone, AfterAccounts
  <2>2. seed'[UserKey(c)] = seed[UserKey(c)]
    <3>1. ~KeyMinter(UserKey(c))
      BY <1>0, <1>1 DEF KeyMinter, EnsureConsumerKey, ConsumerDone
    <3>2. ~KeyRemover(UserKey(c))
      BY <2>1 DEF KeyRemover, DeleteTornSeed, Abort
    <3> QED BY <1>0, <3>1, <3>2, KeyWriters
  <2>3. creds'[c] = creds[c]
    BY <1>0, <1>1, CredsWriter DEF WriteConsumerCreds, ConsumerDone
  <2>4. /\ seed'[AccountSK(DMZ)] = seed[AccountSK(DMZ)]
        /\ seed'[AccountKey(DMZ)] = seed[AccountKey(DMZ)]
    BY <1>0, <2>1, SigningKeysStay
  <2> QED BY <2>1, <2>2, <2>3, <2>4 DEF SignedFor, Readable
<1>2. CASE WriteConsumerCreds /\ c = cur /\ creds'[c] = NewUserJWT(c, DMZ)
  <2>1. Readable(NewUserJWT(c, DMZ))
    BY <1>0, <1>2, NewUserJWTReadable DEF WriteConsumerCreds, AfterAccounts, KeysHeld
  <2> QED BY <1>2, <2>1 DEF WriteConsumerCreds, NewUserJWT, SignedFor, Readable
<1> QED BY <1>1, <1>2, ConsumerDoneGrows

\* What writeResolverBundle has signed is signed with the keys on disk.
LEMMA AccountsSignedStep ==
  ASSUME TypeInv, TypeInv', AccountsSigned, [Next]_vars
  PROVE  AccountsSigned'
<1> USE FileMembers, FilesDistinct DEF TypeInv
<1> SUFFICES ASSUME NEW a \in Accounts, AccountDone(a)'
             PROVE  /\ Readable(resolver'[a])
                    /\ resolver'[a].iss = seed'[OperatorSK]
                    /\ resolver'[a].sub = seed'[AccountKey(a)]
                    /\ resolver'[a].sk = seed'[AccountSK(a)]
  BY DEF AccountsSigned, Readable
<1>1. CASE AccountDone(a)
  <2>1. pc \in AfterAccounts /\ pc' # "idle"
    BY <1>1 DEF AccountDone, AfterAccounts
  <2>2. resolver'[a] = resolver[a]
    BY <1>1, <2>1, AccountJWTWriter DEF WriteAccountJWT, DeleteAccountRoot, AccountDone, Abort
  <2>3. /\ seed'[OperatorSK] = seed[OperatorSK]
        /\ seed'[AccountKey(a)] = seed[AccountKey(a)]
        /\ seed'[AccountSK(a)] = seed[AccountSK(a)]
    BY <2>1, SigningKeysStay
  <2> QED BY <1>1, <2>2, <2>3 DEF AccountsSigned
<1>2. CASE WriteAccountJWT /\ resolver'[a] = NewAccountJWT(a)
  <2>1. seed' = seed
    BY <1>2 DEF WriteAccountJWT
  <2>2. NewAccountJWT(a) \in AccountClaims
    BY <1>2 DEF WriteAccountJWT, NewAccountJWT, AccountClaims, KeysHeld, AfterAccounts,
                RevocationsFor, Parsed, LogsTyped
  <2>3. Readable(resolver'[a])
    BY <1>2, <2>2, SentinelAssumption DEF Readable
  <2> QED BY <1>2, <2>1, <2>3 DEF NewAccountJWT
<1> QED BY <1>1, <1>2, AccountDoneGrows

\* At every step of a run, what it has written so far hangs together.
THEOREM ChainInvariant == Spec => []ChainInv
<1>1. Init => ChainInv
  BY FileMembers, SentinelAssumption
     DEF Init, ChainInv, OperatorCurrent, CAPairMatches, CabinetsServed, ConsumersServed,
         AccountsSigned, CredsDone, CertDone, ConsumerDone, AccountDone, Closing, CabinetSteps
<1>2. TypeInv /\ TypeInv' /\ ChainInv /\ [Next]_vars => ChainInv'
  BY OperatorCurrentStep, CAPairStep, CabinetsServedStep, ConsumersServedStep,
     AccountsSignedStep DEF ChainInv
<1> QED BY <1>1, <1>2, TypeCorrect, PTL DEF Spec

\* A successful run leaves one chain of trust from the operator JWT to the .creds and
\* certificates of the inventory, whatever earlier runs, crashes, rotations and deletions
\* left behind (issuance.go IssueWithRotation).
THEOREM OneChainOfTrust == Spec => []TrustChain
<1>1. TypeInv /\ ChainInv => TrustChain
  <2> SUFFICES ASSUME TypeInv, ChainInv, pc = "done" PROVE TrustChain
    BY DEF TrustChain
  <2> USE DEF TypeInv, ChainInv
  <2>1. opJWT = [sub |-> seed[OperatorKey], sk |-> seed[OperatorSK]]
    BY DEF OperatorCurrent, NewOperatorJWT
  <2>2. \A a \in Accounts :
          /\ Readable(resolver[a])
          /\ resolver[a].iss = opJWT.sk
          /\ resolver[a].sub = seed[AccountKey(a)]
          /\ resolver[a].sk = seed[AccountSK(a)]
    BY <2>1 DEF AccountsSigned, AccountDone
  <2>3. ASSUME NEW c \in DMZConsumers PROVE UserChain(c, DMZ)
    <3>1. SignedFor(c, DMZ) /\ DMZ \in Accounts
      BY <2>3 DEF ConsumersServed, ConsumerDone, DMZConsumers
    <3> QED BY <2>2, <3>1 DEF SignedFor, UserChain
  <2>4. ASSUME job.inv # None, NEW s \in job.inv
        PROVE  UserChain(s, s[1]) /\ crt[s] = [key |-> seed[LeafKey(s)], ca |-> caCrt]
    <3>1. s \in Rows
      BY <2>4, JobAssumption DEF Focus, JobType
    <3>2. /\ s \in Slots /\ SignedFor(s, s[1])
          /\ crt[s] = [key |-> seed[LeafKey(s)], ca |-> caCrt]
      BY <2>4, <3>1 DEF CabinetsServed, CredsDone, CertDone, Closing
    <3>3. s[1] \in Accounts
      BY <3>2, DistrictAssumption DEF Slots
    <3> QED BY <2>2, <3>2, <3>3 DEF SignedFor, UserChain
  <2> QED BY <2>1, <2>2, <2>3, <2>4 DEF TrustChain
<1> QED BY <1>1, TypeCorrect, ChainInvariant, PTL

-----------------------------------------------------------------------------
\* What a run has just issued outlives what it has revoked

\* A step adds at most one record to retired.jsonl, that of the cabinet being captured.
LEMMA CabinetLogGrowth ==
  ASSUME TypeInv, [Next]_vars
  PROVE  \/ Parsed("cabinet")' = Parsed("cabinet")
         \/ /\ CaptureRetired /\ cur \in Slots
            /\ Parsed("cabinet")' \subseteq Parsed("cabinet") \cup {RetiredRecord(cur)}
<1> USE DEF TypeInv
<1>1. CASE UNCHANGED <<log, tail, glued>>
  BY <1>1 DEF Parsed
<1>2. CASE LogWriter("operator-sk")
  BY <1>2, RecordTypes, AppendGrows DEF LogWriter, LogFiles
<1>3. CASE LogWriter("account-sk")
  <2> DEFINE r == [acct |-> cur, sk |-> resolver[cur].sk]
  <2>1. r \in LogRecord /\ AppendRecord("account-sk", r, "acctsk", todo, cur)
    BY <1>3, RecordTypes DEF LogWriter
  <2> HIDE DEF r
  <2> QED BY <2>1, AppendGrows DEF LogFiles
<1>4. CASE LogWriter("cabinet")
  BY <1>4, RecordTypes, AppendGrows DEF LogWriter, LogFiles
<1> QED BY <1>1, <1>2, <1>3, <1>4, LogWriters DEF LogFiles

\* The clock only moves forward.
LEMMA ClockForward ==
  ASSUME TypeInv, [Next]_vars
  PROVE  now' >= now /\ now' \in Nat
<1>1. now' = now \/ now' = now + 1
  BY DEF Next, RunStep, Start, EnsureOperatorKey, CaptureRetiredOperatorSK, EnsureOperatorSK,
         WriteOperatorJWT, EnsureAccountKey, CaptureRetiredAccountSK, EnsureAccountSK,
         AccountsEnsured, LoadOrCreateCA, WriteCAKey, BeginCabinet, CaptureRetired,
         EnsureUserKey, WriteCreds, EnsureLeafKey, WriteCert, CabinetsMinted,
         EnsureConsumerKey, WriteConsumerCreds, ConsumersMinted, WriteAccountJWT, Finish,
         Refuse, Crash, DeleteAccountRoot, DeleteCA, DeleteTornSeed, Tick, vars
<1> QED BY <1>1 DEF TypeInv, TypeOK

\* Records are stamped with the time of their capture, and a served row is not captured
\* again in the run that served it.
LEMMA RecordsPastStep ==
  ASSUME TypeInv, TypeInv', ChainInv, RecordsPast, [Next]_vars
  PROVE  RecordsPast'
<1> USE DEF TypeInv
<1>0. Parsed("cabinet") \subseteq Retirement /\ Parsed("cabinet")' \subseteq Retirement
  BY DEF LogsTyped, Parsed
<1>1. ASSUME NEW r \in Parsed("cabinet")' PROVE r.at <= now'
  <2>1. CASE r \in Parsed("cabinet")
    BY <1>0, <2>1, ClockForward DEF RecordsPast, TypeOK, Retirement
  <2>2. CASE r = RetiredRecord(cur)
    BY <2>2, ClockForward DEF RetiredRecord, TypeOK
  <2> QED BY <1>1, <2>1, <2>2, CabinetLogGrowth
<1>2. ASSUME NEW s \in Rows, CredsDone(s)', NEW r \in Parsed("cabinet")', r.slot = s
      PROVE  r.at <= creds'[s].iat
  <2>1. CASE CredsDone(s)
    <3>1. s \in Holders /\ s \notin DMZConsumers
      BY <2>1, ConsumerAssumption DEF ChainInv, CabinetsServed, Holders, DMZConsumers
    <3>2. creds'[s] = creds[s]
      BY <2>1, <3>1, CredsWriter DEF WriteCreds, CredsDone, Closing
    <3>3. r \in Parsed("cabinet")
      <4>1. CaptureRetired => s # cur
        BY <2>1 DEF CaptureRetired, CredsDone, Closing
      <4> QED BY <1>2, <4>1, CabinetLogGrowth DEF RetiredRecord
    <3> QED BY <1>2, <2>1, <3>2, <3>3 DEF RecordsPast
  <2>2. CASE WriteCreds /\ creds'[s] = NewUserJWT(s, s[1])
    <3>1. r \in Parsed("cabinet")
      BY <1>2, <2>2 DEF WriteCreds, Parsed
    <3> QED BY <2>2, <3>1 DEF RecordsPast, NewUserJWT
  <2> QED BY <1>2, <2>1, <2>2, CredsDoneGrows
<1> QED BY <1>1, <1>2 DEF RecordsPast

\* Time, in every reachable state.
THEOREM RecordsInvariant == Spec => []RecordsPast
<1>1. Init => RecordsPast
  BY DEF Init, RecordsPast, Parsed, LogFiles, CredsDone, Closing
<1> QED BY <1>1, TypeCorrect, ChainInvariant, RecordsPastStep, PTL DEF Spec

\* No revocation that a successful run publishes for the current key of a cabinet of the
\* inventory is newer than that cabinet's .creds (issuance.go mintCabinet, captureRetired,
\* writeResolverBundle).  It may be of the same second, and the server then rejects the new
\* JWT: that is the one case left, a rotation that dies after its record and a run that
\* issues anew within the second of that record.
THEOREM IssuedOutlivesRevoked == Spec => []ServedCredsOutliveRevocation
<1>1. TypeInv /\ ChainInv /\ RevocationInv /\ RecordsPast => ServedCredsOutliveRevocation
  <2> SUFFICES ASSUME TypeInv, ChainInv, RevocationInv, RecordsPast,
                      pc = "done", job.inv # None, NEW s \in job.inv,
                      NEW r \in resolver[s[1]].revs, r.slot = s
               PROVE  r.at <= creds[s].iat
    BY DEF ServedCredsOutliveRevocation
  <2>1. s \in Rows /\ CredsDone(s)
    BY JobAssumption DEF TypeInv, Focus, JobType, CredsDone, Closing
  <2>2. s[1] \in Accounts
    BY <2>1, DistrictAssumption DEF ChainInv, CabinetsServed, Slots
  <2>3. r \in Parsed("cabinet")
    BY <2>2 DEF RevocationInv, BundleCurrent, RevocationsFor
  <2> QED BY <2>1, <2>3 DEF RecordsPast
<1> QED BY <1>1, TypeCorrect, ChainInvariant, RevocationInvariant, RecordsInvariant, PTL

-----------------------------------------------------------------------------
\* Repairs

\* The invocations an operator repairs with: the whole fleet, and some set of -rotate flags.
RepairJobs ==
  [inv : {Fleet}, rot : SUBSET {s[2] : s \in Fleet}, rotOp : BOOLEAN, rotAcct : SUBSET Accounts]

\* Where these are among the invocations considered, an operator who follows the error
\* messages does nothing that Issuance does not account for: everything proved of Spec holds
\* through any chain of faults, repairs, wishes and impatient retries.
THEOREM RepairsAreRuns == RepairJobs \subseteq Jobs => (RecoverySpec => Spec)
<1> SUFFICES ASSUME RepairJobs \subseteq Jobs PROVE RecoverySpec => Spec
  OBVIOUS
<1>1. RInit => Init
  BY DEF RInit
<1>2. [RNext]_rvars => [Next]_vars
  <2>1. RepairJob \in Jobs
    <3> DEFINE b == seed[OperatorSK] = Torn
               A == {a \in Accounts : seed[AccountSK(a)] = Torn}
    <3>1. TornCabinets \in SUBSET {s[2] : s \in Fleet} /\ b \in BOOLEAN /\ A \in SUBSET Accounts
      BY DEF TornCabinets
    <3>2. RepairJob = [inv |-> Fleet, rot |-> TornCabinets, rotOp |-> b, rotAcct |-> A]
      BY DEF RepairJob
    <3> HIDE DEF b, A
    <3>3. RepairJob \in RepairJobs
      BY <3>1, <3>2 DEF RepairJobs
    <3> QED BY <3>3
  <2>2. RunOrFault => Next
    BY DEF RunOrFault, Next
  <2>3. Repair => Next
    BY <2>1 DEF Repair, Next, BrokenRoots
  <2>4. Wish => Next
    BY <2>1 DEF Wish, Next
  <2>5. Rest \/ UNCHANGED rvars => UNCHANGED vars
    BY DEF Rest, rvars
  <2> QED BY <2>2, <2>3, <2>4, <2>5 DEF RNext
<1> QED BY <1>1, <1>2, PTL DEF RecoverySpec, Spec

\* So a repaired bundle, too, hangs together and has everything rotated out revoked
\* (issuance.go IssueWithRotation after the operator's repairs).
THEOREM RepairsKeepTheChain ==
  RepairJobs \subseteq Jobs => (RecoverySpec => [](TrustChain /\ RetiredAreRevoked))
BY RepairsAreRuns, OneChainOfTrust, RotationIsRevocation, PTL

=============================================================================
