--------------------------- MODULE IssuanceProofs ---------------------------
(***************************************************************************)
(* Machine-checked proofs about Issuance, for every set of districts,      *)
(* accounts, cabinets, consumers and jobs and every value of the bounds.   *)
(***************************************************************************)
EXTENDS IssuanceInvariants, TLAPS

\* Each key file of the bundle is one of KeyFiles (the paths ensureKeypair and
\* ensureLeafKey are called with).
LEMMA FileMembers ==
  /\ OperatorKey \in KeyFiles /\ OperatorSK \in KeyFiles /\ CAKey \in KeyFiles
  /\ \A a \in Accounts : AccountKey(a) \in KeyFiles /\ AccountSK(a) \in KeyFiles
  /\ \A h \in Holders : UserKey(h) \in KeyFiles
  /\ \A s \in Slots : UserKey(s) \in KeyFiles /\ LeafKey(s) \in KeyFiles
  /\ \A c \in DMZConsumers : UserKey(c) \in KeyFiles /\ c \in Holders
BY DEF KeyFiles, Holders, DMZConsumers

\* No two owners share a key file: writing one key leaves every other alone.
LEMMA FilesDistinct ==
  /\ OperatorKey # OperatorSK /\ OperatorKey # CAKey /\ OperatorSK # CAKey
  /\ \A a : /\ AccountKey(a) \notin {OperatorKey, OperatorSK, CAKey}
            /\ AccountSK(a) \notin {OperatorKey, OperatorSK, CAKey}
            /\ UserKey(a) \notin {OperatorKey, OperatorSK, CAKey}
            /\ LeafKey(a) \notin {OperatorKey, OperatorSK, CAKey}
  /\ \A a, b : /\ AccountKey(a) # AccountSK(b)
               /\ AccountKey(a) # UserKey(b) /\ AccountKey(a) # LeafKey(b)
               /\ AccountSK(a) # UserKey(b) /\ AccountSK(a) # LeafKey(b)
               /\ UserKey(a) # LeafKey(b)
               /\ AccountKey(a) = AccountKey(b) => a = b
               /\ AccountSK(a) = AccountSK(b) => a = b
               /\ UserKey(a) = UserKey(b) => a = b
               /\ LeafKey(a) = LeafKey(b) => a = b
BY DEF OperatorKey, OperatorSK, CAKey, AccountKey, AccountSK, UserKey, LeafKey

\* ensureKeypair / ensureLeafKey either go on with a readable key in the file, or end
\* the run; no other key file changes.
LEMMA EnsureKeyOutcome ==
  ASSUME TypeOK, NEW f \in KeyFiles, NEW force, NEW n, NEW t, NEW c,
         EnsureKey(f, force, n, t, c)
  PROVE  /\ seed' \in [KeyFiles -> Nat \cup {None, Torn}]
         /\ gen' \in [KeyFiles -> Nat]
         /\ \A g \in KeyFiles : g # f => seed'[g] = seed[g]
         /\ \/ Goto(n, t, c) /\ seed'[f] \in Nat
            \/ Abort
<1> USE DEF TypeOK
<1>1. CASE ~MustMint(f, force) /\ seed[f] # Torn /\ Goto(n, t, c) /\ UNCHANGED <<seed, gen>>
  <2>1. seed[f] \in Nat
    BY <1>1 DEF MustMint
  <2> QED BY <1>1, <2>1
<1>2. CASE /\ seed' = [seed EXCEPT ![f] = gen[f] + 1]
           /\ gen' = [gen EXCEPT ![f] = gen[f] + 1]
           /\ Goto(n, t, c)
  BY <1>2
<1>3. CASE seed' = [seed EXCEPT ![f] = Torn] /\ UNCHANGED gen /\ Abort
  BY <1>3
<1> QED BY <1>1, <1>2, <1>3 DEF EnsureKey

\* appendJSONLine adds the record to a log that ends in a newline, runs it into an
\* unterminated line otherwise, or ends the run; the other logs do not change.
LEMMA AppendOutcome ==
  ASSUME TypeOK, NEW f \in LogFiles, NEW r \in LogRecord, NEW n, NEW t, NEW c,
         AppendRecord(f, r, n, t, c)
  PROVE  /\ log' \in [LogFiles -> SUBSET LogRecord]
         /\ tail' \in [LogFiles -> LogRecord \cup {None, Torn}]
         /\ glued' \in [LogFiles -> BOOLEAN]
         /\ \A g \in LogFiles : g # f =>
              log'[g] = log[g] /\ tail'[g] = tail[g] /\ glued'[g] = glued[g]
         /\ log'[f] \subseteq log[f] \cup {r}
         /\ tail'[f] \in {None, Torn, r}
         /\ glued'[f] = (glued[f] \/ tail[f] # None)
         /\ log[f] \subseteq log'[f]
         /\ \/ /\ Goto(n, t, c)
               /\ tail[f] = None => log'[f] = log[f] \cup {r}
            \/ Abort
<1> USE DEF TypeOK
<1>0. /\ glued' \in [LogFiles -> BOOLEAN]
      /\ \A g \in LogFiles : g # f => glued'[g] = glued[g]
      /\ glued'[f] = (glued[f] \/ tail[f] # None)
  BY Zenon DEF AppendRecord
<1>1. CASE /\ log' = [log EXCEPT ![f] = IF tail[f] = None THEN @ \cup {r} ELSE @]
           /\ tail' = [tail EXCEPT ![f] = None]
           /\ Goto(n, t, c)
  <2>1. log[f] \cup {r} \in SUBSET LogRecord
    OBVIOUS
  <2>2. /\ log' \in [LogFiles -> SUBSET LogRecord]
        /\ tail' \in [LogFiles -> LogRecord \cup {None, Torn}]
    BY <1>1, <2>1
  <2> QED BY <1>0, <1>1, <2>1, <2>2
<1>2. CASE /\ \E left \in IF tail[f] = None THEN {Torn, r} ELSE {Torn} :
                tail' = [tail EXCEPT ![f] = left]
           /\ UNCHANGED log
           /\ Abort
  BY <1>0, <1>2
<1> QED BY <1>1, <1>2 DEF AppendRecord

\* An early end of a run leaves nothing to hold: the disk's types are all that remains.
LEMMA AbortKeepsFocus ==
  ASSUME Abort
  PROVE  /\ Focus' /\ KeysHeld'
         /\ pc' \in Steps
         /\ job' \in Jobs \cup {None}
         /\ todo' \subseteq Accounts \cup Rows \cup Consumers
         /\ cur' \in Accounts \cup Holders \cup {None}
BY DEF Abort, Focus, KeysHeld, Steps, Resting, AccountSteps, CabinetSteps, AfterAccounts

-----------------------------------------------------------------------------
\* Type correctness, step by step

\* A step that only moves the run on, or ends it, keeps every file's type.
LEMMA RestType ==
  ASSUME TypeOK, UNCHANGED <<now, bundle, history>>,
         pc' \in Steps, job' \in Jobs \cup {None},
         todo' \subseteq Accounts \cup Rows \cup Consumers,
         cur' \in Accounts \cup Holders \cup {None}
  PROVE  TypeOK'
BY DEF TypeOK, bundle, history

\* Ending a run early keeps the invariant when the files kept theirs.
LEMMA AbortType ==
  ASSUME TypeInv, Abort, UNCHANGED <<now, bundle, history>>
  PROVE  TypeInv'
BY AbortKeepsFocus, RestType DEF TypeInv, LogsTyped, bundle

\* A run starts with nothing in hand (IssueWithRotation's argument checks).
LEMMA StartType ==
  ASSUME TypeInv, NEW j \in Jobs, Start(j)
  PROVE  TypeInv'
<1> USE DEF TypeInv, Start
<1>1. TypeOK'
  BY RestType DEF Steps
<1>2. Focus' /\ KeysHeld'
  BY DEF Focus, KeysHeld, AccountSteps, CabinetSteps, AfterAccounts
<1> QED BY <1>1, <1>2 DEF LogsTyped, bundle

\* ensureOperator's four steps: the operator JWT is built from two readable keys.
LEMMA OperatorStepsType ==
  ASSUME TypeInv,
         \/ EnsureOperatorKey \/ CaptureRetiredOperatorSK
         \/ EnsureOperatorSK \/ WriteOperatorJWT
  PROVE  TypeInv'
<1> USE FileMembers, FilesDistinct DEF TypeInv
<1>1. CASE EnsureOperatorKey
  <2> DEFINE n == IF job.rotOp THEN "opcap" ELSE "opsk"
  <2>1. EnsureKey(OperatorKey, FALSE, n, {}, None)
    BY <1>1 DEF EnsureOperatorKey
  <2>2. PICK m \in {"opcap", "opsk"} : EnsureKey(OperatorKey, FALSE, m, {}, None)
    BY <2>1
  <2>3. /\ seed' \in [KeyFiles -> Nat \cup {None, Torn}]
        /\ gen' \in [KeyFiles -> Nat]
        /\ \/ Goto(m, {}, None) /\ seed'[OperatorKey] \in Nat
           \/ Abort
    BY <2>2, EnsureKeyOutcome
  <2>4. CASE Abort
    BY <1>1, <2>3, <2>4, AbortKeepsFocus DEF EnsureOperatorKey, TypeOK, LogsTyped
  <2>5. CASE Goto(m, {}, None) /\ seed'[OperatorKey] \in Nat
    <3>1. TypeOK' /\ LogsTyped'
      BY <1>1, <2>3, <2>5 DEF EnsureOperatorKey, Goto, TypeOK, LogsTyped, Steps
    <3>2. Focus' /\ KeysHeld'
      BY <1>1, <2>5 DEF EnsureOperatorKey, Goto, Focus, KeysHeld,
                        AccountSteps, CabinetSteps, AfterAccounts
    <3> QED BY <3>1, <3>2
  <2> QED BY <2>3, <2>4, <2>5
<1>2. CASE CaptureRetiredOperatorSK
  <2>1. /\ log' \in [LogFiles -> SUBSET LogRecord]
        /\ tail' \in [LogFiles -> LogRecord \cup {None, Torn}]
        /\ glued' \in [LogFiles -> BOOLEAN]
        /\ log'["cabinet"] = log["cabinet"] /\ tail'["cabinet"] = tail["cabinet"]
        /\ Goto("opsk", {}, None) \/ Abort
    <3>1. CASE Readable(opJWT) /\ AppendRecord("operator-sk", [sk |-> opJWT.sk], "opsk", {}, None)
      <4>1. [sk |-> opJWT.sk] \in LogRecord
        BY <3>1 DEF Readable, TypeOK, OperatorClaims, LogRecord, RetiredOperatorSK
      <4> QED BY <3>1, <4>1, AppendOutcome DEF LogFiles
    <3>2. CASE Goto("opsk", {}, None) /\ UNCHANGED <<log, tail, glued>>
      BY <3>2 DEF TypeOK
    <3> QED BY <1>2, <3>1, <3>2 DEF CaptureRetiredOperatorSK
  <2>2. CASE Abort
    BY <1>2, <2>1, <2>2, AbortKeepsFocus DEF CaptureRetiredOperatorSK, TypeOK, LogsTyped
  <2>3. CASE Goto("opsk", {}, None)
    <3>1. TypeOK' /\ LogsTyped'
      BY <1>2, <2>1, <2>3 DEF CaptureRetiredOperatorSK, Goto, TypeOK, LogsTyped, Steps
    <3>2. Focus' /\ KeysHeld'
      BY <1>2, <2>3 DEF CaptureRetiredOperatorSK, Goto, Focus, KeysHeld,
                        AccountSteps, CabinetSteps, AfterAccounts
    <3> QED BY <3>1, <3>2
  <2> QED BY <2>1, <2>2, <2>3
<1>3. CASE EnsureOperatorSK
  <2>1. /\ seed' \in [KeyFiles -> Nat \cup {None, Torn}]
        /\ gen' \in [KeyFiles -> Nat]
        /\ seed'[OperatorKey] = seed[OperatorKey]
        /\ \/ Goto("opjwt", {}, None) /\ seed'[OperatorSK] \in Nat
           \/ Abort
    BY <1>3, EnsureKeyOutcome DEF EnsureOperatorSK
  <2>2. CASE Abort
    BY <1>3, <2>1, <2>2, AbortKeepsFocus DEF EnsureOperatorSK, TypeOK, LogsTyped
  <2>3. CASE Goto("opjwt", {}, None) /\ seed'[OperatorSK] \in Nat
    <3>1. TypeOK' /\ LogsTyped'
      BY <1>3, <2>1, <2>3 DEF EnsureOperatorSK, Goto, TypeOK, LogsTyped, Steps
    <3>2. Focus' /\ KeysHeld'
      BY <1>3, <2>1, <2>3 DEF EnsureOperatorSK, Goto, Focus, KeysHeld,
                              AccountSteps, CabinetSteps, AfterAccounts
    <3> QED BY <3>1, <3>2
  <2> QED BY <2>1, <2>2, <2>3
<1>4. CASE WriteOperatorJWT
  <2>1. NewOperatorJWT \in OperatorClaims
    BY <1>4 DEF WriteOperatorJWT, NewOperatorJWT, KeysHeld, OperatorClaims
  <2>2. CASE opJWT' = Torn /\ Abort
    BY <1>4, <2>2, AbortKeepsFocus DEF WriteOperatorJWT, TypeOK, LogsTyped, history
  <2>3. CASE opJWT' = NewOperatorJWT /\ Goto("acct", Accounts, None)
    <3>1. TypeOK' /\ LogsTyped'
      BY <1>4, <2>1, <2>3 DEF WriteOperatorJWT, Goto, TypeOK, LogsTyped, Steps, history
    <3>2. Focus' /\ KeysHeld'
      BY <1>4, <2>3 DEF WriteOperatorJWT, Goto, Focus, KeysHeld,
                        AccountSteps, CabinetSteps, AfterAccounts
    <3> QED BY <3>1, <3>2
  <2> QED BY <1>4, <2>2, <2>3 DEF WriteOperatorJWT
<1> QED BY <1>1, <1>2, <1>3, <1>4

\* ensureAccounts: after an account's two steps both of its keys are readable.
LEMMA AccountStepsType ==
  ASSUME TypeInv,
         \/ EnsureAccountKey \/ CaptureRetiredAccountSK
         \/ EnsureAccountSK \/ AccountsEnsured
  PROVE  TypeInv'
<1> USE FileMembers, FilesDistinct DEF TypeInv
<1>1. CASE EnsureAccountKey
  <2>1. PICK a \in todo, m \in {"acctcap", "acctsk"} :
          EnsureKey(AccountKey(a), FALSE, m, todo \ {a}, a)
    BY <1>1 DEF EnsureAccountKey
  <2>2. a \in Accounts
    BY <1>1 DEF EnsureAccountKey, Focus
  <2>3. /\ seed' \in [KeyFiles -> Nat \cup {None, Torn}]
        /\ gen' \in [KeyFiles -> Nat]
        /\ \A g \in KeyFiles : g # AccountKey(a) => seed'[g] = seed[g]
        /\ \/ Goto(m, todo \ {a}, a) /\ seed'[AccountKey(a)] \in Nat
           \/ Abort
    BY <2>1, <2>2, EnsureKeyOutcome
  <2>4. CASE Abort
    BY <1>1, <2>3, <2>4, AbortKeepsFocus DEF EnsureAccountKey, TypeOK, LogsTyped
  <2>5. CASE Goto(m, todo \ {a}, a) /\ seed'[AccountKey(a)] \in Nat
    <3>1. TypeOK' /\ LogsTyped'
      BY <1>1, <2>2, <2>3, <2>5 DEF EnsureAccountKey, Goto, TypeOK, LogsTyped, Steps
    <3>2. Focus' /\ KeysHeld'
      BY <1>1, <2>2, <2>3, <2>5 DEF EnsureAccountKey, Goto, Focus, KeysHeld,
                                    AccountSteps, CabinetSteps, AfterAccounts
    <3> QED BY <3>1, <3>2
  <2> QED BY <2>3, <2>4, <2>5
<1>2. CASE CaptureRetiredAccountSK
  <2>0. cur \in Accounts
    BY <1>2 DEF CaptureRetiredAccountSK, Focus, AccountSteps
  <2>1. /\ log' \in [LogFiles -> SUBSET LogRecord]
        /\ tail' \in [LogFiles -> LogRecord \cup {None, Torn}]
        /\ glued' \in [LogFiles -> BOOLEAN]
        /\ log'["cabinet"] = log["cabinet"] /\ tail'["cabinet"] = tail["cabinet"]
        /\ Goto("acctsk", todo, cur) \/ Abort
    <3> DEFINE r == [acct |-> cur, sk |-> resolver[cur].sk]
    <3>1. CASE Readable(resolver[cur]) /\ AppendRecord("account-sk", r, "acctsk", todo, cur)
      <4>1. r \in LogRecord
        BY <2>0, <3>1 DEF Readable, TypeOK, AccountClaims, LogRecord, RetiredSK
      <4> HIDE DEF r
      <4> QED BY <3>1, <4>1, AppendOutcome DEF LogFiles
    <3>2. CASE Goto("acctsk", todo, cur) /\ UNCHANGED <<log, tail, glued>>
      BY <3>2 DEF TypeOK
    <3> QED BY <1>2, <3>1, <3>2 DEF CaptureRetiredAccountSK
  <2>2. CASE Abort
    BY <1>2, <2>1, <2>2, AbortKeepsFocus DEF CaptureRetiredAccountSK, TypeOK, LogsTyped
  <2>3. CASE Goto("acctsk", todo, cur)
    <3>1. TypeOK' /\ LogsTyped'
      BY <1>2, <2>1, <2>3 DEF CaptureRetiredAccountSK, Goto, TypeOK, LogsTyped, Steps
    <3>2. Focus' /\ KeysHeld'
      BY <1>2, <2>3 DEF CaptureRetiredAccountSK, Goto, Focus, KeysHeld,
                        AccountSteps, CabinetSteps, AfterAccounts
    <3> QED BY <3>1, <3>2
  <2> QED BY <2>1, <2>2, <2>3
<1>3. CASE EnsureAccountSK
  <2>0. cur \in Accounts
    BY <1>3 DEF EnsureAccountSK, Focus, AccountSteps
  <2>1. /\ seed' \in [KeyFiles -> Nat \cup {None, Torn}]
        /\ gen' \in [KeyFiles -> Nat]
        /\ \A g \in KeyFiles : g # AccountSK(cur) => seed'[g] = seed[g]
        /\ \/ Goto("acct", todo, None) /\ seed'[AccountSK(cur)] \in Nat
           \/ Abort
    BY <1>3, <2>0, EnsureKeyOutcome DEF EnsureAccountSK
  <2>2. CASE Abort
    BY <1>3, <2>1, <2>2, AbortKeepsFocus DEF EnsureAccountSK, TypeOK, LogsTyped
  <2>3. CASE Goto("acct", todo, None) /\ seed'[AccountSK(cur)] \in Nat
    <3>1. TypeOK' /\ LogsTyped'
      BY <1>3, <2>1, <2>3 DEF EnsureAccountSK, Goto, TypeOK, LogsTyped, Steps
    <3>2. Focus' /\ KeysHeld'
      BY <1>3, <2>0, <2>1, <2>3 DEF EnsureAccountSK, Goto, Focus, KeysHeld,
                                    AccountSteps, CabinetSteps, AfterAccounts
    <3> QED BY <3>1, <3>2
  <2> QED BY <2>1, <2>2, <2>3
<1>4. CASE AccountsEnsured
  <2>1. /\ job \in Jobs
        /\ \/ job.inv = None /\ Goto("dmz", DMZConsumers, None)
           \/ job.inv # None /\ Goto("inv", {}, None)
    BY <1>4 DEF AccountsEnsured, Focus
  <2>2. job.inv # None => job.inv \in SUBSET Rows
    BY <2>1, JobAssumption DEF JobType
  <2>3. TypeOK' /\ LogsTyped'
    BY <1>4, <2>1 DEF AccountsEnsured, Goto, TypeOK, LogsTyped, Steps, bundle, history,
                      DMZConsumers
  <2>4. Focus' /\ KeysHeld'
    BY <1>4, <2>1, <2>2 DEF AccountsEnsured, Goto, Focus, KeysHeld, bundle,
                            AccountSteps, CabinetSteps, AfterAccounts
  <2> QED BY <2>3, <2>4
<1> QED BY <1>1, <1>2, <1>3, <1>4

\* LoadOrCreateCA: past it, the CA key is readable.
LEMMA CAStepsType ==
  ASSUME TypeInv, LoadOrCreateCA \/ WriteCAKey
  PROVE  TypeInv'
<1> USE FileMembers, FilesDistinct DEF TypeInv
<1>1. CASE LoadOrCreateCA
  <2>0. job.inv \in SUBSET Rows
    BY <1>1 DEF LoadOrCreateCA, Focus
  <2>1. CASE Readable(caCrt) /\ Readable(seed[CAKey]) /\ Goto("cabinet", job.inv, None)
             /\ UNCHANGED <<caCrt, gen>>
    <3>1. TypeOK' /\ LogsTyped'
      BY <1>1, <2>0, <2>1 DEF LoadOrCreateCA, Goto, TypeOK, LogsTyped, Steps
    <3>2. seed[CAKey] \in Nat
      BY <2>1 DEF TypeOK, Readable
    <3>3. Focus' /\ KeysHeld'
      BY <1>1, <2>0, <2>1, <3>2 DEF LoadOrCreateCA, Goto, Focus, KeysHeld,
                                    AccountSteps, CabinetSteps, AfterAccounts
    <3> QED BY <3>1, <3>3
  <2>2. CASE /\ caCrt' = gen[CAKey] + 1
             /\ gen' = [gen EXCEPT ![CAKey] = gen[CAKey] + 1]
             /\ Goto("cakey", {}, None)
    <3>1. TypeOK' /\ LogsTyped' /\ caCrt' \in Nat
      BY <1>1, <2>2 DEF LoadOrCreateCA, Goto, TypeOK, LogsTyped, Steps
    <3>2. Focus' /\ KeysHeld'
      BY <1>1, <2>0, <2>2, <3>1 DEF LoadOrCreateCA, Goto, Focus, KeysHeld,
                                    AccountSteps, CabinetSteps, AfterAccounts
    <3> QED BY <3>1, <3>2
  <2>3. CASE caCrt' = Torn /\ UNCHANGED gen /\ Abort
    BY <1>1, <2>3, AbortKeepsFocus DEF LoadOrCreateCA, TypeOK, LogsTyped
  <2> QED BY <1>1, <2>1, <2>2, <2>3 DEF LoadOrCreateCA
<1>2. CASE WriteCAKey
  <2>0. job.inv \in SUBSET Rows /\ caCrt \in Nat
    BY <1>2 DEF WriteCAKey, Focus, KeysHeld
  <2>1. CASE seed' = [seed EXCEPT ![CAKey] = caCrt] /\ Goto("cabinet", job.inv, None)
    <3>1. TypeOK' /\ LogsTyped'
      BY <1>2, <2>0, <2>1 DEF WriteCAKey, Goto, TypeOK, LogsTyped, Steps, history
    <3>2. seed'[CAKey] = caCrt /\ \A g \in KeyFiles : g # CAKey => seed'[g] = seed[g]
      BY <2>1 DEF TypeOK
    <3>3. Focus' /\ KeysHeld'
      BY <1>2, <2>0, <2>1, <3>2 DEF WriteCAKey, Goto, Focus, KeysHeld,
                                    AccountSteps, CabinetSteps, AfterAccounts
    <3> QED BY <3>1, <3>3
  <2>2. CASE seed' = [seed EXCEPT ![CAKey] = Torn] /\ Abort
    BY <1>2, <2>2, AbortKeepsFocus DEF WriteCAKey, TypeOK, LogsTyped, history
  <2> QED BY <1>2, <2>1, <2>2 DEF WriteCAKey
<1> QED BY <1>1, <1>2

\* mintCabinets' own steps: picking a row, and recording what the rotation retires.
LEMMA CabinetLoopType ==
  ASSUME TypeInv, BeginCabinet \/ CaptureRetired \/ CabinetsMinted
  PROVE  TypeInv'
<1> USE FileMembers, FilesDistinct DEF TypeInv
<1>1. CASE BeginCabinet
  <2>1. PICK s \in todo \cap Slots, m \in {"capture", "user"} : Goto(m, todo \ {s}, s)
    BY <1>1 DEF BeginCabinet
  <2>2. TypeOK' /\ LogsTyped'
    BY <1>1, <2>1 DEF BeginCabinet, Goto, TypeOK, LogsTyped, Steps, bundle, history, Holders
  <2>3. Focus' /\ KeysHeld'
    BY <1>1, <2>1 DEF BeginCabinet, Goto, Focus, KeysHeld, bundle,
                      AccountSteps, CabinetSteps, AfterAccounts
  <2> QED BY <2>2, <2>3
<1>2. CASE CaptureRetired
  <2>0. cur \in Slots /\ cur \in Holders
    BY <1>2 DEF CaptureRetired, Focus, CabinetSteps, Holders
  <2>1. /\ log' \in [LogFiles -> SUBSET LogRecord]
        /\ tail' \in [LogFiles -> LogRecord \cup {None, Torn}]
        /\ glued' \in [LogFiles -> BOOLEAN]
        /\ LogsTyped'
        /\ Goto("user", todo, cur) \/ Abort
    <3>1. CASE AppendRecord("cabinet", RetiredRecord(cur), "user", todo, cur)
      <4>1. RetiredRecord(cur) \in Retirement
        BY <1>2, <2>0 DEF CaptureRetired, RetiredRecord, Retirement, TypeOK, UserClaims
      <4>2. RetiredRecord(cur) \in LogRecord
        BY <4>1 DEF LogRecord
      <4> QED BY <3>1, <4>1, <4>2, AppendOutcome DEF LogFiles, LogsTyped
    <3>2. CASE Goto("user", todo, cur) /\ UNCHANGED <<log, tail, glued>>
      BY <3>2 DEF TypeOK, LogsTyped
    <3> QED BY <1>2, <3>1, <3>2 DEF CaptureRetired
  <2>2. CASE Abort
    BY <1>2, <2>1, <2>2, AbortKeepsFocus DEF CaptureRetired, TypeOK
  <2>3. CASE Goto("user", todo, cur)
    <3>1. TypeOK'
      BY <1>2, <2>1, <2>3 DEF CaptureRetired, Goto, TypeOK, Steps
    <3>2. Focus' /\ KeysHeld'
      BY <1>2, <2>3 DEF CaptureRetired, Goto, Focus, KeysHeld,
                        AccountSteps, CabinetSteps, AfterAccounts
    <3> QED BY <2>1, <3>1, <3>2
  <2> QED BY <2>1, <2>2, <2>3
<1>3. CASE CabinetsMinted
  <2>1. TypeOK' /\ LogsTyped'
    BY <1>3 DEF CabinetsMinted, Goto, TypeOK, LogsTyped, Steps, bundle, history, DMZConsumers
  <2>2. Focus' /\ KeysHeld'
    BY <1>3 DEF CabinetsMinted, Goto, Focus, KeysHeld, bundle,
                AccountSteps, CabinetSteps, AfterAccounts
  <2> QED BY <2>1, <2>2
<1> QED BY <1>1, <1>2, <1>3

\* mintCabinet: the .creds and the certificate are built from readable keys.
LEMMA MintCabinetType ==
  ASSUME TypeInv, EnsureUserKey \/ WriteCreds \/ EnsureLeafKey \/ WriteCert
  PROVE  TypeInv'
<1> USE FileMembers, FilesDistinct DEF TypeInv
<1>0. cur \in Slots /\ cur \in Holders /\ cur[1] \in Accounts
  BY DistrictAssumption
     DEF EnsureUserKey, WriteCreds, EnsureLeafKey, WriteCert, Focus, CabinetSteps, Holders, Slots
<1>1. CASE EnsureUserKey
  <2>1. /\ seed' \in [KeyFiles -> Nat \cup {None, Torn}]
        /\ gen' \in [KeyFiles -> Nat]
        /\ \A g \in KeyFiles : g # UserKey(cur) => seed'[g] = seed[g]
        /\ \/ Goto("creds", todo, cur) /\ seed'[UserKey(cur)] \in Nat
           \/ Abort
    BY <1>0, <1>1, EnsureKeyOutcome DEF EnsureUserKey
  <2>2. CASE Abort
    BY <1>1, <2>1, <2>2, AbortKeepsFocus DEF EnsureUserKey, TypeOK, LogsTyped
  <2>3. CASE Goto("creds", todo, cur) /\ seed'[UserKey(cur)] \in Nat
    <3>1. TypeOK' /\ LogsTyped'
      BY <1>1, <2>1, <2>3 DEF EnsureUserKey, Goto, TypeOK, LogsTyped, Steps
    <3>2. Focus' /\ KeysHeld'
      BY <1>0, <1>1, <2>1, <2>3 DEF EnsureUserKey, Goto, Focus, KeysHeld,
                                    AccountSteps, CabinetSteps, AfterAccounts
    <3> QED BY <3>1, <3>2
  <2> QED BY <2>1, <2>2, <2>3
<1>2. CASE WriteCreds
  <2>1. /\ NewUserJWT(cur, cur[1]) \in UserClaims
        /\ [sub |-> seed[UserKey(cur)], iat |-> now] \in [sub : Nat, iat : Nat]
    BY <1>0, <1>2 DEF WriteCreds, NewUserJWT, UserClaims, KeysHeld, TypeOK,
                      AfterAccounts, CabinetSteps
  <2>2. CASE creds' = [creds EXCEPT ![cur] = Torn] /\ UNCHANGED issued /\ Abort
    BY <1>2, <2>2, AbortKeepsFocus DEF WriteCreds, TypeOK, LogsTyped
  <2>3. CASE /\ creds' = [creds EXCEPT ![cur] = NewUserJWT(cur, cur[1])]
             /\ issued' = [issued EXCEPT ![cur] =
                  @ \cup {[sub |-> seed[UserKey(cur)], iat |-> now]}]
             /\ Goto("leaf", todo, cur)
    <3>1. creds' \in [Holders -> UserClaims \cup {None, Torn}]
      BY <2>1, <2>3 DEF TypeOK
    <3>2. issued' \in [Slots -> SUBSET [sub : Nat, iat : Nat]]
      BY <2>1, <2>3 DEF TypeOK
    <3>3. TypeOK' /\ LogsTyped'
      BY <1>2, <2>3, <3>1, <3>2 DEF WriteCreds, Goto, TypeOK, LogsTyped, Steps
    <3>4. Focus' /\ KeysHeld'
      BY <1>0, <1>2, <2>3 DEF WriteCreds, Goto, Focus, KeysHeld,
                              AccountSteps, CabinetSteps, AfterAccounts
    <3> QED BY <3>3, <3>4
  <2> QED BY <1>2, <2>2, <2>3 DEF WriteCreds
<1>3. CASE EnsureLeafKey
  <2>1. /\ seed' \in [KeyFiles -> Nat \cup {None, Torn}]
        /\ gen' \in [KeyFiles -> Nat]
        /\ \A g \in KeyFiles : g # LeafKey(cur) => seed'[g] = seed[g]
        /\ \/ Goto("crt", todo, cur) /\ seed'[LeafKey(cur)] \in Nat
           \/ Abort
    BY <1>0, <1>3, EnsureKeyOutcome DEF EnsureLeafKey
  <2>2. CASE Abort
    BY <1>3, <2>1, <2>2, AbortKeepsFocus DEF EnsureLeafKey, TypeOK, LogsTyped
  <2>3. CASE Goto("crt", todo, cur) /\ seed'[LeafKey(cur)] \in Nat
    <3>1. TypeOK' /\ LogsTyped'
      BY <1>3, <2>1, <2>3 DEF EnsureLeafKey, Goto, TypeOK, LogsTyped, Steps
    <3>2. Focus' /\ KeysHeld'
      BY <1>0, <1>3, <2>1, <2>3 DEF EnsureLeafKey, Goto, Focus, KeysHeld,
                                    AccountSteps, CabinetSteps, AfterAccounts
    <3> QED BY <3>1, <3>2
  <2> QED BY <2>1, <2>2, <2>3
<1>4. CASE WriteCert
  <2>1. [key |-> seed[LeafKey(cur)], ca |-> seed[CAKey]] \in ClientCert
    BY <1>4 DEF WriteCert, ClientCert, KeysHeld, CabinetSteps
  <2>2. CASE crt' = [crt EXCEPT ![cur] = Torn] /\ Abort
    BY <1>4, <2>2, AbortKeepsFocus DEF WriteCert, TypeOK, LogsTyped, history
  <2>3. CASE /\ crt' = [crt EXCEPT ![cur] =
                  [key |-> seed[LeafKey(cur)], ca |-> seed[CAKey]]]
             /\ Goto("cabinet", todo, None)
    <3>1. crt' \in [Slots -> ClientCert \cup {None, Torn}]
      BY <2>1, <2>3 DEF TypeOK
    <3>2. TypeOK' /\ LogsTyped'
      BY <1>4, <2>3, <3>1 DEF WriteCert, Goto, TypeOK, LogsTyped, Steps, history
    <3>3. Focus' /\ KeysHeld'
      BY <1>4, <2>3 DEF WriteCert, Goto, Focus, KeysHeld,
                        AccountSteps, CabinetSteps, AfterAccounts
    <3> QED BY <3>2, <3>3
  <2> QED BY <1>4, <2>2, <2>3 DEF WriteCert
<1> QED BY <1>1, <1>2, <1>3, <1>4

\* mintDMZConsumers: a consumer exists only where there is a DMZ account to sign for it.
LEMMA ConsumerStepsType ==
  ASSUME TypeInv, EnsureConsumerKey \/ WriteConsumerCreds \/ ConsumersMinted
  PROVE  TypeInv'
<1> USE FileMembers, FilesDistinct DEF TypeInv
<1>1. CASE EnsureConsumerKey
  <2>1. PICK c \in todo : EnsureKey(UserKey(c), FALSE, "dmzcreds", todo \ {c}, c)
    BY <1>1 DEF EnsureConsumerKey
  <2>2. c \in DMZConsumers
    BY <1>1 DEF EnsureConsumerKey, Focus
  <2>3. /\ seed' \in [KeyFiles -> Nat \cup {None, Torn}]
        /\ gen' \in [KeyFiles -> Nat]
        /\ \A g \in KeyFiles : g # UserKey(c) => seed'[g] = seed[g]
        /\ \/ Goto("dmzcreds", todo \ {c}, c) /\ seed'[UserKey(c)] \in Nat
           \/ Abort
    BY <2>1, <2>2, EnsureKeyOutcome
  <2>4. CASE Abort
    BY <1>1, <2>3, <2>4, AbortKeepsFocus DEF EnsureConsumerKey, TypeOK, LogsTyped
  <2>5. CASE Goto("dmzcreds", todo \ {c}, c) /\ seed'[UserKey(c)] \in Nat
    <3>1. TypeOK' /\ LogsTyped'
      BY <1>1, <2>2, <2>3, <2>5 DEF EnsureConsumerKey, Goto, TypeOK, LogsTyped, Steps
    <3>2. Focus' /\ KeysHeld'
      BY <1>1, <2>2, <2>3, <2>5 DEF EnsureConsumerKey, Goto, Focus, KeysHeld,
                                    AccountSteps, CabinetSteps, AfterAccounts
    <3> QED BY <3>1, <3>2
  <2> QED BY <2>3, <2>4, <2>5
<1>2. CASE WriteConsumerCreds
  <2>0. cur \in DMZConsumers /\ cur \in Holders /\ DMZ \in Accounts
    BY <1>2 DEF WriteConsumerCreds, Focus, DMZConsumers
  <2>1. NewUserJWT(cur, DMZ) \in UserClaims
    BY <1>2, <2>0 DEF WriteConsumerCreds, NewUserJWT, UserClaims, KeysHeld, TypeOK, AfterAccounts
  <2>2. CASE creds' = [creds EXCEPT ![cur] = Torn] /\ Abort
    BY <1>2, <2>2, AbortKeepsFocus DEF WriteConsumerCreds, TypeOK, LogsTyped, history
  <2>3. CASE creds' = [creds EXCEPT ![cur] = NewUserJWT(cur, DMZ)] /\ Goto("dmz", todo, None)
    <3>1. creds' \in [Holders -> UserClaims \cup {None, Torn}]
      BY <2>1, <2>3 DEF TypeOK
    <3>2. TypeOK' /\ LogsTyped'
      BY <1>2, <2>3, <3>1 DEF WriteConsumerCreds, Goto, TypeOK, LogsTyped, Steps, history
    <3>3. Focus' /\ KeysHeld'
      BY <1>2, <2>3 DEF WriteConsumerCreds, Goto, Focus, KeysHeld,
                        AccountSteps, CabinetSteps, AfterAccounts
    <3> QED BY <3>2, <3>3
  <2> QED BY <1>2, <2>2, <2>3 DEF WriteConsumerCreds
<1>3. CASE ConsumersMinted
  <2>1. TypeOK' /\ LogsTyped'
    BY <1>3 DEF ConsumersMinted, Goto, TypeOK, LogsTyped, Steps, bundle, history
  <2>2. Focus' /\ KeysHeld'
    BY <1>3 DEF ConsumersMinted, Goto, Focus, KeysHeld, bundle,
                AccountSteps, CabinetSteps, AfterAccounts
  <2> QED BY <2>1, <2>2
<1> QED BY <1>1, <1>2, <1>3

\* writeResolverBundle: an account JWT is built from readable keys and parsed records.
LEMMA BundleStepsType ==
  ASSUME TypeInv, WriteAccountJWT \/ Finish
  PROVE  TypeInv'
<1> USE DEF TypeInv
<1>1. CASE WriteAccountJWT
  <2>1. PICK a \in todo :
          \/ /\ resolver' = [resolver EXCEPT ![a] = NewAccountJWT(a)]
             /\ Goto("bundle", todo \ {a}, None)
          \/ resolver' = [resolver EXCEPT ![a] = Torn] /\ Abort
    BY <1>1 DEF WriteAccountJWT
  <2>2. a \in Accounts
    BY <1>1 DEF WriteAccountJWT, Focus
  <2>3. RevocationsFor(a) \subseteq Retirement
    BY DEF RevocationsFor, Parsed, LogsTyped
  <2>4. NewAccountJWT(a) \in AccountClaims
    BY <1>1, <2>2, <2>3 DEF WriteAccountJWT, NewAccountJWT, AccountClaims, KeysHeld, AfterAccounts
  <2>5. CASE resolver' = [resolver EXCEPT ![a] = Torn] /\ Abort
    BY <1>1, <2>5, AbortKeepsFocus DEF WriteAccountJWT, TypeOK, LogsTyped, history
  <2>6. CASE /\ resolver' = [resolver EXCEPT ![a] = NewAccountJWT(a)]
             /\ Goto("bundle", todo \ {a}, None)
    <3>1. resolver' \in [Accounts -> AccountClaims \cup {None, Torn}]
      BY <2>4, <2>6 DEF TypeOK
    <3>2. TypeOK' /\ LogsTyped'
      BY <1>1, <2>6, <3>1 DEF WriteAccountJWT, Goto, TypeOK, LogsTyped, Steps, history
    <3>3. Focus' /\ KeysHeld'
      BY <1>1, <2>6 DEF WriteAccountJWT, Goto, Focus, KeysHeld,
                        AccountSteps, CabinetSteps, AfterAccounts
    <3> QED BY <3>2, <3>3
  <2> QED BY <2>1, <2>5, <2>6
<1>2. CASE Finish
  <2>1. TypeOK' /\ LogsTyped'
    BY <1>2 DEF Finish, Goto, TypeOK, LogsTyped, Steps, Resting, bundle, history
  <2>2. Focus' /\ KeysHeld'
    BY <1>2 DEF Finish, Goto, Focus, KeysHeld, bundle,
                AccountSteps, CabinetSteps, AfterAccounts
  <2> QED BY <2>1, <2>2
<1> QED BY <1>1, <1>2

\* The operator's deletions only remove files between runs.
LEMMA DeletionsType ==
  ASSUME TypeInv,
         (\E a \in Accounts : DeleteAccountRoot(a)) \/ DeleteCA \/ DeleteTornSeed
  PROVE  TypeInv'
<1> USE FileMembers DEF TypeInv
<1>1. ASSUME NEW a \in Accounts, DeleteAccountRoot(a) PROVE TypeInv'
  BY <1>1, AbortKeepsFocus DEF DeleteAccountRoot, TypeOK, LogsTyped, history
<1>2. CASE DeleteCA
  BY <1>2, AbortKeepsFocus DEF DeleteCA, TypeOK, LogsTyped, history
<1>3. CASE DeleteTornSeed
  BY <1>3, AbortKeepsFocus DEF DeleteTornSeed, TypeOK, LogsTyped, history
<1> QED BY <1>1, <1>2, <1>3

\* Every step of the specification preserves the type invariant.
LEMMA TypeStep ==
  ASSUME TypeInv, [Next]_vars
  PROVE  TypeInv'
<1>1. CASE RunStep
  <2>1. CASE Refuse
    BY <2>1, AbortType DEF Refuse
  <2> QED BY <1>1, <2>1, OperatorStepsType, AccountStepsType, CAStepsType, CabinetLoopType,
             MintCabinetType, ConsumerStepsType, BundleStepsType DEF RunStep
<1>2. CASE Crash
  BY <1>2, AbortType DEF Crash
<1>3. CASE Tick
  BY <1>3 DEF Tick, TypeInv, TypeOK, Focus, LogsTyped, KeysHeld, proc, bundle, history
<1>4. CASE UNCHANGED vars
  BY <1>4 DEF vars, TypeInv, TypeOK, Focus, LogsTyped, KeysHeld, proc, bundle, history
<1> QED BY <1>1, <1>2, <1>3, <1>4, StartType, DeletionsType DEF Next

\* Type correctness of every reachable state, and that a run never signs with a key it
\* does not hold: whatever is on disk was written from readable keys.
THEOREM TypeCorrect == Spec => []TypeInv
<1>1. Init => TypeInv
  BY DEF Init, TypeInv, TypeOK, Focus, LogsTyped, KeysHeld, Steps, Resting, LogFiles,
         AccountSteps, CabinetSteps, AfterAccounts
<1> QED BY <1>1, TypeStep, PTL DEF Spec

-----------------------------------------------------------------------------
\* Rotation revokes

\* Steps that leave retired.jsonl, and the cabinets' user keys and .creds, alone.
QuietLog ==
  /\ log'["cabinet"] = log["cabinet"]
  /\ tail'["cabinet"] = tail["cabinet"]
  /\ glued'["cabinet"] = glued["cabinet"]
QuietSlots ==
  /\ issued' = issued
  /\ \A s \in Slots : seed'[UserKey(s)] = seed[UserKey(s)] /\ creds'[s] = creds[s]

\* Such a step keeps every issued JWT accounted for, as long as time does not run back.
LEMMA QuietAccounted ==
  ASSUME TypeInv, TypeInv', IssuedAccounted, QuietLog, QuietSlots, now <= now'
  PROVE  IssuedAccounted'
<1> SUFFICES ASSUME NEW s \in Slots, NEW j \in issued'[s]
             PROVE  j.iat <= now' /\ (~glued'["cabinet"] => Accounted(s, j)')
  BY DEF IssuedAccounted
<1>1. /\ j \in issued[s] /\ j.iat \in Nat /\ j.iat <= now
      /\ ~glued["cabinet"] => Accounted(s, j)
  BY DEF IssuedAccounted, QuietSlots, TypeInv, TypeOK
<1>2. Parsed("cabinet")' = Parsed("cabinet")
  BY DEF Parsed, QuietLog
<1>3. Accounted(s, j) => Accounted(s, j)'
  BY <1>2 DEF Accounted, Covered, QuietSlots
<1>4. j.iat <= now'
  BY <1>1 DEF TypeInv, TypeOK
<1> QED BY <1>1, <1>3, <1>4 DEF QuietLog

\* And it keeps the whole invariant when it enters neither the key swap of a cabinet nor
\* the resolver bundle.
LEMMA QuietStep ==
  ASSUME TypeInv, TypeInv', RevocationInv, QuietLog, QuietSlots, now' = now,
         pc' \notin {"user", "bundle", "done"}
  PROVE  RevocationInv'
<1>1. IssuedAccounted'
  BY QuietAccounted DEF RevocationInv, TypeInv, TypeOK
<1> QED BY <1>1 DEF RevocationInv, CapturedBeforeSwap, BundleCurrent

\* An early end of a run that touched none of them is such a step.
LEMMA QuietAbort ==
  ASSUME TypeInv, TypeInv', RevocationInv, Abort, UNCHANGED <<now, bundle, history>>
  PROVE  RevocationInv'
BY QuietStep DEF Abort, QuietLog, QuietSlots, bundle, history

\* ensureOperator and ensureAccounts touch no cabinet and no line of retired.jsonl.
LEMMA SignerStepsQuiet ==
  ASSUME TypeInv, TypeInv', RevocationInv,
         \/ EnsureOperatorKey \/ CaptureRetiredOperatorSK
         \/ EnsureOperatorSK \/ WriteOperatorJWT
         \/ EnsureAccountKey \/ CaptureRetiredAccountSK
         \/ EnsureAccountSK \/ AccountsEnsured
  PROVE  RevocationInv'
<1> USE FileMembers, FilesDistinct DEF TypeInv
<1>1. CASE EnsureOperatorKey
  <2>1. PICK m \in {"opcap", "opsk"} : EnsureKey(OperatorKey, FALSE, m, {}, None)
    BY <1>1 DEF EnsureOperatorKey
  <2>2. /\ \A g \in KeyFiles : g # OperatorKey => seed'[g] = seed[g]
        /\ pc' \in {m, "idle"}
    BY <2>1, EnsureKeyOutcome DEF Goto, Abort
  <2> QED BY <1>1, <2>2, QuietStep DEF EnsureOperatorKey, QuietLog, QuietSlots
<1>2. CASE CaptureRetiredOperatorSK
  <2>1. QuietLog /\ pc' \in {"opsk", "idle"}
    <3>1. CASE Readable(opJWT) /\ AppendRecord("operator-sk", [sk |-> opJWT.sk], "opsk", {}, None)
      <4>1. [sk |-> opJWT.sk] \in LogRecord
        BY <3>1 DEF Readable, TypeOK, OperatorClaims, LogRecord, RetiredOperatorSK
      <4> QED BY <3>1, <4>1, AppendOutcome DEF LogFiles, QuietLog, Goto, Abort
    <3>2. CASE Goto("opsk", {}, None) /\ UNCHANGED <<log, tail, glued>>
      BY <3>2 DEF QuietLog, Goto
    <3> QED BY <1>2, <3>1, <3>2 DEF CaptureRetiredOperatorSK
  <2> QED BY <1>2, <2>1, QuietStep DEF CaptureRetiredOperatorSK, QuietSlots
<1>3. CASE EnsureOperatorSK
  <2>1. /\ \A g \in KeyFiles : g # OperatorSK => seed'[g] = seed[g]
        /\ pc' \in {"opjwt", "idle"}
    BY <1>3, EnsureKeyOutcome DEF EnsureOperatorSK, Goto, Abort
  <2> QED BY <1>3, <2>1, QuietStep DEF EnsureOperatorSK, QuietLog, QuietSlots
<1>4. CASE WriteOperatorJWT
  BY <1>4, QuietStep DEF WriteOperatorJWT, QuietLog, QuietSlots, history, Goto, Abort
<1>5. CASE EnsureAccountKey
  <2>1. PICK a \in todo, m \in {"acctcap", "acctsk"} :
          EnsureKey(AccountKey(a), FALSE, m, todo \ {a}, a)
    BY <1>5 DEF EnsureAccountKey
  <2>2. a \in Accounts
    BY <1>5 DEF EnsureAccountKey, Focus
  <2>3. /\ \A g \in KeyFiles : g # AccountKey(a) => seed'[g] = seed[g]
        /\ pc' \in {m, "idle"}
    BY <2>1, <2>2, EnsureKeyOutcome DEF Goto, Abort
  <2> QED BY <1>5, <2>3, QuietStep DEF EnsureAccountKey, QuietLog, QuietSlots
<1>6. CASE CaptureRetiredAccountSK
  <2>0. cur \in Accounts
    BY <1>6 DEF CaptureRetiredAccountSK, Focus, AccountSteps
  <2>1. QuietLog /\ pc' \in {"acctsk", "idle"}
    <3> DEFINE r == [acct |-> cur, sk |-> resolver[cur].sk]
    <3>1. CASE Readable(resolver[cur]) /\ AppendRecord("account-sk", r, "acctsk", todo, cur)
      <4>1. r \in LogRecord
        BY <2>0, <3>1 DEF Readable, TypeOK, AccountClaims, LogRecord, RetiredSK
      <4> HIDE DEF r
      <4> QED BY <3>1, <4>1, AppendOutcome DEF LogFiles, QuietLog, Goto, Abort
    <3>2. CASE Goto("acctsk", todo, cur) /\ UNCHANGED <<log, tail, glued>>
      BY <3>2 DEF QuietLog, Goto
    <3> QED BY <1>6, <3>1, <3>2 DEF CaptureRetiredAccountSK
  <2> QED BY <1>6, <2>1, QuietStep DEF CaptureRetiredAccountSK, QuietSlots
<1>7. CASE EnsureAccountSK
  <2>0. cur \in Accounts
    BY <1>7 DEF EnsureAccountSK, Focus, AccountSteps
  <2>1. /\ \A g \in KeyFiles : g # AccountSK(cur) => seed'[g] = seed[g]
        /\ pc' \in {"acct", "idle"}
    BY <1>7, <2>0, EnsureKeyOutcome DEF EnsureAccountSK, Goto, Abort
  <2> QED BY <1>7, <2>1, QuietStep DEF EnsureAccountSK, QuietLog, QuietSlots
<1>8. CASE AccountsEnsured
  BY <1>8, QuietStep DEF AccountsEnsured, QuietLog, QuietSlots, bundle, history, Goto
<1> QED BY <1>1, <1>2, <1>3, <1>4, <1>5, <1>6, <1>7, <1>8

\* captureRetired: the record it appends covers whatever the cabinet was issued and no
\* earlier record covers.
LEMMA CaptureRetiredCovers ==
  ASSUME TypeInv, TypeInv', RevocationInv, CaptureRetired
  PROVE  RevocationInv'
<1> USE DEF TypeInv
<1>0. /\ cur \in Slots /\ cur \in Holders
      /\ now' = now /\ creds' = creds /\ seed' = seed /\ issued' = issued
      /\ creds[cur] # Torn
  BY DEF CaptureRetired, Focus, CabinetSteps, Holders
<1>1. CASE /\ creds[cur] = None /\ Goto("user", todo, cur)
           /\ UNCHANGED <<log, tail, glued>>
  <2>1. IssuedAccounted'
    BY <1>0, <1>1, QuietAccounted DEF QuietLog, QuietSlots, RevocationInv, TypeOK
  <2>2. \A j \in issued[cur] : ~glued["cabinet"] => Covered(cur, j)
    BY <1>0, <1>1 DEF RevocationInv, IssuedAccounted, Accounted
  <2>3. CapturedBeforeSwap'
    BY <1>0, <1>1, <2>2 DEF CapturedBeforeSwap, Covered, Parsed, Goto
  <2>4. BundleCurrent'
    BY <1>1 DEF BundleCurrent, Goto
  <2> QED BY <2>1, <2>3, <2>4 DEF RevocationInv
<1>2. CASE AppendRecord("cabinet", RetiredRecord(cur), "user", todo, cur)
  <2> DEFINE r == RetiredRecord(cur)
  <2>1. r \in LogRecord
    BY <1>0 DEF RetiredRecord, Retirement, TypeOK, UserClaims, LogRecord
  <2>2. /\ log["cabinet"] \subseteq log'["cabinet"]
        /\ glued'["cabinet"] = (glued["cabinet"] \/ tail["cabinet"] # None)
        /\ \/ /\ Goto("user", todo, cur)
              /\ tail["cabinet"] = None => log'["cabinet"] = log["cabinet"] \cup {r}
           \/ Abort
    BY <1>2, <2>1, AppendOutcome DEF LogFiles
  <2>3. ~glued'["cabinet"] =>
          ~glued["cabinet"] /\ Parsed("cabinet") \subseteq Parsed("cabinet")'
    BY <2>2 DEF Parsed
  <2>4. IssuedAccounted'
    <3> SUFFICES ASSUME NEW s \in Slots, NEW j \in issued[s]
                 PROVE  j.iat <= now /\ (~glued'["cabinet"] => Accounted(s, j)')
      BY <1>0 DEF IssuedAccounted
    <3>1. j.iat <= now /\ (~glued["cabinet"] => Accounted(s, j))
      BY DEF RevocationInv, IssuedAccounted
    <3>2. ~glued'["cabinet"] /\ Covered(s, j) => Covered(s, j)'
      BY <2>3 DEF Covered
    <3> QED BY <1>0, <2>3, <3>1, <3>2 DEF Accounted
  <2>5. CapturedBeforeSwap'
    <3> SUFFICES ASSUME pc' = "user", ~glued'["cabinet"], NEW j \in issued[cur]
                 PROVE  Covered(cur, j)'
      BY <1>0, <2>2 DEF CapturedBeforeSwap, Goto, Abort
    <3>0. cur' = cur
      BY <2>2 DEF Goto, Abort
    <3>1. r \in Parsed("cabinet")'
      BY <2>2 DEF Parsed, Abort
    <3>2. j.iat <= now /\ Accounted(cur, j)
      BY <1>0, <2>3 DEF RevocationInv, IssuedAccounted
    <3>3. CASE Covered(cur, j)
      BY <2>3, <3>0, <3>3 DEF Covered
    <3>4. CASE creds[cur] # None /\ creds[cur].sub = j.sub
      <4>1. Revokes(r, cur, j)
        BY <1>0, <3>2, <3>4 DEF Revokes, RetiredRecord, TypeOK
      <4> QED BY <3>0, <3>1, <4>1 DEF Covered
    <3> QED BY <1>0, <3>2, <3>3, <3>4 DEF Accounted
  <2>6. BundleCurrent'
    BY <2>2 DEF BundleCurrent, Goto, Abort
  <2> QED BY <2>4, <2>5, <2>6 DEF RevocationInv
<1> QED BY <1>1, <1>2 DEF CaptureRetired

\* mintCabinet's user key: swapped only when everything issued under the old one is
\* covered, and left alone otherwise.
LEMMA EnsureUserKeyCovered ==
  ASSUME TypeInv, TypeInv', RevocationInv, EnsureUserKey
  PROVE  RevocationInv'
<1> USE FileMembers, FilesDistinct DEF TypeInv
<1>0. cur \in Slots
  BY DEF EnsureUserKey, Focus, CabinetSteps
<1>1. /\ \A g \in KeyFiles : g # UserKey(cur) => seed'[g] = seed[g]
      /\ pc' \in {"creds", "idle"}
  BY <1>0, EnsureKeyOutcome DEF EnsureUserKey, Goto, Abort
<1>2. seed' = seed \/ MustMint(UserKey(cur), Rotating(cur))
  BY DEF EnsureUserKey, EnsureKey
<1>3. IssuedAccounted'
  <2> SUFFICES ASSUME NEW s \in Slots, NEW j \in issued[s]
               PROVE  j.iat <= now /\ (~glued["cabinet"] => Accounted(s, j)')
    BY DEF EnsureUserKey, IssuedAccounted
  <2>1. j.iat <= now /\ (~glued["cabinet"] => Accounted(s, j)) /\ j.sub \in Nat
    BY DEF RevocationInv, IssuedAccounted, TypeOK
  <2>2. Covered(s, j) => Accounted(s, j)'
    BY DEF EnsureUserKey, Covered, Parsed, Accounted
  <2>3. CASE s # cur \/ seed' = seed
    <3>1. seed'[UserKey(s)] = seed[UserKey(s)]
      BY <1>1, <2>3
    <3> QED BY <2>1, <2>2, <3>1 DEF Accounted, EnsureUserKey
  <2>4. CASE s = cur /\ Rotating(cur)
    BY <2>1, <2>2, <2>4 DEF EnsureUserKey, RevocationInv, CapturedBeforeSwap
  <2>5. CASE s = cur /\ seed[UserKey(cur)] = None
    <3>1. seed[UserKey(s)] # j.sub
      BY <2>1, <2>5, SentinelAssumption
    <3> QED BY <2>1, <2>2, <3>1 DEF Accounted
  <2> QED BY <1>2, <2>3, <2>4, <2>5 DEF MustMint
<1> QED BY <1>1, <1>3 DEF RevocationInv, CapturedBeforeSwap, BundleCurrent

\* The .creds write: the new JWT is accounted for by the file itself.
LEMMA WriteCredsAccounted ==
  ASSUME TypeInv, TypeInv', RevocationInv, WriteCreds
  PROVE  RevocationInv'
<1> USE FileMembers, FilesDistinct DEF TypeInv
<1>0. /\ cur \in Slots /\ cur \in Holders
      /\ seed' = seed /\ now' = now /\ Parsed("cabinet")' = Parsed("cabinet")
      /\ glued' = glued /\ pc' \in {"leaf", "idle"}
      /\ seed[UserKey(cur)] \in Nat
  BY DEF WriteCreds, Focus, CabinetSteps, Holders, Parsed, Goto, Abort, KeysHeld
<1> DEFINE u == NewUserJWT(cur, cur[1])
<1>u. u.sub = seed[UserKey(cur)] /\ u # None /\ u # Torn
  <2>1. u \in UserClaims
    BY <1>0, DistrictAssumption DEF WriteCreds, NewUserJWT, UserClaims, KeysHeld, TypeOK,
                                    AfterAccounts, CabinetSteps, Slots
  <2> QED BY <2>1, SentinelAssumption DEF NewUserJWT
<1>1. IssuedAccounted'
  <2> SUFFICES ASSUME NEW s \in Slots, NEW j \in issued'[s]
               PROVE  j.iat <= now /\ (~glued["cabinet"] => Accounted(s, j)')
    BY <1>0 DEF IssuedAccounted
  <2>1. s \in Holders
    BY DEF Holders
  <2>2. CASE j \in issued[s]
    <3>1. j.iat <= now /\ (~glued["cabinet"] => Accounted(s, j))
      BY <2>2 DEF RevocationInv, IssuedAccounted
    <3>2. CASE s # cur
      <4>1. creds'[s] = creds[s]
        BY <1>0, <2>1, <3>2 DEF WriteCreds, TypeOK
      <4> QED BY <1>0, <3>1, <4>1 DEF Accounted, Covered
    <3>3. CASE s = cur
      <4>1. creds'[s] \in {Torn, u}
        BY <1>0, <3>3 DEF WriteCreds, TypeOK
      <4> QED BY <1>0, <1>u, <3>1, <3>3, <4>1, SentinelAssumption DEF Accounted, Covered
    <3> QED BY <3>2, <3>3
  <2>3. CASE j \notin issued[s]
    <3>1. /\ s = cur
          /\ j = [sub |-> seed[UserKey(cur)], iat |-> now]
          /\ creds' = [creds EXCEPT ![cur] = NewUserJWT(cur, cur[1])]
      BY <1>0, <2>3 DEF WriteCreds, TypeOK
    <3>2. creds'[s] = u /\ j.sub = seed[UserKey(s)] /\ j.iat = now
      BY <1>0, <3>1 DEF TypeOK
    <3> QED BY <1>0, <1>u, <3>1, <3>2 DEF Accounted, TypeOK
  <2> QED BY <2>2, <2>3
<1> QED BY <1>0, <1>1 DEF RevocationInv, CapturedBeforeSwap, BundleCurrent

\* The other steps of mintCabinets and mintDMZConsumers, and the operator's deletions,
\* leave the cabinets' user keys and the log alone.
LEMMA OtherStepsQuiet ==
  ASSUME TypeInv, TypeInv', RevocationInv,
         \/ LoadOrCreateCA \/ WriteCAKey \/ BeginCabinet \/ EnsureLeafKey \/ WriteCert
         \/ CabinetsMinted \/ EnsureConsumerKey \/ WriteConsumerCreds
         \/ (\E a \in Accounts : DeleteAccountRoot(a)) \/ DeleteCA \/ DeleteTornSeed
         \/ \E j \in Jobs : Start(j)
  PROVE  RevocationInv'
<1> USE FileMembers, FilesDistinct DEF TypeInv
<1>1. CASE LoadOrCreateCA
  BY <1>1, QuietStep DEF LoadOrCreateCA, QuietLog, QuietSlots, Goto, Abort
<1>2. CASE WriteCAKey
  <2>1. \A s \in Slots : seed'[UserKey(s)] = seed[UserKey(s)]
    BY <1>2 DEF WriteCAKey, TypeOK
  <2> QED BY <1>2, <2>1, QuietStep DEF WriteCAKey, QuietLog, QuietSlots, history, Goto, Abort
<1>3. CASE BeginCabinet
  <2>1. PICK s \in todo \cap Slots :
          Goto(IF Rotating(s) THEN "capture" ELSE "user", todo \ {s}, s)
    BY <1>3 DEF BeginCabinet
  <2>2. IssuedAccounted'
    BY <1>3, QuietAccounted DEF BeginCabinet, QuietLog, QuietSlots, bundle, history,
                                RevocationInv, TypeOK
  <2>3. CapturedBeforeSwap'
    BY <2>1 DEF CapturedBeforeSwap, Goto, Rotating
  <2>4. BundleCurrent'
    BY <2>1 DEF BundleCurrent, Goto
  <2> QED BY <2>2, <2>3, <2>4 DEF RevocationInv
<1>4. CASE EnsureLeafKey
  <2>0. cur \in Slots
    BY <1>4 DEF EnsureLeafKey, Focus, CabinetSteps
  <2>1. /\ \A g \in KeyFiles : g # LeafKey(cur) => seed'[g] = seed[g]
        /\ pc' \in {"crt", "idle"}
    BY <1>4, <2>0, EnsureKeyOutcome DEF EnsureLeafKey, Goto, Abort
  <2> QED BY <1>4, <2>1, QuietStep DEF EnsureLeafKey, QuietLog, QuietSlots
<1>5. CASE WriteCert
  BY <1>5, QuietStep DEF WriteCert, QuietLog, QuietSlots, history, Goto, Abort
<1>6. CASE CabinetsMinted
  BY <1>6, QuietStep DEF CabinetsMinted, QuietLog, QuietSlots, bundle, history, Goto
<1>7. CASE EnsureConsumerKey
  <2>1. PICK c \in todo : EnsureKey(UserKey(c), FALSE, "dmzcreds", todo \ {c}, c)
    BY <1>7 DEF EnsureConsumerKey
  <2>2. c \in DMZConsumers /\ c \notin Slots
    BY <1>7, ConsumerAssumption DEF EnsureConsumerKey, Focus, DMZConsumers
  <2>3. /\ \A g \in KeyFiles : g # UserKey(c) => seed'[g] = seed[g]
        /\ pc' \in {"dmzcreds", "idle"}
    BY <2>1, <2>2, EnsureKeyOutcome DEF Goto, Abort
  <2>4. \A s \in Slots : seed'[UserKey(s)] = seed[UserKey(s)]
    BY <2>2, <2>3
  <2> QED BY <1>7, <2>3, <2>4, QuietStep DEF EnsureConsumerKey, QuietLog, QuietSlots
<1>8. CASE WriteConsumerCreds
  <2>1. cur \notin Slots
    BY <1>8, ConsumerAssumption DEF WriteConsumerCreds, Focus, DMZConsumers
  <2>2. \A s \in Slots : creds'[s] = creds[s]
    BY <1>8, <2>1 DEF WriteConsumerCreds, TypeOK, Holders
  <2> QED BY <1>8, <2>2, QuietStep
          DEF WriteConsumerCreds, QuietLog, QuietSlots, history, Goto, Abort
<1>9. ASSUME NEW a \in Accounts, DeleteAccountRoot(a) PROVE RevocationInv'
  <2>1. \A s \in Slots : seed'[UserKey(s)] = seed[UserKey(s)]
    BY <1>9 DEF DeleteAccountRoot, TypeOK
  <2> QED BY <1>9, <2>1, QuietStep DEF DeleteAccountRoot, QuietLog, QuietSlots, history, Abort
<1>10. CASE DeleteCA
  <2>1. \A s \in Slots : seed'[UserKey(s)] = seed[UserKey(s)]
    BY <1>10 DEF DeleteCA, TypeOK
  <2> QED BY <1>10, <2>1, QuietStep DEF DeleteCA, QuietLog, QuietSlots, history, Abort
<1>11. CASE DeleteTornSeed
  <2>1. \A s \in Slots : UserKey(s) \notin Unrotatable
    BY ConsumerAssumption DEF Unrotatable
  <2>2. \A s \in Slots : seed'[UserKey(s)] = seed[UserKey(s)]
    BY <1>11, <2>1 DEF DeleteTornSeed, TypeOK
  <2> QED BY <1>11, <2>2, QuietStep DEF DeleteTornSeed, QuietLog, QuietSlots, history, Abort
<1>12. ASSUME NEW j \in Jobs, Start(j) PROVE RevocationInv'
  BY <1>12, QuietStep DEF Start, QuietLog, QuietSlots, bundle, history
<1> QED BY <1>1, <1>2, <1>3, <1>4, <1>5, <1>6, <1>7, <1>8, <1>9, <1>10, <1>11, <1>12

\* writeResolverBundle: each account JWT it writes carries the whole log's revocations,
\* and nothing writes to the log meanwhile.
LEMMA BundleStepsCurrent ==
  ASSUME TypeInv, TypeInv', RevocationInv, ConsumersMinted \/ WriteAccountJWT \/ Finish
  PROVE  RevocationInv'
<1> USE DEF TypeInv
<1>1. IssuedAccounted'
  BY QuietAccounted DEF ConsumersMinted, WriteAccountJWT, Finish, QuietLog, QuietSlots,
                        bundle, history, RevocationInv, TypeOK
<1>2. CapturedBeforeSwap'
  BY DEF ConsumersMinted, WriteAccountJWT, Finish, CapturedBeforeSwap, Goto, Abort
<1>3. \A a \in Accounts : RevocationsFor(a)' = RevocationsFor(a)
  BY DEF ConsumersMinted, WriteAccountJWT, Finish, RevocationsFor, Parsed, bundle
<1>4. BundleCurrent'
  <2>1. CASE ConsumersMinted
    BY <2>1 DEF ConsumersMinted, Goto, BundleCurrent
  <2>2. CASE WriteAccountJWT
    <3>1. PICK a \in todo :
            \/ /\ resolver' = [resolver EXCEPT ![a] = NewAccountJWT(a)]
               /\ Goto("bundle", todo \ {a}, None)
            \/ Abort
      BY <2>2 DEF WriteAccountJWT
    <3>2. a \in Accounts
      BY <2>2 DEF WriteAccountJWT, Focus
    <3>3. CASE Abort
      BY <3>3 DEF Abort, BundleCurrent
    <3>4. CASE /\ resolver' = [resolver EXCEPT ![a] = NewAccountJWT(a)]
               /\ Goto("bundle", todo \ {a}, None)
      <4>1. NewAccountJWT(a) \in AccountClaims /\ NewAccountJWT(a).revs = RevocationsFor(a)
        BY <2>2, <3>2 DEF WriteAccountJWT, NewAccountJWT, AccountClaims, KeysHeld, AfterAccounts,
                          RevocationsFor, Parsed, LogsTyped
      <4>2. Readable(NewAccountJWT(a))
        BY <4>1, SentinelAssumption DEF Readable
      <4>3. resolver'[a] = NewAccountJWT(a) /\ \A b \in Accounts \ {a} : resolver'[b] = resolver[b]
        BY <3>2, <3>4 DEF TypeOK
      <4>4. \A b \in Accounts \ todo :
              Readable(resolver[b]) /\ resolver[b].revs = RevocationsFor(b)
        BY <2>2 DEF WriteAccountJWT, RevocationInv, BundleCurrent
      <4> QED BY <1>3, <3>2, <3>4, <4>1, <4>2, <4>3, <4>4 DEF BundleCurrent, Goto, Readable
    <3> QED BY <3>1, <3>3, <3>4
  <2>3. CASE Finish
    BY <1>3, <2>3 DEF Finish, Goto, bundle, RevocationInv, BundleCurrent, Readable
  <2> QED BY <2>1, <2>2, <2>3
<1> QED BY <1>1, <1>2, <1>4 DEF RevocationInv

\* Every step of the specification preserves the revocation invariant.
LEMMA RevocationStep ==
  ASSUME TypeInv, TypeInv', RevocationInv, [Next]_vars
  PROVE  RevocationInv'
<1>1. CASE RunStep
  <2>1. CASE Refuse
    BY <2>1, QuietAbort DEF Refuse
  <2> QED BY <1>1, <2>1, SignerStepsQuiet, OtherStepsQuiet, CaptureRetiredCovers,
             EnsureUserKeyCovered, WriteCredsAccounted, BundleStepsCurrent DEF RunStep
<1>2. CASE Crash
  BY <1>2, QuietAbort DEF Crash
<1>3. CASE Tick
  <2>1. IssuedAccounted'
    BY <1>3, QuietAccounted DEF Tick, QuietLog, QuietSlots, bundle, history, RevocationInv,
                                TypeInv, TypeOK
  <2>2. CapturedBeforeSwap' /\ BundleCurrent'
    BY <1>3 DEF Tick, proc, bundle, history, RevocationInv, CapturedBeforeSwap, BundleCurrent,
                Rotating, Covered, Parsed, RevocationsFor, Readable
  <2> QED BY <2>1, <2>2 DEF RevocationInv
<1>4. CASE UNCHANGED vars
  BY <1>4 DEF vars, proc, bundle, history, RevocationInv, IssuedAccounted, Accounted,
              CapturedBeforeSwap, BundleCurrent, Rotating, Covered, Parsed, RevocationsFor, Readable
<1> QED BY <1>1, <1>2, <1>3, <1>4, OtherStepsQuiet DEF Next

\* What the disk accounts for, in every reachable state.
THEOREM RevocationInvariant == Spec => []RevocationInv
<1>1. Init => RevocationInv
  BY DEF Init, RevocationInv, IssuedAccounted, CapturedBeforeSwap, BundleCurrent
<1> QED BY <1>1, TypeCorrect, RevocationStep, PTL DEF Spec

\* Rotation revokes: after a successful run every user JWT ever written for a cabinet
\* under a key that is no longer the cabinet's is revoked by its account's JWT, for every
\* history of crashes, torn files, retries and deletions in which no append to
\* retired.jsonl ran into a torn line.
THEOREM RotationIsRevocation == Spec => []RetiredAreRevoked
<1>1. TypeInv /\ RevocationInv => RetiredAreRevoked
  <2> SUFFICES ASSUME TypeInv, RevocationInv, pc = "done", ~glued["cabinet"],
                      NEW s \in Slots, NEW j \in issued[s], j.sub # seed[UserKey(s)]
               PROVE  \E r \in resolver[s[1]].revs : Revokes(r, s, j)
    BY DEF RetiredAreRevoked
  <2>1. PICK r \in Parsed("cabinet") : Revokes(r, s, j)
    BY DEF RevocationInv, IssuedAccounted, Accounted, Covered
  <2>2. j.sub \in Nat /\ s[1] \in Accounts
    BY DistrictAssumption DEF TypeInv, TypeOK, Slots
  <2>3. r \in RevocationsFor(s[1])
    BY <2>1, <2>2, SentinelAssumption DEF RevocationsFor, Revokes
  <2>4. resolver[s[1]].revs = RevocationsFor(s[1])
    BY <2>2 DEF RevocationInv, BundleCurrent
  <2> QED BY <2>1, <2>3, <2>4
<1> QED BY <1>1, TypeCorrect, RevocationInvariant, PTL

=============================================================================
