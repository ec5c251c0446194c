--------------------------- MODULE AuthorityProofs ---------------------------
(***************************************************************************)
(* Issuance implements RevocationAuthority: the proof, for every instance. *)
(***************************************************************************)
EXTENDS IssuanceProofs

\* Steps an outsider does not see: they leave retired.jsonl, the cabinets' user keys,
\* what was issued and the account JWTs alone.
Unseen ==
  /\ QuietLog
  /\ issued' = issued /\ resolver' = resolver
  /\ \A s \in Slots : seed'[UserKey(s)] = seed[UserKey(s)]

\* They are stuttering steps of the authority.
LEMMA UnseenStutters ==
  ASSUME Unseen PROVE UNCHANGED Authority!avars
<1>1. UserKeys' = UserKeys
  BY DEF Unseen, UserKeys, Readable
<1>2. ServedLists' = ServedLists
  BY DEF Unseen, ServedLists, Readable
<1>3. Parsed("cabinet")' = Parsed("cabinet")
  BY DEF Unseen, QuietLog, Parsed
<1> QED
  BY <1>1, <1>2, <1>3 DEF Unseen, QuietLog, Authority!avars

\* A run that ends early between two writes is unseen.
LEMMA AbortUnseen ==
  ASSUME UNCHANGED <<bundle, history>> PROVE Unseen
BY DEF Unseen, QuietLog, bundle, history

\* ensureKeypair on a file that is no cabinet's user key is unseen.
LEMMA OtherKeyUnseen ==
  ASSUME TypeOK, NEW f \in KeyFiles, NEW force, NEW n, NEW t, NEW c,
         EnsureKey(f, force, n, t, c), \A s \in Slots : UserKey(s) # f,
         UNCHANGED <<resolver, log, tail, glued, issued>>
  PROVE  Unseen
<1>1. \A g \in KeyFiles : g # f => seed'[g] = seed[g]
  BY EnsureKeyOutcome
<1> QED
  BY <1>1, FileMembers DEF Unseen, QuietLog

\* An append to another log is unseen.
LEMMA OtherLogUnseen ==
  ASSUME TypeOK, NEW f \in LogFiles \ {"cabinet"}, NEW r \in LogRecord, NEW n, NEW t, NEW c,
         AppendRecord(f, r, n, t, c), UNCHANGED <<seed, resolver, issued>>
  PROVE  Unseen
BY AppendOutcome DEF LogFiles, Unseen, QuietLog

\* ensureOperator and ensureAccounts are unseen.
LEMMA SignerStepsUnseen ==
  ASSUME TypeInv,
         \/ EnsureOperatorKey \/ CaptureRetiredOperatorSK
         \/ EnsureOperatorSK \/ WriteOperatorJWT
         \/ EnsureAccountKey \/ CaptureRetiredAccountSK
         \/ EnsureAccountSK \/ AccountsEnsured
  PROVE  Unseen
<1> USE FileMembers, FilesDistinct DEF TypeInv
<1>1. CASE EnsureOperatorKey
  BY <1>1, OtherKeyUnseen DEF EnsureOperatorKey
<1>2. CASE EnsureOperatorSK
  BY <1>2, OtherKeyUnseen DEF EnsureOperatorSK
<1>3. CASE EnsureAccountKey
  <2>1. PICK a \in todo, m \in {"acctcap", "acctsk"} :
          EnsureKey(AccountKey(a), FALSE, m, todo \ {a}, a)
    BY <1>3 DEF EnsureAccountKey
  <2>2. a \in Accounts
    BY <1>3 DEF EnsureAccountKey, Focus
  <2>3. /\ AccountKey(a) \in KeyFiles /\ \A s \in Slots : UserKey(s) # AccountKey(a)
        /\ UNCHANGED <<resolver, log, tail, glued, issued>>
    BY <1>3, <2>2 DEF EnsureAccountKey
  <2> QED BY <2>1, <2>3, OtherKeyUnseen
<1>4. CASE EnsureAccountSK
  <2>1. cur \in Accounts
    BY <1>4 DEF EnsureAccountSK, Focus, AccountSteps
  <2> QED BY <1>4, <2>1, OtherKeyUnseen DEF EnsureAccountSK
<1>5. CASE CaptureRetiredOperatorSK
  <2>1. CASE Readable(opJWT) /\ AppendRecord("operator-sk", [sk |-> opJWT.sk], "opsk", {}, None)
    <3>1. [sk |-> opJWT.sk] \in LogRecord
      BY <2>1 DEF Readable, TypeOK, OperatorClaims, LogRecord, RetiredOperatorSK
    <3> QED BY <1>5, <2>1, <3>1, OtherLogUnseen DEF LogFiles, CaptureRetiredOperatorSK
  <2>2. CASE UNCHANGED <<log, tail, glued>>
    BY <1>5, <2>2 DEF CaptureRetiredOperatorSK, Unseen, QuietLog
  <2> QED BY <1>5, <2>1, <2>2 DEF CaptureRetiredOperatorSK
<1>6. CASE CaptureRetiredAccountSK
  <2> DEFINE r == [acct |-> cur, sk |-> resolver[cur].sk]
  <2>1. CASE Readable(resolver[cur]) /\ AppendRecord("account-sk", r, "acctsk", todo, cur)
    <3>1. cur \in Accounts
      BY <1>6 DEF CaptureRetiredAccountSK, Focus, AccountSteps
    <3>2. r \in LogRecord
      BY <2>1, <3>1 DEF Readable, TypeOK, AccountClaims, LogRecord, RetiredSK
    <3> HIDE DEF r
    <3> QED BY <1>6, <2>1, <3>2, OtherLogUnseen DEF LogFiles, CaptureRetiredAccountSK
  <2>2. CASE UNCHANGED <<log, tail, glued>>
    BY <1>6, <2>2 DEF CaptureRetiredAccountSK, Unseen, QuietLog
  <2> QED BY <1>6, <2>1, <2>2 DEF CaptureRetiredAccountSK
<1>7. CASE WriteOperatorJWT
  BY <1>7 DEF WriteOperatorJWT, history, Unseen, QuietLog
<1>8. CASE AccountsEnsured
  BY <1>8, AbortUnseen DEF AccountsEnsured
<1> QED BY <1>1, <1>2, <1>3, <1>4, <1>5, <1>6, <1>7, <1>8

\* So are the cabinets' certificates, the CA, the DMZ consumers, the ends of loops and
\* the operator's deletions of other files than an account's.
LEMMA OtherStepsUnseen ==
  ASSUME TypeInv,
         \/ LoadOrCreateCA \/ WriteCAKey \/ BeginCabinet \/ EnsureLeafKey \/ WriteCert
         \/ CabinetsMinted \/ EnsureConsumerKey \/ WriteConsumerCreds
         \/ ConsumersMinted \/ Finish \/ Refuse \/ Crash \/ Tick
         \/ DeleteCA \/ DeleteTornSeed \/ (\E j \in Jobs : Start(j))
  PROVE  Unseen
<1> USE FileMembers, FilesDistinct DEF TypeInv
<1>1. CASE \/ BeginCabinet \/ CabinetsMinted \/ ConsumersMinted \/ Finish
           \/ Refuse \/ Crash \/ Tick \/ (\E j \in Jobs : Start(j))
  BY <1>1, AbortUnseen DEF BeginCabinet, CabinetsMinted, ConsumersMinted, Finish, Refuse,
                           Crash, Tick, Start
<1>2. CASE LoadOrCreateCA
  BY <1>2 DEF LoadOrCreateCA, Unseen, QuietLog
<1>3. CASE WriteCAKey
  <2>1. \A s \in Slots : seed'[UserKey(s)] = seed[UserKey(s)]
    BY <1>3 DEF WriteCAKey, TypeOK
  <2> QED BY <1>3, <2>1 DEF WriteCAKey, history, Unseen, QuietLog
<1>4. CASE EnsureLeafKey
  <2>1. cur \in Slots
    BY <1>4 DEF EnsureLeafKey, Focus, CabinetSteps
  <2> QED BY <1>4, <2>1, OtherKeyUnseen DEF EnsureLeafKey
<1>5. CASE WriteCert \/ WriteConsumerCreds
  BY <1>5 DEF WriteCert, WriteConsumerCreds, history, Unseen, QuietLog
<1>6. CASE EnsureConsumerKey
  <2>1. PICK c \in todo : EnsureKey(UserKey(c), FALSE, "dmzcreds", todo \ {c}, c)
    BY <1>6 DEF EnsureConsumerKey
  <2>2. c \in DMZConsumers /\ c \notin Slots
    BY <1>6, ConsumerAssumption DEF EnsureConsumerKey, Focus, DMZConsumers
  <2>3. \A s \in Slots : UserKey(s) # UserKey(c)
    BY <2>2
  <2> QED BY <1>6, <2>1, <2>2, <2>3, OtherKeyUnseen DEF EnsureConsumerKey
<1>7. CASE DeleteCA
  <2>1. \A s \in Slots : seed'[UserKey(s)] = seed[UserKey(s)]
    BY <1>7 DEF DeleteCA, TypeOK
  <2> QED BY <1>7, <2>1 DEF DeleteCA, history, Unseen, QuietLog
<1>8. CASE DeleteTornSeed
  <2>1. \A s \in Slots : UserKey(s) \notin Unrotatable
    BY ConsumerAssumption DEF Unrotatable
  <2>2. \A s \in Slots : seed'[UserKey(s)] = seed[UserKey(s)]
    BY <1>8, <2>1 DEF DeleteTornSeed, TypeOK
  <2> QED BY <1>8, <2>2 DEF DeleteTornSeed, history, Unseen, QuietLog
<1> QED BY <1>1, <1>2, <1>3, <1>4, <1>5, <1>6, <1>7, <1>8

-----------------------------------------------------------------------------
\* The steps the authority shows

\* captureRetired lists a record, damages the list, or is unseen.
LEMMA CaptureLists ==
  ASSUME TypeInv, CaptureRetired
  PROVE  [Authority!AuthorityNext]_Authority!avars
<1> USE DEF TypeInv
<1>0. /\ cur \in Slots /\ cur \in Holders
      /\ resolver' = resolver /\ seed' = seed /\ issued' = issued
  BY DEF CaptureRetired, Focus, CabinetSteps, Holders
<1>1. UserKeys' = UserKeys /\ ServedLists' = ServedLists
  BY <1>0 DEF UserKeys, ServedLists, Readable
<1>2. CASE UNCHANGED <<log, tail, glued>>
  <2>1. Unseen
    BY <1>0, <1>2 DEF Unseen, QuietLog
  <2> QED BY <2>1, UnseenStutters
<1>3. CASE creds[cur] # Torn /\ AppendRecord("cabinet", RetiredRecord(cur), "user", todo, cur)
  <2> DEFINE r == RetiredRecord(cur)
  <2>1. r \in LogRecord /\ r # None /\ r # Torn
    <3>1. r \in Retirement
      BY <1>0, <1>3 DEF RetiredRecord, Retirement, TypeOK, UserClaims
    <3> QED BY <3>1, SentinelAssumption DEF LogRecord
  <2> HIDE DEF r
  <2>2. glued'["cabinet"] = (glued["cabinet"] \/ tail["cabinet"] # None)
    BY <1>3, <2>1, AppendOutcome DEF LogFiles, r
  <2>3. CASE tail["cabinet"] = None
    <3>1. Parsed("cabinet")' \in {Parsed("cabinet"), Parsed("cabinet") \cup {r}}
      <4>1. \/ log'["cabinet"] = log["cabinet"] \cup {r} /\ tail'["cabinet"] = None
            \/ log'["cabinet"] = log["cabinet"] /\ tail'["cabinet"] \in {Torn, r}
        BY <1>3, <2>3 DEF AppendRecord, TypeOK, LogFiles, r
      <4> QED BY <2>1, <2>3, <4>1 DEF Parsed
    <3>2. glued'["cabinet"] = glued["cabinet"]
      BY <2>2, <2>3 DEF TypeOK, LogFiles
    <3>3. CASE Parsed("cabinet")' = Parsed("cabinet")
      BY <1>0, <1>1, <3>2, <3>3 DEF Authority!avars
    <3>4. CASE Parsed("cabinet")' = Parsed("cabinet") \cup {r}
      <4>1. Authority!List
        BY <1>0, <1>1, <3>2, <3>4 DEF Authority!List
      <4> QED BY <4>1 DEF Authority!AuthorityNext
    <3> QED BY <3>1, <3>3, <3>4
  <2>4. CASE tail["cabinet"] # None
    <3>1. log'["cabinet"] = log["cabinet"] /\ tail'["cabinet"] \in {None, Torn}
      BY <1>3, <2>4 DEF AppendRecord, TypeOK, LogFiles
    <3>2. Parsed("cabinet")' \subseteq Parsed("cabinet") /\ glued'["cabinet"] = TRUE
      BY <2>2, <2>4, <3>1 DEF Parsed
    <3>3. Authority!Damage
      BY <1>0, <1>1, <3>2 DEF Authority!Damage
    <3> QED BY <3>3 DEF Authority!AuthorityNext
  <2> QED BY <2>3, <2>4
<1> QED BY <1>2, <1>3 DEF CaptureRetired

\* mintCabinet's user key is replaced only when everything handed out is revocable.
LEMMA SwapRekeys ==
  ASSUME TypeInv, RevocationInv, EnsureUserKey
  PROVE  [Authority!AuthorityNext]_Authority!avars
<1> USE FileMembers, FilesDistinct DEF TypeInv
<1>0. /\ cur \in Slots
      /\ resolver' = resolver /\ issued' = issued
      /\ log' = log /\ tail' = tail /\ glued' = glued
  BY DEF EnsureUserKey, Focus, CabinetSteps
<1>1. Parsed("cabinet")' = Parsed("cabinet") /\ ServedLists' = ServedLists
  BY <1>0 DEF Parsed, ServedLists, Readable
<1>2. \A g \in KeyFiles : g # UserKey(cur) => seed'[g] = seed[g]
  BY <1>0, EnsureKeyOutcome DEF EnsureUserKey
<1>3. CASE seed' = seed
  <2>1. Unseen
    BY <1>0, <1>3 DEF Unseen, QuietLog
  <2> QED BY <2>1, UnseenStutters
<1>4. CASE MustMint(UserKey(cur), Rotating(cur))
  <2>1. glued["cabinet"] \/ \A j \in issued[cur] : Covered(cur, j)
    <3>1. CASE Rotating(cur)
      BY <3>1 DEF EnsureUserKey, RevocationInv, CapturedBeforeSwap
    <3>2. CASE seed[UserKey(cur)] = None
      <4>1. ASSUME NEW j \in issued[cur], ~glued["cabinet"] PROVE Covered(cur, j)
        <5>1. j.sub \in Nat /\ Accounted(cur, j)
          BY <1>0, <4>1 DEF RevocationInv, IssuedAccounted, TypeOK
        <5> QED BY <3>2, <5>1, SentinelAssumption DEF Accounted
      <4> QED BY <4>1
    <3> QED BY <1>4, <3>1, <3>2 DEF MustMint
  <2>2. glued["cabinet"] \/ \A j \in issued[cur] : Authority!Revocable(cur, j)
    BY <2>1 DEF Covered, Revokes, Authority!Revocable, Authority!Covers
  <2>3. UserKeys' = [UserKeys EXCEPT ![cur] = UserKeys'[cur]]
    BY <1>0, <1>2 DEF UserKeys, Readable
  <2>4. Authority!Rekey(cur)
    BY <1>0, <1>1, <2>2, <2>3 DEF Authority!Rekey
  <2> QED BY <1>0, <2>4 DEF Authority!AuthorityNext
<1> QED BY <1>3, <1>4 DEF EnsureUserKey, EnsureKey

\* A written .creds is a credential handed out under the current key.
LEMMA CredsHandOut ==
  ASSUME TypeInv, WriteCreds
  PROVE  [Authority!AuthorityNext]_Authority!avars
<1> USE DEF TypeInv
<1>0. /\ cur \in Slots /\ seed[UserKey(cur)] \in Nat
      /\ seed' = seed /\ resolver' = resolver /\ log' = log /\ tail' = tail /\ glued' = glued
  BY DEF WriteCreds, Focus, CabinetSteps, KeysHeld
<1>1. /\ Parsed("cabinet")' = Parsed("cabinet")
      /\ UserKeys' = UserKeys /\ ServedLists' = ServedLists
  BY <1>0 DEF Parsed, UserKeys, ServedLists, Readable
<1>2. CASE issued' = issued
  BY <1>0, <1>1, <1>2 DEF Authority!avars
<1>3. CASE issued' = [issued EXCEPT ![cur] = @ \cup {[sub |-> seed[UserKey(cur)], iat |-> now]}]
  <2> DEFINE j == [sub |-> seed[UserKey(cur)], iat |-> now]
  <2>1. UserKeys[cur] = seed[UserKey(cur)] /\ UserKeys[cur] # None
    BY <1>0, SentinelAssumption DEF UserKeys, Readable
  <2>2. j \in issued'[cur] /\ j.sub = UserKeys[cur]
    BY <1>0, <1>3, <2>1 DEF TypeOK
  <2>3. Authority!HandOut(cur)
    BY <1>0, <1>1, <1>3, <2>1, <2>2 DEF Authority!HandOut
  <2> QED BY <1>0, <2>3 DEF Authority!AuthorityNext
<1> QED BY <1>2, <1>3 DEF WriteCreds

\* An account JWT serves the whole list, or nothing when its write is cut short.
LEMMA BundleServes ==
  ASSUME TypeInv, WriteAccountJWT
  PROVE  [Authority!AuthorityNext]_Authority!avars
<1> USE DEF TypeInv
<1>0. seed' = seed /\ issued' = issued /\ log' = log /\ tail' = tail /\ glued' = glued
  BY DEF WriteAccountJWT, history
<1>1. Parsed("cabinet")' = Parsed("cabinet") /\ UserKeys' = UserKeys
  BY <1>0 DEF Parsed, UserKeys, Readable
<1>2. PICK a \in todo : \/ resolver' = [resolver EXCEPT ![a] = NewAccountJWT(a)]
                        \/ resolver' = [resolver EXCEPT ![a] = Torn]
  BY DEF WriteAccountJWT
<1>3. a \in Accounts
  BY <1>2 DEF WriteAccountJWT, Focus
<1>4. CASE resolver' = [resolver EXCEPT ![a] = NewAccountJWT(a)]
  <2>1. NewAccountJWT(a) \in AccountClaims /\ NewAccountJWT(a).revs = RevocationsFor(a)
    BY <1>3 DEF WriteAccountJWT, NewAccountJWT, AccountClaims, KeysHeld, AfterAccounts,
                RevocationsFor, Parsed, LogsTyped
  <2>2. Readable(NewAccountJWT(a))
    BY <2>1, SentinelAssumption DEF Readable
  <2>3. resolver'[a] = NewAccountJWT(a) /\ \A b \in Accounts : b # a => resolver'[b] = resolver[b]
    BY <1>3, <1>4 DEF TypeOK
  <2>4. ServedLists' = [ServedLists EXCEPT ![a] = RevocationsFor(a)]
    BY <1>3, <2>1, <2>2, <2>3 DEF ServedLists, Readable
  <2>5. Authority!Serve(a)
    BY <1>0, <1>1, <2>4 DEF Authority!Serve, RevocationsFor
  <2> QED BY <1>3, <2>5 DEF Authority!AuthorityNext
<1>5. CASE resolver' = [resolver EXCEPT ![a] = Torn]
  <2>1. resolver'[a] = Torn /\ \A b \in Accounts : b # a => resolver'[b] = resolver[b]
    BY <1>3, <1>5 DEF TypeOK
  <2>2. ServedLists' = [ServedLists EXCEPT ![a] = None]
    BY <1>3, <2>1 DEF ServedLists, Readable
  <2>3. Authority!Withdraw(a)
    BY <1>0, <1>1, <2>2 DEF Authority!Withdraw
  <2> QED BY <1>3, <2>3 DEF Authority!AuthorityNext
<1> QED BY <1>2, <1>4, <1>5

\* Deleting an account's root withdraws its list.
LEMMA DeletionWithdraws ==
  ASSUME TypeInv, NEW a \in Accounts, DeleteAccountRoot(a)
  PROVE  [Authority!AuthorityNext]_Authority!avars
<1> USE FileMembers, FilesDistinct DEF TypeInv
<1>0. issued' = issued /\ log' = log /\ tail' = tail /\ glued' = glued
  BY DEF DeleteAccountRoot, history
<1>1. \A s \in Slots : seed'[UserKey(s)] = seed[UserKey(s)]
  BY DEF DeleteAccountRoot, TypeOK
<1>2. Parsed("cabinet")' = Parsed("cabinet") /\ UserKeys' = UserKeys
  BY <1>0, <1>1 DEF Parsed, UserKeys, Readable
<1>3. resolver'[a] = None /\ \A b \in Accounts : b # a => resolver'[b] = resolver[b]
  BY DEF DeleteAccountRoot, TypeOK
<1>4. ServedLists' = [ServedLists EXCEPT ![a] = None]
  BY <1>3 DEF ServedLists, Readable
<1>5. Authority!Withdraw(a)
  BY <1>0, <1>2, <1>4 DEF Authority!Withdraw
<1> QED BY <1>5 DEF Authority!AuthorityNext

\* Each step of a run is a step of the authority, or one it does not show.
LEMMA StepImplements ==
  ASSUME TypeInv, RevocationInv, [Next]_vars
  PROVE  [Authority!AuthorityNext]_Authority!avars
<1>1. CASE UNCHANGED vars
  <2>1. Unseen
    BY <1>1, AbortUnseen DEF vars
  <2> QED BY <2>1, UnseenStutters
<1>2. CASE Unseen
  BY <1>2, UnseenStutters
<1> QED
  BY <1>1, <1>2, SignerStepsUnseen, OtherStepsUnseen, CaptureLists, SwapRekeys, CredsHandOut,
     BundleServes, DeletionWithdraws DEF Next, RunStep

\* cmd/issue implements the revocation authority: in every behaviour, with any crashes,
\* torn files, retries and deletions, no key of a cabinet is given up before everything
\* issued under it is on the revocation list, and accounts are served with that list.
THEOREM IssuanceImplementsAuthority == Spec => ImplementsAuthority
<1>1. Init => Authority!AuthorityInit
  BY DEF Init, Authority!AuthorityInit, UserKeys, ServedLists, Readable, Parsed, KeyFiles,
         LogFiles, Holders
<1>2. Spec => [](TypeInv /\ RevocationInv)
  BY TypeCorrect, RevocationInvariant, PTL
<1>3. TypeInv /\ RevocationInv /\ [Next]_vars => [Authority!AuthorityNext]_Authority!avars
  BY StepImplements
<1> QED
  BY <1>1, <1>2, <1>3, PTL DEF Spec, ImplementsAuthority, Authority!AuthoritySpec

=============================================================================
