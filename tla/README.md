# vikasa-infra: TLA+ models and proofs

vikasa-infra turns a declarative topology of a DOT (districts, partitions, clusters, a
central tier, an optional DMZ) into deployable NATS configuration, and mints and rotates
the credentials of its field cabinets. It is three command-line programs that keep all
their state in files:

| program | reads | writes |
|---|---|---|
| `cmd/issue` | spec, cabinet inventory, the bundle directory | the bundle: operator, account and user keys, JWTs, client certificates, audit logs |
| `cmd/credhealth` | the bundle | a report, an exit code, a metrics file |
| `cmd/gen` | spec, inventory, a previous spec | a tree of manifests, a rebalance runbook, a prune manifest |

Nothing runs concurrently inside a program. What is hard is **what is on disk between two
steps**: a run is a chain of some tens of file writes, most of them not atomic, and the
next run, perhaps with other flags, starts from whatever the last one left. The second
source of trouble is **long histories of legal edits** to spec and inventory: a cabinet
moves to another district, a partition to another cluster, a district is renamed.

## 1. Inventory

**Issuance and rotation** (`internal/issuance`, `internal/pki`, `cmd/issue`).
State: the bundle (key files, `operator.jwt`, `resolver/*.jwt`, the CA, per cabinet
`.nkey`/`.creds`/`.key`/`.crt`, per DMZ consumer `.nkey`/`.creds`) and three append-only
audit logs under `revocations/`. Operation: one run, whose flags choose what to re-key.
Keys are mint-once; JWTs and certificates are signed again in every run. A rotation first
appends the old public key to the log, then swaps the key; at the end of the run the log
is folded into the account JWTs as revocations. Hard: crashes between and inside the
writes, retries, flags that refuse each other's torn files, checks that come after the
first writes. Correct when: rotated-out credentials are revoked; a successful run leaves
one chain of trust; no crash makes the bundle unusable for good; roots are never replaced
behind the operator's back.

**Credential health** (`internal/credhealth`, `cmd/credhealth`, `selectExpiring`).
State: none of its own; it reads the expiry of every file `cmd/issue` wrote. Interaction:
the scan drives `-rotate-expiring`; its exit code, or the alerts made from its metrics
file, drive the operator. Hard: boundaries of the window, scans of half-written bundles,
files nobody owns any more, a metrics file that outlives the scans. Correct when: a healthy
report holds for the whole window, and silent alerts mean that nothing has expired.

**Plan pipeline** (`internal/topology`, `naming`, `plan`, `accounts`, `fleet`,
`render/rebalance.go`, `cmd/gen`). Pure functions from a spec to streams, DNS records and
accounts, and a diff of two such plans. Hard: names that collide after sanitising, map
iteration order, cross references between tiers after a move, completeness of the diff,
and whether the runbook made from the diff, carried out in order, reaches the new plan.

**Output tree** (`render/writetree.go`). State: the output directory and
`.vikasa-manifest`. Hard: kills between files, the manifest written last, best-effort
removals.

**Renderers and substrate dispatch** (`internal/render/*`): files from a plan, no state.
A cluster's slice is rendered as Kubernetes manifests, as a Helm chart or as bare-metal
configuration; guide, diagram, DNS list, accounts and share catalog are rendered from the
same plan next to them. Hard: the same fact is worked out in several places (the packaging
path, which streams there are, which host a server is reached at), and Helm reads braces
that are meant for Prometheus. Correct when: the renderings agree, name only files that
exist, and offer consumers what their credentials and the egress stream give them.

## 2. Modules

| module | models | built on |
|---|---|---|
| `Issuance` | a run of `cmd/issue`, step by step, with crashes, torn writes and the operator's deletions | |
| `RevocationAuthority` | what `cmd/issue` promises of a cabinet's user key, without steps or files | |
| `IssuanceInvariants` | the inductive invariants and the refinement mapping | `Issuance`, `RevocationAuthority` |
| `IssuanceProofs`, `AuthorityProofs` | proofs: types, revocation, refinement | `IssuanceInvariants` |
| `IssuanceRecovery` | the operator repairing the bundle after failed runs; liveness | `IssuanceInvariants` |
| `IssuanceSafetyProofs` | proofs: roots, audit, wedging, chain of trust, repairs | `IssuanceProofs`, `IssuanceRecovery` |
| `CredHealth` | expiry of the bundle under scans, alerts, runs, moves, CA renewal | |
| `CredHealthProofs` | proofs: what reports, runs and alerts promise | `CredHealth` |
| `Plan` | the pure pipeline as operators | |
| `Render` | the renderers and the dispatch to them, as operators | `Plan` |
| `Gen` | `cmd/gen` run after run while spec and inventory are edited; the runbook carried out | `Render` |
| `GenProofs` | proofs: plans and their differences | `Gen` |
| `RenderProofs` | proofs: the tree of files | `GenProofs` |
| `RunbookProofs` | proofs: REBALANCE.md carried out, its end and its phases | `RenderProofs` |
| `TreePublication` | what `WriteTree` promises: whole files of one spec at a time | |
| `WriteTree` | the output directory under killed runs, and its refinement mapping | `TreePublication` |
| `WriteTreeProofs` | proofs: the tree is current, refinement | `WriteTree` |
| `MC*` | small instances for TLC | |

### Issuance

`pc` names the step the run is at; each step is one read-modify-write of one file, in the
order of `IssueWithRotation`. `seed[f]` is the key in key file `f`: a number (the n-th
keypair made for that file), `None` (no file) or `Torn` (there, but does not parse). A
JWT or certificate is a record of the key numbers it names. `os.WriteFile` truncates and
then writes, so every write has two outcomes: the new content and the run goes on, or
`Torn` and the run is over. Death between two writes is `Crash`. (A `.creds` cut behind
its JWT part reads as whole for every reader of this code; it is the whole write followed
by `Crash`.)

An audit log is the set of its complete lines (`log`) and the bytes after its last newline
(`tail`). An append that is cut short leaves part of a record, or all of it without the
newline; the next append lands on that line, and the merged line does not parse. `glued`
remembers that this has happened.

`Blocked`/`Refuse` are the error returns that depend on the disk or on the flags; note how
many come after the signing keys have been swapped. The order in which accounts and
cabinets are visited is left open: the code's order is one of those allowed.

History variables: `gen` (keypairs made), `issued` (user JWTs ever written for a cabinet),
`glued`.

Abstracted: permissions and names inside JWTs, file modes, wiping of key bytes, the
`accounts.index` and `resolver.conf` files (written, never read back).

`RevocationAuthority` is the contract behind rotation: a credential is handed out under the
present key; a key is given up (replaced, or lost with a torn file) only when everything
handed out under it is on the revocation list; an account is served with that list. It has
no runs, no files and no crashes. The mapping (`UserKeys`, `ServedLists`) shows an
unreadable key or account JWT as absent and the list as `loadRevocations` reads it. The
contract lapses once a line of the log is damaged, which is what `torn_append` is about.

### CredHealth

A path is `<<kind, district, identity>>` and a file is its expiry day. A run is the order
in which it rewrites the time-bound files, one file open (truncated) at a time, so that a
scan can meet a half-written bundle. `alarm` is the operational contract: a scan that does
not exit 0 and an edited inventory ask for a run of `cmd/issue` before the day ends, and
scans are at most `Period` days apart. That contract is an assumption about the operator,
as `Warn >= Period` is one about the configuration.

`watch` chooses who looks: at exit codes (with the contract above), or only at the alerts of
`credhealth-prometheusrule.yaml`. In the second case nothing is assumed: scans and metrics
writes may fail or stop, time goes on, and the alerts are computed from the last metrics
file. The thresholds keep their order (stale < critical <= soon), not their days; the
`for:` delays are left out. Of the gauges only the least is kept, since every alert
compares single gauges with a threshold.

### Plan and Gen

Identifiers are sequences of words, so that `Sanitize` and `LeafDNSName` lose exactly what
they lose in the code: the difference between `/` and `-`. Subjects are sequences of
tokens and `UnderPrefix` is the token-boundary rule. `Builds(t)` is a set: `districtOf`
returns whichever match the map iteration meets first, so overlapping subject spaces give
several plans. `RunGen` builds the plan for the spec and the one for the previous spec,
attaches the same inventory to both, and diffs them.

A cluster's leaf endpoint is a field of the spec that edits change like the others; the
history variable `before` is the spec that was given with `-previous`.

`FollowRunbook` is REBALANCE.md carried out by an operator on the clusters as the previous
plan left them: applying a manifest creates or updates what it lists and deletes nothing,
so that whatever the runbook forgets stays wrong. `Stages` is the way there: what is
deployed and what the leaf records say after each phase.

### Render

A file is the set of `<<field, kind, value>>` that its template fills in; everything a
template spells out alike for all clusters is left out. The kind is there for Helm: a
sentinel, a live reference, braces, escaped braces. `HelmTemplate` is what `helm template`
does with them (external), so that a chart can be compared with the plain manifests.
`Rendered` is the list of maps that `cmd/gen` merges, in its order.

### WriteTree

A file's bytes are the spec they were rendered from; `Produces` is what the merged
renderers return for a spec. `Kill` strikes between any two steps; the manifest, written
in place, can be cut short.

## 3. What TLC checks

Passing runs (times with two workers):

| run | instance | shows | time |
|---|---|---|---|
| `rotation` | one cabinet, a consumer, two keys of each kind that rotates, two seconds, two torn files at a time | `TypeInv`, `RevocationInv`, `RetiredAreRevoked`, `ServedCredsOutliveRevocation`, `NeverWedged`, `RevocationsPersist`, `ImplementsAuthority` | 130 s |
| `recovery` | two cabinets of one account, a consumer, two faults, two wishes (a rotation of everything, two that fail after the signing keys were swapped, a run without inventory, a deleted account root or CA, an impatient retry) | `TrustChain`, `RetiredAreRevoked`, `RevocationsPersist`, `AuditBeforeSwap`, `RootsAreSticky`, `AlwaysRecovers` | 60 s |
| `write_tree` | three specs, four paths, kills, failed removals | `TreeTypeOK`, `TreeInv`, `TreeIsCurrent`, `ImplementsPublication` | 5 s |
| `health` | two cabinets, two districts, six days, one cut-short run, two inventory edits | `HealthTypeOK`, `AllClear`, `NoOutage`, `OwnSlotsSettle`, `SilenceIsSafe` | 45 s |
| `gen` | two districts, two partitions, two clusters on four substrates and two leaf endpoints, five shares, one cabinet, four sets of flags, three edits from a small and from a full spec | `SourcesResolve`, `DeltaComplete`, `RerunIsQuiet`, `CabinetsScoped`, `SharesFlow`, `ReferencesResolve`, `RenderingsAgree`, `HelmMatchesKustomize`, `ShareContract`, `RunbookReachesPlan`, `PhasesStayOnline` | 140 s |

The properties in a sentence each:

- `RetiredAreRevoked`: after a successful run every user JWT under a key that is no longer
  the cabinet's is revoked, whatever crashed before. `RevocationsPersist`: no later bundle
  drops a revocation.
- `ServedCredsOutliveRevocation`: a run does not issue a JWT that its own bundle's
  revocation postdates, although a dead rotation may have recorded the key still in use.
  At equal seconds the new JWT *is* rejected; the property says "not newer", not "older".
- `NeverWedged`: `-rotate` refuses a torn `.creds` or `.crt`, a plain run refuses a torn
  key; no crash leaves a cabinet with the combination that both refuse.
- `TrustChain`: after a successful run operator JWT, account JWTs, user JWTs and
  certificates name each other's present keys. It says nothing of cabinets after a run
  without an inventory: such a run with `-rotate-account-sk` breaks them, and warns.
- `AuditBeforeSwap`, `RootsAreSticky`: see the comments in the module.
- `ImplementsAuthority`, `ImplementsPublication`: the detailed specifications implement the
  abstract ones.
- `AlwaysRecovers`: a failed run is eventually followed by a successful one.
- `AllClear`: for `Warn` days after a healthy scan no cabinet credential in the bundle
  expires, nor the CA certificate. `NoOutage`: with no alarm pending no deployed one has.
  `OwnSlotsSettle`: after `-rotate-expiring --apply` nothing a cabinet now uses is in the
  window. `SilenceIsSafe`: from the first metrics file on, while neither the critical nor
  the stale alert fires, nothing a cabinet depends on has expired.
- `SourcesResolve`, `SharesFlow`, `CabinetsScoped`: the tiers, accounts and cabinets of one
  plan fit together. `DeltaComplete`: old plan + delta = new plan. `RerunIsQuiet`: an
  unedited spec gives an empty delta, whatever became of the inventory.
- `ReferencesResolve`, `RenderingsAgree`, `HelmMatchesKustomize`: no path is produced twice,
  named files exist, all renderings show the plan's streams, and a chart with its default
  values is the plain manifests. `ShareContract`: catalog, credentials and egress stream
  agree, and consumers are separated from one another.
- `RunbookReachesPlan`: REBALANCE.md carried out on the old plan gives the new one.
  `PhasesStayOnline`: and from one of its phases to the next, a partition that both specs
  have is sent, by its leaf record, to a cluster that holds its stream, and central sources
  that stream.
- `TreeIsCurrent`: a finished run's files are its own, and with `-prune` all others are
  ones no manifest listed. `TreeInv`: the bookkeeping behind it.

Bounds, and why they are enough. A property of rotation is about the old and the new key
of one cabinet; two generations allow a rotation, its failures and its retries, and plain
runs before and after (`recovery` has the second rotation, whose record meets what the
first left behind). `TwoTorn` bounds the files that are torn at one time, not the kills:
a run refuses a torn file or rewrites it, and no guard reads three files. Two cabinets (in
`recovery`) suffice to see one's record or key in the other's way; a fault in the first
attempt and one in its repair suffice to see a repair start from what a repair left. The
clock needs two values: the same second, and a later one. In `recovery` the keypair bound exceeds what the faults and wishes can
use, so it never stops a run. Six days cover the life of a certificate (3), of the CA
(5), and a renewal. Three edits from a spec that already has everything reach a move of a
partition beside a DMZ, a move together with a change of replicas, and colliding names;
the two starting points stand for what longer histories build up. In `health` cabinets and
districts are permuted freely by `SYMMETRY`: no definition tells them apart, and the run
checks invariants only. Nowhere else is symmetry declared.

Runs that show a disagreement between the code and what the repository says of it:

| run | property | what happens |
|---|---|---|
| `torn_append` | `RotationRevokes` | a rotation dies inside its audit append; the retry's record is glued to the torn line and skipped; the old JWT is never revoked |
| `move` | `RotatedIdRevoked` | a moved cabinet is rotated; its JWT under the old district stays valid |
| `stranded` | `UnwarnedRunsReissue` | a run rotates account signing keys with the inventory and dies; the next run without one succeeds silently, and the cabinets' `.creds` are signed by a key the account no longer lists |
| `health_dmz` | `HealthyCoversDMZ` | an expired DMZ consumer credential is not scanned |
| `overlap` | `RerunIsQuiet` | nested subject prefixes pass validation; the plan depends on map order |
| `central_names` | `StreamNamesUnique` | a district called `central` with partition `d1/0` is accepted, and its stream has the name of the central shard of district `d1`, partition `0` |
| `rehost` | `RunbookKeepsStreams` | a cluster's js-domain changes: its streams count as moved to where they are, and the runbook's last phase deletes them |

The passing properties state their exceptions in their own text: `RetiredAreRevoked` and
`RevocationsPersist` carry the premise "no append ran into a torn line" that `torn_append`
shows to be needed; `gen` uses disjoint subject spaces (`overlap`) and no district called
`central` (`central_names`); `RunbookReachesPlan` excepts what `rehost` shows, moves within
one js-domain, and the central shards that `buildRebalanceData` leaves out without cause;
`PhasesStayOnline` excepts the first two and moves onto central's own cluster;
`ReferencesResolve` and `HelmMatchesKustomize` except paths that name nothing and clusters
without a namespace. All of these are in section 5 with the lines that say otherwise.
`TreeIsCurrent` excepts the files of a killed run: no manifest ever listed them, so no
later `-prune` removes them. `OwnSlotsSettle` says that a cabinet which `-rotate-expiring`
still selects right after `--apply` has a file in a slot it no longer has: the old files
of a moved cabinet keep it selected, and every `--apply` re-keys it again.

**Fairness.** Only `RecoverySpec` has any: weak fairness of `RunOrFault` (a started process
takes its next step or fails; the operating system schedules it) and of `Repair` (the
operator does not walk away from a failed run). Faults are bounded, not fair. Nothing is
assumed of further wishes.

**Deadlock** is checked in every run. `Rest` in `IssuanceRecovery` is the one state in
which stopping is right: a complete bundle and nothing asked for.

## 4. What is proved

Every invariant and action property that a passing run checks, and both refinements, are
theorems: TLC shows them on the instances of section 3, TLAPS for all values of the
constants that satisfy the named assumptions of the modules. How large the bounds
(`MaxGen`, `MaxClock`, `MaxDay`, `MaxEdits`, ...) are makes no difference to any of them.
The one exception is `AlwaysRecovers` (see the end of this section).

The assumptions are what the code's own checks or types establish: sentinels differ from
all content (`SentinelAssumption`, `HealthSentinelAssumption`, `NoPathAssumption`);
districts have accounts, consumers are not cabinets, jobs are of type `JobType` and name a
cabinet once (`fleet.Load` rejects duplicates); ids, host file names and subjects are
sequences of words (`WordsAssumption`, `SubstratesAssumption`, `SubjectsAssumption`,
`DotAssumption`, `SharesAssumption`: `tokenRE` and `partitionIDRE` in `topology.go` admit
neither an empty id nor a wildcard); specs have their type. `LifetimeAssumption` is about
the configuration, not the code: it orders lifetimes, window, scan period and thresholds as
the defaults do.

### Issuance

`IssuanceProofs`:

1. `TypeCorrect`: `Spec => []TypeInv`. `TypeOK` alone is not inductive: `WriteCreds` puts
   `seed[UserKey(cur)]` into a JWT, and that is a key number only because an earlier step
   of the same run loaded or wrote it. `TypeInv` adds what the loop variables range over
   at each step (`Focus`), that a log holds its own kind of record (`LogsTyped`), and
   which key files are readable at each step (`KeysHeld`). One lemma per group of actions.
2. `RevocationInvariant`: `Spec => []RevocationInv`. The property of finished runs needs
   an account of every moment in between: each JWT ever issued is either covered by a line
   of `retired.jsonl`, or its key is still in the seed file and the `.creds` beside it is
   the one that names it, or is torn (`IssuedAccounted`). A torn `.creds` is why
   `captureRetired` must refuse rather than skip: the proof of `CaptureRetiredCovers` uses
   exactly that, and the fault that tolerates it breaks the invariant in TLC.
   `CapturedBeforeSwap` bridges the two steps of a rotation, `BundleCurrent` says that the
   account JWTs written so far carry what the log says.
3. `RotationIsRevocation`: `Spec => []RetiredAreRevoked`, from the two above.

`EnsureKeyOutcome` and `AppendOutcome` are the lemmas all actions rest on: what a
mint-or-reuse step and an append can do to the state.

`AuthorityProofs`, from both invariants: `IssuanceImplementsAuthority`,
`Spec => ImplementsAuthority`. The initial state maps to `AuthorityInit`; every action is
shown to be one abstract step or a stutter. Most change nothing the authority sees. The
two that matter are the write of a user key, which needs `CapturedBeforeSwap` when the
cabinet is rotating and, when it is not, that a key file is written only where there was
none and then nothing was issued (`IssuedAccounted`); and the signing of an account JWT,
whose revocations are the log's.

`IssuanceSafetyProofs` starts from a set of lemmas that turn the disjunction of actions
around: for each file, which steps may write it, when, and what (`KeyMinter`,
`AccountJWTWriter`, `CACertWriter`, ...). Each theorem then has one case per writer of the
files it mentions instead of one per action.

- `IdentitiesAreMintOnce` (`RootsAreSticky`): from `TypeInv` and the writers alone.
- `RevocationsAccumulate` (`RevocationsPersist`): needs that the JWTs on disk, of whatever
  run, carry nothing the log has lost since (`ServedFromLog`).
- `NoCabinetIsWedged` (`NeverWedged`): by `WedgeInv`. No artifact outlives its key file
  (`KeysFirst`), and what `captureRetired` has read stays readable until the rotation
  overwrites it (`CapturedIntact`); so a rotation tears a `.creds` or `.crt` only when the
  keys beside it are readable.
- `SwapsAreAudited` (`AuditBeforeSwap`): by `AuditedBeforeSwap`, which bridges capture and
  swap, and `KeysFirst`, for swaps where there was no key.
- `OneChainOfTrust` (`TrustChain`): by `ChainInv`, which says at each step of a run which
  accounts, cabinets and consumers are served already and that what they were served names
  the keys on disk. The point of the argument is that no later step of the same run
  changes a key that an earlier one was signed with.
- `IssuedOutlivesRevoked` (`ServedCredsOutliveRevocation`): by `RecordsPast`, that no
  record is from the future and none of a row served in this run is newer than what it was
  served. It leaves the equal second open, where the server does reject the new JWT.
- `RepairsAreRuns`: `RecoverySpec => Spec` when `Jobs` contains the repairing invocations,
  and so `RepairsKeepTheChain`. (The instance of `recovery` lists only the wishes under
  `Jobs`; there the two invariants are checked directly.)

### Credential health

`CredHealthProofs`: `HealthTypeCorrect`, and by `HealthInv` the four promises
`HealthyPromisesTheWindow` (`AllClear`), `ScheduledScansPreventOutage` (`NoOutage`),
`ApplySettlesOwnSlots` (`OwnSlotsSettle`) and `SilentAlertsAreSafe` (`SilenceIsSafe`).
`HealthInv` dates every file against the last moment somebody looked: `ClearInv` against
the last healthy report, `ScheduleInv` against the last scan while no alarm is pending,
`RunInv` against the run under way, `MetricsInv` against the metrics file, which either
shows an artifact's expiry or is older than it by more than `StaleAfter`. That anything
written later expires later is `ExpiryFacts`, and needs `Warn + Skew < Validity`.

### Plans

`GenProofs` goes through a closed form of a plan: `AttachedPlan` shows that `Build` and
`AttachCabinets` return `PlanOf(t, i, of)`, one regional stream and one shard per partition
and at most one egress stream, where `of` is the choice of `districtOf`. `RunResult` (what
is in memory was computed from the files as they are) is the invariant; the rest is about
plans of that form.

- `TiersJoinUp` (`SourcesResolve`), `CabinetsStayInScope` (`CabinetsScoped`, by
  `UnderPrefixCovers`: the token-boundary rule agrees with NATS matching),
  `SharesReachTheDMZ` (`SharesFlow`): without provisos.
- `OnlyCentralNamesCollide`: two streams with one name are a partition's, whose district's
  id starts with the word `central`, and a central shard. `Build` compares the names of the
  partitions' streams with each other and not with those of the shards; the theorem says
  that nothing else is missing from that check, and `central_names` that this is.
- `DeltasAreComplete` (`DeltaComplete`): for district ids that do not start with the word
  `central` (`NoCentralDistrict`), so that by the theorem above no two streams share a name
  (`NamesDiffer`). `Diff` looks streams up by name: with the collision it loses one.
- `RerunsAreQuiet` (`RerunIsQuiet`): as long as every share lies in the space of one
  district only, which is what the run `overlap` shows to be needed.

### The tree and the runbook

`RenderProofs` first computes what each renderer returns: the paths of a slice on each
substrate (`SliceSays`, `KubernetesSlice`, `ChartFiles`), which of them can be equal, and
that `Merged` then finds every file again. On that rest

- `ReferencesAreGood` (`ReferencesResolve`), `CatalogIsKept` (`ShareContract`) and
  `ChartsMatchManifests` (`HelmMatchesKustomize`), under no condition but the exceptions
  the properties themselves state: the first says nothing of REBALANCE.md beside charts nor
  of the guide's notes on clusters without a slice, the last nothing of clusters without a
  namespace;
- `RenderingsDoAgree` (`RenderingsAgree`), with `NoCentralDistrict`: two streams with one
  name share a bare-metal file, and the property finds a central shard by its name.

`RunbookProofs`: `RunbookDoesReachPlan` (`RunbookReachesPlan`) and `PhasesAreOnline`
(`PhasesStayOnline`), both with `NoCentralDistrict`.
Both plans are `WellNamed` and `WellJoined` (a shard is named after a regional stream of
its own plan, and sources that one where it is); both are invariants. Two facts carry the
argument. The edits of central's sources, for moved and for decommissioned streams, leave a
stream of the new plan as it is (`NewStreamsSettled`), so whatever a phase gets right stays
right. And they turn a shard that stays where it is without a row into the new plan's
(`UnlistedStreamsFollow`): its source is a moved stream, all of whose rows agree
(`RowsAgree`). `ClusterReachesPlan` then
follows each stream of either plan through the phases of one cluster.

`PhasesAreOnline` follows a partition's stream and its central shard from phase to phase
(`PhasesKeepRoutes`): up to phase 3 the old cluster holds what central sources, from phase
3 on the new one does. The proviso on moves onto central's cluster is used for phase 1,
which the old shard has to survive.

### The output tree

`WriteTreeProofs`, for all specs, paths and renderings: `TreeTypeCorrect`, `TreeInvariant`,
`FinishedTreeIsCurrent`, and `WriteTreePublishes` (`TreeSpec => ImplementsPublication`).
`TreeInv` says, for every point of the prune and write loops, which paths already carry the
new spec's rendering, and that what is on disk is listed by the manifest, belongs to the
run under way, or was left by a run that never got to its manifest or by a failed removal.

### Model-checked only

`AlwaysRecovers`, which is liveness under fairness and out of the prover's reach; what the
runs that expect a violation show, which are counterexamples; and that the instances'
actions can all be taken.

## 5. Not modelled

- Two runs of `cmd/issue` on one directory at once: nothing prevents it, nothing claims to
  support it.
- A clock that goes backwards; the same second is covered.
- Deleting a cabinet's seed by hand, which re-keys it without a revocation.
- The fixed text of manifests, charts, diagrams and runbooks, with ports, retention and
  sizes; JSON decoding; the spelling rules of ids and subjects; X.509 and JWT encoding.
- `gen -previous` with an inventory that names a partition the previous spec lacks fails
  (`Generable`); nothing says what it should do instead.
- NATS itself. What a revocation rejects (`Revokes`) and what a subject matches
  (`Matches`) are taken from how the code uses them.

**Where the code and the repository's own text part**, besides the runs of section 3 that
show it. These are met while modelling; the properties that come near them state them as
exceptions.

- A partition that moves onto central's own cluster: phase 1 applies that cluster's
  `streams.yaml`, which already holds central's shard with the new source only, so that
  central stops sourcing the old stream before phase 3 sends the cabinets away from it, and
  phase 5 deletes it. `rebalance.tmpl:3` says "each phase is online", `:12` "no gap".
  (`PhasesStayOnline` without its last premise: TLC finds such a move.)
- A move between two clusters of one js-domain: phase 5 removes the source that phase 2
  added, since they are the same. Again `rebalance.tmpl:3`, and `rebalance.go:17-18`: "the
  ordered §6 online rebalance steps".
- When anything moves, `buildRebalanceData` leaves out every modified central shard, also
  one whose change the moves do not explain: after a change of `central.replicas` beside a
  move, REBALANCE.md does not mention the replicas. The comment at `rebalance.go:83-85` says
  that "its source changes are already covered". (`RebalanceNamesAll` states it.)
- A chart whose cluster has no namespace has a certificate for `nats..svc.cluster.local`;
  the plain manifests leave that name out (`k8s.go:411-413`). `docs/runbooks/helm-output.md:74-77`
  and `helm.go:22-23` say that a chart with its default values gives the same manifests.
- The guide lists bare-metal files also for clusters without a stream, which get no slice,
  and a central path also when there is no partition; `runbook.go:60-63` says that its paths
  "must match what was actually generated". REBALANCE.md names `clusters/<id>/` in Helm mode
  too, where kubernetes slices are under `charts/`.
- Certificates carry the host of the leaf endpoint and the service name (`k8s.go:409-413`),
  not the leaf DNS names that cabinets dial over mTLS according to `plan.go:223-224` and
  `docs/ARCHITECTURE.md:210`, `:265-266`. Which name a cabinet verifies is set outside this
  repository.

**Observations** that no document contradicts:

- The diagram draws one DMZ edge, from the last central shard, whatever the egress stream
  sources (`diagram.go:112-151`).
- Two bare-metal hosts that differ in `:` and `/` only share a file name, and removing a
  host renumbers the server names of those behind it (`baremetal.go:187-200`).
- An artifact that does not parse has no gauge, and no alert reads the counts by status;
  `CredHealthStale` cannot fire before the first metrics file. Who watches alerts only does
  not see either.

## 6. Plan

Done: the modules above, in the order Issuance, its proofs, recovery, WriteTree,
CredHealth, Plan and Gen; then the abstract specifications and refinements, Render, the
runbook carried out, the alerts; then the proofs of every safety property.

Next: what would make the theorems say more rather than be more. The provisos of
`RunbookReachesPlan` in terms of the two specs (which edits give a runbook that is
complete); that `-rotate-expiring` converges when no cabinet has moved; a version of
`RenderingsAgree` that does not find streams by their names and so does without
`NoCentralDistrict`; the safety part of recovery, that every failed state has a repair
that is not refused.

## Running

    tlc -workers 2 -config MCRotation.cfg MCIssuance
    for m in *Proofs.tla; do tlapm $m; done
