---------------------------------- MODULE Gen ----------------------------------
(***************************************************************************)
(* cmd/gen run after run: the spec and the cabinet inventory are edited,   *)
(* and a run builds the plan, renders it, diffs it against the previous    *)
(* spec's plan and makes the rebalance runbook.  How the tree it makes     *)
(* reaches the disk is module WriteTree.                                   *)
(***************************************************************************)
EXTENDS Render

CONSTANTS
  Spaces,       \* subject-prefix values an operator may declare
  Substrates,   \* substrates a cluster may be on: [type, namespace, hosts]
  Endpoints,    \* leaf-endpoints a cluster may have: <<host, port>>
  Cabinets,     \* field cabinets
  Filters,      \* filters of inventory rows
  Literals,     \* literal subjects, to compare subject spaces by
  Configs,      \* flags of a run: [output, argo]
  BaseSpecs,    \* specs a history may start from
  Fields,       \* the fields of the spec that are edited
  MaxEdits      \* bound: edits in a history

ASSUME GenBoundAssumption == MaxEdits \in Nat
ASSUME SpacesAssumption ==
  \A s \in Spaces : IsStrictPrefix(Anchor, s) /\ Last(s) = Rest
\* What a conf file is named after is a string.
ASSUME SubstratesAssumption ==
  \A b \in Substrates : \A i \in DOMAIN b.hosts : SanitizeHostFilename(b.hosts[i]) \in Seq(STRING)
ASSUME SubjectsAssumption ==
  Spaces \cup Filters \cup Literals \subseteq Subjects

\* A spec, as far as it is modelled.  A partition is listed under its district.
SpecType ==
  [districts : SUBSET DistrictIds, prefix : [DistrictIds -> Spaces \cup {None}],
   place : [DistrictIds \X PartitionIds -> Clusters \cup {None}],
   domain : [Clusters -> Domains], endpoint : [Clusters -> Endpoints],
   substrate : [Clusters -> Substrates],
   central : Clusters, replicas : Nat, dmz : Clusters \cup {None}, dmzReplicas : Nat,
   shares : SUBSET Shares]
PartsListed(t) == \A k \in Parts(t) : k[1] \in t.districts

ASSUME BaseAssumption == \A t \in BaseSpecs : t \in SpecType /\ PartsListed(t)
ASSUME FieldsAssumption ==
  Fields \subseteq {"place", "districts", "prefix", "domain", "central", "replicas", "dmz",
                    "substrate", "endpoint", "shares"}

VARIABLES
  spec,         \* the spec file
  inv,          \* the cabinet inventory
  previous,     \* the spec of the last run that succeeded, given to -previous
  ran,          \* "none" since the last edit, "ok" or "error"
  cfg,          \* the flags of the run that has just succeeded
  plan,         \* its plan
  prior,        \* the plan it built for -previous
  delta,        \* their difference
  rebalance,    \* the rows of REBALANCE.md; None: no such file
  before,       \* history: the spec it was given with -previous; None: none
  edits         \* how much of MaxEdits is used up

memory == <<cfg, plan, prior, delta, rebalance, before>>
gvars == <<spec, inv, previous, ran, memory, edits>>

NoPlan == [streams |-> {}, dns |-> {}]
NoDelta == Diff(NoPlan, NoPlan)

\* Nothing of a run is in memory any more.
Exited ==
  /\ cfg' = None /\ plan' = NoPlan /\ prior' = NoPlan /\ delta' = NoDelta
  /\ rebalance' = None /\ before' = None

GenInit ==
  /\ spec \in BaseSpecs /\ inv = [c \in Cabinets |-> None]
  /\ previous = None /\ ran = "none"
  /\ cfg = None /\ plan = NoPlan /\ prior = NoPlan /\ delta = NoDelta
  /\ rebalance = None /\ before = None /\ edits = 0

\* A partition is placed, moved or removed, its district added if need be; a district is
\* removed with its partitions.
Placed == UNION {{[spec EXCEPT !.place[k] = c, !.districts = @ \cup {k[1]}] :
                    c \in Clusters \cup {None}} : k \in DistrictIds \X PartitionIds}
Removed == {[spec EXCEPT !.districts = @ \ {d},
                         !.place = [k \in DOMAIN @ |-> IF k[1] = d THEN None ELSE @[k]]] :
              d \in DistrictIds}

\* An edit of the spec: one field, to any value of its type.
Edited(f) ==
  CASE f = "place" -> Placed
    [] f = "districts" -> Removed
    [] f = "prefix" -> {[spec EXCEPT !.prefix[d] = s] : d \in DistrictIds, s \in Spaces \cup {None}}
    [] f = "domain" -> {[spec EXCEPT !.domain[c] = m] : c \in Clusters, m \in Domains}
    [] f = "central" -> {[spec EXCEPT !.central = c] : c \in Clusters}
    [] f = "replicas" -> {[spec EXCEPT !.replicas = n] : n \in {1, 3, 6}}
    [] f = "dmz" -> {[spec EXCEPT !.dmz = c] : c \in Clusters \cup {None}}
    [] f = "substrate" -> {[spec EXCEPT !.substrate[c] = b] : c \in Clusters, b \in Substrates}
    [] f = "endpoint" -> {[spec EXCEPT !.endpoint[c] = e] : c \in Clusters, e \in Endpoints}
    [] f = "shares" -> {[spec EXCEPT !.shares = (@ \ {s}) \cup ({s} \ @)] : s \in Shares}

EditSpec ==
  /\ edits < MaxEdits
  /\ \E f \in Fields : \E t \in Edited(f) : t # spec /\ spec' = t
  /\ edits' = edits + 1 /\ ran' = "none" /\ Exited
  /\ UNCHANGED <<inv, previous>>

\* An inventory row is added, changed or dropped.
EditInventory ==
  /\ edits < MaxEdits
  /\ \E c \in Cabinets, row \in [partition : PartitionIds, filter : Filters \cup {None}] \cup {None} :
       /\ row # inv[c]
       /\ inv' = [inv EXCEPT ![c] = row]
  /\ edits' = edits + 1 /\ ran' = "none" /\ Exited
  /\ UNCHANGED <<spec, previous>>

\* run's errors, up to WriteTree: the flag, the spec, its plan and the inventory, the
\* slices, and the previous spec with the same inventory.
Generable(c) ==
  /\ c.output \in {"kustomize", "helm"}
  /\ Valid(spec) /\ Buildable(spec) /\ Attachable(inv, spec)
  /\ \A p \in Builds(spec) : Dispatchable(p, spec)
  /\ previous # None => Attachable(inv, previous)

RunFails ==
  /\ \E c \in Configs : ~Generable(c)
  /\ ran' = "error" /\ Exited
  /\ UNCHANGED <<spec, inv, previous, edits>>

\* Seeded fault: the inventory is not attached to the previous plan.
RunGenBarePrevious(c) ==
  /\ Generable(c)
  /\ \E p \in Builds(spec), q \in IF previous = None THEN {NoPlan} ELSE Builds(previous) :
       /\ plan' = AttachCabinets(p, inv, spec)
       /\ prior' = IF previous = None THEN plan' ELSE q
       /\ delta' = Diff(prior', plan')
       /\ rebalance' = IF previous = None THEN None ELSE BuildRebalanceData(delta')
  /\ cfg' = c /\ previous' = spec /\ before' = previous /\ ran' = "ok"
  /\ UNCHANGED <<spec, inv, edits>>

\* run: both plans carry the same inventory.  Without -previous there is no diff, here
\* the diff of the plan with itself.
RunGen(c) ==
  /\ Generable(c)
  /\ \E p \in Builds(spec), q \in IF previous = None THEN {NoPlan} ELSE Builds(previous) :
       /\ plan' = AttachCabinets(p, inv, spec)
       /\ prior' = IF previous = None THEN plan' ELSE AttachCabinets(q, inv, previous)
       /\ delta' = Diff(prior', plan')
       /\ rebalance' = IF previous = None THEN None ELSE BuildRebalanceData(delta')
  /\ cfg' = c /\ previous' = spec /\ before' = previous /\ ran' = "ok"
  /\ UNCHANGED <<spec, inv, edits>>

\* What the run hands to WriteTree, provided MergeInto does not refuse it (see
\* ReferencesResolve).
Tree == Merged(Rendered(plan, spec, cfg, rebalance))

GenNext == EditSpec \/ EditInventory \/ RunFails \/ \E c \in Configs : RunGen(c)

GenSpec == GenInit /\ [][GenNext]_gvars

-----------------------------------------------------------------------------
\* Properties

\* NATS subject matching: "*" is one token, a final ">" one or more.
Matches(pattern, subject) ==
  LET n == Len(pattern) IN
  /\ IF pattern[n] = Rest THEN Len(subject) >= n ELSE Len(subject) = n
  /\ \A i \in 1..n : pattern[i] \in {subject[i], AnyToken, Rest}

Covers(space, filter) == \A u \in Literals : Matches(filter, u) => Matches(space, u)

\* The tiers join up: central sources every regional stream in the domain it lives in,
\* once, and the DMZ stream sources only central shards that exist.
SourcesResolve ==
  ran = "ok" =>
    /\ \A s \in plan.streams : s.tier # "regional" => \A src \in s.sources :
         \E u \in plan.streams :
           /\ u.name = src.name /\ u.domain = src.domain
           /\ u.tier = IF s.tier = "central" THEN "regional" ELSE "central"
    /\ \A u \in plan.streams : u.tier = "regional" =>
         Cardinality({s \in plan.streams : s.tier = "central"
                        /\ \E src \in s.sources : src.name = u.name /\ src.domain = u.domain}) = 1

\* The delta says all there is to do: the previous plan, changed as it says, is the new
\* plan.
DeltaComplete ==
  ran = "ok" =>
    LET os == IndexStreams(prior.streams)
        kept == {os[n] : n \in DOMAIN os} \ (delta.removed \cup {m[1] : m \in delta.moved \cup delta.modified})
    IN /\ plan.streams = kept \cup delta.added \cup {m[2] : m \in delta.moved \cup delta.modified}
       /\ {<<r.name, r.target>> : r \in plan.dns}
            = ({<<r.name, r.target>> : r \in prior.dns}
                 \ (delta.dnsRemoved \cup {<<c[1], c[2]>> : c \in delta.dnsChanged}))
                \cup delta.dnsAdded \cup {<<c[1], c[3]>> : c \in delta.dnsChanged}

\* A run with an unedited spec asks for nothing to be done, whatever became of the fleet.
RerunIsQuiet == ran = "ok" /\ before = spec => ~HasChanges(delta)

\* naming.go: "plan.Build rejects topologies whose stream names collide after sanitization",
\* so that the name-keyed maps of Diff and AttachCabinets lose nothing.  (It compares
\* partitions only: a district called central may give a partition the name of another
\* one's central shard.)
StreamNamesUnique ==
  ran = "ok" => \A s, u \in plan.streams : s.name = u.name => s = u

\* A cabinet that gen accepts is scoped to subjects its district's account exports.
CabinetsScoped ==
  ran = "ok" => \A c \in Fleet(inv) : inv[c].filter # None =>
    \E k \in Parts(spec) :
      /\ k[2] = inv[c].partition
      /\ \A e \in Exports(spec)[<<"district", k[1]>>] : Covers(e, inv[c].filter)

\* Whatever the DMZ account imports central exports, and central has it from the district
\* whose shards the egress stream draws that share from.
SharesFlow ==
  ran = "ok" =>
    /\ \A i \in Imports(spec).dmz : i[2] \in Exports(spec)[i[1]]
    /\ \A s \in plan.streams : s.tier = "dmz" => \A src \in s.sources :
         \E k \in Parts(spec), i \in Imports(spec).central :
           /\ src.name = CentralShardStreamName(k[1], k[2])
           /\ i[1] = <<"district", k[1]>> /\ Covers(i[2], src.from)

\* No two renderers produce a path, and what one file names is among what the others are:
\* a kustomization lists exactly its directory, an Argo application points at an overlay or
\* a chart, and the guide's and the runbook's paths exist.  (The guide's central path is
\* empty while there is no partition, its notes also cover bare-metal clusters without a
\* stream, and REBALANCE.md knows only kustomize's layout.)
ReferencesResolve ==
  ran = "ok" =>
    LET tree == Tree
        guide == tree[<<"DEPLOYMENT-GUIDE.md">>]
        has(dir, c, f) == <<dir, c, f>> \in DOMAIN tree
        slices == {q \in DOMAIN tree : Len(q) = 3 /\ q[1] # "argocd"}
        active == {q[2] : q \in slices}
    IN /\ Mergeable(Rendered(plan, spec, cfg, rebalance))
       /\ \A q \in slices : q[3] = <<"kustomization.yaml">> =>
            {r[3] : r \in {x \in slices : x[2] = q[2]}} = Says(tree[q], "resource") \cup {q[3]}
       /\ \A q \in DOMAIN tree : Len(q) = 3 /\ q[1] = "argocd" => \A d \in Says(tree[q], "path") :
            has(d[1], d[2], <<"kustomization.yaml">>) \/ has(d[1], d[2], <<"Chart.yaml">>)
       /\ \A d \in Says(guide, "central") \cup Says(guide, "dmz") :
            Parts(spec) # {} => \E q \in slices : q[1] = d[1] /\ q[2] = d[2]
       /\ \A l \in Says(guide, "link") : l \in DOMAIN tree
       /\ \A b \in Says(guide, "bare-metal") : b[1] \in active =>
            /\ \A i \in DOMAIN b[2] : has("clusters", b[1], <<"nats-">> \o SanitizeHostFilename(b[2][i]))
            /\ has("clusters", b[1], <<"nats-server.service">>)
       /\ \A r \in Says(guide, "resource"), c \in active :
            Substrate(spec, c) = "kubernetes" => has(r[1], c, r[2])
       /\ rebalance # None /\ cfg.output = "kustomize" =>
            \A c \in {m.newCluster : m \in rebalance.moved} \cup {r.cluster : r \in rebalance.added \cup rebalance.modified} :
              Substrate(spec, c) = "kubernetes" => has("clusters", c, <<"streams.yaml">>)

\* The streams in the slices, whatever the packaging, are the plan's, each on its cluster;
\* the guide expects and the diagram shows the same ones, and the diagram's sourcing edges
\* are the sources central's shards are given.
RenderingsAgree ==
  ran = "ok" =>
    LET tree == Tree
        streams == UNION {{<<q[2], s>> : s \in Says(tree[q], "stream")} : q \in {x \in DOMAIN tree : Len(x) = 3}}
        places == {<<x[1], x[2].name>> : x \in streams}
        diagram == tree[<<"TOPOLOGY.md">>]
    IN /\ places = {<<s.cluster, s.name>> : s \in plan.streams}
       /\ places = Says(tree[<<"DEPLOYMENT-GUIDE.md">>], "expected")
       /\ places = Says(diagram, "node")
       /\ Says(diagram, "source") = UNION {{<<src.name, x[2].name>> : src \in x[2].sources} :
            x \in {y \in streams : \E s \in plan.streams : s.name = y[2].name /\ s.tier = "central"}}

\* helm.go: with the default values a chart comes out as the manifests of kustomize mode,
\* Prometheus' own braces included.  (Without a declared namespace it does not: the
\* certificate then has a service name with an empty namespace.)
HelmMatchesKustomize ==
  ran = "ok" => \A c \in ByCluster(plan) :
    Substrate(spec, c) = "kubernetes" /\ spec.substrate[c].namespace # None =>
      LET slice == BuildClusterSlice(plan, spec, c)
          chart == RenderHelmChart(slice)
          plain == K8sRenderCluster(slice)
      IN \A f \in DOMAIN plain \ {<<"kustomization.yaml">>} :
           HelmTemplate(chart[<<"templates/">> \o f], chart[<<"values.yaml">>]) = plain[f]

\* The catalog is kept: what it offers a consumer that consumer's credential may subscribe
\* to, the DMZ stream publishes exactly that from the offered source (once its district has
\* a partition), no consumer can read what is published in another one's subtree, and none
\* can publish.
ShareContract ==
  ran = "ok" /\ spec.dmz # None =>
    LET offers == Says(Tree[<<"dmz-catalog.json">>], "share")
        users == AggregateDMZConsumers(Says(Tree[<<"accounts.conf">>], "user"))
        maps == UNION {s.sources : s \in {u \in plan.streams : u.tier = "dmz"}}
    IN /\ \A o \in offers : o[2] \in users[o[1]].subAllow
       /\ \A a \in DOMAIN users : <<Rest>> \in users[a].pubDeny
       /\ {<<src.from, src.as>> : src \in maps} \subseteq {<<o[3], o[2]>> : o \in offers}
       /\ \A o \in offers :
            \/ \E src \in maps : src.from = o[3] /\ src.as = o[2]
            \/ \E d \in DistrictsOf(spec, o[3]) : ~\E k \in Parts(spec) : k[1] = d
       /\ \A a \in DOMAIN users, o \in offers : a # o[1] /\ IsStrictPrefix(ShareSpace, o[2]) =>
            \A sub \in users[a].subAllow, u \in Literals : ~(Matches(sub, u) /\ Matches(o[2], u))

\* A row for a modified stream is missing.
Unlisted == {m \in delta.modified : [name |-> m[2].name, cluster |-> m[2].cluster] \notin rebalance.modified}

\* buildRebalanceData's comment: a central shard that gets no row of its own is one whose
\* change the steps of the moved streams already cover.
RebalanceNamesAll ==
  ran = "ok" /\ rebalance # None => \A m \in Unlisted :
    /\ [m[1] EXCEPT !.sources = {}] = [m[2] EXCEPT !.sources = {}]
    /\ \A src \in m[2].sources \ m[1].sources : \E v \in delta.moved : v[2].name = src.name

\* REBALANCE.md carried out: dep[c] is what is deployed on cluster c, and applying a
\* cluster's streams.yaml creates or updates what it lists and deletes nothing.
Slice(c) == {s \in plan.streams : s.cluster = c}
Named(s, names) == s.name \in names
Apply(dep, cs) ==
  [c \in Clusters |-> IF c \in cs
     THEN {s \in dep[c] : ~Named(s, {u.name : u \in Slice(c)})} \cup Slice(c) ELSE dep[c]]
Delete(dep, rows) == [c \in Clusters |-> {s \in dep[c] : [name |-> s.name, cluster |-> c] \notin rows}]
CentralSources(dep, f(_)) ==
  [c \in Clusters |-> {IF s.tier = "central" THEN [s EXCEPT !.sources = f(@)] ELSE s : s \in dep[c]}]

\* Phase 1 applies the new clusters' manifests, phase 2 adds the new domain to central's
\* sources and phase 5 takes the old one out and deletes the stream on the old cluster.
StandUp(dep, moved) == Apply(dep, {m.newCluster : m \in moved})
DualSource(dep, moved) ==
  LET add(srcs) == srcs \cup UNION {{[x EXCEPT !.domain = m.newDomain] :
                                        x \in {y \in srcs : y.name = m.name}} : m \in moved}
  IN CentralSources(dep, add)
SingleSource(dep, moved) ==
  LET drop(srcs) == {x \in srcs : ~\E m \in moved : x.name = m.name /\ x.domain = m.oldDomain}
  IN CentralSources(dep, drop)
TearDown(dep, moved) ==
  Delete(SingleSource(dep, moved), {[name |-> m.name, cluster |-> m.oldCluster] : m \in moved})
FollowMoves(dep, moved) == TearDown(DualSource(StandUp(dep, moved), moved), moved)

\* Then the new, the decommissioned and the modified streams, in this order.
FollowRunbook(dep, rows) ==
  LET removed(srcs) == {x \in srcs : ~Named(x, {r.name : r \in rows.removed})}
      added == Apply(FollowMoves(dep, rows.moved), {r.cluster : r \in rows.added})
  IN Apply(Delete(CentralSources(added, removed), rows.removed), {r.cluster : r \in rows.modified})

Deployed(p) == [c \in Clusters |-> {s \in p.streams : s.cluster = c}]

\* Whoever carries out REBALANCE.md on the previous plan's streams ends up with the new
\* plan's: nothing is missing, stale or left over.  (Provided a moved stream changes both
\* its cluster and its domain, and no central shard was left out: see RunbookKeepsStreams
\* and RebalanceNamesAll.)
RunbookReachesPlan ==
  /\ ran = "ok" /\ rebalance # None /\ RebalanceNamesAll
  /\ \A m \in rebalance.moved : m.oldCluster # m.newCluster /\ m.oldDomain # m.newDomain
  => FollowRunbook(Deployed(prior), rebalance) = Deployed(plan)

\* rebalance.tmpl: "Apply top-to-bottom; each phase is online and idempotent".  A stream of
\* the new plan is deployed when the runbook has been carried out.
RunbookKeepsStreams ==
  ran = "ok" /\ rebalance # None => \A s \in plan.streams :
    \E u \in FollowRunbook(Deployed(prior), rebalance)[s.cluster] : u.name = s.name

\* Phase 3 repoints the leaf records, so that the cabinets come back to the new cluster.
Repointed(dns, changed) ==
  {IF \E c \in changed : c[1] = r.name
     THEN [r EXCEPT !.target = (CHOOSE c \in changed : c[1] = r.name)[3]] ELSE r : r \in dns}

\* What is deployed and what the leaf records say, from one phase to the next: <<dep, dns>>.
\* Without moved streams the records change at the end.
Stages(rows) ==
  LET old == Deployed(prior)
      up == StandUp(old, rows.moved)
      dual == DualSource(up, rows.moved)
      single == SingleSource(dual, rows.moved)
      torn == TearDown(dual, rows.moved)
      done == FollowRunbook(old, rows)
      dns == Repointed(prior.dns, rows.dnsChanged)
  IN IF rows.moved = {} THEN {old, done} \X {prior.dns, dns}
     ELSE ({old, up, dual} \X {prior.dns}) \cup ({dual, single, torn, done} \X {dns})

\* Telemetry of partition k gets through: its cabinets are sent to a cluster that holds the
\* partition's stream, and central sources that very stream.
Online(k, dep, dns) ==
  \E r \in dns, c \in Clusters :
    /\ r.name = LeafDNSName(k[2]) /\ r.target \in {before.endpoint[c], spec.endpoint[c]}
    /\ \E s \in dep[c] :
         /\ s.name = PartitionStreamName(k[1], k[2])
         /\ \E b \in Clusters : \E u \in dep[b] : u.tier = "central"
              /\ \E src \in u.sources : src.name = s.name /\ src.domain = s.domain

\* rebalance.tmpl: "each phase is online", "no gap".  A partition that both specs have can be
\* reached by its cabinets and is sourced by central from one phase of REBALANCE.md to the
\* next.  (Provided that a moved stream changes both its cluster and its domain, and that
\* nothing moves onto central's cluster: there phase 1 gives central its new sources, and
\* the old ones are gone before the cabinets are.)
PhasesStayOnline ==
  /\ ran = "ok" /\ rebalance # None
  /\ \A m \in rebalance.moved :
       /\ m.oldCluster # m.newCluster /\ m.oldDomain # m.newDomain
       /\ before.central = spec.central => m.newCluster # spec.central
  => \A k \in Parts(before) \cap Parts(spec), g \in Stages(rebalance) : Online(k, g[1], g[2])

=============================================================================
