------------------------------- MODULE GenProofs -------------------------------
(***************************************************************************)
(* Machine-checked proofs about Gen: what every plan that cmd/gen makes,   *)
(* and every difference of two, has in common, for every set of districts, *)
(* partitions, clusters and shares and every history of edits.             *)
(***************************************************************************)
EXTENDS Gen, FiniteSetTheorems, SequenceTheorems, TLAPS

-----------------------------------------------------------------------------
\* The streams of a plan, one by one: what Build makes for partition k of spec t, with the
\* sources that AttachCabinets adds for inventory i.

RegionalOf(t, i, k) ==
  [name |-> PartitionStreamName(k[1], k[2]), tier |-> "regional", cluster |-> t.place[k],
   domain |-> t.domain[t.place[k]], replicas |-> 3,
   sources |-> CabinetSources(i, t, PartitionStreamName(k[1], k[2]))]

ShardSource(t, k) ==
  Source(PartitionStreamName(k[1], k[2]), t.domain[t.place[k]], None, None)

ShardOf(t, k) ==
  [name |-> CentralShardStreamName(k[1], k[2]), tier |-> "central", cluster |-> t.central,
   domain |-> t.domain[t.central], replicas |-> t.replicas, sources |-> {ShardSource(t, k)}]

ShareSource(t, s, k) ==
  Source(CentralShardStreamName(k[1], k[2]), t.domain[t.central], s.from, s.as)

EgressOf(t, of) ==
  [name |-> DMZStreamName, tier |-> "dmz", cluster |-> t.dmz, domain |-> t.domain[t.dmz],
   replicas |-> t.dmzReplicas,
   sources |-> UNION {{ShareSource(t, s, k) : k \in {j \in Parts(t) : j[1] = of[s]}} :
                        s \in t.shares}]

\* A plan of spec t and inventory i, its shares drawn from the districts of.
PlanOf(t, i, of) ==
  [streams |-> {RegionalOf(t, i, k) : k \in Parts(t)} \cup {ShardOf(t, k) : k \in Parts(t)}
                 \cup (IF t.dmz = None THEN {} ELSE {EgressOf(t, of)}),
   dns |-> DNSRecords(t)]

\* A run of gen has made such a plan from what is in the spec and the inventory now.
MadePlan(p) == \E of \in ShareChoices(spec) : p = PlanOf(spec, inv, of)

\* After a successful run the plan, the delta and, on a rerun, the prior plan are those of
\* the spec and the inventory as they stand.
RunResult ==
  ran = "ok" =>
    /\ Valid(spec) /\ Buildable(spec) /\ Attachable(inv, spec)
    /\ MadePlan(plan)
    /\ delta = Diff(prior, plan)
    /\ before = spec => MadePlan(prior)

-----------------------------------------------------------------------------
\* What Build and AttachCabinets return

\* Build's plan with the inventory attached, stream by stream.
LEMMA AttachedPlan ==
  ASSUME NEW t, NEW i, NEW p \in Builds(t)
  PROVE  \E of \in ShareChoices(t) : AttachCabinets(p, i, t) = PlanOf(t, i, of)
<1>1. PICK of \in ShareChoices(t) :
        p = [streams |-> Regional(t) \cup CentralShards(t) \cup DMZStreams(t, of),
             dns |-> DNSRecords(t)]
  BY DEF Builds
<1> DEFINE attach(s) ==
      IF s.tier = "regional" THEN [s EXCEPT !.sources = @ \cup CabinetSources(i, t, s.name)] ELSE s
<1>2. AttachCabinets(p, i, t) =
        [streams |-> {attach(s) : s \in Regional(t) \cup CentralShards(t) \cup DMZStreams(t, of)},
         dns |-> DNSRecords(t)]
  <2> DEFINE A == Regional(t) \cup CentralShards(t) \cup DMZStreams(t, of)
             C == {attach(s) : s \in A}
             B == DNSRecords(t)
  <2>1. p.streams = A
    BY <1>1
  <2>2. AttachCabinets(p, i, t) = [p EXCEPT !.streams = {attach(s) : s \in p.streams}]
    BY DEF AttachCabinets
  <2>3. AttachCabinets(p, i, t) = [p EXCEPT !.streams = C]
    BY <2>1, <2>2
  <2>4. p = [streams |-> A, dns |-> B]
    BY <1>1
  <2>5. AttachCabinets(p, i, t) = [streams |-> C, dns |-> B]
    <3> HIDE DEF A, B, C
    <3> QED BY <2>3, <2>4
  <2> QED BY <2>5
<1>3. {attach(s) : s \in Regional(t)} = {RegionalOf(t, i, k) : k \in Parts(t)}
  <2> DEFINE bare(k) ==
        [name |-> PartitionStreamName(k[1], k[2]), tier |-> "regional", cluster |-> t.place[k],
         domain |-> t.domain[t.place[k]], replicas |-> 3, sources |-> {}]
  <2>1. Regional(t) = {bare(k) : k \in Parts(t)}
    BY DEF Regional
  <2>2. ASSUME NEW k \in Parts(t) PROVE attach(bare(k)) = RegionalOf(t, i, k)
    BY DEF RegionalOf
  <2> HIDE DEF bare, attach
  <2> QED BY <2>1, <2>2
<1>4. {attach(s) : s \in CentralShards(t)} = {ShardOf(t, k) : k \in Parts(t)}
  <2>1. CentralShards(t) = {ShardOf(t, k) : k \in Parts(t)}
    BY DEF CentralShards, ShardOf, ShardSource
  <2>2. ASSUME NEW k \in Parts(t) PROVE attach(ShardOf(t, k)) = ShardOf(t, k)
    BY DEF ShardOf
  <2> QED BY <2>1, <2>2
<1>5. {attach(s) : s \in DMZStreams(t, of)} = IF t.dmz = None THEN {} ELSE {EgressOf(t, of)}
  <2>1. CASE t.dmz = None
    BY <2>1 DEF DMZStreams
  <2>2. CASE t.dmz # None
    <3>1. DMZStreams(t, of) = {EgressOf(t, of)}
      BY <2>2 DEF DMZStreams, EgressOf, ShareSource
    <3>2. attach(EgressOf(t, of)) = EgressOf(t, of)
      BY DEF EgressOf
    <3> QED BY <2>2, <3>1, <3>2
  <2> QED BY <2>1, <2>2
<1> HIDE DEF attach
<1>6. {attach(s) : s \in Regional(t) \cup CentralShards(t) \cup DMZStreams(t, of)}
        = {attach(s) : s \in Regional(t)} \cup {attach(s) : s \in CentralShards(t)}
            \cup {attach(s) : s \in DMZStreams(t, of)}
  OBVIOUS
<1> QED BY <1>2, <1>3, <1>4, <1>5, <1>6 DEF PlanOf

-----------------------------------------------------------------------------
\* The state after a run

LEMMA RunResultStep ==
  ASSUME NEW c \in Configs, RunGen(c)
  PROVE  RunResult'
<1>1. /\ Valid(spec) /\ Buildable(spec) /\ Attachable(inv, spec)
      /\ UNCHANGED <<spec, inv>>
      /\ before' = previous
  BY DEF RunGen, Generable
<1>2. PICK p \in Builds(spec), q \in IF previous = None THEN {NoPlan} ELSE Builds(previous) :
        /\ plan' = AttachCabinets(p, inv, spec)
        /\ prior' = IF previous = None THEN plan' ELSE AttachCabinets(q, inv, previous)
        /\ delta' = Diff(prior', plan')
  BY DEF RunGen
<1>3. \E of \in ShareChoices(spec) : plan' = PlanOf(spec, inv, of)
  BY <1>2, AttachedPlan
<1>4. ASSUME before' = spec PROVE \E of \in ShareChoices(spec) : prior' = PlanOf(spec, inv, of)
  <2>1. previous = spec
    BY <1>1, <1>4
  <2>2. CASE previous = None
    BY <1>2, <1>3, <2>2
  <2>3. CASE previous # None
    <3>1. q \in Builds(spec) /\ prior' = AttachCabinets(q, inv, spec)
      BY <1>2, <2>1, <2>3
    <3> QED BY <3>1, AttachedPlan
  <2> QED BY <2>2, <2>3
<1>5. MadePlan(plan)' /\ (before' = spec' => MadePlan(prior)')
  BY <1>1, <1>3, <1>4 DEF MadePlan
<1> QED BY <1>1, <1>2, <1>5 DEF RunResult

\* What is in memory after a successful run of cmd/gen was computed from the files as they
\* are: edits end it, and -previous and the new spec are built with the same inventory.
THEOREM RunResultInvariant == GenSpec => []RunResult
<1>1. GenInit => RunResult
  BY DEF GenInit, RunResult
<1>2. RunResult /\ [GenNext]_gvars => RunResult'
  <2> SUFFICES ASSUME RunResult, [GenNext]_gvars PROVE RunResult'
    OBVIOUS
  <2>1. CASE EditSpec \/ EditInventory \/ RunFails
    BY <2>1 DEF EditSpec, EditInventory, RunFails, RunResult
  <2>2. CASE \E c \in Configs : RunGen(c)
    BY <2>2, RunResultStep
  <2>3. CASE UNCHANGED gvars
    <3>1. UNCHANGED <<spec, inv, ran, plan, prior, delta, before>>
      BY <2>3 DEF gvars, memory
    <3> QED BY <3>1 DEF RunResult, MadePlan
  <2> QED BY <2>1, <2>2, <2>3 DEF GenNext
<1> QED BY <1>1, <1>2, PTL DEF GenSpec

-----------------------------------------------------------------------------
\* The difference of a plan with itself

LEMMA SelfDiff ==
  ASSUME NEW p
  PROVE  ~HasChanges(Diff(p, p))
<1> DEFINE os == IndexStreams(p.streams)
           or == IndexDNS(p.dns)
<1>1. \A n : ~StreamConfigChanged(os[n], os[n])
  BY DEF StreamConfigChanged
<1>2. Diff(p, p) =
        [added |-> {}, removed |-> {}, moved |-> {}, modified |-> {},
         dnsAdded |-> {}, dnsRemoved |-> {}, dnsChanged |-> {}]
  BY <1>1 DEF Diff
<1> QED BY <1>2 DEF HasChanges

\* Every share lies under the subject space of one district at most.  Validate does not
\* see to it: two districts may declare overlapping spaces.
SharesUnambiguous ==
  spec.dmz # None => \A s \in spec.shares : \A d, e \in DistrictsOf(spec, s.from) : d = e

\* A rerun on an unedited spec asks for nothing, unless a share's subject lies in the
\* spaces of two districts: that map iteration is the only choice Build makes.
THEOREM RerunsAreQuiet == GenSpec /\ []SharesUnambiguous => []RerunIsQuiet
<1>1. RunResult /\ SharesUnambiguous => RerunIsQuiet
  <2> SUFFICES ASSUME RunResult, SharesUnambiguous, ran = "ok", before = spec PROVE ~HasChanges(delta)
    BY DEF RerunIsQuiet
  <2>1. PICK of \in ShareChoices(spec) : plan = PlanOf(spec, inv, of)
    BY DEF RunResult, MadePlan
  <2>2. PICK og \in ShareChoices(spec) : prior = PlanOf(spec, inv, og)
    BY DEF RunResult, MadePlan
  <2>3. of = og
    <3>1. CASE spec.dmz = None
      BY <3>1, <2>1, <2>2 DEF ShareChoices
    <3>2. CASE spec.dmz # None
      <4>1. /\ of \in [spec.shares -> DistrictIds] /\ og \in [spec.shares -> DistrictIds]
            /\ \A s \in spec.shares : /\ of[s] \in DistrictsOf(spec, s.from)
                                      /\ og[s] \in DistrictsOf(spec, s.from)
        BY <3>2, <2>1, <2>2 DEF ShareChoices
      <4>2. \A s \in spec.shares : of[s] = og[s]
        BY <3>2, <4>1 DEF SharesUnambiguous
      <4> QED BY <4>1, <4>2
    <3> QED BY <3>1, <3>2
  <2>4. delta = Diff(plan, plan)
    BY <2>1, <2>2, <2>3 DEF RunResult
  <2> QED BY <2>4, SelfDiff
<1> QED BY <1>1, RunResultInvariant, PTL

-----------------------------------------------------------------------------
\* The tiers join up

\* A stream of a plan, by its tier.
LEMMA StreamsByTier ==
  ASSUME NEW t, NEW i, NEW of
  PROVE  /\ \A s \in PlanOf(t, i, of).streams :
              \/ s.tier = "regional" /\ \E k \in Parts(t) : s = RegionalOf(t, i, k)
              \/ s.tier = "central" /\ \E k \in Parts(t) : s = ShardOf(t, k)
              \/ s.tier = "dmz" /\ t.dmz # None /\ s = EgressOf(t, of)
         /\ \A k \in Parts(t) : /\ RegionalOf(t, i, k) \in PlanOf(t, i, of).streams
                                /\ ShardOf(t, k) \in PlanOf(t, i, of).streams
         /\ t.dmz # None => EgressOf(t, of) \in PlanOf(t, i, of).streams
<1> DEFINE R == {RegionalOf(t, i, k) : k \in Parts(t)}
           S == {ShardOf(t, k) : k \in Parts(t)}
           E == IF t.dmz = None THEN {} ELSE {EgressOf(t, of)}
<1>1. PlanOf(t, i, of).streams = R \cup S \cup E
  BY DEF PlanOf
<1>2. \A s \in R : s.tier = "regional" /\ \E k \in Parts(t) : s = RegionalOf(t, i, k)
  BY DEF RegionalOf
<1>3. \A s \in S : s.tier = "central" /\ \E k \in Parts(t) : s = ShardOf(t, k)
  BY DEF ShardOf
<1>4. \A s \in E : s.tier = "dmz" /\ t.dmz # None /\ s = EgressOf(t, of)
  BY DEF EgressOf
<1>5. /\ \A k \in Parts(t) : RegionalOf(t, i, k) \in R /\ ShardOf(t, k) \in S
      /\ t.dmz # None => EgressOf(t, of) \in E
  OBVIOUS
<1> HIDE DEF R, S, E
<1> QED BY <1>1, <1>2, <1>3, <1>4, <1>5

\* A source of the egress stream is a share's, of a shard of the share's district.
LEMMA EgressSources ==
  ASSUME NEW t, NEW of, NEW src \in EgressOf(t, of).sources
  PROVE  \E s \in t.shares, k \in Parts(t) : k[1] = of[s] /\ src = ShareSource(t, s, k)
<1>1. src \in UNION {{ShareSource(t, s, k) : k \in {j \in Parts(t) : j[1] = of[s]}} :
                       s \in t.shares}
  BY DEF EgressOf
<1> QED BY <1>1

\* Central sources every regional stream, once and in the domain the stream lives in, and
\* the egress stream only shards that exist: Build never leaves a dangling source.
THEOREM TiersJoinUp == GenSpec => []SourcesResolve
<1>1. RunResult => SourcesResolve
  <2> SUFFICES ASSUME RunResult, ran = "ok" PROVE SourcesResolve
    BY DEF SourcesResolve
  <2>1. PICK of \in ShareChoices(spec) : plan = PlanOf(spec, inv, of)
    BY DEF RunResult, MadePlan
  <2> DEFINE Joins(s, src, u) ==
        /\ u.name = src.name /\ u.domain = src.domain
        /\ u.tier = IF s.tier = "central" THEN "regional" ELSE "central"
  <2>2. ASSUME NEW s \in plan.streams, s.tier # "regional", NEW src \in s.sources
        PROVE  \E u \in plan.streams : Joins(s, src, u)
    <3>1. CASE s.tier = "central"
      <4>1. PICK k \in Parts(spec) : s = ShardOf(spec, k)
        BY <2>1, <3>1, StreamsByTier
      <4>2. src = ShardSource(spec, k)
        BY <2>2, <4>1 DEF ShardOf
      <4>3. Joins(s, src, RegionalOf(spec, inv, k))
        BY <3>1, <4>2 DEF ShardSource, Source, RegionalOf
      <4> QED BY <2>1, <4>3, StreamsByTier
    <3>2. CASE s.tier = "dmz"
      <4>1. s = EgressOf(spec, of)
        BY <2>1, <3>2, StreamsByTier
      <4>2. PICK h \in spec.shares, k \in Parts(spec) : src = ShareSource(spec, h, k)
        BY <2>2, <4>1, EgressSources
      <4>3. Joins(s, src, ShardOf(spec, k))
        BY <3>2, <4>2 DEF ShareSource, Source, ShardOf
      <4> QED BY <2>1, <4>3, StreamsByTier
    <3> QED BY <2>1, <2>2, <3>1, <3>2, StreamsByTier
  <2>3. ASSUME NEW u \in plan.streams, u.tier = "regional"
        PROVE  Cardinality({s \in plan.streams : s.tier = "central"
                  /\ \E src \in s.sources : src.name = u.name /\ src.domain = u.domain}) = 1
    <3> DEFINE C == {s \in plan.streams : s.tier = "central"
                  /\ \E src \in s.sources : src.name = u.name /\ src.domain = u.domain}
    <3>1. PICK k \in Parts(spec) : u = RegionalOf(spec, inv, k)
      BY <2>1, <2>3, StreamsByTier
    <3>2. ShardOf(spec, k) \in C
      <4>1. ShardOf(spec, k) \in plan.streams
        BY <2>1, StreamsByTier
      <4>2. /\ ShardSource(spec, k).name = u.name
            /\ ShardSource(spec, k).domain = u.domain
        BY <3>1 DEF ShardSource, Source, RegionalOf
      <4>3. /\ ShardOf(spec, k).tier = "central"
            /\ ShardSource(spec, k) \in ShardOf(spec, k).sources
        BY DEF ShardOf
      <4> QED BY <4>1, <4>2, <4>3
    <3>3. ASSUME NEW s \in C PROVE s = ShardOf(spec, k)
      <4>1. PICK j \in Parts(spec) : s = ShardOf(spec, j)
        BY <2>1, StreamsByTier
      <4>2. ShardSource(spec, j).name = u.name
        BY <4>1 DEF ShardOf
      <4>3. PartitionStreamName(j[1], j[2]) = PartitionStreamName(k[1], k[2])
        BY <3>1, <4>2 DEF ShardSource, Source, RegionalOf
      <4>4. j = k
        BY <4>3 DEF RunResult, Buildable
      <4> QED BY <4>1, <4>4
    <3>4. C = {ShardOf(spec, k)}
      BY <3>2, <3>3
    <3> QED BY <3>4, FS_Singleton
  <2> QED BY <2>2, <2>3 DEF SourcesResolve
<1> QED BY <1>1, RunResultInvariant, PTL

-----------------------------------------------------------------------------
\* Stream names

\* The names of streams are sequences of words.
Words == STRING \cup {"central", "dmz"}

\* A partition's stream is named after its district first, its central shard is the same
\* name under "central".
LEMMA NameWords ==
  ASSUME NEW d \in DistrictIds, NEW p \in PartitionIds
  PROVE  /\ PartitionStreamName(d, p) \in Seq(Words)
         /\ Len(PartitionStreamName(d, p)) > 1
         /\ PartitionStreamName(d, p)[1] = d[1]
         /\ CentralShardStreamName(d, p) = <<"central">> \o PartitionStreamName(d, p)
         /\ CentralShardStreamName(d, p)[1] = "central"
<1> DEFINE S == Sanitize(p)
<1>1. d \in Seq(Words) /\ Len(d) > 0 /\ S \in Seq(Words) /\ Len(S) > 0
  BY WordsAssumption DEF Words
<1>2. <<"central">> \in Seq(Words)
  BY DEF Words
<1>3. PartitionStreamName(d, p) = d \o S /\ CentralShardStreamName(d, p) = (<<"central">> \o d) \o S
  BY DEF PartitionStreamName, CentralShardStreamName
<1> HIDE DEF S
<1>4. d \o S \in Seq(Words) /\ Len(d \o S) > 1 /\ (d \o S)[1] = d[1]
  BY <1>1
<1>5. (<<"central">> \o d) \o S = <<"central">> \o (d \o S)
  BY <1>1, <1>2, ConcatAssociative
<1>6. (<<"central">> \o (d \o S))[1] = "central"
  BY <1>2, <1>4
<1> QED BY <1>3, <1>4, <1>5, <1>6

\* Build compares the partitions' streams with each other, and so within a tier names differ.
LEMMA NamesDifferInTier ==
  ASSUME NEW t, Buildable(t), NEW i, NEW of,
         NEW s \in PlanOf(t, i, of).streams, NEW u \in PlanOf(t, i, of).streams,
         s.name = u.name, s.tier = u.tier
  PROVE  s = u
<1>0. \A k \in Parts(t) : k[1] \in DistrictIds /\ k[2] \in PartitionIds
  BY DEF Parts
<1>1. CASE s.tier = "regional"
  <2>1. PICK j \in Parts(t) : s = RegionalOf(t, i, j)
    BY <1>1, StreamsByTier
  <2>2. PICK k \in Parts(t) : u = RegionalOf(t, i, k)
    BY <1>1, StreamsByTier
  <2>3. PartitionStreamName(j[1], j[2]) = PartitionStreamName(k[1], k[2])
    BY <2>1, <2>2 DEF RegionalOf
  <2> QED BY <2>1, <2>2, <2>3 DEF Buildable
<1>2. CASE s.tier = "central"
  <2>1. PICK j \in Parts(t) : s = ShardOf(t, j)
    BY <1>2, StreamsByTier
  <2>2. PICK k \in Parts(t) : u = ShardOf(t, k)
    BY <1>2, StreamsByTier
  <2>3. CentralShardStreamName(j[1], j[2]) = CentralShardStreamName(k[1], k[2])
    BY <2>1, <2>2 DEF ShardOf
  <2> DEFINE nj == PartitionStreamName(j[1], j[2])
             nk == PartitionStreamName(k[1], k[2])
             C == <<"central">>
  <2>4. nj \in Seq(Words) /\ nk \in Seq(Words) /\ C \o nj = C \o nk
    <3>1. nj \in Seq(Words) /\ CentralShardStreamName(j[1], j[2]) = C \o nj
      BY <1>0, NameWords
    <3>2. nk \in Seq(Words) /\ CentralShardStreamName(k[1], k[2]) = C \o nk
      BY <1>0, NameWords
    <3> HIDE DEF nj, nk, C
    <3> QED BY <2>3, <3>1, <3>2
  <2>5. C \in Seq(Words)
    BY DEF Words
  <2>6. nj = nk
    <3> HIDE DEF nj, nk, C
    <3> QED BY <2>4, <2>5, ConcatSimplifications
  <2> QED BY <2>1, <2>2, <2>6 DEF Buildable
<1>3. CASE s.tier = "dmz"
  <2>1. s = EgressOf(t, of) /\ u = EgressOf(t, of)
    BY <1>3, StreamsByTier
  <2> QED BY <2>1
<1> QED BY <1>1, <1>2, <1>3, StreamsByTier

\* What a name tells of the tier.
LEMMA NamesByTier ==
  ASSUME NEW t, NEW i, NEW of, NEW r \in PlanOf(t, i, of).streams
  PROVE  /\ r.tier = "regional" =>
              Len(r.name) > 1 /\ \E k \in Parts(t) : r.name = PartitionStreamName(k[1], k[2])
                                                      /\ r.name[1] = k[1][1]
         /\ r.tier = "central" => r.name[1] = "central"
         /\ r.tier = "dmz" => r.name[1] = "dmz" /\ Len(r.name) = 1
         /\ r.tier \in {"regional", "central", "dmz"}
<1>0. \A k \in Parts(t) : k[1] \in DistrictIds /\ k[2] \in PartitionIds
  BY DEF Parts
<1>1. CASE r.tier = "regional"
  <2>1. PICK k \in Parts(t) : r = RegionalOf(t, i, k)
    BY <1>1, StreamsByTier
  <2>2. r.name = PartitionStreamName(k[1], k[2])
    BY <2>1 DEF RegionalOf
  <2> QED BY <1>0, <1>1, <2>2, NameWords
<1>2. CASE r.tier = "central"
  <2>1. PICK k \in Parts(t) : r = ShardOf(t, k)
    BY <1>2, StreamsByTier
  <2>2. r.name = CentralShardStreamName(k[1], k[2])
    BY <2>1 DEF ShardOf
  <2> QED BY <1>0, <1>2, <2>2, NameWords
<1>3. CASE r.tier = "dmz"
  <2>1. r = EgressOf(t, of)
    BY <1>3, StreamsByTier
  <2>2. r.name = <<"dmz">>
    BY <2>1 DEF EgressOf, DMZStreamName
  <2> QED BY <1>3, <2>2
<1> QED BY <1>1, <1>2, <1>3, StreamsByTier

\* Two streams with one name are a partition's, whose district's id has "central" as its
\* first word, and a central shard.
CentralCollision(t, s, u) ==
  /\ {s.tier, u.tier} = {"regional", "central"}
  /\ \E k \in Parts(t) : k[1][1] = "central" /\ s.name = PartitionStreamName(k[1], k[2])

LEMMA CollisionsAreCentral ==
  ASSUME NEW t, Buildable(t), NEW i, NEW of,
         NEW s \in PlanOf(t, i, of).streams, NEW u \in PlanOf(t, i, of).streams,
         s.name = u.name, s # u
  PROVE  CentralCollision(t, s, u)
<1> DEFINE n == s.name
           Partition(x) == x.tier = "regional" /\ Len(n) > 1
                             /\ \E k \in Parts(t) : n = PartitionStreamName(k[1], k[2]) /\ n[1] = k[1][1]
           Shard(x) == x.tier = "central" /\ n[1] = "central"
           Egress(x) == x.tier = "dmz" /\ n[1] = "dmz" /\ Len(n) = 1
<1>1. Partition(s) \/ Shard(s) \/ Egress(s)
  BY NamesByTier
<1>2. Partition(u) \/ Shard(u) \/ Egress(u)
  <2>1. u.name = n
    OBVIOUS
  <2> QED BY <2>1, NamesByTier
<1>3. s.tier # u.tier
  BY NamesDifferInTier
<1>4. (Partition(s) /\ Shard(u)) \/ (Shard(s) /\ Partition(u))
  <2> HIDE DEF n
  <2> QED BY <1>1, <1>2, <1>3
<1> QED BY <1>4 DEF CentralCollision

\* The check in Build leaves one way for stream names to collide, in any spec and any plan
\* of cmd/gen: a partition of a district whose id starts with the word central, and the
\* central shard of another partition.  No two streams of a tier, and nothing and the egress
\* stream, ever share a name.
THEOREM OnlyCentralNamesCollide ==
  GenSpec => [](ran = "ok" => \A s, u \in plan.streams :
                  s.name = u.name => s = u \/ CentralCollision(spec, s, u))
<1>1. RunResult => (ran = "ok" => \A s, u \in plan.streams :
                      s.name = u.name => s = u \/ CentralCollision(spec, s, u))
  BY CollisionsAreCentral DEF RunResult, MadePlan
<1> QED BY <1>1, RunResultInvariant, PTL

\* No district's id has "central" as its first word.  Validate does not see to it, and what
\* rests on Diff's and the renderers' maps by name is proved for such ids only.
NoCentralDistrict == \A d \in DistrictIds : d[1] # "central"

\* Then Build's streams have names of their own, across the tiers.
LEMMA NamesDiffer ==
  ASSUME NoCentralDistrict, NEW t, Buildable(t), NEW i, NEW of,
         NEW s \in PlanOf(t, i, of).streams, NEW u \in PlanOf(t, i, of).streams,
         s.name = u.name
  PROVE  s = u
<1>1. \A k \in Parts(t) : k[1] \in DistrictIds
  BY DEF Parts
<1> QED BY <1>1, CollisionsAreCentral DEF CentralCollision, NoCentralDistrict

-----------------------------------------------------------------------------
\* What Diff relies on

IsStream(s) ==
  /\ s = [name |-> s.name, tier |-> s.tier, cluster |-> s.cluster, domain |-> s.domain,
          replicas |-> s.replicas, sources |-> s.sources]
  /\ s.tier \in {"regional", "central", "dmz"}

\* A plan whose streams and records can be told apart by their names.
WellNamed(p) ==
  /\ \A s \in p.streams : IsStream(s)
  /\ \A s, u \in p.streams : s.name = u.name => s = u
  /\ \A r, q \in p.dns : r.name = q.name => r.target = q.target

LEMMA PlansAreWellNamed ==
  ASSUME NoCentralDistrict, NEW t, Buildable(t), NEW i, NEW of
  PROVE  WellNamed(PlanOf(t, i, of))
<1>1. ASSUME NEW s \in PlanOf(t, i, of).streams PROVE IsStream(s)
  <2>1. CASE \E k \in Parts(t) : s = RegionalOf(t, i, k)
    BY <2>1 DEF RegionalOf, IsStream
  <2>2. CASE \E k \in Parts(t) : s = ShardOf(t, k)
    BY <2>2 DEF ShardOf, IsStream
  <2>3. CASE s = EgressOf(t, of)
    BY <2>3 DEF EgressOf, IsStream
  <2> QED BY <2>1, <2>2, <2>3, StreamsByTier
<1>2. \A s, u \in PlanOf(t, i, of).streams : s.name = u.name => s = u
  BY NamesDiffer
<1>3. ASSUME NEW r \in PlanOf(t, i, of).dns, NEW q \in PlanOf(t, i, of).dns, r.name = q.name
      PROVE  r.target = q.target
  <2>0. PlanOf(t, i, of).dns = DNSRecords(t)
    BY DEF PlanOf
  <2>1. PICK j \in Parts(t) : r = [name |-> LeafDNSName(j[2]), target |-> t.endpoint[t.place[j]]]
    BY <2>0 DEF DNSRecords
  <2>2. PICK k \in Parts(t) : q = [name |-> LeafDNSName(k[2]), target |-> t.endpoint[t.place[k]]]
    BY <2>0 DEF DNSRecords
  <2>3. LeafDNSName(j[2]) = LeafDNSName(k[2])
    BY <1>3, <2>1, <2>2
  <2>4. j = k
    BY <2>3 DEF Buildable
  <2> QED BY <2>1, <2>2, <2>4
<1> QED BY <1>1, <1>2, <1>3 DEF WellNamed

\* indexStreams and its like for DNS lose nothing of such a plan.
LEMMA IndexComplete ==
  ASSUME NEW p, WellNamed(p)
  PROVE  /\ DOMAIN IndexStreams(p.streams) = {s.name : s \in p.streams}
         /\ \A s \in p.streams : IndexStreams(p.streams)[s.name] = s
         /\ DOMAIN IndexDNS(p.dns) = {r.name : r \in p.dns}
         /\ \A r \in p.dns : IndexDNS(p.dns)[r.name] = r.target
<1>1. DOMAIN IndexStreams(p.streams) = {s.name : s \in p.streams}
  BY DEF IndexStreams
<1>2. ASSUME NEW s \in p.streams PROVE IndexStreams(p.streams)[s.name] = s
  <2> DEFINE Last1(u) == u.name = s.name /\ \A r \in p.streams : r.name = s.name => Wave(r.tier) <= Wave(u.tier)
  <2>1. Wave(s.tier) \in Nat
    BY DEF WellNamed, IsStream, Wave
  <2>2. \A r \in p.streams : r.name = s.name => r = s
    BY DEF WellNamed
  <2>3. Last1(s)
    BY <2>1, <2>2
  <2>4. IndexStreams(p.streams)[s.name] = CHOOSE u \in p.streams : Last1(u)
    BY DEF IndexStreams
  <2>5. ASSUME NEW u \in p.streams, Last1(u) PROVE u = s
    BY <2>2, <2>5
  <2> HIDE DEF Last1
  <2> QED BY <2>3, <2>4, <2>5
<1>3. DOMAIN IndexDNS(p.dns) = {r.name : r \in p.dns}
  BY DEF IndexDNS
<1>4. ASSUME NEW r \in p.dns PROVE IndexDNS(p.dns)[r.name] = r.target
  <2>1. IndexDNS(p.dns)[r.name] = (CHOOSE q \in p.dns : q.name = r.name).target
    BY DEF IndexDNS
  <2>2. \A q \in p.dns : q.name = r.name => q.target = r.target
    BY DEF WellNamed
  <2> QED BY <2>1, <2>2
<1> QED BY <1>1, <1>2, <1>3, <1>4

\* Streams that Diff neither calls moved nor modified are equal.
LEMMA UnchangedStreams ==
  ASSUME NEW a, NEW b, IsStream(a), IsStream(b), a.name = b.name,
         ~(a.cluster # b.cluster \/ a.domain # b.domain), ~StreamConfigChanged(a, b)
  PROVE  a = b
<1>1. /\ a.cluster = b.cluster /\ a.domain = b.domain
      /\ a.replicas = b.replicas /\ a.tier = b.tier /\ a.sources = b.sources
  BY DEF StreamConfigChanged
<1> QED BY <1>1 DEF IsStream

\* Diff's delta takes one plan's streams to the other's.
LEMMA DiffStreams ==
  ASSUME NEW old, NEW new, WellNamed(old), WellNamed(new)
  PROVE  LET d == Diff(old, new)
             os == IndexStreams(old.streams)
             kept == {os[n] : n \in DOMAIN os}
                       \ (d.removed \cup {m[1] : m \in d.moved \cup d.modified})
         IN new.streams = kept \cup d.added \cup {m[2] : m \in d.moved \cup d.modified}
<1> DEFINE os == IndexStreams(old.streams)
           ns == IndexStreams(new.streams)
           both == DOMAIN os \cap DOMAIN ns
           moved == {n \in both : os[n].cluster # ns[n].cluster \/ os[n].domain # ns[n].domain}
           changed == {m \in both \ moved : StreamConfigChanged(os[m], ns[m])}
           removed == {os[n] : n \in DOMAIN os \ DOMAIN ns}
           added == {ns[n] : n \in DOMAIN ns \ DOMAIN os}
           pairs == {<<os[n], ns[n]>> : n \in moved} \cup {<<os[n], ns[n]>> : n \in changed}
           kept == {os[n] : n \in DOMAIN os} \ (removed \cup {m[1] : m \in pairs})
<1>1. /\ Diff(old, new).removed = removed /\ Diff(old, new).added = added
      /\ Diff(old, new).moved \cup Diff(old, new).modified = pairs
  BY DEF Diff
<1>2. /\ \A n \in DOMAIN os : os[n] \in old.streams /\ os[n].name = n /\ IsStream(os[n])
      /\ \A s \in new.streams : s.name \in DOMAIN ns /\ ns[s.name] = s
      /\ \A n \in DOMAIN ns : ns[n] \in new.streams /\ ns[n].name = n /\ IsStream(ns[n])
  <2>1. ASSUME NEW n \in DOMAIN os
        PROVE  os[n] \in old.streams /\ os[n].name = n /\ IsStream(os[n])
    <3>0. DOMAIN os = {s.name : s \in old.streams}
      BY IndexComplete
    <3>1. PICK s \in old.streams : s.name = n
      BY <3>0
    <3>2. os[n] = s
      BY <3>1, IndexComplete
    <3> HIDE DEF os
    <3> QED BY <3>1, <3>2 DEF WellNamed
  <2>2. \A s \in new.streams : s.name \in DOMAIN ns /\ ns[s.name] = s
    BY IndexComplete
  <2>3. ASSUME NEW n \in DOMAIN ns
        PROVE  ns[n] \in new.streams /\ ns[n].name = n /\ IsStream(ns[n])
    <3>0. DOMAIN ns = {s.name : s \in new.streams}
      BY IndexComplete
    <3>1. PICK s \in new.streams : s.name = n
      BY <3>0
    <3>2. ns[n] = s
      BY <3>1, <2>2
    <3> HIDE DEF ns
    <3> QED BY <3>1, <3>2 DEF WellNamed
  <2> HIDE DEF os, ns
  <2> QED BY <2>1, <2>2, <2>3
<1> HIDE DEF os, ns
<1>3. \A n \in both : n \notin moved /\ n \notin changed => os[n] = ns[n]
  BY <1>2, UnchangedStreams
<1>4. /\ {m[1] : m \in pairs} = {os[n] : n \in moved \cup changed}
      /\ {m[2] : m \in pairs} = {ns[n] : n \in moved \cup changed}
  <2> HIDE DEF moved, changed
  <2>1. ASSUME NEW n \in moved \cup changed PROVE \E m \in pairs : m[1] = os[n] /\ m[2] = ns[n]
    <3>1. <<os[n], ns[n]>> \in pairs
      OBVIOUS
    <3> QED BY <3>1
  <2>2. \A m \in pairs : \E n \in moved \cup changed : m[1] = os[n] /\ m[2] = ns[n]
    OBVIOUS
  <2> HIDE DEF pairs
  <2>3. {m[1] : m \in pairs} = {os[n] : n \in moved \cup changed}
    BY <2>1, <2>2
  <2>4. {m[2] : m \in pairs} = {ns[n] : n \in moved \cup changed}
    BY <2>1, <2>2
  <2> QED BY <2>3, <2>4
<1>5. moved \cup changed \subseteq both
  OBVIOUS
<1> HIDE DEF moved, changed, pairs
<1>6. ASSUME NEW s \in new.streams PROVE s \in kept \cup added \cup {m[2] : m \in pairs}
  <2> DEFINE n == s.name
  <2>1. n \in DOMAIN ns /\ ns[n] = s
    BY <1>2
  <2>2. CASE n \notin DOMAIN os
    BY <2>1, <2>2
  <2>3. CASE n \in moved \cup changed
    BY <1>4, <2>1, <2>3
  <2>4. CASE n \in both /\ n \notin moved \cup changed
    <3>1. os[n] = s
      BY <1>3, <2>1, <2>4
    <3>2. s \notin removed
      BY <1>2, <2>1, <2>4, <3>1
    <3>3. s \notin {m[1] : m \in pairs}
      BY <1>2, <1>4, <1>5, <2>4, <3>1
    <3> QED BY <2>4, <3>1, <3>2, <3>3
  <2> QED BY <2>1, <2>2, <2>3, <2>4
<1>7. ASSUME NEW s \in kept \cup added \cup {m[2] : m \in pairs} PROVE s \in new.streams
  <2>1. CASE s \in added
    BY <1>2, <2>1
  <2>2. CASE s \in {m[2] : m \in pairs}
    <3>1. PICK n \in moved \cup changed : s = ns[n]
      BY <1>4, <2>2
    <3> QED BY <1>2, <1>5, <3>1
  <2>3. CASE s \in kept
    <3>1. PICK n \in DOMAIN os : s = os[n]
      BY <2>3
    <3>2. n \in DOMAIN ns /\ n \notin moved \cup changed
      BY <1>4, <2>3, <3>1
    <3> QED BY <1>2, <1>3, <3>1, <3>2
  <2> QED BY <1>7, <2>1, <2>2, <2>3
<1>8. new.streams = kept \cup added \cup {m[2] : m \in pairs}
  BY <1>6, <1>7
<1> QED BY <1>1, <1>8 DEF os

\* And its DNS records.
LEMMA DiffRecords ==
  ASSUME NEW old, NEW new, WellNamed(old), WellNamed(new)
  PROVE  LET d == Diff(old, new)
         IN {<<r.name, r.target>> : r \in new.dns}
              = ({<<r.name, r.target>> : r \in old.dns}
                   \ (d.dnsRemoved \cup {<<c[1], c[2]>> : c \in d.dnsChanged}))
                  \cup d.dnsAdded \cup {<<c[1], c[3]>> : c \in d.dnsChanged}
<1> DEFINE or == IndexDNS(old.dns)
           nr == IndexDNS(new.dns)
           removed == {<<n, or[n]>> : n \in DOMAIN or \ DOMAIN nr}
           added == {<<n, nr[n]>> : n \in DOMAIN nr \ DOMAIN or}
           differ == {m \in DOMAIN or \cap DOMAIN nr : or[m] # nr[m]}
           changed == {<<n, or[n], nr[n]>> : n \in differ}
<1>1. /\ Diff(old, new).dnsRemoved = removed /\ Diff(old, new).dnsAdded = added
      /\ Diff(old, new).dnsChanged = changed
  BY DEF Diff
<1>2. /\ {<<r.name, r.target>> : r \in old.dns} = {<<n, or[n]>> : n \in DOMAIN or}
      /\ {<<r.name, r.target>> : r \in new.dns} = {<<n, nr[n]>> : n \in DOMAIN nr}
  <2>1. ASSUME NEW p, WellNamed(p)
        PROVE  {<<r.name, r.target>> : r \in p.dns}
                 = {<<n, IndexDNS(p.dns)[n]>> : n \in DOMAIN IndexDNS(p.dns)}
    <3> DEFINE ix == IndexDNS(p.dns)
    <3>1. DOMAIN ix = {r.name : r \in p.dns} /\ \A r \in p.dns : ix[r.name] = r.target
      BY <2>1, IndexComplete
    <3> HIDE DEF ix
    <3>2. {<<r.name, r.target>> : r \in p.dns} = {<<n, ix[n]>> : n \in DOMAIN ix}
      BY <3>1
    <3> QED BY <3>2 DEF ix
  <2> QED BY <2>1
<1>3. /\ {<<c[1], c[2]>> : c \in changed} = {<<n, or[n]>> : n \in differ}
      /\ {<<c[1], c[3]>> : c \in changed} = {<<n, nr[n]>> : n \in differ}
  <2> HIDE DEF or, nr, differ
  <2>1. ASSUME NEW n \in differ
        PROVE  \E c \in changed : c[1] = n /\ c[2] = or[n] /\ c[3] = nr[n]
    <3>1. <<n, or[n], nr[n]>> \in changed
      OBVIOUS
    <3> QED BY <3>1
  <2>2. \A c \in changed : \E n \in differ : c[1] = n /\ c[2] = or[n] /\ c[3] = nr[n]
    OBVIOUS
  <2> HIDE DEF changed
  <2>3. {<<c[1], c[2]>> : c \in changed} = {<<n, or[n]>> : n \in differ}
    BY <2>1, <2>2
  <2>4. {<<c[1], c[3]>> : c \in changed} = {<<n, nr[n]>> : n \in differ}
    BY <2>1, <2>2
  <2> QED BY <2>3, <2>4
<1> HIDE DEF or, nr, changed
<1>4. {<<n, nr[n]>> : n \in DOMAIN nr}
        = ({<<n, or[n]>> : n \in DOMAIN or} \ (removed \cup {<<n, or[n]>> : n \in differ}))
            \cup added \cup {<<n, nr[n]>> : n \in differ}
  OBVIOUS
<1> QED BY <1>1, <1>2, <1>3, <1>4

\* The spec that -previous names was built before, so its plan is as good as the new one.
PriorResult ==
  /\ previous # None => Buildable(previous)
  /\ ran = "ok" => WellNamed(plan) /\ WellNamed(prior)

LEMMA PriorResultStep ==
  ASSUME NoCentralDistrict, PriorResult, NEW c \in Configs, RunGen(c)
  PROVE  PriorResult'
<1>1. Buildable(spec) /\ previous' = spec
  BY DEF RunGen, Generable
<1>2. PICK p \in Builds(spec), q \in IF previous = None THEN {NoPlan} ELSE Builds(previous) :
        /\ plan' = AttachCabinets(p, inv, spec)
        /\ prior' = IF previous = None THEN plan' ELSE AttachCabinets(q, inv, previous)
  BY DEF RunGen
<1>3. WellNamed(plan')
  BY <1>1, <1>2, AttachedPlan, PlansAreWellNamed
<1>4. WellNamed(prior')
  <2>1. CASE previous = None
    BY <1>2, <1>3, <2>1
  <2>2. CASE previous # None
    <3>1. Buildable(previous) /\ q \in Builds(previous)
          /\ prior' = AttachCabinets(q, inv, previous)
      BY <1>2, <2>2 DEF PriorResult
    <3> QED BY <3>1, AttachedPlan, PlansAreWellNamed
  <2> QED BY <2>1, <2>2
<1>5. WellNamed(plan)' /\ WellNamed(prior)' /\ Buildable(previous)'
  BY <1>1, <1>3, <1>4 DEF WellNamed, IsStream
<1> QED BY <1>5 DEF PriorResult

LEMMA PriorResultInvariant == NoCentralDistrict => (GenSpec => []PriorResult)
<1> SUFFICES ASSUME NoCentralDistrict PROVE GenSpec => []PriorResult
  OBVIOUS
<1>1. GenInit => PriorResult
  BY DEF GenInit, PriorResult
<1>2. PriorResult /\ [GenNext]_gvars => PriorResult'
  <2> SUFFICES ASSUME PriorResult, [GenNext]_gvars PROVE PriorResult'
    OBVIOUS
  <2>1. CASE EditSpec \/ EditInventory \/ RunFails
    <3>1. UNCHANGED previous /\ ran' # "ok"
      BY <2>1 DEF EditSpec, EditInventory, RunFails
    <3> QED BY <3>1 DEF PriorResult
  <2>2. CASE \E c \in Configs : RunGen(c)
    BY <2>2, PriorResultStep
  <2>3. CASE UNCHANGED gvars
    <3>1. UNCHANGED <<previous, ran, plan, prior>>
      BY <2>3 DEF gvars, memory
    <3> QED BY <3>1 DEF PriorResult
  <2> QED BY <2>1, <2>2, <2>3 DEF GenNext
<1> QED BY <1>1, <1>2, PTL DEF GenSpec

\* plan.Diff says all there is to do: the previous plan, changed as the delta says, is the
\* new plan, for any two specs that were built one after the other (with the proviso of
\* NamesDiffer).
THEOREM DeltasAreComplete == NoCentralDistrict => (GenSpec => []DeltaComplete)
<1> SUFFICES ASSUME NoCentralDistrict PROVE GenSpec => []DeltaComplete
  OBVIOUS
<1>1. RunResult /\ PriorResult => DeltaComplete
  <2> SUFFICES ASSUME RunResult, PriorResult, ran = "ok" PROVE DeltaComplete
    BY DEF DeltaComplete
  <2>1. delta = Diff(prior, plan) /\ WellNamed(plan) /\ WellNamed(prior)
    BY DEF RunResult, PriorResult
  <2> QED BY <2>1, DiffStreams, DiffRecords DEF DeltaComplete
<1> QED BY <1>1, RunResultInvariant, PriorResultInvariant, PTL

-----------------------------------------------------------------------------
\* The spec and the inventory keep their shape under edits

Rows == [partition : PartitionIds, filter : Filters \cup {None}] \cup {None}

GenTypeOK == spec \in SpecType /\ PartsListed(spec) /\ inv \in [Cabinets -> Rows]

LEMMA EditedTypes ==
  ASSUME spec \in SpecType, PartsListed(spec), NEW f \in Fields, NEW t \in Edited(f)
  PROVE  t \in SpecType /\ PartsListed(t)
<1> USE DEF SpecType
<1>0. f \in {"place", "districts", "prefix", "domain", "central", "replicas", "dmz",
             "substrate", "endpoint", "shares"}
  BY FieldsAssumption
<1>1. CASE f = "place"
  <2>1. PICK k \in DistrictIds \X PartitionIds, c \in Clusters \cup {None} :
          t = [spec EXCEPT !.place[k] = c, !.districts = @ \cup {k[1]}]
    <3>1. t \in Placed
      BY <1>1 DEF Edited
    <3> DEFINE of(k) == {[spec EXCEPT !.place[k] = c, !.districts = @ \cup {k[1]}] :
                           c \in Clusters \cup {None}}
    <3>2. Placed = UNION {of(k) : k \in DistrictIds \X PartitionIds}
      BY DEF Placed
    <3>3. PICK k \in DistrictIds \X PartitionIds : t \in of(k)
      <4> HIDE DEF of
      <4> QED BY <3>1, <3>2
    <3>4. \E c \in Clusters \cup {None} :
            t = [spec EXCEPT !.place[k] = c, !.districts = @ \cup {k[1]}]
      BY <3>3
    <3> QED BY <3>4
  <2>2. t.place = [spec.place EXCEPT ![k] = c] /\ t.districts = spec.districts \cup {k[1]}
    BY <2>1
  <2>3. t \in SpecType
    BY <2>1
  <2>4. \A j \in Parts(t) : j = k \/ j \in Parts(spec)
    BY <2>2 DEF Parts
  <2> QED BY <2>2, <2>3, <2>4 DEF PartsListed
<1>2. CASE f = "districts"
  <2>1. PICK d \in DistrictIds :
          t = [spec EXCEPT !.districts = @ \ {d},
                 !.place = [k \in DOMAIN @ |-> IF k[1] = d THEN None ELSE @[k]]]
    <3>1. t \in Removed
      BY <1>2 DEF Edited
    <3> QED BY <3>1 DEF Removed
  <2>2. /\ t.place = [k \in DOMAIN spec.place |-> IF k[1] = d THEN None ELSE spec.place[k]]
        /\ t.districts = spec.districts \ {d}
    BY <2>1
  <2>3. t \in SpecType
    BY <2>1
  <2>4. \A j \in Parts(t) : j[1] # d /\ j \in Parts(spec)
    BY <2>2 DEF Parts
  <2> QED BY <2>2, <2>3, <2>4 DEF PartsListed
<1>3. ASSUME t \in SpecType, t.place = spec.place, t.districts = spec.districts
      PROVE  t \in SpecType /\ PartsListed(t)
  BY <1>3 DEF PartsListed, Parts
<1>4. CASE f = "prefix"
  BY <1>3, <1>4 DEF Edited
<1>5. CASE f = "domain"
  BY <1>3, <1>5 DEF Edited
<1>6. CASE f = "central"
  BY <1>3, <1>6 DEF Edited
<1>7. CASE f = "replicas"
  <2>1. PICK n \in {1, 3, 6} : t = [spec EXCEPT !.replicas = n]
    BY <1>7 DEF Edited
  <2>2. n \in Nat
    OBVIOUS
  <2> QED BY <1>3, <2>1, <2>2
<1>8. CASE f = "dmz"
  BY <1>3, <1>8 DEF Edited
<1>9. CASE f = "substrate"
  BY <1>3, <1>9 DEF Edited
<1>10. CASE f = "shares"
  BY <1>3, <1>10 DEF Edited
<1>11. CASE f = "endpoint"
  BY <1>3, <1>11 DEF Edited
<1> QED BY <1>0, <1>1, <1>2, <1>4, <1>5, <1>6, <1>7, <1>8, <1>9, <1>10, <1>11

LEMMA GenTypeCorrect == GenSpec => []GenTypeOK
<1>1. GenInit => GenTypeOK
  BY BaseAssumption DEF GenInit, GenTypeOK, Rows
<1>2. GenTypeOK /\ [GenNext]_gvars => GenTypeOK'
  <2> SUFFICES ASSUME GenTypeOK, [GenNext]_gvars PROVE GenTypeOK'
    OBVIOUS
  <2>1. CASE EditSpec
    <3>1. PICK f \in Fields : \E t \in Edited(f) : spec' = t
      BY <2>1 DEF EditSpec
    <3>2. spec' \in SpecType /\ PartsListed(spec')
      BY <3>1, EditedTypes DEF GenTypeOK
    <3>3. inv' = inv
      BY <2>1 DEF EditSpec
    <3> QED BY <3>2, <3>3 DEF GenTypeOK, PartsListed, Parts
  <2>2. CASE EditInventory
    <3>1. PICK c \in Cabinets, row \in Rows : inv' = [inv EXCEPT ![c] = row]
      BY <2>2 DEF EditInventory, Rows
    <3>2. spec' = spec
      BY <2>2 DEF EditInventory
    <3> QED BY <3>1, <3>2 DEF GenTypeOK, PartsListed, Parts
  <2>3. CASE RunFails \/ (\E c \in Configs : RunGen(c)) \/ UNCHANGED gvars
    <3>1. UNCHANGED <<spec, inv>>
      BY <2>3 DEF RunFails, RunGen, gvars
    <3> QED BY <3>1 DEF GenTypeOK, PartsListed, Parts
  <2> QED BY <2>1, <2>2, <2>3 DEF GenNext
<1> QED BY <1>1, <1>2, PTL DEF GenSpec

-----------------------------------------------------------------------------
\* Subjects

\* Every district's space is an anchored ".>" space.
LEMMA SpacesAreSpaces ==
  ASSUME NEW t \in SpecType, NEW d \in DistrictIds
  PROVE  /\ SubjectSpace(t, d) \in Subjects
         /\ Len(SubjectSpace(t, d)) > 1 /\ Last(SubjectSpace(t, d)) = Rest
<1>1. CASE t.prefix[d] = None
  <2>1. SubjectSpace(t, d) = <<Dot, d, Rest>>
    BY <1>1 DEF SubjectSpace, DefaultSubjectPrefix
  <2>2. Dot \in Tokens /\ d \in Tokens /\ Rest \in Tokens
    BY DEF Tokens
  <2> DEFINE s == <<Dot, d, Rest>>
  <2>3. s \in Seq(Tokens)
    BY <2>2
  <2>4. Len(s) = 3 /\ s[3] = Rest
    OBVIOUS
  <2> HIDE DEF s
  <2>5. Last(s) = Rest
    BY <2>4 DEF Last
  <2>6. SubjectSpace(t, d) = s
    BY <2>1 DEF s
  <2>7. s \in Subjects /\ Len(s) > 1
    BY <2>3, <2>4 DEF Subjects
  <2> QED BY <2>5, <2>6, <2>7, Zenon
<1>2. CASE t.prefix[d] # None
  <2>1. SubjectSpace(t, d) = t.prefix[d] /\ t.prefix[d] \in Spaces
    BY <1>2 DEF SubjectSpace, SpecType
  <2> DEFINE s == t.prefix[d]
  <2>2. s \in Subjects /\ IsStrictPrefix(Anchor, s) /\ Last(s) = Rest
    BY <2>1, SpacesAssumption, SubjectsAssumption
  <2> HIDE DEF s
  <2>3. Dot \in Tokens
    BY DEF Tokens
  <2>4. Anchor \in Seq(Tokens) /\ Len(Anchor) = 1
    BY <2>3 DEF Anchor
  <2>5. s \in Seq(Tokens) /\ Len(s) >= 1 /\ Anchor # s
        /\ SubSeq(Anchor, 1, 1) = SubSeq(s, 1, 1)
    BY <2>2, <2>4 DEF Subjects, IsStrictPrefix, IsPrefix
  <2>6. Len(s) # 1
    <3> SUFFICES ASSUME Len(s) = 1 PROVE FALSE
      OBVIOUS
    <3>1. Anchor = SubSeq(Anchor, 1, 1) /\ s = SubSeq(s, 1, 1)
      BY <2>4, <2>5
    <3> QED BY <2>5, <3>1
  <2>7. Len(s) > 1
    <3> DEFINE n == Len(s)
    <3>1. n \in Nat /\ n >= 1 /\ n # 1
      BY <2>5, <2>6
    <3> HIDE DEF n
    <3>2. n > 1
      BY <3>1
    <3> QED BY <3>2 DEF n
  <2>8. SubjectSpace(t, d) = s
    BY <2>1 DEF s
  <2> QED BY <2>2, <2>7, <2>8, Zenon
<1> QED BY <1>1, <1>2

\* naming.UnderPrefix agrees with NATS: what a filter under a space matches, the space
\* matches too.
LEMMA UnderPrefixCovers ==
  ASSUME NEW space \in Subjects, Len(space) > 1, Last(space) = Rest,
         NEW filter \in Subjects, UnderPrefix(filter, space)
  PROVE  Covers(space, filter)
<1> SUFFICES ASSUME NEW u \in Literals, Matches(filter, u) PROVE Matches(space, u)
  BY DEF Covers
<1> DEFINE n == Len(space)
           m == Len(filter)
<1>1. n \in Nat /\ m \in Nat /\ n > 1 /\ Len(u) \in Nat /\ space[n] = Rest
  BY SubjectsAssumption DEF Subjects, Last
<1>2. IsStrictPrefix(Front(space), filter)
  BY DEF UnderPrefix
<1>3. /\ Front(space) \in Seq(Tokens) /\ Len(Front(space)) = n - 1
      /\ \A i \in 1..(n - 1) : Front(space)[i] = space[i]
  BY <1>1 DEF Front, Subjects
<1>4. /\ n - 1 <= m /\ Front(space) # filter
      /\ SubSeq(Front(space), 1, n - 1) = SubSeq(filter, 1, n - 1)
  BY <1>2, <1>3 DEF IsStrictPrefix, IsPrefix
<1>5. \A i \in 1..(n - 1) : space[i] = filter[i]
  <2> DEFINE f == Front(space)
  <2> HIDE DEF f
  <2>1. ASSUME NEW i \in 1..(n - 1) PROVE SubSeq(f, 1, n - 1)[i] = f[i]
    BY <1>1, <1>3 DEF f
  <2>2. ASSUME NEW i \in 1..(n - 1) PROVE SubSeq(filter, 1, n - 1)[i] = filter[i]
    BY <1>1, <1>4 DEF Subjects
  <2> QED BY <1>3, <1>4, <2>1, <2>2 DEF f
<1>6. n <= m
  <2> SUFFICES ASSUME m = n - 1 PROVE FALSE
    BY <1>1, <1>4
  <2>1. SubSeq(filter, 1, m) = filter
    BY DEF Subjects
  <2>2. SubSeq(Front(space), 1, n - 1) = Front(space)
    BY <1>1, <1>3
  <2> QED BY <1>4, <2>1, <2>2
<1>7. /\ Len(u) >= m
      /\ \A i \in 1..m : filter[i] \in {u[i], AnyToken, Rest}
  BY <1>1 DEF Matches
<1>8. ASSUME NEW i \in 1..n PROVE space[i] \in {u[i], AnyToken, Rest}
  <2>1. CASE i = n
    BY <1>1, <2>1
  <2>2. CASE i # n
    <3>1. i \in 1..(n - 1) /\ i \in 1..m
      BY <1>1, <1>6, <2>2
    <3> QED BY <1>5, <1>7, <3>1
  <2> QED BY <2>1, <2>2
<1>9. Len(u) >= n
  BY <1>1, <1>6, <1>7
<1> QED BY <1>1, <1>8, <1>9 DEF Matches

\* plan.AttachCabinets accepts only filters inside the cabinet's district, so that a cabinet
\* never buffers what its district's account does not export.
THEOREM CabinetsStayInScope == GenSpec => []CabinetsScoped
<1>1. RunResult /\ GenTypeOK => CabinetsScoped
  <2> SUFFICES ASSUME RunResult, GenTypeOK, ran = "ok", NEW c \in Fleet(inv), inv[c].filter # None
               PROVE  \E k \in Parts(spec) :
                        /\ k[2] = inv[c].partition
                        /\ \A e \in Exports(spec)[<<"district", k[1]>>] : Covers(e, inv[c].filter)
    BY DEF CabinetsScoped
  <2>1. PICK k \in Parts(spec) : /\ k[2] = inv[c].partition
                                 /\ UnderPrefix(inv[c].filter, SubjectSpace(spec, k[1]))
    BY DEF RunResult, Attachable
  <2>2. k[1] \in spec.districts /\ k[1] \in DistrictIds
    BY DEF GenTypeOK, PartsListed, Parts
  <2>3. Exports(spec)[<<"district", k[1]>>] = {SubjectSpace(spec, k[1])}
    BY <2>2 DEF Exports
  <2>4. inv[c].filter \in Subjects
    <3>1. inv[c] \in Rows /\ inv[c] # None
      BY DEF GenTypeOK, Fleet
    <3>2. inv[c].filter \in Filters
      BY <3>1 DEF Rows
    <3> QED BY <3>2, SubjectsAssumption
  <2>5. Covers(SubjectSpace(spec, k[1]), inv[c].filter)
    BY <2>1, <2>2, <2>4, SpacesAreSpaces, UnderPrefixCovers DEF GenTypeOK
  <2> QED BY <2>1, <2>3, <2>5
<1> QED BY <1>1, RunResultInvariant, GenTypeCorrect, PTL

\* Shares flow: central exports what the DMZ account imports, and has what a share draws
\* from the district whose shards the egress stream sources.
THEOREM SharesReachTheDMZ == GenSpec => []SharesFlow
<1>1. RunResult /\ GenTypeOK => SharesFlow
  <2> SUFFICES ASSUME RunResult, GenTypeOK, ran = "ok" PROVE SharesFlow
    BY DEF SharesFlow
  <2>1. ASSUME NEW i \in Imports(spec).dmz PROVE i[2] \in Exports(spec)[i[1]]
    <3>1. spec.dmz # None
      BY DEF Imports
    <3>2. PICK s \in spec.shares : i = <<<<"central">>, s.from>>
      BY <3>1 DEF Imports
    <3>3. Exports(spec)[<<"central">>] = {s1.from : s1 \in spec.shares}
      BY <3>1 DEF Exports
    <3> QED BY <3>2, <3>3
  <2>2. ASSUME NEW s \in plan.streams, s.tier = "dmz", NEW src \in s.sources
        PROVE  \E k \in Parts(spec), i \in Imports(spec).central :
                 /\ src.name = CentralShardStreamName(k[1], k[2])
                 /\ i[1] = <<"district", k[1]>> /\ Covers(i[2], src.from)
    <3>1. PICK of \in ShareChoices(spec) : plan = PlanOf(spec, inv, of)
      BY DEF RunResult, MadePlan
    <3>2. s = EgressOf(spec, of) /\ spec.dmz # None
      BY <2>2, <3>1, StreamsByTier
    <3>3. PICK h \in spec.shares, k \in Parts(spec) : k[1] = of[h] /\ src = ShareSource(spec, h, k)
      BY <2>2, <3>2, EgressSources
    <3>4. src.name = CentralShardStreamName(k[1], k[2]) /\ src.from = h.from
      BY <3>3 DEF ShareSource, Source
    <3>5. k[1] \in spec.districts /\ UnderPrefix(h.from, SubjectSpace(spec, k[1]))
      BY <3>2, <3>3 DEF ShareChoices, DistrictsOf
    <3>6. spec \in SpecType /\ k[1] \in DistrictIds /\ h.from \in Subjects
      BY <3>3, SharesAssumption DEF GenTypeOK, SpecType, Parts
    <3>7. Covers(SubjectSpace(spec, k[1]), h.from)
      BY <3>5, <3>6, SpacesAreSpaces, UnderPrefixCovers
    <3>8. <<<<"district", k[1]>>, SubjectSpace(spec, k[1])>> \in Imports(spec).central
      BY <3>5 DEF Imports
    <3> QED BY <3>4, <3>7, <3>8
  <2> QED BY <2>1, <2>2 DEF SharesFlow
<1> QED BY <1>1, RunResultInvariant, GenTypeCorrect, PTL

=============================================================================
