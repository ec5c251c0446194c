--------------------------------- MODULE Plan ---------------------------------
(***************************************************************************)
(* The pure middle of cmd/gen: topology.Validate, naming, plan.Build,      *)
(* plan.AttachCabinets, accounts.Build, plan.Diff and the rows of the      *)
(* rebalance runbook.                                                      *)
(*                                                                         *)
(* A district id is its sequence of '-'-separated words; a partition id    *)
(* is a sequence of '/'-separated segments, each such a sequence.  A       *)
(* subject is its sequence of tokens below "vikasa.", each a sequence of     *)
(* words too.  A plan's lists are sets: every list the code makes is       *)
(* sorted by a key, except the DMZ sources, which follow the shares.       *)
(***************************************************************************)
EXTENDS Naturals, FiniteSets, SequencesExt

CONSTANTS
  Dot,          \* the DOT's id, a token
  DistrictIds, PartitionIds, Clusters, Domains,
  Shares,       \* [consumer, from, as]
  None          \* an absent optional field

-----------------------------------------------------------------------------
\* internal/naming

\* Sanitize turns '/' and '-' into the same '_': what is left of an id is its words.
\* (Ids are lower case, so that upper-casing loses nothing.)
Sanitize(partitionID) == FlattenSeq(partitionID)

\* tokenRE and partitionIDRE: an id has a word, and so a name has one for either.
ASSUME WordsAssumption ==
  /\ DistrictIds \subseteq Seq(STRING) \ {<< >>}
  /\ \A p \in PartitionIds : Sanitize(p) \in Seq(STRING) \ {<< >>}

PartitionStreamName(d, p) == d \o Sanitize(p)
CentralShardStreamName(d, p) == <<"central">> \o d \o Sanitize(p)
DMZStreamName == <<"dmz">>
BufferStreamName == <<"buffer">>

\* The district is not part of a leaf's DNS name, and '/' becomes '-'.
LeafDNSName(p) == FlattenSeq(p)

\* The tokens ">" and "*".
Rest == <<">">>
AnyToken == <<"*">>

\* ValidSubjectString: a subject is a sequence of such tokens.
Tokens == Seq(STRING) \cup DistrictIds \cup {Dot, Rest, AnyToken}
Subjects == Seq(Tokens)

\* tokenRE has no wildcards.
ASSUME DotAssumption == Dot \notin {Rest, AnyToken}
ASSUME SharesAssumption ==
  \A s \in Shares : {s.from, s.as} \subseteq Subjects /\ s.consumer \notin {Rest, AnyToken}

\* A space ends in ".>" and holds what continues it on a token boundary; anything else
\* holds only itself.
UnderPrefix(subject, prefix) ==
  IF Len(prefix) > 1 /\ Last(prefix) = Rest
    THEN IsStrictPrefix(Front(prefix), subject)
    ELSE subject = prefix

Anchor == <<Dot>>
ShareSpace == <<Dot, <<"share">>>>
PeerSpace == <<<<"peer">>, Dot>>

DefaultSubjectPrefix(d) == <<Dot, d, Rest>>

-----------------------------------------------------------------------------
\* internal/topology

\* A spec t: t.districts; t.prefix[d], the declared subject-prefix; t.place[<<d, p>>], the
\* cluster of a partition; t.domain[c] and t.endpoint[c], the js-domain and the
\* leaf-endpoint of a cluster; t.central, t.replicas; t.dmz, its cluster or None;
\* t.dmzReplicas; t.shares.
Parts(t) == {k \in DistrictIds \X PartitionIds : t.place[k] # None}

SubjectSpace(t, d) == IF t.prefix[d] = None THEN DefaultSubjectPrefix(d) ELSE t.prefix[d]

\* Partition ids are one flat namespace.
PartitionIndexed(t) == \A j, k \in Parts(t) : j[2] = k[2] => j = k

\* Seeded fault: any consumer's subtree will do.
ScopedToAny(s) == IsStrictPrefix(ShareSpace, s.as) \/ IsStrictPrefix(PeerSpace, s.as)

\* A share is published in its own consumer's subtree, or in the peer space.
Scoped(s) ==
  \/ IsStrictPrefix(ShareSpace \o <<s.consumer>>, s.as)
  \/ IsStrictPrefix(PeerSpace, s.as)

\* Validate and validatePlacement, apart from the spelling of ids and subjects.
Valid(t) ==
  /\ \A d \in t.districts : t.prefix[d] # None =>
       /\ IsStrictPrefix(Anchor, t.prefix[d])
       /\ Last(t.prefix[d]) = Rest
  /\ t.replicas \in 1..5
  /\ PartitionIndexed(t)
  /\ t.dmz # None =>
       t.dmzReplicas \in 1..5 /\ t.shares # {} /\ \A s \in t.shares : Scoped(s)

-----------------------------------------------------------------------------
\* internal/plan: Build

Source(name, domain, from, as) == [name |-> name, domain |-> domain, from |-> from, as |-> as]

\* Seeded fault: a share may draw from any district.
DistrictsOfAny(t, from) == t.districts

\* What a share's `from` lies under.  The code takes the first that a map iteration
\* meets.
DistrictsOf(t, from) == {d \in t.districts : UnderPrefix(from, SubjectSpace(t, d))}

\* Two partitions must not share a stream name or a leaf DNS name, and a share needs a
\* district.
Buildable(t) ==
  /\ \A j, k \in Parts(t) : j # k =>
       /\ PartitionStreamName(j[1], j[2]) # PartitionStreamName(k[1], k[2])
       /\ LeafDNSName(j[2]) # LeafDNSName(k[2])
  /\ t.dmz # None => \A s \in t.shares : DistrictsOf(t, s.from) # {}

Regional(t) ==
  {[name |-> PartitionStreamName(k[1], k[2]), tier |-> "regional", cluster |-> t.place[k],
    domain |-> t.domain[t.place[k]], replicas |-> 3, sources |-> {}] : k \in Parts(t)}

\* Seeded fault: the source is looked for in central's own domain.
CentralShardsOwnDomain(t) ==
  {[name |-> CentralShardStreamName(k[1], k[2]), tier |-> "central", cluster |-> t.central,
    domain |-> t.domain[t.central], replicas |-> t.replicas,
    sources |-> {Source(PartitionStreamName(k[1], k[2]), t.domain[t.central], None, None)}] :
     k \in Parts(t)}

\* One shard per partition, sourcing that partition's stream across domains.
CentralShards(t) ==
  {[name |-> CentralShardStreamName(k[1], k[2]), tier |-> "central", cluster |-> t.central,
    domain |-> t.domain[t.central], replicas |-> t.replicas,
    sources |-> {Source(PartitionStreamName(k[1], k[2]), t.domain[t.place[k]], None, None)}] :
     k \in Parts(t)}

\* The egress stream sources, for every share, all the shards of its district; of[s] is
\* the district chosen for share s.
DMZStreams(t, of) ==
  IF t.dmz = None THEN {} ELSE
    {[name |-> DMZStreamName, tier |-> "dmz", cluster |-> t.dmz, domain |-> t.domain[t.dmz],
      replicas |-> t.dmzReplicas,
      sources |-> UNION {{Source(CentralShardStreamName(k[1], k[2]), t.domain[t.central],
                                 s.from, s.as) : k \in {j \in Parts(t) : j[1] = of[s]}} :
                         s \in t.shares}]}

\* Seeded fault: the record points at central.
DNSRecordsCentral(t) == {[name |-> LeafDNSName(k[2]), target |-> t.endpoint[t.central]] : k \in Parts(t)}

DNSRecords(t) == {[name |-> LeafDNSName(k[2]), target |-> t.endpoint[t.place[k]]] : k \in Parts(t)}

ShareChoices(t) ==
  IF t.dmz = None THEN {[s \in {} |-> None]}
  ELSE {of \in [t.shares -> DistrictIds] : \A s \in t.shares : of[s] \in DistrictsOf(t, s.from)}

\* The plans Build may return for a spec.
Builds(t) ==
  {[streams |-> Regional(t) \cup CentralShards(t) \cup DMZStreams(t, of),
    dns |-> DNSRecords(t)] : of \in ShareChoices(t)}

-----------------------------------------------------------------------------
\* internal/plan: AttachCabinets.  inv[c]: [partition, filter], or None.

Fleet(inv) == {c \in DOMAIN inv : inv[c] # None}

\* Seeded fault: the filter is not compared with the district.
AttachableUnscoped(inv, t) ==
  \A c \in Fleet(inv) : \E k \in Parts(t) : k[2] = inv[c].partition

Attachable(inv, t) ==
  \A c \in Fleet(inv) : \E k \in Parts(t) :
    /\ k[2] = inv[c].partition
    /\ inv[c].filter # None => UnderPrefix(inv[c].filter, SubjectSpace(t, k[1]))

CabinetSources(inv, t, name) ==
  {Source(BufferStreamName, c, inv[c].filter, None) :
     c \in {b \in Fleet(inv) : \E k \in Parts(t) :
              k[2] = inv[b].partition /\ PartitionStreamName(k[1], k[2]) = name}}

AttachCabinets(plan, inv, t) ==
  [plan EXCEPT !.streams =
     {IF s.tier = "regional"
        THEN [s EXCEPT !.sources = @ \cup CabinetSources(inv, t, s.name)] ELSE s :
        s \in plan.streams}]

-----------------------------------------------------------------------------
\* internal/accounts: Build

Exports(t) ==
  [a \in {<<"district", d>> : d \in t.districts} \cup {<<"central">>} |->
     IF a = <<"central">>
       THEN (IF t.dmz = None THEN {} ELSE {s.from : s \in t.shares})
       ELSE {SubjectSpace(t, a[2])}]

\* Imports of an account: which subject, from which account.
Imports(t) ==
  [central |-> {<<<<"district", d>>, SubjectSpace(t, d)>> : d \in t.districts},
   dmz |-> IF t.dmz = None THEN {} ELSE {<<<<"central">>, s.from>> : s \in t.shares}]

\* Permission templates.  An external consumer is denied all publishing by name; a system
\* user has no restriction.
Users(t) ==
  {[account |-> <<"district", d>>, label |-> <<"cabinet">>,
    publish |-> {SubjectSpace(t, d)}, subscribe |-> {SubjectSpace(t, d)}, publishDeny |-> {}] : d \in t.districts}
    \cup {[account |-> <<"system">>, label |-> <<"system">>,
           publish |-> {}, subscribe |-> {}, publishDeny |-> {}]}
    \cup {[account |-> <<"dmz">>, label |-> s.consumer,
           publish |-> {}, subscribe |-> {s.as}, publishDeny |-> {<<Rest>>}] :
             s \in IF t.dmz = None THEN {} ELSE t.shares}

\* What issuance makes of the DMZ's templates: one user per consumer, with all its shares.
\* A template's publish list is not carried over.
AggregateDMZConsumers(users) ==
  LET dmz == {u \in users : u.account = <<"dmz">>}
      of(c) == {u \in dmz : u.label = c}
  IN [c \in {u.label : u \in dmz} |-> [subAllow |-> UNION {u.subscribe : u \in of(c)},
                                       pubDeny |-> UNION {u.publishDeny : u \in of(c)}]]

-----------------------------------------------------------------------------
\* internal/plan: Diff

Wave(tier) == CASE tier = "central" -> 0 [] tier = "regional" -> 1 [] tier = "dmz" -> 2

\* indexStreams: of several streams with a name, the last in (wave, name) order stays.
IndexStreams(ss) ==
  [n \in {s.name : s \in ss} |->
     CHOOSE s \in ss : s.name = n /\ \A r \in ss : r.name = n => Wave(r.tier) <= Wave(s.tier)]

IndexDNS(rs) == [n \in {r.name : r \in rs} |-> (CHOOSE r \in rs : r.name = n).target]

\* Seeded fault: the sources are not compared.
StreamConfigChangedShallow(a, b) == a.replicas # b.replicas \/ a.tier # b.tier

StreamConfigChanged(a, b) ==
  a.replicas # b.replicas \/ a.tier # b.tier \/ a.sources # b.sources

Diff(old, new) ==
  LET os == IndexStreams(old.streams)  ns == IndexStreams(new.streams)
      or == IndexDNS(old.dns)          nr == IndexDNS(new.dns)
      both == DOMAIN os \cap DOMAIN ns
      moved == {n \in both : os[n].cluster # ns[n].cluster \/ os[n].domain # ns[n].domain}
  IN [added |-> {ns[n] : n \in DOMAIN ns \ DOMAIN os},
      removed |-> {os[n] : n \in DOMAIN os \ DOMAIN ns},
      moved |-> {<<os[n], ns[n]>> : n \in moved},
      modified |-> {<<os[n], ns[n]>> : n \in {m \in both \ moved : StreamConfigChanged(os[m], ns[m])}},
      dnsAdded |-> {<<n, nr[n]>> : n \in DOMAIN nr \ DOMAIN or},
      dnsRemoved |-> {<<n, or[n]>> : n \in DOMAIN or \ DOMAIN nr},
      dnsChanged |-> {<<n, or[n], nr[n]>> : n \in {m \in DOMAIN or \cap DOMAIN nr : or[m] # nr[m]}}]

HasChanges(d) == \E f \in DOMAIN d : d[f] # {}

\* Seeded fault: a decommissioned stream gets no row.
BuildRebalanceDataKeeping(d) ==
  [moved |-> {[name |-> m[2].name, oldCluster |-> m[1].cluster, newCluster |-> m[2].cluster,
               oldDomain |-> m[1].domain, newDomain |-> m[2].domain] : m \in d.moved},
   added |-> {[name |-> s.name, cluster |-> s.cluster] : s \in d.added},
   removed |-> {},
   modified |-> {[name |-> m[2].name, cluster |-> m[2].cluster] :
                   m \in {x \in d.modified : ~(d.moved # {} /\ x[2].tier = "central")}},
   dnsChanged |-> d.dnsChanged, dnsAdded |-> d.dnsAdded, dnsRemoved |-> d.dnsRemoved]

\* internal/render: the rows of REBALANCE.md, names and places only.  When streams move, a
\* modified central shard gets no row of its own.
BuildRebalanceData(d) ==
  [moved |-> {[name |-> m[2].name, oldCluster |-> m[1].cluster, newCluster |-> m[2].cluster,
               oldDomain |-> m[1].domain, newDomain |-> m[2].domain] : m \in d.moved},
   added |-> {[name |-> s.name, cluster |-> s.cluster] : s \in d.added},
   removed |-> {[name |-> s.name, cluster |-> s.cluster] : s \in d.removed},
   modified |-> {[name |-> m[2].name, cluster |-> m[2].cluster] :
                   m \in {x \in d.modified : ~(d.moved # {} /\ x[2].tier = "central")}},
   dnsChanged |-> d.dnsChanged, dnsAdded |-> d.dnsAdded, dnsRemoved |-> d.dnsRemoved]

=============================================================================
