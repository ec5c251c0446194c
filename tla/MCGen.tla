--------------------------------- MODULE MCGen ---------------------------------
(***************************************************************************)
(* Small instances of Gen for TLC.  The ids are chosen so that stream      *)
(* names and leaf DNS names can collide once '/' and '-' are gone.         *)
(***************************************************************************)
EXTENDS Gen

CONSTANTS k1, k2, m1, m2

exdot == <<"exdot">>
d1 == <<"d1">>
d1a == <<"d1", "a">>
MCDot == exdot

TwoDistricts == {d1, d1a}
p0 == <<<<"0">>>>
pa0 == <<<<"a">>, <<"0">>>>
CollidingPartitions == {p0, pa0}

\* A district central whose partition d1/0 is called as d1's central shard of 0.
CentralDistrict == {d1, <<"central">>}
CentralPartitions == {p0, <<<<"d1">>, <<"0">>>>}

lane == <<"lane">>
Road(d) == <<exdot, d, lane, Rest>>
share(c, d) == [consumer |-> c, from |-> Road(d), as |-> <<exdot, <<"share">>, c, Rest>>]
\* A second consumer's share, one that strays into the first one's subtree, and one in the
\* peer space.
OneShare == {share(<<"lab">>, d1)}
MCShares == OneShare \cup {share(<<"lab">>, d1a), share(<<"lab", "2">>, d1),
  [consumer |-> <<"lab", "2">>, from |-> Road(d1), as |-> <<exdot, <<"share">>, Rest>>],
  [consumer |-> <<"lab", "2">>, from |-> Road(d1), as |-> <<<<"peer">>, exdot, lane, Rest>>]}

\* A declared space of its own, and one inside d1's default space.
ownSpace == <<exdot, <<"east">>, Rest>>
nestedSpace == Road(d1)
DisjointSpaces == {ownSpace}
NestedSpaces == {nestedSpace}

MCFilters == {Road(d1), <<exdot, <<"east">>, AnyToken>>, <<exdot, Rest>>}
MCLiterals == {<<exdot, t, u>> : t \in {d1, d1a, <<"east">>}, u \in {lane}}
                \cup {<<exdot, t, lane, lane>> : t \in {d1, d1a, <<"east">>}}
                \cup {<<exdot, <<"share">>, c, lane>> : c \in {<<"lab">>, <<"lab", "2">>}}

k8s(ns) == [type |-> "kubernetes", namespace |-> ns, hosts |-> << >>]
bare(hosts) == [type |-> "bare-metal", namespace |-> None, hosts |-> hosts]
n1 == <<<<"n1">>>>
n2 == <<<<"n2">>, <<"6">>>>
MCSubstrates == {k8s(None), k8s("ns"), bare(<<n1, n2>>), bare(<< >>)}

h1 == <<"h1", 7422>>
h2 == <<"h2", 7422>>
MCEndpoints == {h1, h2}

MCConfigs == [output : {"kustomize", "helm"}, argo : {TRUE}]
               \cup {[output |-> "kustomize", argo |-> FALSE], [output |-> "tarball", argo |-> TRUE]}
OneConfig == {[output |-> "kustomize", argo |-> TRUE]}

MCBase ==
  [districts |-> {d1},
   prefix |-> [d \in DistrictIds |-> None],
   place |-> [k \in DistrictIds \X PartitionIds |-> IF k = <<d1, p0>> THEN k1 ELSE None],
   domain |-> (k1 :> m1) @@ (k2 :> m2),
   endpoint |-> (k1 :> h1) @@ (k2 :> h2),
   substrate |-> [c \in Clusters |-> k8s("ns")],
   central |-> k1, replicas |-> 3,
   dmz |-> None, dmzReplicas |-> 3, shares |-> OneShare]

\* A base with everything: two partitions on two clusters, one of them bare metal, and a DMZ.
MCFullBase ==
  [MCBase EXCEPT !.place[<<d1, pa0>>] = k2, !.substrate[k2] = bare(<<n1, n2>>), !.dmz = k2]

SmallBase == {MCBase}
MCBases == {MCBase, MCFullBase}

AllFields == {"place", "districts", "prefix", "domain", "central", "replicas", "dmz", "shares", "substrate",
              "endpoint"}
PrefixFields == {"prefix", "place", "dmz"}
PlaceFields == {"place"}
DomainFields == {"domain"}

=============================================================================
