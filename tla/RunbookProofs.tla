----------------------------- MODULE RunbookProofs -----------------------------
(***************************************************************************)
(* Machine-checked proofs that REBALANCE.md, carried out on what the       *)
(* previous plan deployed, leaves exactly what the new plan wants, and     *)
(* that every partition of both plans stays online on the way, for every   *)
(* two plans that cmd/gen compares.                                        *)
(***************************************************************************)
EXTENDS RenderProofs

-----------------------------------------------------------------------------
\* What the runbook relies on

\* A central shard is named after a regional stream of its plan, and sources that one in the
\* domain where it is.
ShardFollows(s, r) ==
  /\ r.name \in Seq(Words)
  /\ s.name = <<"central">> \o r.name
  /\ s.sources = {Source(r.name, r.domain, None, None)}

WellJoined(p) ==
  \A s \in p.streams : s.tier = "central" => \E r \in p.streams : ShardFollows(s, r)

LEMMA PlansAreWellJoined ==
  ASSUME NEW t, NEW i, NEW of
  PROVE  WellJoined(PlanOf(t, i, of))
<1> SUFFICES ASSUME NEW s \in PlanOf(t, i, of).streams, s.tier = "central"
             PROVE  \E r \in PlanOf(t, i, of).streams : ShardFollows(s, r)
  BY DEF WellJoined
<1>1. PICK k \in Parts(t) : s = ShardOf(t, k)
  BY StreamsByTier
<1>2. k[1] \in DistrictIds /\ k[2] \in PartitionIds
  BY DEF Parts
<1>3. RegionalOf(t, i, k) \in PlanOf(t, i, of).streams
  BY StreamsByTier
<1>4. /\ RegionalOf(t, i, k).name = PartitionStreamName(k[1], k[2])
      /\ RegionalOf(t, i, k).domain = t.domain[t.place[k]]
      /\ s.name = CentralShardStreamName(k[1], k[2])
      /\ s.sources = {ShardSource(t, k)}
  BY <1>1 DEF RegionalOf, ShardOf
<1>5. ShardFollows(s, RegionalOf(t, i, k))
  BY <1>2, <1>4, NameWords DEF ShardFollows, ShardSource
<1> QED BY <1>3, <1>5

\* Both plans of a run are such plans.
JoinedResult == ran = "ok" => WellJoined(plan) /\ WellJoined(prior)

LEMMA JoinedInvariant == GenSpec => []JoinedResult
<1>1. GenInit => JoinedResult
  BY DEF GenInit, JoinedResult
<1>2. JoinedResult /\ [GenNext]_gvars => JoinedResult'
  <2> SUFFICES ASSUME JoinedResult, [GenNext]_gvars PROVE JoinedResult'
    OBVIOUS
  <2>1. CASE EditSpec \/ EditInventory \/ RunFails
    BY <2>1 DEF EditSpec, EditInventory, RunFails, JoinedResult
  <2>2. CASE \E c \in Configs : RunGen(c)
    <3>1. PICK p \in Builds(spec), q \in IF previous = None THEN {NoPlan} ELSE Builds(previous) :
            /\ plan' = AttachCabinets(p, inv, spec)
            /\ prior' = IF previous = None THEN plan' ELSE AttachCabinets(q, inv, previous)
      BY <2>2 DEF RunGen
    <3>2. WellJoined(plan')
      BY <3>1, AttachedPlan, PlansAreWellJoined
    <3>3. WellJoined(prior')
      BY <3>1, <3>2, AttachedPlan, PlansAreWellJoined
    <3>4. WellJoined(plan)' /\ WellJoined(prior)'
      BY <3>2, <3>3 DEF WellJoined, ShardFollows
    <3> QED BY <3>4 DEF JoinedResult
  <2>3. CASE UNCHANGED gvars
    <3>1. UNCHANGED <<ran, plan, prior>>
      BY <2>3 DEF gvars, memory
    <3> QED BY <3>1 DEF JoinedResult
  <2> QED BY <2>1, <2>2, <2>3 DEF GenNext
<1> QED BY <1>1, <1>2, PTL DEF GenSpec

-----------------------------------------------------------------------------
\* What the rows say of two plans with names of their own

\* A row of a moved stream: both its places.
Move(o, u) ==
  [name |-> u.name, oldCluster |-> o.cluster, newCluster |-> u.cluster,
   oldDomain |-> o.domain, newDomain |-> u.domain]
Row(s) == [name |-> s.name, cluster |-> s.cluster]

\* o and u are a stream before and after.
Pair(old, new, o, u) == o \in old.streams /\ u \in new.streams /\ o.name = u.name
Elsewhere(o, u) == o.cluster # u.cluster \/ o.domain # u.domain

LEMMA DiffPairs ==
  ASSUME NEW old, NEW new, WellNamed(old), WellNamed(new)
  PROVE  /\ \A m \in Diff(old, new).moved : \E o, u : m = <<o, u>> /\ Pair(old, new, o, u) /\ Elsewhere(o, u)
         /\ \A m \in Diff(old, new).modified : \E o, u :
              m = <<o, u>> /\ Pair(old, new, o, u) /\ StreamConfigChanged(o, u)
         /\ \A o, u : Pair(old, new, o, u) /\ Elsewhere(o, u) => <<o, u>> \in Diff(old, new).moved
         /\ \A o, u : Pair(old, new, o, u) /\ ~Elsewhere(o, u) =>
              o = u \/ <<o, u>> \in Diff(old, new).modified
         /\ \A u \in new.streams : (\A o \in old.streams : o.name # u.name) => u \in Diff(old, new).added
         /\ \A o : o \in Diff(old, new).removed <=> o \in old.streams /\ \A u \in new.streams : u.name # o.name
<1> DEFINE os == IndexStreams(old.streams)
           ns == IndexStreams(new.streams)
           both == DOMAIN os \cap DOMAIN ns
           moved == {n \in both : os[n].cluster # ns[n].cluster \/ os[n].domain # ns[n].domain}
           changed == {m \in both \ moved : StreamConfigChanged(os[m], ns[m])}
           D == Diff(old, new)
<1>1. /\ D.removed = {os[n] : n \in DOMAIN os \ DOMAIN ns}
      /\ D.added = {ns[n] : n \in DOMAIN ns \ DOMAIN os}
      /\ D.moved = {<<os[n], ns[n]>> : n \in moved}
      /\ D.modified = {<<os[n], ns[n]>> : n \in changed}
  BY DEF Diff
<1>2. /\ DOMAIN os = {s.name : s \in old.streams} /\ \A s \in old.streams : os[s.name] = s
      /\ DOMAIN ns = {s.name : s \in new.streams} /\ \A s \in new.streams : ns[s.name] = s
  BY IndexComplete
<1>3. /\ \A s \in old.streams : IsStream(s)
      /\ \A s \in new.streams : IsStream(s)
  BY DEF WellNamed
<1> HIDE DEF os, ns, D
<1>4. /\ \A n \in DOMAIN os : os[n] \in old.streams /\ os[n].name = n
      /\ \A n \in DOMAIN ns : ns[n] \in new.streams /\ ns[n].name = n
  BY <1>2
<1>5. \A n \in both : Pair(old, new, os[n], ns[n])
  BY <1>4 DEF Pair
<1>6. \A o, u : Pair(old, new, o, u) => o.name \in both /\ os[o.name] = o /\ ns[o.name] = u
  BY <1>2 DEF Pair
<1>7. ASSUME NEW m \in D.moved
      PROVE  \E o, u : m = <<o, u>> /\ Pair(old, new, o, u) /\ Elsewhere(o, u)
  <2>1. PICK n \in moved : m = <<os[n], ns[n]>>
    BY <1>1
  <2>2. Pair(old, new, os[n], ns[n]) /\ Elsewhere(os[n], ns[n])
    BY <1>5, <2>1 DEF Elsewhere
  <2> QED BY <2>1, <2>2
<1>8. ASSUME NEW m \in D.modified
      PROVE  \E o, u : m = <<o, u>> /\ Pair(old, new, o, u) /\ StreamConfigChanged(o, u)
  <2>1. PICK n \in changed : m = <<os[n], ns[n]>>
    BY <1>1
  <2>2. Pair(old, new, os[n], ns[n]) /\ StreamConfigChanged(os[n], ns[n])
    BY <1>5, <2>1
  <2> QED BY <2>1, <2>2
<1>9. ASSUME NEW o, NEW u, Pair(old, new, o, u), Elsewhere(o, u) PROVE <<o, u>> \in D.moved
  <2>1. o.name \in moved /\ os[o.name] = o /\ ns[o.name] = u
    BY <1>6, <1>9 DEF Elsewhere
  <2> HIDE DEF moved
  <2> QED BY <1>1, <2>1
<1>10. ASSUME NEW o, NEW u, Pair(old, new, o, u), ~Elsewhere(o, u), o # u
       PROVE  <<o, u>> \in D.modified
  <2>1. o.name \in both \ moved /\ os[o.name] = o /\ ns[o.name] = u
    BY <1>6, <1>10 DEF Elsewhere
  <2>2. StreamConfigChanged(o, u)
    BY <1>3, <1>10, UnchangedStreams DEF Pair, Elsewhere
  <2>3. o.name \in changed
    BY <2>1, <2>2
  <2> HIDE DEF changed
  <2> QED BY <1>1, <2>1, <2>3
<1>11. ASSUME NEW u \in new.streams, \A o \in old.streams : o.name # u.name PROVE u \in D.added
  <2>1. u.name \in DOMAIN ns \ DOMAIN os /\ ns[u.name] = u
    BY <1>2, <1>11
  <2> QED BY <1>1, <2>1
<1>12. ASSUME NEW o PROVE o \in D.removed <=> o \in old.streams /\ \A u \in new.streams : u.name # o.name
  BY <1>1, <1>2, <1>4
<1> QED BY <1>7, <1>8, <1>9, <1>10, <1>11, <1>12 DEF D

\* The rows of REBALANCE.md, from the two plans.
LEMMA RowsOfPlans ==
  ASSUME NEW old, NEW new, WellNamed(old), WellNamed(new),
         NEW rows, rows = BuildRebalanceData(Diff(old, new))
  PROVE  /\ \A m \in rows.moved : \E o, u : m = Move(o, u) /\ Pair(old, new, o, u)
         /\ \A o, u : Pair(old, new, o, u) /\ Elsewhere(o, u) => Move(o, u) \in rows.moved
         /\ \A u \in new.streams : (\A o \in old.streams : o.name # u.name) => Row(u) \in rows.added
         /\ \A o \in old.streams : (\A u \in new.streams : u.name # o.name) => Row(o) \in rows.removed
         /\ \A r \in rows.removed : \A u \in new.streams : u.name # r.name
<1> DEFINE D == Diff(old, new)
<1>1. /\ rows.moved = {[name |-> m[2].name, oldCluster |-> m[1].cluster, newCluster |-> m[2].cluster,
                        oldDomain |-> m[1].domain, newDomain |-> m[2].domain] : m \in D.moved}
      /\ rows.added = {Row(s) : s \in D.added}
      /\ rows.removed = {Row(s) : s \in D.removed}
  BY DEF BuildRebalanceData, Row
<1>2. rows.moved = {Move(m[1], m[2]) : m \in D.moved}
  BY <1>1 DEF Move
<1>3. /\ \A m \in D.moved : \E o, u : m = <<o, u>> /\ Pair(old, new, o, u) /\ Elsewhere(o, u)
      /\ \A o, u : Pair(old, new, o, u) /\ Elsewhere(o, u) => <<o, u>> \in D.moved
      /\ \A u \in new.streams : (\A o \in old.streams : o.name # u.name) => u \in D.added
      /\ \A o : o \in D.removed <=> o \in old.streams /\ \A u \in new.streams : u.name # o.name
  BY DiffPairs
<1> HIDE DEF D
<1>4. ASSUME NEW r \in rows.moved PROVE \E o, u : r = Move(o, u) /\ Pair(old, new, o, u)
  <2>1. PICK m \in D.moved : r = Move(m[1], m[2])
    BY <1>2
  <2>2. PICK o, u : m = <<o, u>> /\ Pair(old, new, o, u)
    BY <1>3
  <2>3. m[1] = o /\ m[2] = u
    BY <2>2
  <2> QED BY <2>1, <2>2, <2>3
<1>5. ASSUME NEW o, NEW u, Pair(old, new, o, u), Elsewhere(o, u) PROVE Move(o, u) \in rows.moved
  <2> DEFINE m == <<o, u>>
  <2>1. m \in D.moved /\ m[1] = o /\ m[2] = u
    BY <1>3, <1>5
  <2> HIDE DEF m
  <2> QED BY <1>2, <2>1
<1>6. ASSUME NEW r \in rows.removed, NEW u \in new.streams PROVE u.name # r.name
  <2>1. PICK o \in D.removed : r = Row(o)
    BY <1>1
  <2>2. r.name = o.name
    BY <2>1 DEF Row
  <2> QED BY <1>3, <2>1, <2>2
<1> QED BY <1>1, <1>3, <1>4, <1>5, <1>6

\* A stream that stays where it is and is to change gets a row, or is a central shard that
\* the moves are meant to cover.
LEMMA ListedOrNot ==
  ASSUME WellNamed(prior), WellNamed(plan), delta = Diff(prior, plan),
         NEW o, NEW u, Pair(prior, plan, o, u), ~Elsewhere(o, u), o # u,
         rebalance = BuildRebalanceData(delta), Row(u) \notin rebalance.modified
  PROVE  /\ <<o, u>> \in Unlisted /\ u.tier = "central"
         /\ <<o, u>>[1] = o /\ <<o, u>>[2] = u
<1> DEFINE m == <<o, u>>
<1>1. m \in delta.modified /\ m[1] = o /\ m[2] = u
  BY DiffPairs
<1> HIDE DEF m
<1>2. m \in Unlisted
  BY <1>1 DEF Unlisted, Row
<1>3. \A x \in delta.modified : ~(delta.moved # {} /\ x[2].tier = "central") => Row(x[2]) \in rebalance.modified
  BY DEF BuildRebalanceData, Row
<1>4. u.tier = "central"
  BY <1>1, <1>3
<1> QED BY <1>1, <1>2, <1>4 DEF m

-----------------------------------------------------------------------------
\* The edits of central's sources

AddSources(moved, srcs) ==
  srcs \cup UNION {{[x EXCEPT !.domain = m.newDomain] : x \in {y \in srcs : y.name = m.name}} :
                     m \in moved}
DropSources(moved, srcs) == {x \in srcs : ~\E m \in moved : x.name = m.name /\ x.domain = m.oldDomain}
KeepSources(removed, srcs) == {x \in srcs : ~Named(x, {r.name : r \in removed})}

\* Phase 2 and phase 5 on a set of one source, when all rows of its stream agree.
LEMMA MovedSource ==
  ASSUME NEW moved, NEW n, NEW a, NEW b, a # b, NEW m \in moved, m.name = n,
         \A v \in moved : v.name = n => v.oldDomain = a /\ v.newDomain = b
  PROVE  DropSources(moved, AddSources(moved, {Source(n, a, None, None)})) = {Source(n, b, None, None)}
<1> DEFINE x == Source(n, a, None, None)
           y == Source(n, b, None, None)
           news(v) == {[z EXCEPT !.domain = v.newDomain] : z \in {w \in {x} : w.name = v.name}}
<1>1. x.name = n /\ x.domain = a /\ y.name = n /\ y.domain = b /\ [x EXCEPT !.domain = b] = y
  BY DEF Source
<1> HIDE DEF x, y
<1>2. AddSources(moved, {x}) = {x} \cup UNION {news(v) : v \in moved}
  BY DEF AddSources
<1>3. ASSUME NEW v \in moved PROVE news(v) \subseteq {y}
  <2>1. CASE v.name = n
    BY <1>1, <1>3, <2>1
  <2>2. CASE v.name # n
    BY <1>1, <2>2
  <2> QED BY <2>1, <2>2
<1>4. y \in news(m)
  <2>1. x \in {w \in {x} : w.name = m.name}
    BY <1>1
  <2> QED BY <1>1, <2>1
<1> HIDE DEF news
<1>5. AddSources(moved, {x}) = {x, y}
  BY <1>2, <1>3, <1>4
<1>6. DropSources(moved, {x, y}) = {y}
  BY <1>1 DEF DropSources
<1> QED BY <1>5, <1>6 DEF x, y

\* And on one that is in the new domain already, or whose stream does not move.
LEMMA SettledSource ==
  ASSUME NEW moved, NEW n, NEW b,
         \A v \in moved : v.name = n => v.newDomain = b /\ v.oldDomain # b
  PROVE  LET srcs == {Source(n, b, None, None)}
         IN AddSources(moved, srcs) = srcs /\ DropSources(moved, srcs) = srcs
<1> DEFINE y == Source(n, b, None, None)
           news(v) == {[z EXCEPT !.domain = v.newDomain] : z \in {w \in {y} : w.name = v.name}}
<1>1. y.name = n /\ y.domain = b /\ [y EXCEPT !.domain = b] = y
  BY DEF Source
<1> HIDE DEF y
<1>2. AddSources(moved, {y}) = {y} \cup UNION {news(v) : v \in moved}
  BY DEF AddSources
<1>3. ASSUME NEW v \in moved PROVE news(v) \subseteq {y}
  <2>1. CASE v.name = n
    BY <1>1, <1>3, <2>1
  <2>2. CASE v.name # n
    BY <1>1, <2>2
  <2> QED BY <2>1, <2>2
<1> HIDE DEF news
<1>4. AddSources(moved, {y}) = {y}
  BY <1>2, <1>3
<1>5. DropSources(moved, {y}) = {y}
  BY <1>1 DEF DropSources
<1> QED BY <1>4, <1>5 DEF y

\* The same on a stream: only central shards are edited.
AddTo(moved, s) == IF s.tier = "central" THEN [s EXCEPT !.sources = AddSources(moved, @)] ELSE s
DropFrom(moved, s) == IF s.tier = "central" THEN [s EXCEPT !.sources = DropSources(moved, @)] ELSE s
KeepIn(removed, s) == IF s.tier = "central" THEN [s EXCEPT !.sources = KeepSources(removed, @)] ELSE s

\* Names and tiers stay, and so does what has nothing to change.
LEMMA EditsKeepNames ==
  ASSUME NEW moved, NEW removed, NEW s, IsStream(s)
  PROVE  /\ DropFrom(moved, AddTo(moved, s)).name = s.name
         /\ IsStream(DropFrom(moved, AddTo(moved, s)))
         /\ KeepIn(removed, s).name = s.name
         /\ s.tier = "central" =>
              DropFrom(moved, AddTo(moved, s)) = [s EXCEPT !.sources = DropSources(moved, AddSources(moved, @))]
         /\ s.tier # "central" => DropFrom(moved, AddTo(moved, s)) = s /\ KeepIn(removed, s) = s
<1> DEFINE A == AddSources(moved, s.sources)
           B == DropSources(moved, A)
           K == KeepSources(removed, s.sources)
           with(srcs) == [name |-> s.name, tier |-> s.tier, cluster |-> s.cluster, domain |-> s.domain,
                          replicas |-> s.replicas, sources |-> srcs]
<1>0. s = with(s.sources) /\ s.tier \in {"regional", "central", "dmz"}
  BY DEF IsStream
<1>1. CASE s.tier # "central"
  BY <1>1 DEF AddTo, DropFrom, KeepIn
<1>2. CASE s.tier = "central"
  <2>1. AddTo(moved, s) = with(A)
    <3>1. AddTo(moved, s) = [s EXCEPT !.sources = A]
      BY <1>2 DEF AddTo
    <3> HIDE DEF A
    <3> QED BY <1>0, <3>1
  <2>2. DropFrom(moved, with(A)) = with(B)
    <3>1. DropFrom(moved, with(A)) = [with(A) EXCEPT !.sources = B]
      BY <1>2 DEF DropFrom
    <3> HIDE DEF A, B
    <3> QED BY <3>1
  <2>3. KeepIn(removed, s) = with(K)
    <3>1. KeepIn(removed, s) = [s EXCEPT !.sources = K]
      BY <1>2 DEF KeepIn
    <3> HIDE DEF K
    <3> QED BY <1>0, <3>1
  <2>4. [s EXCEPT !.sources = DropSources(moved, AddSources(moved, @))] = with(B)
    <3>1. [s EXCEPT !.sources = DropSources(moved, AddSources(moved, @))] = [s EXCEPT !.sources = B]
      OBVIOUS
    <3> HIDE DEF B
    <3> QED BY <1>0, <3>1
  <2>5. IsStream(with(B))
    <3> HIDE DEF B
    <3> QED BY <1>0 DEF IsStream
  <2> HIDE DEF A, B, K
  <2> QED BY <1>2, <2>1, <2>2, <2>3, <2>4, <2>5
<1> QED BY <1>1, <1>2

\* What the runbook's proviso and the run's plans give.
RunbookFacts ==
  /\ WellNamed(prior) /\ WellNamed(plan) /\ WellJoined(prior) /\ WellJoined(plan)
  /\ delta = Diff(prior, plan) /\ rebalance = BuildRebalanceData(delta)
  /\ ran = "ok" /\ rebalance # None
  /\ \A m \in rebalance.moved : m.oldCluster # m.newCluster /\ m.oldDomain # m.newDomain

\* All rows of a stream say the same.
LEMMA RowsAgree ==
  ASSUME RunbookFacts, NEW v \in rebalance.moved
  PROVE  /\ \A r \in plan.streams : r.name = v.name =>
              v.newDomain = r.domain /\ v.newCluster = r.cluster
         /\ \A r \in prior.streams : r.name = v.name =>
              v.oldDomain = r.domain /\ v.oldCluster = r.cluster
         /\ v.oldDomain # v.newDomain /\ v.oldCluster # v.newCluster
<1>1. PICK o, u : v = Move(o, u) /\ Pair(prior, plan, o, u)
  BY RowsOfPlans DEF RunbookFacts
<1>2. /\ v.name = u.name /\ v.name = o.name
      /\ v.oldDomain = o.domain /\ v.oldCluster = o.cluster
      /\ v.newDomain = u.domain /\ v.newCluster = u.cluster
  BY <1>1 DEF Move, Pair
<1>3. /\ \A r \in plan.streams : r.name = v.name => r = u
      /\ \A r \in prior.streams : r.name = v.name => r = o
  BY <1>1, <1>2 DEF RunbookFacts, WellNamed, Pair
<1>4. v.oldDomain # v.newDomain /\ v.oldCluster # v.newCluster
  BY DEF RunbookFacts
<1> QED BY <1>2, <1>3, <1>4

\* The edits leave a stream of the new plan as it is.
LEMMA NewStreamsSettled ==
  ASSUME RunbookFacts, NEW u \in plan.streams
  PROVE  /\ DropFrom(rebalance.moved, AddTo(rebalance.moved, u)) = u
         /\ KeepIn(rebalance.removed, u) = u
<1>0. IsStream(u)
  BY DEF RunbookFacts, WellNamed
<1>1. CASE u.tier # "central"
  BY <1>0, <1>1, EditsKeepNames
<1>2. CASE u.tier = "central"
  <2>1. PICK r \in plan.streams : ShardFollows(u, r)
    BY <1>2 DEF RunbookFacts, WellJoined
  <2>2. \A v \in rebalance.moved : v.name = r.name => v.newDomain = r.domain /\ v.oldDomain # r.domain
    BY RowsAgree
  <2> DEFINE srcs == {Source(r.name, r.domain, None, None)}
  <2>3. u.sources = srcs
    BY <2>1 DEF ShardFollows
  <2>4. AddSources(rebalance.moved, srcs) = srcs /\ DropSources(rebalance.moved, srcs) = srcs
    BY <2>2, SettledSource
  <2>5. KeepSources(rebalance.removed, srcs) = srcs
    <3>1. \A x \in rebalance.removed : x.name # r.name
      BY RowsOfPlans DEF RunbookFacts
    <3>2. \A x \in srcs : x.name = r.name
      BY DEF Source
    <3> HIDE DEF srcs
    <3> QED BY <3>1, <3>2 DEF KeepSources, Named
  <2> HIDE DEF srcs
  <2>6. [u EXCEPT !.sources = srcs] = u
    BY <1>0, <2>3 DEF IsStream
  <2>7. AddTo(rebalance.moved, u) = u /\ DropFrom(rebalance.moved, u) = u /\ KeepIn(rebalance.removed, u) = u
    BY <1>2, <2>3, <2>4, <2>5, <2>6 DEF AddTo, DropFrom, KeepIn
  <2> QED BY <2>7
<1> QED BY <1>1, <1>2

\* They turn a stream that stays and gets no row of its own into the new plan's: the source
\* of such a shard is a moved stream, so phases 2 and 5 replace it.
LEMMA UnlistedStreamsFollow ==
  ASSUME RunbookFacts, RebalanceNamesAll, NEW o, NEW u, Pair(prior, plan, o, u),
         ~Elsewhere(o, u), Row(u) \notin rebalance.modified
  PROVE  DropFrom(rebalance.moved, AddTo(rebalance.moved, o)) = u
<1>0. IsStream(o) /\ IsStream(u)
  BY DEF RunbookFacts, WellNamed, Pair
<1>1. CASE o = u
  BY <1>1, NewStreamsSettled DEF Pair
<1>2. CASE o # u
  <2>1. /\ <<o, u>> \in Unlisted /\ u.tier = "central"
        /\ <<o, u>>[1] = o /\ <<o, u>>[2] = u
    BY <1>2, ListedOrNot DEF RunbookFacts
  <2>2. /\ [o EXCEPT !.sources = {}] = [u EXCEPT !.sources = {}]
        /\ \A src \in u.sources \ o.sources : \E v \in delta.moved : v[2].name = src.name
    <3> DEFINE m == <<o, u>>
    <3>1. m \in Unlisted /\ m[1] = o /\ m[2] = u
      BY <2>1
    <3> HIDE DEF m
    <3> QED BY <3>1 DEF RunbookFacts, RebalanceNamesAll
  <2>3. /\ o.name = u.name /\ o.tier = u.tier /\ o.cluster = u.cluster /\ o.domain = u.domain
        /\ o.replicas = u.replicas
    BY <1>0, <2>2 DEF IsStream
  <2>4. PICK q \in prior.streams : ShardFollows(o, q)
    BY <2>1, <2>3 DEF RunbookFacts, WellJoined, Pair
  <2>5. PICK r \in plan.streams : ShardFollows(u, r)
    BY <2>1 DEF RunbookFacts, WellJoined, Pair
  <2>6. q.name = r.name
    <3> DEFINE C == <<"central">>
    <3>1. C \in Seq(Words)
      BY DEF Words
    <3>2. q.name \in Seq(Words) /\ r.name \in Seq(Words) /\ C \o q.name = C \o r.name
      BY <2>3, <2>4, <2>5 DEF ShardFollows
    <3> HIDE DEF C
    <3> QED BY <3>1, <3>2, ConcatSimplifications
  <2> DEFINE x == Source(r.name, q.domain, None, None)
             y == Source(r.name, r.domain, None, None)
  <2>7. o.sources = {x} /\ u.sources = {y} /\ y.name = r.name
    BY <2>4, <2>5, <2>6 DEF ShardFollows, Source
  <2>8. x # y
    <3>1. o.sources # u.sources
      BY <1>0, <1>2, <2>3 DEF IsStream
    <3> QED BY <2>7, <3>1
  <2> HIDE DEF x, y
  <2>9. PICK m \in rebalance.moved : m.name = r.name
    <3>1. PICK v \in delta.moved : v[2].name = r.name
      BY <2>2, <2>7, <2>8
    <3>2. rebalance.moved = {Move(m[1], m[2]) : m \in delta.moved}
      BY DEF RunbookFacts, BuildRebalanceData, Move
    <3>3. Move(v[1], v[2]) \in rebalance.moved /\ Move(v[1], v[2]).name = r.name
      BY <3>1, <3>2 DEF Move
    <3> QED BY <3>3
  <2>10. \A v \in rebalance.moved : v.name = r.name => v.oldDomain = q.domain /\ v.newDomain = r.domain
    BY <2>6, RowsAgree
  <2>11. DropSources(rebalance.moved, AddSources(rebalance.moved, {x})) = {y}
    <3>1. q.domain # r.domain
      BY <2>9, <2>10, RowsAgree
    <3> QED BY <2>9, <2>10, <3>1, MovedSource DEF x, y
  <2>12. DropFrom(rebalance.moved, AddTo(rebalance.moved, o)) = [o EXCEPT !.sources = {y}]
    <3> DEFINE ad == DropSources(rebalance.moved, AddSources(rebalance.moved, o.sources))
    <3>1. DropFrom(rebalance.moved, AddTo(rebalance.moved, o)) = [o EXCEPT !.sources = ad]
      BY <1>0, <2>1, <2>3, EditsKeepNames
    <3>2. ad = {y}
      BY <2>7, <2>11
    <3> HIDE DEF ad
    <3> QED BY <3>1, <3>2
  <2>13. [o EXCEPT !.sources = {y}] = u
    BY <1>0, <2>3, <2>7 DEF IsStream
  <2> QED BY <2>12, <2>13
<1> QED BY <1>1, <1>2

-----------------------------------------------------------------------------
\* The phases, cluster by cluster

LEMMA ApplyMembers ==
  ASSUME NEW dep, NEW cs, NEW c \in Clusters
  PROVE  \A s : s \in Apply(dep, cs)[c] <=>
           \/ c \in cs /\ s \in Slice(c)
           \/ s \in dep[c] /\ (c \in cs => \A u \in Slice(c) : u.name # s.name)
BY DEF Apply, Named

LEMMA FollowMovesMembers ==
  ASSUME NEW dep, NEW moved, NEW c \in Clusters
  PROVE  \A s : s \in FollowMoves(dep, moved)[c] <=>
           /\ \E x \in Apply(dep, {m.newCluster : m \in moved})[c] : s = DropFrom(moved, AddTo(moved, x))
           /\ \A m \in moved : ~(m.name = s.name /\ m.oldCluster = c)
<1> DEFINE D1 == Apply(dep, {m.newCluster : m \in moved})
           D2 == [d \in Clusters |-> {AddTo(moved, x) : x \in D1[d]}]
           D3 == [d \in Clusters |-> {DropFrom(moved, x) : x \in D2[d]}]
           rows == {[name |-> m.name, cluster |-> m.oldCluster] : m \in moved}
<1>1. FollowMoves(dep, moved) = Delete(D3, rows)
  BY DEF FollowMoves, StandUp, DualSource, SingleSource, TearDown, CentralSources, AddTo, DropFrom,
         AddSources, DropSources
<1>2. \A s : s \in Delete(D3, rows)[c] <=> s \in D3[c] /\ [name |-> s.name, cluster |-> c] \notin rows
  BY DEF Delete
<1>3. \A s : s \in D3[c] <=> \E x \in D1[c] : s = DropFrom(moved, AddTo(moved, x))
  <2> HIDE DEF D1
  <2> QED OBVIOUS
<1>4. \A s : [name |-> s.name, cluster |-> c] \in rows <=> \E m \in moved : m.name = s.name /\ m.oldCluster = c
  OBVIOUS
<1> HIDE DEF D1, D2, D3, rows
<1>5. \A s : s \in FollowMoves(dep, moved)[c] <=>
        /\ \E x \in D1[c] : s = DropFrom(moved, AddTo(moved, x))
        /\ \A m \in moved : ~(m.name = s.name /\ m.oldCluster = c)
  BY <1>1, <1>2, <1>3, <1>4
<1> QED BY <1>5 DEF D1

LEMMA FollowRunbookMembers ==
  ASSUME NEW dep, NEW rows, NEW c \in Clusters
  PROVE  LET added == Apply(FollowMoves(dep, rows.moved), {r.cluster : r \in rows.added})
             last == {r.cluster : r \in rows.modified}
         IN \A s : s \in FollowRunbook(dep, rows)[c] <=>
              \/ c \in last /\ s \in Slice(c)
              \/ /\ \E x \in added[c] : s = KeepIn(rows.removed, x)
                 /\ [name |-> s.name, cluster |-> c] \notin rows.removed
                 /\ c \in last => \A u \in Slice(c) : u.name # s.name
<1> DEFINE added == Apply(FollowMoves(dep, rows.moved), {r.cluster : r \in rows.added})
           last == {r.cluster : r \in rows.modified}
           D6 == [d \in Clusters |-> {KeepIn(rows.removed, x) : x \in added[d]}]
           D7 == Delete(D6, rows.removed)
<1>1. FollowRunbook(dep, rows) = Apply(D7, last)
  BY DEF FollowRunbook, CentralSources, KeepIn, KeepSources
<1>2. \A s : s \in D7[c] <=> s \in D6[c] /\ [name |-> s.name, cluster |-> c] \notin rows.removed
  BY DEF Delete
<1>3. \A s : s \in D6[c] <=> \E x \in added[c] : s = KeepIn(rows.removed, x)
  <2> HIDE DEF added
  <2> QED OBVIOUS
<1>4. \A s : s \in Apply(D7, last)[c] <=>
        \/ c \in last /\ s \in Slice(c)
        \/ s \in D7[c] /\ (c \in last => \A u \in Slice(c) : u.name # s.name)
  <2> HIDE DEF D7, last
  <2> QED BY ApplyMembers
<1> HIDE DEF added, last, D6, D7
<1>5. \A s : s \in FollowRunbook(dep, rows)[c] <=>
        \/ c \in last /\ s \in Slice(c)
        \/ /\ \E x \in added[c] : s = KeepIn(rows.removed, x)
           /\ [name |-> s.name, cluster |-> c] \notin rows.removed
           /\ c \in last => \A u \in Slice(c) : u.name # s.name
  BY <1>1, <1>2, <1>3, <1>4
<1> QED BY <1>5 DEF added, last

\* Nothing is missing, stale or left over on a cluster.
LEMMA ClusterReachesPlan ==
  ASSUME RunbookFacts, RebalanceNamesAll, NEW c \in Clusters
  PROVE  FollowRunbook(Deployed(prior), rebalance)[c] = Slice(c)
<1> DEFINE dep == Deployed(prior)
           M == rebalance.moved
           R == rebalance.removed
           first == {m.newCluster : m \in M}
           new == {r.cluster : r \in rebalance.added}
           last == {r.cluster : r \in rebalance.modified}
           ad(s) == DropFrom(M, AddTo(M, s))
           D1 == Apply(dep, first)
           D4 == FollowMoves(dep, M)
           D5 == Apply(D4, new)
           D8 == FollowRunbook(dep, rebalance)
           fresh(cs, s) == c \in cs => \A u \in Slice(c) : u.name # s.name
<1>1. /\ \A s : s \in dep[c] <=> s \in prior.streams /\ s.cluster = c
      /\ \A s : s \in Slice(c) <=> s \in plan.streams /\ s.cluster = c
  BY DEF Deployed, Slice
<1>2. \A s : s \in D1[c] <=> (c \in first /\ s \in Slice(c)) \/ (s \in dep[c] /\ fresh(first, s))
  <2> HIDE DEF dep, first
  <2> QED BY ApplyMembers
<1>3. \A s : s \in D4[c] <=>
        (\E x \in D1[c] : s = ad(x)) /\ \A m \in M : ~(m.name = s.name /\ m.oldCluster = c)
  <2> HIDE DEF dep, M
  <2> QED BY FollowMovesMembers
<1>4. \A s : s \in D5[c] <=> (c \in new /\ s \in Slice(c)) \/ (s \in D4[c] /\ fresh(new, s))
  <2> HIDE DEF D4, new
  <2> QED BY ApplyMembers
<1>5. \A s : s \in D8[c] <=>
        \/ c \in last /\ s \in Slice(c)
        \/ /\ \E x \in D5[c] : s = KeepIn(R, x)
           /\ [name |-> s.name, cluster |-> c] \notin R
           /\ fresh(last, s)
  <2> HIDE DEF dep
  <2> QED BY FollowRunbookMembers
<1>6. /\ \A u \in plan.streams : ad(u) = u /\ KeepIn(R, u) = u
      /\ \A o, u : Pair(prior, plan, o, u) /\ ~Elsewhere(o, u) /\ Row(u) \notin rebalance.modified
           => ad(o) = u
      /\ \A s \in prior.streams \cup plan.streams : ad(s).name = s.name
  <2>1. \A s \in prior.streams \cup plan.streams : IsStream(s)
    BY DEF RunbookFacts, WellNamed
  <2> QED BY <2>1, NewStreamsSettled, UnlistedStreamsFollow, EditsKeepNames
<1>7. /\ \A u \in plan.streams : (\A o \in prior.streams : o.name # u.name) => Row(u) \in rebalance.added
      /\ \A o \in prior.streams : (\A u \in plan.streams : u.name # o.name) => Row(o) \in R
      /\ \A r \in R : \A u \in plan.streams : u.name # r.name
      /\ \A o, u : Pair(prior, plan, o, u) /\ Elsewhere(o, u) => Move(o, u) \in M
  BY RowsOfPlans DEF RunbookFacts
<1>8. \A m \in M : \A r \in plan.streams : r.name = m.name => m.newCluster = r.cluster /\ m.oldCluster # r.cluster
  BY RowsAgree
<1>9. /\ \A s : Row(s).name = s.name /\ Row(s).cluster = s.cluster
      /\ \A o, u : Move(o, u).name = u.name /\ Move(o, u).newCluster = u.cluster
                     /\ Move(o, u).oldCluster = o.cluster
  BY DEF Row, Move
<1>10. \A s \in plan.streams : \A u \in plan.streams : s.name = u.name => s = u
  BY DEF RunbookFacts, WellNamed
<1> HIDE DEF dep, M, R, D1, D4, D5, D8, ad
<1>11. ASSUME NEW u \in Slice(c) PROVE u \in D8[c]
  <2>0. u \in plan.streams /\ u.cluster = c
    BY <1>1
  <2>1. ASSUME u \in D5[c] PROVE u \in D8[c]
    <3>1. [name |-> u.name, cluster |-> c] \notin R
      BY <1>7, <2>0
    <3>2. u = KeepIn(R, u)
      BY <1>6, <2>0
    <3>3. c \in last \/ fresh(last, u)
      OBVIOUS
    <3> HIDE DEF last, fresh
    <3> QED BY <1>5, <2>1, <3>1, <3>2, <3>3
  <2>2. ASSUME NEW x \in D1[c], ad(x) = u PROVE u \in D8[c]
    <3>1. \A m \in M : ~(m.name = u.name /\ m.oldCluster = c)
      BY <1>8, <2>0
    <3>2. u \in D4[c]
      BY <1>3, <2>2, <3>1
    <3>3. u \in D5[c]
      BY <1>4, <3>2
    <3> QED BY <2>1, <3>3
  <2>3. CASE \A o \in prior.streams : o.name # u.name
    <3>1. c \in new
      BY <1>7, <1>9, <2>0, <2>3
    <3> QED BY <1>4, <2>1, <3>1
  <2>4. CASE \E o \in prior.streams : o.name = u.name
    <3>1. PICK o \in prior.streams : o.name = u.name
      BY <2>4
    <3>2. Pair(prior, plan, o, u)
      BY <2>0, <3>1 DEF Pair
    <3>3. CASE Elsewhere(o, u)
      <4>1. c \in first
        BY <1>7, <1>9, <2>0, <3>2, <3>3
      <4>2. u \in D1[c] /\ ad(u) = u
        BY <1>2, <1>6, <2>0, <4>1
      <4> QED BY <2>2, <4>2
    <3>4. CASE ~Elsewhere(o, u)
      <4>1. CASE c \in first
        BY <1>2, <1>6, <2>0, <2>2, <4>1
      <4>2. CASE c \in last
        BY <1>5, <4>2
      <4>3. CASE c \notin first /\ c \notin last
        <5>1. Row(u) \notin rebalance.modified
          BY <1>9, <2>0, <4>3
        <5>2. ad(o) = u
          BY <1>6, <3>2, <3>4, <5>1
        <5>3. o \in dep[c]
          BY <1>1, <2>0, <3>1, <3>4 DEF Elsewhere
        <5>4. o \in D1[c]
          BY <1>2, <4>3, <5>3
        <5> QED BY <2>2, <5>2, <5>4
      <4> QED BY <4>1, <4>2, <4>3
    <3> QED BY <3>3, <3>4
  <2> QED BY <2>3, <2>4
<1>12. ASSUME NEW s \in D8[c], s \notin Slice(c) PROVE FALSE
  <2>1. PICK x \in D5[c] : s = KeepIn(R, x)
    BY <1>5, <1>12
  <2>2. [name |-> s.name, cluster |-> c] \notin R /\ fresh(last, s)
    BY <1>5, <1>12
  <2>3. x \notin Slice(c)
    BY <1>1, <1>6, <1>12, <2>1
  <2>4. x \in D4[c]
    BY <1>4, <2>1, <2>3
  <2>5. PICK o \in D1[c] : x = ad(o)
    BY <1>3, <2>4
  <2>6. \A m \in M : ~(m.name = x.name /\ m.oldCluster = c)
    BY <1>3, <2>4
  <2>7. o \notin Slice(c)
    BY <1>1, <1>6, <2>3, <2>5
  <2>8. o \in prior.streams /\ o.cluster = c
    BY <1>1, <1>2, <2>5, <2>7
  <2>9. x.name = o.name /\ s.name = o.name
    <3>1. IsStream(o)
      BY <2>8 DEF RunbookFacts, WellNamed
    <3>2. x.name = o.name /\ IsStream(x)
      BY <2>5, <3>1, EditsKeepNames DEF ad
    <3>3. KeepIn(R, x).name = x.name
      BY <3>2, EditsKeepNames
    <3> QED BY <2>1, <3>2, <3>3
  <2>10. \E u \in plan.streams : u.name = o.name
    <3>1. Row(o) = [name |-> s.name, cluster |-> c]
      BY <2>8, <2>9 DEF Row
    <3> QED BY <1>7, <2>2, <2>8, <3>1
  <2>11. PICK u \in plan.streams : u.name = o.name
    BY <2>10
  <2>12. Pair(prior, plan, o, u)
    BY <2>8, <2>11 DEF Pair
  <2>13. ~Elsewhere(o, u)
    BY <1>7, <1>9, <2>6, <2>8, <2>9, <2>11, <2>12
  <2>14. u \in Slice(c)
    BY <1>1, <2>8, <2>11, <2>13 DEF Elsewhere
  <2>15. c \notin last
    BY <2>2, <2>9, <2>11, <2>14
  <2>16. Row(u) \notin rebalance.modified
    BY <1>1, <1>9, <2>14, <2>15
  <2>17. x = u
    BY <1>6, <2>5, <2>12, <2>13, <2>16
  <2> QED BY <2>3, <2>14, <2>17
<1>13. D8[c] = Slice(c)
  BY <1>11, <1>12
<1> QED BY <1>13 DEF D8, dep

\* REBALANCE.md is a complete and correct procedure: carried out in its order on what the
\* previous plan deployed, it leaves on every cluster exactly the new plan's streams with
\* exactly its sources, for any two plans that cmd/gen compares and under the provisos that
\* RunbookReachesPlan states (with the proviso of NamesDiffer).
THEOREM RunbookDoesReachPlan == NoCentralDistrict => (GenSpec => []RunbookReachesPlan)
<1> SUFFICES ASSUME NoCentralDistrict PROVE GenSpec => []RunbookReachesPlan
  OBVIOUS
<1>1. RunResult /\ PriorResult /\ JoinedResult /\ RowsResult => RunbookReachesPlan
  <2> SUFFICES ASSUME RunResult, PriorResult, JoinedResult, RowsResult,
                      ran = "ok", rebalance # None, RebalanceNamesAll,
                      \A m \in rebalance.moved : m.oldCluster # m.newCluster /\ m.oldDomain # m.newDomain
               PROVE  FollowRunbook(Deployed(prior), rebalance) = Deployed(plan)
    BY DEF RunbookReachesPlan
  <2>1. RunbookFacts
    BY DEF RunbookFacts, RunResult, PriorResult, JoinedResult, RowsResult
  <2>2. \A c \in Clusters : FollowRunbook(Deployed(prior), rebalance)[c] = Slice(c)
    BY <2>1, ClusterReachesPlan
  <2>3. FollowRunbook(Deployed(prior), rebalance)
          = [c \in Clusters |-> FollowRunbook(Deployed(prior), rebalance)[c]]
    BY DEF FollowRunbook, Apply
  <2>4. Deployed(plan) = [c \in Clusters |-> Slice(c)]
    BY DEF Deployed, Slice
  <2> QED BY <2>2, <2>3, <2>4
<1> QED BY <1>1, RunResultInvariant, PriorResultInvariant, JoinedInvariant, RowsInvariant, PTL

-----------------------------------------------------------------------------
\* From one phase to the next

\* Both plans of a run with -previous are made from specs of the right shape.
PriorMade ==
  /\ previous # None => previous \in SpecType
  /\ ran = "ok" /\ rebalance # None =>
       before \in SpecType /\ \E og : prior = PlanOf(before, inv, og)

LEMMA PriorMadeInvariant == GenSpec => []PriorMade
<1>1. GenInit => PriorMade
  BY DEF GenInit, PriorMade
<1>2. PriorMade /\ GenTypeOK /\ [GenNext]_gvars => PriorMade'
  <2> SUFFICES ASSUME PriorMade, GenTypeOK, [GenNext]_gvars PROVE PriorMade'
    OBVIOUS
  <2>1. CASE EditSpec \/ EditInventory \/ RunFails
    <3>1. UNCHANGED previous /\ ran' # "ok"
      BY <2>1 DEF EditSpec, EditInventory, RunFails
    <3> QED BY <3>1 DEF PriorMade
  <2>2. CASE \E c \in Configs : RunGen(c)
    <3>1. PICK q \in IF previous = None THEN {NoPlan} ELSE Builds(previous) :
            /\ prior' = IF previous = None THEN plan' ELSE AttachCabinets(q, inv, previous)
            /\ rebalance' = IF previous = None THEN None ELSE BuildRebalanceData(delta')
      BY <2>2 DEF RunGen
    <3>2. previous' = spec /\ before' = previous /\ inv' = inv
      BY <2>2 DEF RunGen
    <3>3. previous' \in SpecType
      BY <3>2 DEF GenTypeOK
    <3>4. ASSUME rebalance' # None
          PROVE  before' \in SpecType /\ \E og : prior' = PlanOf(before', inv', og)
      <4>1. previous # None
        BY <3>1, <3>4
      <4>2. q \in Builds(previous) /\ prior' = AttachCabinets(q, inv, previous)
        BY <3>1, <4>1
      <4>3. \E og : prior' = PlanOf(previous, inv, og)
        BY <4>2, AttachedPlan
      <4> QED BY <3>2, <4>1, <4>3 DEF PriorMade
    <3> QED BY <3>3, <3>4 DEF PriorMade
  <2>3. CASE UNCHANGED gvars
    <3>1. UNCHANGED <<inv, previous, ran, prior, rebalance, before>>
      BY <2>3 DEF gvars, memory
    <3> QED BY <3>1 DEF PriorMade
  <2> QED BY <2>1, <2>2, <2>3 DEF GenNext
<1> QED BY <1>1, <1>2, GenTypeCorrect, PTL DEF GenSpec

\* The way of a partition's telemetry through a plan: its stream s and its central shard z.
Route(p, n, cn, s, z) ==
  /\ s \in p.streams /\ s.name = n /\ s.tier = "regional" /\ s.cluster \in Clusters
  /\ z \in p.streams /\ z.name = cn /\ z.tier = "central" /\ z.cluster \in Clusters
  /\ z.sources = {Source(n, s.domain, None, None)}

LEMMA PlansHaveRoutes ==
  ASSUME NEW t \in SpecType, NEW i, NEW of, NEW k \in Parts(t)
  PROVE  /\ Route(PlanOf(t, i, of), PartitionStreamName(k[1], k[2]),
                  CentralShardStreamName(k[1], k[2]), RegionalOf(t, i, k), ShardOf(t, k))
         /\ RegionalOf(t, i, k).cluster = t.place[k] /\ ShardOf(t, k).cluster = t.central
         /\ [name |-> LeafDNSName(k[2]), target |-> t.endpoint[t.place[k]]] \in PlanOf(t, i, of).dns
<1>1. t.place[k] \in Clusters /\ t.central \in Clusters
  BY DEF Parts, SpecType
<1>2. RegionalOf(t, i, k) \in PlanOf(t, i, of).streams /\ ShardOf(t, k) \in PlanOf(t, i, of).streams
  BY StreamsByTier
<1>3. /\ RegionalOf(t, i, k).name = PartitionStreamName(k[1], k[2])
      /\ RegionalOf(t, i, k).tier = "regional" /\ RegionalOf(t, i, k).cluster = t.place[k]
      /\ RegionalOf(t, i, k).domain = t.domain[t.place[k]]
      /\ ShardOf(t, k).name = CentralShardStreamName(k[1], k[2])
      /\ ShardOf(t, k).tier = "central" /\ ShardOf(t, k).cluster = t.central
      /\ ShardOf(t, k).sources = {ShardSource(t, k)}
  BY DEF RegionalOf, ShardOf
<1>4. PlanOf(t, i, of).dns = DNSRecords(t)
  BY DEF PlanOf
<1> QED BY <1>1, <1>2, <1>3, <1>4 DEF Route, ShardSource, DNSRecords

\* Phase 3 leaves the record of a partition with the new plan's target.
LEMMA RecordsRepointed ==
  ASSUME RunbookFacts, NEW r \in prior.dns, NEW q \in plan.dns, r.name = q.name,
         r = [name |-> r.name, target |-> r.target]
  PROVE  \E x \in Repointed(prior.dns, rebalance.dnsChanged) : x.name = r.name /\ x.target = q.target
<1> DEFINE or == IndexDNS(prior.dns)
           nr == IndexDNS(plan.dns)
           differ == {m \in DOMAIN or \cap DOMAIN nr : or[m] # nr[m]}
           changed == {<<n, or[n], nr[n]>> : n \in differ}
<1>1. rebalance.dnsChanged = changed
  BY DEF RunbookFacts, Diff, BuildRebalanceData
<1>2. /\ r.name \in DOMAIN or /\ or[r.name] = r.target
      /\ r.name \in DOMAIN nr /\ nr[r.name] = q.target
  BY IndexComplete DEF RunbookFacts
<1>3. \A c \in changed : c[3] = nr[c[1]]
  OBVIOUS
<1>4. r.target # q.target => \E c \in changed : c[1] = r.name
  <2> SUFFICES ASSUME r.target # q.target PROVE \E c \in changed : c[1] = r.name
    OBVIOUS
  <2>1. r.name \in differ
    BY <1>2
  <2>2. <<r.name, or[r.name], nr[r.name]>> \in changed
    BY <2>1
  <2> QED BY <2>2
<1> HIDE DEF or, nr, changed
<1>5. CASE \E c \in changed : c[1] = r.name
  <2> DEFINE ch == CHOOSE c \in changed : c[1] = r.name
             x == [r EXCEPT !.target = ch[3]]
  <2>1. ch \in changed /\ ch[1] = r.name
    BY <1>5
  <2> HIDE DEF ch
  <2>2. ch[3] = q.target
    BY <1>2, <1>3, <2>1
  <2>3. x \in Repointed(prior.dns, changed)
    BY <1>5 DEF Repointed, ch
  <2>4. x.name = r.name /\ x.target = ch[3]
    OBVIOUS
  <2> QED BY <1>1, <2>2, <2>3, <2>4
<1>6. CASE ~\E c \in changed : c[1] = r.name
  <2>1. r \in Repointed(prior.dns, changed)
    BY <1>6 DEF Repointed
  <2> QED BY <1>1, <1>4, <1>6, <2>1
<1> QED BY <1>5, <1>6

LEMMA MovesMembers ==
  ASSUME NEW dep, NEW moved, NEW c \in Clusters
  PROVE  \A s : s \in FollowMoves(dep, moved)[c] <=>
           /\ \E x \in StandUp(dep, moved)[c] : s = DropFrom(moved, AddTo(moved, x))
           /\ \A m \in moved : ~(m.name = s.name /\ m.oldCluster = c)
BY FollowMovesMembers DEF StandUp

LEMMA SourceEdits ==
  ASSUME NEW dep, NEW moved, NEW c \in Clusters
  PROVE  /\ \A s : s \in DualSource(dep, moved)[c] <=> \E x \in dep[c] : s = AddTo(moved, x)
         /\ \A s : s \in SingleSource(dep, moved)[c] <=> \E x \in dep[c] : s = DropFrom(moved, x)
BY DEF DualSource, SingleSource, CentralSources, AddTo, DropFrom, AddSources, DropSources

\* Cluster c holds stream n in domain d, and central sources it from there.
Held(dep, n, c, d) == \E s \in dep[c] : s.name = n /\ s.domain = d
Sourcing(z, n, d) == z.tier = "central" /\ \E src \in z.sources : src.name = n /\ src.domain = d
Sourced(dep, n, d) == \E b \in Clusters : \E z \in dep[b] : Sourcing(z, n, d)

\* What phases 2 and 5 and the decommissioning make of the source of an old shard.
LEMMA ShardKeepsSourcing ==
  ASSUME RunbookFacts, NEW n, NEW cn, NEW o, NEW oc, NEW u, NEW uc,
         Route(prior, n, cn, o, oc), Route(plan, n, cn, u, uc)
  PROVE  /\ Sourcing(AddTo(rebalance.moved, oc), n, o.domain)
         /\ Sourcing(AddTo(rebalance.moved, oc), n, u.domain)
         /\ Sourcing(DropFrom(rebalance.moved, AddTo(rebalance.moved, oc)), n, u.domain)
         /\ \A z : Sourcing(z, n, u.domain) /\ IsStream(z) =>
              Sourcing(KeepIn(rebalance.removed, z), n, u.domain)
<1> DEFINE M == rebalance.moved
           x == Source(n, o.domain, None, None)
           y == Source(n, u.domain, None, None)
           A == AddSources(M, {x})
           B == DropSources(M, A)
<1>0. IsStream(oc) /\ oc.tier = "central" /\ oc.sources = {x}
  BY DEF RunbookFacts, WellNamed, Route
<1>1. x.name = n /\ x.domain = o.domain /\ y.name = n /\ y.domain = u.domain
      /\ [x EXCEPT !.domain = u.domain] = y
  BY DEF Source
<1>2. Pair(prior, plan, o, u)
  BY DEF Route, Pair
<1> HIDE DEF x, y
<1>3. x \in A
  BY DEF AddSources
<1>4. y \in A
  <2>1. CASE Elsewhere(o, u)
    <3> DEFINE m == Move(o, u)
    <3>1. m \in M
      BY <1>2, <2>1, RowsOfPlans DEF RunbookFacts
    <3>2. m.name = n /\ m.newDomain = u.domain
      BY DEF Move, Route
    <3> HIDE DEF m
    <3>3. y \in {[w EXCEPT !.domain = m.newDomain] : w \in {v \in {x} : v.name = m.name}}
      BY <1>1, <3>2
    <3> QED BY <3>1, <3>3 DEF AddSources
  <2>2. CASE ~Elsewhere(o, u)
    <3>1. x = y
      BY <2>2 DEF Elsewhere, x, y
    <3> QED BY <1>3, <3>1
  <2> QED BY <2>1, <2>2
<1>5. y \in B
  <2>1. \A m \in M : m.name = n => m.oldDomain # u.domain
    BY RowsAgree DEF Route
  <2> QED BY <1>1, <1>4, <2>1 DEF DropSources
<1>6. AddTo(M, oc).sources = A /\ AddTo(M, oc).tier = "central"
  <2>1. AddTo(M, oc) = [oc EXCEPT !.sources = A]
    BY <1>0 DEF AddTo
  <2> HIDE DEF A
  <2> QED BY <1>0, <2>1 DEF IsStream
<1>7. DropFrom(M, AddTo(M, oc)).sources = B /\ DropFrom(M, AddTo(M, oc)).tier = "central"
  <2>1. DropFrom(M, AddTo(M, oc)) = [oc EXCEPT !.sources = DropSources(M, AddSources(M, @))]
    BY <1>0, EditsKeepNames
  <2>2. DropFrom(M, AddTo(M, oc)) = [oc EXCEPT !.sources = B]
    BY <1>0, <2>1
  <2> HIDE DEF B
  <2> QED BY <1>0, <2>2 DEF IsStream
<1>8. ASSUME NEW z, Sourcing(z, n, u.domain), IsStream(z)
      PROVE  Sourcing(KeepIn(rebalance.removed, z), n, u.domain)
  <2> DEFINE K == KeepSources(rebalance.removed, z.sources)
  <2>1. PICK src \in z.sources : src.name = n /\ src.domain = u.domain
    BY <1>8 DEF Sourcing
  <2>2. \A r \in rebalance.removed : r.name # n
    BY RowsOfPlans DEF RunbookFacts, Route
  <2>3. src \in K
    BY <2>1, <2>2 DEF KeepSources, Named
  <2>4. KeepIn(rebalance.removed, z) = [z EXCEPT !.sources = K]
    BY <1>8 DEF KeepIn, Sourcing
  <2> HIDE DEF K
  <2>5. KeepIn(rebalance.removed, z).sources = K /\ KeepIn(rebalance.removed, z).tier = "central"
    BY <1>8, <2>4 DEF IsStream, Sourcing
  <2> QED BY <2>1, <2>3, <2>5 DEF Sourcing
<1> HIDE DEF A, B
<1> QED BY <1>1, <1>3, <1>4, <1>5, <1>6, <1>7, <1>8 DEF Sourcing

\* The steps after the moves keep, or bring up to date, a stream that the new plan has where
\* it is.
LEMMA LastStepsKeep ==
  ASSUME RunbookFacts, NEW w \in plan.streams, w.cluster \in Clusters, NEW dep,
         NEW x \in FollowMoves(dep, rebalance.moved)[w.cluster], x.name = w.name, IsStream(x)
  PROVE  \/ w \in FollowRunbook(dep, rebalance)[w.cluster]
         \/ KeepIn(rebalance.removed, x) \in FollowRunbook(dep, rebalance)[w.cluster]
<1> DEFINE c == w.cluster
           R == rebalance.removed
           D4 == FollowMoves(dep, rebalance.moved)
           new == {r.cluster : r \in rebalance.added}
           last == {r.cluster : r \in rebalance.modified}
           D5 == Apply(D4, new)
           D8 == FollowRunbook(dep, rebalance)
<1>0. c \in Clusters
  OBVIOUS
<1>1. \A s : s \in D5[c] <=>
        \/ c \in new /\ s \in Slice(c)
        \/ s \in D4[c] /\ (c \in new => \A v \in Slice(c) : v.name # s.name)
  <2> HIDE DEF D4, new, c
  <2> QED BY <1>0, ApplyMembers
<1>2. \A s : s \in D8[c] <=>
        \/ c \in last /\ s \in Slice(c)
        \/ /\ \E v \in D5[c] : s = KeepIn(R, v)
           /\ [name |-> s.name, cluster |-> c] \notin R
           /\ c \in last => \A v \in Slice(c) : v.name # s.name
  <2> HIDE DEF c
  <2> QED BY <1>0, FollowRunbookMembers
<1>3. w \in Slice(c) /\ \A v \in Slice(c) : v.name = w.name => v = w
  BY DEF Slice, RunbookFacts, WellNamed
<1>4. \A r \in R : r.name # w.name
  BY RowsOfPlans DEF RunbookFacts
<1>5. KeepIn(R, w) = w /\ KeepIn(R, x).name = w.name
  BY NewStreamsSettled, EditsKeepNames
<1> HIDE DEF D5, D8, D4
<1>6. x \in D4[c]
  BY DEF D4
<1>7. CASE c \in last
  BY <1>2, <1>3, <1>7 DEF D8
<1>8. CASE c \notin last
  <2>1. \E v \in {w, x} : v \in D5[c]
    <3>1. CASE c \in new
      BY <1>1, <1>3, <3>1
    <3>2. CASE c \notin new
      BY <1>1, <1>6, <3>2
    <3> QED BY <3>1, <3>2
  <2>2. PICK v \in {w, x} : v \in D5[c]
    BY <2>1
  <2>3. [name |-> w.name, cluster |-> c] \notin R
    BY <1>4
  <2>4. KeepIn(R, v).name = w.name
    BY <1>5, <2>2
  <2>5. KeepIn(R, v) \in D8[c]
    BY <1>2, <1>8, <2>2, <2>3, <2>4
  <2> QED BY <1>5, <2>2, <2>5 DEF D8
<1> QED BY <1>7, <1>8

\* A partition's way through the phases.  As long as the records are the old ones its old
\* cluster holds the stream that central sources, and so does its new cluster as soon as
\* they are not.
LEMMA PhasesKeepRoutes ==
  ASSUME RunbookFacts, NEW n, NEW cn, NEW o, NEW oc, NEW u, NEW uc,
         Route(prior, n, cn, o, oc), Route(plan, n, cn, u, uc),
         oc.cluster = uc.cluster => \A m \in rebalance.moved : m.newCluster # oc.cluster
  PROVE  LET M == rebalance.moved
             old == Deployed(prior)
             up == StandUp(old, M)
             dual == DualSource(up, M)
             On(dep, s) == Held(dep, n, s.cluster, s.domain) /\ Sourced(dep, n, s.domain)
         IN /\ On(old, o) /\ On(up, o) /\ On(dual, o)
            /\ On(dual, u) /\ On(SingleSource(dual, M), u) /\ On(TearDown(dual, M), u)
            /\ On(FollowRunbook(old, rebalance), u)
            /\ M = {} => o.cluster = u.cluster /\ o.domain = u.domain
<1> DEFINE M == rebalance.moved
           first == {m.newCluster : m \in M}
           old == Deployed(prior)
           up == StandUp(old, M)
           dual == DualSource(up, M)
           single == SingleSource(dual, M)
           torn == FollowMoves(old, M)
           done == FollowRunbook(old, rebalance)
           On(dep, s) == Held(dep, n, s.cluster, s.domain) /\ Sourced(dep, n, s.domain)
           ad(s) == DropFrom(M, AddTo(M, s))
<1>0. /\ o.cluster \in Clusters /\ oc.cluster \in Clusters /\ u.cluster \in Clusters /\ uc.cluster \in Clusters
      /\ o.name = n /\ u.name = n /\ oc.name = cn /\ uc.name = cn
      /\ o.tier = "regional" /\ u.tier = "regional" /\ oc.tier = "central" /\ uc.tier = "central"
      /\ IsStream(o) /\ IsStream(u) /\ IsStream(oc) /\ IsStream(uc)
      /\ u \in plan.streams /\ uc \in plan.streams
  BY DEF Route, RunbookFacts, WellNamed
<1>1. Sourcing(oc, n, o.domain) /\ Sourcing(uc, n, u.domain)
  BY DEF Route, Sourcing, Source
<1>2. /\ Elsewhere(o, u) => Move(o, u) \in M /\ Move(o, u).newCluster = u.cluster /\ o.cluster # u.cluster
      /\ Elsewhere(oc, uc) => Move(oc, uc) \in M /\ Move(oc, uc).newCluster = uc.cluster
                                /\ oc.cluster # uc.cluster
  <2>1. Pair(prior, plan, o, u) /\ Pair(prior, plan, oc, uc)
    BY DEF Route, Pair
  <2>2. /\ Elsewhere(o, u) => Move(o, u) \in M
        /\ Elsewhere(oc, uc) => Move(oc, uc) \in M
    BY <2>1, RowsOfPlans DEF RunbookFacts
  <2>3. /\ Move(o, u).newCluster = u.cluster /\ Move(o, u).oldCluster = o.cluster
        /\ Move(oc, uc).newCluster = uc.cluster /\ Move(oc, uc).oldCluster = oc.cluster
    BY DEF Move
  <2> QED BY <2>2, <2>3 DEF RunbookFacts
<1>3. /\ \A m \in M : m.name = n => m.oldCluster # u.cluster
      /\ \A m \in M : m.name = cn => m.oldCluster # uc.cluster
  BY <1>0, RowsAgree
<1>4. \A c \in Clusters :
        /\ \A s : s \in old[c] <=> s \in prior.streams /\ s.cluster = c
        /\ \A s : s \in Slice(c) <=> s \in plan.streams /\ s.cluster = c
  BY DEF Deployed, Slice
<1>5. o \in old[o.cluster] /\ oc \in old[oc.cluster]
  BY <1>0, <1>4 DEF Route
<1>6. \A c \in Clusters : \A s : s \in up[c] <=>
        \/ c \in first /\ s \in Slice(c)
        \/ s \in old[c] /\ (c \in first => \A v \in Slice(c) : v.name # s.name)
  <2> HIDE DEF old, first
  <2> QED BY ApplyMembers DEF StandUp, first
<1>7. \A c \in Clusters :
        /\ \A s : s \in dual[c] <=> \E x \in up[c] : s = AddTo(M, x)
        /\ \A s : s \in single[c] <=> \E x \in dual[c] : s = DropFrom(M, x)
  <2> HIDE DEF up, M
  <2> QED BY SourceEdits
<1>8. \A c \in Clusters : \A s : s \in torn[c] <=>
        (\E x \in up[c] : s = ad(x)) /\ \A m \in M : ~(m.name = s.name /\ m.oldCluster = c)
  <2> HIDE DEF old, M
  <2> QED BY MovesMembers
<1>9. \A v \in plan.streams : (v.name = n => v = u) /\ (v.name = cn => v = uc)
  BY <1>0 DEF RunbookFacts, WellNamed
<1> HIDE DEF old, up, dual, single, torn, done, first, M
\* Phase 1: the old stream, or the new one in its place; the old shard; what has moved.
<1>10. \E s \in {o, u} : s \in up[o.cluster] /\ s.domain = o.domain
  <2>1. CASE o.cluster \in first /\ \E v \in Slice(o.cluster) : v.name = n
    <3>1. u \in Slice(o.cluster) /\ u.cluster = o.cluster
      BY <1>0, <1>4, <1>9, <2>1
    <3>2. u.domain = o.domain
      BY <1>2, <3>1 DEF Elsewhere
    <3> QED BY <1>0, <1>6, <2>1, <3>1, <3>2
  <2>2. CASE ~(o.cluster \in first /\ \E v \in Slice(o.cluster) : v.name = n)
    BY <1>0, <1>5, <1>6, <2>2
  <2> QED BY <2>1, <2>2
<1>11. oc \in up[oc.cluster]
  <2>1. CASE oc.cluster \in first /\ \E v \in Slice(oc.cluster) : v.name = cn
    <3>1. uc.cluster = oc.cluster
      BY <1>0, <1>4, <1>9, <2>1
    <3> QED BY <2>1, <3>1 DEF first, M
  <2>2. CASE ~(oc.cluster \in first /\ \E v \in Slice(oc.cluster) : v.name = cn)
    BY <1>0, <1>5, <1>6, <2>2
  <2> QED BY <2>1, <2>2
<1>12. PICK s1 \in {o, u} : s1 \in up[u.cluster] /\ s1.domain = u.domain
  <2>1. CASE Elsewhere(o, u)
    <3>1. u.cluster \in first /\ u \in Slice(u.cluster)
      BY <1>0, <1>2, <1>4, <2>1 DEF first
    <3> QED BY <1>0, <1>6, <3>1
  <2>2. CASE ~Elsewhere(o, u)
    BY <1>10, <2>2 DEF Elsewhere
  <2> QED BY <2>1, <2>2
<1>13. \E z \in {oc, uc} : z \in up[uc.cluster] /\ Sourcing(ad(z), n, u.domain)
  <2>1. CASE Elsewhere(oc, uc)
    <3>1. uc.cluster \in first /\ uc \in Slice(uc.cluster)
      BY <1>0, <1>2, <1>4, <2>1 DEF first
    <3>2. ad(uc) = uc
      BY <1>0, NewStreamsSettled DEF M
    <3> QED BY <1>0, <1>1, <1>6, <3>1, <3>2
  <2>2. CASE ~Elsewhere(oc, uc)
    <3>1. Sourcing(ad(oc), n, u.domain)
      BY ShardKeepsSourcing DEF M
    <3> QED BY <1>11, <2>2, <3>1 DEF Elsewhere
  <2> QED BY <2>1, <2>2
<1>14. PICK z1 \in {oc, uc} : z1 \in up[uc.cluster] /\ Sourcing(ad(z1), n, u.domain)
  BY <1>13
\* Regional streams are left alone by the edits of sources.
<1>15. \A s \in {o, u} : AddTo(M, s) = s /\ DropFrom(M, s) = s /\ KeepIn(rebalance.removed, s) = s
  BY <1>0 DEF AddTo, DropFrom, KeepIn
<1>16. On(old, o) /\ On(up, o)
  BY <1>0, <1>1, <1>5, <1>10, <1>11 DEF Held, Sourced
<1>17. On(dual, o) /\ On(dual, u)
  <2>1. Sourcing(AddTo(M, oc), n, o.domain) /\ Sourcing(AddTo(M, oc), n, u.domain)
    BY ShardKeepsSourcing DEF M
  <2>2. AddTo(M, oc) \in dual[oc.cluster]
    BY <1>0, <1>7, <1>11
  <2>3. Held(dual, n, o.cluster, o.domain) /\ Held(dual, n, u.cluster, u.domain)
    BY <1>0, <1>7, <1>10, <1>12, <1>15 DEF Held
  <2> QED BY <1>0, <2>1, <2>2, <2>3 DEF Sourced
<1>18. On(single, u)
  <2>1. Sourcing(ad(oc), n, u.domain)
    BY ShardKeepsSourcing DEF M
  <2>2. ad(oc) \in single[oc.cluster]
    BY <1>0, <1>7, <1>11
  <2>3. s1 \in single[u.cluster]
    BY <1>0, <1>7, <1>12, <1>15
  <2> QED BY <1>0, <1>12, <2>1, <2>2, <2>3 DEF Held, Sourced
\* Phase 5 deletes neither.
<1>19. s1 \in torn[u.cluster] /\ ad(z1) \in torn[uc.cluster] /\ ad(z1).name = cn /\ IsStream(ad(z1))
  <2>1. ad(z1).name = cn /\ IsStream(ad(z1))
    <3>1. IsStream(z1) /\ z1.name = cn
      BY <1>0, <1>14
    <3> QED BY <3>1, EditsKeepNames
  <2>2. ad(s1) = s1 /\ s1.name = n
    BY <1>0, <1>12, <1>15
  <2>3. s1 \in torn[u.cluster]
    BY <1>0, <1>3, <1>8, <1>12, <2>2
  <2>4. ad(z1) \in torn[uc.cluster]
    BY <1>0, <1>3, <1>8, <1>14, <2>1
  <2> QED BY <2>1, <2>3, <2>4
<1>20. On(torn, u)
  BY <1>0, <1>12, <1>14, <1>19 DEF Held, Sourced
<1>21. On(done, u)
  <2>1. u \in done[u.cluster] \/ KeepIn(rebalance.removed, s1) \in done[u.cluster]
    BY <1>0, <1>12, <1>19, LastStepsKeep DEF torn, done, M
  <2>2. Held(done, n, u.cluster, u.domain)
    BY <1>0, <1>12, <1>15, <2>1 DEF Held
  <2>3. uc \in done[uc.cluster] \/ KeepIn(rebalance.removed, ad(z1)) \in done[uc.cluster]
    BY <1>0, <1>19, LastStepsKeep DEF torn, done, M
  <2>4. Sourcing(KeepIn(rebalance.removed, ad(z1)), n, u.domain)
    BY <1>14, <1>19, ShardKeepsSourcing
  <2> QED BY <1>0, <1>1, <2>2, <2>3, <2>4 DEF Sourced
<1>22. torn = TearDown(dual, M)
  BY DEF torn, dual, up, FollowMoves
<1>23. M = {} => o.cluster = u.cluster /\ o.domain = u.domain
  BY <1>2 DEF Elsewhere
<1> QED BY <1>16, <1>17, <1>18, <1>20, <1>21, <1>22, <1>23 DEF old, up, dual, single, done, M

\* Each phase is online: from one phase of REBALANCE.md to the next, a partition that both
\* specs have is sent by its leaf record to a cluster that holds its stream, and central
\* sources that stream from where it is, under the provisos that PhasesStayOnline states
\* (with the proviso of NamesDiffer).
THEOREM PhasesAreOnline == NoCentralDistrict => (GenSpec => []PhasesStayOnline)
<1> SUFFICES ASSUME NoCentralDistrict PROVE GenSpec => []PhasesStayOnline
  OBVIOUS
<1>1. RunResult /\ PriorResult /\ JoinedResult /\ RowsResult /\ GenTypeOK /\ PriorMade
        => PhasesStayOnline
  <2> SUFFICES ASSUME RunResult, PriorResult, JoinedResult, RowsResult, GenTypeOK, PriorMade,
                      ran = "ok", rebalance # None,
                      \A m \in rebalance.moved :
                        /\ m.oldCluster # m.newCluster /\ m.oldDomain # m.newDomain
                        /\ before.central = spec.central => m.newCluster # spec.central,
                      NEW k \in Parts(before) \cap Parts(spec), NEW g \in Stages(rebalance)
               PROVE  Online(k, g[1], g[2])
    BY DEF PhasesStayOnline
  <2> DEFINE n == PartitionStreamName(k[1], k[2])
             cn == CentralShardStreamName(k[1], k[2])
             o == RegionalOf(before, inv, k)
             oc == ShardOf(before, k)
             u == RegionalOf(spec, inv, k)
             uc == ShardOf(spec, k)
             M == rebalance.moved
             old == Deployed(prior)
             up == StandUp(old, M)
             dual == DualSource(up, M)
             single == SingleSource(dual, M)
             torn == TearDown(dual, M)
             done == FollowRunbook(old, rebalance)
             dns == Repointed(prior.dns, rebalance.dnsChanged)
             On(dep, s) == Held(dep, n, s.cluster, s.domain) /\ Sourced(dep, n, s.domain)
             r == [name |-> LeafDNSName(k[2]), target |-> before.endpoint[before.place[k]]]
             q == [name |-> LeafDNSName(k[2]), target |-> spec.endpoint[spec.place[k]]]
  <2>1. RunbookFacts
    BY DEF RunbookFacts, RunResult, PriorResult, JoinedResult, RowsResult
  <2>2. /\ Route(prior, n, cn, o, oc) /\ r \in prior.dns
        /\ o.cluster = before.place[k] /\ oc.cluster = before.central
    BY PlansHaveRoutes DEF PriorMade
  <2>3. /\ Route(plan, n, cn, u, uc) /\ q \in plan.dns
        /\ u.cluster = spec.place[k] /\ uc.cluster = spec.central
    BY PlansHaveRoutes DEF GenTypeOK, RunResult, MadePlan
  <2> HIDE DEF n, cn, o, oc, u, uc
  <2>4. oc.cluster = uc.cluster => \A m \in M : m.newCluster # oc.cluster
    BY <2>2, <2>3
  <2>5. /\ On(old, o) /\ On(up, o) /\ On(dual, o)
        /\ On(dual, u) /\ On(single, u) /\ On(torn, u) /\ On(done, u)
        /\ M = {} => o.cluster = u.cluster /\ o.domain = u.domain
    BY <2>1, <2>2, <2>3, <2>4, PhasesKeepRoutes
  <2>6. PICK x \in dns : x.name = LeafDNSName(k[2]) /\ x.target = spec.endpoint[u.cluster]
    <3>1. r.name = q.name /\ r = [name |-> r.name, target |-> r.target]
      OBVIOUS
    <3>2. r.name = LeafDNSName(k[2]) /\ q.target = spec.endpoint[u.cluster]
      BY <2>3
    <3> HIDE DEF r, q
    <3> QED BY <2>1, <2>2, <2>3, <3>1, <3>2, RecordsRepointed
  <2>7. r.name = LeafDNSName(k[2]) /\ r.target = before.endpoint[o.cluster]
    BY <2>2
  <2>8. o.cluster \in Clusters /\ u.cluster \in Clusters
    BY <2>2, <2>3 DEF Route
  <2> HIDE DEF r, q, old, up, dual, single, torn, done, dns, M
  <2>9. ASSUME NEW dep, On(dep, o) PROVE Online(k, dep, prior.dns)
    BY <2>2, <2>7, <2>8, <2>9 DEF Online, Held, Sourced, Sourcing, n
  <2>10. ASSUME NEW dep, On(dep, u) PROVE Online(k, dep, dns)
    BY <2>6, <2>8, <2>10 DEF Online, Held, Sourced, Sourcing, n
  <2>11. g \in IF M = {} THEN {old, done} \X {prior.dns, dns}
               ELSE ({old, up, dual} \X {prior.dns}) \cup ({dual, single, torn, done} \X {dns})
    BY DEF Stages, old, up, dual, single, torn, done, dns, M
  <2>12. CASE M = {}
    <3>1. g[1] \in {old, done} /\ g[2] \in {prior.dns, dns}
      BY <2>11, <2>12
    <3>2. On(old, u) /\ On(done, o)
      BY <2>5, <2>12
    <3> QED BY <2>5, <2>9, <2>10, <3>1, <3>2
  <2>13. CASE M # {}
    <3>1. \/ g[1] \in {old, up, dual} /\ g[2] = prior.dns
          \/ g[1] \in {dual, single, torn, done} /\ g[2] = dns
      BY <2>11, <2>13
    <3> QED BY <2>5, <2>9, <2>10, <3>1
  <2> QED BY <2>12, <2>13
<1> QED BY <1>1, RunResultInvariant, PriorResultInvariant, JoinedInvariant, RowsInvariant,
           GenTypeCorrect, PriorMadeInvariant, PTL

==============================================================================
