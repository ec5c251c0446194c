------------------------------ MODULE RenderProofs ------------------------------
(***************************************************************************)
(* Machine-checked proofs about what cmd/gen renders: how the renderers'   *)
(* maps become one tree, that charts and manifests say the same, that the  *)
(* share catalog is kept, that all renderings show the plan, and which     *)
(* paths they name, for every spec, inventory, flag and history of edits.  *)
(***************************************************************************)
EXTENDS GenProofs

-----------------------------------------------------------------------------
\* Maps of files

LEMMA FileMap ==
  ASSUME NEW n, NEW contents
  PROVE  DOMAIN File(n, contents) = {n} /\ File(n, contents)[n] = contents
BY DEF File

LEMMA BothMaps ==
  ASSUME NEW f, NEW g
  PROVE  /\ DOMAIN (f ++ g) = DOMAIN f \cup DOMAIN g
         /\ \A n \in DOMAIN f : (f ++ g)[n] = f[n]
         /\ \A n \in DOMAIN g : n \notin DOMAIN f => (f ++ g)[n] = g[n]
BY DEF ++

LEMMA UnderMap ==
  ASSUME NEW dir, NEW c, NEW files
  PROVE  /\ \A q : q \in DOMAIN Under(dir, c, files) <=> \E f \in DOMAIN files : q = <<dir, c, f>>
         /\ \A f \in DOMAIN files : Under(dir, c, files)[<<dir, c, f>>] = files[f]
<1>1. \A f \in DOMAIN files : <<dir, c, f>>[3] = f
  OBVIOUS
<1> QED BY <1>1 DEF Under

\* A file that one of the maps has is in the merged tree, with that map's contents.
LEMMA MergedFile ==
  ASSUME NEW parts, Mergeable(parts), NEW i \in DOMAIN parts, NEW q \in DOMAIN parts[i]
  PROVE  q \in DOMAIN Merged(parts) /\ Merged(parts)[q] = parts[i][q]
<1>1. \A j \in DOMAIN parts : q \in DOMAIN parts[j] => j = i
  BY DEF Mergeable
<1>2. (CHOOSE j \in DOMAIN parts : q \in DOMAIN parts[j]) = i
  BY <1>1
<1>3. q \in UNION {DOMAIN parts[j] : j \in DOMAIN parts}
  OBVIOUS
<1> QED BY <1>2, <1>3 DEF Merged

LEMMA TextSays ==
  ASSUME NEW S, NEW field
  PROVE  Says({Text(field, x) : x \in S}, field) = S
<1>1. \A x \in S : Text(field, x)[1] = field /\ Text(field, x)[3] = x
  BY DEF Text
<1> HIDE DEF Text
<1>2. {g \in {Text(field, x) : x \in S} : g[1] = field} = {Text(field, x) : x \in S}
  BY <1>1
<1> QED BY <1>1, <1>2 DEF Says

-----------------------------------------------------------------------------
\* Dispatch

\* The paths of a slice's files and of an Argo application.
SlicePath(t, g, c, f) == <<SliceDir(t, c, g.output), c, f>>
AppPath(c) == <<"argocd", c, <<".yaml">>>>

LEMMA SliceDirs ==
  ASSUME NEW t, NEW c, NEW output
  PROVE  SliceDir(t, c, output) \in {"charts", "clusters"}
BY DEF SliceDir

\* The files of one cluster: its slice, and its Argo application.
LEMMA ClusterPaths ==
  ASSUME NEW p, NEW t, NEW g, NEW c
  PROVE  /\ \A q \in DOMAIN ClusterFiles(p, t, g, c) :
              \/ q = AppPath(c)
              \/ \E f \in DOMAIN RenderSlice(p, t, c, g.output) : q = SlicePath(t, g, c, f)
         /\ \A f \in DOMAIN RenderSlice(p, t, c, g.output) :
              /\ SlicePath(t, g, c, f) \in DOMAIN ClusterFiles(p, t, g, c)
              /\ ClusterFiles(p, t, g, c)[SlicePath(t, g, c, f)]
                   = RenderSlice(p, t, c, g.output)[f]
         /\ AppPath(c) \in DOMAIN ClusterFiles(p, t, g, c) =>
              /\ Substrate(t, c) = "kubernetes"
              /\ ClusterFiles(p, t, g, c)[AppPath(c)] = ArgoApp(t, c, g.output)
<1> DEFINE dir == SliceDir(t, c, g.output)
           slice == RenderSlice(p, t, c, g.output)
           wanted == g.argo /\ Substrate(t, c) = "kubernetes"
           argo == ArgoApp(t, c, g.output)
           A == Under(dir, c, slice)
           B == IF wanted THEN Under("argocd", c, File(<<".yaml">>, argo)) ELSE << >>
<1>1. ClusterFiles(p, t, g, c) = A ++ B
  BY DEF ClusterFiles
<1>2. dir # "argocd"
  BY SliceDirs
<1> HIDE DEF slice, argo
<1>3. /\ \A q : q \in DOMAIN A <=> \E f \in DOMAIN slice : q = SlicePath(t, g, c, f)
      /\ \A f \in DOMAIN slice : A[SlicePath(t, g, c, f)] = slice[f]
  BY UnderMap DEF SlicePath
<1>4. \A q \in DOMAIN B : wanted /\ q = AppPath(c) /\ B[q] = argo
  <2>1. CASE wanted
    <3>1. DOMAIN File(<<".yaml">>, argo) = {<<".yaml">>} /\ File(<<".yaml">>, argo)[<<".yaml">>] = argo
      BY FileMap
    <3>2. B = Under("argocd", c, File(<<".yaml">>, argo))
      BY <2>1
    <3> DEFINE F == File(<<".yaml">>, argo)
    <3>3. /\ \A q : q \in DOMAIN B <=> \E f \in DOMAIN F : q = <<"argocd", c, f>>
          /\ \A f \in DOMAIN F : B[<<"argocd", c, f>>] = F[f]
      BY <3>2, UnderMap
    <3> HIDE DEF B, F
    <3> QED BY <2>1, <3>1, <3>3 DEF F, AppPath
  <2>2. CASE ~wanted
    BY <2>2
  <2> QED BY <2>1, <2>2
<1>5. AppPath(c) \notin DOMAIN A
  <2>1. \A f \in DOMAIN slice : AppPath(c) # SlicePath(t, g, c, f)
    BY <1>2 DEF AppPath, SlicePath
  <2> QED BY <1>3, <2>1
<1> HIDE DEF A, B, dir
<1>6. /\ DOMAIN (A ++ B) = DOMAIN A \cup DOMAIN B
      /\ \A n \in DOMAIN A : (A ++ B)[n] = A[n]
      /\ \A n \in DOMAIN B : n \notin DOMAIN A => (A ++ B)[n] = B[n]
  BY BothMaps
<1>7. \A q \in DOMAIN (A ++ B) : q = AppPath(c) \/ \E f \in DOMAIN slice : q = SlicePath(t, g, c, f)
  BY <1>3, <1>4, <1>6
<1>8. \A f \in DOMAIN slice :
        SlicePath(t, g, c, f) \in DOMAIN (A ++ B) /\ (A ++ B)[SlicePath(t, g, c, f)] = slice[f]
  BY <1>3, <1>6
<1>9. AppPath(c) \in DOMAIN (A ++ B) => Substrate(t, c) = "kubernetes" /\ (A ++ B)[AppPath(c)] = argo
  BY <1>4, <1>5, <1>6
<1> QED BY <1>1, <1>7, <1>8, <1>9 DEF slice, argo

\* Dispatch's map is its clusters' maps: a path tells the cluster.
LEMMA DispatchPaths ==
  ASSUME NEW p, NEW t, NEW g
  PROVE  /\ \A q \in DOMAIN Dispatch(p, t, g) : \E c \in ByCluster(p) :
              /\ q \in DOMAIN ClusterFiles(p, t, g, c)
              /\ Dispatch(p, t, g)[q] = ClusterFiles(p, t, g, c)[q]
         /\ \A c \in ByCluster(p) : \A q \in DOMAIN ClusterFiles(p, t, g, c) :
              /\ q \in DOMAIN Dispatch(p, t, g)
              /\ Dispatch(p, t, g)[q] = ClusterFiles(p, t, g, c)[q]
<1> DEFINE D(c) == ClusterFiles(p, t, g, c)
           S == UNION {DOMAIN D(c) : c \in ByCluster(p)}
<1>1. Dispatch(p, t, g) = [q \in S |-> D(q[2])[q]]
  BY DEF Dispatch
<1>2. ASSUME NEW c, NEW q \in DOMAIN D(c) PROVE q[2] = c
  <2>1. q = AppPath(c)
          \/ \E f \in DOMAIN RenderSlice(p, t, c, g.output) : q = SlicePath(t, g, c, f)
    BY <1>2, ClusterPaths
  <2>2. AppPath(c)[2] = c /\ \A f : SlicePath(t, g, c, f)[2] = c
    BY DEF AppPath, SlicePath
  <2> QED BY <2>1, <2>2
<1> HIDE DEF D
<1>3. \A q \in S : \E c \in ByCluster(p) : q \in DOMAIN D(c)
  OBVIOUS
<1>4. \A c \in ByCluster(p) : \A q \in DOMAIN D(c) : q \in S
  OBVIOUS
<1> HIDE DEF S
<1>5. /\ \A q \in S : \E c \in ByCluster(p) : q \in DOMAIN D(c) /\ Dispatch(p, t, g)[q] = D(c)[q]
      /\ \A c \in ByCluster(p) : \A q \in DOMAIN D(c) : q \in S /\ Dispatch(p, t, g)[q] = D(c)[q]
      /\ DOMAIN Dispatch(p, t, g) = S
  BY <1>1, <1>2, <1>3, <1>4
<1> QED BY <1>5 DEF D

\* A file of a slice is in the tree under the slice's directory.
LEMMA SliceFile ==
  ASSUME NEW p, NEW t, NEW g, NEW c \in ByCluster(p), NEW f \in DOMAIN RenderSlice(p, t, c, g.output)
  PROVE  /\ SlicePath(t, g, c, f) \in DOMAIN Dispatch(p, t, g)
         /\ Dispatch(p, t, g)[SlicePath(t, g, c, f)] = RenderSlice(p, t, c, g.output)[f]
BY ClusterPaths, DispatchPaths

\* Every other file that Dispatch makes is an Argo application.
LEMMA DispatchFiles ==
  ASSUME NEW p, NEW t, NEW g, NEW q \in DOMAIN Dispatch(p, t, g)
  PROVE  \E c \in ByCluster(p) :
           \/ /\ q = AppPath(c) /\ Substrate(t, c) = "kubernetes"
              /\ Dispatch(p, t, g)[q] = ArgoApp(t, c, g.output)
           \/ \E f \in DOMAIN RenderSlice(p, t, c, g.output) :
                /\ q = SlicePath(t, g, c, f)
                /\ Dispatch(p, t, g)[q] = RenderSlice(p, t, c, g.output)[f]
<1>1. PICK c \in ByCluster(p) : /\ q \in DOMAIN ClusterFiles(p, t, g, c)
                                /\ Dispatch(p, t, g)[q] = ClusterFiles(p, t, g, c)[q]
  BY DispatchPaths
<1>2. \/ q = AppPath(c)
      \/ \E f \in DOMAIN RenderSlice(p, t, c, g.output) : q = SlicePath(t, g, c, f)
  BY <1>1, ClusterPaths
<1>3. CASE q = AppPath(c)
  BY <1>1, <1>3, ClusterPaths
<1>4. CASE \E f \in DOMAIN RenderSlice(p, t, c, g.output) : q = SlicePath(t, g, c, f)
  <2>1. PICK f \in DOMAIN RenderSlice(p, t, c, g.output) : q = SlicePath(t, g, c, f)
    BY <1>4
  <2>2. ClusterFiles(p, t, g, c)[q] = RenderSlice(p, t, c, g.output)[f]
    BY <2>1, ClusterPaths
  <2> QED BY <1>1, <2>1, <2>2
<1> QED BY <1>2, <1>3, <1>4

-----------------------------------------------------------------------------
\* The tree

\* The whole-plan renderers make one file each, or for the catalog two, or none.
LEMMA RenderedParts ==
  ASSUME NEW p, NEW t, NEW g, NEW rows, NEW parts, parts = Rendered(p, t, g, rows)
  PROVE  /\ DOMAIN parts = 1..7
         /\ parts[1] = Dispatch(p, t, g) /\ \A q \in DOMAIN parts[1] : Len(q) = 3
         /\ parts[2] = RenderDNS(p) /\ DOMAIN parts[2] = {<<"leaf-dns.yaml">>}
         /\ parts[3] = RenderDiagram(p) /\ DOMAIN parts[3] = {<<"TOPOLOGY.md">>}
         /\ parts[4] = RenderRunbook(p, t, g) /\ DOMAIN parts[4] = {<<"DEPLOYMENT-GUIDE.md">>}
         /\ parts[5] = RenderAccounts(t) /\ DOMAIN parts[5] = {<<"accounts.conf">>}
         /\ parts[6] = RenderCatalog(t)
         /\ DOMAIN parts[6] = IF t.dmz = None THEN {} ELSE {<<"dmz-catalog.md">>, <<"dmz-catalog.json">>}
         /\ DOMAIN parts[7] = IF rows = None THEN {} ELSE {<<"REBALANCE.md">>}
<1> DEFINE rebal == IF rows = None THEN << >> ELSE File(<<"REBALANCE.md">>, {Text("rows", rows)})
<1>1. /\ DOMAIN parts = 1..7
      /\ parts[1] = Dispatch(p, t, g) /\ parts[2] = RenderDNS(p) /\ parts[3] = RenderDiagram(p)
      /\ parts[4] = RenderRunbook(p, t, g) /\ parts[5] = RenderAccounts(t)
      /\ parts[6] = RenderCatalog(t) /\ parts[7] = rebal
  <2> HIDE DEF rebal
  <2>1. parts = <<Dispatch(p, t, g), RenderDNS(p), RenderDiagram(p), RenderRunbook(p, t, g),
                  RenderAccounts(t), RenderCatalog(t), rebal>>
    BY DEF Rendered, rebal
  <2> QED BY <2>1
<1>2. \A q \in DOMAIN Dispatch(p, t, g) : Len(q) = 3
  <2> SUFFICES ASSUME NEW q \in DOMAIN Dispatch(p, t, g) PROVE Len(q) = 3
    OBVIOUS
  <2>1. \E c : q = AppPath(c) \/ \E f : q = SlicePath(t, g, c, f)
    BY DispatchFiles
  <2> QED BY <2>1 DEF AppPath, SlicePath
<1>3. /\ DOMAIN RenderDNS(p) = {<<"leaf-dns.yaml">>}
      /\ DOMAIN RenderDiagram(p) = {<<"TOPOLOGY.md">>}
      /\ DOMAIN RenderRunbook(p, t, g) = {<<"DEPLOYMENT-GUIDE.md">>}
      /\ DOMAIN RenderAccounts(t) = {<<"accounts.conf">>}
  BY FileMap DEF RenderDNS, RenderDiagram, RenderRunbook, RenderAccounts
<1>4. DOMAIN RenderCatalog(t) = IF t.dmz = None THEN {} ELSE {<<"dmz-catalog.md">>, <<"dmz-catalog.json">>}
  <2> DEFINE A == File(<<"dmz-catalog.md">>, {Text("share", <<s.consumer, s.as>>) : s \in t.shares})
             B == File(<<"dmz-catalog.json">>, {Text("share", <<s.consumer, s.as, s.from>>) : s \in t.shares})
  <2>1. RenderCatalog(t) = IF t.dmz = None THEN << >> ELSE A ++ B
    BY DEF RenderCatalog
  <2>2. DOMAIN A = {<<"dmz-catalog.md">>} /\ DOMAIN B = {<<"dmz-catalog.json">>}
    BY FileMap
  <2> HIDE DEF A, B
  <2>6. DOMAIN (A ++ B) = DOMAIN A \cup DOMAIN B
    BY BothMaps
  <2>3. DOMAIN (A ++ B) = {<<"dmz-catalog.md">>, <<"dmz-catalog.json">>}
    BY <2>2, <2>6
  <2>4. CASE t.dmz = None
    BY <2>1, <2>4
  <2>5. CASE t.dmz # None
    BY <2>1, <2>3, <2>5
  <2> QED BY <2>4, <2>5
<1>5. DOMAIN rebal = IF rows = None THEN {} ELSE {<<"REBALANCE.md">>}
  <2>1. CASE rows = None
    BY <2>1
  <2>2. CASE rows # None
    BY <2>2, FileMap
  <2> QED BY <2>1, <2>2
<1> HIDE DEF rebal
<1> QED BY <1>1, <1>2, <1>3, <1>4, <1>5

\* MergeInto never refuses what run hands it.
LEMMA TreeMerges ==
  ASSUME NEW p, NEW t, NEW g, NEW rows
  PROVE  Mergeable(Rendered(p, t, g, rows))
<1> DEFINE parts == Rendered(p, t, g, rows)
           top == [i \in 2..7 |->
                     CASE i = 2 -> {<<"leaf-dns.yaml">>} [] i = 3 -> {<<"TOPOLOGY.md">>}
                       [] i = 4 -> {<<"DEPLOYMENT-GUIDE.md">>} [] i = 5 -> {<<"accounts.conf">>}
                       [] i = 6 -> {<<"dmz-catalog.md">>, <<"dmz-catalog.json">>}
                       [] OTHER -> {<<"REBALANCE.md">>}]
<1>1. /\ DOMAIN parts = 1..7 /\ \A q \in DOMAIN parts[1] : Len(q) = 3
      /\ \A i \in 2..7 : DOMAIN parts[i] \subseteq top[i]
  <2>0. parts = Rendered(p, t, g, rows)
    OBVIOUS
  <2> HIDE DEF parts
  <2>1. /\ DOMAIN parts = 1..7 /\ \A q \in DOMAIN parts[1] : Len(q) = 3
        /\ DOMAIN parts[2] \subseteq top[2] /\ DOMAIN parts[3] \subseteq top[3]
        /\ DOMAIN parts[4] \subseteq top[4] /\ DOMAIN parts[5] \subseteq top[5]
        /\ DOMAIN parts[6] \subseteq top[6] /\ DOMAIN parts[7] \subseteq top[7]
    BY <2>0, RenderedParts
  <2> HIDE DEF top
  <2>2. \A i \in 2..7 : i \in {2, 3, 4, 5, 6, 7}
    OBVIOUS
  <2> QED BY <2>1, <2>2
<1>2. \A i \in 2..7 : \A q \in top[i] : Len(q) = 1
  OBVIOUS
<1>3. ASSUME NEW i \in 2..7, NEW j \in 2..7, i # j
      PROVE  top[i] \cap top[j] = {}
  BY <1>3
<1> HIDE DEF parts, top
<1>4. ASSUME NEW i \in 1..7, NEW j \in 1..7, i # j
      PROVE  DOMAIN parts[i] \cap DOMAIN parts[j] = {}
  <2>1. CASE i \in 2..7 /\ j \in 2..7
    BY <1>1, <1>3, <1>4, <2>1
  <2>2. CASE i = 1 /\ j \in 2..7
    BY <1>1, <1>2, <2>2
  <2>3. CASE j = 1 /\ i \in 2..7
    BY <1>1, <1>2, <2>3
  <2> QED BY <1>4, <2>1, <2>2, <2>3
<1> QED BY <1>1, <1>4 DEF Mergeable, parts

\* The tree, file by file: what Dispatch makes, and the files about the whole plan.
LEMMA TreeFiles ==
  ASSUME NEW p, NEW t, NEW g, NEW rows, NEW tree, tree = Merged(Rendered(p, t, g, rows))
  PROVE  /\ \A q \in DOMAIN tree : Len(q) = 3 => q \in DOMAIN Dispatch(p, t, g)
         /\ \A q \in DOMAIN Dispatch(p, t, g) :
              q \in DOMAIN tree /\ Len(q) = 3 /\ tree[q] = Dispatch(p, t, g)[q]
         /\ tree[<<"leaf-dns.yaml">>] = RenderDNS(p)[<<"leaf-dns.yaml">>]
         /\ tree[<<"TOPOLOGY.md">>] = RenderDiagram(p)[<<"TOPOLOGY.md">>]
         /\ tree[<<"DEPLOYMENT-GUIDE.md">>] = RenderRunbook(p, t, g)[<<"DEPLOYMENT-GUIDE.md">>]
         /\ tree[<<"accounts.conf">>] = RenderAccounts(t)[<<"accounts.conf">>]
         /\ t.dmz # None =>
              /\ <<"dmz-catalog.md">> \in DOMAIN tree
              /\ tree[<<"dmz-catalog.json">>] = RenderCatalog(t)[<<"dmz-catalog.json">>]
<1> DEFINE parts == Rendered(p, t, g, rows)
<1>1. Mergeable(parts) /\ tree = Merged(parts)
  BY TreeMerges
<1>2. parts = Rendered(p, t, g, rows)
  OBVIOUS
<1> HIDE DEF parts
<1>3. \A i \in DOMAIN parts : \A q \in DOMAIN parts[i] : q \in DOMAIN tree /\ tree[q] = parts[i][q]
  BY <1>1, MergedFile
<1>4. /\ DOMAIN parts = 1..7
      /\ parts[1] = Dispatch(p, t, g) /\ \A q \in DOMAIN parts[1] : Len(q) = 3
      /\ parts[2] = RenderDNS(p) /\ <<"leaf-dns.yaml">> \in DOMAIN parts[2]
      /\ parts[3] = RenderDiagram(p) /\ <<"TOPOLOGY.md">> \in DOMAIN parts[3]
      /\ parts[4] = RenderRunbook(p, t, g) /\ <<"DEPLOYMENT-GUIDE.md">> \in DOMAIN parts[4]
      /\ parts[5] = RenderAccounts(t) /\ <<"accounts.conf">> \in DOMAIN parts[5]
      /\ parts[6] = RenderCatalog(t)
      /\ t.dmz # None => <<"dmz-catalog.md">> \in DOMAIN parts[6] /\ <<"dmz-catalog.json">> \in DOMAIN parts[6]
      /\ \A i \in 2..7 : \A q \in DOMAIN parts[i] : Len(q) = 1
  <2>1. \A q \in DOMAIN parts[2] \cup DOMAIN parts[3] \cup DOMAIN parts[4] \cup DOMAIN parts[5]
                   \cup DOMAIN parts[6] \cup DOMAIN parts[7] : Len(q) = 1
    BY <1>2, RenderedParts
  <2>2. \A i \in 2..7 : i \in {2, 3, 4, 5, 6, 7}
    OBVIOUS
  <2>3. \A i \in 2..7 : \A q \in DOMAIN parts[i] : Len(q) = 1
    BY <2>1, <2>2
  <2> QED BY <1>2, <2>3, RenderedParts
<1>5. ASSUME NEW q \in DOMAIN tree, Len(q) = 3 PROVE q \in DOMAIN Dispatch(p, t, g)
  <2>1. q \in UNION {DOMAIN parts[i] : i \in DOMAIN parts}
    BY <1>1 DEF Merged
  <2>2. PICK i \in DOMAIN parts : q \in DOMAIN parts[i]
    BY <2>1
  <2>3. i = 1
    BY <1>4, <1>5, <2>2
  <2> QED BY <1>4, <2>2, <2>3
<1>6. 1 \in 1..7 /\ 2 \in 1..7 /\ 3 \in 1..7 /\ 4 \in 1..7 /\ 5 \in 1..7 /\ 6 \in 1..7
  OBVIOUS
<1> QED BY <1>3, <1>4, <1>5, <1>6

-----------------------------------------------------------------------------
\* k8s.go: a slice's files

LEMMA K8sFiles ==
  ASSUME NEW c
  PROVE  /\ K8sRenderCluster(c)[<<"streams.yaml">>] = {Text("stream", StreamCR(s)) : s \in c.streams}
         /\ K8sRenderCluster(c)[<<"certificate.yaml">>] = Certificate(c)
         /\ K8sRenderCluster(c)[<<"externalsecret.yaml">>] = ExternalSecret(c)
         /\ K8sRenderCluster(c)[<<"kustomization.yaml">>] = Kustomization(c)
         /\ K8sRenderCluster(c)[<<"servicemonitor.yaml">>] = Monitoring(c)
         /\ K8sRenderCluster(c)[<<"prometheusrule.yaml">>] = PrometheusRule(c)
         /\ c.isCentral => K8sRenderCluster(c)[<<"credhealth-prometheusrule.yaml">>] = CredhealthRule(c)
         /\ DOMAIN K8sRenderCluster(c) =
              {<<"streams.yaml">>, <<"certificate.yaml">>, <<"externalsecret.yaml">>,
               <<"kustomization.yaml">>, <<"servicemonitor.yaml">>, <<"prometheusrule.yaml">>}
                \cup IF c.isCentral THEN {<<"credhealth-prometheusrule.yaml">>} ELSE {}
<1> DEFINE f1 == File(<<"streams.yaml">>, {Text("stream", StreamCR(s)) : s \in c.streams})
           f2 == File(<<"certificate.yaml">>, Certificate(c))
           f3 == File(<<"externalsecret.yaml">>, ExternalSecret(c))
           f4 == File(<<"kustomization.yaml">>, Kustomization(c))
           f5 == File(<<"servicemonitor.yaml">>, Monitoring(c))
           f6 == File(<<"prometheusrule.yaml">>, PrometheusRule(c))
           f7 == IF c.isCentral THEN File(<<"credhealth-prometheusrule.yaml">>, CredhealthRule(c)) ELSE << >>
           g2 == f1 ++ f2
           g3 == g2 ++ f3
           g4 == g3 ++ f4
           g5 == g4 ++ f5
           g6 == g5 ++ f6
           g7 == g6 ++ f7
<1>1. K8sRenderCluster(c) = g7
  BY DEF K8sRenderCluster
<1>2. DOMAIN f1 = {<<"streams.yaml">>} /\ f1[<<"streams.yaml">>] = {Text("stream", StreamCR(s)) : s \in c.streams}
  <2> DEFINE S == {Text("stream", StreamCR(s)) : s \in c.streams}
  <2> HIDE DEF S
  <2> SUFFICES DOMAIN File(<<"streams.yaml">>, S) = {<<"streams.yaml">>} /\ File(<<"streams.yaml">>, S)[<<"streams.yaml">>] = S
    BY DEF S
  <2> QED BY FileMap
<1>3. DOMAIN f2 = {<<"certificate.yaml">>} /\ f2[<<"certificate.yaml">>] = Certificate(c)
  BY FileMap
<1>4. DOMAIN f3 = {<<"externalsecret.yaml">>} /\ f3[<<"externalsecret.yaml">>] = ExternalSecret(c)
  BY FileMap
<1>5. DOMAIN f4 = {<<"kustomization.yaml">>} /\ f4[<<"kustomization.yaml">>] = Kustomization(c)
  BY FileMap
<1>6. DOMAIN f5 = {<<"servicemonitor.yaml">>} /\ f5[<<"servicemonitor.yaml">>] = Monitoring(c)
  BY FileMap
<1>7. DOMAIN f6 = {<<"prometheusrule.yaml">>} /\ f6[<<"prometheusrule.yaml">>] = PrometheusRule(c)
  BY FileMap
<1>8. /\ DOMAIN f7 = IF c.isCentral THEN {<<"credhealth-prometheusrule.yaml">>} ELSE {}
      /\ c.isCentral => f7[<<"credhealth-prometheusrule.yaml">>] = CredhealthRule(c)
  <2>1. CASE c.isCentral
    BY <2>1, FileMap
  <2>2. CASE ~c.isCentral
    BY <2>2
  <2> QED BY <2>1, <2>2
<1> HIDE DEF f1, f2, f3, f4, f5, f6, f7
<1>9. /\ DOMAIN g2 = DOMAIN f1 \cup DOMAIN f2
      /\ \A n \in DOMAIN f1 : g2[n] = f1[n]
      /\ \A n \in DOMAIN f2 : n \notin DOMAIN f1 => g2[n] = f2[n]
  BY BothMaps
<1> HIDE DEF g2
<1>10. /\ DOMAIN g3 = DOMAIN g2 \cup DOMAIN f3
       /\ \A n \in DOMAIN g2 : g3[n] = g2[n]
       /\ \A n \in DOMAIN f3 : n \notin DOMAIN g2 => g3[n] = f3[n]
  BY BothMaps
<1> HIDE DEF g3
<1>11. /\ DOMAIN g4 = DOMAIN g3 \cup DOMAIN f4
       /\ \A n \in DOMAIN g3 : g4[n] = g3[n]
       /\ \A n \in DOMAIN f4 : n \notin DOMAIN g3 => g4[n] = f4[n]
  BY BothMaps
<1> HIDE DEF g4
<1>12. /\ DOMAIN g5 = DOMAIN g4 \cup DOMAIN f5
       /\ \A n \in DOMAIN g4 : g5[n] = g4[n]
       /\ \A n \in DOMAIN f5 : n \notin DOMAIN g4 => g5[n] = f5[n]
  BY BothMaps
<1> HIDE DEF g5
<1>13. /\ DOMAIN g6 = DOMAIN g5 \cup DOMAIN f6
       /\ \A n \in DOMAIN g5 : g6[n] = g5[n]
       /\ \A n \in DOMAIN f6 : n \notin DOMAIN g5 => g6[n] = f6[n]
  BY BothMaps
<1> HIDE DEF g6
<1>14. /\ DOMAIN g7 = DOMAIN g6 \cup DOMAIN f7
       /\ \A n \in DOMAIN g6 : g7[n] = g6[n]
       /\ \A n \in DOMAIN f7 : n \notin DOMAIN g6 => g7[n] = f7[n]
  BY BothMaps
<1> HIDE DEF g7
<1>15. g7[<<"streams.yaml">>] = f1[<<"streams.yaml">>]
  BY <1>2, <1>9, <1>10, <1>11, <1>12, <1>13, <1>14
<1>16. g7[<<"certificate.yaml">>] = Certificate(c)
  BY <1>2, <1>3, <1>9, <1>10, <1>11, <1>12, <1>13, <1>14
<1>17. g7[<<"externalsecret.yaml">>] = ExternalSecret(c)
  BY <1>2, <1>3, <1>4, <1>9, <1>10, <1>11, <1>12, <1>13, <1>14
<1>18. DOMAIN g3 = {<<"streams.yaml">>, <<"certificate.yaml">>, <<"externalsecret.yaml">>}
  BY <1>2, <1>3, <1>4, <1>9, <1>10
<1>19. g7[<<"kustomization.yaml">>] = Kustomization(c)
  BY <1>5, <1>18, <1>11, <1>12, <1>13, <1>14
<1>20. DOMAIN g4 = {<<"streams.yaml">>, <<"certificate.yaml">>, <<"externalsecret.yaml">>, <<"kustomization.yaml">>}
  BY <1>5, <1>11, <1>18
<1>21. g7[<<"servicemonitor.yaml">>] = Monitoring(c)
  BY <1>6, <1>20, <1>12, <1>13, <1>14
<1>22. DOMAIN g5 = {<<"streams.yaml">>, <<"certificate.yaml">>, <<"externalsecret.yaml">>,
                    <<"kustomization.yaml">>, <<"servicemonitor.yaml">>}
  BY <1>6, <1>12, <1>20
<1>23. g7[<<"prometheusrule.yaml">>] = PrometheusRule(c)
  BY <1>7, <1>22, <1>13, <1>14
<1>24. DOMAIN g6 = {<<"streams.yaml">>, <<"certificate.yaml">>, <<"externalsecret.yaml">>,
                    <<"kustomization.yaml">>, <<"servicemonitor.yaml">>, <<"prometheusrule.yaml">>}
  BY <1>7, <1>13, <1>22
<1>25. c.isCentral => g7[<<"credhealth-prometheusrule.yaml">>] = CredhealthRule(c)
  BY <1>8, <1>14, <1>24
<1> QED BY <1>1, <1>2, <1>8, <1>14, <1>15, <1>16, <1>17, <1>19, <1>21, <1>23, <1>24, <1>25

\* The four knobs of a slice are pairs of a kind and a value.
Knobs == {"namespace", "tlsIssuer", "secretStore", "prometheusRelease"}
Knobbed(c) == \A k \in Knobs : c.knobs[k] = <<c.knobs[k][1], c.knobs[k][2]>>

LEMMA KnobField ==
  ASSUME NEW c, Knobbed(c), NEW k \in Knobs, NEW a
  PROVE  <<a>> \o c.knobs[k] = <<a, c.knobs[k][1], c.knobs[k][2]>>
<1> DEFINE x == c.knobs[k][1]
           y == c.knobs[k][2]
<1>1. c.knobs[k] = <<x, y>>
  BY DEF Knobbed
<1> HIDE DEF x, y
<1>2. <<a>> \o <<x, y>> = <<a, x, y>>
  <2> DEFINE S == {a, x, y}
             l == <<a>>
             r == <<x, y>>
             w == <<a, x, y>>
  <2>1. l \in Seq(S) /\ r \in Seq(S) /\ w \in Seq(S)
    OBVIOUS
  <2>2. /\ Len(l) = 1 /\ Len(r) = 2 /\ Len(w) = 3
        /\ l[1] = a /\ r[1] = x /\ r[2] = y /\ w[1] = a /\ w[2] = x /\ w[3] = y
    OBVIOUS
  <2> HIDE DEF l, r, w, S
  <2>3. /\ l \o r \in Seq(S) /\ Len(l \o r) = 3
        /\ \A i \in 1..3 : (l \o r)[i] = IF i <= 1 THEN l[i] ELSE r[i - 1]
    <3>1. /\ l \o r \in Seq(S) /\ Len(l \o r) = Len(l) + Len(r)
          /\ \A i \in 1..(Len(l) + Len(r)) :
               (l \o r)[i] = IF i <= Len(l) THEN l[i] ELSE r[i - Len(l)]
      BY <2>1, ConcatProperties, Zenon
    <3> QED BY <2>2, <3>1
  <2>4. (l \o r)[1] = a /\ (l \o r)[2] = x /\ (l \o r)[3] = y
    BY <2>2, <2>3
  <2>5. \A i \in 1..3 : (l \o r)[i] = w[i]
    <3>1. \A i \in 1..3 : i = 1 \/ i = 2 \/ i = 3
      OBVIOUS
    <3> QED BY <2>2, <2>4, <3>1
  <2>6. l \o r = w
    BY <2>1, <2>2, <2>3, <2>5, SeqEqual
  <2> QED BY <2>6 DEF l, r, w
<1> QED BY <1>1, <1>2 DEF x, y

LEMMA SliceIsKnobbed ==
  ASSUME NEW p, NEW t, NEW c
  PROVE  /\ Knobbed(BuildClusterSlice(p, t, c))
         /\ DOMAIN BuildClusterSlice(p, t, c).knobs = Knobs
BY DEF BuildClusterSlice, Knobbed, Knobs

\* The fields of Kubernetes manifests other than streams.yaml.
Alerts == {"NatsServerDown", "NatsSlowConsumers", "JetStreamStorageHigh", "JetStreamConsumerLagging",
           "JetStreamAssetsHigh", "NatsLeafDown"}
CredAlerts == {"CredExpiringSoon", "CredExpiryCritical", "CredExpired"}
K8sFields == {"cluster", "dnsName", "issuer", "service", "store", "namespace", "release", "resource",
              "CredHealthStale"} \cup Alerts \cup CredAlerts

LEMMA K8sFileFields ==
  ASSUME NEW c, Knobbed(c), NEW f \in DOMAIN K8sRenderCluster(c), NEW x \in K8sRenderCluster(c)[f]
  PROVE  IF f = <<"streams.yaml">>
           THEN \E s \in c.streams : x = Text("stream", StreamCR(s))
           ELSE x[1] \in K8sFields
<1>1. \A y \in Monitoring(c) : y[1] \in K8sFields
  <2>1. Monitoring(c) = {<<"cluster", "text", c.id>>,
                         <<"namespace", c.knobs["namespace"][1], c.knobs["namespace"][2]>>,
                         <<"release", c.knobs["prometheusRelease"][1], c.knobs["prometheusRelease"][2]>>}
    BY KnobField DEF Monitoring, Text, Knobs
  <2> QED BY <2>1 DEF K8sFields
<1>2. CASE f = <<"streams.yaml">>
  BY <1>2, K8sFiles
<1>3. CASE f = <<"certificate.yaml">>
  <2>1. x \in Certificate(c)
    BY <1>3, K8sFiles
  <2>2. x \in {<<"cluster", "text", c.id>>, <<"dnsName", "text", LeafHost(c.endpoint)>>,
               <<"issuer", c.knobs["tlsIssuer"][1], c.knobs["tlsIssuer"][2]>>,
               <<"service", c.knobs["namespace"][1], c.knobs["namespace"][2]>>}
    BY <2>1, KnobField DEF Certificate, Text, Knobs
  <2> QED BY <1>3, <2>2 DEF K8sFields
<1>4. CASE f = <<"externalsecret.yaml">>
  <2>1. x \in ExternalSecret(c)
    BY <1>4, K8sFiles
  <2>2. x \in {<<"cluster", "text", c.id>>,
               <<"store", c.knobs["secretStore"][1], c.knobs["secretStore"][2]>>}
    BY <2>1, KnobField DEF ExternalSecret, Text, Knobs
  <2> QED BY <1>4, <2>2 DEF K8sFields
<1>5. CASE f = <<"kustomization.yaml">>
  <2>1. x \in Kustomization(c)
    BY <1>5, K8sFiles
  <2>2. x[1] = "resource"
    BY <2>1 DEF Kustomization, Text
  <2> QED BY <1>5, <2>2 DEF K8sFields
<1>6. CASE f = <<"servicemonitor.yaml">>
  BY <1>1, <1>6, K8sFiles
<1>7. CASE f = <<"prometheusrule.yaml">>
  <2>1. x \in PrometheusRule(c)
    BY <1>7, K8sFiles
  <2>2. x \in Monitoring(c) \/ \E a \in Alerts : x = <<a>> \o c.knobs["namespace"]
    BY <2>1 DEF PrometheusRule, Alerts
  <2>3. ASSUME NEW a \in Alerts, x = <<a>> \o c.knobs["namespace"] PROVE x[1] \in K8sFields
    <3>1. x = <<a, c.knobs["namespace"][1], c.knobs["namespace"][2]>>
      BY <2>3, KnobField DEF Knobs
    <3> QED BY <3>1 DEF K8sFields
  <2> QED BY <1>1, <1>7, <2>2, <2>3
<1>8. CASE f = <<"credhealth-prometheusrule.yaml">>
  <2>0. c.isCentral
    <3> SUFFICES ASSUME ~c.isCentral PROVE FALSE
      OBVIOUS
    <3>1. f \in {<<"streams.yaml">>, <<"certificate.yaml">>, <<"externalsecret.yaml">>,
                 <<"kustomization.yaml">>, <<"servicemonitor.yaml">>, <<"prometheusrule.yaml">>}
      BY K8sFiles
    <3> QED BY <1>8, <3>1
  <2>1. x \in CredhealthRule(c)
    BY <1>8, <2>0, K8sFiles
  <2>2. x \in Monitoring(c) \/ x[1] \in CredAlerts \cup {"CredHealthStale"}
    BY <2>1 DEF CredhealthRule, CredAlerts, Text
  <2> QED BY <1>1, <1>8, <2>2 DEF K8sFields
<1>9. f \in {<<"streams.yaml">>, <<"certificate.yaml">>, <<"externalsecret.yaml">>,
             <<"kustomization.yaml">>, <<"servicemonitor.yaml">>, <<"prometheusrule.yaml">>,
             <<"credhealth-prometheusrule.yaml">>}
  BY K8sFiles
<1> QED BY <1>2, <1>3, <1>4, <1>5, <1>6, <1>7, <1>8, <1>9

-----------------------------------------------------------------------------
\* baremetal.go: a slice's files

LEMMA BareFileFields ==
  ASSUME NEW c, NEW f \in DOMAIN BareMetalRenderCluster(c), NEW x \in BareMetalRenderCluster(c)[f]
  PROVE  \/ \E s \in c.streams : x = Text("stream", BareStream(s))
         \/ x[1] \in {"server", "cluster", "domain", "route"}
         \/ ~c.isCentral /\ x = Text("remote", c.uplink)
<1> DEFINE host(n) == CHOOSE i \in DOMAIN c.hosts : ConfFile(c, i) = n
                        /\ \A j \in DOMAIN c.hosts : ConfFile(c, j) = n => j <= i
           confs == {ConfFile(c, i) : i \in DOMAIN c.hosts}
           names == {<<"streams/">> \o s.name : s \in c.streams}
           crs(n) == {Text("stream", BareStream(s)) : s \in {u \in Kept(c.streams) : <<"streams/">> \o u.name = n}}
           A == [n \in confs |-> NatsConf(c, host(n))]
           B == File(<<"nats-server.service">>, {})
           C == [n \in names |-> crs(n)]
<1>1. BareMetalRenderCluster(c) = (A ++ B) ++ C
  BY DEF BareMetalRenderCluster
<1>2. \A n \in DOMAIN A : A[n] = NatsConf(c, host(n))
  <2> HIDE DEF host, confs
  <2> QED OBVIOUS
<1>3. DOMAIN B = {<<"nats-server.service">>} /\ B[<<"nats-server.service">>] = {}
  BY FileMap
<1>4. \A n \in DOMAIN C : C[n] = crs(n)
  <2> HIDE DEF crs, names
  <2> QED OBVIOUS
<1>5. ASSUME NEW n, NEW y \in crs(n) PROVE \E s \in c.streams : y = Text("stream", BareStream(s))
  <2>1. Kept(c.streams) \subseteq c.streams
    BY DEF Kept
  <2> QED BY <1>5, <2>1
<1>6. ASSUME NEW i, NEW y \in NatsConf(c, i)
      PROVE  \/ y[1] \in {"server", "cluster", "domain", "route"}
             \/ ~c.isCentral /\ y = Text("remote", c.uplink)
  <2> DEFINE R == IF c.isCentral THEN {} ELSE {Text("remote", c.uplink)}
  <2>1. \/ y \in {Text("server", <<c.id, i>>), Text("cluster", c.id), Text("domain", c.domain)}
        \/ \E j \in DOMAIN c.hosts : y = Text("route", c.hosts[j])
        \/ y \in R
    <3> HIDE DEF R
    <3>1. NatsConf(c, i) = {Text("server", <<c.id, i>>), Text("cluster", c.id), Text("domain", c.domain)}
                             \cup {Text("route", c.hosts[j]) : j \in DOMAIN c.hosts \ {i}} \cup R
      BY DEF NatsConf, R
    <3> QED BY <1>6, <3>1
  <2>2. CASE y \in R
    <3>1. ~c.isCentral /\ y \in {Text("remote", c.uplink)}
      BY <2>2
    <3> QED BY <3>1
  <2> HIDE DEF R
  <2>3. CASE y \notin R
    <3>1. \A v : /\ Text("server", v)[1] = "server" /\ Text("cluster", v)[1] = "cluster"
                 /\ Text("domain", v)[1] = "domain" /\ Text("route", v)[1] = "route"
      BY DEF Text
    <3>2. y[1] \in {"server", "cluster", "domain", "route"}
      BY <2>1, <2>3, <3>1
    <3> QED BY <3>2
  <2> QED BY <2>2, <2>3
<1> HIDE DEF A, B, C, crs, host
<1>7. /\ DOMAIN (A ++ B) = DOMAIN A \cup DOMAIN B
      /\ \A n \in DOMAIN A : (A ++ B)[n] = A[n]
      /\ \A n \in DOMAIN B : n \notin DOMAIN A => (A ++ B)[n] = B[n]
  BY BothMaps
<1> DEFINE D == A ++ B
<1> HIDE DEF D
<1>8. /\ DOMAIN (D ++ C) = DOMAIN D \cup DOMAIN C
      /\ \A n \in DOMAIN D : (D ++ C)[n] = D[n]
      /\ \A n \in DOMAIN C : n \notin DOMAIN D => (D ++ C)[n] = C[n]
  BY BothMaps
<1>9. f \in DOMAIN (D ++ C) /\ x \in (D ++ C)[f]
  BY <1>1 DEF D
<1>10. CASE f \in DOMAIN A
  <2>1. x \in NatsConf(c, host(f))
    BY <1>2, <1>7, <1>8, <1>9, <1>10 DEF D
  <2> QED BY <1>6, <2>1
<1>11. CASE f \in DOMAIN B /\ f \notin DOMAIN A
  BY <1>3, <1>7, <1>8, <1>9, <1>11 DEF D
<1>12. CASE f \in DOMAIN C /\ f \notin DOMAIN D
  <2>1. x \in crs(f)
    BY <1>4, <1>8, <1>9, <1>12
  <2> QED BY <1>5, <2>1
<1> QED BY <1>7, <1>8, <1>9, <1>10, <1>11, <1>12 DEF D

-----------------------------------------------------------------------------
\* The share catalog

\* aggregateDMZConsumers: a consumer has what its templates have, and nothing else.
LEMMA Aggregated ==
  ASSUME NEW U, NEW agg, agg = AggregateDMZConsumers(U)
  PROVE  /\ \A u \in U : u.account = <<"dmz">> =>
              /\ u.label \in DOMAIN agg
              /\ u.subscribe \subseteq agg[u.label].subAllow
              /\ u.publishDeny \subseteq agg[u.label].pubDeny
         /\ \A a \in DOMAIN agg : \E u \in U : u.account = <<"dmz">> /\ u.label = a
<1> DEFINE dmz == {u \in U : u.account = <<"dmz">>}
           of(c) == {u \in dmz : u.label = c}
           sub(c) == UNION {u.subscribe : u \in of(c)}
           deny(c) == UNION {u.publishDeny : u \in of(c)}
           L == {u.label : u \in dmz}
<1>1. agg = [c \in L |-> [subAllow |-> sub(c), pubDeny |-> deny(c)]]
  BY DEF AggregateDMZConsumers
<1>2. \A u \in dmz : u.label \in L /\ u.subscribe \subseteq sub(u.label) /\ u.publishDeny \subseteq deny(u.label)
  OBVIOUS
<1>3. \A c \in L : \E u \in dmz : u.label = c
  OBVIOUS
<1> HIDE DEF L, sub, deny
<1>5. DOMAIN agg = L /\ \A c \in L : agg[c].subAllow = sub(c) /\ agg[c].pubDeny = deny(c)
  BY <1>1
<1>6. \A u \in dmz : u \in U /\ u.account = <<"dmz">>
  OBVIOUS
<1>7. \A u \in U : u.account = <<"dmz">> => u \in dmz
  OBVIOUS
<1> HIDE DEF dmz
<1> QED BY <1>2, <1>3, <1>5, <1>6, <1>7

LEMMA AggregatedSubject ==
  ASSUME NEW U, NEW a \in DOMAIN AggregateDMZConsumers(U), NEW x \in AggregateDMZConsumers(U)[a].subAllow
  PROVE  \E u \in U : u.account = <<"dmz">> /\ u.label = a /\ x \in u.subscribe
<1> DEFINE dmz == {u \in U : u.account = <<"dmz">>}
           of(c) == {u \in dmz : u.label = c}
           sub(c) == UNION {u.subscribe : u \in of(c)}
           deny(c) == UNION {u.publishDeny : u \in of(c)}
           L == {u.label : u \in dmz}
<1>1. AggregateDMZConsumers(U) = [c \in L |-> [subAllow |-> sub(c), pubDeny |-> deny(c)]]
  BY DEF AggregateDMZConsumers
<1>2. x \in sub(a)
  <2> HIDE DEF L, sub, deny
  <2> QED BY <1>1
<1>3. PICK u \in of(a) : x \in u.subscribe
  BY <1>2
<1> QED BY <1>3

\* The template of a share.
ShareUser(s) ==
  [account |-> <<"dmz">>, label |-> s.consumer, publish |-> {}, subscribe |-> {s.as},
   publishDeny |-> {<<Rest>>}]

LEMMA DMZUsers ==
  ASSUME NEW t, t.dmz # None
  PROVE  /\ \A s \in t.shares : ShareUser(s) \in Users(t)
         /\ \A u \in Users(t) : u.account = <<"dmz">> => \E s \in t.shares : u = ShareUser(s)
<1> DEFINE D == {[account |-> <<"district", d>>, label |-> <<"cabinet">>, publish |-> {SubjectSpace(t, d)},
                  subscribe |-> {SubjectSpace(t, d)}, publishDeny |-> {}] : d \in t.districts}
           Y == {[account |-> <<"system">>, label |-> <<"system">>, publish |-> {}, subscribe |-> {},
                  publishDeny |-> {}]}
           S == {ShareUser(s) : s \in t.shares}
<1>1. Users(t) = D \cup Y \cup S
  BY DEF Users, ShareUser
<1>2. \A u \in D : u.account # <<"dmz">>
  <2> SUFFICES ASSUME NEW d PROVE <<"district", d>> # <<"dmz">>
    OBVIOUS
  <2> QED OBVIOUS
<1>3. \A u \in Y : u.account # <<"dmz">>
  OBVIOUS
<1>4. /\ \A s \in t.shares : ShareUser(s) \in S
      /\ \A u \in S : \E s \in t.shares : u = ShareUser(s)
  OBVIOUS
<1> HIDE DEF D, Y, S
<1> QED BY <1>1, <1>2, <1>3, <1>4

\* What the catalog and accounts.conf say.
LEMMA CatalogSays ==
  ASSUME NEW t, t.dmz # None
  PROVE  Says(RenderCatalog(t)[<<"dmz-catalog.json">>], "share") = {<<s.consumer, s.as, s.from>> : s \in t.shares}
<1> DEFINE M == {Text("share", <<s.consumer, s.as>>) : s \in t.shares}
           O == {<<s.consumer, s.as, s.from>> : s \in t.shares}
           J == {Text("share", <<s.consumer, s.as, s.from>>) : s \in t.shares}
           A == File(<<"dmz-catalog.md">>, M)
           B == File(<<"dmz-catalog.json">>, J)
<1>1. RenderCatalog(t) = A ++ B
  BY DEF RenderCatalog
<1>2. J = {Text("share", o) : o \in O}
  OBVIOUS
<1> HIDE DEF M, J, O
<1>3. DOMAIN A = {<<"dmz-catalog.md">>} /\ DOMAIN B = {<<"dmz-catalog.json">>} /\ B[<<"dmz-catalog.json">>] = J
  BY FileMap
<1> HIDE DEF A, B
<1>4. \A n \in DOMAIN B : n \notin DOMAIN A => (A ++ B)[n] = B[n]
  BY BothMaps
<1>5. RenderCatalog(t)[<<"dmz-catalog.json">>] = J
  BY <1>1, <1>3, <1>4
<1>6. Says(J, "share") = O
  BY <1>2, TextSays
<1> QED BY <1>5, <1>6 DEF O

LEMMA AccountsSay ==
  ASSUME NEW t
  PROVE  Says(RenderAccounts(t)[<<"accounts.conf">>], "user") = Users(t)
<1> DEFINE row(a) == {Text("export", <<a, e>>) : e \in Exports(t)[a]}
           E == UNION {row(a) : a \in DOMAIN Exports(t)}
           I == {Text("import", <<<<"central">>, i>>) : i \in Imports(t).central}
           J == {Text("import", <<<<"dmz">>, i>>) : i \in Imports(t).dmz}
           W == {Text("user", u) : u \in Users(t)}
           all == E \cup I \cup J \cup W
<1>1. RenderAccounts(t) = File(<<"accounts.conf">>, all)
  BY DEF RenderAccounts
<1>2. \A v : Text("export", v)[1] = "export" /\ Text("import", v)[1] = "import"
             /\ Text("user", v)[1] = "user" /\ Text("user", v)[3] = v
  BY DEF Text
<1>3. \A x \in E : x[1] = "export"
  <2>1. \A a : \A x \in row(a) : x[1] = "export"
    BY <1>2
  <2> HIDE DEF row
  <2> QED BY <2>1
<1>4. \A x \in I \cup J : x[1] = "import"
  BY <1>2
<1>5. \A x \in W : x[1] = "user"
  BY <1>2
<1>6. Says(W, "user") = Users(t)
  BY TextSays
<1> HIDE DEF E, I, J, W
<1>7. {x \in all : x[1] = "user"} = {x \in W : x[1] = "user"}
  BY <1>3, <1>4, <1>5
<1>8. Says(all, "user") = Says(W, "user")
  BY <1>7 DEF Says
<1> HIDE DEF all
<1>9. RenderAccounts(t)[<<"accounts.conf">>] = all
  BY <1>1, FileMap
<1> QED BY <1>6, <1>8, <1>9

\* A strict prefix agrees with what it is a prefix of.
LEMMA PrefixTokens ==
  ASSUME NEW A, NEW B, NEW p \in Seq(A), NEW s \in Seq(B), IsStrictPrefix(p, s)
  PROVE  Len(p) <= Len(s) /\ \A i \in 1..Len(p) : s[i] = p[i]
<1>1. Len(p) <= Len(s) /\ SubSeq(p, 1, Len(p)) = SubSeq(s, 1, Len(p))
  BY DEF IsStrictPrefix, IsPrefix
<1> DEFINE n == Len(p)
<1>2. n \in Nat /\ Len(s) \in Nat
  OBVIOUS
<1>3. ASSUME NEW i \in 1..n PROVE SubSeq(p, 1, n)[i] = p[i]
  BY <1>2
<1>4. ASSUME NEW i \in 1..n PROVE SubSeq(s, 1, n)[i] = s[i]
  BY <1>1, <1>2
<1> QED BY <1>1, <1>3, <1>4

\* The first tokens of what a share is published under.
LEMMA ShareTokens ==
  ASSUME NEW s \in Shares, Scoped(s)
  PROVE  \/ /\ Len(s.as) >= 3
            /\ s.as[1] = Dot /\ s.as[2] = <<"share">> /\ s.as[3] = s.consumer
         \/ /\ Len(s.as) >= 2
            /\ s.as[1] = <<"peer">> /\ s.as[2] = Dot
<1> DEFINE w == s.as
           c == s.consumer
<1>1. w \in Seq(Tokens)
  BY SharesAssumption DEF Subjects
<1> HIDE DEF w, c
<1>2. CASE IsStrictPrefix(ShareSpace \o <<c>>, w)
  <2> DEFINE T == {Dot, <<"share">>, c}
             l == <<Dot, <<"share">>>>
             r == <<c>>
             p == l \o r
  <2>1. l \in Seq(T) /\ r \in Seq(T) /\ Len(l) = 2 /\ Len(r) = 1
        /\ l[1] = Dot /\ l[2] = <<"share">> /\ r[1] = c
    OBVIOUS
  <2>2. p = ShareSpace \o <<c>>
    BY DEF ShareSpace
  <2> HIDE DEF l, r, T
  <2>3. /\ p \in Seq(T) /\ Len(p) = Len(l) + Len(r)
        /\ \A i \in 1..(Len(l) + Len(r)) : p[i] = IF i <= Len(l) THEN l[i] ELSE r[i - Len(l)]
    BY <2>1, ConcatProperties, Zenon
  <2> HIDE DEF p
  <2>4. Len(p) = 3 /\ p[1] = Dot /\ p[2] = <<"share">> /\ p[3] = c
    BY <2>1, <2>3
  <2>5. IsStrictPrefix(p, w)
    BY <1>2, <2>2
  <2>6. Len(p) <= Len(w) /\ \A i \in 1..Len(p) : w[i] = p[i]
    BY <1>1, <2>3, <2>5, PrefixTokens
  <2>7. 3 <= Len(w) /\ w[1] = p[1] /\ w[2] = p[2] /\ w[3] = p[3]
    BY <2>4, <2>6
  <2>8. Len(w) \in Nat
    BY <1>1
  <2> QED BY <2>4, <2>7, <2>8 DEF w, c
<1>3. CASE IsStrictPrefix(PeerSpace, w)
  <2> DEFINE T == {Dot, <<"peer">>}
             p == <<<<"peer">>, Dot>>
  <2>1. p \in Seq(T) /\ Len(p) = 2 /\ p[1] = <<"peer">> /\ p[2] = Dot
    OBVIOUS
  <2>2. p = PeerSpace
    BY DEF PeerSpace
  <2> HIDE DEF T, p
  <2>3. Len(p) <= Len(w) /\ \A i \in 1..Len(p) : w[i] = p[i]
    BY <1>1, <1>3, <2>1, <2>2, PrefixTokens
  <2>4. 2 <= Len(w) /\ w[1] = p[1] /\ w[2] = p[2]
    BY <2>1, <2>3
  <2>5. Len(w) \in Nat
    BY <1>1
  <2> QED BY <2>1, <2>4, <2>5 DEF w
<1> QED BY <1>2, <1>3 DEF Scoped, w, c

\* What is published in one consumer's subtree no subscription of another consumer matches.
LEMMA ShareSubtreesApart ==
  ASSUME NEW s \in Shares, Scoped(s), NEW o \in Shares, Scoped(o),
         IsStrictPrefix(ShareSpace, o.as), s.consumer # o.consumer, NEW u,
         Matches(s.as, u), Matches(o.as, u)
  PROVE  FALSE
<1> DEFINE share == <<"share">>
           peer == <<"peer">>
           wild == {Rest, AnyToken}
<1>1. share # peer /\ share \notin wild /\ peer \notin wild
  BY DEF Rest, AnyToken
<1>2. Dot \notin wild /\ s.consumer \notin wild /\ o.consumer \notin wild
  BY DotAssumption, SharesAssumption
<1>3. /\ \A i \in 1..Len(s.as) : s.as[i] \in {u[i]} \cup wild
      /\ \A i \in 1..Len(o.as) : o.as[i] \in {u[i]} \cup wild
  BY DEF Matches
<1>4. Len(s.as) \in Nat /\ Len(o.as) \in Nat
  BY SharesAssumption DEF Subjects
<1>5. /\ \/ Len(s.as) >= 3 /\ s.as[1] = Dot /\ s.as[2] = share /\ s.as[3] = s.consumer
         \/ Len(s.as) >= 2 /\ s.as[1] = peer /\ s.as[2] = Dot
      /\ \/ Len(o.as) >= 3 /\ o.as[1] = Dot /\ o.as[2] = share /\ o.as[3] = o.consumer
         \/ Len(o.as) >= 2 /\ o.as[1] = peer /\ o.as[2] = Dot
  BY ShareTokens
<1>6. o.as[1] = Dot /\ o.as[2] = share
  <2> DEFINE T == {Dot, share}
             p == <<Dot, share>>
             w == o.as
  <2>1. p \in Seq(T) /\ Len(p) = 2 /\ p[1] = Dot /\ p[2] = share
    OBVIOUS
  <2>2. p = ShareSpace /\ IsStrictPrefix(ShareSpace, w) /\ w \in Seq(Tokens)
    BY SharesAssumption DEF ShareSpace, Subjects
  <2> HIDE DEF T, p, w
  <2>3. Len(p) <= Len(w) /\ \A i \in 1..Len(p) : w[i] = p[i]
    BY <2>1, <2>2, PrefixTokens
  <2>4. w[1] = p[1] /\ w[2] = p[2]
    BY <2>1, <2>3
  <2> QED BY <2>1, <2>4 DEF w
<1> HIDE DEF share, peer, wild
<1>7. Len(o.as) >= 3 /\ o.as[3] = o.consumer
  BY <1>1, <1>5, <1>6
<1>8. u[1] = Dot /\ u[2] = share /\ u[3] = o.consumer
  <2>1. 1 \in 1..Len(o.as) /\ 2 \in 1..Len(o.as) /\ 3 \in 1..Len(o.as)
    BY <1>4, <1>7
  <2> QED BY <1>1, <1>2, <1>3, <1>6, <1>7, <2>1
<1>9. CASE Len(s.as) >= 3 /\ s.as[1] = Dot /\ s.as[2] = share /\ s.as[3] = s.consumer
  <2>1. 3 \in 1..Len(s.as)
    BY <1>4, <1>9
  <2> QED BY <1>2, <1>3, <1>8, <1>9, <2>1
<1>10. CASE Len(s.as) >= 2 /\ s.as[1] = peer /\ s.as[2] = Dot
  <2>1. 1 \in 1..Len(s.as) /\ 2 \in 1..Len(s.as)
    BY <1>4, <1>10
  <2> QED BY <1>1, <1>2, <1>3, <1>8, <1>10, <2>1
<1> QED BY <1>5, <1>9, <1>10

\* The DMZ stream has, for a share whose district has a partition, a source for it.
LEMMA EgressHas ==
  ASSUME NEW t, NEW of, NEW s \in t.shares, NEW k \in Parts(t), k[1] = of[s]
  PROVE  ShareSource(t, s, k) \in EgressOf(t, of).sources
<1> DEFINE S(h) == {ShareSource(t, h, j) : j \in {i \in Parts(t) : i[1] = of[h]}}
<1>1. EgressOf(t, of).sources = UNION {S(h) : h \in t.shares}
  BY DEF EgressOf
<1>2. ShareSource(t, s, k) \in S(s)
  OBVIOUS
<1> HIDE DEF S
<1> QED BY <1>1, <1>2

\* The share catalog is kept: what it offers can be subscribed to and is published, nothing
\* else is, and no consumer reads another one's subtree or publishes anything.
THEOREM CatalogIsKept == GenSpec => []ShareContract
<1>1. RunResult /\ GenTypeOK => ShareContract
  <2> SUFFICES ASSUME RunResult, GenTypeOK, ran = "ok", spec.dmz # None PROVE ShareContract
    BY DEF ShareContract
  <2> DEFINE offers == Says(Tree[<<"dmz-catalog.json">>], "share")
             users == AggregateDMZConsumers(Says(Tree[<<"accounts.conf">>], "user"))
             maps == UNION {s.sources : s \in {u \in plan.streams : u.tier = "dmz"}}
  <2>1. PICK of \in ShareChoices(spec) : plan = PlanOf(spec, inv, of)
    BY DEF RunResult, MadePlan
  <2>2. /\ \A o \in offers : \E s \in spec.shares : o = <<s.consumer, s.as, s.from>>
        /\ \A s \in spec.shares : <<s.consumer, s.as, s.from>> \in offers
    <3>1. Tree[<<"dmz-catalog.json">>] = RenderCatalog(spec)[<<"dmz-catalog.json">>]
      <4> DEFINE tree == Tree
      <4>1. tree = Merged(Rendered(plan, spec, cfg, rebalance))
        BY DEF Tree
      <4> HIDE DEF tree
      <4>2. tree[<<"dmz-catalog.json">>] = RenderCatalog(spec)[<<"dmz-catalog.json">>]
        BY <4>1, TreeFiles
      <4> QED BY <4>2 DEF tree
    <3>2. offers = {<<s.consumer, s.as, s.from>> : s \in spec.shares}
      BY <3>1, CatalogSays
    <3> QED BY <3>2
  <2>3. users = AggregateDMZConsumers(Users(spec))
    <3> DEFINE tree == Tree
    <3>1. tree = Merged(Rendered(plan, spec, cfg, rebalance))
      BY DEF Tree
    <3> HIDE DEF tree
    <3>2. tree[<<"accounts.conf">>] = RenderAccounts(spec)[<<"accounts.conf">>]
      BY <3>1, TreeFiles
    <3>3. Says(tree[<<"accounts.conf">>], "user") = Users(spec)
      BY <3>2, AccountsSay
    <3> QED BY <3>3 DEF tree
  <2> HIDE DEF offers, users
  <2>4. \A s \in spec.shares : /\ s.consumer \in DOMAIN users
                               /\ s.as \in users[s.consumer].subAllow
    <3> SUFFICES ASSUME NEW s \in spec.shares
                 PROVE  s.consumer \in DOMAIN users /\ s.as \in users[s.consumer].subAllow
      OBVIOUS
    <3>1. ShareUser(s) \in Users(spec)
      BY DMZUsers
    <3>2. /\ ShareUser(s).account = <<"dmz">> /\ ShareUser(s).label = s.consumer
          /\ ShareUser(s).subscribe = {s.as}
      BY DEF ShareUser
    <3> QED BY <2>3, <3>1, <3>2, Aggregated
  <2>5. ASSUME NEW a \in DOMAIN users PROVE <<Rest>> \in users[a].pubDeny
    <3>1. PICK u \in Users(spec) : u.account = <<"dmz">> /\ u.label = a
      BY <2>3, Aggregated
    <3>2. PICK s \in spec.shares : u = ShareUser(s)
      BY <3>1, DMZUsers
    <3>3. <<Rest>> \in u.publishDeny
      BY <3>2 DEF ShareUser
    <3> QED BY <2>3, <3>1, <3>3, Aggregated
  <2>6. ASSUME NEW a \in DOMAIN users, NEW x \in users[a].subAllow
        PROVE  \E s \in spec.shares : s.consumer = a /\ s.as = x
    <3>1. PICK u \in Users(spec) : u.account = <<"dmz">> /\ u.label = a /\ x \in u.subscribe
      BY <2>3, AggregatedSubject
    <3>2. PICK s \in spec.shares : u = ShareUser(s)
      BY <3>1, DMZUsers
    <3>3. ShareUser(s).label = s.consumer /\ ShareUser(s).subscribe = {s.as}
      BY DEF ShareUser
    <3> QED BY <3>1, <3>2, <3>3
  <2>7. maps = EgressOf(spec, of).sources
    <3>1. {u \in plan.streams : u.tier = "dmz"} = {EgressOf(spec, of)}
      <4>1. EgressOf(spec, of).tier = "dmz"
        BY DEF EgressOf
      <4>2. EgressOf(spec, of) \in plan.streams
        BY <2>1, StreamsByTier
      <4>3. \A u \in plan.streams : u.tier = "dmz" => u = EgressOf(spec, of)
        BY <2>1, StreamsByTier
      <4> QED BY <4>1, <4>2, <4>3
    <3> QED BY <3>1
  <2> HIDE DEF maps
  <2>8. \A src \in maps : <<src.from, src.as>> \in {<<o[3], o[2]>> : o \in offers}
    <3> SUFFICES ASSUME NEW src \in maps PROVE \E o \in offers : <<src.from, src.as>> = <<o[3], o[2]>>
      OBVIOUS
    <3>1. PICK s \in spec.shares, k \in Parts(spec) : src = ShareSource(spec, s, k)
      BY <2>7, EgressSources
    <3>2. src.from = s.from /\ src.as = s.as
      BY <3>1 DEF ShareSource, Source
    <3> DEFINE o == <<s.consumer, s.as, s.from>>
    <3>3. o[3] = s.from /\ o[2] = s.as /\ o \in offers
      BY <2>2
    <3> QED BY <3>2, <3>3
  <2>9. ASSUME NEW o \in offers
        PROVE  \/ \E src \in maps : src.from = o[3] /\ src.as = o[2]
               \/ \E d \in DistrictsOf(spec, o[3]) : ~\E k \in Parts(spec) : k[1] = d
    <3>1. PICK s \in spec.shares : o = <<s.consumer, s.as, s.from>>
      BY <2>2
    <3>2. o[3] = s.from /\ o[2] = s.as
      BY <3>1
    <3>3. of[s] \in DistrictsOf(spec, s.from)
      BY <2>1 DEF ShareChoices
    <3>4. ASSUME NEW k \in Parts(spec), k[1] = of[s]
          PROVE  \E src \in maps : src.from = s.from /\ src.as = s.as
      <4>1. ShareSource(spec, s, k) \in maps
        BY <2>7, <3>4, EgressHas
      <4>2. ShareSource(spec, s, k).from = s.from /\ ShareSource(spec, s, k).as = s.as
        BY DEF ShareSource, Source
      <4> QED BY <4>1, <4>2
    <3> QED BY <3>2, <3>3, <3>4
  <2>10. ASSUME NEW a \in DOMAIN users, NEW o \in offers, a # o[1], IsStrictPrefix(ShareSpace, o[2]),
                NEW sub \in users[a].subAllow, NEW u \in Literals, Matches(sub, u), Matches(o[2], u)
         PROVE  FALSE
    <3>1. PICK s \in spec.shares : s.consumer = a /\ s.as = sub
      BY <2>6
    <3>2. PICK h \in spec.shares : o = <<h.consumer, h.as, h.from>>
      BY <2>2
    <3>3. o[1] = h.consumer /\ o[2] = h.as
      BY <3>2
    <3>4. s \in Shares /\ h \in Shares
      BY DEF GenTypeOK, SpecType
    <3>5. Scoped(s) /\ Scoped(h)
      BY DEF RunResult, Valid
    <3> QED BY <2>10, <3>1, <3>3, <3>4, <3>5, ShareSubtreesApart
  <2>11. \A o \in offers : o[2] \in users[o[1]].subAllow
    BY <2>2, <2>4
  <2>12. {<<src.from, src.as>> : src \in maps} \subseteq {<<o[3], o[2]>> : o \in offers}
    BY <2>8
  <2>13. \A a \in DOMAIN users, o \in offers : a # o[1] /\ IsStrictPrefix(ShareSpace, o[2]) =>
           \A sub \in users[a].subAllow, u \in Literals : ~(Matches(sub, u) /\ Matches(o[2], u))
    BY <2>10
  <2> QED BY <2>5, <2>9, <2>11, <2>12, <2>13 DEF ShareContract, offers, users, maps
<1> QED BY <1>1, RunResultInvariant, GenTypeCorrect, PTL

-----------------------------------------------------------------------------
\* Charts

\* What becomes of one item of a manifest: escaped, its sentinel replaced, templated.
EscapedItem(x) == IF x[2] \in {"braces", "action"} THEN <<x[1], "escaped", x[3]>> ELSE x
ReplacedItem(x) == IF x[2] = "sentinel" THEN <<x[1], "action", x[3]>> ELSE x
TemplatedItem(x, values) ==
  CASE x[2] = "action" -> Text(x[1], (CHOOSE v \in values : v[1] = x[3])[3])
    [] x[2] = "escaped" -> <<x[1], "braces", x[3]>>
    [] x[2] = "braces" -> Text(x[1], None)
    [] OTHER -> x
ThroughHelm(x, values) == TemplatedItem(ReplacedItem(EscapedItem(x)), values)

LEMMA FileThroughHelm ==
  ASSUME NEW file, NEW values, NEW y
  PROVE  y \in HelmTemplate(ReplaceSentinels(HelmEscapeBraces(file)), values)
           <=> \E x \in file : y = ThroughHelm(x, values)
<1> DEFINE A == HelmEscapeBraces(file)
           B == ReplaceSentinels(A)
<1>1. A = {EscapedItem(x) : x \in file}
  BY DEF HelmEscapeBraces, EscapedItem
<1>2. B = {ReplacedItem(x) : x \in A}
  BY DEF ReplaceSentinels, ReplacedItem
<1> HIDE DEF A, B
<1>3. HelmTemplate(B, values) = {TemplatedItem(x, values) : x \in B}
  BY DEF HelmTemplate, TemplatedItem
<1>4. y \in HelmTemplate(B, values) <=> \E x \in file : y = ThroughHelm(x, values)
  BY <1>1, <1>2, <1>3 DEF ThroughHelm
<1> QED BY <1>4 DEF A, B

\* The values of a chart: one per knob.
Values(c) == {Text(k, c.knobs[k][2]) : k \in DOMAIN c.knobs}

Braces(a, v) == <<a, "braces", v>>
Sentinel(a, k) == <<a, "sentinel", k>>

\* Text and Prometheus' braces come out as they went in; a sentinel as its knob's value.
LEMMA ItemThroughHelm ==
  ASSUME NEW c, DOMAIN c.knobs = Knobs, NEW a, NEW v
  PROVE  /\ ThroughHelm(Text(a, v), Values(c)) = Text(a, v)
         /\ ThroughHelm(Braces(a, v), Values(c)) = Braces(a, v)
         /\ v \in Knobs => ThroughHelm(Sentinel(a, v), Values(c)) = Text(a, c.knobs[v][2])
<1> DEFINE W == Values(c)
<1>0. \A k \in Knobs : (CHOOSE w \in W : w[1] = k)[3] = c.knobs[k][2]
  <2>1. W = {<<k, "text", c.knobs[k][2]>> : k \in Knobs}
    BY DEF Values, Text
  <2> SUFFICES ASSUME NEW k \in Knobs PROVE (CHOOSE w \in W : w[1] = k)[3] = c.knobs[k][2]
    OBVIOUS
  <2> HIDE DEF W
  <2> DEFINE it == <<k, "text", c.knobs[k][2]>>
  <2>2. it \in W /\ it[1] = k /\ it[3] = c.knobs[k][2]
    BY <2>1
  <2>3. \A w \in W : w[1] = k => w = it
    BY <2>1
  <2> HIDE DEF it
  <2>4. (CHOOSE w \in W : w[1] = k) = it
    BY <2>2, <2>3
  <2> QED BY <2>2, <2>4
<1> HIDE DEF W
<1>1. ThroughHelm(<<a, "text", v>>, W) = <<a, "text", v>>
  BY DEF ThroughHelm, EscapedItem, ReplacedItem, TemplatedItem
<1>2. ThroughHelm(<<a, "braces", v>>, W) = <<a, "braces", v>>
  BY DEF ThroughHelm, EscapedItem, ReplacedItem, TemplatedItem
<1>3. ASSUME v \in Knobs PROVE ThroughHelm(<<a, "sentinel", v>>, W) = <<a, "text", c.knobs[v][2]>>
  <2>1. EscapedItem(<<a, "sentinel", v>>) = <<a, "sentinel", v>>
    BY DEF EscapedItem
  <2>2. ReplacedItem(<<a, "sentinel", v>>) = <<a, "action", v>>
    BY DEF ReplacedItem
  <2>3. TemplatedItem(<<a, "action", v>>, W) = Text(a, (CHOOSE w \in W : w[1] = v)[3])
    BY DEF TemplatedItem
  <2> QED BY <1>0, <1>3, <2>1, <2>2, <2>3 DEF ThroughHelm, Text
<1> QED BY <1>1, <1>2, <1>3 DEF W, Text, Braces, Sentinel

\* The slice that renderHelmChart hands to the Kubernetes renderer.
ChartSlice(c) == [c EXCEPT !.knobs = [k \in DOMAIN @ |-> <<"sentinel", k>>]]

LEMMA ChartSliceFields ==
  ASSUME NEW p, NEW t, NEW i, NEW c, NEW e, c = BuildClusterSlice(p, t, i), e = ChartSlice(c)
  PROVE  /\ e.id = c.id /\ e.endpoint = c.endpoint /\ e.streams = c.streams /\ e.isCentral = c.isCentral
         /\ DOMAIN e.knobs = Knobs /\ \A k \in Knobs : e.knobs[k] = <<"sentinel", k>>
         /\ Knobbed(e) /\ Knobbed(c) /\ DOMAIN c.knobs = Knobs
         /\ \A k \in Knobs : c.knobs[k][1] = "text"
         /\ c.knobs["namespace"] = <<"text", t.substrate[i].namespace>>
<1>1. /\ e.id = c.id /\ e.endpoint = c.endpoint /\ e.streams = c.streams /\ e.isCentral = c.isCentral
      /\ e.knobs = [k \in DOMAIN c.knobs |-> <<"sentinel", k>>]
  BY DEF ChartSlice, BuildClusterSlice
<1>2. Knobbed(c) /\ DOMAIN c.knobs = Knobs
  BY SliceIsKnobbed
<1>3. DOMAIN e.knobs = Knobs /\ \A k \in Knobs : e.knobs[k] = <<"sentinel", k>>
  BY <1>1, <1>2
<1>4. Knobbed(e)
  <2>1. \A k : <<"sentinel", k>>[1] = "sentinel" /\ <<"sentinel", k>>[2] = k
    OBVIOUS
  <2> QED BY <1>3, <2>1 DEF Knobbed
<1>5. /\ \A k \in Knobs : c.knobs[k][1] = "text"
      /\ c.knobs["namespace"] = <<"text", t.substrate[i].namespace>>
  BY DEF BuildClusterSlice, Knobs
<1> QED BY <1>1, <1>2, <1>3, <1>4, <1>5

\* An item filled in from a knob.
KnobItem(c, a, k) == <<a>> \o c.knobs[k]

\* file is what Helm makes of chart's template of it.
ComesOut(template, file, values) ==
  \A y : y \in file <=> \E x \in template : y = ThroughHelm(x, values)

LEMMA ComesOutUnion ==
  ASSUME NEW A, NEW B, NEW C, NEW D, NEW values, ComesOut(A, C, values), ComesOut(B, D, values)
  PROVE  ComesOut(A \cup B, C \cup D, values)
BY DEF ComesOut

LEMMA ManifestsComeOut ==
  ASSUME NEW p, NEW t, NEW i, NEW c, NEW e, c = BuildClusterSlice(p, t, i), e = ChartSlice(c),
         t.substrate[i].namespace # None
  PROVE  \A f \in DOMAIN K8sRenderCluster(c) \ {<<"kustomization.yaml">>} :
           ComesOut(K8sRenderCluster(e)[f], K8sRenderCluster(c)[f], Values(c))
<1> DEFINE W == Values(c)
           H(x) == ThroughHelm(x, W)
<1>1. /\ e.id = c.id /\ e.endpoint = c.endpoint /\ e.streams = c.streams /\ e.isCentral = c.isCentral
      /\ DOMAIN e.knobs = Knobs /\ \A k \in Knobs : e.knobs[k] = <<"sentinel", k>>
      /\ Knobbed(e) /\ Knobbed(c) /\ DOMAIN c.knobs = Knobs
      /\ \A k \in Knobs : c.knobs[k][1] = "text"
      /\ c.knobs["namespace"] = <<"text", t.substrate[i].namespace>>
  BY ChartSliceFields
<1>2. \A a, v : H(Text(a, v)) = Text(a, v)
  BY <1>1, ItemThroughHelm
<1>3. \A a, v : H(Braces(a, v)) = Braces(a, v)
  BY <1>1, ItemThroughHelm
<1>4. ASSUME NEW a, NEW k \in Knobs PROVE H(KnobItem(e, a, k)) = KnobItem(c, a, k)
  <2>1. KnobItem(e, a, k) = Sentinel(a, k)
    <3>1. <<a>> \o e.knobs[k] = <<a, e.knobs[k][1], e.knobs[k][2]>>
      BY <1>1, KnobField
    <3>2. e.knobs[k][1] = "sentinel" /\ e.knobs[k][2] = k
      BY <1>1
    <3> QED BY <3>1, <3>2 DEF KnobItem, Sentinel
  <2>2. KnobItem(c, a, k) = Text(a, c.knobs[k][2])
    <3>1. <<a>> \o c.knobs[k] = <<a, c.knobs[k][1], c.knobs[k][2]>>
      BY <1>1, KnobField
    <3> QED BY <1>1, <3>1 DEF KnobItem, Text
  <2>3. H(Sentinel(a, k)) = Text(a, c.knobs[k][2])
    BY <1>1, ItemThroughHelm
  <2> QED BY <2>1, <2>2, <2>3
<1>5. "namespace" \in Knobs /\ "tlsIssuer" \in Knobs /\ "secretStore" \in Knobs /\ "prometheusRelease" \in Knobs
  BY DEF Knobs
<1> HIDE DEF H, W
<1> DEFINE out(A, B) == \A y : y \in B <=> \E x \in A : y = H(x)
<1>6. ComesOut(Monitoring(e), Monitoring(c), W)
  <2>1. \A s : Monitoring(s) = {Text("cluster", s.id), KnobItem(s, "namespace", "namespace"),
                                KnobItem(s, "release", "prometheusRelease")}
    BY DEF Monitoring, KnobItem
  <2>2. out(Monitoring(e), Monitoring(c))
    BY <1>1, <1>2, <1>4, <1>5, <2>1
  <2> QED BY <2>2 DEF ComesOut, H
<1>7. ComesOut(ExternalSecret(e), ExternalSecret(c), W)
  <2>1. \A s : ExternalSecret(s) = {Text("cluster", s.id), KnobItem(s, "store", "secretStore")}
    BY DEF ExternalSecret, KnobItem
  <2>2. out(ExternalSecret(e), ExternalSecret(c))
    BY <1>1, <1>2, <1>4, <1>5, <2>1
  <2> QED BY <2>2 DEF ComesOut, H
<1>8. ComesOut(Certificate(e), Certificate(c), W)
  <2>1. \A s : s.knobs["namespace"] # <<"text", None>> =>
               Certificate(s) = {Text("cluster", s.id), Text("dnsName", LeafHost(s.endpoint)),
                                 KnobItem(s, "issuer", "tlsIssuer"), KnobItem(s, "service", "namespace")}
    BY DEF Certificate, KnobItem
  <2>2. c.knobs["namespace"] # <<"text", None>> /\ e.knobs["namespace"] # <<"text", None>>
    BY <1>1, <1>5
  <2>3. out(Certificate(e), Certificate(c))
    BY <1>1, <1>2, <1>4, <1>5, <2>1, <2>2
  <2> QED BY <2>3 DEF ComesOut, H
<1>9. ComesOut(PrometheusRule(e), PrometheusRule(c), W)
  <2> DEFINE own(s) == {"NatsServerDown", "NatsSlowConsumers", "JetStreamStorageHigh", "JetStreamConsumerLagging",
                        "JetStreamAssetsHigh"} \cup IF s.isCentral THEN {} ELSE {"NatsLeafDown"}
             rows(s) == {KnobItem(s, a, "namespace") : a \in own(s)}
  <2>1. \A s : PrometheusRule(s) = Monitoring(s) \cup rows(s)
    BY DEF PrometheusRule, KnobItem
  <2>2. own(e) = own(c)
    BY <1>1
  <2> HIDE DEF own
  <2>3. out(rows(e), rows(c))
    BY <1>4, <1>5, <2>2
  <2>4. ComesOut(rows(e), rows(c), W)
    BY <2>3 DEF ComesOut, H
  <2> HIDE DEF rows
  <2> QED BY <1>6, <2>1, <2>4, ComesOutUnion
<1>10. ComesOut(CredhealthRule(e), CredhealthRule(c), W)
  <2> DEFINE stale == {Text("CredHealthStale", "last-scan")}
             rows == {Braces(a, "identity") : a \in CredAlerts}
             more == stale \cup rows
  <2>1. \A s : CredhealthRule(s) = Monitoring(s) \cup more
    BY DEF CredhealthRule, CredAlerts, Braces
  <2>2. out(more, more)
    BY <1>2, <1>3
  <2>3. ComesOut(more, more, W)
    BY <2>2 DEF ComesOut, H
  <2> HIDE DEF more
  <2> QED BY <1>6, <2>1, <2>3, ComesOutUnion
<1>11. ComesOut({Text("stream", StreamCR(s)) : s \in e.streams}, {Text("stream", StreamCR(s)) : s \in c.streams}, W)
  <2>1. out({Text("stream", StreamCR(s)) : s \in c.streams}, {Text("stream", StreamCR(s)) : s \in c.streams})
    BY <1>2
  <2> QED BY <1>1, <2>1 DEF ComesOut, H
<1>12. ASSUME NEW f \in DOMAIN K8sRenderCluster(c) \ {<<"kustomization.yaml">>}
       PROVE  ComesOut(K8sRenderCluster(e)[f], K8sRenderCluster(c)[f], W)
  <2>1. CASE f = <<"streams.yaml">>
    BY <1>11, <2>1, K8sFiles
  <2>2. CASE f = <<"certificate.yaml">>
    BY <1>8, <2>2, K8sFiles
  <2>3. CASE f = <<"externalsecret.yaml">>
    BY <1>7, <2>3, K8sFiles
  <2>4. CASE f = <<"servicemonitor.yaml">>
    BY <1>6, <2>4, K8sFiles
  <2>5. CASE f = <<"prometheusrule.yaml">>
    BY <1>9, <2>5, K8sFiles
  <2>6. CASE f = <<"credhealth-prometheusrule.yaml">>
    <3>1. c.isCentral
      <4> SUFFICES ASSUME ~c.isCentral PROVE FALSE
        OBVIOUS
      <4>1. f \in {<<"streams.yaml">>, <<"certificate.yaml">>, <<"externalsecret.yaml">>,
                   <<"kustomization.yaml">>, <<"servicemonitor.yaml">>, <<"prometheusrule.yaml">>}
        BY K8sFiles
      <4> QED BY <2>6, <4>1
    <3> QED BY <1>1, <1>10, <2>6, <3>1, K8sFiles
  <2>7. f \in {<<"streams.yaml">>, <<"certificate.yaml">>, <<"externalsecret.yaml">>,
               <<"servicemonitor.yaml">>, <<"prometheusrule.yaml">>, <<"credhealth-prometheusrule.yaml">>}
    BY K8sFiles
  <2> QED BY <2>1, <2>2, <2>3, <2>4, <2>5, <2>6, <2>7
<1> QED BY <1>12 DEF W

\* Where a chart keeps a template.
LEMMA TemplatePath ==
  ASSUME NEW f
  PROVE  <<"templates/">> \o <<f>> = <<"templates/", f>> /\ Tail(<<"templates/", f>>) = <<f>>
<1> DEFINE S == {"templates/", f}
           l == <<"templates/">>
           r == <<f>>
           w == <<"templates/", f>>
<1>1. l \in Seq(S) /\ r \in Seq(S) /\ w \in Seq(S)
  OBVIOUS
<1>2. Len(l) = 1 /\ Len(r) = 1 /\ Len(w) = 2 /\ l[1] = "templates/" /\ r[1] = f
      /\ w[1] = "templates/" /\ w[2] = f
  OBVIOUS
<1>0. \A i \in 1..2 : i = 1 \/ i = 2
  OBVIOUS
<1> HIDE DEF l, r, w, S
<1>3. /\ l \o r \in Seq(S) /\ Len(l \o r) = Len(l) + Len(r)
      /\ \A i \in 1..(Len(l) + Len(r)) : (l \o r)[i] = IF i <= Len(l) THEN l[i] ELSE r[i - Len(l)]
  BY <1>1, ConcatProperties, Zenon
<1>4. Len(l \o r) = 2 /\ (l \o r)[1] = "templates/" /\ (l \o r)[2] = f
  BY <1>2, <1>3
<1>5. l \o r = w
  <2>1. \A i \in 1..2 : (l \o r)[i] = w[i]
    BY <1>0, <1>2, <1>4
  <2> QED BY <1>1, <1>2, <1>3, <1>4, <2>1, SeqEqual
<1>6. Tail(w) = r
  <2>1. Tail(w) \in Seq(S) /\ Len(Tail(w)) = 1 /\ Tail(w)[1] = w[2]
    BY <1>1, <1>2
  <2>2. \A i \in 1..1 : i = 1
    OBVIOUS
  <2>3. \A i \in 1..1 : Tail(w)[i] = r[i]
    BY <1>2, <2>1, <2>2
  <2> QED BY <1>1, <1>2, <2>1, <2>3, SeqEqual
<1> QED BY <1>5, <1>6 DEF l, r, w

TemplateOf(n) == <<"templates/">> \o n

\* The files of a chart.
IsChartFile(c, K, m, file) ==
  \/ \E n \in DOMAIN K \ {<<"kustomization.yaml">>} :
       m = TemplateOf(n) /\ file = ReplaceSentinels(HelmEscapeBraces(K[n]))
  \/ m = <<"Chart.yaml">> /\ file = {Text("name", c.id)}
  \/ m = <<"values.yaml">> /\ file = Values(c)

LEMMA ChartFiles ==
  ASSUME NEW c, NEW e, e = ChartSlice(c), NEW K, K = K8sRenderCluster(e),
         NEW chart, chart = RenderHelmChart(c)
  PROVE  /\ \A m \in DOMAIN chart : IsChartFile(c, K, m, chart[m])
         /\ \A n \in DOMAIN K \ {<<"kustomization.yaml">>} :
              /\ TemplateOf(n) \in DOMAIN chart
              /\ chart[TemplateOf(n)] = ReplaceSentinels(HelmEscapeBraces(K[n]))
         /\ <<"Chart.yaml">> \in DOMAIN chart
         /\ <<"values.yaml">> \in DOMAIN chart /\ chart[<<"values.yaml">>] = Values(c)
<1> DEFINE T == HelmTemplates(c)
           dom == {<<"templates/">> \o n : n \in DOMAIN T}
           A == [g \in dom |-> T[Tail(g)]]
           N == {Text("name", c.id)}
           B == File(<<"Chart.yaml">>, N)
           C == File(<<"values.yaml">>, Values(c))
           out(n) == ReplaceSentinels(HelmEscapeBraces(K[n]))
           kept == DOMAIN K \ {<<"kustomization.yaml">>}
<1>1. chart = (A ++ B) ++ C
  BY DEF RenderHelmChart, Values
<1>2. T = [n \in kept |-> out(n)]
  BY DEF HelmTemplates, ChartSlice
<1> HIDE DEF N
<1>3. DOMAIN B = {<<"Chart.yaml">>} /\ B[<<"Chart.yaml">>] = N
  BY FileMap
<1>4. DOMAIN C = {<<"values.yaml">>} /\ C[<<"values.yaml">>] = Values(c)
  BY FileMap
<1>5. \A n \in kept : \E g : n = <<g>>
  <2>1. DOMAIN K \subseteq {<<"streams.yaml">>, <<"certificate.yaml">>, <<"externalsecret.yaml">>,
           <<"kustomization.yaml">>, <<"servicemonitor.yaml">>, <<"prometheusrule.yaml">>,
           <<"credhealth-prometheusrule.yaml">>}
    BY K8sFiles
  <2> QED BY <2>1
<1> HIDE DEF T, kept, out
<1>6. DOMAIN T = kept /\ \A n \in kept : T[n] = out(n)
  BY <1>2
<1>7. ASSUME NEW n \in kept
      PROVE  /\ Tail(TemplateOf(n)) = n
             /\ TemplateOf(n) # <<"values.yaml">> /\ TemplateOf(n) # <<"Chart.yaml">>
  <2>1. PICK h : n = <<h>>
    BY <1>5
  <2>2. TemplateOf(n) = <<"templates/", h>> /\ Tail(<<"templates/", h>>) = n
    BY <2>1, TemplatePath DEF TemplateOf
  <2>3. <<"templates/", h>> # <<"values.yaml">> /\ <<"templates/", h>> # <<"Chart.yaml">>
    OBVIOUS
  <2> QED BY <2>2, <2>3
<1>8. \A m : m \in dom <=> \E n \in kept : m = TemplateOf(n)
  BY <1>6 DEF TemplateOf
<1>9. <<"values.yaml">> \notin dom /\ <<"Chart.yaml">> \notin dom
  BY <1>7, <1>8
<1> HIDE DEF dom
<1>10. DOMAIN A = dom /\ \A m \in dom : A[m] = T[Tail(m)]
  OBVIOUS
<1> HIDE DEF A, B, C
<1>11. \A n \in kept : TemplateOf(n) \in DOMAIN A /\ A[TemplateOf(n)] = out(n)
  BY <1>6, <1>7, <1>8, <1>10
<1>12. /\ DOMAIN (A ++ B) = DOMAIN A \cup DOMAIN B
       /\ \A n \in DOMAIN A : (A ++ B)[n] = A[n]
       /\ \A n \in DOMAIN B : n \notin DOMAIN A => (A ++ B)[n] = B[n]
  BY BothMaps
<1> DEFINE D == A ++ B
<1> HIDE DEF D
<1>13. /\ DOMAIN (D ++ C) = DOMAIN D \cup DOMAIN C
       /\ \A n \in DOMAIN D : (D ++ C)[n] = D[n]
       /\ \A n \in DOMAIN C : n \notin DOMAIN D => (D ++ C)[n] = C[n]
  BY BothMaps
<1>14. DOMAIN D = dom \cup {<<"Chart.yaml">>} /\ <<"values.yaml">> \notin DOMAIN D
  BY <1>3, <1>9, <1>10, <1>12 DEF D
<1>15. chart = D ++ C
  BY <1>1 DEF D
<1>16. \A n \in kept : TemplateOf(n) \in DOMAIN chart /\ chart[TemplateOf(n)] = out(n)
  BY <1>11, <1>12, <1>13, <1>15 DEF D
<1>17. <<"Chart.yaml">> \in DOMAIN chart /\ chart[<<"Chart.yaml">>] = N
  BY <1>3, <1>9, <1>10, <1>12, <1>13, <1>15 DEF D
<1>18. <<"values.yaml">> \in DOMAIN chart /\ chart[<<"values.yaml">>] = Values(c)
  BY <1>4, <1>13, <1>14, <1>15
<1>19. \A m \in DOMAIN chart : m \in dom \/ m = <<"Chart.yaml">> \/ m = <<"values.yaml">>
  BY <1>4, <1>13, <1>14, <1>15
<1>20. \A m \in DOMAIN chart :
         \/ \E n \in kept : m = TemplateOf(n) /\ chart[m] = out(n)
         \/ m = <<"Chart.yaml">> /\ chart[m] = N
         \/ m = <<"values.yaml">> /\ chart[m] = Values(c)
  BY <1>8, <1>16, <1>17, <1>18, <1>19
<1>21. \A m \in DOMAIN chart : IsChartFile(c, K, m, chart[m])
  BY <1>20 DEF N, kept, out, IsChartFile
<1> QED BY <1>16, <1>17, <1>18, <1>21 DEF kept, out

\* helm.go: a chart templated with its default values is the manifests of kustomize mode,
\* for every Kubernetes cluster with a declared namespace, Prometheus' braces included.
THEOREM ChartsMatchManifests == GenSpec => []HelmMatchesKustomize
<1>1. HelmMatchesKustomize
  <2> SUFFICES ASSUME NEW i \in ByCluster(plan), spec.substrate[i].namespace # None,
                      NEW f \in DOMAIN K8sRenderCluster(BuildClusterSlice(plan, spec, i))
                                  \ {<<"kustomization.yaml">>}
               PROVE  LET slice == BuildClusterSlice(plan, spec, i)
                          chart == RenderHelmChart(slice)
                      IN HelmTemplate(chart[<<"templates/">> \o f], chart[<<"values.yaml">>])
                           = K8sRenderCluster(slice)[f]
    BY DEF HelmMatchesKustomize
  <2> DEFINE c == BuildClusterSlice(plan, spec, i)
             e == ChartSlice(c)
             chart == RenderHelmChart(c)
  <2>1. c = BuildClusterSlice(plan, spec, i) /\ e = ChartSlice(c)
    OBVIOUS
  <2> HIDE DEF c, e
  <2>2. DOMAIN K8sRenderCluster(e) = DOMAIN K8sRenderCluster(c)
    <3>1. e.isCentral = c.isCentral
      BY <2>1, ChartSliceFields
    <3> QED BY <3>1, K8sFiles
  <2>3. f \in DOMAIN K8sRenderCluster(c) \ {<<"kustomization.yaml">>}
    BY <2>1
  <2>4. f \in DOMAIN K8sRenderCluster(e) \ {<<"kustomization.yaml">>}
    BY <2>2, <2>3
  <2>6. /\ chart[TemplateOf(f)] = ReplaceSentinels(HelmEscapeBraces(K8sRenderCluster(e)[f]))
        /\ chart[<<"values.yaml">>] = Values(c)
    BY <2>1, <2>4, ChartFiles
  <2>7. ComesOut(K8sRenderCluster(e)[f], K8sRenderCluster(c)[f], Values(c))
    BY <2>1, <2>3, ManifestsComeOut
  <2> DEFINE L == HelmTemplate(ReplaceSentinels(HelmEscapeBraces(K8sRenderCluster(e)[f])), Values(c))
             R == K8sRenderCluster(c)[f]
  <2>8. \A y : y \in L <=> \E x \in K8sRenderCluster(e)[f] : y = ThroughHelm(x, Values(c))
    BY FileThroughHelm
  <2>9. \A y : y \in R <=> \E x \in K8sRenderCluster(e)[f] : y = ThroughHelm(x, Values(c))
    BY <2>7 DEF ComesOut
  <2> HIDE DEF L, R
  <2>10. L = R
    BY <2>8, <2>9
  <2>11. HelmTemplate(chart[<<"templates/">> \o f], chart[<<"values.yaml">>]) = L
    BY <2>6 DEF L, TemplateOf
  <2> QED BY <2>1, <2>10, <2>11 DEF R, chart
<1> QED BY <1>1, PTL

-----------------------------------------------------------------------------
\* The streams of a slice, in every packaging

\* The names in a slice are strings.
SpelledOut(c) ==
  /\ \A s \in c.streams : s.name \in Seq(Words)
  /\ \A i \in DOMAIN c.hosts : SanitizeHostFilename(c.hosts[i]) \in Seq(STRING)

LEMMA FirstWord ==
  ASSUME NEW S, NEW a \in S, NEW w \in Seq(S)
  PROVE  (<<a>> \o w)[1] = a
<1> DEFINE l == <<a>>
<1>1. l \in Seq(S) /\ Len(l) = 1 /\ l[1] = a
  OBVIOUS
<1> HIDE DEF l
<1>2. \A i \in 1..(Len(l) + Len(w)) : (l \o w)[i] = IF i <= Len(l) THEN l[i] ELSE w[i - Len(l)]
  BY <1>1, ConcatProperties, Zenon
<1>3. 1 \in 1..(Len(l) + Len(w))
  BY <1>1
<1>4. (l \o w)[1] = l[1]
  BY <1>1, <1>2, <1>3
<1> QED BY <1>1, <1>4 DEF l

StreamFile(s) == <<"streams/">> \o s.name

\* Streams of known tiers, no two with one name: then none replaces another one's file.
NamedApart(ss) ==
  /\ \A s \in ss : s.tier \in {"regional", "central", "dmz"}
  /\ \A s, u \in ss : s.name = u.name => s = u

LEMMA AllKept ==
  ASSUME NEW ss, NamedApart(ss)
  PROVE  Kept(ss) = ss
<1> SUFFICES ASSUME NEW s \in ss PROVE IndexStreams(ss)[s.name] = s
  BY DEF Kept
<1> DEFINE last(x) == x.name = s.name /\ \A r \in ss : r.name = s.name => Wave(r.tier) <= Wave(x.tier)
<1>1. IndexStreams(ss)[s.name] = CHOOSE x \in ss : last(x)
  BY DEF IndexStreams
<1>2. Wave(s.tier) \in Nat
  BY DEF NamedApart, Wave
<1>3. last(s)
  BY <1>2 DEF NamedApart
<1>4. \A x \in ss : last(x) => x = s
  BY DEF NamedApart
<1> HIDE DEF last
<1> QED BY <1>1, <1>3, <1>4

LEMMA BareFiles ==
  ASSUME NEW c, SpelledOut(c), NEW bare, bare = BareMetalRenderCluster(c)
  PROVE  /\ \A i \in DOMAIN c.hosts : ConfFile(c, i) \in DOMAIN bare
         /\ <<"nats-server.service">> \in DOMAIN bare
         /\ \A s \in Kept(c.streams) : /\ StreamFile(s) \in DOMAIN bare
                                       /\ Text("stream", BareStream(s)) \in bare[StreamFile(s)]
         /\ <<"kustomization.yaml">> \notin DOMAIN bare
<1> DEFINE host(n) == CHOOSE i \in DOMAIN c.hosts : ConfFile(c, i) = n
                        /\ \A j \in DOMAIN c.hosts : ConfFile(c, j) = n => j <= i
           confs == {ConfFile(c, i) : i \in DOMAIN c.hosts}
           names == {StreamFile(s) : s \in c.streams}
           crs(n) == {Text("stream", BareStream(s)) : s \in {u \in Kept(c.streams) : StreamFile(u) = n}}
           A == [n \in confs |-> NatsConf(c, host(n))]
           B == File(<<"nats-server.service">>, {})
           C == [n \in names |-> crs(n)]
<1>1. bare = (A ++ B) ++ C
  BY DEF BareMetalRenderCluster, StreamFile
<1>2. \A i \in DOMAIN c.hosts : ConfFile(c, i) \in confs /\ ConfFile(c, i)[1] = "nats-"
  BY FirstWord DEF SpelledOut, ConfFile
<1>3. \A n \in confs : n[1] = "nats-"
  BY <1>2
<1>4. \A s \in c.streams : StreamFile(s) \in names /\ StreamFile(s)[1] = "streams/"
  BY FirstWord DEF SpelledOut, StreamFile, Words
<1>5. \A n \in names : n[1] = "streams/"
  BY <1>4
<1>6. \A s \in Kept(c.streams) : s \in c.streams /\ Text("stream", BareStream(s)) \in crs(StreamFile(s))
  BY DEF Kept
<1> HIDE DEF crs, host, names, confs
<1>7. DOMAIN A = confs /\ DOMAIN C = names /\ \A n \in names : C[n] = crs(n)
  OBVIOUS
<1>8. DOMAIN B = {<<"nats-server.service">>}
  BY FileMap
<1> HIDE DEF A, B, C
<1>9. DOMAIN (A ++ B) = DOMAIN A \cup DOMAIN B
  BY BothMaps
<1> DEFINE D == A ++ B
<1> HIDE DEF D
<1>10. /\ DOMAIN (D ++ C) = DOMAIN D \cup DOMAIN C
       /\ \A n \in DOMAIN C : n \notin DOMAIN D => (D ++ C)[n] = C[n]
  BY BothMaps
<1>11. DOMAIN D = confs \cup {<<"nats-server.service">>}
  BY <1>7, <1>8, <1>9 DEF D
<1>12. bare = D ++ C
  BY <1>1 DEF D
<1>13. \A n \in names : n \notin DOMAIN D
  <2>1. <<"nats-server.service">>[1] # "streams/"
    OBVIOUS
  <2> QED BY <1>3, <1>5, <1>11, <2>1
<1>14. \A n \in names : n \in DOMAIN bare /\ bare[n] = crs(n)
  BY <1>7, <1>10, <1>12, <1>13
<1>15. \A s \in Kept(c.streams) : /\ StreamFile(s) \in DOMAIN bare
                                  /\ Text("stream", BareStream(s)) \in bare[StreamFile(s)]
  BY <1>4, <1>6, <1>14
<1>16. <<"kustomization.yaml">> \notin DOMAIN bare
  <2>1. <<"kustomization.yaml">>[1] = "kustomization.yaml" /\ <<"kustomization.yaml">> # <<"nats-server.service">>
    OBVIOUS
  <2> QED BY <1>3, <1>5, <1>7, <1>10, <1>11, <1>12, <2>1
<1> QED BY <1>2, <1>10, <1>11, <1>12, <1>15, <1>16

LEMMA SaysItem ==
  ASSUME NEW file, NEW field, NEW x
  PROVE  x \in Says(file, field) <=> \E y \in file : y[1] = field /\ x = y[3]
BY DEF Says

\* A resource has the stream's name and sources.
Carries(x, s) == x.name = s.name /\ x.sources = {SourceData(src) : src \in s.sources}

LEMMA ResourceCarries ==
  ASSUME NEW s
  PROVE  /\ Carries(StreamCR(s), s) /\ Carries(BareStream(s), s)
         /\ \A v : Text("stream", v)[1] = "stream" /\ Text("stream", v)[2] = "text" /\ Text("stream", v)[3] = v
BY DEF Carries, StreamCR, BareStream, Text

LEMMA ManifestStreams ==
  ASSUME NEW c, Knobbed(c), NEW f \in DOMAIN K8sRenderCluster(c), NEW y \in K8sRenderCluster(c)[f],
         y[1] = "stream"
  PROVE  \E s \in c.streams : y = Text("stream", StreamCR(s))
<1>1. "stream" \notin K8sFields
  BY DEF K8sFields, Alerts, CredAlerts
<1> QED BY <1>1, K8sFileFields

\* A template says of streams what the manifest says.
LEMMA TemplateStreams ==
  ASSUME NEW file, NEW x,
         \A y \in file : y[1] = "stream" => y[2] = "text"
  PROVE  x \in Says(ReplaceSentinels(HelmEscapeBraces(file)), "stream") <=> x \in Says(file, "stream")
<1> DEFINE A == HelmEscapeBraces(file)
           B == ReplaceSentinels(A)
           through(y) == ReplacedItem(EscapedItem(y))
<1>1. A = {EscapedItem(y) : y \in file}
  BY DEF HelmEscapeBraces, EscapedItem
<1>2. B = {ReplacedItem(y) : y \in A}
  BY DEF ReplaceSentinels, ReplacedItem
<1> HIDE DEF A, B
<1>3. \A z : z \in B <=> \E y \in file : z = ReplacedItem(EscapedItem(y))
  BY <1>1, <1>2
<1>4. \A y : EscapedItem(y)[1] = y[1] /\ ReplacedItem(y)[1] = y[1]
  BY DEF EscapedItem, ReplacedItem
<1>5. \A y \in file : y[1] = "stream" => ReplacedItem(EscapedItem(y)) = y
  BY DEF EscapedItem, ReplacedItem
<1> HIDE DEF through
<1>6. (\E z \in B : z[1] = "stream" /\ x = z[3]) <=> (\E y \in file : y[1] = "stream" /\ x = y[3])
  BY <1>3, <1>4, <1>5
<1>7. x \in Says(B, "stream") <=> x \in Says(file, "stream")
  BY <1>6, SaysItem
<1> QED BY <1>7 DEF A, B

\* Whatever the packaging, a slice says exactly its cluster's streams.
LEMMA SliceSays ==
  ASSUME NEW p, NEW t, NEW i, NEW output, NEW c, c = BuildClusterSlice(p, t, i), SpelledOut(c),
         NamedApart(c.streams), NEW files, files = RenderSlice(p, t, i, output)
  PROVE  /\ \A f \in DOMAIN files : \A x \in Says(files[f], "stream") : \E s \in c.streams : Carries(x, s)
         /\ \A s \in c.streams : \E f \in DOMAIN files : \E x \in Says(files[f], "stream") : Carries(x, s)
<1>1. CASE Substrate(t, i) = "bare-metal"
  <2>1. files = BareMetalRenderCluster(c)
    BY <1>1 DEF RenderSlice
  <2>2. ASSUME NEW f \in DOMAIN files, NEW x \in Says(files[f], "stream")
        PROVE  \E s \in c.streams : Carries(x, s)
    <3>1. PICK y \in files[f] : y[1] = "stream" /\ x = y[3]
      BY <2>2, SaysItem
    <3>2. Text("remote", c.uplink)[1] = "remote"
      BY DEF Text
    <3>3. PICK s \in c.streams : y = Text("stream", BareStream(s))
      BY <2>1, <2>2, <3>1, <3>2, BareFileFields
    <3> QED BY <3>1, <3>3, ResourceCarries
  <2>3. ASSUME NEW s \in c.streams
        PROVE  \E f \in DOMAIN files : \E x \in Says(files[f], "stream") : Carries(x, s)
    <3>1. /\ StreamFile(s) \in DOMAIN files
          /\ Text("stream", BareStream(s)) \in files[StreamFile(s)]
      BY <2>1, BareFiles, AllKept
    <3>2. BareStream(s) \in Says(files[StreamFile(s)], "stream")
      BY <3>1, SaysItem, ResourceCarries
    <3> QED BY <3>1, <3>2, ResourceCarries
  <2> QED BY <2>2, <2>3
<1>2. CASE Substrate(t, i) # "bare-metal" /\ output # "helm"
  <2>1. files = K8sRenderCluster(c)
    BY <1>2 DEF RenderSlice
  <2>2. Knobbed(c)
    BY SliceIsKnobbed
  <2>3. ASSUME NEW f \in DOMAIN files, NEW x \in Says(files[f], "stream")
        PROVE  \E s \in c.streams : Carries(x, s)
    <3>1. PICK y \in files[f] : y[1] = "stream" /\ x = y[3]
      BY <2>3, SaysItem
    <3>2. PICK s \in c.streams : y = Text("stream", StreamCR(s))
      BY <2>1, <2>2, <3>1, ManifestStreams
    <3> QED BY <3>1, <3>2, ResourceCarries
  <2>4. ASSUME NEW s \in c.streams
        PROVE  \E f \in DOMAIN files : \E x \in Says(files[f], "stream") : Carries(x, s)
    <3> DEFINE f == <<"streams.yaml">>
    <3>1. f \in DOMAIN files /\ Text("stream", StreamCR(s)) \in files[f]
      BY <2>1, K8sFiles
    <3> HIDE DEF f
    <3>2. StreamCR(s) \in Says(files[f], "stream")
      BY <3>1, SaysItem, ResourceCarries
    <3> QED BY <3>1, <3>2, ResourceCarries
  <2> QED BY <2>3, <2>4
<1>3. CASE Substrate(t, i) # "bare-metal" /\ output = "helm"
  <2> DEFINE e == ChartSlice(c)
             K == K8sRenderCluster(e)
  <2>1. files = RenderHelmChart(c)
    BY <1>3 DEF RenderSlice
  <2>2. e = ChartSlice(c) /\ K = K8sRenderCluster(e)
    OBVIOUS
  <2> HIDE DEF e, K
  <2>3. e.streams = c.streams /\ Knobbed(e) /\ DOMAIN c.knobs = Knobs
    BY <2>2, ChartSliceFields
  <2>4. \A f \in DOMAIN K : \A y \in K[f] : y[1] = "stream" => \E s \in c.streams : y = Text("stream", StreamCR(s))
    BY <2>2, <2>3, ManifestStreams
  <2>5. \A f \in DOMAIN K : \A x :
          x \in Says(ReplaceSentinels(HelmEscapeBraces(K[f])), "stream") <=> x \in Says(K[f], "stream")
    BY <2>4, ResourceCarries, TemplateStreams
  <2>6. ASSUME NEW f \in DOMAIN files, NEW x \in Says(files[f], "stream")
        PROVE  \E s \in c.streams : Carries(x, s)
    <3>1. Says({Text("name", c.id)}, "stream") = {}
      BY SaysItem DEF Text
    <3>2. Says(Values(c), "stream") = {}
      BY <2>3, SaysItem DEF Values, Text, Knobs
    <3>0. \/ \E n \in DOMAIN K : files[f] = ReplaceSentinels(HelmEscapeBraces(K[n]))
          \/ files[f] = {Text("name", c.id)}
          \/ files[f] = Values(c)
      <4>1. IsChartFile(c, K, f, files[f])
        BY <2>1, <2>2, <2>6, ChartFiles
      <4> QED BY <4>1 DEF IsChartFile
    <3>3. PICK n \in DOMAIN K : files[f] = ReplaceSentinels(HelmEscapeBraces(K[n]))
      BY <2>6, <3>0, <3>1, <3>2
    <3>4. x \in Says(K[n], "stream")
      BY <2>5, <2>6, <3>3
    <3>5. PICK y \in K[n] : y[1] = "stream" /\ x = y[3]
      BY <3>4, SaysItem
    <3>6. PICK s \in c.streams : y = Text("stream", StreamCR(s))
      BY <2>4, <3>5
    <3> QED BY <3>5, <3>6, ResourceCarries
  <2>7. ASSUME NEW s \in c.streams
        PROVE  \E f \in DOMAIN files : \E x \in Says(files[f], "stream") : Carries(x, s)
    <3> DEFINE n == <<"streams.yaml">>
    <3>1. n \in DOMAIN K \ {<<"kustomization.yaml">>} /\ Text("stream", StreamCR(s)) \in K[n]
      BY <2>2, <2>3, K8sFiles
    <3> HIDE DEF n
    <3>2. StreamCR(s) \in Says(K[n], "stream")
      BY <3>1, SaysItem, ResourceCarries
    <3>3. /\ TemplateOf(n) \in DOMAIN files
          /\ files[TemplateOf(n)] = ReplaceSentinels(HelmEscapeBraces(K[n]))
      BY <2>1, <2>2, <3>1, ChartFiles
    <3>4. StreamCR(s) \in Says(files[TemplateOf(n)], "stream")
      BY <2>5, <3>1, <3>2, <3>3
    <3> QED BY <3>3, <3>4, ResourceCarries
  <2> QED BY <2>6, <2>7
<1> QED BY <1>1, <1>2, <1>3

\* Dispatch's files say exactly the plan's streams, each under its cluster.
LEMMA DispatchSays ==
  ASSUME NEW p, NEW t, NEW g, NamedApart(p.streams),
         \A c \in ByCluster(p) : SpelledOut(BuildClusterSlice(p, t, c))
  PROVE  /\ \A q \in DOMAIN Dispatch(p, t, g) : \A x \in Says(Dispatch(p, t, g)[q], "stream") :
              \E s \in p.streams : s.cluster = q[2] /\ Carries(x, s)
         /\ \A s \in p.streams : \E q \in DOMAIN Dispatch(p, t, g) :
              q[2] = s.cluster /\ \E x \in Says(Dispatch(p, t, g)[q], "stream") : Carries(x, s)
<1>0. \A c : \A s : s \in BuildClusterSlice(p, t, c).streams <=> s \in p.streams /\ s.cluster = c
  BY DEF BuildClusterSlice
<1>a. \A c : NamedApart(BuildClusterSlice(p, t, c).streams)
  BY <1>0 DEF NamedApart
<1>1. ASSUME NEW q \in DOMAIN Dispatch(p, t, g), NEW x \in Says(Dispatch(p, t, g)[q], "stream")
      PROVE  \E s \in p.streams : s.cluster = q[2] /\ Carries(x, s)
  <2>1. PICK c \in ByCluster(p) :
           \/ Dispatch(p, t, g)[q] = ArgoApp(t, c, g.output)
           \/ \E f \in DOMAIN RenderSlice(p, t, c, g.output) :
                /\ q = SlicePath(t, g, c, f)
                /\ Dispatch(p, t, g)[q] = RenderSlice(p, t, c, g.output)[f]
    BY DispatchFiles
  <2>2. Says(ArgoApp(t, c, g.output), "stream") = {}
    BY SaysItem DEF ArgoApp, Text
  <2>3. PICK f \in DOMAIN RenderSlice(p, t, c, g.output) :
          /\ q = SlicePath(t, g, c, f)
          /\ Dispatch(p, t, g)[q] = RenderSlice(p, t, c, g.output)[f]
    BY <1>1, <2>1, <2>2
  <2>4. q[2] = c
    BY <2>3 DEF SlicePath
  <2>5. SpelledOut(BuildClusterSlice(p, t, c))
    OBVIOUS
  <2>6. \E s \in BuildClusterSlice(p, t, c).streams : Carries(x, s)
    BY <1>a, <1>1, <2>3, <2>5, SliceSays
  <2> QED BY <1>0, <2>4, <2>6
<1>2. ASSUME NEW s \in p.streams
      PROVE  \E q \in DOMAIN Dispatch(p, t, g) :
               q[2] = s.cluster /\ \E x \in Says(Dispatch(p, t, g)[q], "stream") : Carries(x, s)
  <2> DEFINE c == s.cluster
             files == RenderSlice(p, t, c, g.output)
  <2>1. c \in ByCluster(p)
    BY DEF ByCluster
  <2>2. s \in BuildClusterSlice(p, t, c).streams /\ SpelledOut(BuildClusterSlice(p, t, c))
    BY <1>0, <2>1
  <2>3. PICK f \in DOMAIN files : \E x \in Says(files[f], "stream") : Carries(x, s)
    BY <1>a, <2>2, SliceSays
  <2>4. /\ SlicePath(t, g, c, f) \in DOMAIN Dispatch(p, t, g)
        /\ Dispatch(p, t, g)[SlicePath(t, g, c, f)] = files[f]
    BY <2>1, <2>3, SliceFile
  <2>5. SlicePath(t, g, c, f)[2] = c
    BY DEF SlicePath
  <2> QED BY <2>3, <2>4, <2>5
<1> QED BY <1>1, <1>2

\* The slices of a plan of cmd/gen are spelled out.
LEMMA PlanSpelledOut ==
  ASSUME NEW t \in SpecType, NEW i, NEW of, NEW c \in ByCluster(PlanOf(t, i, of))
  PROVE  c \in Clusters /\ SpelledOut(BuildClusterSlice(PlanOf(t, i, of), t, c))
<1> DEFINE p == PlanOf(t, i, of)
<1>1. ASSUME NEW s \in p.streams PROVE s.name \in Seq(Words) /\ s.cluster \in Clusters
  <2>1. CASE \E k \in Parts(t) : s = RegionalOf(t, i, k)
    <3>1. PICK k \in Parts(t) : s = RegionalOf(t, i, k)
      BY <2>1
    <3>2. s.name = PartitionStreamName(k[1], k[2]) /\ s.cluster = t.place[k]
      BY <3>1 DEF RegionalOf
    <3>3. k \in DistrictIds \X PartitionIds /\ k[1] \in DistrictIds /\ k[2] \in PartitionIds /\ t.place[k] # None
      BY DEF Parts
    <3>4. t.place[k] \in Clusters
      BY <3>3 DEF SpecType
    <3> QED BY <3>2, <3>3, <3>4, NameWords
  <2>2. CASE \E k \in Parts(t) : s = ShardOf(t, k)
    <3>1. PICK k \in Parts(t) : s = ShardOf(t, k)
      BY <2>2
    <3>2. s.name = CentralShardStreamName(k[1], k[2]) /\ s.cluster = t.central
      BY <3>1 DEF ShardOf
    <3>3. k[1] \in DistrictIds /\ k[2] \in PartitionIds
      BY DEF Parts
    <3>4. t.central \in Clusters
      BY DEF SpecType
    <3>5. /\ PartitionStreamName(k[1], k[2]) \in Seq(Words)
          /\ CentralShardStreamName(k[1], k[2]) = <<"central">> \o PartitionStreamName(k[1], k[2])
      BY <3>3, NameWords
    <3>6. <<"central">> \in Seq(Words)
      BY DEF Words
    <3>7. CentralShardStreamName(k[1], k[2]) \in Seq(Words)
      BY <3>5, <3>6, ConcatProperties, Zenon
    <3> QED BY <3>2, <3>4, <3>7
  <2>3. CASE t.dmz # None /\ s = EgressOf(t, of)
    <3>1. s.name = <<"dmz">> /\ s.cluster = t.dmz
      BY <2>3 DEF EgressOf, DMZStreamName
    <3>2. <<"dmz">> \in Seq(Words)
      BY DEF Words
    <3>3. t.dmz \in Clusters
      BY <2>3 DEF SpecType
    <3> QED BY <3>1, <3>2, <3>3
  <2> QED BY <2>1, <2>2, <2>3, StreamsByTier
<1> HIDE DEF p
<1>2. c \in Clusters
  BY <1>1 DEF ByCluster, p
<1>3. t.substrate[c] \in Substrates
  BY <1>2 DEF SpecType
<1> DEFINE e == BuildClusterSlice(p, t, c)
<1>4. e.hosts = t.substrate[c].hosts /\ e.streams \subseteq p.streams
  BY DEF BuildClusterSlice
<1> HIDE DEF e
<1>5. SpelledOut(e)
  BY <1>1, <1>3, <1>4, SubstratesAssumption DEF SpelledOut
<1> QED BY <1>2, <1>5 DEF e, p

-----------------------------------------------------------------------------
\* The guide and the diagram

Places(p) == {<<s.cluster, s.name>> : s \in p.streams}
EgressPlaces(p, t, g) ==
  {<<SliceDir(t, s.cluster, g.output), s.cluster>> : s \in {u \in p.streams : u.tier = "dmz"}}
BareHosts(t) ==
  {<<c, t.substrate[c].hosts>> : c \in {d \in Clusters : Substrate(t, d) = "bare-metal"}}
GuideResource(g, f) ==
  IF g.output = "helm" THEN <<"charts", <<"templates/", f>>>> ELSE <<"clusters", <<f>>>>
GuideResources(g) ==
  {GuideResource(g, f) : f \in {"servicemonitor.yaml", "prometheusrule.yaml", "certificate.yaml",
                                "externalsecret.yaml"}}

LEMMA GuideSays ==
  ASSUME NEW p, NEW t, NEW g, NEW guide, guide = RenderRunbook(p, t, g)[<<"DEPLOYMENT-GUIDE.md">>]
  PROVE  /\ Says(guide, "expected") = Places(p)
         /\ Says(guide, "central") = {<<SliceDir(t, t.central, g.output), t.central>>}
         /\ Says(guide, "dmz") = EgressPlaces(p, t, g)
         /\ \A l \in Says(guide, "link") :
              l = <<"dmz-catalog.md">> /\ \E s \in p.streams : s.tier = "dmz"
         /\ Says(guide, "bare-metal") = BareHosts(t)
         /\ Says(guide, "resource") = GuideResources(g)
<1> DEFINE dmz == {s \in p.streams : s.tier = "dmz"}
           central == {<<SliceDir(t, t.central, g.output), t.central>>}
           links == {<<"dmz-catalog.md">> : s \in dmz}
           clusters == {<<c, Substrate(t, c), t.endpoint[c]>> : c \in Clusters}
           counts == {<<s.name, Cardinality(s.sources)>> :
                        s \in {u \in p.streams : u.tier = "regional" /\ u.sources # {}}}
           part(field, S) == {Text(field, x) : x \in S}
           k8sDir == IF g.output = "helm" THEN "charts" ELSE "clusters"
           resource(f) == IF g.output = "helm" THEN <<"templates/", f>> ELSE <<f>>
           A == part("central", central)
           B == part("dmz", EgressPlaces(p, t, g))
           C == part("link", links)
           D == part("cluster", clusters)
           E == part("bare-metal", BareHosts(t))
           F == part("resource", GuideResources(g))
           G == part("expected", Places(p))
           H == part("cabinets", counts)
           I == part("record", p.dns)
<1>1. RenderRunbook(p, t, g) = File(<<"DEPLOYMENT-GUIDE.md">>, A \cup B \cup C \cup D \cup E \cup F \cup G \cup H \cup I)
  <2>1. A = {Text("central", <<SliceDir(t, t.central, g.output), t.central>>)}
    OBVIOUS
  <2>2. B = {Text("dmz", <<SliceDir(t, s.cluster, g.output), s.cluster>>) : s \in dmz}
    BY DEF EgressPlaces
  <2>3. C = {Text("link", <<"dmz-catalog.md">>) : s \in dmz}
    OBVIOUS
  <2>4. D = {Text("cluster", <<c, Substrate(t, c), t.endpoint[c]>>) : c \in Clusters}
    OBVIOUS
  <2>5. E = {Text("bare-metal", <<c, t.substrate[c].hosts>>) :
                 c \in {d \in Clusters : Substrate(t, d) = "bare-metal"}}
    BY DEF BareHosts
  <2>6. F = {Text("resource", <<k8sDir, resource(f)>>) :
                 f \in {"servicemonitor.yaml", "prometheusrule.yaml", "certificate.yaml", "externalsecret.yaml"}}
    <3>1. \A f : <<k8sDir, resource(f)>> = GuideResource(g, f)
      BY DEF GuideResource
    <3> HIDE DEF k8sDir, resource
    <3> QED BY <3>1 DEF GuideResources
  <2>7. G = {Text("expected", <<s.cluster, s.name>>) : s \in p.streams}
    BY DEF Places
  <2>8. H = {Text("cabinets", <<s.name, Cardinality(s.sources)>>) :
                 s \in {u \in p.streams : u.tier = "regional" /\ u.sources # {}}}
    OBVIOUS
  <2> HIDE DEF A, B, C, D, E, F, G, H
  <2> QED BY <2>1, <2>2, <2>3, <2>4, <2>5, <2>6, <2>7, <2>8 DEF RenderRunbook
<1>2. \A field, S : \A y \in part(field, S) : y[1] = field
  BY DEF Text
<1>3. /\ \A y \in A : y[1] = "central"
      /\ \A y \in B : y[1] = "dmz"
      /\ \A y \in C : y[1] = "link"
      /\ \A y \in D : y[1] = "cluster"
      /\ \A y \in E : y[1] = "bare-metal"
      /\ \A y \in F : y[1] = "resource"
      /\ \A y \in G : y[1] = "expected"
      /\ \A y \in H : y[1] = "cabinets"
      /\ \A y \in I : y[1] = "record"
  BY <1>2
<1>4. guide = A \cup B \cup C \cup D \cup E \cup F \cup G \cup H \cup I
  <2> DEFINE all == A \cup B \cup C \cup D \cup E \cup F \cup G \cup H \cup I
  <2> HIDE DEF all
  <2>1. RenderRunbook(p, t, g) = File(<<"DEPLOYMENT-GUIDE.md">>, all)
    BY <1>1 DEF all
  <2>2. guide = all
    BY <2>1, FileMap
  <2> QED BY <2>2 DEF all
<1>5. \A l \in links : l = <<"dmz-catalog.md">> /\ \E s \in p.streams : s.tier = "dmz"
  OBVIOUS
<1>6. /\ Says(A, "central") = central /\ Says(B, "dmz") = EgressPlaces(p, t, g)
      /\ Says(C, "link") = links /\ Says(E, "bare-metal") = BareHosts(t)
      /\ Says(F, "resource") = GuideResources(g) /\ Says(G, "expected") = Places(p)
  BY TextSays
<1> HIDE DEF A, B, C, D, E, F, G, H, I, links, central
<1>7. Says(guide, "central") = Says(A, "central")
  <2>1. {y \in guide : y[1] = "central"} = {y \in A : y[1] = "central"}
    BY <1>3, <1>4
  <2> QED BY <2>1 DEF Says
<1>8. Says(guide, "dmz") = Says(B, "dmz")
  <2>1. {y \in guide : y[1] = "dmz"} = {y \in B : y[1] = "dmz"}
    BY <1>3, <1>4
  <2> QED BY <2>1 DEF Says
<1>9. Says(guide, "link") = Says(C, "link")
  <2>1. {y \in guide : y[1] = "link"} = {y \in C : y[1] = "link"}
    BY <1>3, <1>4
  <2> QED BY <2>1 DEF Says
<1>10. Says(guide, "bare-metal") = Says(E, "bare-metal")
  <2>1. {y \in guide : y[1] = "bare-metal"} = {y \in E : y[1] = "bare-metal"}
    BY <1>3, <1>4
  <2> QED BY <2>1 DEF Says
<1>11. Says(guide, "resource") = Says(F, "resource")
  <2>1. {y \in guide : y[1] = "resource"} = {y \in F : y[1] = "resource"}
    BY <1>3, <1>4
  <2> QED BY <2>1 DEF Says
<1>12. Says(guide, "expected") = Says(G, "expected")
  <2>1. {y \in guide : y[1] = "expected"} = {y \in G : y[1] = "expected"}
    BY <1>3, <1>4
  <2> QED BY <2>1 DEF Says
<1> QED BY <1>5, <1>6, <1>7, <1>8, <1>9, <1>10, <1>11, <1>12 DEF central

LEMMA DiagramSays ==
  ASSUME NEW p, \A s \in p.streams : s.tier \in {"regional", "central", "dmz"},
         NEW diagram, diagram = RenderDiagram(p)[<<"TOPOLOGY.md">>]
  PROVE  /\ Says(diagram, "node") = Places(p)
         /\ \A x : x \in Says(diagram, "source") <=>
              \E s \in p.streams : s.tier = "central" /\ \E src \in s.sources : x = <<src.name, s.name>>
<1> DEFINE centrals == {s \in p.streams : s.tier = "central"}
           pick == (CHOOSE u \in centrals : TRUE).name
           nodes == {Text("node", x) : x \in Places(p)}
           sourcing(s) == {Text("source", <<src.name, s.name>>) : src \in s.sources}
           leaf(s) == {Text("leaf", <<src.domain, s.name>>) : src \in {x \in s.sources : x.name = BufferStreamName}}
           share(s) == IF centrals = {} THEN {} ELSE {Text("share", <<pick, s.name>>)}
           edges(s) == CASE s.tier = "central" -> sourcing(s)
                         [] s.tier = "regional" -> leaf(s)
                         [] s.tier = "dmz" -> share(s)
           all == nodes \cup UNION {edges(s) : s \in p.streams}
<1>1. RenderDiagram(p) = File(<<"TOPOLOGY.md">>, all)
  <2>1. nodes = {Text("node", <<s.cluster, s.name>>) : s \in p.streams}
    BY DEF Places
  <2> HIDE DEF nodes
  <2> QED BY <2>1 DEF RenderDiagram
<1>2. \A f, v : Text(f, v)[1] = f /\ Text(f, v)[3] = v
  BY DEF Text
<1>3. \A s \in p.streams : \A y \in edges(s) :
        IF s.tier = "central" THEN y \in sourcing(s) ELSE y[1] \in {"leaf", "share"}
  <2> SUFFICES ASSUME NEW s \in p.streams, NEW y \in edges(s)
               PROVE  IF s.tier = "central" THEN y \in sourcing(s) ELSE y[1] \in {"leaf", "share"}
    OBVIOUS
  <2>1. ASSUME NEW y1 \in leaf(s) PROVE y1[1] = "leaf"
    <3>1. PICK src \in s.sources : y1 = Text("leaf", <<src.domain, s.name>>)
      BY <2>1
    <3> QED BY <3>1 DEF Text
  <2>2. \A y1 \in share(s) : y1[1] = "share"
    BY <1>2
  <2> HIDE DEF sourcing, leaf, share
  <2> QED BY <2>1, <2>2
<1>4. \A s \in p.streams : s.tier = "central" => edges(s) = sourcing(s)
  <2> HIDE DEF sourcing, leaf, share
  <2> QED OBVIOUS
<1>5. ASSUME NEW s, NEW y \in sourcing(s)
      PROVE  y[1] = "source" /\ \E src \in s.sources : y[3] = <<src.name, s.name>>
  <2>1. PICK src \in s.sources : y = Text("source", <<src.name, s.name>>)
    BY <1>5
  <2> QED BY <2>1 DEF Text
<1>6. \A s : \A src \in s.sources : Text("source", <<src.name, s.name>>) \in sourcing(s)
  OBVIOUS
<1>7. diagram = all
  <2> HIDE DEF all
  <2> QED BY <1>1, FileMap
<1>8. \A y \in nodes : y[1] = "node"
  BY <1>2
<1>9. Says(nodes, "node") = Places(p)
  BY TextSays
<1> HIDE DEF edges, nodes, sourcing
<1>10. \A y : y \in diagram <=> y \in nodes \/ \E s \in p.streams : y \in edges(s)
  BY <1>7
<1> HIDE DEF all
<1>11. \A s \in p.streams : \A y \in edges(s) : y[1] \in {"source", "leaf", "share"}
  BY <1>3, <1>5
<1>12. Says(diagram, "node") = Places(p)
  <2>1. \A y : y \in {z \in diagram : z[1] = "node"} <=> y \in {z \in nodes : z[1] = "node"}
    BY <1>10, <1>11
  <2>2. {z \in diagram : z[1] = "node"} = {z \in nodes : z[1] = "node"}
    BY <2>1
  <2> QED BY <1>9, <2>2 DEF Says
<1>13. ASSUME NEW x \in Says(diagram, "source")
       PROVE  \E s \in p.streams : s.tier = "central" /\ \E src \in s.sources : x = <<src.name, s.name>>
  <2>1. PICK y \in diagram : y[1] = "source" /\ x = y[3]
    BY <1>13, SaysItem
  <2>2. PICK s \in p.streams : y \in edges(s)
    BY <1>8, <1>10, <2>1
  <2>3. s.tier = "central" /\ y \in sourcing(s)
    BY <1>3, <2>1, <2>2
  <2> QED BY <1>5, <2>1, <2>3
<1>14. ASSUME NEW s \in p.streams, s.tier = "central", NEW src \in s.sources
       PROVE  <<src.name, s.name>> \in Says(diagram, "source")
  <2> DEFINE v == <<src.name, s.name>>
             y == Text("source", v)
  <2>1. y \in sourcing(s)
    BY <1>6
  <2> HIDE DEF v
  <2>2. y \in diagram
    BY <1>4, <1>10, <1>14, <2>1
  <2>3. y[1] = "source" /\ y[3] = v
    BY <1>2
  <2> HIDE DEF y
  <2>4. v \in Says(diagram, "source")
    BY <2>2, <2>3, SaysItem
  <2> QED BY <2>4 DEF v
<1> QED BY <1>12, <1>13, <1>14

\* One plan, three renderings: the streams in the slices, in kustomize or Helm packaging and
\* on bare metal, are the plan's, the guide expects and the diagram shows the same ones, and
\* the diagram's sourcing edges are the sources that central's shards are given (with the
\* proviso of NamesDiffer: streams with one name share a bare-metal file, and the property tells
\* a central shard by its name).
THEOREM RenderingsDoAgree == NoCentralDistrict => (GenSpec => []RenderingsAgree)
<1> SUFFICES ASSUME NoCentralDistrict PROVE GenSpec => []RenderingsAgree
  OBVIOUS
<1>1. RunResult /\ GenTypeOK => RenderingsAgree
  <2> SUFFICES ASSUME RunResult, GenTypeOK, ran = "ok" PROVE RenderingsAgree
    BY DEF RenderingsAgree
  <2> DEFINE tree == Tree
             at(q) == {<<q[2], s>> : s \in Says(tree[q], "stream")}
             streams == UNION {at(q) : q \in {x \in DOMAIN tree : Len(x) = 3}}
             places == {<<x[1], x[2].name>> : x \in streams}
             diagram == tree[<<"TOPOLOGY.md">>]
             guide == tree[<<"DEPLOYMENT-GUIDE.md">>]
             shards == {y \in streams : \E s \in plan.streams : s.name = y[2].name /\ s.tier = "central"}
             given(x) == {<<src.name, x[2].name>> : src \in x[2].sources}
  <2>1. PICK of \in ShareChoices(spec) : plan = PlanOf(spec, inv, of)
    BY DEF RunResult, MadePlan
  <2>2. Buildable(spec)
    BY DEF RunResult
  <2> DEFINE D == Dispatch(plan, spec, cfg)
  <2>3. /\ \A q \in DOMAIN tree : Len(q) = 3 => q \in DOMAIN D
        /\ \A q \in DOMAIN D : q \in DOMAIN tree /\ Len(q) = 3 /\ tree[q] = D[q]
        /\ diagram = RenderDiagram(plan)[<<"TOPOLOGY.md">>]
        /\ guide = RenderRunbook(plan, spec, cfg)[<<"DEPLOYMENT-GUIDE.md">>]
    <3>1. tree = Merged(Rendered(plan, spec, cfg, rebalance))
      BY DEF Tree
    <3> HIDE DEF tree
    <3> QED BY <3>1, TreeFiles
  <2> HIDE DEF tree
  <2>4. \A c \in ByCluster(plan) : SpelledOut(BuildClusterSlice(plan, spec, c))
    BY <2>1, PlanSpelledOut DEF GenTypeOK
  <2>5. /\ \A q \in DOMAIN D : \A x \in Says(D[q], "stream") :
             \E s \in plan.streams : s.cluster = q[2] /\ Carries(x, s)
        /\ \A s \in plan.streams : \E q \in DOMAIN D :
             q[2] = s.cluster /\ \E x \in Says(D[q], "stream") : Carries(x, s)
    <3>1. NamedApart(plan.streams)
      BY <2>1, <2>2, NamesDiffer, StreamsByTier DEF NamedApart
    <3> QED BY <2>4, <3>1, DispatchSays
  <2> HIDE DEF D
  <2>6. \A x : x \in streams <=> \E q \in DOMAIN D : \E r \in Says(D[q], "stream") : x = <<q[2], r>>
    <3>1. \A q, x : x \in at(q) <=> \E r \in Says(tree[q], "stream") : x = <<q[2], r>>
      OBVIOUS
    <3> HIDE DEF at
    <3>2. \A x : x \in streams <=> \E q \in DOMAIN tree : Len(q) = 3 /\ x \in at(q)
      OBVIOUS
    <3> HIDE DEF streams
    <3> QED BY <2>3, <3>1, <3>2
  <2> HIDE DEF streams
  <2>7. \A x \in streams : \E s \in plan.streams : x[1] = s.cluster /\ Carries(x[2], s)
    <3> SUFFICES ASSUME NEW x \in streams PROVE \E s \in plan.streams : x[1] = s.cluster /\ Carries(x[2], s)
      OBVIOUS
    <3>1. PICK q \in DOMAIN D : \E r \in Says(D[q], "stream") : x = <<q[2], r>>
      BY <2>6
    <3>2. PICK r \in Says(D[q], "stream") : x = <<q[2], r>>
      BY <3>1
    <3>3. x[1] = q[2] /\ x[2] = r
      BY <3>2
    <3> QED BY <2>5, <3>2, <3>3
  <2>8. \A s \in plan.streams : \E x \in streams : x[1] = s.cluster /\ Carries(x[2], s)
    <3> SUFFICES ASSUME NEW s \in plan.streams PROVE \E x \in streams : x[1] = s.cluster /\ Carries(x[2], s)
      OBVIOUS
    <3>1. PICK q \in DOMAIN D : q[2] = s.cluster /\ \E r \in Says(D[q], "stream") : Carries(r, s)
      BY <2>5
    <3>2. PICK r \in Says(D[q], "stream") : Carries(r, s)
      BY <3>1
    <3> DEFINE x == <<q[2], r>>
    <3>3. x \in streams /\ x[1] = q[2] /\ x[2] = r
      BY <2>6, <3>2
    <3> QED BY <3>1, <3>2, <3>3
  <2>9. places = Places(plan)
    <3>1. \A x \in streams : <<x[1], x[2].name>> \in Places(plan)
      BY <2>7 DEF Carries, Places
    <3>2. \A s \in plan.streams : \E x \in streams : <<x[1], x[2].name>> = <<s.cluster, s.name>>
      BY <2>8 DEF Carries
    <3>3. \A y \in Places(plan) : \E s \in plan.streams : y = <<s.cluster, s.name>>
      BY DEF Places
    <3>4. \A y \in Places(plan) : \E x \in streams : y = <<x[1], x[2].name>>
      BY <3>2, <3>3
    <3> QED BY <3>1, <3>4
  <2>10. places = Says(guide, "expected")
    BY <2>3, <2>9, GuideSays
  <2>11. /\ Says(diagram, "node") = Places(plan)
         /\ \A y : y \in Says(diagram, "source") <=>
              \E s \in plan.streams : s.tier = "central" /\ \E src \in s.sources : y = <<src.name, s.name>>
    <3>1. \A s \in plan.streams : s.tier \in {"regional", "central", "dmz"}
      BY <2>1, StreamsByTier
    <3> HIDE DEF diagram
    <3> QED BY <2>3, <3>1, DiagramSays
  <2>12. \A s, u \in plan.streams : s.name = u.name => s = u
    BY <2>1, <2>2, NamesDiffer
  <2>13. \A x \in streams, s \in plan.streams : Carries(x[2], s) =>
           \A y : y \in given(x) <=> \E src \in s.sources : y = <<src.name, s.name>>
    <3>1. \A src : SourceData(src).name = src.name
      BY DEF SourceData
    <3> SUFFICES ASSUME NEW x \in streams, NEW s \in plan.streams, Carries(x[2], s), NEW y
                 PROVE  y \in given(x) <=> \E src \in s.sources : y = <<src.name, s.name>>
      OBVIOUS
    <3>2. x[2].name = s.name /\ \A z : z \in x[2].sources <=> \E src \in s.sources : z = SourceData(src)
      BY DEF Carries
    <3> QED BY <3>1, <3>2
  <2> HIDE DEF given, places, diagram, guide
  <2>14. \A y : y \in Says(diagram, "source") <=> \E x \in shards : y \in given(x)
    <3>1. ASSUME NEW y \in Says(diagram, "source") PROVE \E x \in shards : y \in given(x)
      <4>1. PICK s \in plan.streams : s.tier = "central" /\ \E src \in s.sources : y = <<src.name, s.name>>
        BY <2>11, <3>1
      <4>2. PICK x \in streams : Carries(x[2], s)
        BY <2>8
      <4>3. x \in shards
        BY <4>1, <4>2 DEF Carries
      <4> QED BY <2>13, <4>1, <4>2, <4>3
    <3>2. ASSUME NEW x \in shards, NEW y \in given(x) PROVE y \in Says(diagram, "source")
      <4>1. PICK u \in plan.streams : u.name = x[2].name /\ u.tier = "central"
        BY <3>2
      <4>2. PICK s \in plan.streams : Carries(x[2], s)
        BY <2>7, <3>2
      <4>3. s = u
        BY <2>12, <4>1, <4>2 DEF Carries
      <4> QED BY <2>11, <2>13, <3>2, <4>1, <4>2, <4>3
    <3> QED BY <3>1, <3>2
  <2> HIDE DEF shards
  <2>15. Says(diagram, "source") = UNION {given(x) : x \in shards}
    BY <2>14
  <2> QED BY <2>9, <2>10, <2>11, <2>15
        DEF RenderingsAgree, tree, at, streams, places, diagram, guide, shards, given, Places
<1> QED BY <1>1, RunResultInvariant, GenTypeCorrect, PTL

-----------------------------------------------------------------------------
\* The files refer to each other

\* indexStreams picks a stream of the plan, also where two have a name.
LEMMA IndexMember ==
  ASSUME NEW ss, \A s \in ss : s.tier \in {"regional", "central", "dmz"},
         NEW n \in DOMAIN IndexStreams(ss)
  PROVE  IndexStreams(ss)[n] \in ss
<1>1. Wave("central") = 0 /\ Wave("regional") = 1 /\ Wave("dmz") = 2
  BY DEF Wave
<1> DEFINE last(s) == s.name = n /\ \A r \in ss : r.name = n => Wave(r.tier) <= Wave(s.tier)
<1>2. /\ n \in {s.name : s \in ss}
      /\ IndexStreams(ss)[n] = CHOOSE s \in ss : last(s)
  BY DEF IndexStreams
<1>3. PICK u \in ss : u.name = n
  BY <1>2
<1>4. \E s \in ss : last(s)
  <2>1. CASE \E s \in ss : s.name = n /\ s.tier = "dmz"
    BY <1>1, <2>1
  <2>2. CASE (\E s \in ss : s.name = n /\ s.tier = "regional") /\ ~\E s \in ss : s.name = n /\ s.tier = "dmz"
    BY <1>1, <2>2
  <2>3. CASE \A s \in ss : s.name = n => s.tier = "central"
    BY <1>1, <1>3, <2>3
  <2> QED BY <2>1, <2>2, <2>3
<1> HIDE DEF last
<1>5. (CHOOSE s \in ss : last(s)) \in ss
  BY <1>4
<1> QED BY <1>2, <1>5

\* What the delta has as new is of the new plan.
LEMMA DiffMembers ==
  ASSUME NEW old, NEW new, \A s \in new.streams : s.tier \in {"regional", "central", "dmz"}
  PROVE  /\ \A s \in Diff(old, new).added : s \in new.streams
         /\ \A m \in Diff(old, new).moved \cup Diff(old, new).modified : m[2] \in new.streams
<1> DEFINE os == IndexStreams(old.streams)
           ns == IndexStreams(new.streams)
           both == DOMAIN os \cap DOMAIN ns
           moved == {n \in both : os[n].cluster # ns[n].cluster \/ os[n].domain # ns[n].domain}
           rest == {m \in both \ moved : StreamConfigChanged(os[m], ns[m])}
<1>1. /\ Diff(old, new).added = {ns[n] : n \in DOMAIN ns \ DOMAIN os}
      /\ Diff(old, new).moved = {<<os[n], ns[n]>> : n \in moved}
      /\ Diff(old, new).modified = {<<os[n], ns[n]>> : n \in rest}
  BY DEF Diff
<1>2. \A n \in DOMAIN ns : ns[n] \in new.streams
  BY IndexMember
<1>3. moved \subseteq DOMAIN ns /\ rest \subseteq DOMAIN ns
  OBVIOUS
<1> HIDE DEF os, ns, moved, rest
<1>4. \A s \in Diff(old, new).added : s \in new.streams
  BY <1>1, <1>2
<1>5. ASSUME NEW m \in Diff(old, new).moved \cup Diff(old, new).modified PROVE m[2] \in new.streams
  <2>1. PICK n \in DOMAIN ns : m = <<os[n], ns[n]>>
    BY <1>1, <1>3, <1>5
  <2>2. m[2] = ns[n]
    BY <2>1
  <2> QED BY <1>2, <2>2
<1> QED BY <1>4, <1>5

\* The rows of REBALANCE.md are the delta's.
RowsResult == ran = "ok" /\ rebalance # None => rebalance = BuildRebalanceData(delta)

LEMMA RowsInvariant == GenSpec => []RowsResult
<1>1. GenInit => RowsResult
  BY DEF GenInit, RowsResult
<1>2. RowsResult /\ [GenNext]_gvars => RowsResult'
  <2> SUFFICES ASSUME RowsResult, [GenNext]_gvars PROVE RowsResult'
    OBVIOUS
  <2>1. CASE EditSpec \/ EditInventory \/ RunFails
    BY <2>1 DEF EditSpec, EditInventory, RunFails, RowsResult
  <2>2. CASE \E c \in Configs : RunGen(c)
    <3>1. rebalance' = IF previous = None THEN None ELSE BuildRebalanceData(delta')
      BY <2>2 DEF RunGen
    <3> QED BY <3>1 DEF RowsResult
  <2>3. CASE UNCHANGED gvars
    BY <2>3 DEF gvars, memory, RowsResult
  <2> QED BY <2>1, <2>2, <2>3 DEF GenNext
<1> QED BY <1>1, <1>2, PTL DEF GenSpec

\* The paths of the slices in the tree.
IsSliceFile(p, t, g, q) ==
  \E c \in ByCluster(p) : \E f \in DOMAIN RenderSlice(p, t, c, g.output) : q = SlicePath(t, g, c, f)

LEMMA SlicesOfTree ==
  ASSUME NEW p, NEW t, NEW g, NEW rows, NEW tree, tree = Merged(Rendered(p, t, g, rows)), NEW q
  PROVE  q \in DOMAIN tree /\ Len(q) = 3 /\ q[1] # "argocd" <=> IsSliceFile(p, t, g, q)
<1>1. ASSUME q \in DOMAIN tree, Len(q) = 3, q[1] # "argocd" PROVE IsSliceFile(p, t, g, q)
  <2>1. q \in DOMAIN Dispatch(p, t, g)
    BY <1>1, TreeFiles
  <2>2. \A c : q # AppPath(c)
    BY <1>1 DEF AppPath
  <2> QED BY <2>1, <2>2, DispatchFiles DEF IsSliceFile
<1>2. ASSUME IsSliceFile(p, t, g, q) PROVE q \in DOMAIN tree /\ Len(q) = 3 /\ q[1] # "argocd"
  <2>1. PICK c \in ByCluster(p) : \E f \in DOMAIN RenderSlice(p, t, c, g.output) : q = SlicePath(t, g, c, f)
    BY <1>2 DEF IsSliceFile
  <2>2. PICK f \in DOMAIN RenderSlice(p, t, c, g.output) : q = SlicePath(t, g, c, f)
    BY <2>1
  <2>3. q \in DOMAIN Dispatch(p, t, g)
    BY <2>2, SliceFile
  <2>4. q[1] # "argocd"
    BY <2>2, SliceDirs DEF SlicePath
  <2> QED BY <2>3, <2>4, TreeFiles
<1> QED BY <1>1, <1>2

\* Every Argo application in the tree is a Kubernetes cluster's, and points at its slice.
LEMMA AppsOfTree ==
  ASSUME NEW p, NEW t, NEW g, NEW rows, NEW tree, tree = Merged(Rendered(p, t, g, rows)),
         NEW q \in DOMAIN tree, Len(q) = 3, q[1] = "argocd"
  PROVE  \E c \in ByCluster(p) : Substrate(t, c) = "kubernetes" /\ tree[q] = ArgoApp(t, c, g.output)
<1>1. q \in DOMAIN Dispatch(p, t, g) /\ tree[q] = Dispatch(p, t, g)[q]
  BY TreeFiles
<1>2. \A c, f : q # SlicePath(t, g, c, f)
  BY SliceDirs DEF SlicePath
<1> QED BY <1>1, <1>2, DispatchFiles

\* Which files a Kubernetes slice has.
LEMMA KubernetesSlice ==
  ASSUME NEW p, NEW t, NEW c, NEW output, Substrate(t, c) = "kubernetes",
         NEW files, files = RenderSlice(p, t, c, output)
  PROVE  /\ output # "helm" =>
              /\ <<"kustomization.yaml">> \in DOMAIN files
              /\ \A f \in {"streams.yaml", "servicemonitor.yaml", "prometheusrule.yaml", "certificate.yaml",
                           "externalsecret.yaml"} : <<f>> \in DOMAIN files
         /\ output = "helm" =>
              /\ <<"Chart.yaml">> \in DOMAIN files
              /\ \A f \in {"streams.yaml", "servicemonitor.yaml", "prometheusrule.yaml", "certificate.yaml",
                           "externalsecret.yaml"} : <<"templates/", f>> \in DOMAIN files
<1> DEFINE s == BuildClusterSlice(p, t, c)
<1>1. CASE output # "helm"
  <2>1. files = K8sRenderCluster(s)
    BY <1>1 DEF RenderSlice
  <2>2. {<<"streams.yaml">>, <<"certificate.yaml">>, <<"externalsecret.yaml">>,
         <<"kustomization.yaml">>, <<"servicemonitor.yaml">>, <<"prometheusrule.yaml">>} \subseteq DOMAIN files
    <3> HIDE DEF s
    <3> QED BY <2>1, K8sFiles
  <2> QED BY <1>1, <2>2
<1>2. CASE output = "helm"
  <2> DEFINE e == ChartSlice(s)
             K == K8sRenderCluster(e)
  <2>1. files = RenderHelmChart(s)
    BY <1>2 DEF RenderSlice
  <2>2. e = ChartSlice(s) /\ K = K8sRenderCluster(e)
    OBVIOUS
  <2> HIDE DEF s, e, K
  <2>3. \A n \in {<<"streams.yaml">>, <<"certificate.yaml">>, <<"externalsecret.yaml">>,
                  <<"servicemonitor.yaml">>, <<"prometheusrule.yaml">>} :
           n \in DOMAIN K \ {<<"kustomization.yaml">>}
    <3>1. {<<"streams.yaml">>, <<"certificate.yaml">>, <<"externalsecret.yaml">>,
           <<"servicemonitor.yaml">>, <<"prometheusrule.yaml">>} \subseteq DOMAIN K
      BY <2>2, K8sFiles
    <3>2. \A n \in {<<"streams.yaml">>, <<"certificate.yaml">>, <<"externalsecret.yaml">>,
                    <<"servicemonitor.yaml">>, <<"prometheusrule.yaml">>} : n # <<"kustomization.yaml">>
      OBVIOUS
    <3> QED BY <3>1, <3>2
  <2>4. /\ <<"Chart.yaml">> \in DOMAIN files
        /\ \A n \in DOMAIN K \ {<<"kustomization.yaml">>} : TemplateOf(n) \in DOMAIN files
    BY <2>1, <2>2, ChartFiles
  <2>5. \A f : TemplateOf(<<f>>) = <<"templates/", f>>
    BY TemplatePath DEF TemplateOf
  <2>6. ASSUME NEW f \in {"streams.yaml", "servicemonitor.yaml", "prometheusrule.yaml", "certificate.yaml",
                          "externalsecret.yaml"}
        PROVE  <<"templates/", f>> \in DOMAIN files
    <3>1. <<f>> \in {<<"streams.yaml">>, <<"certificate.yaml">>, <<"externalsecret.yaml">>,
                     <<"servicemonitor.yaml">>, <<"prometheusrule.yaml">>}
      OBVIOUS
    <3>2. TemplateOf(<<f>>) \in DOMAIN files
      BY <2>3, <2>4, <3>1
    <3> QED BY <2>5, <3>2
  <2> QED BY <1>2, <2>4, <2>6
<1> QED BY <1>1, <1>2

\* A kustomization lists exactly the other files of its slice.
LEMMA KustomizationListsAll ==
  ASSUME NEW p, NEW t, NEW i, NEW output, NEW c, c = BuildClusterSlice(p, t, i), SpelledOut(c),
         NEW files, files = RenderSlice(p, t, i, output), <<"kustomization.yaml">> \in DOMAIN files
  PROVE  DOMAIN files = Says(files[<<"kustomization.yaml">>], "resource") \cup {<<"kustomization.yaml">>}
<1>1. Substrate(t, i) # "bare-metal"
  <2> SUFFICES ASSUME Substrate(t, i) = "bare-metal" PROVE FALSE
    OBVIOUS
  <2>1. files = BareMetalRenderCluster(c)
    BY DEF RenderSlice
  <2> QED BY <2>1, BareFiles
<1>2. output # "helm"
  <2> SUFFICES ASSUME output = "helm" PROVE FALSE
    OBVIOUS
  <2> DEFINE e == ChartSlice(c)
             K == K8sRenderCluster(e)
             m == <<"kustomization.yaml">>
  <2>1. files = RenderHelmChart(c)
    BY <1>1 DEF RenderSlice
  <2>2. e = ChartSlice(c) /\ K = K8sRenderCluster(e) /\ m \in DOMAIN files
    OBVIOUS
  <2>3. m # <<"Chart.yaml">> /\ m # <<"values.yaml">> /\ \A h : m # <<"templates/", h>>
    OBVIOUS
  <2>0. \A n \in DOMAIN K : \E h : n = <<h>>
    <3>1. DOMAIN K \subseteq {<<"streams.yaml">>, <<"certificate.yaml">>, <<"externalsecret.yaml">>,
             <<"kustomization.yaml">>, <<"servicemonitor.yaml">>, <<"prometheusrule.yaml">>,
             <<"credhealth-prometheusrule.yaml">>}
      <4> HIDE DEF e
      <4> QED BY K8sFiles
    <3> QED BY <3>1
  <2> HIDE DEF e, K, m
  <2>4. IsChartFile(c, K, m, files[m])
    BY <2>1, <2>2, ChartFiles
  <2>5. PICK n \in DOMAIN K : m = TemplateOf(n)
    BY <2>3, <2>4 DEF IsChartFile
  <2>6. PICK h : n = <<h>>
    BY <2>0
  <2>7. m = <<"templates/", h>>
    BY <2>5, <2>6, TemplatePath DEF TemplateOf
  <2> QED BY <2>3, <2>7
<1>3. files = K8sRenderCluster(c)
  BY <1>1, <1>2 DEF RenderSlice
<1> DEFINE base == {"streams.yaml", "certificate.yaml", "externalsecret.yaml", "servicemonitor.yaml",
                    "prometheusrule.yaml"}
           names == base \cup IF c.isCentral THEN {"credhealth-prometheusrule.yaml"} ELSE {}
           listed == {<<f>> : f \in names}
<1>4. Kustomization(c) = {Text("resource", x) : x \in listed}
  <2>1. Kustomization(c) = {Text("resource", <<f>>) : f \in names}
    BY DEF Kustomization
  <2> HIDE DEF names
  <2> QED BY <2>1
<1>5. Says(Kustomization(c), "resource") = listed
  <2> HIDE DEF listed
  <2> QED BY <1>4, TextSays
<1>6. files[<<"kustomization.yaml">>] = Kustomization(c)
  BY <1>3, K8sFiles
<1>7. DOMAIN files = listed \cup {<<"kustomization.yaml">>}
  <2> DEFINE more == IF c.isCentral THEN {<<"credhealth-prometheusrule.yaml">>} ELSE {}
  <2>1. DOMAIN files = {<<"streams.yaml">>, <<"certificate.yaml">>, <<"externalsecret.yaml">>,
                        <<"kustomization.yaml">>, <<"servicemonitor.yaml">>, <<"prometheusrule.yaml">>} \cup more
    BY <1>3, K8sFiles
  <2>2. listed = {<<"streams.yaml">>, <<"certificate.yaml">>, <<"externalsecret.yaml">>,
                  <<"servicemonitor.yaml">>, <<"prometheusrule.yaml">>} \cup more
    <3>1. CASE c.isCentral
      <4>1. listed = {<<f>> : f \in base \cup {"credhealth-prometheusrule.yaml"}} /\ more = {<<"credhealth-prometheusrule.yaml">>}
        BY <3>1
      <4> QED BY <4>1
    <3>2. CASE ~c.isCentral
      <4>1. listed = {<<f>> : f \in base} /\ more = {}
        BY <3>2
      <4> QED BY <4>1
    <3> QED BY <3>1, <3>2
  <2> HIDE DEF listed, more
  <2> QED BY <2>1, <2>2
<1> QED BY <1>5, <1>6, <1>7

\* Every slice has a file.
LEMMA SliceNotEmpty ==
  ASSUME NEW p, NEW t, NEW i, NEW output, NEW c, c = BuildClusterSlice(p, t, i), SpelledOut(c),
         NEW files, files = RenderSlice(p, t, i, output)
  PROVE  \E f : f \in DOMAIN files
<1>1. CASE Substrate(t, i) = "bare-metal"
  <2>1. files = BareMetalRenderCluster(c)
    BY <1>1 DEF RenderSlice
  <2> QED BY <2>1, BareFiles
<1>2. CASE Substrate(t, i) # "bare-metal" /\ output # "helm"
  <2>1. files = K8sRenderCluster(c)
    BY <1>2 DEF RenderSlice
  <2>2. <<"kustomization.yaml">> \in DOMAIN files
    BY <2>1, K8sFiles
  <2> QED BY <2>2
<1>3. CASE Substrate(t, i) # "bare-metal" /\ output = "helm"
  <2>1. files = RenderHelmChart(c)
    BY <1>3 DEF RenderSlice
  <2>2. <<"Chart.yaml">> \in DOMAIN files
    BY <2>1, ChartFiles
  <2> QED BY <2>2
<1> QED BY <1>1, <1>2, <1>3

\* No two renderers produce one path, so that MergeInto never refuses a tree, and the
\* references that ReferencesResolve lists lead to files: those of kustomizations and Argo
\* applications all, those of the guide for clusters that have a slice, those of REBALANCE.md
\* in kustomize mode.  (The others, the guide's notes on a bare-metal cluster without a
\* stream and on central without a partition and REBALANCE.md beside charts, may name files
\* that no renderer makes.)
THEOREM ReferencesAreGood == GenSpec => []ReferencesResolve
<1>1. RunResult /\ GenTypeOK /\ RowsResult => ReferencesResolve
  <2> SUFFICES ASSUME RunResult, GenTypeOK, RowsResult, ran = "ok" PROVE ReferencesResolve
    BY DEF ReferencesResolve
  <2> DEFINE tree == Tree
             guide == tree[<<"DEPLOYMENT-GUIDE.md">>]
             has(dir, c, f) == <<dir, c, f>> \in DOMAIN tree
             slices == {q \in DOMAIN tree : Len(q) = 3 /\ q[1] # "argocd"}
             active == {q[2] : q \in slices}
             files(c) == RenderSlice(plan, spec, c, cfg.output)
             dir(c) == SliceDir(spec, c, cfg.output)
             slice(c) == BuildClusterSlice(plan, spec, c)
  <2>1. PICK of \in ShareChoices(spec) : plan = PlanOf(spec, inv, of)
    BY DEF RunResult, MadePlan
  <2>2. tree = Merged(Rendered(plan, spec, cfg, rebalance))
    BY DEF Tree
  <2> HIDE DEF tree
  <2>3. \A q : q \in slices <=> IsSliceFile(plan, spec, cfg, q)
    BY <2>2, SlicesOfTree
  <2>4. \A q : q \in slices <=> \E c \in ByCluster(plan) : \E f \in DOMAIN files(c) : q = SlicePath(spec, cfg, c, f)
    BY <2>3 DEF IsSliceFile
  <2>5. \A c, f : /\ SlicePath(spec, cfg, c, f) = <<dir(c), c, f>>
                  /\ SlicePath(spec, cfg, c, f)[1] = dir(c) /\ SlicePath(spec, cfg, c, f)[2] = c
                  /\ SlicePath(spec, cfg, c, f)[3] = f
    BY DEF SlicePath
  <2>6. slices \subseteq DOMAIN tree
    OBVIOUS
  <2>7. \A c \in active : c \in ByCluster(plan)
    <3> HIDE DEF slices
    <3> QED BY <2>4, <2>5
  <2> HIDE DEF slices, active
  <2>8. \A c \in ByCluster(plan) : \A f \in DOMAIN files(c) :
          SlicePath(spec, cfg, c, f) \in slices /\ has(dir(c), c, f)
    <3> HIDE DEF files, dir
    <3>1. \A c \in ByCluster(plan) : \A f \in DOMAIN files(c) : SlicePath(spec, cfg, c, f) \in slices
      BY <2>4
    <3> QED BY <2>5, <2>6, <3>1
  <2>9. \A c \in ByCluster(plan) : SpelledOut(slice(c))
    BY <2>1, PlanSpelledOut DEF GenTypeOK
  <2>10. Mergeable(Rendered(plan, spec, cfg, rebalance))
    BY TreeMerges
  <2>11. ASSUME NEW q \in slices, q[3] = <<"kustomization.yaml">>
         PROVE  {r[3] : r \in {x \in slices : x[2] = q[2]}} = Says(tree[q], "resource") \cup {q[3]}
    <3>1. PICK c \in ByCluster(plan) : \E f \in DOMAIN files(c) : q = SlicePath(spec, cfg, c, f)
      BY <2>4
    <3>2. PICK f \in DOMAIN files(c) : q = SlicePath(spec, cfg, c, f)
      BY <3>1
    <3>3. q[2] = c /\ f = <<"kustomization.yaml">>
      BY <2>5, <2>11, <3>2
    <3>4. tree[q] = files(c)[f]
      <4>1. /\ q \in DOMAIN Dispatch(plan, spec, cfg)
            /\ Dispatch(plan, spec, cfg)[q] = files(c)[f]
        BY <3>2, SliceFile
      <4>2. tree[q] = Dispatch(plan, spec, cfg)[q]
        BY <2>2, <4>1, TreeFiles
      <4> QED BY <4>1, <4>2
    <3>5. DOMAIN files(c) = Says(files(c)[f], "resource") \cup {f}
      BY <2>9, <3>2, <3>3, KustomizationListsAll
    <3>6. \A x : x \in {r[3] : r \in {y \in slices : y[2] = c}} <=> x \in DOMAIN files(c)
      <4>1. ASSUME NEW r \in slices, r[2] = c PROVE r[3] \in DOMAIN files(c)
        <5>1. PICK b \in ByCluster(plan) : \E h \in DOMAIN files(b) : r = SlicePath(spec, cfg, b, h)
          BY <2>4
        <5>2. PICK h \in DOMAIN files(b) : r = SlicePath(spec, cfg, b, h)
          BY <5>1
        <5> QED BY <2>5, <4>1, <5>2
      <4>2. ASSUME NEW h \in DOMAIN files(c) PROVE \E r \in slices : r[2] = c /\ h = r[3]
        <5>1. SlicePath(spec, cfg, c, h) \in slices
          BY <2>8, <4>2
        <5>2. SlicePath(spec, cfg, c, h)[2] = c /\ SlicePath(spec, cfg, c, h)[3] = h
          BY <2>5
        <5> QED BY <5>1, <5>2
      <4> HIDE DEF files
      <4> QED BY <4>1, <4>2
    <3> QED BY <3>3, <3>4, <3>5, <3>6, <2>11
  <2>12. ASSUME NEW q \in DOMAIN tree, Len(q) = 3, q[1] = "argocd", NEW d \in Says(tree[q], "path")
         PROVE  has(d[1], d[2], <<"kustomization.yaml">>) \/ has(d[1], d[2], <<"Chart.yaml">>)
    <3>1. PICK c \in ByCluster(plan) : Substrate(spec, c) = "kubernetes" /\ tree[q] = ArgoApp(spec, c, cfg.output)
      BY <2>2, <2>12, AppsOfTree
    <3>2. d[1] = dir(c) /\ d[2] = c
      <4>1. d = <<IF cfg.output = "helm" THEN "charts" ELSE "clusters", c>>
        BY <2>12, <3>1, SaysItem DEF ArgoApp, Text
      <4> QED BY <3>1, <4>1 DEF SliceDir
    <3>3. <<"kustomization.yaml">> \in DOMAIN files(c) \/ <<"Chart.yaml">> \in DOMAIN files(c)
      BY <3>1, KubernetesSlice
    <3> QED BY <2>8, <3>2, <3>3
  <2> HIDE DEF has
  <2>13. /\ Says(guide, "central") = {<<dir(spec.central), spec.central>>}
         /\ Says(guide, "dmz") = EgressPlaces(plan, spec, cfg)
         /\ \A l \in Says(guide, "link") :
              l = <<"dmz-catalog.md">> /\ \E s \in plan.streams : s.tier = "dmz"
         /\ Says(guide, "bare-metal") = BareHosts(spec)
         /\ Says(guide, "resource") = GuideResources(cfg)
    <3>1. guide = RenderRunbook(plan, spec, cfg)[<<"DEPLOYMENT-GUIDE.md">>]
      BY <2>2, TreeFiles
    <3> HIDE DEF guide
    <3> QED BY <3>1, GuideSays
  <2> HIDE DEF guide
  <2>14. ASSUME NEW c \in ByCluster(plan) PROVE \E q \in slices : q[1] = dir(c) /\ q[2] = c
    <3>1. PICK f : f \in DOMAIN files(c)
      BY <2>9, SliceNotEmpty
    <3> QED BY <2>5, <2>8, <3>1
  <2>15. ASSUME NEW d \in Says(guide, "central") \cup Says(guide, "dmz"), Parts(spec) # {}
         PROVE  \E q \in slices : q[1] = d[1] /\ q[2] = d[2]
    <3>1. PICK c \in ByCluster(plan) : d = <<dir(c), c>>
      <4>1. CASE d \in Says(guide, "central")
        <5>1. PICK k : k \in Parts(spec)
          BY <2>15
        <5>2. ShardOf(spec, k) \in plan.streams /\ ShardOf(spec, k).cluster = spec.central
          <6>1. ShardOf(spec, k) \in plan.streams
            BY <2>1, <5>1, StreamsByTier
          <6> QED BY <6>1 DEF ShardOf
        <5>3. spec.central \in ByCluster(plan)
          BY <5>2 DEF ByCluster
        <5> QED BY <2>13, <4>1, <5>3
      <4>2. CASE d \in Says(guide, "dmz")
        <5>1. PICK s \in plan.streams : d = <<SliceDir(spec, s.cluster, cfg.output), s.cluster>>
          BY <2>13, <4>2 DEF EgressPlaces
        <5>2. s.cluster \in ByCluster(plan)
          BY DEF ByCluster
        <5> QED BY <5>1, <5>2
      <4> QED BY <2>15, <4>1, <4>2
    <3>2. d[1] = dir(c) /\ d[2] = c
      BY <3>1
    <3> QED BY <2>14, <3>2
  <2>16. ASSUME NEW l \in Says(guide, "link") PROVE l \in DOMAIN tree
    <3>1. l = <<"dmz-catalog.md">> /\ \E s \in plan.streams : s.tier = "dmz"
      BY <2>13
    <3>2. spec.dmz # None
      BY <2>1, <3>1, StreamsByTier
    <3> QED BY <2>2, <3>1, <3>2, TreeFiles
  <2>17. ASSUME NEW b \in Says(guide, "bare-metal"), b[1] \in active
         PROVE  /\ \A i \in DOMAIN b[2] : has("clusters", b[1], <<"nats-">> \o SanitizeHostFilename(b[2][i]))
                /\ has("clusters", b[1], <<"nats-server.service">>)
    <3>1. PICK c \in Clusters : Substrate(spec, c) = "bare-metal" /\ b = <<c, spec.substrate[c].hosts>>
      BY <2>13 DEF BareHosts
    <3>2. b[1] = c /\ b[2] = spec.substrate[c].hosts /\ c \in ByCluster(plan)
      BY <2>7, <2>17, <3>1
    <3>3. files(c) = BareMetalRenderCluster(slice(c)) /\ dir(c) = "clusters"
      BY <3>1 DEF RenderSlice, SliceDir
    <3>4. slice(c).hosts = spec.substrate[c].hosts
      BY DEF BuildClusterSlice
    <3>5. SpelledOut(slice(c))
      BY <2>9, <3>2
    <3> HIDE DEF slice
    <3>6. /\ \A i \in DOMAIN slice(c).hosts : ConfFile(slice(c), i) \in DOMAIN files(c)
          /\ <<"nats-server.service">> \in DOMAIN files(c)
      BY <3>3, <3>5, BareFiles
    <3>7. \A i : ConfFile(slice(c), i) = <<"nats-">> \o SanitizeHostFilename(b[2][i])
      BY <3>2, <3>4 DEF ConfFile
    <3> HIDE DEF files, dir
    <3> QED BY <2>8, <3>2, <3>3, <3>4, <3>6, <3>7
  <2>18. ASSUME NEW r \in Says(guide, "resource"), NEW c \in active, Substrate(spec, c) = "kubernetes"
         PROVE  has(r[1], c, r[2])
    <3>1. PICK f \in {"servicemonitor.yaml", "prometheusrule.yaml", "certificate.yaml", "externalsecret.yaml"} :
            r = GuideResource(cfg, f)
      BY <2>13 DEF GuideResources
    <3>2. r[1] = dir(c) /\ r[2] = IF cfg.output = "helm" THEN <<"templates/", f>> ELSE <<f>>
      BY <2>18, <3>1 DEF GuideResource, SliceDir
    <3>3. r[2] \in DOMAIN files(c)
      BY <2>18, <3>2, KubernetesSlice
    <3> QED BY <2>7, <2>8, <3>2, <3>3
  <2>19. ASSUME rebalance # None, cfg.output = "kustomize",
                NEW c \in {m.newCluster : m \in rebalance.moved}
                            \cup {r.cluster : r \in rebalance.added \cup rebalance.modified},
                Substrate(spec, c) = "kubernetes"
         PROVE  has("clusters", c, <<"streams.yaml">>)
    <3>1. \A s \in plan.streams : s.tier \in {"regional", "central", "dmz"}
      BY <2>1, StreamsByTier
    <3>2. rebalance = BuildRebalanceData(delta) /\ delta = Diff(prior, plan)
      BY <2>19 DEF RowsResult, RunResult
    <3>3. /\ \A s \in delta.added : s \in plan.streams
          /\ \A m \in delta.moved \cup delta.modified : m[2] \in plan.streams
      BY <3>1, <3>2, DiffMembers
    <3>4. c \in ByCluster(plan)
      <4>1. \A m \in rebalance.moved : \E v \in delta.moved : m.newCluster = v[2].cluster
        BY <3>2 DEF BuildRebalanceData
      <4>2. \A r \in rebalance.added : \E s \in delta.added : r.cluster = s.cluster
        BY <3>2 DEF BuildRebalanceData
      <4>3. \A r \in rebalance.modified : \E v \in delta.modified : r.cluster = v[2].cluster
        BY <3>2 DEF BuildRebalanceData
      <4>4. \E s \in plan.streams : c = s.cluster
        BY <2>19, <3>3, <4>1, <4>2, <4>3
      <4> QED BY <4>4 DEF ByCluster
    <3>5. <<"streams.yaml">> \in DOMAIN files(c) /\ dir(c) = "clusters"
      BY <2>19, KubernetesSlice DEF SliceDir
    <3> QED BY <2>8, <3>4, <3>5
  <2> QED BY <2>10, <2>11, <2>12, <2>15, <2>16, <2>17, <2>18, <2>19
        DEF ReferencesResolve, tree, guide, has, slices, active
<1> QED BY <1>1, RunResultInvariant, GenTypeCorrect, RowsInvariant, PTL

=============================================================================
