-------------------------------- MODULE Render --------------------------------
(***************************************************************************)
(* The renderers: Dispatch with the Kubernetes, Helm and bare-metal        *)
(* slices, the DNS list, the diagram, the deployment guide, accounts.conf  *)
(* and the share catalog.                                                  *)
(*                                                                         *)
(* A file is the set of what a template fills in: <<field, kind, value>>.  *)
(* The kind is "text", except in what Helm reads: "braces" is text that    *)
(* holds {{ }}, "escaped" such text made harmless, "sentinel" a            *)
(* placeholder of renderHelmChart, "action" a live {{ .Values.x }}.        *)
(* Layout, sizes, ports and everything a template spells out for all       *)
(* clusters alike are left out.  A path is <<top directory, cluster,       *)
(* file>>, a file outside the clusters' directories <<name>>.              *)
(***************************************************************************)
EXTENDS Plan

Text(field, value) == <<field, "text", value>>

\* A map of one file, and two maps in one: of a name in both, the first one's contents.
File(name, contents) == [n \in {name} |-> contents]
files ++ more ==
  [n \in DOMAIN files \cup DOMAIN more |-> IF n \in DOMAIN files THEN files[n] ELSE more[n]]

\* What a file says in a field.
Says(file, field) == {f[3] : f \in {g \in file : g[1] = field}}

-----------------------------------------------------------------------------
\* substrate.go: slices.  t.substrate[c]: [type, namespace, hosts], the hosts in sorted
\* order; a host is its parts between ':' and '/', each a sequence of words.

Substrate(t, c) == t.substrate[c].type

SliceDir(t, c, output) ==
  IF Substrate(t, c) = "kubernetes" /\ output = "helm" THEN "charts" ELSE "clusters"

\* The four knobs are filled in from the spec and the flags; an undeclared namespace is
\* the empty one.
BuildClusterSlice(p, t, c) ==
  [id |-> c, hosts |-> t.substrate[c].hosts, domain |-> t.domain[c],
   endpoint |-> t.endpoint[c],
   streams |-> {s \in p.streams : s.cluster = c},
   isCentral |-> c = t.central,
   uplink |-> IF c = t.central THEN None ELSE t.endpoint[t.central],
   knobs |-> [namespace |-> <<"text", t.substrate[c].namespace>>,
              tlsIssuer |-> <<"text", "issuer">>,
              secretStore |-> <<"text", "store">>,
              prometheusRelease |-> <<"text", "release">>]]

-----------------------------------------------------------------------------
\* k8s.go

\* A source is transformed or filtered, never both.
SourceData(src) ==
  [name |-> src.name, api |-> src.domain,
   transform |-> IF src.as # None THEN <<src.from, src.as>> ELSE None,
   filter |-> IF src.as # None THEN None ELSE src.from]

StreamCR(s) ==
  [name |-> s.name, tier |-> s.tier, wave |-> Wave(s.tier), replicas |-> s.replicas,
   sources |-> {SourceData(src) : src \in s.sources}]

\* A leaf-endpoint is a host and a port.
LeafHost(endpoint) == endpoint[1]

Certificate(c) ==
  {Text("cluster", c.id), Text("dnsName", LeafHost(c.endpoint)), <<"issuer">> \o c.knobs.tlsIssuer}
    \cup IF c.knobs.namespace = <<"text", None>> THEN {} ELSE {<<"service">> \o c.knobs.namespace}

ExternalSecret(c) == {Text("cluster", c.id), <<"store">> \o c.knobs.secretStore}

Monitoring(c) ==
  {Text("cluster", c.id), <<"namespace">> \o c.knobs.namespace, <<"release">> \o c.knobs.prometheusRelease}

\* The alerts select the cluster's namespace; only regional clusters have an uplink to
\* lose.
PrometheusRule(c) ==
  Monitoring(c) \cup
    {<<a>> \o c.knobs.namespace :
       a \in {"NatsServerDown", "NatsSlowConsumers", "JetStreamStorageHigh", "JetStreamConsumerLagging",
              "JetStreamAssetsHigh"} \cup IF c.isCentral THEN {} ELSE {"NatsLeafDown"}}

\* Prometheus' own {{ $labels.identity }} in the summaries.
CredhealthRule(c) ==
  Monitoring(c) \cup {Text("CredHealthStale", "last-scan")}
    \cup {<<a, "braces", "identity">> : a \in {"CredExpiringSoon", "CredExpiryCritical", "CredExpired"}}

\* Seeded fault: central's extra rule is not among the resources.
KustomizationShort(c) ==
  {Text("resource", <<f>>) : f \in
     {"streams.yaml", "certificate.yaml", "externalsecret.yaml", "servicemonitor.yaml", "prometheusrule.yaml"}}

Kustomization(c) ==
  {Text("resource", <<f>>) : f \in
     {"streams.yaml", "certificate.yaml", "externalsecret.yaml", "servicemonitor.yaml", "prometheusrule.yaml"}
       \cup IF c.isCentral THEN {"credhealth-prometheusrule.yaml"} ELSE {}}

K8sRenderCluster(c) ==
  File(<<"streams.yaml">>, {Text("stream", StreamCR(s)) : s \in c.streams})
    ++ File(<<"certificate.yaml">>, Certificate(c))
    ++ File(<<"externalsecret.yaml">>, ExternalSecret(c))
    ++ File(<<"kustomization.yaml">>, Kustomization(c))
    ++ File(<<"servicemonitor.yaml">>, Monitoring(c))
    ++ File(<<"prometheusrule.yaml">>, PrometheusRule(c))
    ++ IF c.isCentral THEN File(<<"credhealth-prometheusrule.yaml">>, CredhealthRule(c)) ELSE << >>

-----------------------------------------------------------------------------
\* helm.go

\* Every brace in the text, whoever put it there.
HelmEscapeBraces(file) ==
  {IF f[2] \in {"braces", "action"} THEN <<f[1], "escaped", f[3]>> ELSE f : f \in file}

\* The sentinels become live references.
ReplaceSentinels(file) ==
  {IF f[2] = "sentinel" THEN <<f[1], "action", f[3]>> ELSE f : f \in file}

\* Seeded fault: the references are put in before the braces are escaped.
HelmTemplatesSwapped(c) ==
  LET rendered == K8sRenderCluster([c EXCEPT !.knobs = [k \in DOMAIN @ |-> <<"sentinel", k>>]])
  IN [n \in DOMAIN rendered \ {<<"kustomization.yaml">>} |->
        HelmEscapeBraces(ReplaceSentinels(rendered[n]))]

HelmTemplates(c) ==
  LET rendered == K8sRenderCluster([c EXCEPT !.knobs = [k \in DOMAIN @ |-> <<"sentinel", k>>]])
  IN [n \in DOMAIN rendered \ {<<"kustomization.yaml">>} |->
        ReplaceSentinels(HelmEscapeBraces(rendered[n]))]

\* K8sRenderer on a slice whose knobs are sentinels; values.yaml has the knobs.
RenderHelmChart(c) ==
  LET templates == HelmTemplates(c)
  IN [f \in {<<"templates/">> \o n : n \in DOMAIN templates} |-> templates[Tail(f)]]
       ++ File(<<"Chart.yaml">>, {Text("name", c.id)})
       ++ File(<<"values.yaml">>, {Text(k, c.knobs[k][2]) : k \in DOMAIN c.knobs})

\* What `helm template` makes of a file: a live reference is looked up, escaped braces
\* are braces again, and bare ones are taken for an action of Helm's and lost.
HelmTemplate(file, values) ==
  {CASE f[2] = "action" -> Text(f[1], (CHOOSE v \in values : v[1] = f[3])[3])
     [] f[2] = "escaped" -> <<f[1], "braces", f[3]>>
     [] f[2] = "braces" -> Text(f[1], None)
     [] OTHER -> f : f \in file}

-----------------------------------------------------------------------------
\* baremetal.go

\* sanitizeHostFilename: ':' and '/' become '-'.
SanitizeHostFilename(h) == FlattenSeq(h)

NatsConf(c, i) ==
  {Text("server", <<c.id, i>>), Text("cluster", c.id), Text("domain", c.domain)}
    \cup {Text("route", c.hosts[j]) : j \in DOMAIN c.hosts \ {i}}
    \cup IF c.isCentral THEN {} ELSE {Text("remote", c.uplink)}

ConfFile(c, i) == <<"nats-">> \o SanitizeHostFilename(c.hosts[i])

BareStream(s) ==
  [name |-> s.name, replicas |-> s.replicas, sources |-> {SourceData(src) : src \in s.sources}]

\* Of the streams with one name, the last in the plan's order.  (buildClusterSlice sorts by
\* name; sort.Slice leaves equal names of a short list in their order.)
Kept(ss) == {s \in ss : IndexStreams(ss)[s.name] = s}

\* nats-<host>.conf per host, the unit, and streams/<NAME>.json per stream.  Of two hosts,
\* or two streams, with one file name the later one's contents stay.
BareMetalRenderCluster(c) ==
  [f \in {ConfFile(c, i) : i \in DOMAIN c.hosts} |->
     NatsConf(c, CHOOSE i \in DOMAIN c.hosts : ConfFile(c, i) = f
                   /\ \A j \in DOMAIN c.hosts : ConfFile(c, j) = f => j <= i)]
    ++ File(<<"nats-server.service">>, {})
    ++ [f \in {<<"streams/">> \o s.name : s \in c.streams} |->
          {Text("stream", BareStream(s)) : s \in {u \in Kept(c.streams) : <<"streams/">> \o u.name = f}}]

-----------------------------------------------------------------------------
\* substrate.go: Dispatch

\* Seeded fault: only the clusters of regional streams.
ByClusterRegional(p) == {s.cluster : s \in {u \in p.streams : u.tier = "regional"}}

\* Clusters that hold a stream; the others get no slice.
ByCluster(p) == {s.cluster : s \in p.streams}

\* A bare-metal slice without hosts is the one error left after Validate.
Dispatchable(p, t) ==
  \A c \in ByCluster(p) : Substrate(t, c) = "bare-metal" => t.substrate[c].hosts # << >>

RenderSlice(p, t, c, output) ==
  LET slice == BuildClusterSlice(p, t, c) IN
  IF Substrate(t, c) = "bare-metal" THEN BareMetalRenderCluster(slice)
    ELSE IF output = "helm" THEN RenderHelmChart(slice) ELSE K8sRenderCluster(slice)

ArgoApp(t, c, output) ==
  {Text("path", <<IF output = "helm" THEN "charts" ELSE "clusters", c>>),
   Text("namespace", t.substrate[c].namespace)}

\* The files of one cluster, under its directory.
Under(dir, c, files) == [q \in {<<dir, c, f>> : f \in DOMAIN files} |-> files[q[3]]]

\* The slice of a cluster and its Argo application.
ClusterFiles(p, t, cfg, c) ==
  Under(SliceDir(t, c, cfg.output), c, RenderSlice(p, t, c, cfg.output))
    ++ IF cfg.argo /\ Substrate(t, c) = "kubernetes"
         THEN Under("argocd", c, File(<<".yaml">>, ArgoApp(t, c, cfg.output))) ELSE << >>

Dispatch(p, t, cfg) ==
  [q \in UNION {DOMAIN ClusterFiles(p, t, cfg, c) : c \in ByCluster(p)} |->
     ClusterFiles(p, t, cfg, q[2])[q]]

-----------------------------------------------------------------------------
\* The whole-plan renderers

RenderDNS(p) == File(<<"leaf-dns.yaml">>, {Text("record", r) : r \in p.dns})

\* diagram.go: streams per cluster, and an edge per source.  The DMZ stream gets one edge,
\* from one central shard (the last by name), whatever it sources.
RenderDiagram(p) ==
  LET centrals == {s \in p.streams : s.tier = "central"}
      edges(s) ==
        CASE s.tier = "central" -> {Text("source", <<src.name, s.name>>) : src \in s.sources}
          [] s.tier = "regional" -> {Text("leaf", <<src.domain, s.name>>) :
                                       src \in {x \in s.sources : x.name = BufferStreamName}}
          [] s.tier = "dmz" -> IF centrals = {} THEN {}
                               ELSE {Text("share", <<(CHOOSE u \in centrals : TRUE).name, s.name>>)}
  IN File(<<"TOPOLOGY.md">>,
          {Text("node", <<s.cluster, s.name>>) : s \in p.streams} \cup UNION {edges(s) : s \in p.streams})

\* runbook.go: every cluster of the spec is listed, with a slice or without.
RenderRunbook(p, t, cfg) ==
  LET dmz == {s \in p.streams : s.tier = "dmz"}
      k8sDir == IF cfg.output = "helm" THEN "charts" ELSE "clusters"
      resource(f) == IF cfg.output = "helm" THEN <<"templates/", f>> ELSE <<f>>
  IN File(<<"DEPLOYMENT-GUIDE.md">>,
       {Text("central", <<SliceDir(t, t.central, cfg.output), t.central>>)}
         \cup {Text("dmz", <<SliceDir(t, s.cluster, cfg.output), s.cluster>>) : s \in dmz}
         \cup {Text("link", <<"dmz-catalog.md">>) : s \in dmz}
         \cup {Text("cluster", <<c, Substrate(t, c), t.endpoint[c]>>) : c \in Clusters}
         \cup {Text("bare-metal", <<c, t.substrate[c].hosts>>) :
                 c \in {d \in Clusters : Substrate(t, d) = "bare-metal"}}
         \cup {Text("resource", <<k8sDir, resource(f)>>) :
                 f \in {"servicemonitor.yaml", "prometheusrule.yaml", "certificate.yaml", "externalsecret.yaml"}}
         \cup {Text("expected", <<s.cluster, s.name>>) : s \in p.streams}
         \cup {Text("cabinets", <<s.name, Cardinality(s.sources)>>) :
                 s \in {u \in p.streams : u.tier = "regional" /\ u.sources # {}}}
         \cup {Text("record", r) : r \in p.dns})

RenderAccounts(t) ==
  File(<<"accounts.conf">>,
    (UNION {{Text("export", <<a, e>>) : e \in Exports(t)[a]} : a \in DOMAIN Exports(t)})
      \cup {Text("import", <<<<"central">>, i>>) : i \in Imports(t).central}
      \cup {Text("import", <<<<"dmz">>, i>>) : i \in Imports(t).dmz}
      \cup {Text("user", u) : u \in Users(t)})

\* catalog.go: nothing without a DMZ.
RenderCatalog(t) ==
  IF t.dmz = None THEN << >> ELSE
    File(<<"dmz-catalog.md">>, {Text("share", <<s.consumer, s.as>>) : s \in t.shares})
      ++ File(<<"dmz-catalog.json">>, {Text("share", <<s.consumer, s.as, s.from>>) : s \in t.shares})

-----------------------------------------------------------------------------
\* cmd/gen run: the maps it merges, in order; REBALANCE.md is there only with -previous.

Rendered(p, t, cfg, rows) ==
  <<Dispatch(p, t, cfg), RenderDNS(p), RenderDiagram(p), RenderRunbook(p, t, cfg),
    RenderAccounts(t), RenderCatalog(t),
    IF rows = None THEN << >> ELSE File(<<"REBALANCE.md">>, {Text("rows", rows)})>>

\* MergeInto refuses a path that two renderers produce.
Mergeable(parts) ==
  \A i, j \in DOMAIN parts : i # j => DOMAIN parts[i] \cap DOMAIN parts[j] = {}

Merged(parts) ==
  [q \in UNION {DOMAIN parts[i] : i \in DOMAIN parts} |->
     parts[CHOOSE i \in DOMAIN parts : q \in DOMAIN parts[i]][q]]

=============================================================================
