------------------------------ MODULE CredHealth ------------------------------
(***************************************************************************)
(* Expiry over the life of a bundle: cmd/credhealth scanning it on a       *)
(* schedule, cmd/issue re-signing it when the scan raises the alarm, and   *)
(* -rotate-expiring choosing cabinets by the same scan.                    *)
(*                                                                         *)
(* A file is its expiry.  A path is <<kind, district, identity>>.  Keys,   *)
(* signatures and revocations are the business of module Issuance; here a  *)
(* run is the order in which it rewrites the time-bound files.             *)
(***************************************************************************)
EXTENDS Integers

CONSTANTS
  Districts, Cabinets, Consumers,
  None,         \* no such file, no such district, no identity
  Torn,         \* a file truncated by os.WriteFile and not yet written, or cut short
  Eternal,      \* a JWT without exp: operator and account JWTs
  Validity,     \* days a user JWT or a client certificate lives
  CAValidity,   \* days the cabinet CA certificate lives
  Skew,         \* pki.clockSkew: certificates are backdated
  Warn,         \* the -warn and -rotate-expiring window
  Period,       \* days between two scheduled scans
  Soon,         \* CredExpiringSoon's threshold, in days
  Critical,     \* CredExpiryCritical's threshold
  StaleAfter,   \* CredHealthStale's threshold
  MaxDay,       \* bound: days modelled
  MaxStops,     \* bound: runs that do not finish
  MaxEdits      \* bound: edits of the inventory

ASSUME HealthSentinelAssumption ==
  /\ None # Torn /\ None # Eternal /\ Torn # Eternal
  /\ {None, Torn, Eternal} \cap (Int \cup Districts \cup Cabinets \cup Consumers) = {}
ASSUME LifetimeAssumption ==
  /\ {Validity, CAValidity, Skew, Warn, Period, MaxDay, MaxStops, MaxEdits} \subseteq Nat
  /\ {Soon, Critical, StaleAfter} \subseteq Nat
  /\ Skew < CAValidity
  /\ Warn + Skew < Validity
  /\ Period <= Warn
  /\ StaleAfter < Critical /\ Critical <= Soon
  /\ StaleAfter + Skew < Validity /\ Validity <= CAValidity

Operator == <<"operator", None, None>>
CACert == <<"ca-cert", None, None>>
Resolver == <<"account", None, None>>     \* resolver/*.jwt, written last, as one file
UserCreds(d, c) == <<"user", d, c>>
ClientCert(d, c) == <<"cert", d, c>>
DMZCreds(x) == <<"dmz", None, x>>

Slots == {UserCreds(d, c) : d \in Districts, c \in Cabinets}
           \cup {ClientCert(d, c) : d \in Districts, c \in Cabinets}
Paths == {Operator, CACert, Resolver} \cup Slots
           \cup {DMZCreds(x) : x \in Consumers}

ASSUME NoPathAssumption == None \notin Paths

VARIABLES
  day,          \* the clock
  inventory,    \* inventory[c]: the district of c's partition; None: not listed
  made,         \* the bundle directory exists
  file,         \* file[p]: expiry of the file at p
  mode,         \* "idle", or the run under way: "plain", "apply", "bare"
  todo,         \* paths the run has still to write
  open,         \* the file being written, or None
  report,       \* the last scan: [at, healthy]
  watch,        \* what the operator answers to: the scans' exit codes, or the alerts
  metrics,      \* the file of -metrics-out: [at, least], or None before the first
  alarm,        \* somebody must act before the day ends
  stops, edits, \* how much of MaxStops and MaxEdits is used up
  applied       \* history: the last thing done was a whole -rotate-expiring --apply

hvars == <<day, inventory, made, file, mode, todo, open, report, metrics, watch, alarm,
           stops, edits, applied>>

Listed == {c \in Cabinets : inventory[c] # None}

HealthInit ==
  /\ day = 0 /\ made = FALSE
  /\ inventory = [c \in Cabinets |-> None]
  /\ file = [p \in Paths |-> None]
  /\ mode = "idle" /\ todo = {} /\ open = None
  /\ report = [at |-> 0, healthy |-> FALSE]
  /\ metrics = None /\ watch \in {"exit-code", "alerts"}
  /\ alarm = FALSE /\ applied = FALSE /\ stops = 0 /\ edits = 0

-----------------------------------------------------------------------------
\* internal/credhealth

\* Seeded fault: the warning window excludes its last day.
ClassifyStrict(expiry, now, warn) ==
  CASE expiry = Eternal -> "NO_EXPIRY"
    [] expiry # Eternal /\ now >= expiry -> "EXPIRED"
    [] expiry # Eternal /\ now < expiry /\ expiry < now + warn -> "EXPIRING"
    [] OTHER -> "OK"

Classify(expiry, now, warn) ==
  CASE expiry = Eternal -> "NO_EXPIRY"
    [] expiry # Eternal /\ now >= expiry -> "EXPIRED"
    [] expiry # Eternal /\ now < expiry /\ expiry <= now + warn -> "EXPIRING"
    [] OTHER -> "OK"

\* Seeded fault: only the JWTs are looked at.
KnownJWTs(p) == p[1] \in {"operator", "account", "user"}

\* recordFor: the files the walk classifies.  dmz/<name>.creds is not one of them.
Known(p) == p[1] \in {"operator", "account", "ca-cert", "user", "cert"}

\* jwtRecord and certRecord: a file that does not parse is an ERROR without identity.
Record(p, now, warn) ==
  [kind |-> p[1],
   identity |-> IF file[p] = Torn THEN None ELSE p[3],
   status |-> IF file[p] = Torn THEN "ERROR" ELSE Classify(file[p], now, warn)]

\* Scan: one record per file that is there.
Records(now, warn) ==
  {Record(p, now, warn) : p \in {q \in Paths : Known(q) /\ file[q] # None}}

Healthy(records) ==
  \A r \in records : r.status \notin {"EXPIRED", "EXPIRING", "ERROR"}

\* selectExpiring: inventory cabinets named by an expiring or expired user or cert
\* record, wherever in the bundle that record's file is.
Selected ==
  {c \in Listed : \E r \in Records(day, Warn) :
     /\ r.kind \in {"user", "cert"}
     /\ r.status \in {"EXPIRING", "EXPIRED"}
     /\ r.identity = c}

LeastOf(S) == CHOOSE n \in S : \A m \in S : n <= m

\* Seeded fault: an expired artifact has no time left to report.
GaugesOfLiving(now) ==
  {file[p] - now : p \in {q \in Paths : Known(q) /\ file[q] \in Nat /\ now < file[q]}}

\* WriteMetrics: the days each artifact has left at the time of the scan, negative once it
\* is past.  A record without an expiry, an ERROR above all, has no gauge.
Gauges(now) == {file[p] - now : p \in {q \in Paths : Known(q) /\ file[q] \in Nat}}

\* The exposition.  Alerts compare each gauge with a threshold, so of the gauges the
\* smallest is kept.
Exposition(now) ==
  [at |-> now, least |-> IF Gauges(now) = {} THEN None ELSE LeastOf(Gauges(now))]

\* cmd/credhealth.  The exit code is 0 for a healthy report; a missing directory is an
\* error.  With -metrics-out (for whoever watches the alerts) the file is replaced by a
\* rename, last: an error on the way leaves the previous one, and nobody reads the code.
\* What nobody looks at is not kept.  Scan walks the directory file by file; beside a run
\* that rewrites files, reading them all at once is the harder case for a healthy report,
\* since a rewrite only moves an expiry later.
RunScan(metricsWritten) ==
  /\ IF watch = "exit-code"
     THEN /\ report' = [at |-> day, healthy |-> made /\ Healthy(Records(day, Warn))]
          /\ alarm' = (alarm \/ ~report'.healthy)
          /\ UNCHANGED metrics
     ELSE /\ metrics' = IF made /\ metricsWritten THEN Exposition(day) ELSE metrics
          /\ UNCHANGED <<report, alarm>>
  /\ UNCHANGED <<day, inventory, made, file, mode, todo, open, watch, applied, stops, edits>>

\* The alerts of credhealth-prometheusrule.yaml.  A series that was never scraped
\* satisfies no expression.
Below(threshold) == metrics # None /\ metrics.least # None /\ metrics.least < threshold
CredExpiringSoon == Below(Soon)
CredExpiryCritical == Below(Critical)
CredExpired == Below(0)
CredHealthStale == metrics # None /\ day - metrics.at > StaleAfter

-----------------------------------------------------------------------------
\* cmd/issue, seen as a writer of time-bound files

\* Seeded fault: a certificate that is already there is kept.
RewrittenKeepingCerts(m) ==
  {Operator, Resolver} \cup {DMZCreds(x) : x \in Consumers}
    \cup IF m = "bare" THEN {}
         ELSE ({CACert} \cap {p \in Paths : file[p] = None})
                \cup {UserCreds(inventory[c], c) : c \in Listed}
                \cup ({ClientCert(inventory[c], c) : c \in Listed}
                        \cap {p \in Paths : file[p] = None})

\* What a run rewrites.  The CA is minted once; cabinets only with -cabinets ("bare" is a
\* run without it), each in the slot of its present district.  (The CA's key is not kept
\* here: that LoadOrCreateCA refuses a certificate without its key is one of the ways in
\* which StopRun ends a run; Issuance models it.)
Rewritten(m) ==
  {Operator, Resolver} \cup {DMZCreds(x) : x \in Consumers}
    \cup IF m = "bare" THEN {}
         ELSE ({CACert} \cap {p \in Paths : file[p] = None})
                \cup {UserCreds(inventory[c], c) : c \in Listed}
                \cup {ClientCert(inventory[c], c) : c \in Listed}

\* run: -rotate-expiring scans first, and fails on a directory that is not there.
\* Rotation changes keys, never which files are written: Selected only chooses whom to
\* re-key.  LoadOrCreateCA refuses a torn CA certificate before any cabinet is written.
StartRun(m) ==
  /\ mode = "idle"
  /\ m = "apply" => made
  /\ mode' = m /\ todo' = Rewritten(m) /\ made' = TRUE /\ applied' = FALSE
  /\ UNCHANGED <<day, inventory, file, open, report, metrics, watch, alarm, stops, edits>>

Stage(p) ==
  CASE p[1] = "operator" -> 1
    [] p[1] = "ca-cert" -> 2
    [] p[1] \in {"user", "cert"} -> 3
    [] p[1] = "dmz" -> 4
    [] p[1] = "account" -> 5

\* The order of IssueWithRotation: stage by stage, and in the cabinet loop the creds of a
\* cabinet, then its certificate, then the next cabinet.
NextFile(p) ==
  /\ p \in todo
  /\ \A q \in todo : Stage(p) <= Stage(q)
  /\ p[1] = "user" => \A q \in todo : q[1] = "cert" => UserCreds(q[2], q[3]) \in todo
  /\ p[1] = "cert" => UserCreds(p[2], p[3]) \notin todo

\* mintCabinets stops at a CA certificate that is there and does not parse.
CARefused ==
  /\ file[CACert] = Torn /\ mode # "bare"
  /\ open = None /\ \A p \in todo : Stage(p) > 1

OpenFile(p) ==
  /\ mode # "idle" /\ open = None /\ ~CARefused
  /\ NextFile(p)
  /\ open' = p /\ todo' = todo \ {p}
  /\ file' = [file EXCEPT ![p] = Torn]
  /\ UNCHANGED <<day, inventory, made, mode, report, metrics, watch, alarm, applied, stops, edits>>

\* Seeded fault: a user JWT is encoded without Expires.
ExpiryUnset(p) ==
  CASE p[1] = "cert" -> (day + Validity) - Skew
    [] p[1] = "ca-cert" -> (day + CAValidity) - Skew
    [] OTHER -> Eternal

Expiry(p) ==
  CASE p[1] \in {"user", "dmz"} -> day + Validity
    [] p[1] = "cert" -> (day + Validity) - Skew
    [] p[1] = "ca-cert" -> (day + CAValidity) - Skew
    [] OTHER -> Eternal

CloseFile ==
  /\ open # None
  /\ file' = [file EXCEPT ![open] = Expiry(open)]
  /\ open' = None
  /\ UNCHANGED <<day, inventory, made, mode, todo, report, metrics, watch, alarm, applied, stops, edits>>

FinishRun ==
  /\ mode # "idle" /\ todo = {} /\ open = None
  /\ mode' = "idle"
  /\ alarm' = (alarm /\ (mode = "bare" \/ Record(CACert, day, Warn).status # "OK"))
  /\ applied' = (mode = "apply")
  /\ UNCHANGED <<day, inventory, made, file, todo, open, report, metrics, watch, stops, edits>>

\* A run is killed or a step of it fails.  The file being written stays truncated, or is
\* there as far as a scan can tell: a .creds cut within the seed still has its JWT.
StopRun ==
  /\ mode # "idle" /\ stops < MaxStops
  /\ \/ UNCHANGED file
     \/ open # None /\ file' = [file EXCEPT ![open] = Expiry(open)]
  /\ mode' = "idle" /\ todo' = {} /\ open' = None /\ stops' = stops + 1
  /\ UNCHANGED <<day, inventory, made, report, metrics, watch, alarm, applied, edits>>

-----------------------------------------------------------------------------
\* The operator

\* A row of the inventory is added, moved to another district or dropped; whoever edits
\* it runs cmd/issue the same day.  A run reads the inventory when it starts, so an
\* edit during a run is an edit after it.
EditInventory(c, d) ==
  /\ mode = "idle" /\ inventory[c] # d /\ edits < MaxEdits
  /\ inventory' = [inventory EXCEPT ![c] = d]
  /\ alarm' = (watch = "exit-code") /\ applied' = FALSE /\ edits' = edits + 1
  /\ UNCHANGED <<day, made, file, mode, todo, open, report, metrics, watch, stops>>

\* The CA is near its end, expired or damaged: its files are deleted by hand and the
\* next run makes a new one.
DeleteCA ==
  /\ mode = "idle" /\ file[CACert] # None
  /\ Record(CACert, day, Warn).status # "OK"
  /\ file' = [file EXCEPT ![CACert] = None]
  /\ alarm' = (watch = "exit-code") /\ applied' = FALSE
  /\ UNCHANGED <<day, inventory, made, mode, todo, open, report, metrics, watch, stops, edits>>

\* A day passes; a run takes less than a day.  Whoever watches the exit code answers the
\* alarm first, and two scheduled scans are never more than Period days apart.  Whoever
\* watches the alerts only promises nothing: the scans themselves may stop.
Tick ==
  /\ mode = "idle" /\ day < MaxDay
  /\ watch = "exit-code" => ~alarm /\ day < report.at + Period
  /\ day' = day + 1 /\ applied' = FALSE
  /\ UNCHANGED <<inventory, made, file, mode, todo, open, report, metrics, watch, alarm, stops, edits>>

HealthNext ==
  \/ \E ok \in BOOLEAN : RunScan(ok)
  \/ \E m \in {"plain", "apply", "bare"} : StartRun(m)
  \/ \E p \in Paths : OpenFile(p)
  \/ CloseFile \/ FinishRun \/ StopRun
  \/ \E c \in Cabinets, d \in Districts \cup {None} : EditInventory(c, d)
  \/ DeleteCA \/ Tick

HealthSpec == HealthInit /\ [][HealthNext]_hvars

-----------------------------------------------------------------------------
\* Properties

Deployed == {UserCreds(inventory[c], c) : c \in Listed}
              \cup {ClientCert(inventory[c], c) : c \in Listed}

\* Every variable keeps its shape, and a run in progress has at most one file open, one
\* that it has taken off its list.
HealthTypeOK ==
  /\ day \in 0..MaxDay /\ made \in BOOLEAN
  /\ inventory \in [Cabinets -> Districts \cup {None}]
  /\ file \in [Paths -> Nat \cup {None, Torn, Eternal}]
  /\ \A p \in Paths : file[p] = Eternal => p[1] \in {"operator", "account"}
  /\ mode \in {"idle", "plain", "apply", "bare"}
  /\ todo \subseteq Paths /\ open \in Paths \cup {None} /\ open \notin todo
  /\ mode = "idle" => todo = {} /\ open = None
  /\ report \in [at : 0..day, healthy : BOOLEAN]
  /\ metrics # None => metrics.at \in 0..day /\ metrics.least \in Int \cup {None}
  /\ alarm \in BOOLEAN /\ applied \in BOOLEAN
  /\ stops \in 0..MaxStops /\ edits \in 0..MaxEdits

\* The files of cabinets, in whatever slot, and the CA certificate they hang on.
Watched == Slots \cup {CACert}

\* Healthy is a promise about the future: after an all-clear no user JWT and no client
\* certificate of the bundle, in whatever slot, and not the CA certificate either,
\* expires for Warn more days, runs, moves and interrupted runs notwithstanding.
AllClear ==
  report.healthy /\ day <= report.at + Warn =>
    \A p \in Watched : file[p] \in Nat => day < file[p]

\* The point of the schedule: when nothing is left to act on, no credential that a
\* listed cabinet is deployed with has expired, and neither has the CA: a certificate
\* signed near the CA's end outlives it, so renewing certificates is not enough.
NoOutage ==
  watch = "exit-code" /\ ~alarm =>
    \A p \in Deployed \cup {CACert} : file[p] \in Nat => day < file[p]

\* The alerts are worth watching alone.  However scans, metrics writes and runs fail, stop
\* or overlap, once there is a metrics file and neither the critical nor the stale alert
\* fires, nothing a cabinet depends on has expired; and CredExpired never fires alone.
SilenceIsSafe ==
  /\ metrics # None /\ ~CredExpiryCritical /\ ~CredHealthStale =>
       \A p \in Watched : file[p] \in Nat => day < file[p]
  /\ CredExpired => CredExpiryCritical /\ CredExpiringSoon

\* After a whole -rotate-expiring --apply nothing a cabinet is deployed with is in the
\* window, and what still makes the same command select a cabinet is a file of a slot
\* the cabinet no longer has.
OwnSlotsSettle ==
  applied =>
    /\ \A p \in Deployed : Record(p, day, Warn).status \notin {"EXPIRING", "EXPIRED"}
    /\ \A c \in Selected : \E p \in Slots \ Deployed : p[3] = c /\ file[p] \in Nat

\* The package comment: each time-bound artifact is classified.  So a scan that finds
\* nothing to attend to has seen no expired JWT, DMZ consumers' included.
HealthyCoversDMZ ==
  report.healthy /\ report.at = day =>
    \A x \in Consumers : file[DMZCreds(x)] \in Nat => day < file[DMZCreds(x)]

=============================================================================
