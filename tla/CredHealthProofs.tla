-------------------------- MODULE CredHealthProofs --------------------------
(***************************************************************************)
(* Machine-checked proofs about CredHealth: what a healthy report, a       *)
(* finished run and silent alerts promise about expiry, for every set of   *)
(* districts, cabinets and consumers and every choice of lifetimes and     *)
(* thresholds that satisfies LifetimeAssumption.                           *)
(***************************************************************************)
EXTENDS CredHealth, WellFoundedInduction, TLAPS

-----------------------------------------------------------------------------
\* The inductive invariants

\* Nothing expires at p until after day t.
Outlives(p, t) == file[p] \in Nat => file[p] > t

\* An all-clear is kept by everything that is written after it.
ClearInv == report.healthy => \A p \in Watched : Outlives(p, report.at + Warn)

\* Whoever answers the exit code is never more than a scan period from a moment when all
\* that is deployed was out of the warning window.
ScheduleInv ==
  watch = "exit-code" =>
    /\ day <= report.at + Period
    /\ ~alarm => \A p \in Deployed \cup {CACert} : Outlives(p, report.at + Warn)

\* A run of the inventory leaves each file it has closed out of the warning window.
Renewed(p) == file[p] \in Nat /\ file[p] > day + Warn
RunInv ==
  mode \in {"plain", "apply"} =>
    \A p \in Deployed : p \in todo \/ (open # None /\ p = open) \/ Renewed(p)
AppliedInv == applied => mode = "idle" /\ \A p \in Deployed : Renewed(p)

\* A metrics file either shows a watched artifact's expiry or was written before it.
MetricsInv ==
  metrics # None =>
    \A p \in Watched : file[p] \in Nat =>
      \/ file[p] > metrics.at + StaleAfter
      \/ metrics.least # None /\ file[p] - metrics.at >= metrics.least

HealthInv == ClearInv /\ ScheduleInv /\ RunInv /\ AppliedInv /\ MetricsInv

-----------------------------------------------------------------------------
\* Facts about the operators

\* A path's kind says which part of the bundle it belongs to.
LEMMA PathKinds ==
  /\ CACert \in Paths /\ CACert[1] = "ca-cert" /\ CACert \notin Slots
  /\ Slots \subseteq Paths
  /\ \A p \in Slots : p[1] \in {"user", "cert"}
  /\ \A p \in Paths : /\ p[1] \in {"operator", "account", "ca-cert", "user", "cert", "dmz"}
                      /\ p[1] \in {"user", "cert"} => p \in Slots
BY DEF Paths, Slots, Operator, CACert, Resolver, UserCreds, ClientCert, DMZCreds

\* The lifetimes, as the proofs use them.
LEMMA Lifetimes ==
  /\ Validity \in Nat /\ CAValidity \in Nat /\ Skew \in Nat /\ Warn \in Nat
  /\ Period \in Nat /\ MaxDay \in Nat /\ MaxStops \in Nat /\ MaxEdits \in Nat
  /\ Soon \in Nat /\ Critical \in Nat /\ StaleAfter \in Nat
BY LifetimeAssumption

\* What a run writes: an expiry beyond every window for the files of cabinets and the CA,
\* none for the operator's and the accounts' JWTs.
LEMMA ExpiryFacts ==
  ASSUME day \in Nat, NEW p \in Paths
  PROVE  /\ Expiry(p) \in Nat \cup {Eternal}
         /\ Expiry(p) = Eternal => p[1] \in {"operator", "account"}
         /\ p \in Watched =>
              Expiry(p) \in Nat /\ Expiry(p) > day + Warn /\ Expiry(p) > day + StaleAfter
<1> USE Lifetimes, LifetimeAssumption
<1>0. \A n \in Nat : n # Eternal
  BY HealthSentinelAssumption
<1>1. CASE p[1] \in {"user", "dmz"}
  <2>1. Expiry(p) = day + Validity
    BY <1>1 DEF Expiry
  <2> QED BY <1>0, <2>1
<1>2. CASE p[1] = "cert"
  <2>1. Expiry(p) = (day + Validity) - Skew
    BY <1>2 DEF Expiry
  <2> QED BY <1>0, <2>1
<1>3. CASE p[1] = "ca-cert"
  <2>1. Expiry(p) = (day + CAValidity) - Skew
    BY <1>3 DEF Expiry
  <2> QED BY <1>0, <2>1
<1>4. CASE p[1] \in {"operator", "account"}
  <2>1. Expiry(p) = Eternal
    BY <1>4 DEF Expiry
  <2>2. p \notin Watched
    BY <1>4, PathKinds DEF Watched
  <2> QED BY <1>4, <2>1, <2>2
<1> QED BY <1>1, <1>2, <1>3, <1>4, PathKinds

\* A scan's OK and its alternatives, for a file that has an expiry.
LEMMA Classified ==
  ASSUME NEW e \in Nat, NEW now \in Nat
  PROVE  /\ Classify(e, now, Warn) \in {"EXPIRED", "EXPIRING", "OK"}
         /\ Classify(e, now, Warn) = "OK" <=> e > now + Warn
<1>0. e # Eternal /\ Warn \in Nat
  BY HealthSentinelAssumption, Lifetimes
<1>1. CASE now >= e
  BY <1>0, <1>1 DEF Classify
<1>2. CASE now < e /\ e <= now + Warn
  BY <1>0, <1>2 DEF Classify
<1>3. CASE e > now + Warn
  BY <1>0, <1>3 DEF Classify
<1> QED BY <1>0, <1>1, <1>2, <1>3

\* Every set of naturals that is not empty has a least element.
LEMMA LeastNatural ==
  ASSUME NEW T, T \subseteq Nat, T # {}
  PROVE  \E x \in T : \A y \in T : x <= y
<1> DEFINE R == OpToRel(<, Nat)
<1>1. IsWellFoundedOn(R, Nat)
  BY NatLessThanWellFounded
<1>2. \A x, y \in Nat : y < x => <<y, x>> \in R
  BY DEF OpToRel
<1> HIDE DEF R
<1>3. PICK x \in T : \A y \in T : ~(<<y, x>> \in R)
  BY <1>1, WFMin
<1>4. ASSUME NEW y \in T PROVE x <= y
  <2>1. ~(<<y, x>> \in R) /\ x \in Nat /\ y \in Nat
    BY <1>3
  <2>2. ~(y < x)
    BY <1>2, <2>1
  <2> QED BY <2>1, <2>2
<1> QED BY <1>4

\* WriteMetrics' smallest gauge is one of the gauges, and no gauge is below it.
LEMMA LeastGauge ==
  ASSUME day \in Nat, file \in [Paths -> Nat \cup {None, Torn, Eternal}], Gauges(day) # {}
  PROVE  /\ LeastOf(Gauges(day)) \in Int
         /\ \A g \in Gauges(day) : LeastOf(Gauges(day)) <= g
<1> DEFINE T == {file[p] : p \in {q \in Paths : Known(q) /\ file[q] \in Nat}}
<1>1. T \subseteq Nat /\ T # {}
  BY DEF Gauges
<1>2. PICK x \in T : \A y \in T : x <= y
  <2> HIDE DEF T
  <2> QED BY <1>1, LeastNatural
<1>3. /\ x - day \in Gauges(day)
      /\ \A g \in Gauges(day) : g \in Int /\ x - day <= g
  BY <1>1, <1>2 DEF Gauges
<1>4. /\ LeastOf(Gauges(day)) \in Gauges(day)
      /\ \A g \in Gauges(day) : LeastOf(Gauges(day)) <= g
  BY <1>3 DEF LeastOf
<1> QED BY <1>3, <1>4

-----------------------------------------------------------------------------
\* Types

\* A scan of either kind keeps the types; the metrics file's least gauge is an integer.
LEMMA ScanTypes ==
  ASSUME HealthTypeOK, NEW ok \in BOOLEAN, RunScan(ok)
  PROVE  HealthTypeOK'
<1> USE Lifetimes
<1>0. day \in Nat /\ day \in 0..day
  BY DEF HealthTypeOK
<1>1. report' \in [at : 0..day, healthy : BOOLEAN] /\ alarm' \in BOOLEAN
  <2>1. CASE watch = "exit-code"
    <3>1. (made /\ Healthy(Records(day, Warn))) \in BOOLEAN
      OBVIOUS
    <3>2. report' \in [at : 0..day, healthy : BOOLEAN]
      <4> DEFINE h == made /\ Healthy(Records(day, Warn))
      <4>1. report' = [at |-> day, healthy |-> h]
        BY <2>1 DEF RunScan
      <4>2. h \in BOOLEAN
        BY <3>1
      <4> HIDE DEF h
      <4> QED BY <1>0, <4>1, <4>2
    <3>3. alarm' = (alarm \/ ~report'.healthy)
      BY <2>1 DEF RunScan
    <3> QED BY <3>2, <3>3
  <2>2. CASE watch # "exit-code"
    BY <2>2 DEF RunScan, HealthTypeOK
  <2> QED BY <2>1, <2>2
<1>2. metrics' # None => metrics'.at \in 0..day /\ metrics'.least \in Int \cup {None}
  <2>1. CASE metrics' = metrics
    BY <2>1 DEF HealthTypeOK
  <2>2. CASE metrics' = Exposition(day)
    <3>1. Gauges(day) # {} => LeastOf(Gauges(day)) \in Int
      BY <1>0, LeastGauge DEF HealthTypeOK
    <3> QED BY <1>0, <2>2, <3>1 DEF Exposition
  <2> QED BY <2>1, <2>2 DEF RunScan
<1> QED BY <1>1, <1>2 DEF HealthTypeOK, RunScan

\* A run starts with paths of the bundle on its list.
LEMMA StartTypes ==
  ASSUME HealthTypeOK, NEW m \in {"plain", "apply", "bare"}, StartRun(m)
  PROVE  HealthTypeOK'
<1>1. Rewritten(m) \subseteq Paths
  <2>1. \A c \in Listed : inventory[c] \in Districts /\ c \in Cabinets
    BY DEF Listed, HealthTypeOK
  <2> QED BY <2>1 DEF Rewritten, Paths, Slots
<1> QED BY <1>1, NoPathAssumption DEF HealthTypeOK, StartRun

\* Opening a file truncates it; no other file changes.
LEMMA OpenTypes ==
  ASSUME HealthTypeOK, NEW p \in Paths, OpenFile(p)
  PROVE  HealthTypeOK'
<1>1. /\ file' \in [Paths -> Nat \cup {None, Torn, Eternal}]
      /\ \A q \in Paths : file'[q] = Eternal => q[1] \in {"operator", "account"}
  BY HealthSentinelAssumption DEF HealthTypeOK, OpenFile
<1> QED BY <1>1 DEF HealthTypeOK, OpenFile

\* Completing the open file gives it an expiry of its kind.
LEMMA WrittenTypes ==
  ASSUME HealthTypeOK, open # None, file' = [file EXCEPT ![open] = Expiry(open)]
  PROVE  /\ file' \in [Paths -> Nat \cup {None, Torn, Eternal}]
         /\ \A q \in Paths : file'[q] = Eternal => q[1] \in {"operator", "account"}
<1>1. open \in Paths /\ day \in Nat
  BY Lifetimes DEF HealthTypeOK
<1>2. /\ Expiry(open) \in Nat \cup {Eternal}
      /\ Expiry(open) = Eternal => open[1] \in {"operator", "account"}
  BY <1>1, ExpiryFacts
<1> QED BY <1>1, <1>2 DEF HealthTypeOK

LEMMA CloseTypes ==
  ASSUME HealthTypeOK, CloseFile
  PROVE  HealthTypeOK'
<1>1. /\ file' \in [Paths -> Nat \cup {None, Torn, Eternal}]
      /\ \A q \in Paths : file'[q] = Eternal => q[1] \in {"operator", "account"}
  BY WrittenTypes DEF CloseFile
<1> QED BY <1>1, NoPathAssumption DEF HealthTypeOK, CloseFile

LEMMA FinishTypes ==
  ASSUME HealthTypeOK, FinishRun
  PROVE  HealthTypeOK'
<1>1. alarm' \in BOOLEAN
  BY DEF HealthTypeOK, FinishRun
<1>2. applied' \in BOOLEAN
  BY DEF FinishRun
<1> QED BY <1>1, <1>2 DEF HealthTypeOK, FinishRun

LEMMA StopTypes ==
  ASSUME HealthTypeOK, StopRun
  PROVE  HealthTypeOK'
<1>1. /\ file' \in [Paths -> Nat \cup {None, Torn, Eternal}]
      /\ \A q \in Paths : file'[q] = Eternal => q[1] \in {"operator", "account"}
  <2>1. CASE UNCHANGED file
    BY <2>1 DEF HealthTypeOK
  <2>2. CASE open # None /\ file' = [file EXCEPT ![open] = Expiry(open)]
    BY <2>2, WrittenTypes
  <2> QED BY <2>1, <2>2 DEF StopRun
<1>2. stops' \in 0..MaxStops
  BY Lifetimes DEF HealthTypeOK, StopRun
<1> QED BY <1>1, <1>2, NoPathAssumption DEF HealthTypeOK, StopRun

LEMMA OperatorTypes ==
  ASSUME HealthTypeOK,
         \/ \E c \in Cabinets, d \in Districts \cup {None} : EditInventory(c, d)
         \/ DeleteCA
         \/ Tick
  PROVE  HealthTypeOK'
<1> USE Lifetimes
<1>1. ASSUME NEW c \in Cabinets, NEW d \in Districts \cup {None}, EditInventory(c, d)
      PROVE  HealthTypeOK'
  <2>1. inventory' \in [Cabinets -> Districts \cup {None}]
    BY <1>1 DEF HealthTypeOK, EditInventory
  <2>3. edits' \in 0..MaxEdits
    <3>1. edits \in 0..MaxEdits /\ edits < MaxEdits /\ edits' = edits + 1
      BY <1>1 DEF HealthTypeOK, EditInventory
    <3> QED BY <3>1
  <2>2. alarm' \in BOOLEAN /\ applied' \in BOOLEAN
    BY <1>1 DEF EditInventory
  <2> QED BY <1>1, <2>1, <2>2, <2>3 DEF HealthTypeOK, EditInventory
<1>2. CASE DeleteCA
  <2>1. /\ file' \in [Paths -> Nat \cup {None, Torn, Eternal}]
        /\ \A q \in Paths : file'[q] = Eternal => q[1] \in {"operator", "account"}
    BY <1>2, HealthSentinelAssumption DEF HealthTypeOK, DeleteCA
  <2>2. alarm' \in BOOLEAN /\ applied' \in BOOLEAN
    BY <1>2 DEF DeleteCA
  <2> QED BY <1>2, <2>1, <2>2 DEF HealthTypeOK, DeleteCA
<1>3. CASE Tick
  <2>0. day \in Nat /\ day < MaxDay /\ day' = day + 1
    <3>1. day \in 0..MaxDay
      BY DEF HealthTypeOK
    <3>2. day < MaxDay /\ day' = day + 1
      BY <1>3 DEF Tick
    <3> QED BY <3>1, <3>2
  <2>1. day' \in 0..MaxDay /\ 0..day \subseteq 0..day'
    BY <2>0
  <2>2. report' \in [at : 0..day', healthy : BOOLEAN]
    BY <1>3, <2>1 DEF HealthTypeOK, Tick
  <2>3. metrics' # None => metrics'.at \in 0..day' /\ metrics'.least \in Int \cup {None}
    BY <1>3, <2>1 DEF HealthTypeOK, Tick
  <2> QED BY <1>3, <2>1, <2>2, <2>3 DEF HealthTypeOK, Tick
<1> QED BY <1>1, <1>2, <1>3

\* Type correctness of the bundle's expiry state: every file is missing, truncated, without
\* expiry or dated, only operator and account JWTs are without, the clock never passes a
\* scan's date by going back, and a run has at most one file open (os.WriteFile).
THEOREM HealthTypeCorrect == HealthSpec => []HealthTypeOK
<1>1. HealthInit => HealthTypeOK
  <2> SUFFICES ASSUME HealthInit PROVE HealthTypeOK
    OBVIOUS
  <2>0. day = 0 /\ stops = 0 /\ edits = 0 /\ report = [at |-> 0, healthy |-> FALSE]
    BY DEF HealthInit
  <2>1. /\ day \in 0..MaxDay /\ stops \in 0..MaxStops /\ edits \in 0..MaxEdits
        /\ report \in [at : 0..day, healthy : BOOLEAN]
    BY <2>0, Lifetimes
  <2>2. made \in BOOLEAN /\ alarm \in BOOLEAN /\ applied \in BOOLEAN
    BY DEF HealthInit
  <2>3. /\ file \in [Paths -> Nat \cup {None, Torn, Eternal}]
        /\ \A p \in Paths : file[p] = Eternal => p[1] \in {"operator", "account"}
    BY HealthSentinelAssumption DEF HealthInit
  <2>4. inventory \in [Cabinets -> Districts \cup {None}]
    BY DEF HealthInit
  <2> QED BY <2>1, <2>2, <2>3, <2>4 DEF HealthInit, HealthTypeOK
<1>2. HealthTypeOK /\ [HealthNext]_hvars => HealthTypeOK'
  <2> SUFFICES ASSUME HealthTypeOK, [HealthNext]_hvars PROVE HealthTypeOK'
    OBVIOUS
  <2>1. CASE \E ok \in BOOLEAN : RunScan(ok)
    BY <2>1, ScanTypes
  <2>2. CASE \E m \in {"plain", "apply", "bare"} : StartRun(m)
    BY <2>2, StartTypes
  <2>3. CASE \E p \in Paths : OpenFile(p)
    BY <2>3, OpenTypes
  <2>4. CASE CloseFile \/ FinishRun \/ StopRun
    BY <2>4, CloseTypes, FinishTypes, StopTypes
  <2>5. CASE \/ \E c \in Cabinets, d \in Districts \cup {None} : EditInventory(c, d)
             \/ DeleteCA \/ Tick
    BY <2>5, OperatorTypes
  <2>6. CASE UNCHANGED hvars
    BY <2>6 DEF hvars, HealthTypeOK
  <2> QED BY <2>1, <2>2, <2>3, <2>4, <2>5, <2>6 DEF HealthNext
<1> QED BY <1>1, <1>2, PTL DEF HealthSpec

-----------------------------------------------------------------------------
\* What a step may do

\* What a listed cabinet is deployed with is in the slots of its present district.
LEMMA DeployedInSlots ==
  ASSUME HealthTypeOK
  PROVE  Deployed \subseteq Slots
<1>1. \A c \in Listed : inventory[c] \in Districts /\ c \in Cabinets
  BY DEF Listed, HealthTypeOK
<1> QED BY <1>1 DEF Deployed, Slots

\* Scans and metrics files are never from the future.
LEMMA Dates ==
  ASSUME HealthTypeOK
  PROVE  /\ day \in Nat /\ report.at \in Nat /\ report.at <= day
         /\ metrics # None =>
              /\ metrics.at \in Nat /\ metrics.at <= day
              /\ metrics.least \in Int \cup {None}
<1>1. day \in Nat
  BY DEF HealthTypeOK
<1>2. report.at \in 0..day
  BY DEF HealthTypeOK
<1>3. metrics # None => metrics.at \in 0..day /\ metrics.least \in Int \cup {None}
  BY DEF HealthTypeOK
<1> QED BY <1>1, <1>2, <1>3

\* A file of a cabinet, or the CA certificate, that a scan passes as OK.
LEMMA RecordOK ==
  ASSUME HealthTypeOK, NEW p \in Watched, file[p] \in Nat
  PROVE  /\ Record(p, day, Warn).status \in {"EXPIRED", "EXPIRING", "OK"}
         /\ Record(p, day, Warn).status = "OK" <=> file[p] > day + Warn
<1>1. file[p] # Torn
  BY HealthSentinelAssumption
<1>2. Record(p, day, Warn).status = Classify(file[p], day, Warn)
  BY <1>1 DEF Record
<1> QED BY <1>2, Classified, Dates

\* Healthy: every watched file that the walk finds is past the window.
LEMMA HealthyScan ==
  ASSUME HealthTypeOK, Healthy(Records(day, Warn))
  PROVE  \A p \in Watched : Outlives(p, day + Warn)
<1> SUFFICES ASSUME NEW p \in Watched, file[p] \in Nat PROVE file[p] > day + Warn
  BY DEF Outlives
<1>1. p \in Paths /\ Known(p)
  BY PathKinds DEF Watched, Known
<1>2. file[p] # None
  BY HealthSentinelAssumption
<1>3. Record(p, day, Warn) \in Records(day, Warn)
  BY <1>1, <1>2 DEF Records
<1> QED BY <1>3, RecordOK DEF Healthy

\* Writing the open file.
LEMMA OpenWritten ==
  ASSUME HealthTypeOK, open # None, file' = [file EXCEPT ![open] = Expiry(open)],
         NEW p \in Watched
  PROVE  \/ p # open /\ file'[p] = file[p]
         \/ p = open /\ file'[p] = Expiry(p) /\ Expiry(p) \in Nat
              /\ Expiry(p) > day + Warn /\ Expiry(p) > day + StaleAfter
<1>1. open \in Paths /\ p \in Paths
  BY PathKinds DEF HealthTypeOK, Watched
<1>2. /\ Expiry(p) \in Nat
      /\ Expiry(p) > day + Warn /\ Expiry(p) > day + StaleAfter
  BY <1>1, Dates, ExpiryFacts
<1> QED BY <1>1, <1>2 DEF HealthTypeOK

\* No step shortens the life of a watched file except by removing or truncating it: what
\* it writes is past both windows, counted from the day of the step.
LEMMA WritesAreFresh ==
  ASSUME HealthTypeOK, HealthNext, NEW p \in Watched, file'[p] \in Nat
  PROVE  \/ file'[p] = file[p]
         \/ file'[p] > day + Warn /\ file'[p] > day + StaleAfter
<1>0. p \in Paths /\ CACert \in Paths /\ Torn \notin Nat /\ None \notin Nat
  BY PathKinds, HealthSentinelAssumption DEF Watched
<1>1. CASE UNCHANGED file
  BY <1>1
<1>2. ASSUME NEW q \in Paths, OpenFile(q) PROVE file'[p] = file[p]
  BY <1>0, <1>2 DEF OpenFile, HealthTypeOK
<1>3. CASE open # None /\ file' = [file EXCEPT ![open] = Expiry(open)]
  BY <1>3, OpenWritten
<1>4. CASE DeleteCA
  BY <1>0, <1>4 DEF DeleteCA, HealthTypeOK
<1> QED BY <1>1, <1>2, <1>3, <1>4
        DEF HealthNext, RunScan, StartRun, CloseFile, FinishRun, StopRun, EditInventory, Tick

\* Only a scan for the exit code reports; it reports on the day it runs, and raises the
\* alarm unless the bundle is healthy.
LEMMA ReportWriter ==
  ASSUME HealthNext, report' # report
  PROVE  /\ watch = "exit-code" /\ report'.at = day
         /\ report'.healthy => Healthy(Records(day, Warn))
         /\ alarm' = (alarm \/ ~report'.healthy)
         /\ UNCHANGED <<day, inventory, file, watch>>
<1>1. PICK ok \in BOOLEAN : RunScan(ok)
  BY DEF HealthNext, StartRun, OpenFile, CloseFile, FinishRun, StopRun, EditInventory,
         DeleteCA, Tick
<1>2. watch = "exit-code"
  BY <1>1 DEF RunScan
<1>3. /\ report' = [at |-> day, healthy |-> made /\ Healthy(Records(day, Warn))]
      /\ alarm' = (alarm \/ ~report'.healthy)
  BY <1>1, <1>2 DEF RunScan
<1> QED BY <1>1, <1>2, <1>3 DEF RunScan

\* Whoever watches the exit code is left without an alarm only if there was none, and then
\* the inventory is as it was, or if a run of the inventory has just finished under a CA
\* that is out of the window.
LEMMA AlarmCleared ==
  ASSUME HealthTypeOK, HealthNext, watch = "exit-code", ~alarm'
  PROVE  /\ UNCHANGED inventory
         /\ ~alarm \/ ( /\ FinishRun /\ mode \in {"plain", "apply"}
                        /\ Record(CACert, day, Warn).status = "OK" )
<1>1. ASSUME NEW ok \in BOOLEAN, RunScan(ok) PROVE UNCHANGED inventory /\ ~alarm
  <2>1. alarm' = (alarm \/ ~report'.healthy) /\ UNCHANGED inventory
    BY <1>1 DEF RunScan
  <2> QED BY <2>1
<1>2. ASSUME NEW m, StartRun(m) PROVE UNCHANGED inventory /\ ~alarm
  <2>1. UNCHANGED <<inventory, alarm>>
    BY <1>2 DEF StartRun
  <2> QED BY <2>1
<1>3. ASSUME NEW p, OpenFile(p) PROVE UNCHANGED inventory /\ ~alarm
  <2>1. UNCHANGED <<inventory, alarm>>
    BY <1>3 DEF OpenFile
  <2> QED BY <2>1
<1>4. CASE CloseFile \/ StopRun \/ Tick
  <2>1. UNCHANGED <<inventory, alarm>>
    BY <1>4 DEF CloseFile, StopRun, Tick
  <2> QED BY <2>1
<1>5. CASE FinishRun
  <2>1. mode \in {"plain", "apply", "bare"}
    BY <1>5 DEF FinishRun, HealthTypeOK
  <2>2. alarm' = (alarm /\ (mode = "bare" \/ Record(CACert, day, Warn).status # "OK"))
    BY <1>5 DEF FinishRun
  <2>3. UNCHANGED inventory
    BY <1>5 DEF FinishRun
  <2> QED BY <1>5, <2>1, <2>2, <2>3
<1>6. CASE \/ \E c \in Cabinets, d \in Districts \cup {None} : EditInventory(c, d)
           \/ DeleteCA
  BY <1>6 DEF EditInventory, DeleteCA
<1> QED BY <1>1, <1>2, <1>3, <1>4, <1>5, <1>6 DEF HealthNext

\* The day moves only when Tick says so.
LEMMA DayWriter ==
  ASSUME HealthNext, day' # day
  PROVE  Tick
BY DEF HealthNext, RunScan, StartRun, OpenFile, CloseFile, FinishRun, StopRun,
       EditInventory, DeleteCA

LEMMA WatchKept ==
  ASSUME HealthNext
  PROVE  watch' = watch
BY DEF HealthNext, RunScan, StartRun, OpenFile, CloseFile, FinishRun, StopRun,
       EditInventory, DeleteCA, Tick

-----------------------------------------------------------------------------
\* The inductive step, conjunct by conjunct

LEMMA ClearStep ==
  ASSUME HealthTypeOK, ClearInv, HealthNext
  PROVE  ClearInv'
<1> SUFFICES ASSUME report'.healthy, NEW p \in Watched, file'[p] \in Nat
             PROVE  file'[p] > report'.at + Warn
  BY DEF ClearInv, Outlives, Watched, Slots, UserCreds, ClientCert, CACert
<1> USE Lifetimes, Dates
<1>1. CASE report' = report
  <2>1. file[p] \in Nat => file[p] > report.at + Warn
    BY <1>1 DEF ClearInv, Outlives
  <2> QED BY <1>1, <2>1, WritesAreFresh
<1>2. CASE report' # report
  <2>1. Outlives(p, day + Warn) /\ file'[p] = file[p] /\ report'.at = day
    BY <1>2, ReportWriter, HealthyScan
  <2> QED BY <2>1 DEF Outlives
<1> QED BY <1>1, <1>2

LEMMA ScheduleStep ==
  ASSUME HealthTypeOK, ScheduleInv, RunInv, HealthNext
  PROVE  ScheduleInv'
<1> SUFFICES ASSUME watch = "exit-code"
             PROVE  /\ day' <= report'.at + Period
                    /\ ~alarm' => \A p \in Deployed' \cup {CACert} :
                                    file'[p] \in Nat => file'[p] > report'.at + Warn
  BY WatchKept DEF ScheduleInv, Outlives, CACert
<1>a. day \in Nat /\ report.at \in Nat /\ report.at <= day
  BY Dates
<1>b. Period \in Nat /\ Warn \in Nat
  BY Lifetimes
<1>1. day' <= report'.at + Period
  <2>1. CASE day' # day
    <3>1. day < report.at + Period /\ day' = day + 1 /\ report' = report
      BY <2>1, DayWriter DEF Tick
    <3>2. day' <= report.at + Period
      BY <1>a, <1>b, <3>1
    <3> QED BY <3>1, <3>2
  <2>2. CASE day' = day /\ report' # report
    <3>1. report'.at = day
      BY <2>2, ReportWriter
    <3>2. day' <= day + Period
      BY <1>a, <1>b, <2>2
    <3> QED BY <3>1, <3>2
  <2>3. CASE day' = day /\ report' = report
    BY <2>3 DEF ScheduleInv
  <2> QED BY <2>1, <2>2, <2>3
<1>2. ASSUME ~alarm', NEW p \in Deployed' \cup {CACert}, file'[p] \in Nat
      PROVE  file'[p] > report'.at + Warn
  <2>1. p \in Deployed \cup {CACert} /\ p \in Watched
    BY <1>2, AlarmCleared, DeployedInSlots DEF Deployed, Listed, Watched
  <2>2. CASE report' # report
    <3>1. report'.healthy /\ report'.at = day /\ file'[p] = file[p]
      BY <1>2, <2>2, ReportWriter
    <3>2. Outlives(p, day + Warn)
      BY <2>1, <2>2, <3>1, ReportWriter, HealthyScan
    <3> QED BY <1>a, <1>b, <1>2, <3>1, <3>2 DEF Outlives
  <2>3. CASE report' = report /\ ~alarm
    <3>1. file[p] \in Nat => file[p] > report.at + Warn
      BY <2>1, <2>3 DEF ScheduleInv, Outlives
    <3>2. \/ file'[p] = file[p]
          \/ file'[p] > day + Warn /\ file'[p] > day + StaleAfter
      BY <1>2, <2>1, WritesAreFresh
    <3>3. file'[p] > report.at + Warn
      BY <1>a, <1>b, <1>2, <3>1, <3>2
    <3> QED BY <2>3, <3>3
  <2>4. CASE report' = report /\ alarm
    <3>1. /\ FinishRun /\ mode \in {"plain", "apply"}
          /\ Record(CACert, day, Warn).status = "OK"
      BY <1>2, <2>4, AlarmCleared
    <3>2. todo = {} /\ open = None /\ file' = file
      BY <3>1 DEF FinishRun
    <3>3. file[p] > day + Warn
      <4>1. CASE p \in Deployed
        BY <3>1, <3>2, <4>1 DEF RunInv, Renewed
      <4>2. CASE p = CACert
        BY <1>2, <2>1, <3>1, <3>2, <4>2, RecordOK
      <4> QED BY <2>1, <4>1, <4>2
    <3>4. file'[p] > report.at + Warn
      BY <1>a, <1>b, <1>2, <3>2, <3>3
    <3> QED BY <2>4, <3>4
  <2> QED BY <2>2, <2>3, <2>4
<1> QED BY <1>1, <1>2

\* A run that writes a file of Deployed leaves it open or renewed.
LEMMA RunStep ==
  ASSUME HealthTypeOK, RunInv, HealthNext
  PROVE  RunInv'
<1> SUFFICES ASSUME mode' \in {"plain", "apply"}, NEW p \in Deployed'
             PROVE  \/ p \in todo' \/ (open' # None /\ p = open')
                    \/ file'[p] \in Nat /\ file'[p] > day' + Warn
  BY DEF RunInv, Renewed
<1>0. ASSUME p \in Deployed PROVE p \in Watched /\ p \in Paths
  BY <1>0, DeployedInSlots, PathKinds DEF Watched
<1>1. ASSUME NEW m \in {"plain", "apply", "bare"}, StartRun(m) PROVE p \in todo'
  <2>1. m \in {"plain", "apply"} /\ todo' = Rewritten(m) /\ inventory' = inventory
    BY <1>1 DEF StartRun
  <2>2. Deployed' = Deployed
    BY <2>1 DEF Deployed, Listed
  <2>3. Deployed \subseteq Rewritten(m)
    BY <2>1 DEF Deployed, Rewritten
  <2> QED BY <2>1, <2>2, <2>3
<1>2. ASSUME mode' = mode, Deployed' = Deployed
      PROVE  p \in Deployed
             /\ (p \in todo \/ (open # None /\ p = open)
                   \/ (file[p] \in Nat /\ file[p] > day + Warn))
  BY <1>2 DEF RunInv, Renewed
<1>3. ASSUME NEW ok \in BOOLEAN, RunScan(ok)
      PROVE  \/ p \in todo' \/ (open' # None /\ p = open')
             \/ file'[p] \in Nat /\ file'[p] > day' + Warn
  <2>1. UNCHANGED <<mode, inventory, todo, open, file, day>>
    BY <1>3 DEF RunScan
  <2>2. Deployed' = Deployed
    BY <2>1 DEF Deployed, Listed
  <2> QED BY <1>2, <2>1, <2>2
<1>4. ASSUME NEW q \in Paths, OpenFile(q)
      PROVE  \/ p \in todo' \/ (open' # None /\ p = open')
             \/ file'[p] \in Nat /\ file'[p] > day' + Warn
  <2>1. UNCHANGED <<mode, inventory, day>>
    BY <1>4 DEF OpenFile
  <2>2. Deployed' = Deployed
    BY <2>1 DEF Deployed, Listed
  <2>3. p \in Deployed /\ p \in Paths
    BY <1>0, <1>2, <2>1, <2>2
  <2>4. /\ open = None /\ open' = q /\ q # None /\ todo' = todo \ {q}
        /\ p # q => file'[p] = file[p]
    BY <1>4, <2>3, NoPathAssumption DEF OpenFile, HealthTypeOK
  <2> QED BY <1>2, <2>1, <2>2, <2>4
<1>5. CASE CloseFile
  <2>1. /\ UNCHANGED <<mode, inventory, day, todo>>
        /\ open # None /\ file' = [file EXCEPT ![open] = Expiry(open)]
    BY <1>5 DEF CloseFile
  <2>2. Deployed' = Deployed
    BY <2>1 DEF Deployed, Listed
  <2>3. p \in Deployed /\ p \in Watched
    BY <1>0, <1>2, <2>1, <2>2
  <2>4. \/ p # open /\ file'[p] = file[p]
        \/ file'[p] \in Nat /\ file'[p] > day + Warn
    BY <2>1, <2>3, OpenWritten
  <2> QED BY <1>2, <2>1, <2>2, <2>4
<1>6. CASE \/ FinishRun \/ StopRun \/ DeleteCA \/ Tick
           \/ \E c \in Cabinets, d \in Districts \cup {None} : EditInventory(c, d)
  BY <1>6 DEF FinishRun, StopRun, DeleteCA, Tick, EditInventory
<1> QED BY <1>1, <1>3, <1>4, <1>5, <1>6 DEF HealthNext

\* applied is set by a run that has finished and withdrawn by whatever could undo it.
LEMMA AppliedStep ==
  ASSUME HealthTypeOK, RunInv, AppliedInv, HealthNext
  PROVE  AppliedInv'
<1> SUFFICES ASSUME applied'
             PROVE  /\ mode' = "idle"
                    /\ \A p \in Deployed' : file'[p] \in Nat /\ file'[p] > day' + Warn
  BY DEF AppliedInv, Renewed
<1>1. CASE FinishRun
  <2>1. /\ mode = "apply" /\ mode' = "idle" /\ todo = {} /\ open = None
        /\ UNCHANGED <<inventory, file, day>>
    BY <1>1 DEF FinishRun
  <2>2. Deployed' = Deployed
    BY <2>1 DEF Deployed, Listed
  <2> QED BY <2>1, <2>2 DEF RunInv, Renewed
<1>2. CASE \/ \E m \in {"plain", "apply", "bare"} : StartRun(m)
           \/ \E c \in Cabinets, d \in Districts \cup {None} : EditInventory(c, d)
           \/ DeleteCA \/ Tick
  BY <1>2 DEF StartRun, EditInventory, DeleteCA, Tick
<1>3. CASE \E ok \in BOOLEAN : RunScan(ok)
  <2>1. UNCHANGED <<applied, mode, inventory, file, day>>
    BY <1>3 DEF RunScan
  <2>2. Deployed' = Deployed
    BY <2>1 DEF Deployed, Listed
  <2> QED BY <2>1, <2>2 DEF AppliedInv, Renewed
<1>4. CASE \/ \E p \in Paths : OpenFile(p)
           \/ CloseFile \/ StopRun
  <2>1. applied' = applied
    BY <1>4 DEF OpenFile, CloseFile, StopRun
  <2>2. mode = "idle"
    BY <2>1 DEF AppliedInv
  <2> QED BY <1>4, <2>2 DEF OpenFile, CloseFile, StopRun, HealthTypeOK
<1> QED BY <1>1, <1>2, <1>3, <1>4 DEF HealthNext

LEMMA MetricsStep ==
  ASSUME HealthTypeOK, MetricsInv, HealthNext
  PROVE  MetricsInv'
<1> SUFFICES ASSUME metrics' # None, NEW p \in Watched, file'[p] \in Nat
             PROVE  \/ file'[p] > metrics'.at + StaleAfter
                    \/ metrics'.least # None /\ file'[p] - metrics'.at >= metrics'.least
  BY DEF MetricsInv, Watched, Slots, UserCreds, ClientCert, CACert
<1>0. StaleAfter \in Nat /\ day \in Nat
  BY Lifetimes, Dates
<1>1. CASE metrics' = metrics
  <2>1. metrics.at \in Nat /\ metrics.at <= day
    BY <1>1, Dates
  <2>2. file[p] \in Nat => \/ file[p] > metrics.at + StaleAfter
                           \/ metrics.least # None /\ file[p] - metrics.at >= metrics.least
    BY <1>1 DEF MetricsInv
  <2>3. \/ file'[p] = file[p]
        \/ file'[p] > day + Warn /\ file'[p] > day + StaleAfter
    BY WritesAreFresh
  <2>4. \/ file'[p] > metrics.at + StaleAfter
        \/ metrics.least # None /\ file'[p] - metrics.at >= metrics.least
    <3>1. CASE file'[p] = file[p]
      BY <2>2, <3>1
    <3>2. CASE file'[p] > day + StaleAfter
      BY <1>0, <2>1, <3>2
    <3> QED BY <2>3, <3>1, <3>2
  <2> QED BY <1>1, <2>4
<1>2. CASE metrics' # metrics
  <2>1. PICK ok \in BOOLEAN : RunScan(ok)
    BY <1>2 DEF HealthNext, StartRun, OpenFile, CloseFile, FinishRun, StopRun, EditInventory,
                DeleteCA, Tick
  <2>2. metrics' = Exposition(day) /\ file' = file
    BY <1>2, <2>1 DEF RunScan
  <2>3. p \in Paths /\ Known(p) /\ file[p] \in Nat
    BY <2>2, PathKinds DEF Watched, Known
  <2>4. file[p] - day \in Gauges(day)
    BY <2>3 DEF Gauges
  <2>5. LeastOf(Gauges(day)) \in Int /\ LeastOf(Gauges(day)) <= file[p] - day
    BY <1>0, <2>4, LeastGauge DEF HealthTypeOK
  <2>6. metrics'.at = day /\ metrics'.least = LeastOf(Gauges(day))
    BY <2>2, <2>4 DEF Exposition
  <2>7. LeastOf(Gauges(day)) # None /\ file'[p] - day >= LeastOf(Gauges(day))
    <3>1. file[p] - day >= LeastOf(Gauges(day))
      BY <1>0, <2>3, <2>5
    <3>2. LeastOf(Gauges(day)) # None
      BY <2>5, HealthSentinelAssumption
    <3> QED BY <2>2, <3>1, <3>2
  <2> QED BY <2>6, <2>7
<1> QED BY <1>1, <1>2

-----------------------------------------------------------------------------
\* The theorems

\* The inductive invariant behind the four properties below, in every reachable state.
THEOREM HealthInvariant == HealthSpec => []HealthInv
<1>1. HealthInit => HealthInv
  <2> SUFFICES ASSUME HealthInit PROVE HealthInv
    OBVIOUS
  <2>1. \A p \in Paths : file[p] \notin Nat
    BY HealthSentinelAssumption DEF HealthInit
  <2>2. Watched \subseteq Paths
    BY PathKinds DEF Watched
  <2>3. Deployed = {}
    BY DEF HealthInit, Deployed, Listed
  <2>4. ClearInv /\ MetricsInv
    BY DEF HealthInit, ClearInv, MetricsInv
  <2>5. ScheduleInv
    <3>1. day <= report.at + Period
      <4>1. day = 0 /\ report.at = 0
        BY DEF HealthInit
      <4> QED BY <4>1, Lifetimes
    <3>2. file[CACert] \notin Nat
      BY <2>1, PathKinds
    <3> QED BY <2>3, <3>1, <3>2 DEF ScheduleInv, Outlives
  <2>6. RunInv /\ AppliedInv
    BY DEF HealthInit, RunInv, AppliedInv
  <2> QED BY <2>4, <2>5, <2>6 DEF HealthInv
<1>2. HealthTypeOK /\ HealthInv /\ [HealthNext]_hvars => HealthInv'
  <2> SUFFICES ASSUME HealthTypeOK, HealthInv, [HealthNext]_hvars PROVE HealthInv'
    OBVIOUS
  <2>1. CASE HealthNext
    BY <2>1, ClearStep, ScheduleStep, RunStep, AppliedStep, MetricsStep DEF HealthInv
  <2>2. CASE UNCHANGED hvars
    <3>1. UNCHANGED <<Deployed, Watched, CACert>>
      BY <2>2 DEF hvars, Deployed, Listed, Watched, Slots, UserCreds, ClientCert, CACert
    <3>2. ClearInv' /\ MetricsInv'
      BY <2>2, <3>1 DEF HealthInv, hvars, ClearInv, MetricsInv, Outlives
    <3>3. ScheduleInv'
      BY <2>2, <3>1 DEF HealthInv, hvars, ScheduleInv, Outlives
    <3>4. RunInv' /\ AppliedInv'
      BY <2>2, <3>1 DEF HealthInv, hvars, RunInv, AppliedInv, Renewed
    <3> QED BY <3>2, <3>3, <3>4 DEF HealthInv
  <2> QED BY <2>1, <2>2
<1> QED BY <1>1, <1>2, HealthTypeCorrect, PTL DEF HealthSpec

\* A healthy report of Scan is a promise for the whole warning window: whatever runs, stops,
\* moves and deletions follow it, nothing a cabinet depends on expires for Warn days.
THEOREM HealthyPromisesTheWindow == HealthSpec => []AllClear
<1>1. HealthTypeOK /\ HealthInv => AllClear
  <2> SUFFICES ASSUME HealthTypeOK, HealthInv, report.healthy, day <= report.at + Warn,
                      NEW p \in Watched, file[p] \in Nat
               PROVE  day < file[p]
    BY DEF AllClear
  <2>1. file[p] > report.at + Warn
    BY DEF HealthInv, ClearInv, Outlives
  <2>2. day \in Nat /\ report.at \in Nat /\ Warn \in Nat
    BY Dates, Lifetimes
  <2> QED BY <2>1, <2>2
<1> QED BY <1>1, HealthTypeCorrect, HealthInvariant, PTL

\* Answering cmd/credhealth's exit code on a schedule no longer than the warning window is
\* enough: with no alarm pending, nothing deployed has expired, nor has the CA.
THEOREM ScheduledScansPreventOutage == HealthSpec => []NoOutage
<1>1. HealthTypeOK /\ HealthInv => NoOutage
  <2> SUFFICES ASSUME HealthTypeOK, HealthInv, watch = "exit-code", ~alarm,
                      NEW p \in Deployed \cup {CACert}, file[p] \in Nat
               PROVE  day < file[p]
    BY DEF NoOutage
  <2>1. file[p] > report.at + Warn /\ day <= report.at + Period
    BY DEF HealthInv, ScheduleInv, Outlives
  <2>2. day \in Nat /\ report.at \in Nat /\ Warn \in Nat /\ Period \in Nat /\ Period <= Warn
    BY Dates, Lifetimes, LifetimeAssumption
  <2> QED BY <2>1, <2>2
<1> QED BY <1>1, HealthTypeCorrect, HealthInvariant, PTL

\* -rotate-expiring --apply settles in one run, except for slots a cabinet has left: what
\* selectExpiring picks again is named by a file that the run had no reason to rewrite.
THEOREM ApplySettlesOwnSlots == HealthSpec => []OwnSlotsSettle
<1>1. HealthTypeOK /\ HealthInv => OwnSlotsSettle
  <2> SUFFICES ASSUME HealthTypeOK, HealthInv, applied PROVE OwnSlotsSettle
    BY DEF OwnSlotsSettle
  <2>1. \A p \in Deployed : Renewed(p)
    BY DEF HealthInv, AppliedInv
  <2>2. ASSUME NEW p \in Deployed PROVE Record(p, day, Warn).status = "OK"
    <3>1. p \in Watched /\ file[p] \in Nat /\ file[p] > day + Warn
      BY <2>1, DeployedInSlots DEF Watched, Renewed
    <3> QED BY <3>1, RecordOK
  <2>3. ASSUME NEW c \in Selected
        PROVE  \E p \in Slots \ Deployed : p[3] = c /\ file[p] \in Nat
    <3>1. PICK p \in Paths :
            /\ Known(p) /\ file[p] # None
            /\ Record(p, day, Warn).kind \in {"user", "cert"}
            /\ Record(p, day, Warn).status \in {"EXPIRING", "EXPIRED"}
            /\ Record(p, day, Warn).identity = c
      BY DEF Selected, Records
    <3>2. p[1] \in {"user", "cert"}
      BY <3>1 DEF Record
    <3>3. p \in Slots \ Deployed
      BY <2>2, <3>1, <3>2, PathKinds
    <3>4. file[p] # Torn /\ p[3] = c
      BY <3>1 DEF Record
    <3>5. file[p] # Eternal
      BY <3>2 DEF HealthTypeOK
    <3>6. file[p] \in Nat
      BY <3>1, <3>4, <3>5 DEF HealthTypeOK
    <3> QED BY <3>3, <3>4, <3>6
  <2> QED BY <2>2, <2>3 DEF OwnSlotsSettle
<1> QED BY <1>1, HealthTypeCorrect, HealthInvariant, PTL

\* The alerts alone are enough: with a metrics file, and neither the critical nor the stale
\* alert firing, nothing watched has expired, whatever scans and runs failed on the way.
THEOREM SilentAlertsAreSafe == HealthSpec => []SilenceIsSafe
<1>1. HealthTypeOK /\ HealthInv => SilenceIsSafe
  <2> SUFFICES ASSUME HealthTypeOK, HealthInv PROVE SilenceIsSafe
    OBVIOUS
  <2>0. /\ Soon \in Nat /\ Critical \in Nat /\ StaleAfter \in Nat
        /\ StaleAfter < Critical /\ Critical <= Soon
    BY Lifetimes, LifetimeAssumption
  <2>1. ASSUME metrics # None, ~CredExpiryCritical, ~CredHealthStale,
               NEW p \in Watched, file[p] \in Nat
        PROVE  day < file[p]
    <3>1. /\ day \in Nat /\ metrics.at \in Nat /\ metrics.at <= day
          /\ metrics.least \in Int \cup {None}
      BY <2>1, Dates
    <3>2. day - metrics.at <= StaleAfter
      BY <2>0, <2>1, <3>1 DEF CredHealthStale
    <3>3. metrics.least # None => metrics.least >= Critical
      BY <2>0, <2>1, <3>1 DEF CredExpiryCritical, Below
    <3>4. CASE file[p] > metrics.at + StaleAfter
      BY <2>0, <2>1, <3>1, <3>2, <3>4
    <3>5. CASE metrics.least # None /\ file[p] - metrics.at >= metrics.least
      BY <2>0, <2>1, <3>1, <3>2, <3>3, <3>5
    <3> QED BY <2>1, <3>4, <3>5 DEF HealthInv, MetricsInv
  <2>2. CredExpired => CredExpiryCritical /\ CredExpiringSoon
    <3> SUFFICES ASSUME CredExpired PROVE CredExpiryCritical /\ CredExpiringSoon
      OBVIOUS
    <3>1. metrics # None /\ metrics.least # None /\ metrics.least < 0
      BY DEF CredExpired, Below
    <3>2. metrics.least \in Int
      BY <3>1, Dates
    <3>3. metrics.least < Critical /\ metrics.least < Soon
      BY <2>0, <3>1, <3>2
    <3> QED BY <3>1, <3>3 DEF CredExpiryCritical, CredExpiringSoon, Below
  <2> QED BY <2>1, <2>2 DEF SilenceIsSafe
<1> QED BY <1>1, HealthTypeCorrect, HealthInvariant, PTL

=============================================================================
