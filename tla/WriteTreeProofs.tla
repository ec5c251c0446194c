--------------------------- MODULE WriteTreeProofs ---------------------------
(***************************************************************************)
(* Proofs about WriteTree, for any specs, paths and histories of runs: its *)
(* types, the bookkeeping of its loops and manifest, what a finished run   *)
(* leaves, and that it implements TreePublication.                         *)
(***************************************************************************)
EXTENDS WriteTree, TLAPS

\* What a spec produces are paths; a spec is neither "no file" nor part of one.
LEMMA SpecFacts ==
  ASSUME NEW s \in Specs
  PROVE  /\ Produces[s] \in SUBSET Names
         /\ s # None
         /\ \A n \in Names : <<n, s>> # None
BY ProducesAssumption, TreeSentinelAssumption

TypedInv == TreeTypeOK /\ TreeInv

\* The two invariants hold of an empty directory.
LEMMA InitTyped == TreeInit => TypedInv
BY DEF TreeInit, TypedInv, TreeTypeOK, TreeInv, OnDisk, Listed

\* A run begins: what the manifest lists and the spec does not produce is to be pruned.
LEMMA BeginTyped ==
  ASSUME TypedInv, NEW s \in Specs, NEW p \in BOOLEAN, Begin(s, p)
  PROVE  TypedInv'
<1> USE DEF TypedInv
<1>1. TreeTypeOK'
  BY SpecFacts, Zenon DEF TreeTypeOK, Begin, Files, Listed
<1>2. TreeInv'
  BY SpecFacts DEF TreeTypeOK, TreeInv, Begin, Files, Listed, OnDisk, Unwritten
<1> QED
  BY <1>1, <1>2

\* pruneStale's loop: the file is gone, or is one that no manifest will list.
LEMMA PruneTyped ==
  ASSUME TypedInv, PruneOne \/ Pruned
  PROVE  TypedInv'
<1> USE DEF TypedInv
<1>1. CASE PruneOne
  <2>1. PICK n \in todo :
          /\ todo' = todo \ {n}
          /\ \/ disk' = [disk EXCEPT ![n] = None] /\ UNCHANGED untracked
             \/ untracked' = untracked \cup {n} /\ UNCHANGED disk
    BY <1>1 DEF PruneOne
  <2>2. TreeTypeOK'
    BY <1>1, <2>1 DEF TreeTypeOK, PruneOne, Files
  <2>3. TreeInv'
    BY <1>1, <2>1 DEF TreeTypeOK, TreeInv, PruneOne, Files, Listed, OnDisk, Unwritten
  <2> QED
    BY <2>2, <2>3
<1>2. CASE Pruned
  BY <1>2, SpecFacts DEF TreeTypeOK, TreeInv, Pruned, Files, Listed, OnDisk, Unwritten
<1> QED
  BY <1>1, <1>2

\* The write loop takes a path of its own spec off its list and fills a temp file.
LEMMA FillTyped ==
  ASSUME TypedInv, FillTemp
  PROVE  TypedInv'
<1> USE DEF TypedInv
<1>1. PICK n \in todo : temp' = <<n, spec>> /\ todo' = todo \ {n}
  BY DEF FillTemp
<1>2. n \in Files /\ n \in Names /\ temp' # None /\ temp'[1] = n
  BY <1>1, SpecFacts DEF TreeInv, TreeTypeOK, FillTemp
<1>3. TreeTypeOK'
  BY <1>1, <1>2 DEF TreeTypeOK, FillTemp, Files
<1>4. Unwritten' = Unwritten
  BY <1>1, <1>2 DEF FillTemp, Unwritten
<1>5. TreeInv'
  BY <1>1, <1>4 DEF TreeInv, FillTemp, Files, Listed, OnDisk
<1> QED
  BY <1>3, <1>5

\* The rename puts the run's own spec at that path.
LEMMA RenameTyped ==
  ASSUME TypedInv, Rename
  PROVE  TypedInv'
<1> USE DEF TypedInv
<1>1. temp \in Names \X {spec} /\ temp[1] \in Files /\ temp[1] \in Names /\ temp[2] = spec
  BY DEF TreeTypeOK, Rename
<1>2. disk' = [disk EXCEPT ![temp[1]] = spec]
  BY <1>1 DEF Rename
<1>3. TreeTypeOK'
  BY <1>1, <1>2 DEF TreeTypeOK, Rename, Files
<1>4. OnDisk' \subseteq OnDisk \cup {temp[1]}
  BY <1>1, <1>2 DEF OnDisk, TreeTypeOK
<1>5. Unwritten' = todo /\ Unwritten = todo \cup {temp[1]}
  BY DEF Rename, Unwritten
<1>6. \A n \in Files' \ Unwritten' : disk'[n] = spec'
  BY <1>1, <1>2, <1>5, SpecFacts DEF Rename, TreeInv, TreeTypeOK, Files
<1>7. TreeInv'
  BY <1>1, <1>4, <1>6 DEF TreeInv, Rename, Files, Listed
<1> QED
  BY <1>3, <1>7

\* The end of the write loop, and the manifest, whole or cut short.
LEMMA ManifestTyped ==
  ASSUME TypedInv, Written \/ WriteManifest
  PROVE  TypedInv'
<1> USE DEF TypedInv
<1>1. CASE Written
  BY <1>1 DEF TreeTypeOK, TreeInv, Written, Files, Listed, OnDisk, Unwritten
<1>2. CASE WriteManifest
  <2>1. Files \in SUBSET Names /\ None \notin SUBSET Names
    BY SpecFacts, TreeSentinelAssumption DEF TreeTypeOK, Files
  <2>2. /\ manifest' \in SUBSET Files
        /\ \/ untracked' = (untracked \cup Files) \ manifest'
           \/ untracked' = untracked \ Files /\ manifest' = Files
        /\ pc' \in {"idle", "done"}
    <3>1. CASE manifest' = Files /\ untracked' = untracked \ Files /\ pc' = "done"
      BY <3>1
    <3>2. CASE /\ \E k \in Names \cup {0} : manifest' = {n \in Files : n < k}
               /\ untracked' = (untracked \cup Files) \ manifest' /\ pc' = "idle"
      <4>1. PICK k \in Names \cup {0} : manifest' = {n \in Files : n < k}
        BY <3>2
      <4>2. manifest' \subseteq Files
        BY <4>1
      <4> QED
        BY <3>2, <4>2
    <3> QED
      BY <1>2, <3>1, <3>2, Zenon DEF WriteManifest
  <2>3. TreeTypeOK'
    BY <1>2, <2>1, <2>2 DEF TreeTypeOK, WriteManifest, Files
  <2>4. Listed' = manifest'
    BY <2>1, <2>2 DEF Listed
  <2>5. OnDisk \subseteq Files \cup untracked /\ OnDisk' = OnDisk
    BY <1>2 DEF TreeInv, WriteManifest, OnDisk
  <2>6. OnDisk' \subseteq Listed' \cup untracked'
    BY <2>2, <2>4, <2>5
  <2>7. \A n \in Files : disk[n] = spec
    BY <1>2 DEF WriteManifest, TreeInv, Unwritten
  <2>8. pc' = "done" => OnDisk' \subseteq Files' \cup untracked'
    BY <1>2, <2>2, <2>5 DEF WriteManifest, Files
  <2>9. TreeInv'
    BY <1>2, <2>2, <2>6, <2>7, <2>8 DEF WriteManifest, TreeInv, Files
  <2> QED
    BY <2>3, <2>9
<1> QED
  BY <1>1, <1>2

\* A run that ends early leaves the disk and the manifest as they are.
LEMMA KillTyped ==
  ASSUME TypedInv, Kill
  PROVE  TypedInv'
BY DEF TypedInv, TreeTypeOK, TreeInv, Kill, Files, Listed, OnDisk

\* A step of the run, or a stutter, keeps the two invariants.
LEMMA NextTyped == TypedInv /\ [TreeNext]_tvars => TypedInv'
<1> SUFFICES ASSUME TypedInv, [TreeNext]_tvars PROVE TypedInv'
  OBVIOUS
<1>1. CASE UNCHANGED tvars
  BY <1>1 DEF tvars, TypedInv, TreeTypeOK, TreeInv, Files, Listed, OnDisk, Unwritten
<1> QED
  BY <1>1, BeginTyped, PruneTyped, FillTyped, RenameTyped, ManifestTyped, KillTyped
     DEF TreeNext

-----------------------------------------------------------------------------
\* Theorems

\* Every variable of WriteTree keeps its shape: above all, whatever is killed when, a
\* path shows the whole rendering of one spec, or nothing.
THEOREM TreeTypeCorrect == TreeSpec => []TreeTypeOK
<1>1. TypedInv => TreeTypeOK
  BY DEF TypedInv
<1> QED
  BY <1>1, InitTyped, NextTyped, PTL DEF TreeSpec

\* The loops of WriteTree and pruneStale and the manifest keep their bookkeeping.
THEOREM TreeInvariant == TreeSpec => []TreeInv
<1>1. TypedInv => TreeInv
  BY DEF TypedInv
<1> QED
  BY <1>1, InitTyped, NextTyped, PTL DEF TreeSpec

\* A finished run leaves its spec's rendering in full, and with -prune nothing else but
\* untracked files.
THEOREM FinishedTreeIsCurrent == TreeSpec => []TreeIsCurrent
<1>1. TreeInv => TreeIsCurrent
  BY DEF TreeInv, TreeIsCurrent, Unwritten
<1> QED
  BY <1>1, TreeInvariant, PTL

\* The directory starts as TreePublication says.
LEMMA InitPublishes == TreeInit => Publication!PubInit
BY DEF TreeInit, Publication!PubInit

\* Each step of a run is a step of TreePublication, or one its readers do not see.
LEMMA StepPublishes ==
  TypedInv /\ [TreeNext]_tvars => [Publication!PubNext]_Publication!pubvars
<1> SUFFICES ASSUME TypedInv, [TreeNext]_tvars
             PROVE  [Publication!PubNext]_Publication!pubvars
  OBVIOUS
<1> USE DEF Publication!pubvars
<1>1. ASSUME NEW s \in Specs, NEW p \in BOOLEAN, Begin(s, p)
      PROVE  Publication!PubNext
  <2>1. Publication!Publish(s)
    BY <1>1 DEF Begin, Publication!Publish
  <2> QED
    BY <2>1 DEF Publication!PubNext
<1>2. CASE PruneOne
  <2>1. PICK n \in todo : \/ disk' = [disk EXCEPT ![n] = None]
                          \/ UNCHANGED disk
    BY <1>2 DEF PruneOne
  <2>2. n \in Names /\ n \notin Produces[spec]
    BY <1>2 DEF PruneOne, TypedInv, TreeTypeOK, TreeInv, Files
  <2>3. CASE disk' = [disk EXCEPT ![n] = None]
    <3>1. Publication!Drop(n)
      BY <1>2, <2>2, <2>3 DEF PruneOne, Publication!Drop
    <3> QED
      BY <2>2, <3>1 DEF Publication!PubNext
  <2>4. CASE UNCHANGED disk
    BY <1>2, <2>4 DEF PruneOne
  <2> QED
    BY <2>1, <2>3, <2>4
<1>3. CASE Pruned \/ FillTemp
  BY <1>3 DEF Pruned, FillTemp
<1>4. CASE Rename
  <2>1. temp[1] \in Names /\ temp[1] \in Produces[spec] /\ temp[2] = spec
    BY <1>4 DEF Rename, TypedInv, TreeTypeOK, Files
  <2>2. Publication!Put(temp[1])
    BY <1>4, <2>1 DEF Rename, Publication!Put
  <2> QED
    BY <2>1, <2>2 DEF Publication!PubNext
<1>5. CASE Written \/ WriteManifest
  <2>1. \A n \in Produces[spec] : disk[n] = spec
    BY <1>5 DEF Written, WriteManifest, TypedInv, TreeInv, Unwritten, Files
  <2>2. CASE pc' = "done"
    <3>1. Publication!Complete
      BY <1>5, <2>1, <2>2 DEF Written, WriteManifest, Publication!Complete
    <3> QED
      BY <3>1 DEF Publication!PubNext
  <2>3. CASE pc' = "idle"
    <3>1. Publication!GiveUp
      BY <1>5, <2>3 DEF Written, WriteManifest, Publication!GiveUp
    <3> QED
      BY <3>1 DEF Publication!PubNext
  <2>4. CASE pc' = "manifest"
    BY <1>5, <2>4 DEF Written, WriteManifest
  <2> QED
    BY <1>5, <2>2, <2>3, <2>4 DEF Written, WriteManifest
<1>6. CASE Kill
  <2>1. Publication!GiveUp
    BY <1>6 DEF Kill, TypedInv, TreeTypeOK, Publication!GiveUp
  <2> QED
    BY <2>1 DEF Publication!PubNext
<1>7. CASE UNCHANGED tvars
  BY <1>7 DEF tvars
<1> QED
  BY <1>1, <1>2, <1>3, <1>4, <1>5, <1>6, <1>7 DEF TreeNext

\* WriteTree implements the atomic publication of a tree, path by path.
THEOREM WriteTreePublishes == TreeSpec => ImplementsPublication
<1>1. TreeSpec => []TypedInv
  BY InitTyped, NextTyped, PTL DEF TreeSpec
<1> QED
  BY <1>1, InitPublishes, StepPublishes, PTL
     DEF TreeSpec, ImplementsPublication, Publication!PubSpec

=============================================================================
