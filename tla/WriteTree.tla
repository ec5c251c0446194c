------------------------------ MODULE WriteTree ------------------------------
(***************************************************************************)
(* cmd/gen's output directory: render.WriteTree and its prune manifest,    *)
(* run after run, with runs that are killed at any step.                   *)
(*                                                                         *)
(* A file name is a number (their order is the sorted order in which       *)
(* WriteTree writes them) and a file's bytes are the spec they were        *)
(* rendered from.                                                          *)
(***************************************************************************)
EXTENDS Naturals

CONSTANTS
  Specs,        \* topology specs
  Names,        \* paths a renderer can produce, numbered in sorted order
  Produces,     \* Produces[s]: the paths the renderers produce for spec s
  None,         \* no such file
  Partial       \* part of a file's bytes

ASSUME NamesAssumption == Names \subseteq Nat
ASSUME ProducesAssumption == Produces \in [Specs -> SUBSET Names]
ASSUME TreeSentinelAssumption ==
  /\ None # Partial
  /\ {None, Partial} \cap Specs = {}
  /\ \A S \in SUBSET Names : S # None
  /\ \A t \in Names \X Specs : t # None

VARIABLES
  pc,           \* "idle", "prune", "write", "rename", "manifest" or "done"
  spec,         \* the spec being written
  prune,        \* the -prune flag
  todo,         \* paths still to visit in the current loop
  disk,         \* disk[n]: what a reader finds at path n
  temp,         \* the temp file being written: <<path, bytes>>, or None
  litter,       \* a temp file was left behind
  manifest,     \* the paths .vikasa-manifest lists; None: no such file
  untracked     \* history: paths that no manifest lists and that may be on disk

tvars == <<pc, spec, prune, todo, disk, temp, litter, manifest, untracked>>

Files == Produces[spec]
OnDisk == {n \in Names : disk[n] # None}
Listed == IF manifest = None THEN {} ELSE manifest

TreeInit ==
  /\ pc = "idle" /\ spec \in Specs /\ prune = FALSE /\ todo = {}
  /\ disk = [n \in Names |-> None]
  /\ temp = None /\ litter = FALSE /\ manifest = None /\ untracked = {}

\* Seeded fault: pruneStale does not spare what this run produces.
BeginPruningAll(s, p) ==
  /\ pc \in {"idle", "done"}
  /\ spec' = s /\ prune' = p
  /\ IF p THEN pc' = "prune" /\ todo' = Listed
          ELSE pc' = "write" /\ todo' = Produces[s]
  /\ UNCHANGED <<disk, temp, litter, manifest, untracked>>

\* A run of cmd/gen reaches WriteTree: every check of the spec is behind it.
Begin(s, p) ==
  /\ pc \in {"idle", "done"}
  /\ spec' = s /\ prune' = p
  /\ IF p THEN pc' = "prune" /\ todo' = Listed \ Produces[s]
          ELSE pc' = "write" /\ todo' = Produces[s]
  /\ UNCHANGED <<disk, temp, litter, manifest, untracked>>

\* pruneStale: best-effort removal of what the last manifest lists and this run does
\* not produce.  A removal that fails is ignored, and the next manifest forgets the file.
PruneOne ==
  /\ pc = "prune"
  /\ \E n \in todo :
       /\ todo' = todo \ {n}
       /\ \/ disk' = [disk EXCEPT ![n] = None] /\ UNCHANGED untracked
          \/ untracked' = untracked \cup {n} /\ UNCHANGED disk
  /\ UNCHANGED <<pc, spec, prune, temp, litter, manifest>>

Pruned ==
  /\ pc = "prune" /\ todo = {}
  /\ pc' = "write" /\ todo' = Files
  /\ UNCHANGED <<spec, prune, disk, temp, litter, manifest, untracked>>

\* writeFileAtomic: fill a temp file beside the destination, then rename it.  Names are
\* taken in sorted order.
FillTemp ==
  /\ pc = "write"
  /\ \E n \in todo :
       /\ \A m \in todo : n <= m
       /\ temp' = <<n, spec>>
       /\ todo' = todo \ {n}
  /\ pc' = "rename"
  /\ UNCHANGED <<spec, prune, disk, litter, manifest, untracked>>

\* Seeded fault: the destination is written in place.
RenameInPlace ==
  /\ pc = "rename"
  /\ disk' = [disk EXCEPT ![temp[1]] = IF disk[temp[1]] = Partial THEN temp[2] ELSE Partial]
  /\ pc' = IF disk[temp[1]] = Partial THEN "write" ELSE "rename"
  /\ temp' = IF disk[temp[1]] = Partial THEN None ELSE temp
  /\ untracked' = untracked \cup {temp[1]}
  /\ UNCHANGED <<spec, prune, todo, litter, manifest>>

Rename ==
  /\ pc = "rename"
  /\ disk' = [disk EXCEPT ![temp[1]] = temp[2]]
  /\ temp' = None
  /\ untracked' = untracked \cup {temp[1]}
  /\ pc' = "write"
  /\ UNCHANGED <<spec, prune, todo, litter, manifest>>

\* Seeded fault: without -prune the run still reports success, but skips a file.
WrittenEarly ==
  /\ pc = "write"
  /\ \A n, m \in todo : n = m
  /\ pc' = IF prune THEN "manifest" ELSE "done"
  /\ todo' = {}
  /\ UNCHANGED <<spec, prune, disk, temp, litter, manifest, untracked>>

Written ==
  /\ pc = "write" /\ todo = {}
  /\ pc' = IF prune THEN "manifest" ELSE "done"
  /\ UNCHANGED <<spec, prune, todo, disk, temp, litter, manifest, untracked>>

\* Seeded fault: the manifest keeps the old list and misses the files of this run.
WriteManifestOld ==
  /\ pc = "manifest"
  /\ manifest' = Listed
  /\ untracked' = untracked \ Files
  /\ pc' = "done"
  /\ UNCHANGED <<spec, prune, todo, disk, temp, litter>>

\* writeManifest: os.WriteFile of the sorted names, in place.  Cut short, it lists the
\* names up to some point.
WriteManifest ==
  /\ pc = "manifest"
  /\ \/ /\ manifest' = Files
        /\ untracked' = untracked \ Files
        /\ pc' = "done"
     \/ /\ \E k \in Names \cup {0} : manifest' = {n \in Files : n < k}
        /\ untracked' = (untracked \cup Files) \ manifest'
        /\ pc' = "idle"
  /\ UNCHANGED <<spec, prune, todo, disk, temp, litter>>

\* The process is killed, or a step fails: an error return removes its temp file, a
\* kill leaves it behind.
Kill ==
  /\ pc \notin {"idle", "done"}
  /\ pc' = "idle" /\ todo' = {} /\ temp' = None
  /\ litter' \in IF temp = None THEN {litter} ELSE {litter, TRUE}
  /\ UNCHANGED <<spec, prune, disk, manifest, untracked>>

TreeNext ==
  \/ \E s \in Specs, p \in BOOLEAN : Begin(s, p)
  \/ PruneOne \/ Pruned \/ FillTemp \/ Rename \/ Written \/ WriteManifest \/ Kill

TreeSpec == TreeInit /\ [][TreeNext]_tvars

-----------------------------------------------------------------------------
\* Properties

\* Every variable keeps its shape.  In particular a reader never finds part of a file:
\* disk[n] is the whole rendering of some spec or nothing (writeFileAtomic).
TreeTypeOK ==
  /\ pc \in {"idle", "prune", "write", "rename", "manifest", "done"}
  /\ spec \in Specs /\ prune \in BOOLEAN
  /\ todo \subseteq Names
  /\ disk \in [Names -> Specs \cup {None}]
  /\ temp = None \/ (temp \in Names \X {spec} /\ temp[1] \in Files)
  /\ pc = "rename" <=> temp # None
  /\ litter \in BOOLEAN
  /\ manifest = None \/ manifest \subseteq Names
  /\ untracked \subseteq Names

\* A finished run leaves its spec's rendering in full, whatever an interrupted run of
\* another spec left before it; and with -prune nothing else, except what was written by
\* runs that never wrote a manifest (no -prune, or interrupted) or could not be removed.
TreeIsCurrent ==
  pc = "done" =>
    /\ \A n \in Files : disk[n] = spec
    /\ prune => OnDisk \subseteq Files \cup untracked

\* Paths of the run's own spec that it has yet to write.
Unwritten ==
  CASE pc = "write" -> todo
    [] pc = "rename" -> todo \cup {temp[1]}
    [] pc \in {"manifest", "done"} -> {}
    [] OTHER -> Files

\* The bookkeeping behind TreeIsCurrent, at every step of WriteTree: every file on disk is
\* known to the manifest or untracked; the loops visit only what they should; what the
\* write loop has passed is written; and what the prune loop has passed is gone or
\* untracked, so that from then on a -prune run has only its own files to write.
TreeInv ==
  /\ OnDisk \subseteq Listed \cup untracked
  /\ pc = "prune" => todo \cap Files = {}
  /\ pc \in {"write", "rename"} => todo \subseteq Files
  /\ pc \in {"prune", "manifest"} => prune
  /\ pc \notin {"idle", "prune"} => \A n \in Files \ Unwritten : disk[n] = spec
  /\ pc # "idle" /\ prune =>
       OnDisk \subseteq Files \cup untracked \cup (IF pc = "prune" THEN todo ELSE {})

\* What a reader of the directory may rely on while runs come and go: module
\* TreePublication, with writeFileAtomic's rename as the one visible change of a path.
Publication == INSTANCE TreePublication WITH
  view <- disk, goal <- spec,
  status <- IF pc = "done" THEN "current" ELSE IF pc = "idle" THEN "stale" ELSE "publishing"

\* WriteTree implements it: no reader ever sees a part of a file, a path of the spec being
\* written disappear, or a tree called current that lacks a path.
ImplementsPublication == Publication!PubSpec

=============================================================================
