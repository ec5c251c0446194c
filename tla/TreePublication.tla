--------------------------- MODULE TreePublication ---------------------------
(***************************************************************************)
(* What WriteTree promises to whoever reads the output directory while     *)
(* cmd/gen runs, without temp files, loops or manifest: paths change one   *)
(* at a time, each to the whole rendering of the spec being published, or  *)
(* to nothing when that spec has no such path; and the tree is called      *)
(* current only when every path of the spec shows it.                      *)
(***************************************************************************)
CONSTANTS Specs, Names, Produces, None

VARIABLES
  view,         \* view[n]: the spec whose rendering a reader finds at n, or None
  goal,         \* the spec being published
  status        \* "publishing", "current", or "stale" after a run that did not finish

pubvars == <<view, goal, status>>

PubInit ==
  /\ view = [n \in Names |-> None] /\ goal \in Specs /\ status = "stale"

Publish(s) ==
  /\ status # "publishing"
  /\ goal' = s /\ status' = "publishing"
  /\ UNCHANGED view

Put(n) ==
  /\ status = "publishing" /\ n \in Produces[goal]
  /\ view' = [view EXCEPT ![n] = goal]
  /\ UNCHANGED <<goal, status>>

Drop(n) ==
  /\ status = "publishing" /\ n \notin Produces[goal]
  /\ view' = [view EXCEPT ![n] = None]
  /\ UNCHANGED <<goal, status>>

Complete ==
  /\ status = "publishing"
  /\ \A n \in Produces[goal] : view[n] = goal
  /\ status' = "current"
  /\ UNCHANGED <<view, goal>>

GiveUp ==
  /\ status = "publishing"
  /\ status' = "stale"
  /\ UNCHANGED <<view, goal>>

PubNext ==
  \/ \E s \in Specs : Publish(s)
  \/ \E n \in Names : Put(n) \/ Drop(n)
  \/ Complete \/ GiveUp

PubSpec == PubInit /\ [][PubNext]_pubvars

=============================================================================
