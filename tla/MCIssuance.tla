----------------------------- MODULE MCIssuance -----------------------------
(***************************************************************************)
(* Small instances of Issuance for TLC.                                    *)
(***************************************************************************)
EXTENDS IssuanceInvariants, FiniteSets

CONSTANTS d1, d2, c1, c2, x

Job(inv, rot, rotOp, rotAcct) ==
  [inv |-> inv, rot |-> rot, rotOp |-> rotOp, rotAcct |-> rotAcct]

\* One cabinet: plain runs and its rotation, alone or with both kinds of signing key.
RotationJobs == {Job({<<d1, c1>>}, {}, FALSE, {}), Job({<<d1, c1>>}, {c1}, FALSE, {})}
FullRotationJobs == {Job({<<d1, c1>>}, {}, FALSE, {}), Job({<<d1, c1>>}, {c1}, TRUE, {d1})}

\* Bound: files that are torn at one time.
TornIn(f) == Cardinality({i \in DOMAIN f : f[i] = Torn})
TwoTorn ==
  TornIn(seed) + TornIn(creds) + TornIn(crt) + TornIn(resolver) + TornIn(tail)
    + TornIn(<<opJWT, caCrt>>) <= 2

\* An account signing key is rotated with an inventory; runs without one come and go.
StrandedJobs ==
  {Job({<<d1, c1>>}, {}, FALSE, {}), Job({<<d1, c1>>}, {}, FALSE, {d1}),
   Job(None, {}, FALSE, {})}

\* A cabinet that moves to another district and is rotated there.
MoveJobs == {Job({<<d1, c1>>}, {}, FALSE, {}), Job({<<d2, c1>>}, {c1}, FALSE, {})}

\* Bounds on keypairs per kind of key.
Gens(op, ca, acct, sk, user) ==
  [k \in KeyKinds |-> CASE k = "operator" -> op [] k = "ca" -> ca [] k = "account" -> acct
                       [] k = "account-sk" -> sk [] OTHER -> user]
TwoUserKeys == Gens(1, 1, 1, 1, 2)
RotatedOnce == Gens(2, 1, 1, 2, 2)
TwoSigningKeys == Gens(1, 1, 1, 2, 1)

=============================================================================
