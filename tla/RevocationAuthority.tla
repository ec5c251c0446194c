------------------------ MODULE RevocationAuthority ------------------------
(***************************************************************************)
(* What cmd/issue promises about a cabinet's user key, without its steps,  *)
(* files and failures: credentials are handed out under the current key; a *)
(* key is given up only when everything handed out under it is on the      *)
(* revocation list; and an account is served with that list and no other.  *)
(* The promise lapses once lines of the list have been damaged.            *)
(***************************************************************************)
EXTENDS Naturals

CONSTANTS
  Slots,        \* the holders of credentials, as pairs <<account, id>>
  Accounts,
  None          \* no key, or no list

VARIABLES
  key,          \* key[s]: the user key of s, or None while it is unreadable
  out,          \* out[s]: what was handed out to s, as [sub : key, iat : second]
  listed,       \* the revocation list: records [slot, pub, at]
  damaged,      \* lines of the list have been lost
  served        \* served[a]: the revocations account a is served with, or None

avars == <<key, out, listed, damaged, served>>

Covers(r, s, j) == r.slot = s /\ r.pub = j.sub /\ r.at >= j.iat
Revocable(s, j) == \E r \in listed : Covers(r, s, j)

AuthorityInit ==
  /\ key = [s \in Slots |-> None] /\ out = [s \in Slots |-> {}]
  /\ listed = {} /\ damaged = FALSE
  /\ served = [a \in Accounts |-> None]

HandOut(s) ==
  /\ key[s] # None
  /\ \E j \in out'[s] :
       /\ j.sub = key[s]
       /\ out' = [out EXCEPT ![s] = @ \cup {j}]
  /\ UNCHANGED <<key, listed, damaged, served>>

List ==
  /\ \E r \in listed' : listed' = listed \cup {r}
  /\ UNCHANGED <<key, out, damaged, served>>

Damage ==
  /\ listed' \subseteq listed /\ damaged' = TRUE
  /\ UNCHANGED <<key, out, served>>

\* The key is replaced, or destroyed and no new one is there yet.
Rekey(s) ==
  /\ damaged \/ \A j \in out[s] : Revocable(s, j)
  /\ key' = [key EXCEPT ![s] = key'[s]]
  /\ UNCHANGED <<out, listed, damaged, served>>

Serve(a) ==
  /\ served' = [served EXCEPT ![a] = {r \in listed : r.slot[1] = a /\ r.pub # None}]
  /\ UNCHANGED <<key, out, listed, damaged>>

Withdraw(a) ==
  /\ served' = [served EXCEPT ![a] = None]
  /\ UNCHANGED <<key, out, listed, damaged>>

AuthorityNext ==
  \/ \E s \in Slots : HandOut(s) \/ Rekey(s)
  \/ List \/ Damage
  \/ \E a \in Accounts : Serve(a) \/ Withdraw(a)

AuthoritySpec == AuthorityInit /\ [][AuthorityNext]_avars

=============================================================================
