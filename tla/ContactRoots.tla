---------------------------- MODULE ContactRoots ----------------------------
(***************************************************************************)
(* derive_contact_root and derive_stego_key (src/src/crypto.rs): the key   *)
(* two contacts share for the steganographic layer, each derived at home,  *)
(* from its own secrets and the profile it has of the other.  Nobody has   *)
(* a shared point of order one, and the key derivation is taken to be      *)
(* injective; keys are numbers, ordered as their bytes are.                *)
(***************************************************************************)
EXTENDS Naturals, FiniteSets

CONSTANTS Keys,             \* key pairs, a public key being as good a name as a secret
          MaxDerivations    \* a bound on the derivations, for TLC

\* The public agreement key with which every shared point is zero.
LowOrder == 0

ASSUME KeysAssumption == Keys \subseteq Nat \ {LowOrder} /\ MaxDerivations \in Nat

Secrets  == [identity : Keys, agreement : Keys]
Profiles == [identity : Keys, agreement : Keys \cup {LowOrder}]

VARIABLE derived    \* history: the roots that have been derived

\* Both sides of an exchange find the same point.
Shared(secret, public) == IF public = LowOrder THEN {} ELSE {secret, public}

\* canonical_key_material, compared as bytes: the identity key comes first.
Before(p, q) == \/ p.identity < q.identity
                \/ p.identity = q.identity /\ p.agreement <= q.agreement

\* A slip of Ordered: profiles are ordered by their identity keys alone.
OrderedByIdentity(p, q) == IF p.identity <= q.identity THEN <<p, q>> ELSE <<q, p>>

Ordered(p, q) == IF Before(p, q) THEN <<p, q>> ELSE <<q, p>>

\* One side derives a root, and from it the key of the layer.  It is refused a
\* profile that is not its own, and a peer whose shared point is zero.
Derive(secrets, local, peer) ==
  /\ local = secrets
  /\ Shared(secrets.agreement, peer.agreement) # {}
  /\ derived' = derived \cup
       {[local |-> local, peer |-> peer,
         root  |-> <<Shared(secrets.agreement, peer.agreement), Ordered(local, peer)>>]}

RootsInit == derived = {}

RootsNext == \E secrets \in Secrets, local, peer \in Profiles :
  /\ Derive(secrets, local, peer)
  /\ Cardinality(derived') <= MaxDerivations

RootsSpec == RootsInit /\ [][RootsNext]_derived

-----------------------------------------------------------------------------
\* Two derivations yield one root exactly when they are about the same two
\* profiles, whichever side derived it: contacts agree on their root, and a
\* profile that mixes the keys of two of them leads to a root of its own.
RootsAgree ==
  \A d, e \in derived : d.root = e.root <=> {d.local, d.peer} = {e.local, e.peer}
=============================================================================
