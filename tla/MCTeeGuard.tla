----------------------------- MODULE MCTeeGuard -----------------------------
(* Constants that a .cfg cannot write down: vault owners and factor pairs.    *)
EXTENDS TeeGuard, TLC

CONSTANTS alice, bob, deployer, v1, v2

OneVaultOwner == v1 :> alice
TwoVaultOwners == v1 :> alice @@ v2 :> bob

\* Healthy; liquidatable for the pool only, by a factor wider than a uint64
\* that is 0 modulo 2^64.
MCFactorPairs == {[vault |-> 0, pool |-> 0], [vault |-> 0, pool |-> MaxUint64 + 1]}
\* Request slots are interchangeable, and only safety properties are checked.
HandlerSymmetry == Permutations(Handlers)

\* Bound: explore no further from a state with more returned signatures, next
\* to those the handlers hold.
MaxIssued == 1
IssuedBound == Cardinality(issued) <= MaxIssued

\* Bound: nor from one with more rows from before setGuardianSigner, or with one
\* of another amount than 1: later rows depend on the nonce of such a row only.
MaxUnsigned == 1
UnsignedBound ==
  \A id \in GuardIds :
    /\ unsigned[id] <= MaxUnsigned
    /\ \A i \in 1 .. unsigned[id] : actions[id][i].amount = 1
=============================================================================
