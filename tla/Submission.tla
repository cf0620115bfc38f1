----------------------------- MODULE Submission -----------------------------
(***************************************************************************)
(* What a verified solution is promised, whichever path submits it, the    *)
(* pool of submit() calls (module Submitter) or the bundles (module        *)
(* BundleSubmitter): it is refused, or a transaction is signed for it,     *)
(* once; no other transaction is signed for its proof; and what is signed  *)
(* is mined at most once, in the order of the account's nonces.            *)
(*                                                                         *)
(* Locks, calls in flight, mempools, builders and receipts are not seen.   *)
(***************************************************************************)
EXTENDS Integers, FiniteSets

CONSTANTS
    Sols,           \* the verified solutions of a run
    EpochOf,        \* the epoch of each
    PowOf           \* its PoW nonce

VARIABLES
    fate,           \* what has become of each solution
    nonce,          \* the tx nonce its transaction was signed with
    chainNonce,     \* the account's nonce on chain
    repeats         \* the tx nonces that are given out may be ones given out before

vars == <<fate, nonce, chainNonce, repeats>>

Unsigned == -1

Signed == {s \in Sols : nonce[s] # Unsigned}

SameProof(s, t) == EpochOf[s] = EpochOf[t] /\ PowOf[s] = PowOf[t]

\* A solution of two epochs later was signed, so that the epoch of s is forgotten.
Forgotten(s) == \E r \in Signed : EpochOf[r] >= EpochOf[s] + 2

Becomes(S, what) == fate' = [s \in Sols |-> IF s \in S THEN what ELSE fate[s]]

Waiting(S) == S # {} /\ \A s \in S : fate[s] = "waiting"

Init ==
    /\ fate = [s \in Sols |-> "waiting"]
    /\ nonce = [s \in Sols |-> Unsigned]
    /\ chainNonce = 0
    /\ repeats \in BOOLEAN

Refuse(S) ==
    /\ Waiting(S)
    /\ Becomes(S, "refused")
    /\ UNCHANGED <<nonce, chainNonce, repeats>>

\* Transactions are signed for solutions whose proofs are new, with nonces that are new.
Sign(S) ==
    /\ Waiting(S)
    /\ \A s \in S, t \in Signed \union S : s # t /\ SameProof(s, t) => Forgotten(s)
    /\ Becomes(S, "signed")
    /\ \A s \in Sols \ S : nonce'[s] = nonce[s]
    /\ \A s \in S : nonce'[s] \in Nat
    /\ ~repeats => \A s \in S : \A t \in Signed \union S : s # t => nonce'[s] # nonce'[t]
    /\ UNCHANGED <<chainNonce, repeats>>

\* Transactions with the account's next nonces are mined, each successfully or not.
Mine(S) ==
    /\ S # {} /\ \A s \in S : fate[s] = "signed"
    /\ {nonce[s] : s \in S} = chainNonce..(chainNonce + Cardinality(S) - 1)
    /\ \A s \in Sols : IF s \in S THEN fate'[s] \in {"ok", "reverted"} ELSE fate'[s] = fate[s]
    /\ chainNonce' = chainNonce + Cardinality(S)
    /\ UNCHANGED <<nonce, repeats>>

\* Another wallet has a transaction mined.
Elsewhere == chainNonce' = chainNonce + 1 /\ UNCHANGED <<fate, nonce, repeats>>

\* A refused send makes the program read its nonce from the node again.
Resync == repeats' = TRUE /\ UNCHANGED <<fate, nonce, chainNonce>>

Next ==
    \/ \E S \in SUBSET Sols : Refuse(S) \/ Sign(S) \/ Mine(S)
    \/ Elsewhere
    \/ Resync

Spec == Init /\ [][Next]_vars
=============================================================================
