------------------------- MODULE CredentialRegistry -------------------------
(***************************************************************************)
(* What the API keys promise, whatever happens around them: a key has at   *)
(* most one secret that is good; a secret that has been revoked or         *)
(* replaced is never good again; a key that has been revoked never gets    *)
(* another secret.                                                         *)
(***************************************************************************)
CONSTANTS KeyIds, Hashes, NoHash

VARIABLES
    current,   \* [KeyIds -> Hashes \cup {NoHash}], the good secret of a key
    retired,   \* keys that have been revoked
    dead       \* secrets that were good once

registryVars == <<current, retired, dead>>

Live == {h \in Hashes : \E k \in KeyIds : current[k] = h}

Init ==
    /\ current = [k \in KeyIds |-> NoHash]
    /\ retired = {}
    /\ dead = {}

Fresh(h) == h \in Hashes \ (dead \cup Live)

Issue(k, h) ==
    /\ k \notin retired
    /\ current[k] = NoHash
    /\ Fresh(h)
    /\ current' = [current EXCEPT ![k] = h]
    /\ UNCHANGED <<retired, dead>>

Rotate(k, h) ==
    /\ current[k] # NoHash
    /\ Fresh(h)
    /\ current' = [current EXCEPT ![k] = h]
    /\ dead' = dead \cup {current[k]}
    /\ UNCHANGED retired

Retire(K) ==
    /\ \A k \in K : current[k] # NoHash
    /\ current' = [k \in KeyIds |-> IF k \in K THEN NoHash ELSE current[k]]
    /\ retired' = retired \cup K
    /\ dead' = dead \cup {current[k] : k \in K}

Next ==
    \/ \E k \in KeyIds, h \in Hashes : Issue(k, h) \/ Rotate(k, h)
    \/ \E K \in SUBSET KeyIds : Retire(K)

Spec == Init /\ [][Next]_registryVars
=============================================================================
