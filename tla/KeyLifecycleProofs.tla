------------------------- MODULE KeyLifecycleProofs -------------------------
(***************************************************************************)
(* The keys implement the registry, for any number of accounts, keys,      *)
(* secrets and actions in flight, and whatever limits are configured.      *)
(***************************************************************************)
EXTENDS KeyLifecycle, FiniteSetTheorems, TLAPS

\* Every key's secret has been generated for this key alone.
SecretsAreDistinct ==
    /\ \A k \in DOMAIN keys : keys[k].hash \in usedHashes
    /\ \A j, k \in DOMAIN keys : keys[j].hash = keys[k].hash => j = k

\* Keys are never deleted: an action in flight still finds the key it began with.
RequestsHaveKeys ==
    \A r \in DOMAIN request : request[r].name # "create" => request[r].key \in DOMAIN keys

IInv == TypeOK /\ SecretsAreDistinct /\ RequestsHaveKeys

---------------------------------------------------------------------------
(* What an action in flight is. *)

LEMMA CreateOp ==
    ASSUME TypeOK, NEW r \in Running("create")
    PROVE  request[r].user \in Users /\ request[r].expiresAt \in Nat \cup {Never}
<1>1. request[r] \in Op /\ request[r].name = "create"
  BY DEF TypeOK, Running
<1> QED BY <1>1 DEF Op

LEMMA RegenerateOp ==
    ASSUME IInv, NEW r \in Running("regenerate")
    PROVE  request[r].key \in DOMAIN keys
  BY DEF IInv, RequestsHaveKeys, Running

LEMMA TokenOp ==
    ASSUME TypeOK, NEW r \in Running("token")
    PROVE  request[r].key \in KeyIds /\ request[r].issuedFor \in Hashes
           /\ request[r].expiresAt \in Nat
<1>1. request[r] \in Op /\ request[r].name = "token"
  BY DEF TypeOK, Running
<1> QED BY <1>1 DEF Op

LEMMA EndsKeepsRequests ==
    ASSUME IInv, NEW r \in DOMAIN request, Ends(r), DOMAIN keys \subseteq DOMAIN keys'
    PROVE  /\ DOMAIN request' \subseteq Requests
           /\ request' \in [DOMAIN request' -> Op]
           /\ RequestsHaveKeys'
  BY DEF IInv, TypeOK, RequestsHaveKeys, Ends

LEMMA BeginKeepsInv ==
    ASSUME IInv, NEW r \in Requests, NEW u \in Users, NEW op \in Op, Begin(r, u, op),
           op.name # "create" => op.key \in DOMAIN keys
    PROVE  IInv'
<1>1. request' \in [DOMAIN request' -> Op] /\ DOMAIN request' \subseteq Requests
  BY DEF IInv, TypeOK, Begin
<1>2. RequestsHaveKeys'
  BY DEF IInv, RequestsHaveKeys, Begin
<1> QED BY <1>1, <1>2 DEF IInv, TypeOK, SecretsAreDistinct, Begin, cache

---------------------------------------------------------------------------
(* Actions in flight change the keys in their second step. *)

LEMMA InsertKeepsInv ==
    ASSUME IInv, NEW r \in DOMAIN request, NEW k \in KeyIds, NEW h \in Hashes,
           insertKey(r, k, h)
    PROVE  IInv'
<1> DEFINE row == [user |-> request[r].user, hash |-> h, revoked |-> FALSE,
                   expiresAt |-> request[r].expiresAt]
<1>1. row \in Row
  BY CreateOp DEF IInv, insertKey, Row
<1>2. keys' = [j \in DOMAIN keys \cup {k} |-> IF j = k THEN row ELSE keys[j]]
      /\ k \notin DOMAIN keys /\ h \notin usedHashes /\ usedHashes' = usedHashes \cup {h}
  BY DEF insertKey
<1> HIDE DEF row
<1>3. DOMAIN keys' = DOMAIN keys \cup {k} /\ keys' \in [DOMAIN keys' -> Row]
  BY <1>1, <1>2 DEF IInv, TypeOK
<1>4. keys'[k].hash = h /\ \A j \in DOMAIN keys : keys'[j] = keys[j]
  BY <1>2 DEF row
<1>5. SecretsAreDistinct'
  BY <1>2, <1>3, <1>4 DEF IInv, SecretsAreDistinct
<1>6. DOMAIN request' \subseteq Requests /\ request' \in [DOMAIN request' -> Op]
      /\ RequestsHaveKeys'
  BY <1>3, EndsKeepsRequests DEF insertKey
<1> QED BY <1>2, <1>3, <1>5, <1>6 DEF IInv, TypeOK, insertKey, cache

LEMMA ReplaceKeepsInv ==
    ASSUME IInv, NEW r \in DOMAIN request, NEW h \in Hashes, replaceSecret(r, h)
    PROVE  IInv'
<1> DEFINE k == request[r].key
<1>1. k \in DOMAIN keys
  BY RegenerateOp DEF replaceSecret
<1>2. keys' = [keys EXCEPT ![k].hash = h] /\ h \notin usedHashes
      /\ usedHashes' = usedHashes \cup {h} /\ tokens' \subseteq tokens
  BY DEF replaceSecret
<1>3. DOMAIN keys' = DOMAIN keys /\ keys' \in [DOMAIN keys' -> Row]
  BY <1>1, <1>2 DEF IInv, TypeOK, Row
<1>4. keys'[k].hash = h /\ \A j \in DOMAIN keys \ {k} : keys'[j] = keys[j]
  BY <1>1, <1>2 DEF IInv, TypeOK, Row
<1>5. SecretsAreDistinct'
  BY <1>1, <1>2, <1>3, <1>4 DEF IInv, SecretsAreDistinct
<1>6. DOMAIN request' \subseteq Requests /\ request' \in [DOMAIN request' -> Op]
      /\ RequestsHaveKeys'
  BY <1>3, EndsKeepsRequests DEF replaceSecret
<1> QED BY <1>2, <1>3, <1>5, <1>6 DEF IInv, TypeOK, replaceSecret, cache

LEMMA TokenKeepsInv ==
    ASSUME IInv, NEW r \in DOMAIN request, NEW h \in TokenHashes, insertPlaygroundToken(r, h)
    PROVE  IInv'
<1> DEFINE token == [hash |-> h, key |-> request[r].key, issuedFor |-> request[r].issuedFor,
                     expiresAt |-> request[r].expiresAt]
<1>1. token \in Token
  BY TokenOp DEF IInv, insertPlaygroundToken, Token
<1>2. tokens' \subseteq tokens \cup {token}
  BY DEF insertPlaygroundToken
<1> HIDE DEF token
<1>3. tokens' \subseteq Token
  BY <1>1, <1>2 DEF IInv, TypeOK
<1>4. keys' = keys /\ usedHashes' = usedHashes \cup {h}
  BY DEF insertPlaygroundToken
<1>5. SecretsAreDistinct'
  BY <1>4 DEF IInv, SecretsAreDistinct
<1>6. DOMAIN request' \subseteq Requests /\ request' \in [DOMAIN request' -> Op]
      /\ RequestsHaveKeys'
  BY <1>4, EndsKeepsRequests DEF insertPlaygroundToken
<1> QED BY <1>3, <1>4, <1>5, <1>6 DEF IInv, TypeOK, insertPlaygroundToken, cache

---------------------------------------------------------------------------
(* The other steps. *)

\* Rows whose only difference is revokedAt.
LEMMA RevokedRowsKeepInv ==
    ASSUME IInv, DOMAIN keys' = DOMAIN keys,
           \A k \in DOMAIN keys : keys'[k] \in Row /\ keys'[k].hash = keys[k].hash,
           keys' \in [DOMAIN keys' -> Row],
           tokens' \subseteq tokens, disabled' \subseteq Users,
           UNCHANGED <<now, access, usedHashes, request, cache>>
    PROVE  IInv'
<1>1. SecretsAreDistinct' /\ RequestsHaveKeys'
  BY DEF IInv, SecretsAreDistinct, RequestsHaveKeys
<1> QED BY <1>1 DEF IInv, TypeOK, cache

LEMMA RevokeKeepsInv ==
    ASSUME IInv, NEW k \in DOMAIN keys, Revoke(k)
    PROVE  IInv'
<1>1. keys' = [keys EXCEPT ![k].revoked = TRUE] /\ tokens' \subseteq tokens
  BY DEF Revoke
<1>2. /\ DOMAIN keys' = DOMAIN keys
      /\ \A j \in DOMAIN keys : keys'[j] \in Row /\ keys'[j].hash = keys[j].hash
      /\ keys' \in [DOMAIN keys' -> Row]
  BY <1>1 DEF IInv, TypeOK, Row
<1> QED BY <1>1, <1>2, RevokedRowsKeepInv DEF IInv, TypeOK, Revoke

LEMMA LockKeepsInv ==
    ASSUME IInv, NEW u \in Users, lockUser(u)
    PROVE  IInv'
<1>1. keys' = [k \in DOMAIN keys |->
                  IF keys[k].user = u THEN [keys[k] EXCEPT !.revoked = TRUE] ELSE keys[k]]
      /\ tokens' \subseteq tokens /\ disabled' \subseteq Users
  BY DEF IInv, TypeOK, lockUser
<1>2. /\ DOMAIN keys' = DOMAIN keys
      /\ \A j \in DOMAIN keys : keys'[j] \in Row /\ keys'[j].hash = keys[j].hash
  BY <1>1 DEF IInv, TypeOK, Row
<1>3. keys' \in [DOMAIN keys' -> Row]
  <2>1. keys' = [k \in DOMAIN keys' |-> keys'[k]]
    BY <1>1
  <2> QED BY <1>2, <2>1
<1> QED BY <1>1, <1>2, <1>3, RevokedRowsKeepInv DEF lockUser

LEMMA AuthorizeKeepsInv ==
    ASSUME IInv, NEW h \in usedHashes, Authorize(h)
    PROVE  IInv'
<1>1. [hash |-> h, status |-> StatusOf(h)]
          \in [hash : Hashes \cup TokenHashes, status : TERMINAL_STATUSES]
  BY DEF IInv, TypeOK, Authorize
<1>2. replies' \subseteq [hash : Hashes \cup TokenHashes, status : TERMINAL_STATUSES]
  BY <1>1 DEF IInv, TypeOK, Authorize
<1> QED BY <1>2 DEF IInv, TypeOK, SecretsAreDistinct, RequestsHaveKeys, Authorize

LEMMA PutKeepsInv ==
    ASSUME IInv, NEW reply \in replies, put(reply)
    PROVE  IInv'
<1> DEFINE entry == [hash |-> reply.hash, status |-> reply.status, expires |-> now + StatusTTL]
           Entries == [hash : Hashes \cup TokenHashes, status : TERMINAL_STATUSES,
                       expires : Nat]
<1>1. now + StatusTTL \in Nat
  BY LifecycleAssumption DEF IInv, TypeOK
<1>2. entry \in Entries
  BY <1>1 DEF IInv, TypeOK
<1>3. known' \subseteq known \cup {entry} /\ replies' \subseteq replies
  BY DEF put
<1> HIDE DEF entry
<1>4. known' \subseteq Entries
  BY <1>2, <1>3 DEF IInv, TypeOK
<1> QED BY <1>3, <1>4 DEF IInv, TypeOK, SecretsAreDistinct, RequestsHaveKeys, put

LEMMA Initially == Init => IInv
  BY DEF Init, IInv, TypeOK, SecretsAreDistinct, RequestsHaveKeys

LEMMA Step == IInv /\ [Next]_vars => IInv'
<1> SUFFICES ASSUME IInv, [Next]_vars PROVE IInv'
  OBVIOUS
<1>1. ASSUME NEW r \in Requests, NEW u \in Users, NEW lifetime \in Lifetimes,
             create(r, u, lifetime)
      PROVE  IInv'
  <2> DEFINE op == [name |-> "create", user |-> u,
                    expiresAt |-> IF lifetime = Never THEN Never ELSE now + lifetime]
  <2>1. (IF lifetime = Never THEN Never ELSE now + lifetime) \in Nat \cup {Never}
    BY LifecycleAssumption DEF IInv, TypeOK
  <2>2. op \in Op
    BY <2>1 DEF Op
  <2> QED BY <1>1, <2>2, BeginKeepsInv DEF create
<1>2. ASSUME NEW r \in Requests, NEW k \in DOMAIN keys, regenerate(r, k)
      PROVE  IInv'
  <2>1. keys[k].user \in Users /\ k \in KeyIds
    BY DEF IInv, TypeOK, Row
  <2>2. [name |-> "regenerate", user |-> keys[k].user, key |-> k] \in Op
    BY <2>1 DEF Op
  <2> QED BY <1>2, <2>1, <2>2, BeginKeepsInv DEF regenerate
<1>3. ASSUME NEW r \in Requests, NEW k \in DOMAIN keys, createPlaygroundToken(r, k)
      PROVE  IInv'
  <2>1. keys[k].user \in Users /\ keys[k].hash \in Hashes /\ k \in KeyIds
        /\ now + TokenTTL \in Nat
    BY LifecycleAssumption DEF IInv, TypeOK, Row
  <2>2. [name |-> "token", user |-> keys[k].user, key |-> k,
         issuedFor |-> keys[k].hash, expiresAt |-> now + TokenTTL] \in Op
    BY <2>1 DEF Op
  <2> QED BY <1>3, <2>1, <2>2, BeginKeepsInv DEF createPlaygroundToken
<1>4. ASSUME NEW r \in DOMAIN request, ActionFails(r)
      PROVE  IInv'
  <2>1. DOMAIN request' \subseteq Requests /\ request' \in [DOMAIN request' -> Op]
        /\ RequestsHaveKeys'
    BY <1>4, EndsKeepsRequests DEF ActionFails
  <2> QED BY <1>4, <2>1 DEF IInv, TypeOK, SecretsAreDistinct, ActionFails, cache
<1>5. ASSUME NEW u \in Users, enableUser(u) \/ AccessChanges(u)
      PROVE  IInv'
  BY <1>5 DEF IInv, TypeOK, SecretsAreDistinct, RequestsHaveKeys,
              enableUser, AccessChanges, cache
<1>6. CASE prune \/ Tick
  BY <1>6 DEF IInv, TypeOK, SecretsAreDistinct, RequestsHaveKeys, prune, Tick, cache
<1>7. CASE UNCHANGED vars
  BY <1>7 DEF IInv, TypeOK, SecretsAreDistinct, RequestsHaveKeys, vars, cache
<1> QED BY <1>1, <1>2, <1>3, <1>4, <1>5, <1>6, <1>7, InsertKeepsInv, ReplaceKeepsInv,
           TokenKeepsInv, RevokeKeepsInv, LockKeepsInv, AuthorizeKeepsInv, PutKeepsInv
        DEF Next

LEMMA Invariance == Spec => []IInv
  BY Initially, Step, PTL DEF Spec

\* Type correctness of the keys, tokens, actions in flight and remembered answers.
THEOREM TypeCorrect == Spec => []TypeOK
<1>1. IInv => TypeOK
  BY DEF IInv
<1> QED BY <1>1, Invariance, PTL

---------------------------------------------------------------------------
(* The refinement of CredentialRegistry: the state of the registry is read *)
(* off the rows of the keys.                                               *)

currentBar == [k \in KeyIds |-> IF k \in DOMAIN keys /\ ~keys[k].revoked
                                THEN keys[k].hash ELSE NoHash]
retiredBar == {k \in DOMAIN keys : keys[k].revoked}
deadBar == {h \in usedHashes \cap Hashes :
               ~\E k \in DOMAIN keys : ~keys[k].revoked /\ keys[k].hash = h}

\* A secret that has not been generated is fresh in the registry.
LEMMA UnusedIsFresh ==
    ASSUME IInv, NEW h \in Hashes, h \notin usedHashes
    PROVE  Registry!Fresh(h)
<1>1. ~\E k \in KeyIds : currentBar[k] = h
  BY LifecycleAssumption DEF currentBar, IInv, SecretsAreDistinct
<1> QED BY <1>1 DEF Registry!Fresh, Registry!Live, currentBar

LEMMA InsertIssues ==
    ASSUME IInv, IInv', NEW r \in DOMAIN request, NEW k \in KeyIds, NEW h \in Hashes,
           insertKey(r, k, h)
    PROVE  Registry!Issue(k, h)
<1>1. /\ k \notin DOMAIN keys /\ h \notin usedHashes /\ usedHashes' = usedHashes \cup {h}
      /\ DOMAIN keys' = DOMAIN keys \cup {k}
      /\ keys'[k].hash = h /\ keys'[k].revoked = FALSE
      /\ \A j \in DOMAIN keys : keys'[j] = keys[j]
  BY DEF insertKey
<1>2. currentBar[k] = NoHash /\ k \notin retiredBar
  BY <1>1 DEF currentBar, retiredBar
<1>3. currentBar' = [currentBar EXCEPT ![k] = h]
  BY <1>1 DEF currentBar
<1>4. retiredBar' = retiredBar
  BY <1>1 DEF retiredBar
<1>5. deadBar' = deadBar
  BY <1>1 DEF deadBar, IInv, SecretsAreDistinct
<1>6. Registry!Fresh(h)
  BY <1>1, UnusedIsFresh
<1> QED BY <1>2, <1>3, <1>4, <1>5, <1>6
        DEF Registry!Issue, currentBar, retiredBar, deadBar

LEMMA ReplaceRotates ==
    ASSUME IInv, IInv', NEW r \in DOMAIN request, NEW h \in Hashes, replaceSecret(r, h)
    PROVE  \E k \in KeyIds : Registry!Rotate(k, h)
<1>0. request[r].key \in DOMAIN keys /\ request[r].key \in KeyIds
  BY RegenerateOp DEF replaceSecret, IInv, TypeOK
<1>1. PICK k \in KeyIds : k = request[r].key
  BY <1>0
<1>a. k \in DOMAIN keys /\ ~keys[k].revoked
  BY <1>0, <1>1 DEF replaceSecret, ReplaceAccepted
<1>2. /\ h \notin usedHashes /\ usedHashes' = usedHashes \cup {h}
      /\ DOMAIN keys' = DOMAIN keys
      /\ keys'[k].hash = h /\ keys'[k].revoked = keys[k].revoked
      /\ \A j \in DOMAIN keys \ {k} : keys'[j] = keys[j]
  BY <1>1, <1>a DEF replaceSecret, IInv, TypeOK, Row
<1>3. currentBar[k] = keys[k].hash /\ currentBar[k] # NoHash
      /\ keys[k].hash \in usedHashes \cap Hashes
  BY <1>a, LifecycleAssumption DEF currentBar, IInv, TypeOK, Row, SecretsAreDistinct
<1>4. currentBar' = [currentBar EXCEPT ![k] = h]
  BY <1>a, <1>2 DEF currentBar
<1>5. retiredBar' = retiredBar
  BY <1>a, <1>2 DEF retiredBar
<1>6. deadBar' = deadBar \cup {currentBar[k]}
  BY <1>a, <1>2, <1>3 DEF deadBar, IInv, SecretsAreDistinct
<1>7. Registry!Fresh(h)
  BY <1>2, UnusedIsFresh
<1>8. Registry!Rotate(k, h)
  BY <1>3, <1>4, <1>5, <1>6, <1>7 DEF Registry!Rotate, currentBar, retiredBar, deadBar
<1> QED BY <1>8

\* Revoking the keys of K, some of which may be revoked already.
LEMMA RevokingRetires ==
    ASSUME IInv, NEW K \in SUBSET DOMAIN keys,
           DOMAIN keys' = DOMAIN keys, usedHashes' = usedHashes,
           \A k \in K : keys'[k].revoked /\ keys'[k].hash = keys[k].hash,
           \A k \in DOMAIN keys \ K : keys'[k] = keys[k]
    PROVE  \E G \in SUBSET KeyIds : Registry!Retire(G)
<1>0. PICK G \in SUBSET KeyIds : G = {k \in K : ~keys[k].revoked}
  BY DEF IInv, TypeOK
<1>1. G \subseteq KeyIds /\ G \subseteq DOMAIN keys
  BY <1>0
<1>2. \A k \in G : currentBar[k] = keys[k].hash /\ currentBar[k] # NoHash
                  /\ keys[k].hash \in usedHashes \cap Hashes
  BY <1>0, <1>1, LifecycleAssumption DEF currentBar, IInv, TypeOK, Row, SecretsAreDistinct
<1>3. currentBar' = [k \in KeyIds |-> IF k \in G THEN NoHash ELSE currentBar[k]]
  BY <1>0 DEF currentBar
<1>4. retiredBar' = retiredBar \cup G
  BY <1>0 DEF retiredBar
<1>5. deadBar' = deadBar \cup {currentBar[k] : k \in G}
  <2>1. \A k \in G : keys[k].hash \in deadBar'
    BY <1>0, <1>1, <1>2 DEF deadBar, IInv, SecretsAreDistinct
  <2>2. deadBar \subseteq deadBar'
    BY DEF deadBar
  <2>3. ASSUME NEW h \in deadBar', h \notin deadBar
        PROVE  \E k \in G : currentBar[k] = h
    <3>1. PICK k \in DOMAIN keys : ~keys[k].revoked /\ keys[k].hash = h
      BY <2>3 DEF deadBar
    <3>2. k \in G
      BY <1>0, <2>3, <3>1 DEF deadBar
    <3> QED BY <1>2, <3>1, <3>2
  <2> QED BY <1>2, <2>1, <2>2, <2>3
<1>6. Registry!Retire(G)
  BY <1>2, <1>3, <1>4, <1>5 DEF Registry!Retire, currentBar, retiredBar, deadBar
<1> QED BY <1>6

\* Steps that leave the rows and the stored secrets as they are.
LEMMA OthersStutter ==
    ASSUME keys' = keys, usedHashes' \cap Hashes = usedHashes \cap Hashes
    PROVE  UNCHANGED Registry!registryVars
  BY DEF Registry!registryVars

LEMMA StepRefines == IInv /\ IInv' /\ [Next]_vars => [Registry!Next]_(Registry!registryVars)
<1> SUFFICES ASSUME IInv, IInv', [Next]_vars
             PROVE  Registry!Next \/ UNCHANGED Registry!registryVars
  OBVIOUS
<1>1. ASSUME NEW r \in DOMAIN request, NEW k \in KeyIds, NEW h \in Hashes,
             insertKey(r, k, h)
      PROVE  Registry!Next
  BY <1>1, InsertIssues DEF Registry!Next
<1>2. ASSUME NEW r \in DOMAIN request, NEW h \in Hashes, replaceSecret(r, h)
      PROVE  Registry!Next
  BY <1>2, ReplaceRotates DEF Registry!Next
<1>3. ASSUME NEW k \in DOMAIN keys, Revoke(k)
      PROVE  Registry!Next
  <2>1. DOMAIN keys' = DOMAIN keys /\ usedHashes' = usedHashes
        /\ keys'[k].revoked /\ keys'[k].hash = keys[k].hash
        /\ \A j \in DOMAIN keys \ {k} : keys'[j] = keys[j]
    BY <1>3 DEF Revoke, IInv, TypeOK, Row
  <2>2. {k} \in SUBSET DOMAIN keys
    OBVIOUS
  <2> QED BY <2>1, <2>2, RevokingRetires DEF Registry!Next
<1>4. ASSUME NEW u \in Users, lockUser(u)
      PROVE  Registry!Next
  <2>1. DOMAIN keys' = DOMAIN keys /\ usedHashes' = usedHashes
        /\ (\A k \in KeysOf(u) : keys'[k].revoked /\ keys'[k].hash = keys[k].hash)
        /\ (\A k \in DOMAIN keys \ KeysOf(u) : keys'[k] = keys[k])
    BY <1>4 DEF lockUser, KeysOf, IInv, TypeOK, Row
  <2>2. KeysOf(u) \in SUBSET DOMAIN keys
    BY DEF KeysOf
  <2> QED BY <2>1, <2>2, RevokingRetires DEF Registry!Next
<1>5. ASSUME NEW r \in DOMAIN request, NEW h \in TokenHashes, insertPlaygroundToken(r, h)
      PROVE  UNCHANGED Registry!registryVars
  BY <1>5, LifecycleAssumption, OthersStutter DEF insertPlaygroundToken
<1>6. ASSUME keys' = keys, usedHashes' = usedHashes
      PROVE  UNCHANGED Registry!registryVars
  BY <1>6, OthersStutter
<1> QED BY <1>1, <1>2, <1>3, <1>4, <1>5, <1>6
        DEF Next, create, regenerate, createPlaygroundToken, Begin, ActionFails,
            enableUser, AccessChanges, Authorize, put, prune, Tick, vars

\* Whichever actions, locks and rotations overtake each other, the keys are a registry:
\* one good secret per key, and no secret or key that comes back.
THEOREM KeysImplementRegistry == Spec => RegistryKept
<1>1. Init => Registry!Init
  BY DEF Init, Registry!Init
<1>2. IInv /\ IInv' /\ [Next]_vars => [Registry!Next]_(Registry!registryVars)
  BY StepRefines
<1> QED BY <1>1, <1>2, Invariance, PTL DEF Spec, RegistryKept, Registry!Spec

---------------------------------------------------------------------------
(* The limits.  Rows are only added by insertKey and tokens only by        *)
(* insertPlaygroundToken; both count what there is.                        *)

LimitsKept == IsFiniteSet(DOMAIN keys) /\ IsFiniteSet(tokens) /\ Limits

LEMMA RowsStay ==
    ASSUME IInv, [Next]_vars,
           ~\E r \in DOMAIN request, k \in KeyIds, h \in Hashes : insertKey(r, k, h)
    PROVE  /\ DOMAIN keys' = DOMAIN keys
           /\ \A k \in DOMAIN keys : /\ keys'[k].user = keys[k].user
                                     /\ keys[k].revoked => keys'[k].revoked
<1>1. ASSUME NEW r \in DOMAIN request, NEW h \in Hashes, replaceSecret(r, h)
      PROVE  /\ DOMAIN keys' = DOMAIN keys
             /\ \A k \in DOMAIN keys : /\ keys'[k].user = keys[k].user
                                       /\ keys[k].revoked => keys'[k].revoked
  BY <1>1 DEF replaceSecret, IInv, TypeOK, Row
<1>2. ASSUME NEW k \in DOMAIN keys, Revoke(k)
      PROVE  /\ DOMAIN keys' = DOMAIN keys
             /\ \A j \in DOMAIN keys : /\ keys'[j].user = keys[j].user
                                       /\ keys[j].revoked => keys'[j].revoked
  BY <1>2 DEF Revoke, IInv, TypeOK, Row
<1>3. ASSUME NEW u \in Users, lockUser(u)
      PROVE  /\ DOMAIN keys' = DOMAIN keys
             /\ \A j \in DOMAIN keys : /\ keys'[j].user = keys[j].user
                                       /\ keys[j].revoked => keys'[j].revoked
  BY <1>3 DEF lockUser, IInv, TypeOK, Row
<1>4. CASE keys' = keys
  BY <1>4
<1> QED BY <1>1, <1>2, <1>3, <1>4
        DEF Next, create, regenerate, createPlaygroundToken, Begin, ActionFails,
            insertPlaygroundToken, enableUser, AccessChanges, Authorize, put, prune, Tick, vars

LEMMA TokensStay ==
    ASSUME [Next]_vars,
           ~\E r \in DOMAIN request, h \in TokenHashes : insertPlaygroundToken(r, h)
    PROVE  tokens' \subseteq tokens
BY DEF Next, create, regenerate, createPlaygroundToken, Begin, ActionFails, insertKey,
       replaceSecret, Revoke, lockUser, enableUser, AccessChanges, Authorize, put, prune,
       Tick, vars, cache

LEMMA FewerTokens ==
    ASSUME LimitsKept, tokens' \subseteq tokens
    PROVE  /\ IsFiniteSet(tokens')
           /\ \A k \in KeyIds : Cardinality(TokensOf(k)') <= MAX_PLAYGROUND_TOKENS_PER_KEY
<1>1. IsFiniteSet(tokens) /\ IsFiniteSet(tokens')
  BY FS_Subset DEF LimitsKept
<1>2. ASSUME NEW k \in KeyIds
      PROVE  Cardinality(TokensOf(k)') <= MAX_PLAYGROUND_TOKENS_PER_KEY
  <2>1. IsFiniteSet(TokensOf(k)) /\ TokensOf(k)' \subseteq TokensOf(k)
    BY <1>1, FS_Subset DEF TokensOf
  <2>2. /\ Cardinality(TokensOf(k)) \in Nat /\ Cardinality(TokensOf(k)') \in Nat
        /\ Cardinality(TokensOf(k)') <= Cardinality(TokensOf(k))
    BY <2>1, FS_Subset, FS_CardinalityType
  <2>3. Cardinality(TokensOf(k)) <= MAX_PLAYGROUND_TOKENS_PER_KEY
    BY DEF LimitsKept, Limits
  <2> QED BY <2>2, <2>3, LifecycleAssumption
<1> QED BY <1>1, <1>2

\* A set that gets at most one element more.
LEMMA OneMore ==
    ASSUME NEW S, IsFiniteSet(S), NEW x, NEW T, T \subseteq S \cup {x}
    PROVE  /\ IsFiniteSet(T) /\ Cardinality(S) \in Nat /\ Cardinality(T) \in Nat
           /\ Cardinality(T) <= Cardinality(S) + 1
<1>1. /\ IsFiniteSet(S \cup {x})
      /\ Cardinality(S \cup {x}) = IF x \in S THEN Cardinality(S) ELSE Cardinality(S) + 1
  BY FS_AddElement
<1>2. IsFiniteSet(T) /\ Cardinality(T) <= Cardinality(S \cup {x})
  BY <1>1, FS_Subset
<1>3. Cardinality(S) \in Nat /\ Cardinality(T) \in Nat
  BY <1>2, FS_CardinalityType
<1> QED BY <1>1, <1>2, <1>3

LEMMA InsertedToken ==
    ASSUME IInv, LimitsKept, NEW r \in DOMAIN request, NEW h \in TokenHashes,
           insertPlaygroundToken(r, h)
    PROVE  /\ IsFiniteSet(tokens')
           /\ \A k \in KeyIds : Cardinality(TokensOf(k)') <= MAX_PLAYGROUND_TOKENS_PER_KEY
<1>0. PICK k : k = request[r].key
  OBVIOUS
<1>a. PICK token : token = [hash |-> h, key |-> k, issuedFor |-> request[r].issuedFor,
                            expiresAt |-> request[r].expiresAt]
  OBVIOUS
<1>1. PICK old \in SUBSET TokensOf(k) :
         /\ Cardinality(old) = (IF Surplus(k) > 0 THEN Surplus(k) ELSE 0)
         /\ tokens' = (tokens \ old) \cup {token}
  BY <1>0, <1>a DEF insertPlaygroundToken
<1>2. token.key = k
  BY <1>a
<1>3. IsFiniteSet(tokens) /\ IsFiniteSet(tokens')
  BY <1>1, OneMore DEF LimitsKept
<1>4. k \in KeyIds
  BY <1>0, TokenOp DEF IInv, insertPlaygroundToken
<1>5. ASSUME NEW j \in KeyIds, j # k
      PROVE  Cardinality(TokensOf(j)') <= MAX_PLAYGROUND_TOKENS_PER_KEY
  <2>1. TokensOf(j)' \subseteq TokensOf(j)
    BY <1>1, <1>2, <1>5 DEF TokensOf
  <2>2. IsFiniteSet(TokensOf(j))
    BY <1>3, FS_Subset DEF TokensOf
  <2>3. /\ Cardinality(TokensOf(j)) \in Nat /\ Cardinality(TokensOf(j)') \in Nat
        /\ Cardinality(TokensOf(j)') <= Cardinality(TokensOf(j))
    BY <2>1, <2>2, FS_Subset, FS_CardinalityType
  <2>4. Cardinality(TokensOf(j)) <= MAX_PLAYGROUND_TOKENS_PER_KEY
    BY DEF LimitsKept, Limits
  <2> QED BY <2>3, <2>4, LifecycleAssumption
<1>6. Cardinality(TokensOf(k)') <= MAX_PLAYGROUND_TOKENS_PER_KEY
  <2> DEFINE T == TokensOf(k)
             kept == T \ old
  <2>1. IsFiniteSet(T)
    BY <1>3, FS_Subset DEF TokensOf
  <2>2. /\ IsFiniteSet(kept) /\ Cardinality(T) \in Nat /\ Cardinality(old) \in Nat
        /\ Cardinality(kept) = Cardinality(T) - Cardinality(old)
    <3>1. IsFiniteSet(old) /\ T \cap old = old
      BY <2>1, FS_Subset
    <3>2. Cardinality(kept) = Cardinality(T) - Cardinality(T \cap old)
      BY <2>1, <3>1, FS_Difference
    <3> QED BY <2>1, <3>1, <3>2, FS_Difference, FS_CardinalityType
  <2>3. Surplus(k) = Cardinality(T) - (MAX_PLAYGROUND_TOKENS_PER_KEY - 1)
    BY DEF Surplus
  <2>4. TokensOf(k)' \subseteq kept \cup {token}
    BY <1>1 DEF TokensOf
  <2> HIDE DEF T, kept
  <2>5. Cardinality(kept) \in Nat /\ Cardinality(kept) <= MAX_PLAYGROUND_TOKENS_PER_KEY - 1
    <3>1. Cardinality(kept) \in Nat
      BY <2>2, FS_CardinalityType
    <3> QED BY <1>1, <2>2, <2>3, <3>1, LifecycleAssumption
  <2>6. Cardinality(TokensOf(k)') \in Nat /\ Cardinality(TokensOf(k)') <= Cardinality(kept) + 1
    BY <2>2, <2>4, OneMore
  <2> QED BY <2>5, <2>6, LifecycleAssumption
<1> QED BY <1>3, <1>5, <1>6

LEMMA RowsWithinLimits ==
    ASSUME IInv, LimitsKept, [Next]_vars
    PROVE  /\ IsFiniteSet(DOMAIN keys')
           /\ \A u \in Users : /\ Cardinality(KeysOf(u)') <= MAX_TOTAL_KEYS_PER_USER
                               /\ Cardinality(ActiveKeysOf(u)') <= MAX_ACTIVE_KEYS_PER_USER
<1>0. ASSUME NEW u \in Users
      PROVE  /\ IsFiniteSet(KeysOf(u)) /\ IsFiniteSet(ActiveKeysOf(u))
             /\ Cardinality(KeysOf(u)) \in Nat /\ Cardinality(ActiveKeysOf(u)) \in Nat
             /\ Cardinality(KeysOf(u)) <= MAX_TOTAL_KEYS_PER_USER
             /\ Cardinality(ActiveKeysOf(u)) <= MAX_ACTIVE_KEYS_PER_USER
  <2>1. IsFiniteSet(KeysOf(u))
    BY FS_Subset DEF LimitsKept, KeysOf
  <2>2. IsFiniteSet(ActiveKeysOf(u))
    BY <2>1, FS_Subset DEF ActiveKeysOf
  <2> QED BY <2>1, <2>2, FS_CardinalityType DEF LimitsKept, Limits
<1>1. ASSUME NEW r \in DOMAIN request, NEW k \in KeyIds, NEW h \in Hashes, insertKey(r, k, h)
      PROVE  /\ IsFiniteSet(DOMAIN keys')
             /\ \A u \in Users : /\ Cardinality(KeysOf(u)') <= MAX_TOTAL_KEYS_PER_USER
                                 /\ Cardinality(ActiveKeysOf(u)') <= MAX_ACTIVE_KEYS_PER_USER
  <2>1. /\ DOMAIN keys' = DOMAIN keys \cup {k} /\ InsertAccepted(request[r].user)
        /\ keys'[k].user = request[r].user
        /\ \A j \in DOMAIN keys : keys'[j] = keys[j]
    BY <1>1 DEF insertKey
  <2>2. IsFiniteSet(DOMAIN keys')
    BY <2>1, FS_AddElement DEF LimitsKept
  <2>3. ASSUME NEW u \in Users
        PROVE  /\ Cardinality(KeysOf(u)') <= MAX_TOTAL_KEYS_PER_USER
               /\ Cardinality(ActiveKeysOf(u)') <= MAX_ACTIVE_KEYS_PER_USER
    <3>1. CASE u = request[r].user
      <4>1. /\ KeysOf(u)' \subseteq KeysOf(u) \cup {k}
            /\ ActiveKeysOf(u)' \subseteq ActiveKeysOf(u) \cup {k}
        BY <2>1 DEF KeysOf, ActiveKeysOf
      <4>2. /\ Cardinality(KeysOf(u)') \in Nat /\ Cardinality(KeysOf(u)') <= Cardinality(KeysOf(u)) + 1
            /\ Cardinality(ActiveKeysOf(u)') \in Nat
            /\ Cardinality(ActiveKeysOf(u)') <= Cardinality(ActiveKeysOf(u)) + 1
        BY <1>0, <4>1, OneMore
      <4>3. /\ Cardinality(KeysOf(u)) < MAX_TOTAL_KEYS_PER_USER
            /\ Cardinality(ActiveKeysOf(u)) < MAX_ACTIVE_KEYS_PER_USER
        BY <2>1, <3>1 DEF InsertAccepted
      <4> QED BY <1>0, <4>2, <4>3, LifecycleAssumption
    <3>2. CASE u # request[r].user
      <4>1. KeysOf(u)' = KeysOf(u) /\ ActiveKeysOf(u)' = ActiveKeysOf(u)
        BY <2>1, <3>2 DEF KeysOf, ActiveKeysOf
      <4> QED BY <1>0, <4>1
    <3> QED BY <3>1, <3>2
  <2> QED BY <2>2, <2>3
<1>2. ASSUME ~\E r \in DOMAIN request, k \in KeyIds, h \in Hashes : insertKey(r, k, h)
      PROVE  /\ IsFiniteSet(DOMAIN keys')
             /\ \A u \in Users : /\ Cardinality(KeysOf(u)') <= MAX_TOTAL_KEYS_PER_USER
                                 /\ Cardinality(ActiveKeysOf(u)') <= MAX_ACTIVE_KEYS_PER_USER
  <2>1. DOMAIN keys' = DOMAIN keys
        /\ \A k \in DOMAIN keys : keys'[k].user = keys[k].user /\ (keys[k].revoked => keys'[k].revoked)
    BY <1>2, RowsStay
  <2>2. ASSUME NEW u \in Users
        PROVE  /\ Cardinality(KeysOf(u)') <= MAX_TOTAL_KEYS_PER_USER
               /\ Cardinality(ActiveKeysOf(u)') <= MAX_ACTIVE_KEYS_PER_USER
    <3>1. KeysOf(u)' = KeysOf(u) /\ ActiveKeysOf(u)' \subseteq ActiveKeysOf(u)
      BY <2>1 DEF KeysOf, ActiveKeysOf
    <3>2. Cardinality(ActiveKeysOf(u)') \in Nat
          /\ Cardinality(ActiveKeysOf(u)') <= Cardinality(ActiveKeysOf(u))
      BY <1>0, <3>1, FS_Subset, FS_CardinalityType
    <3> QED BY <1>0, <3>1, <3>2, LifecycleAssumption
  <2> QED BY <2>1, <2>2 DEF LimitsKept
<1> QED BY <1>1, <1>2

LEMMA LimitsStep == IInv /\ LimitsKept /\ [Next]_vars => LimitsKept'
<1> SUFFICES ASSUME IInv, LimitsKept, [Next]_vars PROVE LimitsKept'
  OBVIOUS
<1>1. /\ IsFiniteSet(tokens')
      /\ \A k \in KeyIds : Cardinality(TokensOf(k)') <= MAX_PLAYGROUND_TOKENS_PER_KEY
  BY TokensStay, FewerTokens, InsertedToken
<1> QED BY <1>1, RowsWithinLimits DEF LimitsKept, Limits

LEMMA LimitsInitially == Init => LimitsKept
<1> SUFFICES ASSUME Init PROVE LimitsKept
  OBVIOUS
<1>1. DOMAIN keys = {} /\ tokens = {}
  BY DEF Init
<1>2. IsFiniteSet({}) /\ Cardinality({}) = 0
  BY FS_EmptySet
<1>3. ASSUME NEW u \in Users
      PROVE  Cardinality(KeysOf(u)) = 0 /\ Cardinality(ActiveKeysOf(u)) = 0
  <2>1. KeysOf(u) = {} /\ ActiveKeysOf(u) = {}
    BY <1>1 DEF KeysOf, ActiveKeysOf
  <2> QED BY <1>2, <2>1
<1>4. ASSUME NEW k \in KeyIds
      PROVE  Cardinality(TokensOf(k)) = 0
  <2>1. TokensOf(k) = {}
    BY <1>1 DEF TokensOf
  <2> QED BY <1>2, <2>1
<1>5. Limits
  BY <1>3, <1>4, LifecycleAssumption DEF Limits
<1> QED BY <1>1, <1>2, <1>5 DEF LimitsKept

\* The limits on the keys of an account and the tokens of a key hold however many
\* actions run at the same time: their last look at the rows is in the mutation.
THEOREM LimitsHold == Spec => []Limits
<1>1. Spec => []LimitsKept
  BY Invariance, LimitsInitially, LimitsStep, PTL DEF Spec
<1>2. LimitsKept => Limits
  BY DEF LimitsKept
<1> QED BY <1>1, <1>2, PTL

---------------------------------------------------------------------------
(* The gateway's memory.  A credential is carried by the key whose secret  *)
(* or whose token it is.  It is open while that key is neither revoked nor *)
(* expired and the credential itself is valid; once closed it stays so.    *)
(* The account is the one thing that can come back: a locked account is    *)
(* why the property leaves out the owners an operator may lock.            *)

Carries(k, h) == keys[k].hash = h \/ \E t \in tokens : t.key = k /\ t.hash = h
Valid(k, h) == keys[k].hash = h \/ \E t \in tokens : t.key = k /\ t.hash = h /\ t.expiresAt > now
OpenBy(k, h) == k \in DOMAIN keys /\ ~keys[k].revoked /\ ~Expired(k) /\ Valid(k, h)
Open(h) == \E k \in DOMAIN keys : OpenBy(k, h)

\* Tokens are generated once, for keys that exist.
TokensAreDistinct ==
    /\ \A t \in tokens : t.hash \in usedHashes /\ t.key \in DOMAIN keys
    /\ \A s, t \in tokens : s.hash = t.hash => s = t

Answers == {e.hash : e \in replies} \cup {e.hash : e \in known}

\* An answer on its way or in the memory is about a credential that is closed.
AnswersAreFinal ==
    \A h \in Answers : h \in usedHashes /\ (OwnersOf(h) \cap Lockable = {} => ~Open(h))

MemoryKept == disabled \subseteq Lockable /\ TokensAreDistinct /\ AnswersAreFinal

LEMMA OwnersAreCarriers ==
    \A h : OwnersOf(h) = {keys[k].user : k \in {j \in DOMAIN keys : Carries(j, h)}}
BY DEF OwnersOf, TokensOf, Carries

LEMMA OneCarrier ==
    ASSUME IInv, TokensAreDistinct, NEW h,
           NEW j \in DOMAIN keys, NEW k \in DOMAIN keys, Carries(j, h), Carries(k, h)
    PROVE  j = k
<1>1. \A i \in DOMAIN keys : keys[i].hash \in Hashes
  BY DEF IInv, TypeOK, Row
<1>2. \A t \in tokens : t.hash \in TokenHashes
  BY DEF IInv, TypeOK, Token
<1> QED BY <1>1, <1>2, LifecycleAssumption DEF IInv, SecretsAreDistinct, TokensAreDistinct, Carries

\* What Convex answers about a credential of an account that is never locked.
LEMMA StatusIsOpen ==
    ASSUME IInv, MemoryKept, NEW h
    PROVE  /\ StatusOf(h) = "ok" => Open(h)
           /\ Open(h) /\ OwnersOf(h) \cap Lockable = {} => StatusOf(h) \notin TERMINAL_STATUSES
<1> DEFINE ofToken == {t \in tokens : t.hash = h}
           ofKey == {k \in DOMAIN keys : keys[k].hash = h}
<1>1. \A i \in DOMAIN keys : keys[i].hash \in Hashes
  BY DEF IInv, TypeOK, Row
<1>2. \A t \in tokens : t.hash \in TokenHashes /\ t.key \in DOMAIN keys /\ t.expiresAt \in Nat
  BY DEF IInv, TypeOK, Token, MemoryKept, TokensAreDistinct
<1>3. StatusOf(h) = CASE ofKey # {} -> KeyStatus(CHOOSE k \in ofKey : TRUE)
         [] \E t \in ofToken : t.expiresAt > now -> KeyStatus((CHOOSE t \in ofToken : TRUE).key)
         [] \E t \in ofToken : t.expiresAt <= now -> "expired"
         [] OTHER -> "invalid"
  BY DEF StatusOf
<1>4. ofKey # {} => ofToken = {}
  BY <1>1, <1>2, LifecycleAssumption
<1>5. CASE ofKey # {}
  <2>1. PICK k : k = CHOOSE j \in ofKey : TRUE
    OBVIOUS
  <2>2. k \in DOMAIN keys /\ keys[k].hash = h
    BY <1>5, <2>1
  <2>3. StatusOf(h) = KeyStatus(k)
    BY <1>3, <1>4, <1>5, <2>1
  <2>4. KeyStatus(k) = "ok" => OpenBy(k, h)
    BY <2>2 DEF KeyStatus, OpenBy, Valid
  <2>5. ASSUME Open(h), OwnersOf(h) \cap Lockable = {}
        PROVE  KeyStatus(k) \notin TERMINAL_STATUSES
    <3>1. PICK j \in DOMAIN keys : OpenBy(j, h)
      BY <2>5 DEF Open
    <3>2. Carries(j, h) /\ Carries(k, h)
      BY <2>2, <3>1 DEF OpenBy, Valid, Carries
    <3>3. j = k
      BY <2>2, <3>2, OneCarrier DEF MemoryKept
    <3>4. keys[k].user \in OwnersOf(h)
      BY <2>2, <3>2, OwnersAreCarriers
    <3>5. keys[k].user \notin disabled
      BY <2>5, <3>4 DEF MemoryKept
    <3> QED BY <3>1, <3>3, <3>5 DEF OpenBy, KeyStatus, TERMINAL_STATUSES
  <2> QED BY <2>2, <2>3, <2>4, <2>5 DEF Open
<1>6. CASE ofKey = {} /\ \E t \in ofToken : t.expiresAt > now
  <2>1. PICK t \in ofToken : t.expiresAt > now
    BY <1>6
  <2>2. (CHOOSE s \in ofToken : TRUE) = t
    <3>1. (CHOOSE s \in ofToken : TRUE) \in ofToken
      BY <2>1
    <3> QED BY <2>1, <3>1 DEF MemoryKept, TokensAreDistinct
  <2>3. PICK k \in DOMAIN keys : k = t.key
    BY <1>2
  <2>4. StatusOf(h) = KeyStatus(k)
    <3>1. \A s \in ofToken : s = t
      BY <2>1 DEF MemoryKept, TokensAreDistinct
    <3>2. ~(t.expiresAt <= now)
      BY <1>2, <2>1 DEF IInv, TypeOK
    <3>3. ~\E s \in ofToken : s.expiresAt <= now
      BY <3>1, <3>2
    <3> HIDE DEF ofToken, ofKey
    <3> QED BY <1>3, <1>6, <2>2, <2>3, <3>3
  <2>5. Valid(k, h) /\ Carries(k, h)
    BY <2>1, <2>3 DEF Valid, Carries
  <2>6. KeyStatus(k) = "ok" => OpenBy(k, h)
    BY <2>5 DEF KeyStatus, OpenBy
  <2>7. ASSUME Open(h), OwnersOf(h) \cap Lockable = {}
        PROVE  KeyStatus(k) \notin TERMINAL_STATUSES
    <3>1. PICK j \in DOMAIN keys : OpenBy(j, h)
      BY <2>7 DEF Open
    <3>2. j = k
      <4>1. Carries(j, h)
        BY <3>1 DEF OpenBy, Valid, Carries
      <4> QED BY <2>5, <4>1, OneCarrier DEF MemoryKept
    <3>3. keys[k].user \in OwnersOf(h)
      BY <2>5, OwnersAreCarriers
    <3>4. keys[k].user \notin disabled
      BY <2>7, <3>3 DEF MemoryKept
    <3> QED BY <3>1, <3>2, <3>4 DEF OpenBy, KeyStatus, TERMINAL_STATUSES
  <2> QED BY <2>4, <2>6, <2>7 DEF Open
<1>7. CASE ofKey = {} /\ ~\E t \in ofToken : t.expiresAt > now
  <2>1. StatusOf(h) \in {"expired", "invalid"}
    BY <1>3, <1>7
  <2>2. ~Open(h)
    BY <1>7 DEF Open, OpenBy, Valid
  <2> QED BY <2>1, <2>2
<1> QED BY <1>5, <1>6, <1>7

---------------------------------------------------------------------------
(* What becomes of a credential in a step. *)

LEMMA TokensStep ==
    ASSUME IInv, IInv', MemoryKept, [Next]_vars
    PROVE  /\ TokensAreDistinct' /\ now <= now' /\ usedHashes \subseteq usedHashes'
           /\ \A t \in tokens' : t \in tokens \/ t.hash \notin usedHashes
           /\ disabled' \subseteq Lockable
<1>1. ASSUME NEW r \in DOMAIN request, NEW h \in TokenHashes, insertPlaygroundToken(r, h)
      PROVE  /\ TokensAreDistinct' /\ \A t \in tokens' : t \in tokens \/ t.hash \notin usedHashes
  <2>1. PICK token : token = [hash |-> h, key |-> request[r].key, issuedFor |-> request[r].issuedFor,
                              expiresAt |-> request[r].expiresAt]
    OBVIOUS
  <2>2. /\ tokens' \subseteq tokens \cup {token} /\ token.hash = h /\ h \notin usedHashes
        /\ usedHashes' = usedHashes \cup {h} /\ keys' = keys
    BY <1>1, <2>1 DEF insertPlaygroundToken
  <2>3. token.key \in DOMAIN keys
    BY <1>1, <2>1 DEF IInv, RequestsHaveKeys, insertPlaygroundToken, Running
  <2> QED BY <2>2, <2>3 DEF MemoryKept, TokensAreDistinct
<1>2. ASSUME ~\E r \in DOMAIN request, h \in TokenHashes : insertPlaygroundToken(r, h)
      PROVE  /\ tokens' \subseteq tokens /\ DOMAIN keys \subseteq DOMAIN keys'
             /\ usedHashes \subseteq usedHashes'
  <2>1. tokens' \subseteq tokens
    BY <1>2, TokensStay
  <2>2. DOMAIN keys \subseteq DOMAIN keys'
    BY RowsStay DEF insertKey
  <2>3. usedHashes \subseteq usedHashes'
    BY <1>2 DEF Next, create, regenerate, createPlaygroundToken, Begin, ActionFails, insertKey,
       replaceSecret, Revoke, lockUser, enableUser, AccessChanges, Authorize, put, prune,
       Tick, vars, cache
  <2> QED BY <2>1, <2>2, <2>3
<1>3. now <= now'
  <2>1. now \in Nat
    BY DEF IInv, TypeOK
  <2>2. now' = now \/ now' = now + 1
    BY DEF Next, create, regenerate, createPlaygroundToken, Begin, ActionFails, insertKey,
       insertPlaygroundToken, replaceSecret, Revoke, lockUser, enableUser, AccessChanges,
       Authorize, put, prune, Tick, vars, cache
  <2> QED BY <2>1, <2>2
<1>4. disabled' \subseteq Lockable
  BY DEF MemoryKept, Next, create, regenerate, createPlaygroundToken, Begin, ActionFails, insertKey,
       insertPlaygroundToken, replaceSecret, Revoke, lockUser, enableUser, AccessChanges,
       Authorize, put, prune, Tick, vars, cache
<1>5. CASE \E r \in DOMAIN request, h \in TokenHashes : insertPlaygroundToken(r, h)
  <2>1. usedHashes \subseteq usedHashes'
    BY <1>5 DEF insertPlaygroundToken
  <2> QED BY <1>1, <1>3, <1>4, <1>5, <2>1
<1>6. CASE ~\E r \in DOMAIN request, h \in TokenHashes : insertPlaygroundToken(r, h)
  BY <1>2, <1>3, <1>4, <1>6 DEF MemoryKept, TokensAreDistinct
<1> QED BY <1>5, <1>6

\* A row is the one it was, with a new secret or a mark, or it is new.
LEMMA RowStep ==
    ASSUME IInv, IInv', [Next]_vars, NEW k \in DOMAIN keys'
    PROVE  \/ k \notin DOMAIN keys /\ keys'[k].hash \notin usedHashes
           \/ /\ k \in DOMAIN keys /\ keys'[k].user = keys[k].user
              /\ keys[k].revoked => keys'[k].revoked
              /\ keys'[k].expiresAt = keys[k].expiresAt
              /\ keys'[k].hash = keys[k].hash \/ keys'[k].hash \notin usedHashes
<1>1. ASSUME NEW r \in DOMAIN request, NEW j \in KeyIds, NEW h \in Hashes, insertKey(r, j, h)
      PROVE  \/ k \notin DOMAIN keys /\ keys'[k].hash \notin usedHashes
             \/ k \in DOMAIN keys /\ keys'[k] = keys[k]
  <2>1. /\ DOMAIN keys' = DOMAIN keys \cup {j} /\ j \notin DOMAIN keys /\ h \notin usedHashes
        /\ keys'[j].hash = h /\ \A i \in DOMAIN keys : keys'[i] = keys[i]
    BY <1>1 DEF insertKey
  <2> QED BY <2>1
<1>2. ASSUME NEW r \in DOMAIN request, NEW h \in Hashes, replaceSecret(r, h)
      PROVE  /\ k \in DOMAIN keys /\ keys'[k].user = keys[k].user
             /\ keys[k].revoked => keys'[k].revoked
             /\ keys'[k].expiresAt = keys[k].expiresAt
             /\ keys'[k].hash = keys[k].hash \/ keys'[k].hash \notin usedHashes
  BY <1>2 DEF replaceSecret, IInv, TypeOK, Row
<1>3. ASSUME NEW j \in DOMAIN keys, Revoke(j)
      PROVE  /\ k \in DOMAIN keys /\ keys'[k].user = keys[k].user
             /\ keys[k].revoked => keys'[k].revoked
             /\ keys'[k].expiresAt = keys[k].expiresAt /\ keys'[k].hash = keys[k].hash
  BY <1>3 DEF Revoke, IInv, TypeOK, Row
<1>4. ASSUME NEW u \in Users, lockUser(u)
      PROVE  /\ k \in DOMAIN keys /\ keys'[k].user = keys[k].user
             /\ keys[k].revoked => keys'[k].revoked
             /\ keys'[k].expiresAt = keys[k].expiresAt /\ keys'[k].hash = keys[k].hash
  BY <1>4 DEF lockUser, IInv, TypeOK, Row
<1>5. CASE keys' = keys
  BY <1>5
<1> QED BY <1>1, <1>2, <1>3, <1>4, <1>5
        DEF Next, create, regenerate, createPlaygroundToken, Begin, ActionFails,
            insertPlaygroundToken, enableUser, AccessChanges, Authorize, put, prune, Tick, vars

\* Who carries a credential that has been used, carried it before, and did so openly if
\* it does so now.
LEMMA CarriersStay ==
    ASSUME IInv, IInv', MemoryKept, [Next]_vars,
           NEW h \in usedHashes, NEW k \in DOMAIN keys', Carries(k, h)'
    PROVE  /\ k \in DOMAIN keys /\ Carries(k, h) /\ keys'[k].user = keys[k].user
           /\ OpenBy(k, h)' => OpenBy(k, h)
<1>1. \A t \in tokens' : t.hash = h => t \in tokens
  BY TokensStep
<1>2. k \in DOMAIN keys
  BY <1>1, RowStep DEF Carries, MemoryKept, TokensAreDistinct
<1>3. /\ keys'[k].user = keys[k].user
      /\ keys[k].revoked => keys'[k].revoked
      /\ keys'[k].expiresAt = keys[k].expiresAt
      /\ keys'[k].hash = h => keys[k].hash = h
  BY <1>2, RowStep
<1>4. Carries(k, h)
  BY <1>1, <1>3 DEF Carries
<1>5. /\ now \in Nat /\ now' \in Nat /\ now <= now'
      /\ keys[k].expiresAt \in Nat \cup {Never} /\ \A t \in tokens : t.expiresAt \in Nat
  BY <1>2, TokensStep DEF IInv, TypeOK, Row, Token
<1>6. Valid(k, h)' => Valid(k, h)
  <2>1. \A t \in tokens : t.expiresAt > now' => t.expiresAt > now
    BY <1>5
  <2> QED BY <1>1, <1>3, <2>1 DEF Valid
<1>7. Expired(k) => Expired(k)'
  BY <1>3, <1>5, LifecycleAssumption DEF Expired
<1> QED BY <1>2, <1>3, <1>4, <1>6, <1>7 DEF OpenBy

\* An answer that was final stays so.
LEMMA FinalStays ==
    ASSUME IInv, IInv', MemoryKept, [Next]_vars, NEW h \in usedHashes,
           OwnersOf(h) \cap Lockable = {} => ~Open(h), (OwnersOf(h) \cap Lockable = {})'
    PROVE  ~Open(h)'
<1> SUFFICES ASSUME Open(h)' PROVE FALSE
  OBVIOUS
<1>1. PICK k \in DOMAIN keys' : OpenBy(k, h)'
  BY DEF Open
<1>2. Carries(k, h)'
  BY <1>1 DEF OpenBy, Valid, Carries
<1>3. k \in DOMAIN keys /\ Carries(k, h) /\ keys'[k].user = keys[k].user /\ OpenBy(k, h)
  BY <1>1, <1>2, CarriersStay
<1>4. \A j \in DOMAIN keys : Carries(j, h) => j = k
  BY <1>3, OneCarrier DEF MemoryKept
<1>5. OwnersOf(h) = {keys[k].user}
  BY <1>3, <1>4, OwnersAreCarriers
<1>6. keys'[k].user \in OwnersOf(h)'
  BY <1>1, <1>2 DEF OwnersOf, TokensOf, Carries
<1>7. Open(h) /\ OwnersOf(h) \cap Lockable = {}
  BY <1>3, <1>5, <1>6 DEF Open
<1> QED BY <1>7

LEMMA MemoryStep == IInv /\ IInv' /\ MemoryKept /\ [Next]_vars => MemoryKept'
<1> SUFFICES ASSUME IInv, IInv', MemoryKept, [Next]_vars PROVE MemoryKept'
  OBVIOUS
<1>1. ASSUME NEW h \in Answers'
      PROVE  h \in usedHashes /\ (OwnersOf(h) \cap Lockable = {} => ~Open(h))
  <2>1. CASE h \in Answers
    BY <2>1 DEF MemoryKept, AnswersAreFinal
  <2>2. CASE h \notin Answers
    <3>1. \/ replies' = replies /\ known' = known
          \/ \E g \in usedHashes : Authorize(g)
          \/ \E reply \in replies : put(reply)
      BY DEF Next, create, regenerate, createPlaygroundToken, Begin, ActionFails, insertKey,
       insertPlaygroundToken, replaceSecret, Revoke, lockUser, enableUser, AccessChanges,
       prune, Tick, vars, cache
    <3>2. ASSUME NEW reply \in replies, put(reply)
          PROVE  FALSE
      <4>1. PICK entry : entry = [hash |-> reply.hash, status |-> reply.status, expires |-> now + StatusTTL]
        OBVIOUS
      <4>2. replies' \subseteq replies /\ known' \subseteq known \cup {entry} /\ entry.hash = reply.hash
        BY <3>2, <4>1 DEF put
      <4> QED BY <2>2, <4>2 DEF Answers
    <3>3. PICK g \in usedHashes : Authorize(g)
      BY <2>2, <3>1, <3>2 DEF Answers
    <3>4. g = h /\ StatusOf(g) \in TERMINAL_STATUSES
      BY <2>2, <3>3 DEF Authorize, Answers
    <3> QED BY <3>4, StatusIsOpen
  <2> QED BY <2>1, <2>2
<1>2. AnswersAreFinal'
  BY <1>1, FinalStays, TokensStep DEF AnswersAreFinal
<1> QED BY <1>2, TokensStep DEF MemoryKept

LEMMA MemoryInitially == Init => MemoryKept
BY DEF Init, MemoryKept, TokensAreDistinct, AnswersAreFinal, Answers

\* As long as its owner's account is never locked, no credential that Convex accepts is
\* refused from the gateway's memory, however long its answers are on the way.
THEOREM RememberedAnswersAreFinal == Spec => []RememberedIsFinal
<1>1. Spec => [](IInv /\ MemoryKept)
  BY Initially, Step, MemoryInitially, MemoryStep, PTL DEF Spec
<1>2. ASSUME IInv, MemoryKept
      PROVE  RememberedIsFinal
  <2>1. ASSUME NEW h \in usedHashes, OwnersOf(h) \cap Lockable = {}, Remembered(h)
        PROVE  StatusOf(h) # "ok"
    <3>1. h \in Answers
      BY <2>1 DEF Remembered, Answers
    <3>2. ~Open(h)
      BY <1>2, <2>1, <3>1 DEF MemoryKept, AnswersAreFinal
    <3> QED BY <1>2, <3>2, StatusIsOpen
  <2> QED BY <2>1 DEF RememberedIsFinal, Final
<1> QED BY <1>1, <1>2, PTL
=============================================================================
