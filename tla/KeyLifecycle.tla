---------------------------- MODULE KeyLifecycle ----------------------------
(***************************************************************************)
(* The life of API keys and playground tokens: creation, rotation and      *)
(* revocation by the owner, locking and unlocking of the account by an     *)
(* operator, and the answers about a credential that a gateway process     *)
(* remembers (TerminalStatusCache).                                        *)
(*                                                                         *)
(* Creating a key, replacing its secret and issuing a token are Convex     *)
(* actions: they check the session first and change the database in a      *)
(* mutation of their own later.  Each one in flight is an entry of         *)
(* `request`, and everything can happen between its two steps.             *)
(***************************************************************************)
EXTENDS Integers, FiniteSets

CONSTANTS
    Users, KeyIds, Requests,
    Hashes,          \* of the secrets of keys
    TokenHashes,     \* of playground tokens
    NoHash,
    MAX_ACTIVE_KEYS_PER_USER, MAX_TOTAL_KEYS_PER_USER, MAX_PLAYGROUND_TOKENS_PER_KEY,
    TokenTTL,        \* PLAYGROUND_TOKEN_TTL_MS
    StatusTTL,       \* ttl_seconds of the TerminalStatusCache
    MaxEntries,      \* max_entries of the TerminalStatusCache
    Lifetimes,       \* lifetimes a key is created with; Never for one that does not expire
    Never,
    Lockable,        \* bound of the model: accounts an operator locks
    MaxReplies, MaxTime \* bounds of the model

ASSUME LifecycleAssumption ==
    /\ Hashes \cap TokenHashes = {} /\ NoHash \notin Hashes
    /\ Lifetimes \subseteq Nat \cup {Never} /\ Never \notin Nat
    /\ MAX_ACTIVE_KEYS_PER_USER \in Nat /\ MAX_TOTAL_KEYS_PER_USER \in Nat
    /\ MAX_PLAYGROUND_TOKENS_PER_KEY \in Nat \ {0}
    /\ TokenTTL \in Nat /\ StatusTTL \in Nat \ {0} /\ MaxEntries \in Nat \ {0}
    /\ MaxReplies \in Nat /\ MaxTime \in Nat
    /\ Lockable \subseteq Users

VARIABLES
    now,
    disabled,   \* accounts with disabledAt
    access,     \* accounts for which hasKeyAccess holds
    keys,       \* apiKeys: the rows that exist
    usedHashes, \* history: secrets and tokens that have been stored
    tokens,     \* playgroundTokens
    request,    \* the actions in flight
    replies,    \* terminal answers of Convex on their way to the gateway
    known       \* known_bad_credentials: the entries of the gateway's cache

cache == <<replies, known>>
vars == <<now, disabled, access, keys, usedHashes, tokens, request, cache>>

Row == [user : Users, hash : Hashes, revoked : BOOLEAN, expiresAt : Nat \cup {Never}]
Token == [hash : TokenHashes, key : KeyIds, issuedFor : Hashes, expiresAt : Nat]

KeysOf(u) == {k \in DOMAIN keys : keys[k].user = u}
ActiveKeysOf(u) == {k \in KeysOf(u) : ~keys[k].revoked}
Expired(k) == keys[k].expiresAt # Never /\ keys[k].expiresAt <= now
TokensOf(k) == {t \in tokens : t.key = k}

Init ==
    /\ now = 0
    /\ disabled = {}
    /\ access = Users
    /\ keys = [k \in {} |-> 0]
    /\ usedHashes = {}
    /\ tokens = {}
    /\ request = [r \in {} |-> 0]
    /\ replies = {} /\ known = {}

---------------------------------------------------------------------------
(* The first step of an action: the session is active (requireUserId) and  *)
(* an existing key is the user's (ownedKey).                               *)

SessionActive(u) == u \notin disabled

Begin(r, u, op) ==
    /\ r \notin DOMAIN request
    /\ SessionActive(u)
    /\ request' = [s \in DOMAIN request \cup {r} |-> IF s = r THEN op ELSE request[s]]
    /\ UNCHANGED <<now, disabled, access, keys, usedHashes, tokens, cache>>

create(r, u, lifetime) ==
    Begin(r, u, [name |-> "create", user |-> u,
                 expiresAt |-> IF lifetime = Never THEN Never ELSE now + lifetime])

regenerate(r, k) ==
    Begin(r, keys[k].user, [name |-> "regenerate", user |-> keys[k].user, key |-> k])

createPlaygroundToken(r, k) ==
    /\ ~keys[k].revoked /\ ~Expired(k)
    /\ Begin(r, keys[k].user, [name |-> "token", user |-> keys[k].user, key |-> k,
                               issuedFor |-> keys[k].hash, expiresAt |-> now + TokenTTL])

---------------------------------------------------------------------------
(* The second step: a mutation.  What it does not accept ends the action   *)
(* with an error and no change.                                            *)

Running(name) == {r \in DOMAIN request : request[r].name = name}
Ends(r) == request' = [s \in DOMAIN request \ {r} |-> request[s]]

\* Mutant: one key too many.
InsertAcceptedOneMore(u) ==
    /\ u \in access
    /\ Cardinality(KeysOf(u)) < MAX_TOTAL_KEYS_PER_USER
    /\ Cardinality(ActiveKeysOf(u)) <= MAX_ACTIVE_KEYS_PER_USER

InsertAccepted(u) ==
    /\ u \in access
    /\ Cardinality(KeysOf(u)) < MAX_TOTAL_KEYS_PER_USER
    /\ Cardinality(ActiveKeysOf(u)) < MAX_ACTIVE_KEYS_PER_USER

insertKey(r, k, h) ==
    LET row == [user |-> request[r].user, hash |-> h, revoked |-> FALSE,
                expiresAt |-> request[r].expiresAt]
    IN
    /\ r \in Running("create")
    /\ InsertAccepted(request[r].user)
    /\ k \notin DOMAIN keys /\ h \notin usedHashes
    /\ keys' = [j \in DOMAIN keys \cup {k} |-> IF j = k THEN row ELSE keys[j]]
    /\ usedHashes' = usedHashes \cup {h}
    /\ Ends(r)
    /\ UNCHANGED <<now, disabled, access, tokens, cache>>

\* Mutant: the mutation trusts the action's look at the key.
ReplaceAcceptedUnchecked(u, k) == u \in access

ReplaceAccepted(u, k) == u \in access /\ ~keys[k].revoked /\ ~Expired(k)

replaceSecret(r, h) ==
    LET k == request[r].key IN
    /\ r \in Running("regenerate")
    /\ ReplaceAccepted(request[r].user, k)
    /\ h \notin usedHashes
    /\ keys' = [keys EXCEPT ![k].hash = h]
    /\ usedHashes' = usedHashes \cup {h}
    /\ tokens' = tokens \ TokensOf(k)
    /\ Ends(r)
    /\ UNCHANGED <<now, disabled, access, cache>>

\* Only the newest tokens of a key are kept.
Surplus(k) == Cardinality(TokensOf(k)) - (MAX_PLAYGROUND_TOKENS_PER_KEY - 1)

insertPlaygroundToken(r, h) ==
    LET k == request[r].key
        token == [hash |-> h, key |-> k, issuedFor |-> request[r].issuedFor,
                  expiresAt |-> request[r].expiresAt]
    IN
    /\ r \in Running("token")
    /\ request[r].user \in access
    /\ h \notin usedHashes
    /\ \E old \in SUBSET TokensOf(k) :
          /\ Cardinality(old) = (IF Surplus(k) > 0 THEN Surplus(k) ELSE 0)
          /\ \A t \in old, kept \in TokensOf(k) \ old : t.expiresAt <= kept.expiresAt
          /\ tokens' = (tokens \ old) \cup {token}
    /\ usedHashes' = usedHashes \cup {h}
    /\ Ends(r)
    /\ UNCHANGED <<now, disabled, access, keys, cache>>

\* The mutation throws, or the action ends before it.
ActionFails(r) ==
    /\ Ends(r)
    /\ UNCHANGED <<now, disabled, access, keys, usedHashes, tokens, cache>>

---------------------------------------------------------------------------
(* Mutations of one step. *)

\* By the owner (revoke) or by an operator (revokeKey).
Revoke(k) ==
    /\ keys' = [keys EXCEPT ![k].revoked = TRUE]
    /\ tokens' = tokens \ TokensOf(k)
    /\ UNCHANGED <<now, disabled, access, usedHashes, request, cache>>

lockUser(u) ==
    /\ u \in Lockable
    /\ disabled' = disabled \cup {u}
    /\ keys' = [k \in DOMAIN keys |->
                   IF keys[k].user = u THEN [keys[k] EXCEPT !.revoked = TRUE] ELSE keys[k]]
    /\ tokens' = {t \in tokens : t.key \notin KeysOf(u)}
    /\ UNCHANGED <<now, access, usedHashes, request, cache>>

enableUser(u) ==
    /\ disabled' = disabled \ {u}
    /\ UNCHANGED <<now, access, keys, usedHashes, tokens, request, cache>>

\* A plan or the free tier begins or ends.
AccessChanges(u) ==
    /\ access' = IF u \in access THEN access \ {u} ELSE access \cup {u}
    /\ UNCHANGED <<now, disabled, keys, usedHashes, tokens, request, cache>>

\* A full batch is continued at once, so a run deletes every expired token.
prune ==
    /\ tokens' = {t \in tokens : t.expiresAt >= now}
    /\ UNCHANGED <<now, disabled, access, keys, usedHashes, request, cache>>

Tick ==
    /\ now < MaxTime
    /\ now' = now + 1
    /\ UNCHANGED <<disabled, access, keys, usedHashes, tokens, request, cache>>

---------------------------------------------------------------------------
(* What Convex answers about a credential, in the order of its checks.     *)

KeyStatus(k) ==
    IF keys[k].revoked THEN "revoked"
    ELSE IF Expired(k) THEN "expired"
    ELSE IF keys[k].user \in disabled THEN "revoked"
    ELSE IF keys[k].user \in access THEN "ok" ELSE "payment_required"

StatusOf(h) ==
    LET ofToken == {t \in tokens : t.hash = h}
        ofKey == {k \in DOMAIN keys : keys[k].hash = h}
    IN CASE ofKey # {} -> KeyStatus(CHOOSE k \in ofKey : TRUE)
         [] \E t \in ofToken : t.expiresAt > now -> KeyStatus((CHOOSE t \in ofToken : TRUE).key)
         [] \E t \in ofToken : t.expiresAt <= now -> "expired"
         [] OTHER -> "invalid"

\* Mutant: an account without a plan is remembered too.
TERMINAL_STATUSES_AND_PAYMENT == {"invalid", "revoked", "expired", "payment_required"}

TERMINAL_STATUSES == {"invalid", "revoked", "expired"}

\* The gateway's side: entries are used until they expire.
Remembered(h) == \E e \in known : e.hash = h /\ e.expires >= now

\* Mutant: every refusal is remembered.
AuthorizeRefused(h) ==
    /\ ~Remembered(h)
    /\ StatusOf(h) # "ok"
    /\ Cardinality(replies) < MaxReplies
    /\ replies' = replies \cup {[hash |-> h, status |-> StatusOf(h)]}
    /\ UNCHANGED <<now, disabled, access, keys, usedHashes, tokens, request, known>>

\* A request with a credential the gateway does not remember reaches Convex; the
\* answers that the gateway will remember are those of TERMINAL_STATUSES.
Authorize(h) ==
    /\ ~Remembered(h)
    /\ StatusOf(h) \in TERMINAL_STATUSES
    /\ Cardinality(replies) < MaxReplies
    /\ replies' = replies \cup {[hash |-> h, status |-> StatusOf(h)]}
    /\ UNCHANGED <<now, disabled, access, keys, usedHashes, tokens, request, known>>

\* TerminalStatusCache.put, with the oldest entry evicted from a full cache.
put(reply) ==
    LET others == {e \in known : e.hash # reply.hash}
        entry == [hash |-> reply.hash, status |-> reply.status, expires |-> now + StatusTTL]
        oldest == {e \in others : \A f \in others : e.expires <= f.expires}
    IN
    /\ replies' = replies \ {reply}
    /\ IF Cardinality(others) < MaxEntries
       THEN known' = others \cup {entry}
       ELSE \E e \in oldest : known' = (others \ {e}) \cup {entry}
    /\ UNCHANGED <<now, disabled, access, keys, usedHashes, tokens, request>>

Next ==
    \/ \E r \in Requests :
          \/ \E u \in Users, lifetime \in Lifetimes : create(r, u, lifetime)
          \/ \E k \in DOMAIN keys : regenerate(r, k) \/ createPlaygroundToken(r, k)
    \/ \E r \in DOMAIN request :
          \/ \E k \in KeyIds, h \in Hashes : insertKey(r, k, h)
          \/ \E h \in Hashes : replaceSecret(r, h)
          \/ \E h \in TokenHashes : insertPlaygroundToken(r, h)
          \/ ActionFails(r)
    \/ \E k \in DOMAIN keys : Revoke(k)
    \/ \E u \in Users : lockUser(u) \/ enableUser(u) \/ AccessChanges(u)
    \/ \E h \in usedHashes : Authorize(h)
    \/ \E reply \in replies : put(reply)
    \/ prune
    \/ Tick

Spec == Init /\ [][Next]_vars

---------------------------------------------------------------------------
(* Properties. *)

Op == [name : {"create"}, user : Users, expiresAt : Nat \cup {Never}]
      \cup [name : {"regenerate"}, user : Users, key : KeyIds]
      \cup [name : {"token"}, user : Users, key : KeyIds, issuedFor : Hashes, expiresAt : Nat]

\* Type invariant of the module's state.
TypeOK ==
    /\ now \in Nat
    /\ disabled \subseteq Users /\ access \subseteq Users
    /\ DOMAIN keys \subseteq KeyIds /\ keys \in [DOMAIN keys -> Row]
    /\ usedHashes \subseteq Hashes \cup TokenHashes
    /\ tokens \subseteq Token
    /\ DOMAIN request \subseteq Requests /\ request \in [DOMAIN request -> Op]
    /\ replies \subseteq [hash : Hashes \cup TokenHashes, status : TERMINAL_STATUSES]
    /\ known \subseteq [hash : Hashes \cup TokenHashes, status : TERMINAL_STATUSES,
                  expires : Nat]

\* The limits on the keys of an account and the tokens of a key hold however many
\* actions run at the same time.
Limits ==
    /\ \A u \in Users : /\ Cardinality(KeysOf(u)) <= MAX_TOTAL_KEYS_PER_USER
                        /\ Cardinality(ActiveKeysOf(u)) <= MAX_ACTIVE_KEYS_PER_USER
    /\ \A k \in KeyIds : Cardinality(TokensOf(k)) <= MAX_PLAYGROUND_TOKENS_PER_KEY

\* The registry a customer relies on: "Revoking takes effect on the next request; it
\* cannot be undone", "The old secret stops working at once".
Registry == INSTANCE CredentialRegistry WITH
    current <- [k \in KeyIds |-> IF k \in DOMAIN keys /\ ~keys[k].revoked
                                 THEN keys[k].hash ELSE NoHash],
    retired <- {k \in DOMAIN keys : keys[k].revoked},
    dead <- {h \in usedHashes \cap Hashes :
                ~\E k \in DOMAIN keys : ~keys[k].revoked /\ keys[k].hash = h}

\* Refinement: whichever actions, locks and rotations overtake each other, a key never
\* has two good secrets and no secret or key comes back.
RegistryKept == Registry!Spec

Final(h) == ~Remembered(h) \/ StatusOf(h) # "ok"

OwnersOf(h) == {keys[k].user : k \in {j \in DOMAIN keys :
                    keys[j].hash = h \/ \E t \in TokensOf(j) : t.hash = h}}

\* "Statuses that cannot turn back into ok": as long as the owner's account is never
\* locked, no credential that Convex accepts is refused from the gateway's memory,
\* however long its answers are on the way.
RememberedIsFinal == \A h \in usedHashes : OwnersOf(h) \cap Lockable = {} => Final(h)

\* "Tokens issued for the old secret stop working with it".
TokensFollowSecret ==
    \A t \in tokens : StatusOf(t.hash) = "ok" => t.issuedFor = keys[t.key].hash
=============================================================================
