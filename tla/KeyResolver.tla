------------------------------ MODULE KeyResolver ------------------------------
(***************************************************************************)
(* The signing keys of one authorization server                            *)
(* (auth/networked_key_resolver.rs): a cache that many requests read, one  *)
(* shared fetch that fills it, and the window that limits how often a      *)
(* fetch may start.  Servers do not share any of this state but the two    *)
(* locks, which are held here while the code holds them.                   *)
(*                                                                         *)
(* Time is abstracted: the cache entry expires, and the window reopens, at *)
(* some moment.                                                            *)
(***************************************************************************)
CONSTANTS
  Callers,   \* requests resolving a key
  Kids,      \* key ids
  Fetches,   \* identities of the shared fetch futures, reused
  Nobody

ASSUME ResolverAssumption == Nobody \notin Callers \cup Fetches

VARIABLES
  issuerKeys,  \* the keys the server publishes
  cache,       \* the cached keys: [age, keys]
  window,      \* "open": a fetch may start
  slot,        \* the fetch in flight, or Nobody
  state,       \* per fetch, how far it is
  result,      \* per fetch, the keys it received and has yet to store
  inflight,    \* who holds the mutex of the slots
  pc,          \* per caller, where it stands
  kid,         \* per caller, the key it looks for
  awaited,     \* per caller, the fetch it awaits
  reply,       \* per caller: "none", "key" or "rejected"
  covered,     \* history: callers whose key has been cached since they asked
  starts       \* history: whether a fetch started in this window

fetchVars  == <<slot, state, result>>
callerVars == <<pc, kid, awaited, reply>>
vars == <<issuerKeys, cache, window, fetchVars, inflight, callerVars, covered, starts>>

Ages   == {"none", "fresh", "stale"}
States == {"idle", "requesting", "storing", "evicting"}
Places == {"idle", "missed", "deciding", "limited", "awaiting", "woken"}

TypeOK ==
  /\ issuerKeys \subseteq Kids
  /\ cache \in [age : Ages, keys : SUBSET Kids]
  /\ window \in {"open", "shut"}
  /\ slot \in Fetches \cup {Nobody}
  /\ state \in [Fetches -> States]
  /\ result \in [Fetches -> SUBSET Kids]
  /\ inflight \in Callers \cup Fetches \cup {Nobody}
  /\ pc \in [Callers -> Places]
  /\ kid \in [Callers -> Kids]
  /\ awaited \in [Callers -> Fetches \cup {Nobody}]
  /\ reply \in [Callers -> {"none", "key", "rejected"}]
  /\ covered \subseteq Callers
  /\ starts \in {"none", "one", "many"}

Init ==
  /\ issuerKeys \in SUBSET Kids
  /\ cache = [age |-> "none", keys |-> {}]
  /\ window = "open"
  /\ slot = Nobody /\ inflight = Nobody
  /\ state = [f \in Fetches |-> "idle"]
  /\ result = [f \in Fetches |-> {}]
  /\ pc = [c \in Callers |-> "idle"]
  /\ kid \in [Callers -> Kids]
  /\ awaited = [c \in Callers |-> Nobody]
  /\ reply = [c \in Callers |-> "none"]
  /\ covered = {} /\ starts = "none"

-----------------------------------------------------------------------------
\* A fetch holds the write lock of the cache from "storing" until it is released.
CacheFree == \A f \in Fetches : state[f] # "storing"

LookupFresh(k) == cache.age = "fresh" /\ k \in cache.keys
\* Mutant of LookupStale: an expired entry answers for no key.
NothingStale(k) == LookupFresh(k)

LookupStale(k) == k \in cache.keys

Answer(c, found) ==
  /\ reply' = [reply EXCEPT ![c] = IF found THEN "key" ELSE "rejected"]
  /\ pc' = [pc EXCEPT ![c] = "idle"]
  /\ awaited' = [awaited EXCEPT ![c] = Nobody]

(* resolve_key *)

Resolve(c, k) ==
  /\ pc[c] = "idle" /\ CacheFree
  /\ kid' = [kid EXCEPT ![c] = k]
  /\ covered' = IF k \in cache.keys THEN covered \cup {c} ELSE covered \ {c}
  /\ \/ LookupFresh(k) /\ Answer(c, TRUE)
     \/ /\ ~LookupFresh(k)
        /\ pc' = [pc EXCEPT ![c] = "missed"]
        /\ reply' = [reply EXCEPT ![c] = "none"]
        /\ UNCHANGED awaited
  /\ UNCHANGED <<issuerKeys, cache, window, fetchVars, inflight, starts>>

\* acquire_inflight_slot takes the mutex, and while it has it decides.
LockInflight(c) ==
  /\ pc[c] = "missed" /\ inflight = Nobody
  /\ inflight' = c
  /\ pc' = [pc EXCEPT ![c] = "deciding"]
  /\ UNCHANGED <<issuerKeys, cache, window, fetchVars, kid, awaited, reply, covered, starts>>

Await(c, f) ==
  /\ pc' = [pc EXCEPT ![c] = "awaiting"]
  /\ awaited' = [awaited EXCEPT ![c] = f]

\* Mutant of Join: the mutex is held while the fetch is awaited.
JoinLocked(c) ==
  /\ inflight = c /\ slot # Nobody
  /\ Await(c, slot)
  /\ UNCHANGED <<issuerKeys, cache, window, fetchVars, inflight, kid, reply, covered, starts>>

Join(c) ==
  /\ inflight = c /\ slot # Nobody
  /\ Await(c, slot)
  /\ inflight' = Nobody
  /\ UNCHANGED <<issuerKeys, cache, window, fetchVars, kid, reply, covered, starts>>

\* The cache turned fresh since the miss.
Resolved(c) ==
  /\ inflight = c /\ slot = Nobody /\ CacheFree
  /\ LookupFresh(kid[c]) /\ Answer(c, TRUE)
  /\ inflight' = Nobody
  /\ UNCHANGED <<issuerKeys, cache, window, fetchVars, kid, covered, starts>>

RateLimited(c) ==
  /\ inflight = c /\ slot = Nobody /\ CacheFree
  /\ ~LookupFresh(kid[c]) /\ window = "shut"
  /\ pc' = [pc EXCEPT ![c] = "limited"]
  /\ inflight' = Nobody
  /\ UNCHANGED <<issuerKeys, cache, window, fetchVars, kid, awaited, reply, covered, starts>>

\* Mutant of Consume: the window is left for a successful fetch to shut.
ConsumeLater == UNCHANGED window

\* The window is consumed when the fetch starts.
Consume == window' = "shut"

StartFetch(c) ==
  /\ inflight = c /\ slot = Nobody /\ CacheFree
  /\ ~LookupFresh(kid[c]) /\ window = "open"
  /\ \E f \in Fetches :
       /\ state[f] = "idle"
       /\ state' = [state EXCEPT ![f] = "requesting"]
       /\ slot' = f
       /\ Await(c, f)
  /\ Consume
  /\ starts' = IF starts = "none" THEN "one" ELSE "many"
  /\ inflight' = Nobody
  /\ UNCHANGED <<issuerKeys, cache, result, kid, reply, covered>>

\* A stale entry still answers for the keys it has.
AnswerLimited(c) ==
  /\ pc[c] = "limited" /\ CacheFree
  /\ Answer(c, LookupStale(kid[c]))
  /\ UNCHANGED <<issuerKeys, cache, window, fetchVars, inflight, kid, covered, starts>>

AnswerWoken(c) ==
  /\ pc[c] = "woken" /\ CacheFree
  /\ Answer(c, LookupFresh(kid[c]) \/ LookupStale(kid[c]))
  /\ UNCHANGED <<issuerKeys, cache, window, fetchVars, inflight, kid, covered, starts>>

\* The request is dropped, which can only happen at its await.
Cancel(c) ==
  /\ pc[c] \in {"awaiting", "woken"}
  /\ pc' = [pc EXCEPT ![c] = "idle"]
  /\ awaited' = [awaited EXCEPT ![c] = Nobody]
  /\ UNCHANGED <<issuerKeys, cache, window, fetchVars, inflight, kid, reply, covered, starts>>

-----------------------------------------------------------------------------
(* build_fetch_future *)

\* The future is shared: whoever awaits it polls it, and it pauses when nobody does.
Driven(f) == \E c \in Callers : pc[c] = "awaiting" /\ awaited[c] = f

\* The keys arrive, and the write lock of the cache is taken.
FetchSucceeds(f) ==
  /\ state[f] = "requesting" /\ Driven(f) /\ CacheFree
  /\ state' = [state EXCEPT ![f] = "storing"]
  /\ result' = [result EXCEPT ![f] = issuerKeys]
  /\ UNCHANGED <<issuerKeys, cache, window, slot, inflight, callerVars, covered, starts>>

\* Mutant of FetchFails: the slot is given up before the future is done.
FetchFailsEarly(f) ==
  /\ state[f] = "requesting" /\ Driven(f)
  /\ state' = [state EXCEPT ![f] = "evicting"]
  /\ slot' = Nobody
  /\ UNCHANGED <<issuerKeys, cache, window, result, inflight, callerVars, covered, starts>>

\* Timeout, error, or metadata of another issuer.
FetchFails(f) ==
  /\ state[f] = "requesting" /\ Driven(f)
  /\ state' = [state EXCEPT ![f] = "evicting"]
  /\ UNCHANGED <<issuerKeys, cache, window, slot, result, inflight, callerVars, covered, starts>>

\* The entry is stored and the lock released before the mutex is taken.
Store(f) ==
  /\ state[f] = "storing"
  /\ cache' = [age |-> "fresh", keys |-> result[f]]
  /\ covered' = {c \in covered : kid[c] \in result[f]}
  /\ state' = [state EXCEPT ![f] = "evicting"]
  /\ result' = [result EXCEPT ![f] = {}]
  /\ UNCHANGED <<issuerKeys, window, slot, inflight, callerVars, starts>>

\* The slot is removed, the future is done and those who await it are woken.
Evict(f) ==
  /\ state[f] = "evicting" /\ inflight = Nobody
  /\ state' = [state EXCEPT ![f] = "idle"]
  /\ slot' = Nobody
  /\ pc' = [c \in Callers |-> IF awaited[c] = f THEN "woken" ELSE pc[c]]
  /\ awaited' = [c \in Callers |-> IF awaited[c] = f THEN Nobody ELSE awaited[c]]
  /\ UNCHANGED <<issuerKeys, cache, window, result, inflight, kid, reply, covered, starts>>

-----------------------------------------------------------------------------
(* Time and the issuer *)

Expire ==
  /\ cache.age = "fresh" /\ CacheFree
  /\ cache' = [cache EXCEPT !.age = "stale"]
  /\ UNCHANGED <<issuerKeys, window, fetchVars, inflight, callerVars, covered, starts>>

WindowPasses ==
  /\ window' = "open" /\ starts' = "none"
  /\ UNCHANGED <<issuerKeys, cache, fetchVars, inflight, callerVars, covered>>

Rotate ==
  /\ issuerKeys' \in SUBSET Kids
  /\ UNCHANGED <<cache, window, fetchVars, inflight, callerVars, covered, starts>>

-----------------------------------------------------------------------------
Proceed(c) == \/ LockInflight(c) \/ Join(c) \/ Resolved(c) \/ RateLimited(c)
              \/ StartFetch(c) \/ AnswerLimited(c) \/ AnswerWoken(c)
Fetch(f) == FetchSucceeds(f) \/ FetchFails(f) \/ Store(f) \/ Evict(f)

Next ==
  \/ \E c \in Callers : Proceed(c) \/ Cancel(c) \/ \E k \in Kids : Resolve(c, k)
  \/ \E f \in Fetches : Fetch(f)
  \/ Expire \/ WindowPasses \/ Rotate

Spec == Init /\ [][Next]_vars

\* A task that can go on is polled, std's mutex is handed to a thread that keeps
\* asking for it, and discovery_timeout ends every request for metadata or keys.
FairSpec ==
  /\ Spec
  /\ \A c \in Callers : SF_vars(Proceed(c))
  /\ SF_vars(\E f \in Fetches : Fetch(f))

-----------------------------------------------------------------------------
\* "... and at most one starts per min_refresh_interval", failed ones included.
OneStartPerWindow == starts # "many" /\ (starts = "one" => window = "shut")

\* However many requests miss the cache together, and whoever of them gives up,
\* the authorization server has at most one fetch to answer ("at most one fetch
\* per issuer is in flight, and at most one starts per min_refresh_interval"), and
\* whoever awaits one awaits that one.
SingleFlight ==
  /\ \A f, g \in Fetches : state[f] # "idle" /\ state[g] # "idle" => f = g
  /\ \A c \in Callers : pc[c] = "awaiting" => awaited[c] = slot
  /\ OneStartPerWindow

\* Implements AtomicKeys: keys that were received are in the cache as soon as its write
\* lock is taken, since nobody can read it then, and a fetch is there as long as its slot.
VisibleCache == IF CacheFree THEN cache ELSE [age |-> "fresh", keys |-> result[slot]]
OneFetch == IF slot = Nobody THEN "none"
            ELSE IF state[slot] = "requesting" THEN "running" ELSE "over"
Stage(p) == CASE p = "idle" -> "idle"
              [] p \in {"missed", "deciding"} -> "asking"
              [] p = "awaiting" -> "waiting"
              [] OTHER -> "tried"

Keys == INSTANCE AtomicKeys WITH
  cache <- VisibleCache, fetch <- OneFetch, place <- [c \in Callers |-> Stage(pc[c])]

AtomicKeysSpec == Keys!Spec

\* Expiry means time to refresh, not revoked: while a key stays in the cache, no
\* failed fetch, rate limit or race turns away a request that needs it.
CachedKeysAccepted == \A c \in covered : reply[c] # "rejected"

\* Every request gets its answer, also when the request that started the fetch it
\* awaits is dropped, and the two locks never wait for each other.
ResolveReturns == \A c \in Callers : pc[c] # "idle" ~> pc[c] = "idle"
================================================================================
