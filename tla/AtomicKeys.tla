------------------------------ MODULE AtomicKeys ------------------------------
(***************************************************************************)
(* What the key resolver promises those who ask it for a key: there is one *)
(* cache, which changes in one step and then holds what the server          *)
(* publishes; at most one fetch at a time and one start per window; and     *)
(* nobody is refused a key before a fetch has ended or the window has       *)
(* forbidden one. It has neither locks nor futures.                         *)
(***************************************************************************)
CONSTANTS Callers, Kids

VARIABLES
  issuerKeys,  \* the keys the server publishes
  cache,       \* the cached keys: [age, keys]
  window,      \* "open": a fetch may start
  fetch,       \* "none", "running", or "over" with callers still to be told
  place,       \* per caller: "idle", "asking", "waiting" for the fetch, or "tried"
  kid,         \* per caller, the key it looks for
  reply        \* per caller: "none", "key" or "rejected"

vars == <<issuerKeys, cache, window, fetch, place, kid, reply>>

Init ==
  /\ issuerKeys \in SUBSET Kids
  /\ cache = [age |-> "none", keys |-> {}]
  /\ window = "open" /\ fetch = "none"
  /\ place = [c \in Callers |-> "idle"]
  /\ kid \in [Callers -> Kids]
  /\ reply = [c \in Callers |-> "none"]

Has(k) == k \in cache.keys
HasFresh(k) == cache.age = "fresh" /\ Has(k)

Answer(c, found) ==
  /\ reply' = [reply EXCEPT ![c] = IF found THEN "key" ELSE "rejected"]
  /\ place' = [place EXCEPT ![c] = "idle"]

Ask(c, k) ==
  /\ place[c] = "idle"
  /\ kid' = [kid EXCEPT ![c] = k]
  /\ \/ HasFresh(k) /\ Answer(c, TRUE)
     \/ /\ ~HasFresh(k)
        /\ place' = [place EXCEPT ![c] = "asking"]
        /\ reply' = [reply EXCEPT ![c] = "none"]
  /\ UNCHANGED <<issuerKeys, cache, window, fetch>>

Find(c) ==
  /\ place[c] = "asking" /\ HasFresh(kid[c])
  /\ Answer(c, TRUE)
  /\ UNCHANGED <<issuerKeys, cache, window, fetch, kid>>

Join(c) ==
  /\ place[c] = "asking" /\ fetch # "none"
  /\ place' = [place EXCEPT ![c] = "waiting"]
  /\ UNCHANGED <<issuerKeys, cache, window, fetch, kid, reply>>

Start(c) ==
  /\ place[c] = "asking" /\ ~HasFresh(kid[c])
  /\ fetch = "none" /\ window = "open"
  /\ fetch' = "running" /\ window' = "shut"
  /\ place' = [place EXCEPT ![c] = "waiting"]
  /\ UNCHANGED <<issuerKeys, cache, kid, reply>>

Limit(c) ==
  /\ place[c] = "asking" /\ ~HasFresh(kid[c])
  /\ fetch = "none" /\ window = "shut"
  /\ place' = [place EXCEPT ![c] = "tried"]
  /\ UNCHANGED <<issuerKeys, cache, window, fetch, kid, reply>>

\* What is in the cache counts, of whatever age.
Settle(c) ==
  /\ place[c] = "tried" /\ Answer(c, Has(kid[c]))
  /\ UNCHANGED <<issuerKeys, cache, window, fetch, kid>>

Leave(c) ==
  /\ place[c] \in {"waiting", "tried"}
  /\ place' = [place EXCEPT ![c] = "idle"]
  /\ UNCHANGED <<issuerKeys, cache, window, fetch, kid, reply>>

\* A fetch runs only as long as somebody waits for it.
Wanted == fetch = "running" /\ \E c \in Callers : place[c] = "waiting"

Succeed ==
  /\ Wanted
  /\ cache' = [age |-> "fresh", keys |-> issuerKeys]
  /\ fetch' = "over"
  /\ UNCHANGED <<issuerKeys, window, place, kid, reply>>

Fail ==
  /\ Wanted
  /\ fetch' = "over"
  /\ UNCHANGED <<issuerKeys, cache, window, place, kid, reply>>

\* All who wait are told together.
Tell ==
  /\ fetch = "over"
  /\ fetch' = "none"
  /\ place' = [c \in Callers |-> IF place[c] = "waiting" THEN "tried" ELSE place[c]]
  /\ UNCHANGED <<issuerKeys, cache, window, kid, reply>>

Expire ==
  /\ cache.age = "fresh"
  /\ cache' = [cache EXCEPT !.age = "stale"]
  /\ UNCHANGED <<issuerKeys, window, fetch, place, kid, reply>>

Reopen ==
  /\ window' = "open"
  /\ UNCHANGED <<issuerKeys, cache, fetch, place, kid, reply>>

Rotate ==
  /\ issuerKeys' \in SUBSET Kids
  /\ UNCHANGED <<cache, window, fetch, place, kid, reply>>

Next ==
  \/ \E c \in Callers :
       \/ \E k \in Kids : Ask(c, k)
       \/ Find(c) \/ Join(c) \/ Start(c) \/ Limit(c) \/ Settle(c) \/ Leave(c)
  \/ Succeed \/ Fail \/ Tell
  \/ Expire \/ Reopen \/ Rotate

Spec == Init /\ [][Next]_vars
================================================================================
