-------------------------- MODULE KeyResolver_proofs --------------------------
(***************************************************************************)
(* What KeyResolver guarantees for any number of requests and keys.        *)
(***************************************************************************)
EXTENDS KeyResolver, TLAPS

\* The slot holds the one fetch that is not idle, whoever awaits awaits it, and whoever has
\* the mutex is deciding.
SlotInv ==
  /\ TypeOK
  /\ \A f \in Fetches : state[f] # "idle" <=> slot = f
  /\ \A c \in Callers : IF pc[c] = "awaiting" THEN slot # Nobody /\ awaited[c] = slot
                                              ELSE awaited[c] = Nobody
  /\ \A c \in Callers : inflight = c => pc[c] = "deciding"

\* A covered key is in the cache.
CoverInv ==
  /\ TypeOK
  /\ \A c \in covered : kid[c] \in cache.keys /\ reply[c] # "rejected"

-----------------------------------------------------------------------------
USE ResolverAssumption DEF fetchVars, callerVars, vars, Ages, States, Places

\* Types hold at the start and every step keeps them.
LEMMA TypeStep ==
  ASSUME TypeOK, [Next]_vars
  PROVE  TypeOK'
<1> USE DEF TypeOK, Answer, Await, Consume
<1>1. ASSUME NEW c \in Callers, NEW k \in Kids, Resolve(c, k) PROVE TypeOK'
  BY <1>1 DEF Resolve
<1>2. ASSUME NEW c \in Callers, LockInflight(c) PROVE TypeOK'
  BY <1>2 DEF LockInflight
<1>3. ASSUME NEW c \in Callers, Join(c) PROVE TypeOK'
  BY <1>3 DEF Join
<1>4. ASSUME NEW c \in Callers, Resolved(c) PROVE TypeOK'
  BY <1>4 DEF Resolved
<1>5. ASSUME NEW c \in Callers, RateLimited(c) PROVE TypeOK'
  BY <1>5 DEF RateLimited
<1>6. ASSUME NEW c \in Callers, StartFetch(c) PROVE TypeOK'
  BY <1>6 DEF StartFetch
<1>7. ASSUME NEW c \in Callers, AnswerLimited(c) PROVE TypeOK'
  BY <1>7 DEF AnswerLimited
<1>8. ASSUME NEW c \in Callers, AnswerWoken(c) PROVE TypeOK'
  BY <1>8 DEF AnswerWoken
<1>9. ASSUME NEW c \in Callers, Cancel(c) PROVE TypeOK'
  BY <1>9 DEF Cancel
<1>10. ASSUME NEW f \in Fetches, FetchSucceeds(f) PROVE TypeOK'
  BY <1>10 DEF FetchSucceeds
<1>11. ASSUME NEW f \in Fetches, FetchFails(f) PROVE TypeOK'
  BY <1>11 DEF FetchFails
<1>12. ASSUME NEW f \in Fetches, Store(f) PROVE TypeOK'
  BY <1>12 DEF Store
<1>13. ASSUME NEW f \in Fetches, Evict(f) PROVE TypeOK'
  BY <1>13 DEF Evict
<1>14. CASE Expire
  BY <1>14 DEF Expire
<1>15. CASE WindowPasses
  BY <1>15 DEF WindowPasses
<1>16. CASE Rotate
  BY <1>16 DEF Rotate
<1>17. CASE UNCHANGED vars
  BY <1>17
<1>18. QED
  BY <1>1, <1>2, <1>3, <1>4, <1>5, <1>6, <1>7, <1>8, <1>9, <1>10, <1>11,
     <1>12, <1>13, <1>14, <1>15, <1>16, <1>17
     DEF Next, Proceed, Fetch

\* Every step keeps the slot and the fetches together.
LEMMA SlotStep ==
  ASSUME SlotInv, [Next]_vars
  PROVE  SlotInv'
<1>0. TypeOK'
  BY TypeStep DEF SlotInv
<1> DEFINE Kept == /\ (\A f \in Fetches : state[f] # "idle" <=> slot = f)'
                   /\ (\A c \in Callers : IF pc[c] = "awaiting" THEN slot # Nobody /\ awaited[c] = slot
                                                                ELSE awaited[c] = Nobody)'
                   /\ (\A c \in Callers : inflight = c => pc[c] = "deciding")'
<1> SUFFICES Kept
  BY <1>0 DEF SlotInv
<1> USE DEF SlotInv, TypeOK, Answer, Await
<1>1. ASSUME NEW c \in Callers, NEW k \in Kids, Resolve(c, k) PROVE Kept
  BY <1>1 DEF Resolve
<1>2. ASSUME NEW c \in Callers, LockInflight(c) PROVE Kept
  BY <1>2 DEF LockInflight
<1>3. ASSUME NEW c \in Callers, Join(c) PROVE Kept
  BY <1>3 DEF Join
<1>4. ASSUME NEW c \in Callers, Resolved(c) PROVE Kept
  BY <1>4 DEF Resolved
<1>5. ASSUME NEW c \in Callers, RateLimited(c) PROVE Kept
  BY <1>5 DEF RateLimited
<1>6. ASSUME NEW c \in Callers, StartFetch(c) PROVE Kept
  BY <1>6 DEF StartFetch
<1>7. ASSUME NEW c \in Callers, AnswerLimited(c) PROVE Kept
  BY <1>7 DEF AnswerLimited
<1>8. ASSUME NEW c \in Callers, AnswerWoken(c) PROVE Kept
  BY <1>8 DEF AnswerWoken
<1>9. ASSUME NEW c \in Callers, Cancel(c) PROVE Kept
  BY <1>9 DEF Cancel
<1>10. ASSUME NEW f \in Fetches, FetchSucceeds(f) PROVE Kept
  BY <1>10 DEF FetchSucceeds
<1>11. ASSUME NEW f \in Fetches, FetchFails(f) PROVE Kept
  BY <1>11 DEF FetchFails
<1>12. ASSUME NEW f \in Fetches, Store(f) PROVE Kept
  BY <1>12 DEF Store
<1>13. ASSUME NEW f \in Fetches, Evict(f) PROVE Kept
  BY <1>13 DEF Evict
<1>14. CASE Expire
  BY <1>14 DEF Expire
<1>15. CASE WindowPasses
  BY <1>15 DEF WindowPasses
<1>16. CASE Rotate
  BY <1>16 DEF Rotate
<1>17. CASE UNCHANGED vars
  BY <1>17
<1>18. QED
  BY <1>1, <1>2, <1>3, <1>4, <1>5, <1>6, <1>7, <1>8, <1>9, <1>10, <1>11,
     <1>12, <1>13, <1>14, <1>15, <1>16, <1>17
     DEF Next, Proceed, Fetch

\* Every step keeps the covered keys in the cache.
LEMMA CoverStep ==
  ASSUME CoverInv, [Next]_vars
  PROVE  CoverInv'
<1>0. TypeOK'
  BY TypeStep DEF CoverInv
<1> DEFINE Kept == (\A c \in covered : kid[c] \in cache.keys /\ reply[c] # "rejected")'
<1> SUFFICES Kept
  BY <1>0 DEF CoverInv
<1> USE DEF CoverInv, TypeOK, Answer, Await, LookupFresh, LookupStale
<1>1. ASSUME NEW c \in Callers, NEW k \in Kids, Resolve(c, k) PROVE Kept
  BY <1>1 DEF Resolve
<1>2. ASSUME NEW c \in Callers, LockInflight(c) PROVE Kept
  BY <1>2 DEF LockInflight
<1>3. ASSUME NEW c \in Callers, Join(c) PROVE Kept
  BY <1>3 DEF Join
<1>4. ASSUME NEW c \in Callers, Resolved(c) PROVE Kept
  BY <1>4 DEF Resolved
<1>5. ASSUME NEW c \in Callers, RateLimited(c) PROVE Kept
  BY <1>5 DEF RateLimited
<1>6. ASSUME NEW c \in Callers, StartFetch(c) PROVE Kept
  BY <1>6 DEF StartFetch
<1>7. ASSUME NEW c \in Callers, AnswerLimited(c) PROVE Kept
  BY <1>7 DEF AnswerLimited
<1>8. ASSUME NEW c \in Callers, AnswerWoken(c) PROVE Kept
  BY <1>8 DEF AnswerWoken
<1>9. ASSUME NEW c \in Callers, Cancel(c) PROVE Kept
  BY <1>9 DEF Cancel
<1>10. ASSUME NEW f \in Fetches, FetchSucceeds(f) PROVE Kept
  BY <1>10 DEF FetchSucceeds
<1>11. ASSUME NEW f \in Fetches, FetchFails(f) PROVE Kept
  BY <1>11 DEF FetchFails
<1>12. ASSUME NEW f \in Fetches, Store(f) PROVE Kept
  BY <1>12 DEF Store
<1>13. ASSUME NEW f \in Fetches, Evict(f) PROVE Kept
  BY <1>13 DEF Evict
<1>14. CASE Expire
  BY <1>14 DEF Expire
<1>15. CASE WindowPasses
  BY <1>15 DEF WindowPasses
<1>16. CASE Rotate
  BY <1>16 DEF Rotate
<1>17. CASE UNCHANGED vars
  BY <1>17
<1>18. QED
  BY <1>1, <1>2, <1>3, <1>4, <1>5, <1>6, <1>7, <1>8, <1>9, <1>10, <1>11,
     <1>12, <1>13, <1>14, <1>15, <1>16, <1>17
     DEF Next, Proceed, Fetch

\* A fetch starts only in an open window and shuts it.
LEMMA WindowStep ==
  ASSUME OneStartPerWindow, TypeOK, [Next]_vars
  PROVE  OneStartPerWindow'
<1> USE DEF OneStartPerWindow, TypeOK, Consume
<1>1. ASSUME NEW c \in Callers, NEW k \in Kids, Resolve(c, k) PROVE OneStartPerWindow'
  BY <1>1 DEF Resolve
<1>2. ASSUME NEW c \in Callers, LockInflight(c) PROVE OneStartPerWindow'
  BY <1>2 DEF LockInflight
<1>3. ASSUME NEW c \in Callers, Join(c) PROVE OneStartPerWindow'
  BY <1>3 DEF Join
<1>4. ASSUME NEW c \in Callers, Resolved(c) PROVE OneStartPerWindow'
  BY <1>4 DEF Resolved
<1>5. ASSUME NEW c \in Callers, RateLimited(c) PROVE OneStartPerWindow'
  BY <1>5 DEF RateLimited
<1>6. ASSUME NEW c \in Callers, StartFetch(c) PROVE OneStartPerWindow'
  BY <1>6 DEF StartFetch
<1>7. ASSUME NEW c \in Callers, AnswerLimited(c) PROVE OneStartPerWindow'
  BY <1>7 DEF AnswerLimited
<1>8. ASSUME NEW c \in Callers, AnswerWoken(c) PROVE OneStartPerWindow'
  BY <1>8 DEF AnswerWoken
<1>9. ASSUME NEW c \in Callers, Cancel(c) PROVE OneStartPerWindow'
  BY <1>9 DEF Cancel
<1>10. ASSUME NEW f \in Fetches, FetchSucceeds(f) PROVE OneStartPerWindow'
  BY <1>10 DEF FetchSucceeds
<1>11. ASSUME NEW f \in Fetches, FetchFails(f) PROVE OneStartPerWindow'
  BY <1>11 DEF FetchFails
<1>12. ASSUME NEW f \in Fetches, Store(f) PROVE OneStartPerWindow'
  BY <1>12 DEF Store
<1>13. ASSUME NEW f \in Fetches, Evict(f) PROVE OneStartPerWindow'
  BY <1>13 DEF Evict
<1>14. CASE Expire
  BY <1>14 DEF Expire
<1>15. CASE WindowPasses
  BY <1>15 DEF WindowPasses
<1>16. CASE Rotate
  BY <1>16 DEF Rotate
<1>17. CASE UNCHANGED vars
  BY <1>17
<1>18. QED
  BY <1>1, <1>2, <1>3, <1>4, <1>5, <1>6, <1>7, <1>8, <1>9, <1>10, <1>11,
     <1>12, <1>13, <1>14, <1>15, <1>16, <1>17
     DEF Next, Proceed, Fetch

-----------------------------------------------------------------------------
(* The refinement of AtomicKeys *)

Stages == [c \in Callers |-> Stage(pc[c])]

\* What the places are in AtomicKeys.
LEMMA StageOf ==
  /\ Stage("idle") = "idle" /\ Stage("missed") = "asking" /\ Stage("deciding") = "asking"
  /\ Stage("awaiting") = "waiting" /\ Stage("limited") = "tried" /\ Stage("woken") = "tried"
  BY DEF Stage

\* A caller that moves, moves there, and nobody else does.
LEMMA OneMoves ==
  ASSUME TypeOK, NEW c \in Callers, NEW p \in Places, pc' = [pc EXCEPT ![c] = p]
  PROVE  Stages' = [Stages EXCEPT ![c] = Stage(p)]
<1>1. ASSUME NEW d \in Callers PROVE Stage(pc'[d]) = IF d = c THEN Stage(p) ELSE Stage(pc[d])
  <2>1. pc'[d] = IF d = c THEN p ELSE pc[d]
    BY DEF TypeOK
  <2> QED BY <2>1
<1> QED BY <1>1 DEF Stages

\* The write lock is held for the fetch in the slot only.
LEMMA LockedForSlot ==
  ASSUME SlotInv
  PROVE  CacheFree \/ (slot \in Fetches /\ state[slot] = "storing")
  BY DEF SlotInv, TypeOK, CacheFree

\* What is seen of the cache and of the fetch stays as long as both do.
LEMMA SeenStays ==
  ASSUME UNCHANGED <<cache, slot, state, result>>
  PROVE  UNCHANGED <<VisibleCache, OneFetch>>
  BY DEF VisibleCache, OneFetch, CacheFree

\* A caller finds in AtomicKeys what it finds here, as it reads when the lock is free.
LEMMA SameFound ==
  ASSUME CacheFree, NEW k
  PROVE  /\ VisibleCache = cache
         /\ LookupFresh(k) <=> Keys!HasFresh(k)
         /\ LookupStale(k) <=> Keys!Has(k)
  BY DEF VisibleCache, LookupFresh, LookupStale, Keys!HasFresh, Keys!Has

\* Every step of a caller is one of AtomicKeys, or only locks the mutex.
LEMMA CallerSteps ==
  ASSUME SlotInv, NEW c \in Callers,
         Proceed(c) \/ Cancel(c) \/ \E k \in Kids : Resolve(c, k)
  PROVE  Keys!Next \/ UNCHANGED Keys!vars
<1> USE DEF Stages
<1>t. TypeOK /\ (slot # Nobody => slot \in Fetches)
  BY DEF SlotInv, TypeOK
<1>p. Stages[c] = Stage(pc[c]) /\ pc[c] \in Places
  BY <1>t DEF TypeOK
<1>a. ASSUME NEW found \in BOOLEAN, Answer(c, found) PROVE Keys!Answer(c, found)
  <2>1. Stages' = [Stages EXCEPT ![c] = Stage("idle")]
    BY <1>t, <1>a, OneMoves DEF Answer
  <2> QED BY <1>a, <2>1, StageOf DEF Answer, Keys!Answer
<1>1. ASSUME NEW k \in Kids, Resolve(c, k) PROVE Keys!Ask(c, k)
  <2>1. UNCHANGED <<VisibleCache, OneFetch>>
    BY <1>1, SeenStays DEF Resolve
  <2>2. Stages[c] = "idle" /\ (LookupFresh(k) <=> Keys!HasFresh(k))
    BY <1>1, <1>p, StageOf, SameFound DEF Resolve
  <2>3. CASE LookupFresh(k)
    <3>1. Keys!Answer(c, TRUE)
      BY <1>1, <1>a, <2>3 DEF Resolve
    <3> QED BY <1>1, <2>1, <2>2, <2>3, <3>1 DEF Resolve, Keys!Ask
  <2>4. CASE ~LookupFresh(k)
    <3>1. Stages' = [Stages EXCEPT ![c] = "asking"] /\ reply' = [reply EXCEPT ![c] = "none"]
      BY <1>1, <1>t, <2>4, OneMoves, StageOf DEF Resolve
    <3> QED BY <1>1, <2>1, <2>2, <2>4, <3>1 DEF Resolve, Keys!Ask
  <2> QED BY <2>3, <2>4
<1>2. ASSUME LockInflight(c) PROVE UNCHANGED Keys!vars
  <2>1. UNCHANGED <<VisibleCache, OneFetch>>
    BY <1>2, SeenStays DEF LockInflight
  <2>2. Stages' = [Stages EXCEPT ![c] = "asking"] /\ Stages[c] = "asking"
    BY <1>2, <1>t, <1>p, OneMoves, StageOf DEF LockInflight
  <2>3. Stages' = Stages
    BY <2>2
  <2> QED BY <1>2, <2>1, <2>3 DEF LockInflight, Keys!vars
\* whoever decides has the mutex, and whoever has it decides
<1>d. inflight = c => Stages[c] = "asking"
  BY <1>p, StageOf DEF SlotInv
<1>3. ASSUME Join(c) PROVE Keys!Join(c)
  <2>1. UNCHANGED <<VisibleCache, OneFetch>>
    BY <1>3, SeenStays DEF Join
  <2>2. Stages' = [Stages EXCEPT ![c] = "waiting"]
    BY <1>3, <1>t, OneMoves, StageOf DEF Join, Await
  <2>3. OneFetch # "none"
    BY <1>3 DEF Join, OneFetch
  <2> QED BY <1>3, <1>d, <2>1, <2>2, <2>3 DEF Join, Keys!Join
<1>4. ASSUME Resolved(c) PROVE Keys!Find(c)
  <2>1. UNCHANGED <<VisibleCache, OneFetch>>
    BY <1>4, SeenStays DEF Resolved
  <2>2. Keys!Answer(c, TRUE) /\ Keys!HasFresh(kid[c])
    BY <1>4, <1>a, SameFound DEF Resolved
  <2> QED BY <1>4, <1>d, <2>1, <2>2 DEF Resolved, Keys!Find
<1>5. ASSUME RateLimited(c) PROVE Keys!Limit(c)
  <2>1. UNCHANGED <<VisibleCache, OneFetch>>
    BY <1>5, SeenStays DEF RateLimited
  <2>2. Stages' = [Stages EXCEPT ![c] = "tried"]
    BY <1>5, <1>t, OneMoves, StageOf DEF RateLimited
  <2>3. OneFetch = "none" /\ ~Keys!HasFresh(kid[c])
    BY <1>5, SameFound DEF RateLimited, OneFetch
  <2> QED BY <1>5, <1>d, <2>1, <2>2, <2>3 DEF RateLimited, Keys!Limit
<1>6. ASSUME StartFetch(c) PROVE Keys!Start(c)
  <2>1. PICK f \in Fetches : /\ state[f] = "idle"
                             /\ state' = [state EXCEPT ![f] = "requesting"]
                             /\ slot' = f /\ Await(c, f)
    BY <1>6 DEF StartFetch
  <2>2. OneFetch = "none" /\ OneFetch' = "running"
    BY <1>6, <1>t, <2>1 DEF StartFetch, OneFetch, TypeOK
  <2>3. CacheFree /\ CacheFree'
    BY <1>6, <1>t, <2>1 DEF StartFetch, CacheFree, TypeOK
  <2>4. VisibleCache' = VisibleCache /\ ~Keys!HasFresh(kid[c])
    BY <1>6, <2>3, SameFound DEF StartFetch, VisibleCache
  <2>5. Stages' = [Stages EXCEPT ![c] = "waiting"]
    BY <1>t, <2>1, OneMoves, StageOf DEF Await
  <2> QED BY <1>6, <1>d, <2>2, <2>4, <2>5 DEF StartFetch, Consume, Keys!Start
<1>7. ASSUME AnswerLimited(c) PROVE Keys!Settle(c)
  <2>1. UNCHANGED <<VisibleCache, OneFetch>>
    BY <1>7, SeenStays DEF AnswerLimited
  <2>2. LookupStale(kid[c]) = Keys!Has(kid[c])
    BY <1>7, SameFound DEF AnswerLimited, LookupStale, Keys!Has
  <2>3. Keys!Answer(c, Keys!Has(kid[c])) /\ Stages[c] = "tried"
    <3>1. LookupStale(kid[c]) \in BOOLEAN /\ Answer(c, LookupStale(kid[c]))
      BY <1>7 DEF AnswerLimited, LookupStale
    <3>2. Keys!Answer(c, LookupStale(kid[c]))
      BY <1>a, <3>1
    <3> QED BY <1>7, <1>p, <2>2, <3>2, StageOf DEF AnswerLimited
  <2> QED BY <1>7, <2>1, <2>3 DEF AnswerLimited, Keys!Settle
<1>8. ASSUME AnswerWoken(c) PROVE Keys!Settle(c)
  <2>1. UNCHANGED <<VisibleCache, OneFetch>>
    BY <1>8, SeenStays DEF AnswerWoken
  <2>2. (LookupFresh(kid[c]) \/ LookupStale(kid[c])) = Keys!Has(kid[c])
    BY <1>8, SameFound DEF AnswerWoken, LookupFresh, LookupStale, Keys!Has
  <2>3. Keys!Answer(c, Keys!Has(kid[c])) /\ Stages[c] = "tried"
    BY <1>8, <1>a, <1>p, <2>2, StageOf DEF AnswerWoken, Keys!Has
  <2> QED BY <1>8, <2>1, <2>3 DEF AnswerWoken, Keys!Settle
<1>9. ASSUME Cancel(c) PROVE Keys!Leave(c)
  <2>1. UNCHANGED <<VisibleCache, OneFetch>>
    BY <1>9, SeenStays DEF Cancel
  <2>2. Stages' = [Stages EXCEPT ![c] = "idle"] /\ Stages[c] \in {"waiting", "tried"}
    BY <1>9, <1>t, <1>p, OneMoves, StageOf DEF Cancel
  <2> QED BY <1>9, <2>1, <2>2 DEF Cancel, Keys!Leave
<1> QED
  BY <1>1, <1>2, <1>3, <1>4, <1>5, <1>6, <1>7, <1>8, <1>9 DEF Proceed, Keys!Next

\* Every step of the fetch is one of AtomicKeys, or stores what was seen as stored before.
LEMMA FetchSteps ==
  ASSUME SlotInv, NEW f \in Fetches, Fetch(f)
  PROVE  Keys!Next \/ UNCHANGED Keys!vars
<1> USE DEF Stages
<1>t. TypeOK /\ slot = f /\ f # Nobody /\ \A g \in Fetches : g # f => state[g] = "idle"
  BY DEF SlotInv, Fetch, FetchSucceeds, FetchFails, Store, Evict
<1>w. Driven(f) => \E c \in Callers : Stages[c] = "waiting"
  BY StageOf DEF Driven
\* the lock depends on this fetch only
<1>c. CacheFree <=> state[f] # "storing"
  BY <1>t DEF CacheFree
<1>1. ASSUME FetchSucceeds(f) PROVE Keys!Succeed
  <2>1. OneFetch = "running" /\ Keys!Wanted
    BY <1>1, <1>t, <1>w DEF FetchSucceeds, OneFetch, Keys!Wanted
  <2>2. slot' = f /\ state'[f] = "storing" /\ result'[f] = issuerKeys
    BY <1>1, <1>t DEF FetchSucceeds, TypeOK
  <2>3. ~CacheFree' /\ OneFetch' = "over"
    BY <1>t, <2>2 DEF CacheFree, OneFetch
  <2>4. VisibleCache' = [age |-> "fresh", keys |-> issuerKeys]
    BY <2>2, <2>3 DEF VisibleCache
  <2> QED BY <1>1, <2>1, <2>3, <2>4 DEF FetchSucceeds, Keys!Succeed
<1>2. ASSUME FetchFails(f) PROVE Keys!Fail
  <2>1. OneFetch = "running" /\ Keys!Wanted
    BY <1>2, <1>t, <1>w DEF FetchFails, OneFetch, Keys!Wanted
  <2>2. slot' = f /\ state' = [state EXCEPT ![f] = "evicting"]
    BY <1>2, <1>t DEF FetchFails
  <2>3. CacheFree /\ CacheFree' /\ OneFetch' = "over"
    BY <1>2, <1>t, <1>c, <2>2 DEF FetchFails, CacheFree, OneFetch, TypeOK
  <2>4. VisibleCache' = VisibleCache
    BY <1>2, <2>3 DEF FetchFails, VisibleCache
  <2> QED BY <1>2, <2>1, <2>3, <2>4 DEF FetchFails, Keys!Fail
<1>3. ASSUME Store(f) PROVE UNCHANGED Keys!vars
  <2>1. slot' = f /\ state' = [state EXCEPT ![f] = "evicting"]
    BY <1>3, <1>t DEF Store
  <2>2. ~CacheFree /\ CacheFree'
    BY <1>3, <1>t, <1>c, <2>1 DEF Store, CacheFree, TypeOK
  <2>3. VisibleCache' = VisibleCache
    BY <1>3, <1>t, <2>2 DEF Store, VisibleCache
  <2>4. OneFetch' = OneFetch
    BY <1>3, <1>t, <2>1 DEF Store, OneFetch, TypeOK
  <2> QED BY <1>3, <2>3, <2>4 DEF Store, Keys!vars
<1>4. ASSUME Evict(f) PROVE Keys!Tell
  <2>1. OneFetch = "over" /\ OneFetch' = "none"
    BY <1>4, <1>t DEF Evict, OneFetch
  <2>2. CacheFree /\ CacheFree'
    BY <1>4, <1>t, <1>c DEF Evict, CacheFree, TypeOK
  <2>3. VisibleCache' = VisibleCache
    BY <1>4, <2>2 DEF Evict, VisibleCache
  <2>4. \A c \in Callers : awaited[c] = f <=> pc[c] = "awaiting"
    BY <1>t DEF SlotInv
  <2>5. \A c \in Callers : pc'[c] = IF pc[c] = "awaiting" THEN "woken" ELSE pc[c]
    BY <1>4, <2>4 DEF Evict
  <2>6. ASSUME NEW c \in Callers
        PROVE  Stage(pc'[c]) = IF Stage(pc[c]) = "waiting" THEN "tried" ELSE Stage(pc[c])
    <3>1. pc[c] \in Places /\ (Stage(pc[c]) = "waiting" <=> pc[c] = "awaiting")
      BY <1>t, StageOf DEF TypeOK
    <3> QED BY <2>5, <3>1, StageOf
  <2>7. Stages' = [c \in Callers |-> IF Stages[c] = "waiting" THEN "tried" ELSE Stages[c]]
    BY <2>6
  <2> QED BY <1>4, <2>1, <2>3, <2>7 DEF Evict, Keys!Tell
<1> QED BY <1>1, <1>2, <1>3, <1>4 DEF Fetch, Keys!Next

\* Every step is a step of AtomicKeys or a stutter.
LEMMA KeysStep ==
  ASSUME SlotInv, [Next]_vars
  PROVE  [Keys!Next]_(Keys!vars)
<1>1. ASSUME NEW c \in Callers, Proceed(c) \/ Cancel(c) \/ \E k \in Kids : Resolve(c, k)
      PROVE  Keys!Next \/ UNCHANGED Keys!vars
  BY <1>1, CallerSteps
<1>2. ASSUME NEW f \in Fetches, Fetch(f) PROVE Keys!Next \/ UNCHANGED Keys!vars
  BY <1>2, FetchSteps
<1>3. CASE Expire
  <2>1. OneFetch' = OneFetch /\ CacheFree /\ CacheFree' /\ UNCHANGED pc
    BY <1>3 DEF Expire, OneFetch, CacheFree
  <2>2. Keys!Expire
    BY <1>3, <2>1 DEF Expire, VisibleCache, Keys!Expire
  <2> QED BY <2>2 DEF Keys!Next
<1>4. CASE WindowPasses
  <2>1. UNCHANGED <<VisibleCache, OneFetch>>
    BY <1>4, SeenStays DEF WindowPasses
  <2>2. Keys!Reopen
    BY <1>4, <2>1 DEF WindowPasses, Keys!Reopen
  <2> QED BY <2>2 DEF Keys!Next
<1>5. CASE Rotate
  <2>1. UNCHANGED <<VisibleCache, OneFetch>>
    BY <1>5, SeenStays DEF Rotate
  <2>2. Keys!Rotate
    BY <1>5, <2>1 DEF Rotate, Keys!Rotate
  <2> QED BY <2>2 DEF Keys!Next
<1>6. CASE UNCHANGED vars
  <2>1. UNCHANGED <<VisibleCache, OneFetch>>
    BY <1>6, SeenStays
  <2> QED BY <1>6, <2>1 DEF Keys!vars
<1> QED BY <1>1, <1>2, <1>3, <1>4, <1>5, <1>6 DEF Next

-----------------------------------------------------------------------------
\* Every variable keeps its type.
THEOREM TypeCorrect == Spec => []TypeOK
<1>1. Init => TypeOK
  BY DEF Init, TypeOK
<1>2. TypeOK /\ [Next]_vars => TypeOK'
  BY TypeStep
<1>3. QED
  BY <1>1, <1>2, PTL DEF Spec

\* At most one fetch starts in a min_refresh_interval, failed ones included.
THEOREM StartsAreLimited == Spec => []OneStartPerWindow
<1>1. Init => OneStartPerWindow
  BY DEF Init, OneStartPerWindow
<1>2. OneStartPerWindow /\ TypeOK /\ [Next]_vars => OneStartPerWindow'
  BY WindowStep
<1>3. QED
  BY <1>1, <1>2, TypeCorrect, PTL DEF Spec

\* Whatever misses, joins, failures and dropped requests there are, an authorization
\* server has at most one fetch to answer (acquire_inflight_slot).
THEOREM OneFetchAtATime == Spec => []SingleFlight
<1>1. Init => SlotInv
  BY DEF Init, SlotInv, TypeOK
<1>2. SlotInv /\ [Next]_vars => SlotInv'
  BY SlotStep
<1>3. SlotInv /\ OneStartPerWindow => SingleFlight
  BY DEF SlotInv, SingleFlight
<1>4. QED
  BY <1>1, <1>2, <1>3, StartsAreLimited, PTL DEF Spec

\* A key that stays in the cache is never refused to a request that asks for it.
THEOREM StaleKeysAnswer == Spec => []CachedKeysAccepted
<1>1. Init => CoverInv
  BY DEF Init, CoverInv, TypeOK
<1>2. CoverInv /\ [Next]_vars => CoverInv'
  BY CoverStep
<1>3. CoverInv => CachedKeysAccepted
  BY DEF CoverInv, CachedKeysAccepted
<1>4. QED
  BY <1>1, <1>2, <1>3, PTL DEF Spec

\* Two locks, a pool of futures and a fetch in several steps amount to the one cache of
\* AtomicKeys: a request can be answered only what that cache holds at some moment, and
\* refused only after a fetch it could have waited for has ended, or in a shut window.
THEOREM KeysAreAtomic == Spec => AtomicKeysSpec
<1>1. Init => Keys!Init
  BY StageOf DEF Init, Keys!Init, VisibleCache, OneFetch, CacheFree
<1>2. Init => SlotInv
  BY DEF Init, SlotInv, TypeOK
<1>3. SlotInv /\ [Next]_vars => SlotInv'
  BY SlotStep
<1>4. SlotInv /\ [Next]_vars => [Keys!Next]_(Keys!vars)
  BY KeysStep
<1>5. QED
  BY <1>1, <1>2, <1>3, <1>4, PTL DEF Spec, AtomicKeysSpec, Keys!Spec
================================================================================
