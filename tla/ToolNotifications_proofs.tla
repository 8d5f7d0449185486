----------------------- MODULE ToolNotifications_proofs -----------------------
(***************************************************************************)
(* No invalidation is lost, for any number of clients of either kind.      *)
(***************************************************************************)
EXTENDS ToolNotifications, TLAPS

\* What keeps NoLostInvalidation: a legacy client has no list before it has a
\* receiver, so whatever makes its list stale is published to that receiver.
NewHasNoList == \A c \in Legacy : stage[c] = "new" => list[c] = "none"

Inv == TypeOK /\ NoLostInvalidation /\ NewHasNoList

-----------------------------------------------------------------------------
USE NotificationAssumption DEF Stages, vars

\* Types hold at the start and every step of Next keeps them.
LEMMA TypeStep ==
  ASSUME TypeOK, [Next]_vars
  PROVE  TypeOK'
<1> USE DEF TypeOK, Move, InitialRefresh
<1>1. CASE Commit
  BY <1>1 DEF Commit
<1>2. CASE Publish
  BY <1>2 DEF Publish
<1>3. CASE Cancel
  BY <1>3 DEF Cancel
<1>4. ASSUME NEW c \in Clients, Listen(c) \/ BeginSend(c) \/ EndSend(c)
      PROVE  TypeOK'
  BY <1>4 DEF Listen, BeginSend, EndSend
<1>5. ASSUME NEW c \in Clients, Initialize(c) \/ OnInitialized(c) \/ Acknowledge(c)
      PROVE  TypeOK'
  BY <1>5 DEF Initialize, OnInitialized, Acknowledge
<1>6. ASSUME NEW c \in Clients, Close(c) PROVE TypeOK'
  BY <1>6 DEF Close
<1>7. ASSUME NEW c \in Clients, EndDelivery(c) PROVE TypeOK'
  BY <1>6, <1>7 DEF EndDelivery
<1>8. ASSUME NEW c \in Clients, Fetch(c) PROVE TypeOK'
  BY <1>8 DEF Fetch
<1>9. CASE UNCHANGED vars
  BY <1>9
<1>10. QED
  BY <1>1, <1>2, <1>3, <1>4, <1>5, <1>6, <1>7, <1>8, <1>9 DEF Next, Deliver, Connect

\* Every step of Next keeps the strengthened invariant.
LEMMA InvStep ==
  ASSUME Inv, [Next]_vars
  PROVE  Inv'
<1>1. TypeOK'
  BY TypeStep DEF Inv
<1> DEFINE Kept == NoLostInvalidation' /\ NewHasNoList'
<1> SUFFICES Kept
  BY <1>1 DEF Inv
<1> USE DEF Inv, TypeOK, NoLostInvalidation, NewHasNoList, Connected, Move
<1>2. CASE Commit
  BY <1>2 DEF Commit
<1>3. CASE Publish
  BY <1>3 DEF Publish, HasReceiver
<1>4. CASE Cancel
  BY <1>4 DEF Cancel
<1>5. ASSUME NEW c \in Clients, Initialize(c) PROVE Kept
  BY <1>5 DEF Initialize
<1>6. ASSUME NEW c \in Clients, OnInitialized(c) PROVE Kept
  BY <1>6 DEF OnInitialized
<1>7. ASSUME NEW c \in Clients, Acknowledge(c) PROVE Kept
  BY <1>7 DEF Acknowledge
<1>8. ASSUME NEW c \in Clients, Listen(c) PROVE Kept
  BY <1>8 DEF Listen, InitialRefresh
<1>9. ASSUME NEW c \in Clients, BeginSend(c) PROVE Kept
  BY <1>9 DEF BeginSend
<1>10. ASSUME NEW c \in Clients, EndSend(c) PROVE Kept
  BY <1>10 DEF EndSend
<1>11. ASSUME NEW c \in Clients, Close(c) PROVE Kept
  BY <1>11 DEF Close
<1>12. ASSUME NEW c \in Clients, Fetch(c) PROVE Kept
  BY <1>12 DEF Fetch
<1>13. CASE UNCHANGED vars
  BY <1>13
<1>14. QED
  BY <1>2, <1>3, <1>4, <1>5, <1>6, <1>7, <1>8, <1>9, <1>10, <1>11, <1>12, <1>13
     DEF Next, Deliver, Connect, EndDelivery

\* The invariant holds throughout.
LEMMA Invariant == Spec => []Inv
<1>1. Init => Inv
  BY DEF Init, Inv, TypeOK, NoLostInvalidation, NewHasNoList, Connected
<1>2. Inv /\ [Next]_vars => Inv'
  BY InvStep
<1> QED BY <1>1, <1>2, PTL DEF Spec

\* Every state of the clients and of the signal is of its type.
THEOREM TypeCorrect == Spec => []TypeOK
<1>1. Inv => TypeOK
  BY DEF Inv
<1> QED BY <1>1, Invariant, PTL

\* A connected client is never left with an outdated tool list and nothing on its
\* way to tell it so: whatever the order of commits, publications, handshakes,
\* sends, closed streams and shutdown (tool_list_changes.rs, McpService::listen).
THEOREM NothingIsLost == Spec => []NoLostInvalidation
<1>1. Inv => NoLostInvalidation
  BY DEF Inv
<1> QED BY <1>1, Invariant, PTL
================================================================================
