--------------------------- MODULE ToolNotifications ---------------------------
(***************************************************************************)
(* How clients learn that the tool catalog changed: the coalescing signal  *)
(* of server/states/tool_list_changes.rs, the task that forwards it to a   *)
(* client with the legacy handshake, and the subscription stream of        *)
(* McpService::listen (running.rs).                                        *)
(*                                                                         *)
(* The catalog is reduced to whether its last change has been published;   *)
(* how it changes is in module ToolCatalog.                                *)
(***************************************************************************)
CONSTANTS
  Clients,
  Legacy,   \* those that initialize; the others subscribe with listen
  Fast      \* those that read what they are sent and refetch when told to

ASSUME NotificationAssumption == Legacy \subseteq Clients /\ Fast \subseteq Clients

VARIABLES
  catalog,   \* "published", or "committed" and not yet published
  list,      \* per client, its copy of the tool list
  stage,     \* per client, where its session or subscription stands
  unseen,    \* the watch receivers that have a change to see
  told,      \* the clients that have a notification to act on
  shutdown   \* the cancellation token of the server instance

vars == <<catalog, list, stage, unseen, told, shutdown>>

Stages == {"new", "pending", "delivering", "sending", "ended"}

TypeOK ==
  /\ catalog \in {"published", "committed"}
  /\ list \in [Clients -> {"none", "current", "stale"}]
  /\ stage \in [Clients -> Stages]
  /\ unseen \subseteq Clients
  /\ told \subseteq Clients
  /\ shutdown \in {"no", "cancelled"}

Init ==
  /\ catalog = "published"
  /\ list = [c \in Clients |-> "none"]
  /\ stage = [c \in Clients |-> "new"]
  /\ unseen = {} /\ told = {} /\ shutdown = "no"

Move(c, from, to) == stage[c] \in from /\ stage' = [stage EXCEPT ![c] = to]

-----------------------------------------------------------------------------
(* The event loop *)

\* update_schema and update_operations: the new catalog becomes visible ...
Commit ==
  /\ catalog = "published"
  /\ catalog' = "committed"
  /\ list' = [c \in Clients |-> IF list[c] = "current" THEN "stale" ELSE list[c]]
  /\ UNCHANGED <<stage, unseen, told, shutdown>>

\* A legacy session subscribes to the signal when it initializes, a listen
\* request when its handler starts.
HasReceiver(c) ==
  stage[c] \in {"delivering", "sending"} \cup (IF c \in Legacy THEN {"pending"} ELSE {})

\* ... and then the signal marks every receiver.
Publish ==
  /\ catalog = "committed"
  /\ catalog' = "published"
  /\ unseen' = unseen \cup {c \in Clients : HasReceiver(c)}
  /\ UNCHANGED <<list, stage, told, shutdown>>

-----------------------------------------------------------------------------
(* Sessions and subscriptions *)

\* initialize: AwaitingInitialize becomes AwaitingInitialized(receiver); repeated
\* initialization leaves the receiver and what it has not seen.
Initialize(c) ==
  /\ c \in Legacy
  /\ Move(c, {"new"}, "pending")
  /\ unseen' = unseen \ {c}
  /\ UNCHANGED <<catalog, list, told, shutdown>>

\* on_initialized: AwaitingInitialized becomes Started and keeps its receiver.
OnInitialized(c) ==
  /\ c \in Legacy
  /\ Move(c, {"pending"}, "delivering")
  /\ UNCHANGED <<catalog, list, unseen, told, shutdown>>

\* rmcp acknowledges a subscription before the handler runs; a client whose
\* stream ended may subscribe again.
Acknowledge(c) ==
  /\ c \notin Legacy /\ shutdown = "no"
  /\ Move(c, {"new", "ended"}, "pending")
  /\ UNCHANGED <<catalog, list, unseen, told, shutdown>>

\* Mutant of InitialRefresh: a subscription starts with everything seen.
NoInitialRefresh(c) == unseen \ {c}

\* listen: subscribe, and mark the receiver changed to cover the window between.
InitialRefresh(c) == unseen \cup {c}

Listen(c) ==
  /\ c \notin Legacy
  /\ Move(c, {"pending"}, "delivering")
  /\ unseen' = InitialRefresh(c)
  /\ UNCHANGED <<catalog, list, told, shutdown>>

\* Mutant of BeginSend: one send at a time for all clients.
BeginSendAlone(c) ==
  /\ shutdown = "no" /\ c \in unseen
  /\ \A d \in Clients : stage[d] # "sending"
  /\ Move(c, {"delivering"}, "sending")
  /\ unseen' = unseen \ {c}
  /\ UNCHANGED <<catalog, list, told, shutdown>>

\* changes.changed() returns and marks the change seen; the send begins.
BeginSend(c) ==
  /\ shutdown = "no" /\ c \in unseen
  /\ Move(c, {"delivering"}, "sending")
  /\ unseen' = unseen \ {c}
  /\ UNCHANGED <<catalog, list, told, shutdown>>

EndSend(c) ==
  /\ shutdown = "no"
  /\ Move(c, {"sending"}, "delivering")
  /\ told' = told \cup {c}
  /\ UNCHANGED <<catalog, list, unseen, shutdown>>

\* The send fails (TransportSend, TransportClosed, SubscriptionClosed), the client
\* closes its stream, or the last owner of the legacy session is dropped.
\* A send that is cut off may have reached the client.
Close(c) ==
  /\ Move(c, Stages \ {"new", "ended"}, "ended")
  /\ unseen' = unseen \ {c}
  /\ told' \in IF stage[c] = "sending" THEN {told, told \cup {c}} ELSE {told}
  /\ UNCHANGED <<catalog, list, shutdown>>

\* Mutant of Interrupted: a send that has begun is completed first.
NotWhileSending == {"delivering"}

\* Both selects check the token first: delivery ends, even in the middle of a send.
Interrupted == {"delivering", "sending"}

EndDelivery(c) ==
  /\ shutdown = "cancelled" /\ stage[c] \in Interrupted
  /\ Close(c)

-----------------------------------------------------------------------------
(* The environment *)

Cancel ==
  /\ shutdown' = "cancelled"
  /\ UNCHANGED <<catalog, list, stage, unseen, told>>

\* tools/list
Fetch(c) ==
  /\ c \in Legacy => stage[c] # "new"
  /\ list' = [list EXCEPT ![c] = "current"]
  /\ told' = told \ {c}
  /\ UNCHANGED <<catalog, stage, unseen, shutdown>>

Refetch(c) == c \in told /\ Fetch(c)

-----------------------------------------------------------------------------
Deliver(c) == Listen(c) \/ BeginSend(c) \/ EndDelivery(c)
Connect(c) == Initialize(c) \/ OnInitialized(c) \/ Acknowledge(c) \/ Close(c)

Next ==
  \/ Commit \/ Publish \/ Cancel
  \/ \E c \in Clients : Deliver(c) \/ EndSend(c) \/ Connect(c) \/ Fetch(c)

Spec == Init /\ [][Next]_vars

\* The server's tasks run; only a fast client takes what is sent to it, goes on
\* after initialize and acts on what it was told.
Fairness ==
  /\ WF_vars(Publish)
  /\ \A c \in Clients : WF_vars(Deliver(c))
  /\ \A c \in Fast : WF_vars(OnInitialized(c)) /\ WF_vars(EndSend(c)) /\ WF_vars(Refetch(c))

FairSpec == Spec /\ Fairness

-----------------------------------------------------------------------------
Connected(c) == stage[c] \in {"pending", "delivering", "sending"}

\* No change of the catalog is lost on the way to a client that is connected:
\* while its list is out of date, the change is about to be published, or is
\* pending at its receiver, or being sent, or told to it, or will be covered by
\* the initial refresh of its subscription.
NoLostInvalidation ==
  \A c \in Clients : list[c] = "stale" /\ Connected(c) =>
    \/ catalog = "committed"
    \/ c \in unseen
    \/ stage[c] = "sending"
    \/ c \in told
    \/ c \notin Legacy /\ stage[c] = "pending"

\* However slow the others are, a fast client that stays connected refetches.
FastClientsRefetch ==
  \A c \in Fast : (list[c] = "stale" /\ Connected(c))
    ~> (list[c] = "current" \/ ~Connected(c) \/ shutdown = "cancelled")

\* A shutdown or restart ends every delivery, a blocked send included ("shutdown
\* interrupts a blocked send"): the draining server does not wait for slow clients.
DeliveryEnds ==
  \A c \in Clients :
    shutdown = "cancelled" ~> stage[c] \notin {"delivering", "sending"}
================================================================================
