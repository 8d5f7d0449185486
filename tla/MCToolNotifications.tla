-------------------------- MODULE MCToolNotifications --------------------------
(* ToolNotifications with a session, a subscriber and a slow subscriber. *)
EXTENDS ToolNotifications

CONSTANTS session, subscriber, slowSubscriber
FastClients   == {session, subscriber}
OneSlow       == {session, subscriber, slowSubscriber}
OneSession    == {session}
================================================================================
