------------------------------ MODULE HealthCheck ------------------------------
(***************************************************************************)
(* Readiness of a running HTTP server (health.rs): failed calls are        *)
(* counted, a ticker task compares the count with a limit once per         *)
(* sampling interval, and an unready server recovers after a pause.        *)
(*                                                                         *)
(* The counter, the flag and the ticker are shared by every clone of the   *)
(* HealthCheck: start() has one, Running has one, and so has everything    *)
(* cloned from Running for a session or handed to a request.               *)
(***************************************************************************)
EXTENDS Naturals

CONSTANTS
  Requests,      \* sessions and requests with a clone of their own
  Allowed,       \* readiness.allowed
  MaxRejected    \* bound: the count of rejections

VARIABLES
  owners,    \* who holds a clone: "start", "running" and some of Requests
  ticker,    \* where the ticker task stands: "sampling", "unready" or "recovered"
  task,      \* "alive", or "aborted": it does not get past its next await
  ready,     \* "up" or "down": the flag /health?ready reports
  rejected   \* the counter

vars == <<owners, ticker, task, ready, rejected>>

Init ==
  /\ owners = {"start"}
  /\ ticker = "sampling" /\ task = "alive" /\ ready = "up" /\ rejected = 0

-----------------------------------------------------------------------------
(* The clones *)

Clone(from, to) ==
  /\ from \in owners
  /\ owners' = owners \cup {to}
  /\ UNCHANGED <<ticker, task, ready, rejected>>

\* Drop for HealthCheck.
Drop(o) ==
  /\ o \in owners
  /\ owners' = owners \ {o}
  /\ task' = "aborted"
  /\ UNCHANGED <<ticker, ready, rejected>>

\* Running gets a clone; when start() returns, its own goes out of scope.
StartClones  == "start" \in owners /\ Clone("start", "running")
StartReturns == "running" \in owners /\ Drop("start")

\* A session's service or a health probe's handler state, cloned and dropped.
Serve(r)  == Clone("running", r)
Finish(r) == Drop(r)

\* A tool call ends in an error of the protocol.
RecordRejection(r) ==
  /\ r \in owners
  /\ rejected < MaxRejected
  /\ rejected' = rejected + 1
  /\ UNCHANGED <<owners, ticker, task, ready>>

-----------------------------------------------------------------------------
(* The ticker *)

Exceeded == rejected > Allowed

\* One tick of the interval.  At or under the limit a tick changes nothing.
TickUnready ==
  /\ task = "alive" /\ ticker = "sampling" /\ Exceeded
  /\ ready' = "down" /\ ticker' = "unready"
  /\ UNCHANGED <<owners, task, rejected>>

\* The recovery interval is over: the counter is reset first, then the flag,
\* with no await between the two.
ResetCounter ==
  /\ task = "alive" /\ ticker = "unready"
  /\ rejected' = 0 /\ ticker' = "recovered"
  /\ UNCHANGED <<owners, task, ready>>

RestoreReady ==
  /\ ticker = "recovered"
  /\ ready' = "up" /\ ticker' = "sampling"
  /\ UNCHANGED <<owners, task, rejected>>

-----------------------------------------------------------------------------
Ticker == TickUnready \/ ResetCounter \/ RestoreReady

Next ==
  \/ StartClones \/ StartReturns \/ Ticker
  \/ \E r \in Requests : Serve(r) \/ RecordRejection(r) \/ Finish(r)

Spec == Init /\ [][Next]_vars

\* The timer fires and the ticker is polled.  Nothing is assumed of those who hold
\* clones.
FairSpec == Spec /\ WF_vars(Ticker)

-----------------------------------------------------------------------------
\* Too many failures make the server unready (health-checks.mdx: "automatically
\* marks itself as unready if too many failures occur").
OverloadReported == rejected > Allowed ~> ready = "down"
================================================================================
