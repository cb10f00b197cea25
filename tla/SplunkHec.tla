------------------------------ MODULE SplunkHec ------------------------------
(***************************************************************************)
(* The Splunk HEC blackhole (src/lading/src/blackhole/splunk_hec.rs).      *)
(*                                                                         *)
(* SplunkHec::run accepts connections until shutdown, spawning one task    *)
(* per connection into a JoinSet; each task first acquires a permit of a   *)
(* semaphore of concurrent_requests_max, then serves HTTP requests until   *)
(* the client closes, then drops its permit.  srv answers event posts with *)
(* a fresh id from the process-wide ACK_ID counter.  After shutdown the    *)
(* listener is dropped and run waits for every spawned task.               *)
(*                                                                         *)
(* Request bodies, paths and encodings are abstracted to two kinds: posts  *)
(* to an event/raw path, and every other request (ack queries, other       *)
(* paths, undecodable bodies), which change no shared state.               *)
(***************************************************************************)
EXTENDS Naturals, FiniteSets

CONSTANTS
  Clients,           \* client connections that may arrive
  ConcurrencyLimit,  \* concurrent_requests_max
  MaxRequests        \* bound on requests per connection (model only)

ASSUME
  /\ ConcurrencyLimit \in Nat \ {0}
  /\ MaxRequests \in Nat \ {0}

VARIABLES
  serverPc,   \* where run is: "accept", "drain" or "done"
  shutdown,   \* the shutdown Watcher has fired
  task,       \* task[k]: "none" (not accepted), "acquire", "serving", "closed"
  permits,    \* permits available in the semaphore
  ackId,      \* the ACK_ID counter
  requests    \* requests[k]: requests served on connection k

vars == <<serverPc, shutdown, task, permits, ackId, requests>>

Init ==
  /\ serverPc = "accept"
  /\ shutdown = FALSE
  /\ task = [k \in Clients |-> "none"]
  /\ permits = ConcurrencyLimit
  /\ ackId = 0
  /\ requests = [k \in Clients |-> 0]

\* The select in run: listener.accept() wins; the connection task is spawned.
Accept(k) ==
  /\ serverPc = "accept"
  /\ task[k] = "none"
  /\ task' = [task EXCEPT ![k] = "acquire"]
  /\ UNCHANGED <<serverPc, shutdown, permits, ackId, requests>>

\* Mutant of StopAccepting: the shutdown branch continues the loop instead
\* of breaking out of it.
StopAcceptingContinues ==
  /\ serverPc = "accept"
  /\ shutdown
  /\ UNCHANGED vars

\* The select in run: shutdown wins; the loop breaks and the listener is
\* dropped, so no further connection is accepted.
StopAccepting ==
  /\ serverPc = "accept"
  /\ shutdown
  /\ serverPc' = "drain"
  /\ UNCHANGED <<shutdown, task, permits, ackId, requests>>

\* sem.acquire_owned().await in the connection task.
Acquire(k) ==
  /\ task[k] = "acquire"
  /\ permits > 0
  /\ permits' = permits - 1
  /\ task' = [task EXCEPT ![k] = "serving"]
  /\ UNCHANGED <<serverPc, shutdown, ackId, requests>>

\* The value ACK_ID holds after fetch_add(1).
FetchAdd(n) == n + 1

\* srv on a POST to /services/collector/event or raw: ACK_ID.fetch_add(1)
\* returns the id put in the response.
EventRequest(k) ==
  /\ task[k] = "serving"
  /\ requests[k] < MaxRequests
  /\ ackId' = FetchAdd(ackId)
  /\ requests' = [requests EXCEPT ![k] = @ + 1]
  /\ UNCHANGED <<serverPc, shutdown, task, permits>>

\* srv on any other request: counted and answered, no shared state touched.
OtherRequest(k) ==
  /\ task[k] = "serving"
  /\ requests[k] < MaxRequests
  /\ requests' = [requests EXCEPT ![k] = @ + 1]
  /\ UNCHANGED <<serverPc, shutdown, task, permits, ackId>>

\* Mutant of Close: the task returns without dropping its permit.
CloseLeaksPermit(k) ==
  /\ task[k] = "serving"
  /\ task' = [task EXCEPT ![k] = "closed"]
  /\ UNCHANGED <<serverPc, shutdown, permits, ackId, requests>>

\* Mutant of Close: the permit is released twice.
CloseReleasesTwice(k) ==
  /\ task[k] = "serving"
  /\ task' = [task EXCEPT ![k] = "closed"]
  /\ permits' = permits + 2
  /\ UNCHANGED <<serverPc, shutdown, ackId, requests>>

\* serve_future completes (the client hung up or the connection errored);
\* the task drops its permit and ends.
Close(k) ==
  /\ task[k] = "serving"
  /\ task' = [task EXCEPT ![k] = "closed"]
  /\ permits' = permits + 1
  /\ UNCHANGED <<serverPc, shutdown, ackId, requests>>

\* while join_set.join_next().await.is_some() {} ; Ok(())
Drain ==
  /\ serverPc = "drain"
  /\ \A k \in Clients : task[k] \in {"none", "closed"}
  /\ serverPc' = "done"
  /\ UNCHANGED <<shutdown, task, permits, ackId, requests>>

FireShutdown ==
  /\ ~shutdown
  /\ shutdown' = TRUE
  /\ UNCHANGED <<serverPc, task, permits, ackId, requests>>

Next ==
  \/ \E k \in Clients :
       Accept(k) \/ Acquire(k) \/ EventRequest(k) \/ OtherRequest(k) \/ Close(k)
  \/ StopAccepting \/ Drain \/ FireShutdown
  \/ (serverPc = "done" /\ UNCHANGED vars)

(* The runtime runs every ready task (weak fairness on the server and the   *)
(* connection tasks).  A connection ends only when its client hangs up:     *)
(* Close is fair only under the assumption that clients eventually close.   *)
Spec ==
  /\ Init /\ [][Next]_vars
  /\ WF_vars(StopAccepting) /\ WF_vars(Drain)
  /\ \A k \in Clients : WF_vars(Acquire(k))

ClientsHangUp == \A k \in Clients : WF_vars(Close(k))

-----------------------------------------------------------------------------
TypeOK ==
  /\ serverPc \in {"accept", "drain", "done"}
  /\ shutdown \in BOOLEAN
  /\ task \in [Clients -> {"none", "acquire", "serving", "closed"}]
  /\ permits \in 0..ConcurrencyLimit
  /\ ackId \in Nat
  /\ requests \in [Clients -> 0..MaxRequests]

\* Semaphore accounting: the permits in use are exactly the connections
\* being served, so at most concurrent_requests_max are served at once and
\* none is lost when a task ends.
PermitsConserved ==
  permits + Cardinality({k \in Clients : task[k] = "serving"}) = ConcurrencyLimit

\* If clients eventually hang up, shutdown makes run return: the accept
\* loop stops and every spawned task, including those still waiting for a
\* permit, completes.
ShutdownDrains == shutdown ~> serverPc = "done"
=============================================================================
