---------------------------- MODULE UnixDatagram ----------------------------
(***************************************************************************)
(* The Unix-domain-socket datagram generator of lading                     *)
(* (src/lading/src/generator/unix_datagram.rs), built by Server::new and   *)
(* driven by Server::run (src/lading/src/generator.rs).                    *)
(*                                                                         *)
(* UnixDatagram::new spawns one Child task per parallel connection and may *)
(* fail part-way, dropping the startup sender the spawned children wait    *)
(* on.  Otherwise one parent task and the children run.  Each child        *)
(* waits on the startup broadcast, connects its socket (retrying forever), *)
(* spawns an OS thread that runs the block cache into a bounded channel,   *)
(* and then loops: peek the next block, skip it if it exceeds the learned  *)
(* datagram ceiling, otherwise race the throttle against the shutdown      *)
(* signal; when the throttle wins, take the block and send it, lowering    *)
(* the ceiling to len - 1 on any send error.                               *)
(*                                                                         *)
(* Blocks are abstracted to their sizes.  The throttle (lading_throttle),  *)
(* the block cache producer (lading_payload::block::Cache::spin), the      *)
(* PeekableReceiver and the shutdown Phase are not in this source tree     *)
(* and are modelled from the specification.                                *)
(***************************************************************************)
EXTENDS Naturals, Sequences, FiniteSets

CONSTANTS
  Children,         \* the child tasks, one per parallel connection
  BlockSizes,       \* sizes the block cache may produce (already clipped to 8192)
  KernelLimit,      \* the largest datagram the kernel accepts on this socket
  ChannelCapacity,  \* capacity of the block channel (1024 in the code)
  UsizeMax,         \* stands for usize::MAX, larger than every block size
  Environments      \* the environments a run considers (see env)

\* Whether socket.connect may fail (the target socket is absent), whether
\* send may fail a datagram the kernel would accept, whether building a
\* child's block cache in new may fail, whether a child's own I/O setup
\* (UnixDatagram::unbound, thread::Builder::spawn) may fail, and the
\* configured parallel_connections.
Envs == [connectMayFail : BOOLEAN, transientErrors : BOOLEAN,
         buildMayFail : BOOLEAN, ioMayFail : BOOLEAN,
         connections : 0..Cardinality(Children)]

ASSUME
  /\ Children # {}
  /\ BlockSizes \subseteq (Nat \ {0}) /\ BlockSizes # {}
  /\ KernelLimit \in Nat
  /\ ChannelCapacity \in Nat \ {0}
  /\ \A s \in BlockSizes : s < UsizeMax
  /\ Environments \subseteq Envs /\ Environments # {}

\* An empty one-slot peek buffer.
NoBlock == 0

\* Bound on the per-size failure counters of the model (history only).
FailureCap == 2

VARIABLES
  parentPc,     \* where Server::new / Server::run / UnixDatagram::spin is
  startupSent,  \* the startup broadcast has been sent
  shutdown,     \* the shutdown Phase has fired
  pc,           \* pc[c]: where Child::spin of child c is
  chan,         \* chan[c]: sizes of the blocks buffered in c's channel
  slot,         \* slot[c]: the block held by c's PeekableReceiver, or NoBlock
  maxDetected,  \* maxDetected[c]: max_detected_bytes of child c
  lastSent,     \* lastSent[c]: the size of the block c last handed to send
  failures,     \* failures[c][s]: failed sends of a block of size s (capped)
  producer,     \* producer[c]: state of c's block cache thread
  env           \* the environment, fixed for a run: whether socket.connect
                \* may fail (the target socket is absent) and whether send
                \* may fail for a reason other than size

vars == <<parentPc, startupSent, shutdown, pc, chan, slot, maxDetected,
          lastSent, failures, producer, env>>

-----------------------------------------------------------------------------
(* PeekableReceiver (spec 4.E): a one-slot buffer in front of the channel. *)

\* peek() can return: the slot holds a block or the channel has one.
CanPeek(c) == slot[c] # NoBlock \/ chan[c] # <<>>

\* The block peek() returns: the held one, else the channel's head.
Peeked(c) == IF slot[c] # NoBlock THEN slot[c] ELSE Head(chan[c])

\* Mutant of ChanAfterPeek: peek() copies the channel's head instead of moving it.
ChanAfterPeekKeepsHead(c) == chan[c]

\* The channel once peek() has moved its head into the slot.
ChanAfterPeek(c) == IF slot[c] # NoBlock THEN chan[c] ELSE Tail(chan[c])

\* peek(): the peeked block is held in the slot.
PeekHold(c) ==
  /\ slot' = [slot EXCEPT ![c] = Peeked(c)]
  /\ chan' = [chan EXCEPT ![c] = ChanAfterPeek(c)]

\* peek() then next(): the peeked block is handed out and the slot emptied.
PeekTake(c) ==
  /\ slot' = [slot EXCEPT ![c] = NoBlock]
  /\ chan' = [chan EXCEPT ![c] = ChanAfterPeek(c)]

\* next() after a peek(): hand out the slot and empty it.
TakeNext(c) ==
  /\ slot' = [slot EXCEPT ![c] = NoBlock]
  /\ UNCHANGED chan

\* The block next() hands out.
Taken(c) == slot[c]

-----------------------------------------------------------------------------
(* The socket: a datagram larger than the kernel limit is refused; any    *)
(* other may fail only when transient errors are possible.                 *)
SendMayFail(sz) == sz > KernelLimit \/ env.transientErrors
SendMaySucceed(sz) == sz <= KernelLimit

\* Mutants of LearnedCeiling: the - 1 dropped, or doubled.
LearnedCeilingKeepsSize(sz) == sz
LearnedCeilingOffByTwo(sz) == sz - 2

\* max_detected_bytes after a failed send of a block of sz bytes.
LearnedCeiling(sz) == sz - 1

Bump(n) == IF n < FailureCap THEN n + 1 ELSE n

\* The children new has spawned, and those spin's startup.send reaches.
Spawned == {c \in Children : pc[c] # "unspawned"}
Subscribers == {c \in Children : pc[c] = "startup"}

\* Child::spin has returned, with Ok or with an error.
Ended(c) == pc[c] \in {"done", "error"}

-----------------------------------------------------------------------------
Init ==
  /\ parentPc = "new"
  /\ startupSent = FALSE
  /\ shutdown = FALSE
  /\ pc = [c \in Children |-> "unspawned"]
  /\ chan = [c \in Children |-> <<>>]
  /\ slot = [c \in Children |-> NoBlock]
  /\ maxDetected = [c \in Children |-> UsizeMax]
  /\ lastSent = [c \in Children |-> NoBlock]
  /\ failures = [c \in Children |-> [s \in BlockSizes |-> 0]]
  /\ producer = [c \in Children |-> "idle"]
  /\ env \in Environments

(* UnixDatagram::new, one pass of the spawn loop over                      *)
(* 0..parallel_connections: the child is given its block cache and         *)
(* throttle, subscribes to the startup broadcast and is spawned.           *)
SpawnChild(c) ==
  /\ parentPc = "new"
  /\ Cardinality(Spawned) < env.connections
  /\ pc[c] = "unspawned"
  /\ pc' = [pc EXCEPT ![c] = "startup"]
  /\ UNCHANGED <<env, parentPc, startupSent, shutdown, chan, slot, maxDetected,
                 lastSent, failures, producer>>

(* UnixDatagram::new returns Err from the ? on a block cache construction *)
(* (before or between spawns), and Server::new passes it on: the startup  *)
(* sender is dropped and the spawned children's handles are detached.     *)
NewFails ==
  /\ parentPc = "new"
  /\ env.buildMayFail
  /\ parentPc' = "failed"
  /\ UNCHANGED <<env, startupSent, shutdown, pc, chan, slot, maxDetected,
                 lastSent, failures, producer>>

(* UnixDatagram::new returns Ok once the loop has spawned every child. *)
NewReturn ==
  /\ parentPc = "new"
  /\ Cardinality(Spawned) = env.connections
  /\ parentPc' = "run"
  /\ UNCHANGED <<env, startupSent, shutdown, pc, chan, slot, maxDetected,
                 lastSent, failures, producer>>

(* Server::run: pause for the target pid, then UnixDatagram::spin. *)
Run ==
  /\ parentPc = "run"
  /\ parentPc' = "startup"
  /\ UNCHANGED <<env, startupSent, shutdown, pc, chan, slot, maxDetected,
                 lastSent, failures, producer>>

(* UnixDatagram::spin: self.startup.send(())? releases every subscribed    *)
(* child; with no receiver (parallel_connections = 0) it returns Err, and  *)
(* spin and Server::run return it.                                         *)
SendStartup ==
  /\ parentPc = "startup"
  /\ \/ /\ Subscribers # {}
        /\ startupSent' = TRUE
        /\ parentPc' = "wait"
     \/ /\ Subscribers = {}
        /\ parentPc' = "failed"
        /\ UNCHANGED startupSent
  /\ UNCHANGED <<env, shutdown, pc, chan, slot, maxDetected, lastSent,
                 failures, producer>>

(* UnixDatagram::spin: shutdown.recv() returns. *)
ParentShutdown ==
  /\ parentPc = "wait"
  /\ shutdown
  /\ parentPc' = "join"
  /\ UNCHANGED <<env, startupSent, shutdown, pc, chan, slot, maxDetected,
                 lastSent, failures, producer>>

ParentJoin ==
  /\ parentPc = "join"
  /\ \A c \in Spawned : Ended(c)
  /\ parentPc' = IF \E c \in Spawned : pc[c] = "error" THEN "failed" ELSE "done"
  /\ UNCHANGED <<env, startupSent, shutdown, pc, chan, slot, maxDetected,
                 lastSent, failures, producer>>

(* The process driver fires the shutdown Phase, once. *)
FireShutdown ==
  /\ ~shutdown
  /\ shutdown' = TRUE
  /\ UNCHANGED <<env, parentPc, startupSent, pc, chan, slot, maxDetected,
                 lastSent, failures, producer>>

-----------------------------------------------------------------------------
(* Child::spin, one action per step between suspension points.            *)

\* Mutant of ChildStartup: a closed broadcast is waited on like an open one.
ChildStartupIgnoresClose(c) ==
  /\ pc[c] = "startup"
  /\ \/ /\ startupSent
        /\ pc' = [pc EXCEPT ![c] = "connect"]
     \/ /\ startupSent /\ env.ioMayFail
        /\ pc' = [pc EXCEPT ![c] = "error"]
     \/ /\ parentPc = "failed"
        /\ UNCHANGED pc
  /\ UNCHANGED <<env, parentPc, startupSent, shutdown, chan, slot, maxDetected,
                 lastSent, failures, producer>>

\* startup_receiver.recv().await returns once the parent has broadcast, and
\* UnixDatagram::unbound() creates the socket; an error of either ends the
\* child through ?.  If new failed, the sender is gone and recv returns
\* Closed.
ChildStartup(c) ==
  /\ pc[c] = "startup"
  /\ \/ /\ startupSent
        /\ pc' = [pc EXCEPT ![c] = "connect"]
     \/ /\ startupSent /\ env.ioMayFail
        /\ pc' = [pc EXCEPT ![c] = "error"]
     \/ /\ parentPc = "failed"
        /\ pc' = [pc EXCEPT ![c] = "error"]
  /\ UNCHANGED <<env, parentPc, startupSent, shutdown, chan, slot, maxDetected,
                 lastSent, failures, producer>>

\* One pass of the connect loop.  On success the block cache is moved into
\* an OS thread feeding a fresh channel, and max_detected_bytes starts at
\* usize::MAX; if the thread cannot be spawned, ? ends the child (the cache
\* and the channel are dropped unused).  On failure the child counts it and
\* sleeps a second.  The loop does not look at the shutdown signal.
Connect(c) ==
  /\ pc[c] = "connect"
  /\ \/ /\ pc' = [pc EXCEPT ![c] = "peek"]
        /\ producer' = [producer EXCEPT ![c] = "running"]
        /\ maxDetected' = [maxDetected EXCEPT ![c] = UsizeMax]
     \/ /\ env.ioMayFail
        /\ pc' = [pc EXCEPT ![c] = "error"]
        /\ UNCHANGED <<producer, maxDetected>>
     \/ /\ env.connectMayFail
        /\ pc' = [pc EXCEPT ![c] = "sleep"]
        /\ UNCHANGED <<env, producer, maxDetected>>
  /\ UNCHANGED <<env, parentPc, startupSent, shutdown, chan, slot, lastSent,
                 failures>>

\* tokio::time::sleep(1s) after a failed connect, then try again.
ConnectRetry(c) ==
  /\ pc[c] = "sleep"
  /\ pc' = [pc EXCEPT ![c] = "connect"]
  /\ UNCHANGED <<env, parentPc, startupSent, shutdown, chan, slot, maxDetected,
                 lastSent, failures, producer>>

\* rcv.peek().await, then either skip a block above the learned ceiling
\* (rcv.next() and continue, without looking at shutdown) or go on to the
\* select with the block held by the receiver.
Peek(c) ==
  /\ pc[c] = "peek"
  /\ CanPeek(c)
  /\ \/ /\ Peeked(c) > maxDetected[c]
        /\ PeekTake(c)
        /\ UNCHANGED pc
     \/ /\ Peeked(c) <= maxDetected[c]
        /\ PeekHold(c)
        /\ pc' = [pc EXCEPT ![c] = "select"]
  /\ UNCHANGED <<env, parentPc, startupSent, shutdown, maxDetected,
                 lastSent, failures, producer>>

\* The select: throttle.wait_for(total_bytes) completes first.  The block
\* has not been taken yet; the handler that follows is not raced with
\* shutdown.
ThrottleGrant(c) ==
  /\ pc[c] = "select"
  /\ pc' = [pc EXCEPT ![c] = "send"]
  /\ UNCHANGED <<env, parentPc, startupSent, shutdown, chan, slot, maxDetected,
                 lastSent, failures, producer>>

\* The select: shutdown.recv() completes first; the child returns Ok and the
\* block stays in the receiver.
ChildShutdown(c) ==
  /\ pc[c] = "select"
  /\ shutdown
  /\ pc' = [pc EXCEPT ![c] = "done"]
  /\ UNCHANGED <<env, parentPc, startupSent, shutdown, chan, slot, maxDetected,
                 lastSent, failures, producer>>

\* The throttle branch's handler: rcv.next(), then socket.send().  A failed
\* send, whatever its cause, sets max_detected_bytes to len - 1 and counts a
\* request_failure; a partial datagram is never retried.
SendBlock(c) ==
  /\ pc[c] = "send"
  /\ TakeNext(c)
  /\ lastSent' = [lastSent EXCEPT ![c] = Taken(c)]
  /\ pc' = [pc EXCEPT ![c] = "peek"]
  /\ \/ /\ SendMaySucceed(Taken(c))
        /\ UNCHANGED <<env, maxDetected, failures>>
     \/ /\ SendMayFail(Taken(c))
        /\ maxDetected' = [maxDetected EXCEPT ![c] = LearnedCeiling(Taken(c))]
        /\ failures' = [failures EXCEPT ![c][Taken(c)] = Bump(@)]
  /\ UNCHANGED <<env, parentPc, startupSent, shutdown, producer>>

-----------------------------------------------------------------------------
(* The block cache thread (Cache::spin, spec 4.D): push a block of some    *)
(* size, blocking while the channel is full; stop once the receiver is     *)
(* dropped, which happens when the child returns.                          *)
\* Mutant of Produce: an unbounded channel.
ProduceUnbounded(c, s) ==
  /\ producer[c] = "running"
  /\ pc[c] # "done"
  /\ chan' = [chan EXCEPT ![c] = Append(@, s)]
  /\ UNCHANGED <<env, parentPc, startupSent, shutdown, pc, slot, maxDetected,
                 lastSent, failures, producer>>

Produce(c, s) ==
  /\ producer[c] = "running"
  /\ pc[c] # "done"
  /\ Len(chan[c]) < ChannelCapacity
  /\ chan' = [chan EXCEPT ![c] = Append(@, s)]
  /\ UNCHANGED <<env, parentPc, startupSent, shutdown, pc, slot, maxDetected,
                 lastSent, failures, producer>>

\* Mutant of ProducerExit: a producer blocked on a full channel is not woken
\* when the receiver is dropped.
ProducerExitNeedsRoom(c) ==
  /\ producer[c] = "running"
  /\ pc[c] = "done"
  /\ IF Len(chan[c]) < ChannelCapacity
       THEN /\ producer' = [producer EXCEPT ![c] = "exited"]
            /\ chan' = [chan EXCEPT ![c] = <<>>]
            /\ slot' = [slot EXCEPT ![c] = NoBlock]
       ELSE UNCHANGED <<producer, chan, slot>>
  /\ UNCHANGED <<env, parentPc, startupSent, shutdown, pc, maxDetected,
                 lastSent, failures>>

ProducerExit(c) ==
  /\ producer[c] = "running"
  /\ pc[c] = "done"
  /\ producer' = [producer EXCEPT ![c] = "exited"]
  /\ chan' = [chan EXCEPT ![c] = <<>>]
  /\ slot' = [slot EXCEPT ![c] = NoBlock]
  /\ UNCHANGED <<env, parentPc, startupSent, shutdown, pc, maxDetected,
                 lastSent, failures>>

-----------------------------------------------------------------------------
ChildNext(c) ==
  \/ ChildStartup(c) \/ Connect(c) \/ ConnectRetry(c) \/ Peek(c)
  \/ ThrottleGrant(c) \/ ChildShutdown(c) \/ SendBlock(c)

\* Every task has returned (or new failed and its children have seen it):
\* the system stays put.
Stopped ==
  /\ parentPc \in {"done", "failed"}
  /\ \A c \in Spawned : Ended(c)
  /\ \A c \in Children : producer[c] # "running"

Terminated ==
  /\ Stopped
  /\ \A c \in Children : producer[c] # "running"
  /\ UNCHANGED vars

Next ==
  \/ Terminated
  \/ \E c \in Children : SpawnChild(c)
  \/ NewFails \/ NewReturn
  \/ Run \/ SendStartup \/ ParentShutdown \/ ParentJoin \/ FireShutdown
  \/ \E c \in Children : ChildNext(c)
  \/ \E c \in Children, s \in BlockSizes : Produce(c, s)
  \/ \E c \in Children : ProducerExit(c)

(* Every task is scheduled when it can run (weak fairness).  tokio::select!  *)
(* polls its ready branches in random order, so a child that keeps reaching *)
(* the select after shutdown eventually takes the shutdown branch (strong    *)
(* fairness).  BlockSizes are the sizes the cache yields again and again:    *)
(* a Streaming cache draws every block anew, uniformly over the configured  *)
(* sizes; a Fixed cache replays one cycle of blocks, and BlockSizes is then *)
(* the set of sizes in that cycle.  Either way each size is produced again  *)
(* whenever the channel keeps getting room (strong fairness per size).  The *)
(* driver is not obliged to fire shutdown.  new is synchronous: once begun  *)
(* it returns.                                                              *)
Fairness ==
  /\ WF_vars(NewReturn) /\ \A c \in Children : WF_vars(SpawnChild(c))
  /\ WF_vars(Run) /\ WF_vars(SendStartup) /\ WF_vars(ParentShutdown)
  /\ WF_vars(ParentJoin)
  /\ \A c \in Children :
       /\ WF_vars(ChildStartup(c)) /\ WF_vars(Connect(c))
       /\ WF_vars(ConnectRetry(c)) /\ WF_vars(Peek(c))
       /\ WF_vars(ThrottleGrant(c)) /\ SF_vars(ChildShutdown(c))
       /\ WF_vars(SendBlock(c)) /\ WF_vars(ProducerExit(c))
       /\ \A s \in BlockSizes : SF_vars(Produce(c, s))

Spec == Init /\ [][Next]_vars /\ Fairness

-----------------------------------------------------------------------------
TypeOK ==
  /\ parentPc \in {"new", "failed", "run", "startup", "wait", "join", "done"}
  /\ startupSent \in BOOLEAN /\ shutdown \in BOOLEAN
  /\ pc \in [Children -> {"unspawned", "startup", "connect", "error", "sleep", "peek", "select", "send", "done"}]
  /\ chan \in [Children -> Seq(BlockSizes)]
  /\ \A c \in Children : Len(chan[c]) <= ChannelCapacity
  /\ slot \in [Children -> BlockSizes \cup {NoBlock}]
  /\ maxDetected \in [Children -> 0..UsizeMax]
  /\ lastSent \in [Children -> BlockSizes \cup {NoBlock}]
  /\ failures \in [Children -> [BlockSizes -> 0..FailureCap]]
  /\ producer \in [Children -> {"idle", "running", "exited"}]
  /\ env \in Environments

-----------------------------------------------------------------------------
(* Properties of the adaptive datagram ceiling (spec 4.G).                 *)

\* A failed send becomes a policy, not a recurring error: no child has a
\* block of the same size fail twice, whatever the interleaving of skips,
\* throttle waits and producer pushes.
NoRecurringRejection ==
  \A c \in Children, s \in BlockSizes : failures[c][s] <= 1

\* The ceiling the child learns never drops below what the kernel really
\* accepts, so no block the socket would take is ever skipped.
CeilingSound ==
  \A c \in Children : maxDetected[c] >= KernelLimit

\* The same, where the socket fails only on oversized datagrams (the case
\* the ceiling logic is written for): every interleaving of skips, pushes
\* and throttle waits keeps the learned ceiling at or above the limit.
CeilingSoundOnSizeErrors ==
  ~env.transientErrors => CeilingSound

(* Shutdown (spec 4.H): every child leaves its loop, the parent's join     *)
(* returns and every block cache thread stops.                             *)
ShutdownTerminates ==
  shutdown ~> Stopped

\* The environments in which a child can always get back to its select:
\* the target socket exists, sends fail only for size, and the cache
\* yields some block the kernel accepts.  Otherwise the connect loop
\* (line 220) or the skip loop (lines 254-257) may never end.
Reachable ==
  /\ ~env.connectMayFail /\ ~env.transientErrors
  /\ \E s \in BlockSizes : s <= KernelLimit

(* Where the target socket exists, sends fail only for size and some block *)
(* the cache yields fits the kernel limit, shutdown completes: after the   *)
(* first oversized send lowers the ceiling, the skip path keeps passing    *)
(* oversized blocks, and the child still comes back to the select, where  *)
(* shutdown is seen; then the parent's join returns and every cache thread *)
(* stops.  (A failed new counts as stopped once its children have ended.)  *)
ShutdownTerminatesWhenSomeBlockFits ==
  Reachable => ShutdownTerminates

(* Refinement (spec 4.D, 4.E).  A child's slot and channel together are    *)
(* the FIFO of BlockStream; its receiver is dropped when the cache thread  *)
(* exits.                                                                  *)
Buffered(c) == IF slot[c] # NoBlock THEN <<slot[c]>> \o chan[c] ELSE chan[c]

Stream == INSTANCE BlockStream WITH
  queue <- [c \in Children |-> Buffered(c)],
  open <- [c \in Children |-> producer[c] # "exited"],
  sent <- lastSent,
  None <- NoBlock

(* Peek-then-commit keeps the block stream a FIFO: every skip and every    *)
(* send in Peek and SendBlock consumes the oldest block the cache thread   *)
(* produced, once, however the thread's pushes interleave with the peek,   *)
(* the throttle wait and next().                                           *)
BlockStreamRefined == Stream!Spec

(* Construction failure (UnixDatagram::new, Server::new): the children     *)
(* spawned before the failing ? are detached, and each of them, waiting on *)
(* the startup broadcast, ends once the dropped sender closes it; none is  *)
(* left parked on a broadcast that will never come.                        *)
NewFailureReleasesChildren ==
  parentPc = "failed" ~> \A c \in Spawned : Ended(c)


=============================================================================
