----------------------------- MODULE BlockStream -----------------------------
(***************************************************************************)
(* What the block supply of a UDS child promises (spec 4.D, 4.E): per      *)
(* child, a FIFO of the blocks its cache thread has produced and the child *)
(* has not yet consumed.  The child consumes the oldest block, either      *)
(* handing it to the socket or skipping it; nothing is consumed twice or   *)
(* out of order.  Dropping the receiver closes the stream and discards     *)
(* what it still holds; a closed stream takes and yields nothing.          *)
(***************************************************************************)
EXTENDS Sequences

CONSTANTS
  Children,    \* the child tasks
  BlockSizes,  \* the blocks, abstracted to their sizes
  None         \* no block has been handed to the socket yet

VARIABLES
  queue,  \* queue[c]: blocks produced for c and not yet consumed, oldest first
  open,   \* open[c]: c's receiver has not been dropped
  sent    \* sent[c]: the block c last handed to the socket, or None

vars == <<queue, open, sent>>

Init ==
  /\ queue = [c \in Children |-> <<>>]
  /\ open = [c \in Children |-> TRUE]
  /\ sent = [c \in Children |-> None]

\* The cache thread appends a block.
Push(c, s) ==
  /\ open[c]
  /\ queue' = [queue EXCEPT ![c] = Append(@, s)]
  /\ UNCHANGED <<open, sent>>

\* The child hands the oldest block to the socket.
Deliver(c) ==
  /\ open[c] /\ queue[c] # <<>>
  /\ sent' = [sent EXCEPT ![c] = Head(queue[c])]
  /\ queue' = [queue EXCEPT ![c] = Tail(@)]
  /\ UNCHANGED open

\* The child skips the oldest block.
Discard(c) ==
  /\ open[c] /\ queue[c] # <<>>
  /\ queue' = [queue EXCEPT ![c] = Tail(@)]
  /\ UNCHANGED <<open, sent>>

\* The receiver is dropped: the stream closes and its blocks are lost.
Close(c) ==
  /\ open[c]
  /\ open' = [open EXCEPT ![c] = FALSE]
  /\ queue' = [queue EXCEPT ![c] = <<>>]
  /\ UNCHANGED sent

Next ==
  \E c \in Children :
    \/ \E s \in BlockSizes : Push(c, s)
    \/ Deliver(c) \/ Discard(c) \/ Close(c)

Spec == Init /\ [][Next]_vars
=============================================================================
