--------------------------- MODULE MC_UnixDatagram ---------------------------
(* Instantiates UnixDatagram for TLC: two children, two block sizes on     *)
(* either side of the kernel limit, a channel of two blocks.               *)
EXTENDS UnixDatagram, TLC

CONSTANTS c1, c2

MCChildren == {c1, c2}
MCBlockSizes == {2, 4}
MCKernelLimit == 3
MCChannelCapacity == 2
MCUsizeMax == 9

\* Environments of two connections: a reliable socket where building a
\* block cache and a child's own I/O setup may fail (which allows every
\* behaviour of the fully reliable environment), and one whose target
\* socket may be absent and whose sends may fail for any reason; and a
\* reliable one configured with parallel_connections = 0.  MCFaulty: connect
\* and send failures only; MCTransientOnly: transient send errors only.
MCReliableOrFaulty ==
  {[connectMayFail |-> FALSE, transientErrors |-> FALSE, buildMayFail |-> TRUE,
    ioMayFail |-> TRUE, connections |-> 2],
   [connectMayFail |-> TRUE, transientErrors |-> TRUE, buildMayFail |-> FALSE,
    ioMayFail |-> FALSE, connections |-> 2],
   [connectMayFail |-> FALSE, transientErrors |-> FALSE, buildMayFail |-> FALSE,
    ioMayFail |-> FALSE, connections |-> 0]}
MCFaulty ==
  {[connectMayFail |-> TRUE, transientErrors |-> TRUE, buildMayFail |-> FALSE,
    ioMayFail |-> FALSE, connections |-> 2]}
MCTransientOnly ==
  {[connectMayFail |-> FALSE, transientErrors |-> TRUE, buildMayFail |-> FALSE,
    ioMayFail |-> FALSE, connections |-> 2]}

\* Children are interchangeable: safety runs may use symmetry.
ChildSymmetry == Permutations(MCChildren)
=============================================================================
