--------------------------- MODULE MCRpcFrames ---------------------------
EXTENDS RpcFrames

Piece(parts, count, declared) ==
  [chunked |-> TRUE, parts |-> parts, count |-> count, declared |-> declared]
Whole(bytes) ==
  [chunked |-> FALSE, parts |-> <<bytes>>, count |-> 1, declared |-> bytes]

\* Sound ones first; then too long a line, too short and too long a sequence,
\* one above the limits, one with a payload above the cap, one of a single
\* chunk, one that never ends, and one with a chunk more than it announces.
MCShapes == {Whole(1), Piece(<<1, 1, 1>>, 3, 3),
             Whole(5), Piece(<<1, 1>>, 2, 3), Piece(<<2, 2, 1>>, 3, 3),
             Piece(<<2, 2, 2, 2>>, 4, 8),
             Piece(<<3, 1>>, 2, 4), Piece(<<2>>, 1, 3), Piece(<<1, 2>>, 3, 4),
             Piece(<<1, 2, 1>>, 2, 3)}

\* The last is refused: its reassembly limit is below its frame limit.
MCAdvertised == {[frame |-> 4, reassembled |-> 6],
                 [frame |-> 2, reassembled |-> 3],
                 [frame |-> 4, reassembled |-> 3]}
===========================================================================
