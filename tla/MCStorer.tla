------------------------------ MODULE MCStorer ------------------------------
\* Model-checking instance of Storer: two versions that share a block, and a
\* third that parses to no block at all.
EXTENDS Storer

CONSTANTS w1, b1, b2, b3, h1, h2, h3

OneWorker  == {w1}
MCBlocks   == {b1, b2, b3}
MCHashes   == {h1, h2, h3}
MCBlocksOf == [h \in MCHashes |-> CASE h = h1 -> {b1, b2} [] h = h2 -> {b2, b3} [] h = h3 -> {}]
=============================================================================
