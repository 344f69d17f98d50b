----------------------------- MODULE MCConsumer -----------------------------
\* Model-checking instance of Consumer: two partitions, say of the topics
\* ingest and reindex.
EXTENDS Consumer

CONSTANTS p1, p2, docA, docB, docC, bad

MCPartitions == {p1, p2}

\* docA comes twice in one partition, docC once.
MCLog == [p \in MCPartitions |-> IF p = p1 THEN <<docA, docA>> ELSE <<bad, docC>>]

\* The same document in both topics.
SharedLog == [p \in MCPartitions |-> <<docB>>]
=============================================================================
