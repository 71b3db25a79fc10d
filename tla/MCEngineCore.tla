---------------------------- MODULE MCEngineCore ----------------------------
(* EngineCore on small instances.  Requests and executors are numbers; an  *)
(* instance is chosen by the definitions its configuration file names.     *)
EXTENDS EngineService, FiniteSetsExt

CONSTANTS NumRequests, NumExecutors

MCRequests == 1 .. NumRequests
MCExecutors == 11 .. 10 + NumExecutors
MCArrivalTime == [r \in MCRequests |-> r]
MCMaxTokens == 3

SumOver(tokens) == [S \in SUBSET MCRequests |-> MapThenSumSet(LAMBDA r : tokens[r], S)]

\* Request 2 is as large as the other two together.
MixedTokens == [r \in MCRequests |-> IF r = 2 THEN 2 ELSE 1]
MixedTotal == SumOver(MixedTokens)

\* Requests 1 and 2 do not fit in one batch, each leaves room for a small one.
TwoLargeTokens == [r \in MCRequests |-> IF r <= 2 THEN 2 ELSE 1]
TwoLargeTotal == SumOver(TwoLargeTokens)

\* Request 1 takes two denoising blocks, the others one.
MCOutputLength == [r \in MCRequests |-> IF r = 1 THEN 4 ELSE 2]
OneBlockLength == [r \in MCRequests |-> 2]

\* Executors with larger ids have a higher tensor-parallel degree: a larger
\* constant cost and a smaller cost per token.
CrossingLatency ==
    [e \in MCExecutors |-> [n \in 0 .. 2 * MCMaxTokens |->
        CASE e = 11 -> 1 + 3 * n [] e = 12 -> 3 + 2 * n [] OTHER -> 4 + n]]

\* Executor 11 is faster at every batch size.
FastFirstLatency ==
    [e \in MCExecutors |-> [n \in 0 .. 2 * MCMaxTokens |-> IF e = 11 THEN n ELSE 5 + n]]

\* The KV cache holds two full batches.
AmpleKVCapacity == [e \in MCExecutors |-> 2 * MCMaxTokens]
=============================================================================
