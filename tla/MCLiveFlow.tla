----------------------------- MODULE MCLiveFlow -----------------------------
(***************************************************************************)
(* Small instances of LiveFlow.                                            *)
(***************************************************************************)
EXTENDS LiveFlow, TLC

CONSTANTS c1, c2, obj, other, r1, r2

Scenario(posts, runs, events, sends, others) ==
    [posts |-> posts, runs |-> runs, maxEvents |-> events, maxSendFaults |-> sends,
     maxFaults |-> others]

\* Faults of the consumers, over two runs and over two batches; of the producer;
\* two requests at a time.
MCScenarios ==
    <<Scenario({c1}, {r1, r2}, 2, 0, 2),
      Scenario({c1}, {r1}, 3, 0, 1),
      Scenario({c1}, {r1, r2}, 2, 2, 0),
      Scenario({c1, c2}, {}, 2, 2, 0)>>
=============================================================================
