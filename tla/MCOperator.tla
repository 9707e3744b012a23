----------------------------- MODULE MCOperator -----------------------------
(***************************************************************************)
(* Small clusters for Operator.                                            *)
(***************************************************************************)
EXTENDS Operator

CONSTANTS t1, t2

Size(t, w) == [tmpl |-> t, masters |-> 1, workers |-> w]

Scenario(specs, changes, deleting, failures, deletions, scalings) ==
    [specs |-> specs, maxEdits |-> changes, deletes |-> deleting, maxFaults |-> failures,
     maxDrift |-> deletions, maxScale |-> scalings]

\* A resource is deleted and created again; new images with faults; unusable
\* specs and a lost child; an edit around scaling.
MCScenarios ==
    <<Scenario({Size(t1, 1)}, 3, TRUE, 0, 0, 0),
      Scenario({Size(t1, 1), Size(t2, 1)}, 2, FALSE, 1, 0, 0),
      Scenario({Size(Broken, 1), Size(NoImage, 1)}, 2, TRUE, 0, 1, 0),
      Scenario({Size(t1, 0), Size(t2, 1)}, 2, FALSE, 0, 1, 1)>>
=============================================================================
