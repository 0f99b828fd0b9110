-------------------------- MODULE MCPlannerCommit --------------------------
(* Values of the constants of PlannerCommit for TLC.                       *)
EXTENDS PlannerCommit, TLC

CONSTANTS named, twin, unnamed, other, runOp, boxOp, x, f1, f2, att, s1, s2, c1, c2, v1

\* Two operations that create the assumption x, the second proposed as approved, one
\* whose payload names no id, one of a kind no commit can apply, and an execution
\* admission pair.
MCKind == [o \in Operation |-> CASE o = runOp -> "create_execution_run"
                                 [] o = boxOp -> "create_execution_outbox"
                                 [] o = other -> "unsupported"
                                 [] OTHER -> "create_assumption"]
MCNamed == [o \in Operation |-> CASE o \in {named, twin} -> x
                                  [] o \in {runOp, boxOp} -> att
                                  [] OTHER -> NoObject]
MCNeedsApproval == [o \in Operation |-> o \notin {runOp, boxOp}]
MCGivenState == [o \in Operation |-> IF o = twin THEN "approved" ELSE "pending"]
MCSessionOf == [o \in Operation |-> IF o = twin THEN s2 ELSE s1]
MCIntentOf == [o \in Operation \cap {boxOp} |-> runOp]
MCByCreation == SelectSeq(<<runOp, named, unnamed, twin, boxOp, other>>,
                          LAMBDA o : o \in Operation)
MCIdLists == {ids \in {<<named, unnamed>>, <<unnamed>>, <<unnamed, unnamed>>, <<twin>>,
                       <<runOp, boxOp>>, <<named, other>>, <<named, runOp, boxOp>>} :
                 Range(ids) \subseteq Operation}

MCSymmetry == Permutations(Committer) \cup Permutations(Fresh)
=============================================================================
