-------------------------- MODULE OperationLedger --------------------------
(***************************************************************************)
(* What the commit boundary promises of PlannerOperations, with no rows    *)
(* for their states, no sessions and no failures: objects appear in whole  *)
(* batches, each object from one operation that no review is missing for,  *)
(* and an attempt only together with its dispatch intent.                  *)
(***************************************************************************)
CONSTANTS
    Operation, Kind,
    NeedsReview, \* the operations that wait for a reviewer's approval
    IntentOf,   \* the run operation each outbox operation matches
    Object

VARIABLES
    approved,   \* operations somebody approved
    source,     \* <<operation, id>> for every object an operation made
    objects     \* ids of the objects of each kind

ledgerVars == <<approved, source, objects>>

\* The kinds of operation that make an object, each in a table of its own.
Maker == {"create_assumption", "create_execution_run", "create_execution_outbox"}

LedgerInit ==
    /\ approved = {}
    /\ source = {}
    /\ objects = [k \in Maker |-> {}]

Approve(S) ==
    /\ approved' = approved \cup S
    /\ UNCHANGED <<source, objects>>

\* A batch makes assumptions, or it is one attempt with its intent.
WellFormed(batch, id) ==
    \/ \A o \in batch : Kind[o] = "create_assumption"
    \/ \E b \in DOMAIN IntentOf : /\ batch = {b, IntentOf[b]}
                                  /\ Kind[b] = "create_execution_outbox"
                                  /\ Kind[IntentOf[b]] = "create_execution_run"
                                  /\ id[b] = id[IntentOf[b]]

Apply(batch, id) ==
    /\ WellFormed(batch, id)
    /\ \A o \in batch : /\ NeedsReview[o] => o \in approved
                        /\ id[o] \notin objects[Kind[o]]
    /\ \A o, p \in batch : Kind[o] = Kind[p] /\ id[o] = id[p] => o = p
    /\ source' = source \cup {<<o, id[o]>> : o \in batch}
    /\ objects' = [k \in Maker |->
                      objects[k] \cup {id[o] : o \in {p \in batch : Kind[p] = k}}]
    /\ UNCHANGED approved

LedgerNext ==
    \/ \E S \in SUBSET Operation : Approve(S)
    \/ \E batch \in SUBSET Operation : \E id \in [batch -> Object] : Apply(batch, id)

LedgerSpec == LedgerInit /\ [][LedgerNext]_ledgerVars

=============================================================================
