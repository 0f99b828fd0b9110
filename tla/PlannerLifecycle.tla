-------------------------- MODULE PlannerLifecycle --------------------------
(***************************************************************************)
(* One conversation turn of the Planner, from the Human message to what is *)
(* shown for it: Application.submit_message, Planner.handle_message and    *)
(* the nodes of the Planner graph with their checkpoint.  Several Planner  *)
(* processes share one database, where a retained candidate is admitted    *)
(* and becomes the active Plan of its Objective; the checkpoint and the    *)
(* conversation live in the process and end with it.                       *)
(***************************************************************************)
EXTENDS Naturals, Sequences

CONSTANTS
    Planner,        \* Planner processes
    Plan,           \* exact Plan contents
    PlanId,
    Objective,      \* exact Objective contents
    ObjectiveId,
    IdOf,           \* plan_id of a Plan
    ObjectiveOf,    \* the exact Objective a Plan is for
    ObjectiveIdOf,  \* objective_id of an Objective
    MaxSegments,    \* bound on the model results one process turns into segments
    NoPlan, NoObjective

ASSUME LifecycleAssumption ==
    /\ IdOf \in [Plan -> PlanId]
    /\ ObjectiveOf \in [Plan -> Objective]
    /\ ObjectiveIdOf \in [Objective -> ObjectiveId]
    /\ MaxSegments \in Nat
    /\ NoPlan \notin Plan
    /\ NoObjective \notin Objective

VARIABLES
    phase,       \* where each process stands in its turn
    graph,       \* the checkpointed PlannerState of each process
    context,     \* active_plan of the PlannerContext made for the turn in progress
    frame,       \* objective of each process's current SessionFrame
    history,     \* ConversationHistory: the segments committed, in order
    plans,       \* the plans table
    objectives,  \* the objectives table
    active,      \* the active_plans table
    spoken,      \* history: how many segments the model has produced
    shown,       \* history: the Plan last proposed to the Human
    heard        \* history: the Plan on view when the turn's message was sent

database == <<plans, objectives, active>>
vars == <<phase, graph, context, frame, history, database, spoken, shown, heard>>

NoSegment == 0
NoOutcome == [kind |-> "none", plan |-> NoPlan]
Proposal(p) == [kind |-> "response", plan |-> p]
Response == Proposal(NoPlan)
Error == [kind |-> "error", plan |-> NoPlan]

NewGraph == [waiting |-> FALSE, candidate |-> NoPlan, outcome |-> NoOutcome,
             segment |-> NoSegment]

TypeOK ==
    /\ phase \in [Planner -> {"rest", "planning", "admitting", "emitting"}]
    /\ graph \in [Planner ->
           [waiting : BOOLEAN, candidate : Plan \cup {NoPlan},
            outcome : [kind : {"none", "response", "error"}, plan : Plan \cup {NoPlan}],
            segment : 0 .. MaxSegments]]
    /\ context \in [Planner -> Plan \cup {NoPlan}]
    /\ frame \in [Planner -> Objective \cup {NoObjective}]
    /\ history \in [Planner -> Seq(1 .. MaxSegments)]
    /\ plans \subseteq Plan
    /\ objectives \subseteq Objective
    /\ active \in [ObjectiveId -> Plan \cup {NoPlan}]
    /\ spoken \in [Planner -> 0 .. MaxSegments]
    /\ shown \in [Planner -> Plan \cup {NoPlan}]
    /\ heard \in [Planner -> Plan \cup {NoPlan}]

Init ==
    /\ phase = [s \in Planner |-> "rest"]
    /\ graph = [s \in Planner |-> NewGraph]
    /\ context = [s \in Planner |-> NoPlan]
    /\ frame = [s \in Planner |-> NoObjective]
    /\ history = [s \in Planner |-> <<>>]
    /\ plans = {}
    /\ objectives = {}
    /\ active = [i \in ObjectiveId |-> NoPlan]
    /\ spoken = [s \in Planner |-> 0]
    /\ shown = [s \in Planner |-> NoPlan]
    /\ heard = [s \in Planner |-> NoPlan]

-----------------------------------------------------------------------------
\* The active Plan of the frame's Objective.
ActivePlan(s) == IF frame[s] = NoObjective THEN NoPlan ELSE active[ObjectiveIdOf[frame[s]]]

\* build_planner_context refuses an active Plan for other Objective content.
ContextMaterializes(s) == ActivePlan(s) # NoPlan => ObjectiveOf[ActivePlan(s)] = frame[s]

\* submit_message up to the model's answer: an interrupted graph resumes in
\* await_human, which clears the last outcome and segment; otherwise the graph
\* starts afresh on the checkpoint as it is.
Submit(s) ==
    /\ phase[s] = "rest"
    /\ spoken[s] < MaxSegments
    /\ ContextMaterializes(s)
    /\ context' = [context EXCEPT ![s] = ActivePlan(s)]
    /\ graph' = [graph EXCEPT ![s] =
           IF @.waiting THEN [NewGraph EXCEPT !.candidate = graph[s].candidate] ELSE @]
    /\ heard' = [heard EXCEPT ![s] = shown[s]]
    /\ phase' = [phase EXCEPT ![s] = "planning"]
    /\ UNCHANGED <<frame, history, database, spoken, shown>>

\* What plan_or_answer leaves in the checkpoint, and the node it goes to: nothing
\* it says of the candidate, outcome and segment is kept from before.
Conclude(s, candidate, outcome, segment, waiting, next) ==
    /\ phase[s] = "planning"
    /\ graph' = [graph EXCEPT ![s] = [waiting |-> waiting, candidate |-> candidate,
                                      outcome |-> outcome, segment |-> segment]]
    /\ phase' = [phase EXCEPT ![s] = next]
    /\ UNCHANGED <<context, frame, history, database, shown, heard>>

\* A result the model produced and the context allows has a segment of its own.
Speaks(s) == spoken' = [spoken EXCEPT ![s] = @ + 1]
Silent == UNCHANGED spoken

\* Seeded fault: a failed turn does not clear the segment.
ModelFailsKeepingSegment(s) ==
    /\ Conclude(s, graph[s].candidate, Error, graph[s].segment, FALSE, "emitting")
    /\ Silent

\* The model is unavailable, or its result is invalid for the context.
ModelFails(s) ==
    /\ Conclude(s, graph[s].candidate, Error, NoSegment, FALSE, "emitting")
    /\ Silent

\* discard_candidate without a candidate, continue_execution without a Plan.
RefuseResult(s) ==
    /\ graph[s].candidate = NoPlan
    /\ Conclude(s, NoPlan, Error, NoSegment, FALSE, "emitting")
    /\ Silent

\* Seeded faults: a new Plan does not replace the candidate; a new Plan goes to
\* admission without a review.
ProposeKeepingCandidate(s, p) ==
    /\ Conclude(s, IF graph[s].candidate = NoPlan THEN p ELSE graph[s].candidate,
                Proposal(p), spoken[s] + 1, TRUE, "emitting")
    /\ Speaks(s)

ProposeAndAdmit(s, p) ==
    /\ Conclude(s, p, Proposal(p), spoken[s] + 1, FALSE, "admitting")
    /\ Speaks(s)

ProposePlan(s, p) ==
    /\ Conclude(s, p, Proposal(p), spoken[s] + 1, TRUE, "emitting")
    /\ Speaks(s)

\* Authorized: the retained candidate goes to admission, the outcome is not set.
AuthorizeCandidate(s) ==
    /\ graph[s].candidate # NoPlan
    /\ Conclude(s, graph[s].candidate, graph[s].outcome, spoken[s] + 1, FALSE, "admitting")
    /\ Speaks(s)

ContinueActive(s) ==
    /\ graph[s].candidate = NoPlan
    /\ context[s] # NoPlan
    /\ Conclude(s, NoPlan, Response, spoken[s] + 1, FALSE, "emitting")
    /\ Speaks(s)

DiscardCandidate(s) ==
    /\ graph[s].candidate # NoPlan
    /\ Conclude(s, NoPlan, Response, spoken[s] + 1, FALSE, "emitting")
    /\ Speaks(s)

\* Seeded fault: only a question makes the graph wait.
AnswerAndEnd(s, ask) ==
    /\ Conclude(s, graph[s].candidate, Response, spoken[s] + 1, ask, "emitting")
    /\ Speaks(s)

\* A response or a question: the Human is awaited if asked, or if a candidate is
\* retained.
Answer(s, ask) ==
    /\ Conclude(s, graph[s].candidate, Response, spoken[s] + 1,
                ask \/ graph[s].candidate # NoPlan, "emitting")
    /\ Speaks(s)

-----------------------------------------------------------------------------
\* Seeded fault: the content of the admitted Objective is not compared.
AdmissibleIdentity(p) == \A q \in plans : IdOf[q] # IdOf[p]

\* Admission needs a plan_id that is not in use, and an Objective that is new or
\* the one admitted. It may also be refused for what is not modelled here.
Admissible(p) ==
    /\ \A q \in plans : IdOf[q] # IdOf[p]
    /\ \A o \in objectives : ObjectiveIdOf[o] = ObjectiveIdOf[ObjectiveOf[p]] =>
           o = ObjectiveOf[p]

EndAdmission(s, candidate, outcome) ==
    /\ graph' = [graph EXCEPT ![s] = [waiting |-> FALSE, candidate |-> candidate,
                                      outcome |-> outcome, segment |-> graph[s].segment]]
    /\ phase' = [phase EXCEPT ![s] = "emitting"]
    /\ UNCHANGED <<context, frame, history, spoken, shown, heard>>

\* PlanAdmissionService.admit: the Plan is stored and made the active one of its
\* Objective, in one transaction.
AdmitCandidate(s) ==
    LET p == graph[s].candidate IN
    /\ phase[s] = "admitting"
    /\ Admissible(p)
    /\ plans' = plans \cup {p}
    /\ objectives' = objectives \cup {ObjectiveOf[p]}
    /\ active' = [active EXCEPT ![ObjectiveIdOf[ObjectiveOf[p]]] = p]
    /\ EndAdmission(s, NoPlan, Response)

RefuseCandidate(s) ==
    /\ phase[s] = "admitting"
    /\ EndAdmission(s, graph[s].candidate, Error)
    /\ UNCHANGED database

-----------------------------------------------------------------------------
\* Seeded fault: a segment is committed for a turn that has none.
EmitAlways(s) ==
    /\ phase[s] = "emitting"
    /\ history' = [history EXCEPT ![s] = Append(@, graph[s].segment)]
    /\ phase' = [phase EXCEPT ![s] = "rest"]
    /\ context' = [context EXCEPT ![s] = NoPlan]
    /\ heard' = [heard EXCEPT ![s] = NoPlan]
    /\ UNCHANGED <<graph, frame, database, spoken, shown>>

\* The rest of submit_message: the segment the graph returned is committed, then
\* the outcome is shown.
Emit(s) ==
    LET outcome == graph[s].outcome IN
    /\ phase[s] = "emitting"
    /\ history' = IF graph[s].segment = NoSegment THEN history
                  ELSE [history EXCEPT ![s] = Append(@, graph[s].segment)]
    /\ shown' = IF outcome.kind # "error" /\ outcome.plan # NoPlan
                THEN [shown EXCEPT ![s] = outcome.plan] ELSE shown
    /\ phase' = [phase EXCEPT ![s] = "rest"]
    /\ context' = [context EXCEPT ![s] = NoPlan]
    /\ heard' = [heard EXCEPT ![s] = NoPlan]
    /\ UNCHANGED <<graph, frame, database, spoken>>

\* SessionFrameRepository.save_current between turns.
SaveFrame(s, objective) ==
    /\ phase[s] = "rest"
    /\ frame' = [frame EXCEPT ![s] = objective]
    /\ UNCHANGED <<phase, graph, context, history, database, spoken, shown, heard>>

\* The process ends, at any point, and the next one opens a session of its own.
Restart(s) ==
    /\ phase' = [phase EXCEPT ![s] = "rest"]
    /\ graph' = [graph EXCEPT ![s] = NewGraph]
    /\ context' = [context EXCEPT ![s] = NoPlan]
    /\ frame' = [frame EXCEPT ![s] = NoObjective]
    /\ history' = [history EXCEPT ![s] = <<>>]
    /\ spoken' = [spoken EXCEPT ![s] = 0]
    /\ shown' = [shown EXCEPT ![s] = NoPlan]
    /\ heard' = [heard EXCEPT ![s] = NoPlan]
    /\ UNCHANGED database

PlanOrAnswer(s) ==
    \/ ModelFails(s)
    \/ RefuseResult(s)
    \/ \E p \in Plan : ProposePlan(s, p)
    \/ AuthorizeCandidate(s)
    \/ ContinueActive(s)
    \/ DiscardCandidate(s)
    \/ \E ask \in BOOLEAN : Answer(s, ask)

Next ==
    \E s \in Planner :
        \/ Submit(s)
        \/ PlanOrAnswer(s)
        \/ AdmitCandidate(s)
        \/ RefuseCandidate(s)
        \/ Emit(s)
        \/ \E objective \in Objective \cup {NoObjective} : SaveFrame(s, objective)
        \/ Restart(s)

Spec == Init /\ [][Next]_vars

-----------------------------------------------------------------------------
(***************************************************************************)
(* What must hold.                                                         *)
(***************************************************************************)

\* The exact Plan visible to the Human is the one activated: a Plan is stored
\* only by a process whose Human had that Plan on view when sending the message
\* that authorized it, whatever was proposed, refused or discarded before.
AdmitsWhatWasShown ==
    [][\A p \in plans' \ plans :
          \E s \in Planner : phase[s] = "admitting" /\ heard[s] = p]_vars

\* A candidate kept between turns is the Plan the Human saw last.
CandidateIsOnView ==
    \A s \in Planner :
        phase[s] = "rest" /\ graph[s].candidate # NoPlan => shown[s] = graph[s].candidate

\* Between turns the graph either waits for the Human, with an outcome to say
\* why, or holds no candidate, unless the last turn ended in an error.
CandidateIsAwaited ==
    \A s \in Planner :
        /\ graph[s].waiting => graph[s].outcome.kind = "response"
        /\ phase[s] = "rest" /\ graph[s].candidate # NoPlan =>
               graph[s].waiting \/ graph[s].outcome.kind = "error"

\* However processes race and restart, an active Plan is stored, for the exact
\* Objective that is stored, and no two stored Plans share their plan_id.
ActivePlansAreStored ==
    /\ \A i \in ObjectiveId : active[i] # NoPlan =>
           /\ active[i] \in plans
           /\ ObjectiveIdOf[ObjectiveOf[active[i]]] = i
    /\ \A p, q \in plans : IdOf[p] = IdOf[q] => p = q
    /\ \A p \in plans : ObjectiveOf[p] \in objectives
    /\ \A o, u \in objectives : ObjectiveIdOf[o] = ObjectiveIdOf[u] => o = u

\* The segments of completed turns are committed to the history exactly once, in
\* order, those of failed admissions included and those of failed turns not.
SegmentsCommittedOnce ==
    \A s \in Planner : phase[s] = "rest" => history[s] = [i \in 1 .. spoken[s] |-> i]
=============================================================================
