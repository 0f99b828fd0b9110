---------------------- MODULE PlannerLifecycle_proofs ----------------------
(***************************************************************************)
(* Theorems about PlannerLifecycle, for any number of processes, Plans and *)
(* turns.                                                                  *)
(***************************************************************************)
EXTENDS PlannerLifecycle, TLAPS

USE LifecycleAssumption

Candidates == Plan \cup {NoPlan}
Outcome == [kind : {"none", "response", "error"}, plan : Candidates]
Graph == [waiting : BOOLEAN, candidate : Candidates, outcome : Outcome,
          segment : 0 .. MaxSegments]

\* The outcome puts its Plan on view.
Presents(outcome) == outcome.kind # "error" /\ outcome.plan # NoPlan

\* Where the candidate of process s comes from: it is the Plan on view, it was on
\* view when the turn began, or the outcome about to be shown presents it.
CandidateFollowsView(s) ==
    LET candidate == graph[s].candidate IN
    /\ phase[s] = "admitting" => candidate # NoPlan
    /\ candidate # NoPlan =>
           /\ phase[s] = "rest" => shown[s] = candidate
           /\ phase[s] \in {"planning", "admitting"} =>
                  shown[s] = candidate /\ heard[s] = candidate
           /\ phase[s] = "emitting" =>
                  IF Presents(graph[s].outcome) THEN graph[s].outcome.plan = candidate
                  ELSE shown[s] = candidate

\* A graph that waits has a response to wait with, and one that ends with a
\* candidate ends in an error.
EndsAwaited(s) ==
    /\ graph[s].waiting => graph[s].outcome.kind = "response"
    /\ phase[s] \in {"rest", "emitting"} /\ graph[s].candidate # NoPlan =>
           graph[s].waiting \/ graph[s].outcome.kind = "error"

\* A turn in progress holds at most the last segment the model produced.
Told(s, n) == history[s] = [i \in 1 .. n |-> i]
HistoryFollowsSpeech(s) ==
    /\ phase[s] = "rest" => Told(s, spoken[s])
    /\ phase[s] = "planning" => Told(s, spoken[s]) /\ spoken[s] < MaxSegments
    /\ phase[s] \in {"admitting", "emitting"} =>
           \/ graph[s].segment = NoSegment /\ Told(s, spoken[s])
           \/ /\ graph[s].segment = spoken[s] /\ spoken[s] # 0
              /\ Told(s, spoken[s] - 1)

Turn(s) == CandidateFollowsView(s) /\ EndsAwaited(s) /\ HistoryFollowsSpeech(s)

IInv == TypeOK /\ ActivePlansAreStored /\ \A s \in Planner : Turn(s)

-----------------------------------------------------------------------------
\* The initial state satisfies the invariant.
LEMMA Initially == Init => IInv
<1> SUFFICES ASSUME Init PROVE IInv
  OBVIOUS
<1>1. TypeOK
  BY DEF Init, TypeOK, NewGraph, NoOutcome, NoSegment
<1>2. ActivePlansAreStored
  BY DEF Init, ActivePlansAreStored
<1>3. ASSUME NEW s \in Planner PROVE Turn(s)
  <2>1. phase[s] = "rest" /\ graph[s] = NewGraph /\ spoken[s] = 0 /\ history[s] = <<>>
    BY DEF Init
  <2>2. Told(s, 0)
    BY <2>1 DEF Told
  <2> QED
    BY <2>1, <2>2 DEF Turn, CandidateFollowsView, EndsAwaited, HistoryFollowsSpeech,
                      NewGraph, NoOutcome
<1> QED
  BY <1>1, <1>2, <1>3 DEF IInv

\* A step that touches only process s keeps the turns of the others.
LEMMA OthersKeepTurn ==
    ASSUME IInv, NEW s \in Planner,
           \A t \in Planner \ {s} :
               /\ phase'[t] = phase[t] /\ graph'[t] = graph[t] /\ history'[t] = history[t]
               /\ spoken'[t] = spoken[t] /\ shown'[t] = shown[t] /\ heard'[t] = heard[t]
    PROVE  \A t \in Planner \ {s} : Turn(t)'
  BY DEF IInv, Turn, CandidateFollowsView, EndsAwaited, HistoryFollowsSpeech, Told, Presents

\* Telling the next segment.
LEMMA TellNext ==
    ASSUME NEW n \in Nat, n # 0
    PROVE  Append([i \in 1 .. n - 1 |-> i], n) = [i \in 1 .. n |-> i]
<1> DEFINE old == [i \in 1 .. n - 1 |-> i]
           new == [i \in 1 .. n |-> i]
<1>1. old \in Seq(Nat) /\ Len(old) = n - 1
  OBVIOUS
<1>2. new \in Seq(Nat) /\ Len(new) = n
  OBVIOUS
<1>3. Append(old, n) \in Seq(Nat) /\ Len(Append(old, n)) = n
  BY <1>1
<1>4. \A i \in 1 .. n : Append(old, n)[i] = new[i]
  BY <1>1
<1> QED
  BY <1>2, <1>3, <1>4

-----------------------------------------------------------------------------
\* Submit begins a turn with the candidate of the last one.
LEMMA SubmitStep ==
    ASSUME IInv, NEW s \in Planner, Submit(s)
    PROVE  IInv'
<1>0. graph[s] \in Graph /\ shown[s] \in Candidates /\ spoken[s] \in 0 .. MaxSegments
  BY DEF IInv, TypeOK, Graph, Outcome, Candidates
<1>1. ActivePlan(s) \in Candidates
  BY DEF IInv, TypeOK, ActivePlan, Candidates
<1>2. /\ graph'[s] \in Graph
      /\ graph'[s].candidate = graph[s].candidate
      /\ ~graph'[s].waiting
  <2>1. CASE graph[s].waiting
    <3>1. graph'[s] = [NewGraph EXCEPT !.candidate = graph[s].candidate]
      BY <2>1 DEF IInv, TypeOK, Submit
    <3>2. graph'[s] = [waiting |-> FALSE, candidate |-> graph[s].candidate,
                       outcome |-> NoOutcome, segment |-> 0]
      BY <3>1 DEF NewGraph, NoSegment
    <3>3. NoOutcome \in Outcome /\ graph[s].candidate \in Candidates /\ 0 \in 0 .. MaxSegments
      BY <1>0 DEF NoOutcome, Outcome, Candidates, Graph
    <3> QED
      BY <3>2, <3>3 DEF Graph
  <2>2. CASE ~graph[s].waiting
    <3>1. graph'[s] = graph[s]
      BY <2>2 DEF IInv, TypeOK, Submit
    <3> QED
      BY <1>0, <2>2, <3>1
  <2> QED
    BY <2>1, <2>2
<1>3. TypeOK'
  BY <1>0, <1>1, <1>2 DEF IInv, TypeOK, Submit, database, Graph, Outcome, Candidates
<1>4. ActivePlansAreStored'
  BY DEF IInv, ActivePlansAreStored, Submit, database
<1>5. Turn(s)'
  BY <1>0, <1>2 DEF IInv, TypeOK, Submit, database, Turn, CandidateFollowsView, EndsAwaited,
     HistoryFollowsSpeech, Told
<1>6. \A t \in Planner \ {s} : Turn(t)'
  BY OthersKeepTurn DEF IInv, TypeOK, Submit, database
<1> QED
  BY <1>3, <1>4, <1>5, <1>6 DEF IInv

\* What plan_or_answer may leave for the rest of the turn to be in order.
SoundConclusion(s, candidate, outcome, segment, waiting, next) ==
    /\ candidate \in Candidates /\ outcome \in Outcome /\ waiting \in BOOLEAN
    /\ next \in {"admitting", "emitting"}
    /\ \/ segment = NoSegment /\ spoken' = spoken
       \/ segment = spoken[s] + 1 /\ spoken' = [spoken EXCEPT ![s] = @ + 1]
    /\ next = "admitting" => candidate # NoPlan /\ candidate = graph[s].candidate
    /\ next = "emitting" /\ candidate # NoPlan =>
           /\ waiting \/ outcome.kind = "error"
           /\ IF Presents(outcome) THEN outcome.plan = candidate
              ELSE candidate = graph[s].candidate
    /\ waiting => outcome.kind = "response"

\* Every sound conclusion keeps the invariant.
LEMMA ConcludeStep ==
    ASSUME IInv, NEW s \in Planner, NEW candidate, NEW outcome, NEW segment, NEW waiting,
           NEW next, Conclude(s, candidate, outcome, segment, waiting, next),
           SoundConclusion(s, candidate, outcome, segment, waiting, next)
    PROVE  IInv'
<1>0. /\ spoken[s] \in 0 .. MaxSegments /\ phase[s] = "planning"
      /\ spoken[s] < MaxSegments /\ Told(s, spoken[s])
      /\ shown[s] \in Candidates /\ graph[s] \in Graph
  BY DEF IInv, TypeOK, Turn, HistoryFollowsSpeech, Conclude, Candidates, Graph, Outcome
<1>1. /\ segment \in 0 .. MaxSegments
      /\ spoken' \in [Planner -> 0 .. MaxSegments]
      /\ \/ segment = NoSegment /\ spoken'[s] = spoken[s]
         \/ segment = spoken[s] + 1 /\ spoken'[s] = spoken[s] + 1
      /\ \A t \in Planner \ {s} : spoken'[t] = spoken[t]
  <2>0. spoken \in [Planner -> 0 .. MaxSegments]
    BY DEF IInv, TypeOK
  <2>1. CASE segment = NoSegment /\ spoken' = spoken
    BY <2>0, <2>1 DEF NoSegment
  <2>2. CASE segment = spoken[s] + 1 /\ spoken' = [spoken EXCEPT ![s] = @ + 1]
    <3>1. segment \in 0 .. MaxSegments
      BY <1>0, <2>2
    <3>2. spoken' = [spoken EXCEPT ![s] = segment]
      BY <2>2
    <3> QED
      BY <2>0, <2>2, <3>1, <3>2
  <2> QED
    BY <2>1, <2>2 DEF SoundConclusion
<1>2. /\ graph'[s].waiting = waiting /\ graph'[s].candidate = candidate
      /\ graph'[s].outcome = outcome /\ graph'[s].segment = segment
      /\ graph'[s] \in Graph /\ phase'[s] = next
  <2>1. graph'[s] = [waiting |-> waiting, candidate |-> candidate,
                     outcome |-> outcome, segment |-> segment]
    BY DEF Conclude, IInv, TypeOK
  <2>2. phase'[s] = next
    BY DEF Conclude, IInv, TypeOK
  <2>3. /\ waiting \in BOOLEAN /\ candidate \in Candidates /\ outcome \in Outcome
        /\ segment \in 0 .. MaxSegments
    BY <1>1 DEF SoundConclusion
  <2> QED
    BY <2>1, <2>2, <2>3 DEF Graph
<1>3. TypeOK'
  <2>1. phase' \in [Planner -> {"rest", "planning", "admitting", "emitting"}]
    BY DEF IInv, TypeOK, Conclude, SoundConclusion
  <2>2. graph' \in [Planner -> Graph]
    BY <1>2 DEF IInv, TypeOK, Conclude, Graph, Outcome, Candidates
  <2> QED
    BY <1>1, <2>1, <2>2 DEF IInv, TypeOK, Conclude, database, Graph, Outcome, Candidates
<1>4. ActivePlansAreStored'
  BY DEF IInv, ActivePlansAreStored, Conclude, database
<1>5. Turn(s)'
  <2>1. CandidateFollowsView(s)'
    BY <1>0, <1>2 DEF IInv, Turn, CandidateFollowsView, Conclude, SoundConclusion, Presents
  <2>2. EndsAwaited(s)'
    BY <1>2 DEF EndsAwaited, SoundConclusion
  <2>3. HistoryFollowsSpeech(s)'
    BY <1>0, <1>1, <1>2 DEF HistoryFollowsSpeech, SoundConclusion, Conclude, Told, NoSegment
  <2> QED
    BY <2>1, <2>2, <2>3 DEF Turn
<1>6. \A t \in Planner \ {s} : Turn(t)'
  BY <1>1, OthersKeepTurn DEF IInv, TypeOK, Conclude, database
<1> QED
  BY <1>3, <1>4, <1>5, <1>6 DEF IInv

\* Each branch of plan_or_answer is a sound conclusion.
LEMMA PlanOrAnswerStep ==
    ASSUME IInv, NEW s \in Planner, PlanOrAnswer(s)
    PROVE  IInv'
<1> USE DEF SoundConclusion, Silent, Speaks, Presents
<1>0. graph[s].candidate \in Candidates /\ graph[s].outcome \in Outcome /\ graph[s] \in Graph
  BY DEF IInv, TypeOK, Graph, Outcome, Candidates
<1>1. /\ NoPlan \in Candidates /\ Plan \subseteq Candidates
      /\ Error \in Outcome /\ Error.kind = "error" /\ Error.plan = NoPlan
      /\ Response \in Outcome /\ Response.kind = "response" /\ Response.plan = NoPlan
  BY DEF Candidates, Outcome, Error, Response, Proposal
<1>2. \A p \in Plan : /\ Proposal(p) \in Outcome /\ Proposal(p).kind = "response"
                      /\ Proposal(p).plan = p
  BY DEF Candidates, Outcome, Proposal
<1>3. graph[s].waiting = FALSE \/ graph[s].outcome.kind = "response"
  BY DEF IInv, Turn, EndsAwaited, TypeOK
<1>4. CASE ModelFails(s)
  <2>1. SoundConclusion(s, graph[s].candidate, Error, NoSegment, FALSE, "emitting")
    BY <1>0, <1>1, <1>4 DEF ModelFails
  <2> QED
    BY <1>4, <2>1, ConcludeStep DEF ModelFails
<1>5. CASE RefuseResult(s)
  <2>1. SoundConclusion(s, NoPlan, Error, NoSegment, FALSE, "emitting")
    BY <1>0, <1>1, <1>5 DEF RefuseResult
  <2> QED
    BY <1>5, <2>1, ConcludeStep DEF RefuseResult
<1>6. ASSUME NEW p \in Plan, ProposePlan(s, p) PROVE IInv'
  <2>1. SoundConclusion(s, p, Proposal(p), spoken[s] + 1, TRUE, "emitting")
    BY <1>1, <1>2, <1>6 DEF ProposePlan
  <2> QED
    BY <1>6, <2>1, ConcludeStep DEF ProposePlan
<1>7. CASE AuthorizeCandidate(s)
  <2>1. SoundConclusion(s, graph[s].candidate, graph[s].outcome, spoken[s] + 1, FALSE,
                        "admitting")
    BY <1>0, <1>7 DEF AuthorizeCandidate
  <2> QED
    BY <1>7, <2>1, ConcludeStep DEF AuthorizeCandidate
<1>8. CASE ContinueActive(s) \/ DiscardCandidate(s)
  <2>1. SoundConclusion(s, NoPlan, Response, spoken[s] + 1, FALSE, "emitting")
    BY <1>1, <1>8 DEF ContinueActive, DiscardCandidate
  <2> QED
    BY <1>8, <2>1, ConcludeStep DEF ContinueActive, DiscardCandidate
<1>9. ASSUME NEW ask \in BOOLEAN, Answer(s, ask) PROVE IInv'
  <2> DEFINE wait == ask \/ graph[s].candidate # NoPlan
  <2>1. SoundConclusion(s, graph[s].candidate, Response, spoken[s] + 1, wait, "emitting")
    BY <1>0, <1>1, <1>9 DEF Answer
  <2>2. Conclude(s, graph[s].candidate, Response, spoken[s] + 1, wait, "emitting")
    BY <1>9 DEF Answer
  <2> QED
    BY <2>1, <2>2, ConcludeStep
<1> QED
  BY <1>4, <1>5, <1>6, <1>7, <1>8, <1>9 DEF PlanOrAnswer

-----------------------------------------------------------------------------
\* The end of an admission: a candidate is kept only with an error.
LEMMA EndAdmissionStep ==
    ASSUME IInv, NEW s \in Planner, phase[s] = "admitting",
           NEW candidate \in {NoPlan, graph[s].candidate}, NEW outcome \in {Response, Error},
           candidate # NoPlan => outcome = Error,
           EndAdmission(s, candidate, outcome),
           plans' \subseteq Plan, objectives' \subseteq Objective,
           active' \in [ObjectiveId -> Candidates],
           ActivePlansAreStored'
    PROVE  IInv'
<1>0. /\ graph[s] \in Graph /\ shown[s] \in Candidates /\ NoPlan \in Candidates
      /\ Error \in Outcome /\ Error.kind = "error" /\ Error.plan = NoPlan
      /\ Response \in Outcome /\ Response.kind = "response" /\ Response.plan = NoPlan
  BY DEF IInv, TypeOK, Candidates, Graph, Outcome, Error, Response, Proposal
<1>1. /\ graph'[s] = [waiting |-> FALSE, candidate |-> candidate,
                      outcome |-> outcome, segment |-> graph[s].segment]
      /\ phase'[s] = "emitting"
  BY DEF EndAdmission, IInv, TypeOK
<1>2. graph'[s] \in Graph
  <2>1. candidate \in Candidates /\ outcome \in Outcome /\ graph[s].segment \in 0 .. MaxSegments
    BY <1>0 DEF Graph
  <2> QED
    BY <1>1, <2>1 DEF Graph
<1>3. TypeOK'
  <2>1. graph' \in [Planner -> Graph]
    BY <1>2 DEF IInv, TypeOK, EndAdmission, Graph, Outcome, Candidates
  <2> QED
    BY <2>1 DEF IInv, TypeOK, EndAdmission, Graph, Outcome, Candidates
<1>4. Turn(s)'
  <2>1. CandidateFollowsView(s)'
    BY <1>0, <1>1 DEF IInv, Turn, CandidateFollowsView, EndAdmission, Presents
  <2>2. EndsAwaited(s)'
    BY <1>0, <1>1 DEF EndsAwaited
  <2>3. HistoryFollowsSpeech(s)'
    BY <1>1 DEF IInv, Turn, HistoryFollowsSpeech, EndAdmission, Told
  <2> QED
    BY <2>1, <2>2, <2>3 DEF Turn
<1>5. \A t \in Planner \ {s} : Turn(t)'
  BY OthersKeepTurn DEF IInv, TypeOK, EndAdmission
<1> QED
  BY <1>3, <1>4, <1>5 DEF IInv

\* Admission stores one Plan whose identities are free or its own.
LEMMA AdmitStep ==
    ASSUME IInv, NEW s \in Planner, AdmitCandidate(s)
    PROVE  IInv'
<1> DEFINE p == graph[s].candidate
<1>1. p \in Plan /\ phase[s] = "admitting" /\ Admissible(p)
  BY DEF IInv, TypeOK, Turn, CandidateFollowsView, AdmitCandidate
<1>2. ObjectiveOf[p] \in Objective /\ ObjectiveIdOf[ObjectiveOf[p]] \in ObjectiveId
  BY <1>1
<1>3. /\ plans' = plans \cup {p} /\ objectives' = objectives \cup {ObjectiveOf[p]}
      /\ active' = [active EXCEPT ![ObjectiveIdOf[ObjectiveOf[p]]] = p]
      /\ EndAdmission(s, NoPlan, Response)
  BY DEF AdmitCandidate
<1>4. /\ plans' \subseteq Plan /\ objectives' \subseteq Objective
      /\ active' \in [ObjectiveId -> Candidates]
  BY <1>1, <1>2, <1>3 DEF IInv, TypeOK, Candidates
<1>5. ActivePlansAreStored'
  <2>1. \A i \in ObjectiveId : active'[i] # NoPlan =>
            /\ active'[i] \in plans'
            /\ ObjectiveIdOf[ObjectiveOf[active'[i]]] = i
    BY <1>2, <1>3 DEF IInv, TypeOK, ActivePlansAreStored
  <2>2. \A x, y \in plans' : IdOf[x] = IdOf[y] => x = y
    BY <1>1, <1>3 DEF IInv, ActivePlansAreStored, Admissible
  <2>3. \A x \in plans' : ObjectiveOf[x] \in objectives'
    BY <1>3 DEF IInv, ActivePlansAreStored
  <2>4. \A o, u \in objectives' : ObjectiveIdOf[o] = ObjectiveIdOf[u] => o = u
    BY <1>1, <1>3 DEF IInv, ActivePlansAreStored, Admissible
  <2> QED
    BY <2>1, <2>2, <2>3, <2>4 DEF ActivePlansAreStored
<1> QED
  BY <1>1, <1>3, <1>4, <1>5, EndAdmissionStep

\* A refused admission keeps the candidate and the database.
LEMMA RefuseStep ==
    ASSUME IInv, NEW s \in Planner, RefuseCandidate(s)
    PROVE  IInv'
<1>1. phase[s] = "admitting" /\ EndAdmission(s, graph[s].candidate, Error)
  BY DEF RefuseCandidate
<1>2. /\ plans' \subseteq Plan /\ objectives' \subseteq Objective
      /\ active' \in [ObjectiveId -> Candidates]
      /\ ActivePlansAreStored'
  BY DEF IInv, TypeOK, RefuseCandidate, database, Candidates, ActivePlansAreStored
<1> QED
  BY <1>1, <1>2, EndAdmissionStep

\* Emit tells the segment the turn holds, and shows the Plan of its outcome.
LEMMA EmitStep ==
    ASSUME IInv, NEW s \in Planner, Emit(s)
    PROVE  IInv'
<1>0. /\ phase[s] = "emitting" /\ graph[s] \in Graph /\ shown[s] \in Candidates
      /\ spoken[s] \in 0 .. MaxSegments /\ history[s] \in Seq(1 .. MaxSegments)
      /\ HistoryFollowsSpeech(s)
  BY DEF IInv, TypeOK, Turn, Emit, Candidates, Graph, Outcome
<1>1. /\ phase'[s] = "rest" /\ graph' = graph /\ spoken' = spoken
      /\ shown'[s] = IF Presents(graph[s].outcome) THEN graph[s].outcome.plan ELSE shown[s]
      /\ \A t \in Planner \ {s} : shown'[t] = shown[t]
  BY DEF Emit, IInv, TypeOK, Presents
<1>2. /\ history'[s] = [i \in 1 .. spoken[s] |-> i]
      /\ history' \in [Planner -> Seq(1 .. MaxSegments)]
      /\ \A t \in Planner \ {s} : history'[t] = history[t]
  <2>1. CASE graph[s].segment = NoSegment
    <3>1. history' = history
      BY <2>1 DEF Emit
    <3> QED
      BY <1>0, <2>1, <3>1 DEF IInv, TypeOK, HistoryFollowsSpeech, Told, NoSegment
  <2>2. CASE graph[s].segment # NoSegment
    <3>1. /\ graph[s].segment = spoken[s] /\ spoken[s] # 0
          /\ history[s] = [i \in 1 .. spoken[s] - 1 |-> i]
      BY <1>0, <2>2 DEF HistoryFollowsSpeech, Told
    <3>2. history' = [history EXCEPT ![s] = Append(history[s], spoken[s])]
      BY <2>2, <3>1 DEF Emit
    <3>3. Append(history[s], spoken[s]) = [i \in 1 .. spoken[s] |-> i]
      BY <1>0, <3>1, TellNext
    <3>4. Append(history[s], spoken[s]) \in Seq(1 .. MaxSegments)
      BY <1>0, <3>1
    <3> QED
      BY <3>2, <3>3, <3>4 DEF IInv, TypeOK
  <2> QED
    BY <2>1, <2>2
<1>3. TypeOK'
  <2>1. shown' \in [Planner -> Candidates]
    BY <1>0 DEF IInv, TypeOK, Emit, Graph, Outcome, Candidates
  <2> QED
    BY <1>2, <2>1 DEF IInv, TypeOK, Emit, database, Candidates
<1>4. ActivePlansAreStored'
  BY DEF IInv, ActivePlansAreStored, Emit, database
<1>5. Turn(s)'
  <2>1. CandidateFollowsView(s)'
    BY <1>0, <1>1 DEF IInv, Turn, CandidateFollowsView
  <2>2. EndsAwaited(s)'
    BY <1>0, <1>1 DEF IInv, Turn, EndsAwaited
  <2>3. HistoryFollowsSpeech(s)'
    BY <1>1, <1>2 DEF HistoryFollowsSpeech, Told
  <2> QED
    BY <2>1, <2>2, <2>3 DEF Turn
<1>6. \A t \in Planner \ {s} : Turn(t)'
  BY <1>1, <1>2, OthersKeepTurn DEF IInv, TypeOK, Emit
<1> QED
  BY <1>3, <1>4, <1>5, <1>6 DEF IInv

\* A process that starts again knows nothing of the turns before.
LEMMA RestartStep ==
    ASSUME IInv, NEW s \in Planner, Restart(s)
    PROVE  IInv'
<1>1. /\ phase'[s] = "rest" /\ graph'[s] = NewGraph /\ history'[s] = <<>>
      /\ spoken'[s] = 0 /\ shown'[s] = NoPlan /\ heard'[s] = NoPlan
  BY DEF IInv, TypeOK, Restart
<1>2. NewGraph \in Graph
  <2>1. NoOutcome \in Outcome /\ NoPlan \in Candidates /\ NoSegment \in 0 .. MaxSegments
    BY DEF NoOutcome, Outcome, Candidates, NoSegment
  <2> QED
    BY <2>1 DEF NewGraph, Graph
<1>3. TypeOK'
  <2>1. graph' \in [Planner -> Graph]
    BY <1>2 DEF IInv, TypeOK, Restart, Graph, Outcome, Candidates
  <2> QED
    BY <2>1 DEF IInv, TypeOK, Restart, database, Graph, Outcome, Candidates
<1>4. ActivePlansAreStored'
  BY DEF IInv, ActivePlansAreStored, Restart, database
<1>5. Turn(s)'
  <2>1. history'[s] = [i \in 1 .. 0 |-> i]
    BY <1>1
  <2> QED
    BY <1>1, <2>1 DEF Turn, CandidateFollowsView, EndsAwaited, HistoryFollowsSpeech, Told,
                      NewGraph, NoOutcome
<1>6. \A t \in Planner \ {s} : Turn(t)'
  BY OthersKeepTurn DEF IInv, TypeOK, Restart
<1> QED
  BY <1>3, <1>4, <1>5, <1>6 DEF IInv

\* A step that changes nothing a turn or the database is made of.
LEMMA StutterStep ==
    ASSUME IInv, UNCHANGED <<phase, graph, context, history, plans, objectives, active,
                             spoken, shown, heard>>,
           frame' \in [Planner -> Objective \cup {NoObjective}]
    PROVE  IInv'
<1>1. TypeOK'
  BY DEF IInv, TypeOK
<1>2. ActivePlansAreStored'
  BY DEF IInv, ActivePlansAreStored
<1>3. \A s \in Planner : Turn(s)'
  BY DEF IInv, Turn, CandidateFollowsView, EndsAwaited, HistoryFollowsSpeech, Told, Presents
<1> QED
  BY <1>1, <1>2, <1>3 DEF IInv

-----------------------------------------------------------------------------
\* The strengthened invariant: where the candidate of each process comes from,
\* how turns end, and what the history holds while a turn is in progress.
THEOREM Inductive == Spec => []IInv
<1>1. IInv /\ [Next]_vars => IInv'
  <2> SUFFICES ASSUME IInv, [Next]_vars PROVE IInv'
    OBVIOUS
  <2>1. CASE UNCHANGED vars
    <3>1. frame' \in [Planner -> Objective \cup {NoObjective}]
      BY <2>1 DEF vars, IInv, TypeOK
    <3> QED
      BY <2>1, <3>1, StutterStep DEF vars, database
  <2>2. ASSUME NEW s \in Planner, NEW objective \in Objective \cup {NoObjective},
               SaveFrame(s, objective)
        PROVE  IInv'
    <3>1. frame' \in [Planner -> Objective \cup {NoObjective}]
      BY <2>2 DEF SaveFrame, IInv, TypeOK
    <3> QED
      BY <2>2, <3>1, StutterStep DEF SaveFrame, database
  <2> QED
    BY <2>1, <2>2, SubmitStep, PlanOrAnswerStep, AdmitStep, RefuseStep, EmitStep, RestartStep
       DEF Next
<1> QED
  BY <1>1, Initially, PTL DEF Spec

\* Every reachable state of the turns and the database is well typed.
THEOREM Typing == Spec => []TypeOK
<1>1. IInv => TypeOK
  BY DEF IInv
<1> QED
  BY <1>1, Inductive, PTL

\* A candidate kept between turns is the Plan the Human saw last (plan_or_answer,
\* await_human, submit_message).
THEOREM ViewSafety == Spec => []CandidateIsOnView
<1>1. IInv => CandidateIsOnView
  BY DEF IInv, Turn, CandidateFollowsView, CandidateIsOnView
<1> QED
  BY <1>1, Inductive, PTL

\* Between turns a candidate is either awaited or was left by an error.
THEOREM WaitSafety == Spec => []CandidateIsAwaited
<1>1. IInv => CandidateIsAwaited
  BY DEF IInv, Turn, EndsAwaited, CandidateIsAwaited
<1> QED
  BY <1>1, Inductive, PTL

\* An active Plan is stored for the exact Objective, and identities are unique
\* (PlanAdmissionService.admit, ActivePlanRepository.activate).
THEOREM ActivePlans == Spec => []ActivePlansAreStored
<1>1. IInv => ActivePlansAreStored
  BY DEF IInv
<1> QED
  BY <1>1, Inductive, PTL

\* Segments of completed turns are committed exactly once, in order.
THEOREM HistoryIsExact == Spec => []SegmentsCommittedOnce
<1>1. IInv => SegmentsCommittedOnce
  BY DEF IInv, Turn, HistoryFollowsSpeech, Told, SegmentsCommittedOnce
<1> QED
  BY <1>1, Inductive, PTL

\* Only the Plan that was on view when the Human authorized it is stored.
THEOREM AdmissionOfShown == Spec => AdmitsWhatWasShown
<1> DEFINE Shown == \A p \in plans' \ plans :
                        \E s \in Planner : phase[s] = "admitting" /\ heard[s] = p
<1>1. IInv /\ [Next]_vars => [Shown]_vars
  <2> SUFFICES ASSUME IInv, [Next]_vars, NEW p \in plans' \ plans
               PROVE  \E s \in Planner : phase[s] = "admitting" /\ heard[s] = p
    OBVIOUS
  <2>1. PICK s \in Planner : AdmitCandidate(s)
    BY DEF Next, vars, database, Submit, PlanOrAnswer, Conclude, ModelFails, RefuseResult,
           ProposePlan, AuthorizeCandidate, ContinueActive, DiscardCandidate, Answer,
           RefuseCandidate, Emit, SaveFrame, Restart
  <2>2. p = graph[s].candidate /\ phase[s] = "admitting"
    BY <2>1 DEF AdmitCandidate
  <2>3. heard[s] = p
    BY <2>2 DEF IInv, Turn, CandidateFollowsView
  <2> QED
    BY <2>2, <2>3
<1> QED
  BY <1>1, Inductive, PTL DEF Spec, AdmitsWhatWasShown
=============================================================================
