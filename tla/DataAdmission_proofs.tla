------------------------ MODULE DataAdmission_proofs ------------------------
(***************************************************************************)
(* Proofs about DataAdmission, for any datasets, requests, works, profile  *)
(* identities and sessions.                                                *)
(*                                                                         *)
(* The argument: a result never changes once its work ended, and a profile *)
(* or a binding never changes once stored, so what an admission found when *)
(* it validated a result is still so when it inserts the Evidence, and the *)
(* identity of the Evidence is a function of the work.  Evidence that      *)
(* callers store can only make an admission fail: what an admission        *)
(* answers for is the row it has compared with its own Evidence.           *)
(***************************************************************************)
EXTENDS DataAdmission, TLAPS

Contents == {Profile[b] : b \in Dataset}
Bindings == [path : Path, digest : Dataset]

TablesOK ==
    /\ db = [tasks |-> db.tasks, profiles |-> db.profiles, bindings |-> db.bindings,
             evidence |-> db.evidence]
    /\ db.tasks \in [Task -> Status \cup {Absent}]
    /\ db.profiles \in [ProfileId -> Contents \cup {Absent}]
    /\ db.bindings \in [ProfileId -> Bindings \cup {Absent}]

\* What a work holds is of one reading of the file.
WorkOK ==
    /\ file \in [Path -> Dataset \cup {Absent}]
    /\ work = [w \in Work |-> work[w]]
    /\ \A w \in Work :
           /\ work[w].status \in {"not_run", "planning", "succeeded", "failed", "blocked"}
           /\ work[w].status = "planning" =>
                  /\ work[w].request \in Request
                  /\ work[w].request.task \in DataTask
                  /\ work[w].dataset \in Dataset \ Unreadable
           /\ work[w].status = "succeeded" =>
                  /\ work[w].request \in Request
                  /\ work[w].request.task \in DataTask
                  /\ work[w].path = work[w].request.path
                  /\ work[w].operation \in Operation \cup {"dataset_profile"}
                  /\ work[w].digest \in Dataset \ Unreadable
                  /\ work[w].request.profile # Absent =>
                         work[w].observation = Observed(work[w].operation, work[w].digest)

\* A result that may become Evidence, but for the status of its Task.
Admissible(w) == work[w].status = "succeeded" /\ ProfileMatches(w)

EvidenceOK ==
    /\ \A e \in db.evidence : e.task \in Task /\ e.profile \in ProfileId
    /\ \A e, f \in db.evidence : e.evidence_id = f.evidence_id => e = f
    /\ \A e \in Admitted : e.work \in Work /\ e = EvidenceOf(e.work) /\ Admissible(e.work)

SessionOK(s) ==
    \/ session[s] = Idle
    \/ /\ session[s].phase = "profile"
       /\ session[s].candidate \in Candidate
       /\ session[s].newProfile \in BOOLEAN
       /\ ~session[s].newProfile =>
              db.profiles[session[s].candidate.id] = session[s].candidate.content
    \/ /\ session[s].phase = "staged"
       /\ session[s].candidate \in Candidate
       /\ db.profiles[session[s].candidate.id] = Absent
       /\ MayWrite(s)
    \/ /\ session[s].phase \in {"evidence", "added"}
       /\ session[s].work \in Work
       /\ Admissible(session[s].work)
    \/ /\ session[s].phase = "raw"
       /\ session[s].evidence \in RawEvidence
       /\ db.profiles[session[s].evidence.profile] # Absent

SessionsOK ==
    /\ session = [s \in Session |-> session[s]]
    /\ \A s \in Session : SessionOK(s)

AnswersOK ==
    /\ \A a \in answers : a.session \in Session /\ a.created \in BOOLEAN
    /\ AnswersHold

IInv ==
    TablesOK /\ WorkOK /\ BindingsDescribeProfiles /\ EvidenceOK /\ SessionsOK /\ AnswersOK

-----------------------------------------------------------------------------
(* What never changes.                                                     *)

\* Stored rows and finished works stay as they are.
Kept ==
    /\ \A k \in ProfileId :
           /\ db.profiles[k] # Absent => db'.profiles[k] = db.profiles[k]
           /\ db.bindings[k] # Absent => db'.bindings[k] = db.bindings[k]
    /\ \A w \in Work : work[w].status = "succeeded" => work'[w] = work[w]
    /\ db.evidence \subseteq db'.evidence

\* What a candidate is made of.
LEMMA CandidateParts ==
    ASSUME NEW c \in Candidate
    PROVE  /\ c.id \in ProfileId
           /\ c.content \in Contents /\ c.content # Absent
           /\ c.binding \in Bindings
           /\ c.content = Profile[c.binding.digest]
BY AdmissionAssumption DEF Candidate, Contents, Bindings

\* A bound profile is stored.
LEMMA BoundIsStored ==
    ASSUME IInv, NEW k \in ProfileId, db.bindings[k] # Absent
    PROVE  db.profiles[k] # Absent
<1>1. db.bindings[k] \in Bindings
    BY DEF IInv, TablesOK
<1> QED BY <1>1, AdmissionAssumption DEF IInv, BindingsDescribeProfiles, Bindings

\* What was admissible stays so, and its Evidence is the same.
LEMMA AdmissibleKept ==
    ASSUME IInv, Kept, NEW w \in Work, Admissible(w)
    PROVE  Admissible(w)' /\ EvidenceOf(w)' = EvidenceOf(w)
<1>1. work'[w] = work[w] /\ work[w].status = "succeeded" /\ work[w].request \in Request
    BY DEF Kept, Admissible, IInv, WorkOK
<1>2. work[w].request.profile \in ProfileId
    BY <1>1, AdmissionAssumption DEF Admissible, ProfileMatches
<1>3. EvidenceOf(w)' = EvidenceOf(w)
    BY <1>1 DEF EvidenceOf, EvidenceId
<1>4. ProfileMatches(w)'
    BY <1>1, <1>2 DEF Admissible, ProfileMatches, Kept
<1> QED BY <1>1, <1>3, <1>4 DEF Admissible

\* The Evidence of what may be admitted.
LEMMA EvidenceParts ==
    ASSUME IInv, NEW w \in Work, Admissible(w)
    PROVE  /\ EvidenceOf(w).work = w /\ EvidenceOf(w).evidence_id = EvidenceId(w)
           /\ EvidenceOf(w).task \in Task /\ EvidenceOf(w).profile \in ProfileId
           /\ db.profiles[EvidenceOf(w).profile] # Absent
<1>1. work[w].request \in Request /\ work[w].request.task \in DataTask
    BY DEF Admissible, IInv, WorkOK
<1>2. work[w].request.profile \in ProfileId /\ db.profiles[work[w].request.profile] # Absent
    BY <1>1, AdmissionAssumption DEF Admissible, ProfileMatches
<1> QED BY <1>1, <1>2, AdmissionAssumption DEF EvidenceOf

\* A session that does not move stays in order, as long as nobody else stages
\* a profile, or changes one, while this session has one staged.
LEMMA SessionKept ==
    ASSUME IInv, Kept, NEW s \in Session, session'[s] = session[s],
           session[s].phase = "staged" =>
               /\ db'.profiles = db.profiles
               /\ \A q \in Session : session'[q].phase = "staged" => session[q].phase = "staged"
    PROVE  SessionOK(s)'
<1>1. SessionOK(s)
    BY DEF IInv, SessionsOK
<1>2. CASE session[s] = Idle
    BY <1>2 DEF SessionOK, Idle
<1>3. CASE session[s].phase = "profile" /\ session[s] # Idle
  <2>1. /\ session[s].candidate \in Candidate /\ session[s].newProfile \in BOOLEAN
        /\ ~session[s].newProfile =>
               db.profiles[session[s].candidate.id] = session[s].candidate.content
    BY <1>1, <1>3 DEF SessionOK
  <2>2. ~session[s].newProfile =>
            db'.profiles[session[s].candidate.id] = session[s].candidate.content
    BY <2>1, CandidateParts DEF Kept
  <2> QED BY <1>3, <2>1, <2>2 DEF SessionOK, Candidate
<1>4. CASE session[s].phase = "staged" /\ session[s] # Idle
    BY <1>1, <1>4 DEF SessionOK, MayWrite, Candidate
<1>5. CASE session[s].phase \in {"evidence", "added"} /\ session[s] # Idle
    BY <1>1, <1>5, AdmissibleKept DEF SessionOK
<1>6. CASE session[s].phase = "raw" /\ session[s] # Idle
  <2>1. /\ session[s].evidence \in RawEvidence
        /\ db.profiles[session[s].evidence.profile] # Absent
      BY <1>1, <1>6 DEF SessionOK
  <2>2. session[s].evidence.profile \in ProfileId
      BY <2>1, AdmissionAssumption
  <2>3. db'.profiles[session[s].evidence.profile] # Absent
      BY <2>1, <2>2 DEF Kept
  <2> QED BY <1>6, <2>1, <2>3 DEF SessionOK
<1> QED BY <1>1, <1>2, <1>3, <1>4, <1>5, <1>6 DEF SessionOK

\* Evidence that was admitted stays what its work says.
LEMMA AdmittedKept ==
    ASSUME IInv, Kept, NEW e \in Admitted
    PROVE  /\ e.work \in Work /\ e = EvidenceOf(e.work)' /\ Admissible(e.work)'
           /\ e \in db'.evidence
<1>1. e.work \in Work /\ e = EvidenceOf(e.work) /\ Admissible(e.work)
    BY DEF IInv, EvidenceOK
<1>2. e \in db.evidence
    BY DEF IInv, AnswersOK, AnswersHold
<1> QED BY <1>1, <1>2, AdmissibleKept DEF Kept

LEMMA EvidenceKept ==
    ASSUME IInv, Kept, db'.evidence = db.evidence, answers' = answers
    PROVE  EvidenceOK' /\ AnswersOK'
<1>1. Admitted' = Admitted
    BY DEF Admitted
<1>2. EvidenceOK'
  <2>1. \A e \in Admitted' : e.work \in Work /\ e = EvidenceOf(e.work)' /\ Admissible(e.work)'
      BY <1>1, AdmittedKept
  <2> QED BY <2>1 DEF IInv, EvidenceOK
<1> QED BY <1>1, <1>2 DEF IInv, AnswersOK, AnswersHold

\* An insert under an identity no row has.
LEMMA RowInserted ==
    ASSUME IInv, Kept, answers' = answers, NEW e, Fresh(e.evidence_id),
           e.task \in Task, e.profile \in ProfileId, db'.evidence = db.evidence \cup {e}
    PROVE  EvidenceOK' /\ AnswersOK'
<1>1. Admitted' = Admitted
    BY DEF Admitted
<1>2. EvidenceOK'
  <2>1. \A f \in Admitted' : f.work \in Work /\ f = EvidenceOf(f.work)' /\ Admissible(f.work)'
      BY <1>1, AdmittedKept
  <2>2. \A f \in db'.evidence : f.task \in Task /\ f.profile \in ProfileId
      BY DEF IInv, EvidenceOK
  <2>3. \A f, g \in db'.evidence : f.evidence_id = g.evidence_id => f = g
      BY DEF IInv, EvidenceOK, Fresh
  <2> QED BY <2>1, <2>2, <2>3 DEF EvidenceOK
<1>3. Admitted' \subseteq db'.evidence
    BY <1>1 DEF IInv, AnswersOK, AnswersHold
<1> QED BY <1>2, <1>3 DEF IInv, AnswersOK, AnswersHold

\* An answer for Evidence of the work that is stored, perhaps just now.
LEMMA Answered ==
    ASSUME IInv, Kept, NEW s \in Session, NEW w \in Work, Admissible(w), NEW b \in BOOLEAN,
           EvidenceOf(w) \in db.evidence \/ Fresh(EvidenceId(w)),
           db'.evidence = db.evidence \cup {EvidenceOf(w)},
           answers' = answers \cup {[session |-> s, evidence |-> EvidenceOf(w), created |-> b]},
           b => EvidenceOf(w) \notin db.evidence
    PROVE  EvidenceOK' /\ AnswersOK'
<1> DEFINE e == EvidenceOf(w)
           r == [session |-> s, evidence |-> e, created |-> b]
<1>1. e.work = w /\ e.evidence_id = EvidenceId(w) /\ e.task \in Task /\ e.profile \in ProfileId
    BY EvidenceParts
<1>2. e = EvidenceOf(w)' /\ Admissible(w)'
    BY AdmissibleKept
<1>3. /\ r.session = s /\ r.evidence = e /\ r.created = b
      /\ answers' = answers \cup {r} /\ db'.evidence = db.evidence \cup {e}
      /\ b => e \notin db.evidence
      /\ e \in db.evidence \/ Fresh(e.evidence_id)
    BY <1>1
<1>4. \A f \in Admitted : /\ f.work \in Work /\ f = EvidenceOf(f.work)' /\ Admissible(f.work)'
                          /\ f \in db'.evidence /\ f \in db.evidence
    BY AdmittedKept DEF IInv, AnswersOK, AnswersHold
<1> HIDE DEF e, r
<1>5. Admitted' = Admitted \cup {e}
    BY <1>3 DEF Admitted
<1>6. EvidenceOK'
  <2>1. \A f \in Admitted' : f.work \in Work /\ f = EvidenceOf(f.work)' /\ Admissible(f.work)'
      BY <1>1, <1>2, <1>4, <1>5
  <2>2. \A f \in db'.evidence : f.task \in Task /\ f.profile \in ProfileId
      BY <1>1, <1>3 DEF IInv, EvidenceOK
  <2>3. \A f, g \in db'.evidence : f.evidence_id = g.evidence_id => f = g
      BY <1>3 DEF IInv, EvidenceOK, Fresh
  <2> QED BY <2>1, <2>2, <2>3 DEF EvidenceOK
<1>7. Admitted' \subseteq db'.evidence
    BY <1>3, <1>4, <1>5
<1>8. \A a, c \in answers' : a.evidence = c.evidence /\ a.created /\ c.created => a = c
  <2>1. b => \A a \in answers : a.evidence # e
      BY <1>3, <1>4 DEF Admitted
  <2>2. \A a, c \in answers : a.evidence = c.evidence /\ a.created /\ c.created => a = c
      BY DEF IInv, AnswersOK, AnswersHold
  <2> QED BY <1>3, <2>1, <2>2
<1>9. \A a \in answers' : a.session \in Session /\ a.created \in BOOLEAN
    BY <1>3 DEF IInv, AnswersOK
<1> QED BY <1>6, <1>7, <1>8, <1>9 DEF AnswersOK, AnswersHold

-----------------------------------------------------------------------------
(* The steps.                                                              *)

LEMMA InitHolds == Init => IInv
BY DEF Init, ExplorerInit, IInv, TablesOK, WorkOK, BindingsDescribeProfiles, EvidenceOK,
       SessionsOK, SessionOK, AnswersOK, AnswersHold, Admitted, NotRun

\* The work of the Data Explorer ends in one result, of one reading.
LEMMA ExplorerKeeps ==
    ASSUME IInv, ExplorerNext
    PROVE  WorkOK' /\ \A w \in Work : work[w].status = "succeeded" => work'[w] = work[w]
<1> USE DEF WorkOK
<1>0. WorkOK
    BY DEF IInv
<1>1. ASSUME NEW w \in Work, NEW r \in Request, Refuse(w, r)
      PROVE  WorkOK' /\ \A v \in Work : work[v].status = "succeeded" => work'[v] = work[v]
    BY <1>0, <1>1 DEF Refuse, End, Failed, Blocked, NotRun
<1>2. ASSUME NEW w \in Work, NEW r \in Request, StartAnalysis(w, r)
      PROVE  WorkOK' /\ \A v \in Work : work[v].status = "succeeded" => work'[v] = work[v]
    BY <1>0, <1>2 DEF StartAnalysis, Accepted, Loads, End, NotRun
<1>3. ASSUME NEW w \in Work, NEW r \in Request, RunProfiling(w, r)
      PROVE  WorkOK' /\ \A v \in Work : work[v].status = "succeeded" => work'[v] = work[v]
    BY <1>0, <1>3 DEF RunProfiling, Accepted, Loads, End, NotRun, Succeeded, Observed
<1>4. ASSUME NEW w \in Work, NEW op \in Operation, ExecutePlan(w, op)
      PROVE  WorkOK' /\ \A v \in Work : work[v].status = "succeeded" => work'[v] = work[v]
    BY <1>0, <1>4 DEF ExecutePlan, End, Succeeded, Failed, Dataframe
<1>5. ASSUME NEW w \in Work, PlanningFails(w)
      PROVE  WorkOK' /\ \A v \in Work : work[v].status = "succeeded" => work'[v] = work[v]
    BY <1>0, <1>5 DEF PlanningFails, End, Failed
<1>6. ASSUME NEW p \in Path, ChangeFile(p)
      PROVE  WorkOK' /\ \A v \in Work : work[v].status = "succeeded" => work'[v] = work[v]
    BY <1>0, <1>6 DEF ChangeFile
<1> QED BY <1>1, <1>2, <1>3, <1>4, <1>5, <1>6 DEF ExplorerNext

\* Steps that leave the tables alone and move one session.
LEMMA Moves ==
    ASSUME IInv, NEW s \in Session, NEW r, Enter(s, r), UNCHANGED <<file, work, db>>,
           SessionOK(s)', r.phase = "staged" => r = session'[s] /\ MayWrite(s),
           answers' = answers
    PROVE  IInv'
<1>1. Kept
    BY DEF Kept
<1>2. /\ session' = [q \in Session |-> session'[q]]
      /\ session'[s] = r
      /\ \A q \in Session \ {s} : session'[q] = session[q]
    BY DEF Enter, IInv, SessionsOK
<1>3. ASSUME NEW q \in Session \ {s}
      PROVE  SessionOK(q)'
  <2>1. session[q].phase = "staged" => r.phase # "staged"
      BY DEF MayWrite
  <2>2. session[q].phase = "staged" =>
            \A p \in Session : session'[p].phase = "staged" => session[p].phase = "staged"
      BY <1>2, <2>1
  <2> QED BY <1>1, <1>2, <2>2, SessionKept
<1>4. SessionsOK'
    BY <1>2, <1>3 DEF SessionsOK
<1>5. EvidenceOK' /\ AnswersOK'
    BY <1>1, EvidenceKept
<1> QED BY <1>4, <1>5 DEF IInv, TablesOK, WorkOK, BindingsDescribeProfiles

LEMMA CheckCandidateStep ==
    ASSUME IInv, NEW s \in Session, NEW c \in Candidate, CheckCandidate(s, c)
    PROVE  IInv'
<1> DEFINE r == [phase |-> "profile", candidate |-> c, newProfile |-> db.profiles[c.id] = Absent]
<1>1. session'[s] = r /\ Enter(s, r) /\ UNCHANGED <<file, work, db, answers>>
    BY DEF CheckCandidate, Enter, IInv, SessionsOK
<1>2. ~r.newProfile => db.profiles[c.id] = c.content
    BY DEF CheckCandidate, Agrees
<1>3. SessionOK(s)'
    BY <1>1, <1>2 DEF SessionOK, Candidate
<1> QED BY <1>1, <1>3, Moves

LEMMA StageProfileStep ==
    ASSUME IInv, NEW s \in Session, StageProfile(s)
    PROVE  IInv'
<1> DEFINE c == session[s].candidate
           r == IF db.profiles[c.id] # Absent THEN Idle ELSE [phase |-> "staged", candidate |-> c]
<1>1. /\ session'[s] = r /\ Enter(s, r) /\ UNCHANGED <<file, work, db, answers>>
      /\ MayWrite(s) /\ session[s].phase = "profile"
    BY DEF StageProfile, Enter, IInv, SessionsOK
<1>2. c \in Candidate
    BY <1>1 DEF IInv, SessionsOK, SessionOK, Idle
<1>3. MayWrite(s)'
    BY <1>1 DEF MayWrite, Enter, IInv, SessionsOK
<1>4. SessionOK(s)'
    BY <1>1, <1>2, <1>3 DEF SessionOK, Candidate
<1> QED BY <1>1, <1>4, Moves

LEMMA CheckEvidenceStep ==
    ASSUME IInv, NEW s \in Session, NEW w \in Work, CheckEvidence(s, w)
    PROVE  IInv'
<1> DEFINE r == [phase |-> "evidence", work |-> w]
<1>1. session'[s] = r /\ Enter(s, r) /\ UNCHANGED <<file, work, db, answers>>
    BY DEF CheckEvidence, Enter, IInv, SessionsOK
<1>2. Admissible(w)'
    BY <1>1 DEF CheckEvidence, Valid, Admissible, ProfileMatches
<1>3. SessionOK(s)'
    BY <1>1, <1>2 DEF SessionOK
<1> QED BY <1>1, <1>3, Moves

LEMMA AddEvidenceStep ==
    ASSUME IInv, NEW s \in Session, AddEvidence(s)
    PROVE  IInv'
<1> DEFINE r == IF MayAdd(EvidenceOf(session[s].work))
                THEN [phase |-> "added", work |-> session[s].work] ELSE Idle
<1>1. /\ session'[s] = r /\ Enter(s, r) /\ UNCHANGED <<file, work, db, answers>>
      /\ session[s].phase = "evidence"
    BY DEF AddEvidence, Enter, IInv, SessionsOK
<1>2. PICK w \in Work : w = session[s].work /\ Admissible(w)
    BY <1>1 DEF IInv, SessionsOK, SessionOK, Idle
<1>3. Admissible(w)'
    BY <1>1, <1>2, AdmissibleKept DEF Kept
<1>4. SessionOK(s)'
    BY <1>1, <1>2, <1>3 DEF SessionOK, Idle
<1> QED BY <1>1, <1>4, Moves DEF Idle

LEMMA AddRawStep ==
    ASSUME IInv, NEW s \in Session, NEW e \in RawEvidence, AddRaw(s, e)
    PROVE  IInv'
<1> DEFINE r == [phase |-> "raw", evidence |-> e]
<1>1. /\ session'[s] = r /\ Enter(s, r) /\ UNCHANGED <<file, work, db, answers>>
      /\ db.profiles[e.profile] # Absent
    BY DEF AddRaw, MayAdd, Enter, IInv, SessionsOK
<1>2. SessionOK(s)'
    BY <1>1 DEF SessionOK
<1> QED BY <1>1, <1>2, Moves

LEMMA FailStep ==
    ASSUME IInv, NEW s \in Session, Fail(s)
    PROVE  IInv'
<1>1. session'[s] = Idle /\ Enter(s, Idle) /\ UNCHANGED <<file, work, db, answers>>
    BY DEF Fail, Enter, IInv, SessionsOK
<1> QED BY <1>1, Moves DEF SessionOK, Idle

\* Steps that write: the sessions but at most one stay where they are, and
\* none of them has a profile staged while another one writes profiles.
LEMMA OthersKept ==
    ASSUME IInv, Kept, NEW s \in Session, Enter(s, Idle), MayWrite(s)
    PROVE  SessionsOK'
<1>1. /\ session' = [q \in Session |-> session'[q]]
      /\ session'[s] = Idle
      /\ \A q \in Session \ {s} : session'[q] = session[q]
    BY DEF Enter, IInv, SessionsOK
<1>2. ASSUME NEW q \in Session \ {s}
      PROVE  SessionOK(q)'
  <2>1. session[q].phase # "staged"
      BY DEF MayWrite
  <2> QED BY <1>1, <2>1, SessionKept
<1>3. SessionOK(s)'
    BY <1>1 DEF SessionOK
<1> QED BY <1>1, <1>2, <1>3 DEF SessionsOK

\* The binding is that of the profile that is stored.
LEMMA CommitProfileStep ==
    ASSUME IInv, NEW s \in Session, CommitProfile(s)
    PROVE  IInv'
<1> DEFINE c == session[s].candidate
<1>1. /\ c \in Candidate /\ MayWrite(s)
      /\ db.profiles[c.id] \in {c.content, Absent}
      /\ Enter(s, Idle) /\ UNCHANGED <<file, work, answers>>
  <2>1. session[s].phase \in {"profile", "staged"} /\ SessionOK(s)
      BY DEF CommitProfile, IInv, SessionsOK
  <2>2. session[s] # Idle
      BY <2>1 DEF Idle
  <2> QED BY <2>1, <2>2 DEF CommitProfile, SessionOK
<1>2. c.id \in ProfileId /\ c.content \in Contents /\ c.content # Absent
      /\ c.binding \in Bindings /\ c.content = Profile[c.binding.digest]
    BY <1>1, CandidateParts
<1>3. CASE db.bindings[c.id] # Absent
  <2>1. db' = db
      BY <1>3 DEF CommitProfile
  <2>2. Kept
      BY <1>1, <2>1 DEF Kept
  <2> QED BY <1>1, <2>1, <2>2, OthersKept, EvidenceKept
          DEF IInv, TablesOK, WorkOK, BindingsDescribeProfiles
<1>4. CASE db.bindings[c.id] = Absent
  <2>1. /\ db' = [tasks |-> db.tasks,
                  profiles |-> [db.profiles EXCEPT ![c.id] = c.content],
                  bindings |-> [db.bindings EXCEPT ![c.id] = c.binding],
                  evidence |-> db.evidence]
      BY <1>1, <1>2, <1>4 DEF CommitProfile, IInv, TablesOK
  <2>2. Kept
      BY <1>1, <1>2, <1>4, <2>1 DEF Kept, IInv, TablesOK
  <2>3. TablesOK'
      BY <1>2, <2>1 DEF IInv, TablesOK
  <2>4. BindingsDescribeProfiles'
      BY <1>1, <1>2, <2>1 DEF IInv, TablesOK, BindingsDescribeProfiles
  <2>5. EvidenceOK' /\ AnswersOK'
      BY <1>1, <2>1, <2>2, EvidenceKept
  <2> QED BY <1>1, <2>1, <2>2, <2>3, <2>4, <2>5, OthersKept DEF IInv, WorkOK
<1> QED BY <1>3, <1>4

\* The tables with other Evidence.
WithEvidence(S) ==
    [tasks |-> db.tasks, profiles |-> db.profiles, bindings |-> db.bindings, evidence |-> S]

LEMMA Inserted ==
    ASSUME IInv, NEW e
    PROVE  /\ Insert(e) => db' = WithEvidence(db.evidence \cup {e})
           /\ db = WithEvidence(db.evidence)
BY DEF Insert, WithEvidence, IInv, TablesOK

\* What a step that may store Evidence, and nothing else, keeps.
LEMMA OnlyEvidence ==
    ASSUME IInv, NEW S, db' = WithEvidence(S), db.evidence \subseteq S, UNCHANGED <<file, work>>
    PROVE  /\ Kept /\ TablesOK' /\ BindingsDescribeProfiles' /\ WorkOK' /\ db'.evidence = S
           /\ UNCHANGED <<db.tasks, db.profiles, db.bindings>>
BY DEF WithEvidence, IInv, TablesOK, Kept, BindingsDescribeProfiles, WorkOK

\* A commit of Evidence is of a result that may be admitted, and answers for
\* it unless another row has its identity.
LEMMA CommitEvidenceParts ==
    ASSUME IInv, NEW s \in Session, CommitEvidence(s)
    PROVE  \E w \in Work :
             /\ Admissible(w) /\ MayWrite(s) /\ Enter(s, Idle) /\ UNCHANGED <<file, work>>
             /\ \/ /\ Fresh(EvidenceId(w)) \/ EvidenceOf(w) \in db.evidence
                   /\ db' = WithEvidence(db.evidence \cup {EvidenceOf(w)})
                   /\ Answer(s, w, Fresh(EvidenceId(w)))
                \/ UNCHANGED <<db, answers>>
<1>1. PICK w \in Work : w = session[s].work /\ Admissible(w)
  <2>1. session[s].phase = "added" /\ SessionOK(s)
      BY DEF CommitEvidence, IInv, SessionsOK
  <2>2. session[s] # Idle
      BY <2>1 DEF Idle
  <2> QED BY <2>1, <2>2 DEF SessionOK
<1>2. MayWrite(s) /\ Enter(s, Idle) /\ UNCHANGED <<file, work>>
    BY DEF CommitEvidence
<1>3. CASE Fresh(EvidenceId(w)) /\ Insert(EvidenceOf(w)) /\ Answer(s, w, Created(w))
    BY <1>1, <1>2, <1>3, Inserted DEF Created
<1>4. CASE EvidenceOf(w) \in db.evidence /\ Answer(s, w, Created(w)) /\ UNCHANGED db
  <2>1. db' = WithEvidence(db.evidence \cup {EvidenceOf(w)})
    <3>1. db.evidence \cup {EvidenceOf(w)} = db.evidence
        BY <1>4
    <3>2. db' = WithEvidence(db.evidence)
        BY <1>4, Inserted
    <3> QED BY <3>1, <3>2
  <2> QED BY <1>1, <1>2, <1>4, <2>1 DEF Created
<1>5. CASE UNCHANGED <<db, answers>>
    BY <1>1, <1>2, <1>5
<1> QED BY <1>1, <1>3, <1>4, <1>5 DEF CommitEvidence

\* Another session inserted the same row, or nobody did, or the commit fails.
LEMMA CommitEvidenceStep ==
    ASSUME IInv, NEW s \in Session, CommitEvidence(s)
    PROVE  IInv'
<1>1. PICK w \in Work :
          /\ Admissible(w) /\ MayWrite(s) /\ Enter(s, Idle) /\ UNCHANGED <<file, work>>
          /\ \/ /\ Fresh(EvidenceId(w)) \/ EvidenceOf(w) \in db.evidence
                /\ db' = WithEvidence(db.evidence \cup {EvidenceOf(w)})
                /\ Answer(s, w, Fresh(EvidenceId(w)))
             \/ UNCHANGED <<db, answers>>
    BY CommitEvidenceParts
<1>2. CASE UNCHANGED <<db, answers>>
  <2>1. Kept
      BY <1>1, <1>2 DEF Kept
  <2> QED BY <1>1, <1>2, <2>1, OthersKept, EvidenceKept
          DEF IInv, TablesOK, WorkOK, BindingsDescribeProfiles
<1>3. CASE /\ Fresh(EvidenceId(w)) \/ EvidenceOf(w) \in db.evidence
           /\ db' = WithEvidence(db.evidence \cup {EvidenceOf(w)})
           /\ Answer(s, w, Fresh(EvidenceId(w)))
  <2>1. /\ Kept /\ TablesOK' /\ BindingsDescribeProfiles' /\ WorkOK'
        /\ db'.evidence = db.evidence \cup {EvidenceOf(w)}
      BY <1>1, <1>3, OnlyEvidence
  <2>2. Fresh(EvidenceId(w)) \in BOOLEAN
      BY DEF Fresh
  <2>3. Fresh(EvidenceId(w)) => EvidenceOf(w) \notin db.evidence
      BY <1>1, EvidenceParts DEF Fresh
  <2>4. EvidenceOK' /\ AnswersOK'
      BY <1>1, <1>3, <2>1, <2>2, <2>3, Answered DEF Answer
  <2> QED BY <1>1, <2>1, <2>4, OthersKept DEF IInv
<1> QED BY <1>1, <1>2, <1>3

\* What a caller stores takes an identity of its own, or nothing happens.
LEMMA CommitRawStep ==
    ASSUME IInv, NEW s \in Session, CommitRaw(s)
    PROVE  IInv'
<1>1. PICK e \in RawEvidence : e = session[s].evidence
  <2>1. session[s].phase = "raw" /\ SessionOK(s)
      BY DEF CommitRaw, IInv, SessionsOK
  <2>2. session[s] # Idle
      BY <2>1 DEF Idle
  <2> QED BY <2>1, <2>2 DEF SessionOK
<1>2. MayWrite(s) /\ Enter(s, Idle) /\ UNCHANGED <<file, work, answers>>
    BY DEF CommitRaw
<1>3. e.task \in Task /\ e.profile \in ProfileId
    BY AdmissionAssumption
<1>4. CASE UNCHANGED db
  <2>1. Kept
      BY <1>2, <1>4 DEF Kept
  <2> QED BY <1>2, <1>4, <2>1, OthersKept, EvidenceKept
          DEF IInv, TablesOK, WorkOK, BindingsDescribeProfiles
<1>5. CASE Fresh(e.evidence_id) /\ Insert(e)
  <2>1. /\ Kept /\ TablesOK' /\ BindingsDescribeProfiles' /\ WorkOK'
        /\ db'.evidence = db.evidence \cup {e}
      BY <1>2, <1>5, OnlyEvidence, Inserted
  <2>2. EvidenceOK' /\ AnswersOK'
      BY <1>2, <1>3, <1>5, <2>1, RowInserted
  <2> QED BY <1>2, <2>1, <2>2, OthersKept DEF IInv
<1> QED BY <1>1, <1>4, <1>5 DEF CommitRaw

\* A replay answers with what is there, and claims nothing.
LEMMA ReplayStep ==
    ASSUME IInv, NEW s \in Session, NEW w \in Work, Replay(s, w)
    PROVE  IInv'
<1>1. /\ UNCHANGED <<file, work, db, session>>
      /\ Answer(s, w, FALSE) /\ EvidenceOf(w) \in db.evidence /\ Admissible(w)
    BY DEF Replay, Prior, Valid, Admissible
<1>2. Kept /\ db'.evidence = db.evidence \cup {EvidenceOf(w)}
    BY <1>1 DEF Kept
<1>3. EvidenceOK' /\ AnswersOK'
    BY <1>1, <1>2, Answered DEF Answer
<1>4. SessionsOK'
    BY <1>1, <1>2, SessionKept DEF IInv, SessionsOK
<1> QED BY <1>1, <1>3, <1>4 DEF IInv, TablesOK, WorkOK, BindingsDescribeProfiles

\* Other writers add a profile with no binding, or change a Task.
LEMMA AutocommitStep ==
    ASSUME IInv, NEW d, Autocommit(d), UNCHANGED <<file, work>>, TablesOK',
           d.bindings = db.bindings, d.evidence = db.evidence,
           \A k \in ProfileId : db.profiles[k] # Absent => d.profiles[k] = db.profiles[k]
    PROVE  IInv'
<1>1. db' = d /\ UNCHANGED <<session, answers>>
      /\ \A s \in Session : session[s].phase # "staged"
    BY DEF Autocommit
<1>2. Kept
    BY <1>1 DEF Kept
<1>3. SessionsOK'
    BY <1>1, <1>2, SessionKept DEF IInv, SessionsOK
<1>4. BindingsDescribeProfiles'
  <2> SUFFICES ASSUME NEW k \in ProfileId, db'.bindings[k] # Absent
               PROVE  db'.profiles[k] = Profile[db'.bindings[k].digest]
      BY DEF BindingsDescribeProfiles
  <2>1. db.bindings[k] # Absent
      BY <1>1
  <2>2. db.profiles[k] # Absent
      BY <2>1, BoundIsStored
  <2> QED BY <1>1, <2>1, <2>2 DEF IInv, BindingsDescribeProfiles
<1>5. EvidenceOK' /\ AnswersOK'
    BY <1>1, <1>2, EvidenceKept
<1> QED BY <1>1, <1>3, <1>4, <1>5 DEF IInv, WorkOK

LEMMA OtherWriterStep ==
    ASSUME IInv,
           \/ \E t \in Task, st \in Status : CreateTask(t, st) \/ UpdateTask(t, st)
           \/ \E k \in ProfileId, b \in Dataset : CreateProfile(k, Profile[b])
    PROVE  IInv'
<1>1. ASSUME NEW t \in Task, NEW st \in Status, CreateTask(t, st) \/ UpdateTask(t, st)
      PROVE  IInv'
  <2> DEFINE d == [db EXCEPT !.tasks[t] = st]
  <2>1. /\ Autocommit(d) /\ UNCHANGED <<file, work>>
        /\ db' = d
      BY <1>1 DEF CreateTask, UpdateTask, Autocommit
  <2>2. d = [tasks |-> [db.tasks EXCEPT ![t] = st], profiles |-> db.profiles,
             bindings |-> db.bindings, evidence |-> db.evidence]
      BY DEF IInv, TablesOK
  <2>3. TablesOK'
      BY <2>1, <2>2 DEF IInv, TablesOK
  <2> QED BY <2>1, <2>2, <2>3, AutocommitStep
<1>2. ASSUME NEW k \in ProfileId, NEW b \in Dataset, CreateProfile(k, Profile[b])
      PROVE  IInv'
  <2> DEFINE d == [db EXCEPT !.profiles[k] = Profile[b]]
  <2>1. /\ Autocommit(d) /\ UNCHANGED <<file, work>>
        /\ db' = d /\ db.profiles[k] = Absent
      BY <1>2 DEF CreateProfile, Autocommit
  <2>2. d = [tasks |-> db.tasks, profiles |-> [db.profiles EXCEPT ![k] = Profile[b]],
             bindings |-> db.bindings, evidence |-> db.evidence]
      BY DEF IInv, TablesOK
  <2>3. TablesOK'
      BY <2>1, <2>2 DEF IInv, TablesOK, Contents
  <2>4. \A j \in ProfileId : db.profiles[j] # Absent => d.profiles[j] = db.profiles[j]
      BY <2>1, <2>2 DEF IInv, TablesOK
  <2> QED BY <2>1, <2>2, <2>3, <2>4, AutocommitStep
<1> QED BY <1>1, <1>2

LEMMA ExplorerStep ==
    ASSUME IInv, ExplorerNext, UNCHANGED tables
    PROVE  IInv'
<1>1. WorkOK' /\ Kept /\ UNCHANGED <<db, session, answers>>
    BY ExplorerKeeps DEF Kept, tables
<1>2. SessionsOK' /\ EvidenceOK' /\ AnswersOK'
    BY <1>1, SessionKept, EvidenceKept DEF IInv, SessionsOK
<1> QED BY <1>1, <1>2 DEF IInv, TablesOK, BindingsDescribeProfiles

\* The invariant is inductive: it holds in every reachable state.
THEOREM Invariant == Spec => []IInv
<1>1. IInv /\ [Next]_vars => IInv'
  <2> SUFFICES ASSUME IInv, [Next]_vars
               PROVE  IInv'
      OBVIOUS
  <2>1. CASE Next
      BY <2>1, ExplorerStep, CheckCandidateStep, StageProfileStep, CommitProfileStep, ReplayStep,
         CheckEvidenceStep, AddEvidenceStep, CommitEvidenceStep, AddRawStep, CommitRawStep,
         FailStep, OtherWriterStep DEF Next
  <2>2. CASE UNCHANGED vars
    <3>1. UNCHANGED <<file, work, db, session, answers>>
        BY <2>2 DEF vars
    <3>2. Kept
        BY <3>1 DEF Kept
    <3>3. SessionsOK' /\ EvidenceOK' /\ AnswersOK'
        BY <3>1, <3>2, SessionKept, EvidenceKept DEF IInv, SessionsOK
    <3> QED BY <3>1, <3>3 DEF IInv, TablesOK, WorkOK, BindingsDescribeProfiles
  <2> QED BY <2>1, <2>2
<1> QED BY <1>1, InitHolds, PTL DEF Spec

-----------------------------------------------------------------------------
(* What follows.                                                           *)

\* Every variable keeps its type.
THEOREM Typing == Spec => []TypeOK
<1>1. IInv => TypeOK
  <2> SUFFICES ASSUME IInv
               PROVE  TypeOK
      OBVIOUS
  <2>1. \A a \in answers : a.evidence.work \in Work
      BY DEF IInv, EvidenceOK, Admitted
  <2>2. db.tasks \in [Task -> Status \cup {Absent}]
        /\ db.profiles \in [ProfileId -> {Profile[b] : b \in Dataset} \cup {Absent}]
        /\ db.bindings \in [ProfileId -> [path : Path, digest : Dataset] \cup {Absent}]
      BY DEF IInv, TablesOK, Contents, Bindings
  <2> QED BY <2>1, <2>2 DEF IInv, WorkOK, SessionsOK, SessionOK, EvidenceOK, AnswersOK, TypeOK
<1> QED BY <1>1, Invariant, PTL

\* A binding is never attached to the profile of other bytes.
THEOREM ProfilesAreBound == Spec => []BindingsDescribeProfiles
<1>1. IInv => BindingsDescribeProfiles
    BY DEF IInv
<1> QED BY <1>1, Invariant, PTL

\* Admitted Evidence is computed from the bytes its DataProfile is bound to,
\* however the file changed while the work awaited its plan, and whatever
\* Evidence of their own callers store.
THEOREM EvidenceIsGrounded == Spec => []EvidenceOfBoundBytes
<1>1. IInv => EvidenceOfBoundBytes
  <2> SUFFICES ASSUME IInv, NEW e \in Admitted
               PROVE  /\ db.bindings[e.profile] # Absent
                      /\ e.path = db.bindings[e.profile].path
                      /\ e.content = Observed(e.content[1], db.bindings[e.profile].digest)
      BY DEF EvidenceOfBoundBytes
  <2>1. PICK w \in Work : e = EvidenceOf(w) /\ Admissible(w)
      BY DEF IInv, EvidenceOK
  <2>2. /\ e.profile = work[w].request.profile /\ e.path = work[w].path
        /\ e.content = work[w].observation
      BY <2>1 DEF EvidenceOf
  <2>3. /\ db.bindings[e.profile] # Absent
        /\ db.bindings[e.profile] = [path |-> work[w].path, digest |-> work[w].digest]
        /\ e.profile # Absent
      BY <2>1, <2>2 DEF Admissible, ProfileMatches, IInv, WorkOK
  <2>4. e.content = Observed(work[w].operation, work[w].digest)
      BY <2>1, <2>2, <2>3 DEF Admissible, IInv, WorkOK
  <2>5. e.content[1] = work[w].operation
      BY <2>4 DEF Observed
  <2>6. /\ db.bindings[e.profile].path = work[w].path
        /\ db.bindings[e.profile].digest = work[w].digest
      BY <2>3
  <2> QED BY <2>2, <2>3, <2>4, <2>5, <2>6
<1> QED BY <1>1, Invariant, PTL

\* Racing admissions of one result admit one Evidence, and identities are unique.
THEOREM AdmittedOnce == Spec => []OneEvidencePerWork
<1>1. IInv => OneEvidencePerWork
    BY DEF IInv, EvidenceOK, OneEvidencePerWork
<1> QED BY <1>1, Invariant, PTL

\* Answers are with Evidence that is stored, and one admission at most created it.
THEOREM AnswersAreTrue == Spec => []AnswersHold
<1>1. IInv => AnswersHold
    BY DEF IInv, AnswersOK
<1> QED BY <1>1, Invariant, PTL

-----------------------------------------------------------------------------
(* The sessions implement the store.                                       *)

\* With one Evidence for each work, the one that is found is the one there is.
LEMMA EntryIsFound ==
    ASSUME NEW S, \A e, f \in S : e.work = f.work => e = f, NEW e \in S
    PROVE  (CHOOSE f \in S : f.work = e.work) = e
<1> DEFINE g == CHOOSE f \in S : f.work = e.work
<1>1. g \in S /\ g.work = e.work
    OBVIOUS
<1> QED BY <1>1

LEMMA BecameFound ==
    ASSUME OneEvidencePerWork, NEW e \in Admitted
    PROVE  Became(e.work) = e
<1>1. (CHOOSE f \in Admitted : f.work = e.work) = e
    BY EntryIsFound DEF OneEvidencePerWork
<1> QED BY <1>1 DEF Became

LEMMA BecameFoundNext ==
    ASSUME OneEvidencePerWork', NEW e \in Admitted'
    PROVE  Became(e.work)' = e
<1>1. (CHOOSE f \in Admitted' : f.work = e.work) = e
    BY EntryIsFound DEF OneEvidencePerWork
<1> QED BY <1>1 DEF Became

\* Without a new answer nothing was admitted.
LEMMA SameAdmitted ==
    ASSUME answers' = answers
    PROVE  [w \in Work |-> Became(w)]' = [w \in Work |-> Became(w)]
BY DEF Became, Admitted

\* A step that leaves the tables alone is not seen by the store.
LEMMA Unseen ==
    ASSUME db'.profiles = db.profiles, db'.bindings = db.bindings, db'.evidence = db.evidence,
           answers' = answers
    PROVE  UNCHANGED Store!storeVars
BY SameAdmitted DEF Store!storeVars

\* An answer admits the work with its Evidence, or repeats what was answered.
LEMMA AnswerAdmits ==
    ASSUME IInv, OneEvidencePerWork, OneEvidencePerWork', NEW s \in Session, NEW w \in Work,
           Admissible(w), NEW b,
           EvidenceOf(w) \in db.evidence \/ Fresh(EvidenceId(w)),
           db'.profiles = db.profiles, db'.bindings = db.bindings,
           db'.evidence = db.evidence \cup {EvidenceOf(w)}, Answer(s, w, b)
    PROVE  [Store!StoreNext]_(Store!storeVars)
<1> DEFINE e == EvidenceOf(w)
           k == work[w].request.profile
           op == work[w].operation
<1>1. Admitted' = Admitted \cup {e}
  <2> DEFINE r == [session |-> s, evidence |-> e, created |-> b]
  <2>1. r.evidence = e /\ answers' = answers \cup {r}
      BY DEF Answer
  <2> HIDE DEF r
  <2> QED BY <2>1 DEF Admitted
<1>2. e.work = w /\ e.evidence_id = EvidenceId(w) /\ e.profile = k /\ e.path = work[w].path
      /\ e.content = work[w].observation
    BY DEF EvidenceOf
<1>3. /\ k \in ProfileId /\ op \in Operation \cup {"dataset_profile"}
      /\ db.bindings[k] = [path |-> work[w].path, digest |-> work[w].digest]
      /\ db.bindings[k] # Absent
      /\ work[w].observation = Observed(op, work[w].digest)
    BY AdmissionAssumption DEF Admissible, ProfileMatches, IInv, WorkOK
<1>4. e.path = db.bindings[k].path /\ e.content = Store!Finding(op, db.bindings[k].digest)
    BY <1>2, <1>3 DEF Store!Finding, Observed
<1>5. \A f \in Admitted : f.work = w => f = e
    BY DEF IInv, EvidenceOK
<1>6. \A f \in db.evidence : f.evidence_id = e.evidence_id => f = e
    BY <1>2 DEF IInv, EvidenceOK, Fresh
<1>7. CASE e \in Admitted
  <2>1. e \in db.evidence
      BY <1>7 DEF IInv, AnswersOK, AnswersHold
  <2>2. db'.evidence = db.evidence /\ Admitted' = Admitted
      BY <1>1, <1>7, <2>1
  <2>3. [v \in Work |-> Became(v)]' = [v \in Work |-> Became(v)]
      BY <2>2 DEF Became
  <2> QED BY <2>2, <2>3 DEF Store!storeVars
<1>8. CASE e \notin Admitted
  <2>1. \A f \in Admitted : f.work # w
      BY <1>5, <1>8
  <2>2. [v \in Work |-> Became(v)][w] = Absent
      BY <2>1 DEF Became
  <2>3. Became(w)' = e
    <3>1. PICK f \in Admitted' : f = e
        BY <1>1
    <3>2. Became(f.work)' = f
        BY BecameFoundNext
    <3> QED BY <1>2, <3>1, <3>2
  <2> HIDE DEF e
  <2>4. ASSUME NEW v \in Work, v # w
        PROVE  Became(v)' = Became(v)
    <3>1. CASE \E f \in Admitted : f.work = v
      <4>1. PICK f \in Admitted : f.work = v
          BY <3>1
      <4>2. Became(f.work) = f
          BY BecameFound
      <4>3. f \in Admitted'
          BY <1>1
      <4>4. Became(f.work)' = f
          BY <4>3, BecameFoundNext
      <4> QED BY <4>1, <4>2, <4>4
    <3>2. CASE \A f \in Admitted : f.work # v
      <4>1. \A f \in Admitted' : f.work # v
          BY <1>1, <1>2, <2>4, <3>2
      <4> QED BY <3>2, <4>1 DEF Became
    <3> QED BY <3>1, <3>2
  <2>5. [v \in Work |-> Became(v)]' = [[v \in Work |-> Became(v)] EXCEPT ![w] = e]
      BY <2>3, <2>4
  <2>6. db'.evidence = db.evidence \cup {e}
      BY DEF e
  <2>7. Store!Keep(e)
      BY <1>6, <2>6 DEF Store!Keep
  <2>8. Store!Admit(w, k, op, e)
      BY <1>2, <1>3, <1>4, <2>2, <2>5, <2>7 DEF Store!Admit
  <2>9. e \in db'.evidence
      BY <2>6
  <2> QED BY <1>3, <2>8, <2>9 DEF Store!StoreNext
<1> QED BY <1>7, <1>8

LEMMA StoreInitHolds == Init => Store!StoreInit
BY DEF Init, Store!StoreInit, Became, Admitted

\* The commit of a profile candidate binds the profile it describes, or finds
\* that another session has bound it.
LEMMA CommitProfileBinds ==
    ASSUME IInv, NEW s \in Session, CommitProfile(s)
    PROVE  [Store!StoreNext]_(Store!storeVars)
<1> DEFINE c == session[s].candidate
<1>1. /\ c \in Candidate /\ db.profiles[c.id] \in {c.content, Absent}
  <2>1. session[s].phase \in {"profile", "staged"} /\ SessionOK(s)
      BY DEF CommitProfile, IInv, SessionsOK
  <2>2. session[s] # Idle
      BY <2>1 DEF Idle
  <2> QED BY <2>1, <2>2 DEF CommitProfile, SessionOK
<1>2. CASE db.bindings[c.id] # Absent
    BY <1>2, Unseen DEF CommitProfile
<1>3. CASE db.bindings[c.id] = Absent
  <2>1. PICK k \in ProfileId, p \in Path, b \in Dataset :
            c = [id |-> k, content |-> Profile[b], binding |-> [path |-> p, digest |-> b]]
      BY <1>1 DEF Candidate
  <2>2. /\ db'.profiles = [db.profiles EXCEPT ![k] = Profile[b]]
        /\ db'.bindings = [db.bindings EXCEPT ![k] = [path |-> p, digest |-> b]]
        /\ db'.evidence = db.evidence /\ answers' = answers
      BY <1>1, <1>3, <2>1 DEF CommitProfile, IInv, TablesOK
  <2>3. [w \in Work |-> Became(w)]' = [w \in Work |-> Became(w)]
      BY <2>2, SameAdmitted
  <2>4. Store!Bind(k, p, b)
      BY <1>1, <1>3, <2>1, <2>2, <2>3 DEF Store!Bind
  <2> QED BY <2>4 DEF Store!StoreNext
<1> QED BY <1>2, <1>3

\* The commit of Evidence admits what the work observed in the bound bytes, or
\* finds Evidence under its identity, the same or not.
LEMMA CommitEvidenceAdmits ==
    ASSUME IInv, OneEvidencePerWork, OneEvidencePerWork', NEW s \in Session, CommitEvidence(s)
    PROVE  [Store!StoreNext]_(Store!storeVars)
<1>1. PICK w \in Work :
          /\ Admissible(w) /\ MayWrite(s) /\ Enter(s, Idle) /\ UNCHANGED <<file, work>>
          /\ \/ /\ Fresh(EvidenceId(w)) \/ EvidenceOf(w) \in db.evidence
                /\ db' = WithEvidence(db.evidence \cup {EvidenceOf(w)})
                /\ Answer(s, w, Fresh(EvidenceId(w)))
             \/ UNCHANGED <<db, answers>>
    BY CommitEvidenceParts
<1>2. CASE UNCHANGED <<db, answers>>
    BY <1>2, Unseen
<1>3. CASE /\ Fresh(EvidenceId(w)) \/ EvidenceOf(w) \in db.evidence
           /\ db' = WithEvidence(db.evidence \cup {EvidenceOf(w)})
           /\ Answer(s, w, Fresh(EvidenceId(w)))
  <2>1. /\ db'.profiles = db.profiles /\ db'.bindings = db.bindings
        /\ db'.evidence = db.evidence \cup {EvidenceOf(w)}
      BY <1>3 DEF WithEvidence
  <2> QED BY <1>1, <1>3, <2>1, AnswerAdmits
<1> QED BY <1>1, <1>2, <1>3

\* A replay admits the work if a caller had stored its very Evidence.
LEMMA ReplayAdmits ==
    ASSUME IInv, OneEvidencePerWork, OneEvidencePerWork', NEW s \in Session, NEW w \in Work,
           Replay(s, w)
    PROVE  [Store!StoreNext]_(Store!storeVars)
<1>1. /\ UNCHANGED db /\ Answer(s, w, FALSE) /\ EvidenceOf(w) \in db.evidence /\ Admissible(w)
    BY DEF Replay, Prior, Valid, Admissible
<1>2. db'.evidence = db.evidence \cup {EvidenceOf(w)}
    BY <1>1
<1> QED BY <1>1, <1>2, AnswerAdmits

\* The Evidence of a caller is stored as it is, on a profile that is there.
LEMMA CommitRawWrites ==
    ASSUME IInv, NEW s \in Session, CommitRaw(s)
    PROVE  [Store!StoreNext]_(Store!storeVars)
<1>1. PICK e \in RawEvidence : e = session[s].evidence /\ db.profiles[e.profile] # Absent
  <2>1. session[s].phase = "raw" /\ SessionOK(s)
      BY DEF CommitRaw, IInv, SessionsOK
  <2>2. session[s] # Idle
      BY <2>1 DEF Idle
  <2> QED BY <2>1, <2>2 DEF SessionOK
<1>2. answers' = answers
    BY DEF CommitRaw
<1>3. CASE UNCHANGED db
    BY <1>2, <1>3, Unseen
<1>4. CASE Fresh(e.evidence_id) /\ Insert(e)
  <2>1. /\ db'.profiles = db.profiles /\ db'.bindings = db.bindings
        /\ db'.evidence = db.evidence \cup {e}
      BY <1>4, Inserted DEF WithEvidence
  <2>2. Store!Write(e)
      BY <1>1, <1>2, <1>4, <2>1, SameAdmitted DEF Store!Write, Store!Keep, Fresh
  <2> QED BY <2>1, <2>2 DEF Store!StoreNext
<1> QED BY <1>1, <1>3, <1>4 DEF CommitRaw

\* Other writers store a profile that is bound to nothing yet, or change a Task.
LEMMA OtherWriterStores ==
    ASSUME IInv,
           \/ \E t \in Task, st \in Status : CreateTask(t, st) \/ UpdateTask(t, st)
           \/ \E k \in ProfileId, b \in Dataset : CreateProfile(k, Profile[b])
    PROVE  [Store!StoreNext]_(Store!storeVars)
<1>1. ASSUME NEW t \in Task, NEW st \in Status, CreateTask(t, st) \/ UpdateTask(t, st)
      PROVE  UNCHANGED Store!storeVars
  <2>1. db' = [db EXCEPT !.tasks[t] = st] /\ answers' = answers
      BY <1>1 DEF CreateTask, UpdateTask, Autocommit
  <2> QED BY <2>1, Unseen DEF IInv, TablesOK
<1>2. ASSUME NEW k \in ProfileId, NEW b \in Dataset, CreateProfile(k, Profile[b])
      PROVE  Store!StoreNext
  <2>1. db' = [db EXCEPT !.profiles[k] = Profile[b]] /\ db.profiles[k] = Absent
        /\ answers' = answers
      BY <1>2 DEF CreateProfile, Autocommit
  <2>2. /\ db'.profiles = [db.profiles EXCEPT ![k] = Profile[b]]
        /\ db'.bindings = db.bindings /\ db'.evidence = db.evidence
      BY <2>1 DEF IInv, TablesOK
  <2>3. [w \in Work |-> Became(w)]' = [w \in Work |-> Became(w)]
      BY <2>1, SameAdmitted
  <2>4. Store!Store(k, b)
      BY <2>1, <2>2, <2>3 DEF Store!Store
  <2> QED BY <2>4 DEF Store!StoreNext
<1> QED BY <1>1, <1>2

\* Two services, their sessions, races, replays and failures implement a store
\* in which every change is one step, and which forgets and alters nothing.
THEOREM Refinement == Spec => ImplementsStore
<1>1. ASSUME IInv, OneEvidencePerWork, OneEvidencePerWork', [Next]_vars
      PROVE  [Store!StoreNext]_(Store!storeVars)
  <2>1. CASE UNCHANGED vars
      BY <2>1, Unseen DEF vars
  <2>2. CASE ExplorerNext /\ UNCHANGED tables
      BY <2>2, Unseen DEF tables
  <2>3. ASSUME NEW s \in Session, CommitProfile(s)
        PROVE  [Store!StoreNext]_(Store!storeVars)
      BY <1>1, <2>3, CommitProfileBinds
  <2>4. ASSUME NEW s \in Session, CommitEvidence(s)
        PROVE  [Store!StoreNext]_(Store!storeVars)
      BY <1>1, <2>4, CommitEvidenceAdmits
  <2>5. ASSUME NEW s \in Session,
               \/ \E c \in Candidate : CheckCandidate(s, c)
               \/ StageProfile(s) \/ AddEvidence(s) \/ Fail(s)
               \/ \E w \in Work : CheckEvidence(s, w)
               \/ \E e \in RawEvidence : AddRaw(s, e)
        PROVE  UNCHANGED Store!storeVars
    <3>1. db' = db /\ answers' = answers
        BY <2>5 DEF CheckCandidate, StageProfile, AddEvidence, Fail, CheckEvidence, AddRaw
    <3> QED BY <3>1, Unseen
  <2>6. ASSUME NEW s \in Session, NEW w \in Work, Replay(s, w)
        PROVE  [Store!StoreNext]_(Store!storeVars)
      BY <1>1, <2>6, ReplayAdmits
  <2>7. ASSUME NEW s \in Session, CommitRaw(s)
        PROVE  [Store!StoreNext]_(Store!storeVars)
      BY <1>1, <2>7, CommitRawWrites
  <2> QED BY <1>1, <2>1, <2>2, <2>3, <2>4, <2>5, <2>6, <2>7, OtherWriterStores DEF Next
<1> QED BY <1>1, Invariant, AdmittedOnce, StoreInitHolds, PTL
        DEF Spec, ImplementsStore, Store!StoreSpec

-----------------------------------------------------------------------------
(* What every implementation of the store has.                             *)

Entries == [w \in Work |-> Became(w)]

\* What a work became is what its operation observes in the bytes that its
\* profile is bound to now.
EntriesHold ==
    \A w \in Work : Entries[w] # Absent =>
        LET e == Entries[w] IN
        /\ e \in db.evidence /\ e.work = w
        /\ e.profile \in ProfileId /\ db.bindings[e.profile] # Absent
        /\ e.path = db.bindings[e.profile].path
        /\ e.content = Observed(e.content[1], db.bindings[e.profile].digest)

\* No two rows share an identity.
RowsDiffer == \A e, f \in db.evidence : e.evidence_id = f.evidence_id => e = f

StoreInv ==
    /\ db.profiles = [k \in ProfileId |-> db.profiles[k]]
    /\ db.bindings \in [ProfileId -> Bindings \cup {Absent}]
    /\ BindingsDescribeProfiles
    /\ RowsDiffer
    /\ EntriesHold

\* Bindings that stay keep what was computed from them.
LEMMA EntriesKept ==
    ASSUME EntriesHold, Entries' = Entries, db.evidence \subseteq db'.evidence,
           \A k \in ProfileId : db.bindings[k] # Absent => db'.bindings[k] = db.bindings[k]
    PROVE  EntriesHold'
BY DEF EntriesHold

\* The store alone promises that profiles and admitted Evidence stay true of the
\* bytes they name, and that no row takes the identity of another, whatever
\* callers store; and so does whatever implements it.
THEOREM StoreSuffices ==
    ImplementsStore => [](BindingsDescribeProfiles /\ RowsDiffer /\ EntriesHold)
<1>1. Store!StoreInit => StoreInv
  <2> SUFFICES ASSUME Store!StoreInit
               PROVE  StoreInv
      OBVIOUS
  <2>1. Entries = [w \in Work |-> Absent]
      BY DEF Store!StoreInit, Entries
  <2> QED BY <2>1 DEF Store!StoreInit, StoreInv, BindingsDescribeProfiles, RowsDiffer, EntriesHold
<1>2. StoreInv /\ [Store!StoreNext]_(Store!storeVars) => StoreInv'
  <2> SUFFICES ASSUME StoreInv, [Store!StoreNext]_(Store!storeVars)
               PROVE  StoreInv'
      OBVIOUS
  <2>1. ASSUME NEW k \in ProfileId, NEW b \in Dataset, Store!Store(k, b)
        PROVE  StoreInv'
    <3>1. /\ db.profiles[k] = Absent /\ db'.profiles = [db.profiles EXCEPT ![k] = Profile[b]]
          /\ db'.bindings = db.bindings /\ Entries' = Entries /\ db'.evidence = db.evidence
        BY <2>1 DEF Store!Store, Entries
    <3>2. db.bindings[k] = Absent
      <4>1. db.bindings[k] # Absent => db.bindings[k].digest \in Dataset
          BY DEF StoreInv, Bindings
      <4> QED BY <3>1, <4>1, AdmissionAssumption DEF StoreInv, BindingsDescribeProfiles
    <3>3. BindingsDescribeProfiles'
        BY <3>1, <3>2 DEF StoreInv, BindingsDescribeProfiles
    <3>4. EntriesHold'
        BY <3>1, EntriesKept DEF StoreInv
    <3> QED BY <3>1, <3>3, <3>4 DEF StoreInv, RowsDiffer
  <2>2. ASSUME NEW k \in ProfileId, NEW p \in Path, NEW b \in Dataset, Store!Bind(k, p, b)
        PROVE  StoreInv'
    <3> DEFINE x == [path |-> p, digest |-> b]
    <3>1. /\ db.bindings[k] = Absent /\ db'.profiles = [db.profiles EXCEPT ![k] = Profile[b]]
          /\ db'.bindings = [db.bindings EXCEPT ![k] = x] /\ Entries' = Entries
          /\ db'.evidence = db.evidence
        BY <2>2 DEF Store!Bind, Entries
    <3>2. x \in Bindings /\ x.digest = b
        BY DEF Bindings
    <3> HIDE DEF x
    <3>3. \A j \in ProfileId :
              /\ db'.bindings[j] = IF j = k THEN x ELSE db.bindings[j]
              /\ db'.profiles[j] = IF j = k THEN Profile[b] ELSE db.profiles[j]
        BY <3>1 DEF StoreInv
    <3>4. BindingsDescribeProfiles'
        BY <3>2, <3>3 DEF StoreInv, BindingsDescribeProfiles
    <3>5. EntriesHold'
        BY <3>1, <3>3, EntriesKept DEF StoreInv
    <3> QED BY <3>1, <3>2, <3>4, <3>5 DEF StoreInv, RowsDiffer
  <2>3. ASSUME NEW w \in Work, NEW k \in ProfileId, NEW e,
               NEW op \in Operation \cup {"dataset_profile"}, Store!Admit(w, k, op, e)
        PROVE  StoreInv'
    <3>1. /\ db.bindings[k] # Absent /\ Entries' = [Entries EXCEPT ![w] = e]
          /\ db'.profiles = db.profiles /\ db'.bindings = db.bindings
          /\ db'.evidence = db.evidence \cup {e}
          /\ \A f \in db.evidence : f.evidence_id = e.evidence_id => f = e
        BY <2>3 DEF Store!Admit, Store!Keep, Entries
    <3>2. /\ e.work = w /\ e.profile = k /\ e.path = db.bindings[k].path
          /\ e.content = Observed(op, db.bindings[k].digest) /\ e.content[1] = op
        BY <2>3 DEF Store!Admit, Store!Finding, Observed
    <3>3. \A v \in Work : Entries'[v] = IF v = w THEN e ELSE Entries[v]
        BY <3>1 DEF Entries
    <3>4. EntriesHold'
        BY <3>1, <3>2, <3>3 DEF StoreInv, EntriesHold
    <3>5. RowsDiffer'
        BY <3>1 DEF StoreInv, RowsDiffer
    <3> QED BY <3>1, <3>4, <3>5 DEF StoreInv, BindingsDescribeProfiles
  <2>5. ASSUME NEW e, Store!Write(e)
        PROVE  StoreInv'
    <3>1. /\ Entries' = Entries /\ db'.profiles = db.profiles /\ db'.bindings = db.bindings
          /\ db'.evidence = db.evidence \cup {e}
          /\ \A f \in db.evidence : f.evidence_id = e.evidence_id => f = e
        BY <2>5 DEF Store!Write, Store!Keep, Entries
    <3>2. EntriesHold'
        BY <3>1, EntriesKept DEF StoreInv
    <3>3. RowsDiffer'
        BY <3>1 DEF StoreInv, RowsDiffer
    <3> QED BY <3>1, <3>2, <3>3 DEF StoreInv, BindingsDescribeProfiles
  <2>4. CASE UNCHANGED Store!storeVars
    <3>1. /\ db'.profiles = db.profiles /\ db'.bindings = db.bindings /\ Entries' = Entries
          /\ db'.evidence = db.evidence
        BY <2>4 DEF Store!storeVars, Entries
    <3> QED BY <3>1, EntriesKept DEF StoreInv, BindingsDescribeProfiles, RowsDiffer
  <2> QED BY <2>1, <2>2, <2>3, <2>4, <2>5 DEF Store!StoreNext
<1>3. StoreInv => BindingsDescribeProfiles /\ RowsDiffer /\ EntriesHold
    BY DEF StoreInv
<1> QED BY <1>1, <1>2, <1>3, PTL DEF ImplementsStore, Store!StoreSpec

=============================================================================
