--------------------------- MODULE EvidenceStore ---------------------------
(***************************************************************************)
(* What data admission promises, with no sessions, requests or failures:   *)
(* a profile is bound once, to bytes it describes; a work is admitted      *)
(* once, with Evidence of what an operation observes in the bytes its      *)
(* profile is bound to; callers may store Evidence of their own on any     *)
(* profile; and nothing stored ever changes.                               *)
(***************************************************************************)
CONSTANTS
    ProfileId, Work, Path, Dataset,
    Profile,      \* the profile of each content
    Operation,    \* analyses
    Absent

VARIABLES
    profile,   \* content of each stored DataProfile
    binding,   \* path and digest each one is bound to
    evidence,  \* stored Evidence
    admitted   \* the Evidence each work was admitted with

storeVars == <<profile, binding, evidence, admitted>>

StoreInit ==
    /\ profile = [k \in ProfileId |-> Absent]
    /\ binding = [k \in ProfileId |-> Absent]
    /\ evidence = {}
    /\ admitted = [w \in Work |-> Absent]

\* A DataProfile of some bytes, stored without saying of which.
Store(k, b) ==
    /\ profile[k] = Absent
    /\ profile' = [profile EXCEPT ![k] = Profile[b]]
    /\ UNCHANGED <<binding, evidence, admitted>>

\* The profile of a candidate with its binding, or the binding its profile lacks.
Bind(k, p, b) ==
    /\ profile[k] \in {Profile[b], Absent}
    /\ binding[k] = Absent
    /\ profile' = [profile EXCEPT ![k] = Profile[b]]
    /\ binding' = [binding EXCEPT ![k] = [path |-> p, digest |-> b]]
    /\ UNCHANGED <<evidence, admitted>>

Finding(op, b) == <<op, IF op = "dataset_profile" THEN Profile[b] ELSE b>>

\* A row under an identity of its own, or the very row that is there.
Keep(e) ==
    /\ \A f \in evidence : f.evidence_id = e.evidence_id => f = e
    /\ evidence' = evidence \cup {e}
    /\ UNCHANGED <<profile, binding>>

\* What a caller stores is of a stored profile, and says what it likes.
Write(e) == profile[e.profile] # Absent /\ Keep(e) /\ UNCHANGED admitted

Admit(w, k, op, e) ==
    /\ admitted[w] = Absent
    /\ binding[k] # Absent
    /\ e.work = w /\ e.profile = k /\ e.path = binding[k].path
    /\ e.content = Finding(op, binding[k].digest)
    /\ Keep(e)
    /\ admitted' = [admitted EXCEPT ![w] = e]

StoreNext ==
    \/ \E k \in ProfileId, b \in Dataset :
           Store(k, b) \/ \E p \in Path : Bind(k, p, b)
    \/ \E e \in evidence' :
           \/ Write(e)
           \/ \E w \in Work, k \in ProfileId, op \in Operation \cup {"dataset_profile"} :
                  Admit(w, k, op, e)

StoreSpec == StoreInit /\ [][StoreNext]_storeVars

=============================================================================
