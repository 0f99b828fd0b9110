--------------------------- MODULE AttemptLedger ---------------------------
(***************************************************************************)
(* What the durable execution-attempt protocol promises, with no leases,   *)
(* versions, clocks or sessions: an attempt is opened once, is held under  *)
(* ever newer tokens and ends once and for all. At most one run follows    *)
(* another. A run brought from outside follows what it says it follows; a  *)
(* run the protocol opens itself follows one that has ended.               *)
(***************************************************************************)
EXTENDS Naturals

CONSTANTS
    Run,    \* the identities an attempt may have
    Given,  \* those brought from outside; the protocol draws the others
    NoRun   \* not an identity: the predecessor of an attempt that retries nothing

VARIABLES
    phase,    \* [Run -> Phase]
    token,    \* [Run -> Nat], the fencing token of the last grant
    follows   \* [Run -> Run \cup {NoRun}], the attempt this one retries

ledgerVars == <<phase, token, follows>>

\* "parked" is a run recorded by the provenance repository before any attempt
\* protocol existed: it can only end.
Phase == {"absent", "parked", "open", "held", "ended"}

LedgerTypeOK ==
    /\ phase \in [Run -> Phase]
    /\ token \in [Run -> Nat]
    /\ follows \in [Run -> Run \cup {NoRun}]

LedgerInit ==
    /\ phase = [r \in Run |-> "absent"]
    /\ token = [r \in Run |-> 0]
    /\ follows = [r \in Run |-> NoRun]

Enter(r, ph) ==
    /\ phase[r] = "absent"
    /\ phase' = [phase EXCEPT ![r] = ph]

Unfollowed(p) == \A q \in Run : follows[q] # p

\* A new attempt, or a run recorded as already finished or still parked. What it
\* says it follows need not have ended, nor exist.
Open(r, p) ==
    /\ p = NoRun \/ Unfollowed(p)
    /\ \E ph \in {"parked", "open", "ended"} : Enter(r, ph)
    /\ follows' = [follows EXCEPT ![r] = p]
    /\ UNCHANGED token

\* Every grant carries a token no earlier holder of the attempt has.
Grant(r) ==
    /\ phase[r] \in {"open", "held"}
    /\ phase' = [phase EXCEPT ![r] = "held"]
    /\ token' = [token EXCEPT ![r] = @ + 1]
    /\ UNCHANGED follows

Return(r) ==
    /\ phase[r] = "held"
    /\ phase' = [phase EXCEPT ![r] = "open"]
    /\ UNCHANGED <<token, follows>>

\* One attempt is cancelled, or a start abandons all unfinished ones at once.
End(S) ==
    /\ S # {}
    /\ \A r \in S : phase[r] \in {"parked", "open", "held"}
    /\ phase' = [r \in Run |-> IF r \in S THEN "ended" ELSE phase[r]]
    /\ UNCHANGED <<token, follows>>

Continue(r, s) ==
    /\ phase[r] = "ended"
    /\ Unfollowed(r)
    /\ Enter(s, "open")
    /\ follows' = [follows EXCEPT ![s] = r]
    /\ UNCHANGED token

LedgerNext ==
    \/ \E r \in Given, p \in Run \cup {NoRun} : Open(r, p)
    \/ \E r \in Run : Grant(r) \/ Return(r)
    \/ \E S \in SUBSET Run : End(S)
    \/ \E r \in Run, s \in Run \ Given : Continue(r, s)

LedgerSpec == LedgerInit /\ [][LedgerNext]_ledgerVars
=============================================================================
