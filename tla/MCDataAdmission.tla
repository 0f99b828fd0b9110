--------------------------- MODULE MCDataAdmission ---------------------------
(* Two contents with one profile, one with another and one no loader reads. *)
EXTENDS DataAdmission, TLC

CONSTANTS b1, b2, b3, bad, k1, k2, t1, t2, f1, f2, s1, s2, count, w1

MCDataset == {b1, b2, b3, bad}
MCProfile == [b \in MCDataset |-> IF b = b3 THEN "wide" ELSE "narrow"]

Ask(c, t, p, k, x) ==
    [capability |-> c, task |-> t, path |-> p, profile |-> k,
     projection |-> IF x = Absent THEN Absent ELSE [id |-> k, content |-> x]]
MCRequest ==
    {Ask("analysis", t1, f1, k1, "narrow"), Ask("analysis", t1, f2, k1, "narrow"),
     Ask("analysis", t1, f1, k1, "wide"), [Ask("analysis", t1, f1, k2, "wide") EXCEPT !.profile = k1],
     Ask("analysis", t1, f1, k1, Absent), Ask("analysis", t2, f1, k1, "narrow"),
     Ask("profiling", t1, f1, k1, Absent), Ask("profiling", t1, f1, Absent, Absent),
     Ask("transformation", t1, f1, k1, Absent)}

MCInapplicable == {<<b2, count>>}

\* Evidence of a caller that names the work, under the identity the service
\* derives from the work, of a content nobody observed for it.
MCRawEvidence ==
    {[evidence_id |-> <<t1, w1, k1, b1, Observed(count, b1)>>, task |-> t1, work |-> w1,
      profile |-> k1, path |-> f1, content |-> Observed(count, b2)]}

MCSymmetry == Permutations({s1, s2})
=============================================================================
