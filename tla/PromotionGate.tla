---------------------------- MODULE PromotionGate ----------------------------
(* The gate between what verifiers report and the Lawbook                    *)
(* (mathgraph/promotion_gate.py), on the envelopes it judges                 *)
(* (mathgraph/external_certificates.py). It is a function of one candidate,  *)
(* with its refusals tried in order. Verifiers are put in three classes,     *)
(* statuses and kinds in those the code tells apart.                         *)

CONSTANT Absent   \* None

Forms == {"VERIFIED_PROOF", "REFUTATION_CERTIFICATE", "NAMED_OBSTRUCTION", "NONE"}

\* Evidence: whether its boundary kind is one of the seven that promote, whether
\* it has a certificate id, whether it has a hash or an artifact.
Evidence == [terminal_form : Forms, promoting : BOOLEAN, identified : BOOLEAN,
             traced : BOOLEAN, advisory : BOOLEAN]

\* A certificate, and whether its maker says that its boundary is valid.
Certificate ==
    [verifier : {"proof assistant", "SMT solver", "other"},
     status : {"ACCEPTED", "UNSAT", "refuted", "failed", "PENDING"},
     certificate_kind : {"VERIFIED_PROOF", "refutation", "NAMED_OBSTRUCTION",
                         "ADVISORY_ONLY", Absent},
     proposed_terminal_form : Forms \cup {Absent},
     boundary_evidence : Evidence \cup {Absent},
     claims_boundary : BOOLEAN,
     finite_search_miss : BOOLEAN, raw_success_text : BOOLEAN,
     unsat_proves_claim : BOOLEAN, countermodel : BOOLEAN]

is_valid_boundary(ev) ==
    /\ ev # Absent /\ ev.identified /\ ev.terminal_form # "NONE"
    /\ ev.promoting /\ ev.traced /\ ~ev.advisory

\* The attribute, as it is after __post_init__.
boundary_valid(cert) == cert.claims_boundary /\ is_valid_boundary(cert.boundary_evidence)

\* The form of a certificate that names neither a form nor a kind.
FormOfStatus(cert) ==
    CASE cert.status = "PENDING" -> "NONE"
      [] \/ cert.status \in {"ACCEPTED", "UNSAT"} /\ cert.verifier = "proof assistant"
         \/ cert.status = "UNSAT" /\ cert.verifier = "SMT solver" /\ cert.unsat_proves_claim
            -> "VERIFIED_PROOF"
      [] cert.status = "refuted" /\ cert.countermodel -> "REFUTATION_CERTIFICATE"
      [] OTHER -> "NAMED_OBSTRUCTION"

candidate_terminal_form(cert) ==
    IF cert.proposed_terminal_form # Absent THEN cert.proposed_terminal_form
    ELSE CASE cert.certificate_kind = "refutation"    -> "REFUTATION_CERTIFICATE"
           [] cert.certificate_kind = "ADVISORY_ONLY" -> "NONE"
           [] cert.certificate_kind = Absent          -> FormOfStatus(cert)
           [] OTHER                                   -> cert.certificate_kind

DecisionKinds == {"ACCEPT_FOR_LAWBOOK", "REJECT_ADVISORY_ONLY", "REJECT_INVALID_BOUNDARY",
                  "REJECT_TERMINAL_MISMATCH", "REJECT_FINITE_SEARCH_MISS", "NEEDS_REPLAY",
                  "NAMED_OBSTRUCTION_ONLY"}

\* Mutant: the evidence is not asked what it is evidence of.
evaluate_external_certificate_AnyForm(cert) ==
    LET form == candidate_terminal_form(cert) IN
    IF cert.finite_search_miss /\ form = "VERIFIED_PROOF" THEN "REJECT_FINITE_SEARCH_MISS"
    ELSE IF cert.raw_success_text /\ ~boundary_valid(cert) THEN "REJECT_INVALID_BOUNDARY"
    ELSE IF cert.certificate_kind = "ADVISORY_ONLY" \/ form = "NONE" THEN "REJECT_ADVISORY_ONLY"
    ELSE IF form = "NAMED_OBSTRUCTION" THEN "NAMED_OBSTRUCTION_ONLY"
    ELSE IF ~boundary_valid(cert) THEN "REJECT_INVALID_BOUNDARY"
    ELSE "ACCEPT_FOR_LAWBOOK"

evaluate_external_certificate(cert) ==
    LET form == candidate_terminal_form(cert) IN
    IF cert.finite_search_miss /\ form = "VERIFIED_PROOF" THEN "REJECT_FINITE_SEARCH_MISS"
    ELSE IF cert.raw_success_text /\ ~boundary_valid(cert) THEN "REJECT_INVALID_BOUNDARY"
    ELSE IF cert.certificate_kind = "ADVISORY_ONLY" \/ form = "NONE" THEN "REJECT_ADVISORY_ONLY"
    ELSE IF form = "NAMED_OBSTRUCTION" THEN "NAMED_OBSTRUCTION_ONLY"
    ELSE IF ~boundary_valid(cert) THEN "REJECT_INVALID_BOUNDARY"
    ELSE IF cert.boundary_evidence.terminal_form # form THEN "REJECT_TERMINAL_MISMATCH"
    ELSE "ACCEPT_FOR_LAWBOOK"

\* The entry that is put before the Lawbook: every refutation is filed as a
\* finite countermodel.
lawbook_candidate(cert) ==
    IF candidate_terminal_form(cert) = "VERIFIED_PROOF" THEN "VERIFIED_PROOF"
                                                        ELSE "FINITE_COUNTERMODEL"

\* Evidence that is handed to the gate without a certificate, of one of three
\* classes. That of a verifier's execution has a text for its terminal form and
\* no boundary kind; the others have enumeration members for both.
BareEvidence ==
    [class : {"execution", "proof system", "external"}, terminal_form : Forms, valid : BOOLEAN]

\* The certificate that the gate makes for it.
EnvelopeOf(ev) ==
    [verifier |-> "other", status |-> "ACCEPTED",
     certificate_kind |-> IF ev.terminal_form = "VERIFIED_PROOF" THEN "VERIFIED_PROOF"
                                                                 ELSE "refutation",
     proposed_terminal_form |-> ev.terminal_form,
     boundary_evidence |-> [terminal_form |-> ev.terminal_form,
                            promoting |-> ev.class # "execution",
                            identified |-> TRUE, traced |-> TRUE, advisory |-> FALSE],
     claims_boundary |-> TRUE, finite_search_miss |-> FALSE, raw_success_text |-> FALSE,
     unsat_proves_claim |-> FALSE, countermodel |-> FALSE]

\* str() of an enumeration member has its class's name in front, and so is the
\* name of no form.
evaluate_boundary_evidence(ev) ==
    IF ~ev.valid THEN "REJECT_INVALID_BOUNDARY"
    ELSE IF ev.class # "execution" \/ ev.terminal_form \notin {"VERIFIED_PROOF", "REFUTATION_CERTIFICATE"}
         THEN "REJECT_TERMINAL_MISMATCH"
         ELSE evaluate_external_certificate(EnvelopeOf(ev))

\* What may be put before the Lawbook, said without the gate: a certificate of
\* a proof or a refutation that is not advisory, that carries valid evidence of
\* that very form, and whose proof is not the failure to find a countermodel.
Backed(cert) ==
    LET form == candidate_terminal_form(cert) IN
    /\ boundary_valid(cert) /\ cert.boundary_evidence.terminal_form = form
    /\ form \in {"VERIFIED_PROOF", "REFUTATION_CERTIFICATE"}
    /\ cert.certificate_kind # "ADVISORY_ONLY"
    /\ form = "VERIFIED_PROOF" => ~cert.finite_search_miss
=============================================================================
