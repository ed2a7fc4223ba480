-------------------------- MODULE LawbookAdmission --------------------------
(* What may enter the durable Lawbook (mathgraph/lawbook_admission.py), what *)
(* is made of a certificate that is put in directly                          *)
(* (mathgraph/lawbook_boundary.py, lawbook_ingest.py), and what table        *)
(* artifacts takes (mathgraph/lawbook_store.py). All are functions of one    *)
(* artifact. Of evidence only is kept whether each part of it is there.      *)
EXTENDS Integers, PromotionGate

ArtifactKind ==
    {"advisory_route", "reason_motif", "decode_candidate", "finite_countermodel_candidate",
     "finite_countermodel_verified", "proof_template", "lean_proof_verified", "named_obstruction",
     "derived_certificate", "fallback_smoke_artifact", "failed_finite_search", "unknown"}

AdmissionEvidence ==
    [verifier_passed : BOOLEAN, source_satisfied : BOOLEAN, target_violated : BOOLEAN,
     concrete_witness : BOOLEAN, carrier_size : BOOLEAN, lean_verified : BOOLEAN,
     proof_artifact : BOOLEAN, replayable : BOOLEAN, bounded : BOOLEAN, provenance : BOOLEAN,
     fallback_only : BOOLEAN, decode_success : BOOLEAN, linked_verified_artifact : BOOLEAN,
     obstruction_name : BOOLEAN, failure_trace : BOOLEAN, scope : BOOLEAN,
     supporting_failed_routes : BOOLEAN, verifier_backed_negative : BOOLEAN,
     failed_finite_search : BOOLEAN, claims_true : BOOLEAN]

LawbookAdmissionPolicy ==
    [require_replayable_for_durable : BOOLEAN, strict_provenance : BOOLEAN,
     allow_bounded_obstruction_without_replay : BOOLEAN]

AdmissionLevel == {"rejected", "advisory_only", "candidate", "bounded_verified",
                   "finite_verified", "durable_lawbook"}

\* A decision: the kind the artifact is taken for, and how far it gets.
Decision(kind, level) == [kind |-> kind, level |-> level]
durable(decision) == decision.level = "durable_lawbook"
accepted(decision) == decision.level # "rejected"

finite_countermodel_decision(kind, ev, pol) ==
    IF /\ ev.verifier_passed /\ ev.source_satisfied /\ ev.target_violated
       /\ ev.concrete_witness /\ ev.carrier_size /\ ev.provenance
       /\ ev.replayable \/ ~pol.require_replayable_for_durable
    THEN Decision("finite_countermodel_verified", "durable_lawbook")
    ELSE IF ev.verifier_passed /\ ev.source_satisfied /\ ev.target_violated
         THEN Decision(kind, "finite_verified")
         ELSE Decision(kind, "candidate")

lean_decision(kind, ev, pol) ==
    IF /\ ev.lean_verified /\ ev.proof_artifact /\ ev.provenance
       /\ ev.replayable \/ ~pol.require_replayable_for_durable
    THEN Decision(kind, "durable_lawbook")
    ELSE Decision(kind, "candidate")

obstruction_decision(kind, ev, pol) ==
    IF /\ ev.obstruction_name /\ ev.failure_trace /\ ev.scope
       /\ ev.supporting_failed_routes \/ ev.verifier_backed_negative
       /\ ev.replayable \/ (pol.allow_bounded_obstruction_without_replay /\ ev.bounded)
    THEN Decision(kind, "durable_lawbook")
    ELSE Decision(kind, "candidate")

\* Motifs and decoded candidates, which nothing makes durable.
routing_decision(kind, ev) ==
    CASE kind = "reason_motif" /\ (ev.decode_success \/ ev.linked_verified_artifact)
            -> Decision(kind, "candidate")
      [] kind = "decode_candidate" /\ ev.decode_success /\ ev.linked_verified_artifact
            -> Decision(kind, "bounded_verified")
      [] kind = "decode_candidate" /\ ~(ev.decode_success /\ ev.linked_verified_artifact)
            -> Decision(kind, "candidate")
      [] OTHER -> Decision(kind, "advisory_only")

evaluate_artifact(kind, ev, pol) ==
    IF ev.claims_true /\ ev.failed_finite_search THEN Decision(kind, "rejected")
    ELSE IF kind = "fallback_smoke_artifact" \/ ev.fallback_only THEN Decision(kind, "advisory_only")
    ELSE IF pol.strict_provenance /\ ~ev.provenance
         THEN Decision(kind, IF kind \in {"advisory_route", "reason_motif", "decode_candidate",
                                          "proof_template"}
                             THEN "advisory_only" ELSE "rejected")
    ELSE CASE kind \in {"finite_countermodel_verified", "finite_countermodel_candidate"}
                 -> finite_countermodel_decision(kind, ev, pol)
           [] kind = "lean_proof_verified" -> lean_decision(kind, ev, pol)
           [] kind = "named_obstruction"   -> obstruction_decision(kind, ev, pol)
           [] OTHER                        -> routing_decision(kind, ev)
-----------------------------------------------------------------------------
\* Table artifacts, and the rows it takes: a form that claims something needs
\* the boundary that goes with it, and full trust.
VerifiedForms == {"VERIFIED_PROOF", "FINITE_COUNTERMODEL", "NAMED_OBSTRUCTION"}
VERIFIED_TERMINAL_BOUNDARIES(form) ==
    CASE form = "VERIFIED_PROOF"      -> {"lean", "proof_checker", "derived_verified"}
      [] form = "FINITE_COUNTERMODEL" -> {"finite_model_checker", "derived_verified"}
      [] form = "NAMED_OBSTRUCTION"   -> {"obstruction_audit", "derived_obstruction"}
      [] OTHER                        -> {}

\* Whether insert_artifact does not raise.
validate_terminal_boundary(row) ==
    \/ row.terminal_form \in {"ADVISORY", "CANDIDATE", "NONE"}
    \/ /\ row.boundary_type \in VERIFIED_TERMINAL_BOUNDARIES(row.terminal_form)
       /\ row.trust_level >= 100

\* The row of an accepted artifact, of which its maker says it has this form.
\* The empty text for a boundary is called "empty".
admit_to_store(form, decision) ==
    IF durable(decision)
    THEN [terminal_form |-> CASE decision.kind = "lean_proof_verified" -> "VERIFIED_PROOF"
                              [] decision.kind = "named_obstruction"   -> "NAMED_OBSTRUCTION"
                              [] OTHER                                 -> "FINITE_COUNTERMODEL",
          boundary_type |-> CASE decision.kind = "lean_proof_verified" -> "proof_checker"
                              [] decision.kind = "named_obstruction"   -> "obstruction_audit"
                              [] OTHER                                 -> "finite_model_checker",
          trust_level |-> 100, durable |-> TRUE]
    ELSE [terminal_form |-> IF form \in VerifiedForms THEN "ADVISORY" ELSE form,
          boundary_type |-> "empty", trust_level |-> 0, durable |-> FALSE]

\* The row of a certificate that is put in directly, with the boundary kind
\* its evidence names. NONE stands for the kinds the Lawbook has no name for.
BoundaryKinds == {"FINITE_CHECKED", "LEAN_TYPECHECKED", "CHAIN_AUDITED",
                  "TRUSTED_IMPORT_REVALIDATED", "NONE"}
boundary_type(kind) ==
    CASE kind = "FINITE_CHECKED"             -> "finite_model_checker"
      [] kind = "LEAN_TYPECHECKED"           -> "proof_checker"
      [] kind = "CHAIN_AUDITED"              -> "chain_audit"
      [] kind = "TRUSTED_IMPORT_REVALIDATED" -> "trusted_import"
      [] kind = "NONE"                       -> "none"

ingest_external_certificate(cert, boundary_kind) ==
    IF evaluate_external_certificate(cert) = "ACCEPT_FOR_LAWBOOK"
    THEN [terminal_form |-> lawbook_candidate(cert), boundary_type |-> boundary_type(boundary_kind),
          trust_level |-> 100, durable |-> TRUE]
    ELSE [terminal_form |-> "ADVISORY", boundary_type |-> "none",
          trust_level |-> 10, durable |-> FALSE]

ingest_named_obstruction ==
    [terminal_form |-> "NAMED_OBSTRUCTION", boundary_type |-> "empty", trust_level |-> 40,
     durable |-> FALSE]
=============================================================================
