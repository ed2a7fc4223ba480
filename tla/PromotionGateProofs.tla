------------------------ MODULE PromotionGateProofs ------------------------
(* What the promotion gate decides, for every certificate.                   *)
EXTENDS PromotionGate, TLAPS

\* A certificate always has one of the four terminal forms.
LEMMA FormIsKnown ==
    ASSUME NEW c \in Certificate
    PROVE  candidate_terminal_form(c) \in Forms
<1>1. CASE c.proposed_terminal_form # Absent
      BY <1>1 DEF Certificate, candidate_terminal_form
<1>2. CASE c.proposed_terminal_form = Absent
  <2>1. FormOfStatus(c) \in Forms
        BY DEF FormOfStatus, Forms
  <2>2. c.certificate_kind \in {"VERIFIED_PROOF", "refutation", "NAMED_OBSTRUCTION",
                                "ADVISORY_ONLY", Absent}
        BY DEF Certificate
  <2> QED BY <1>2, <2>1, <2>2 DEF candidate_terminal_form, Forms
<1> QED BY <1>1, <1>2

\* The gate (PromotionGate._evaluate_external_certificate), which tries its six
\* refusals in order, accepts exactly the certificates that are backed.
THEOREM GateAcceptsBacked ==
    ASSUME NEW c \in Certificate
    PROVE  evaluate_external_certificate(c) = "ACCEPT_FOR_LAWBOOK" <=> Backed(c)
<1> DEFINE form == candidate_terminal_form(c)
<1>1. form \in Forms  BY FormIsKnown
<1>2. CASE form = "NONE" \/ form = "NAMED_OBSTRUCTION"
      BY <1>2 DEF evaluate_external_certificate, Backed
<1>3. CASE form = "VERIFIED_PROOF" \/ form = "REFUTATION_CERTIFICATE"
      BY <1>3 DEF evaluate_external_certificate, Backed
<1> QED BY <1>1, <1>2, <1>3 DEF Forms

\* The entry that is put before the Lawbook for a certificate the gate accepts
\* is filed as a proof just when the evidence is of a proof.
THEOREM CandidateIsOfEvidence ==
    ASSUME NEW c \in Certificate,
           evaluate_external_certificate(c) = "ACCEPT_FOR_LAWBOOK"
    PROVE  /\ is_valid_boundary(c.boundary_evidence)
           /\ lawbook_candidate(c) = "VERIFIED_PROOF"
                  <=> c.boundary_evidence.terminal_form = "VERIFIED_PROOF"
<1>1. Backed(c)  BY GateAcceptsBacked
<1> QED BY <1>1 DEF Backed, boundary_valid, lawbook_candidate

\* A bare piece of evidence, of whichever class, never gets past the gate
\* (PromotionGate._evaluate_boundary_evidence): what has a kind that promotes
\* fails on its form, and what has a form that does fails on its kind.
THEOREM BareEvidenceIsRefused ==
    ASSUME NEW ev \in BareEvidence
    PROVE  evaluate_boundary_evidence(ev) # "ACCEPT_FOR_LAWBOOK"
<1>1. CASE ev.class # "execution"
      BY <1>1 DEF evaluate_boundary_evidence
<1>2. CASE ev.class = "execution"
  <2>1. ~boundary_valid(EnvelopeOf(ev))
        BY <1>2 DEF boundary_valid, is_valid_boundary, EnvelopeOf
  <2>2. evaluate_external_certificate(EnvelopeOf(ev)) # "ACCEPT_FOR_LAWBOOK"
        BY <2>1 DEF evaluate_external_certificate
  <2> QED BY <1>2, <2>2 DEF evaluate_boundary_evidence
<1> QED BY <1>1, <1>2
=============================================================================
