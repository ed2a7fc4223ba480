------------------------- MODULE LawbookMemoryProofs -------------------------
(* What the durable Lawbook admits, for every artifact and certificate, and  *)
(* what the episodes that learn from it leave in it, for any number of       *)
(* runners, episodes, tasks, modes and kills.                                *)
EXTENDS LawbookMemory, PromotionGateProofs, FiniteSetTheorems

-----------------------------------------------------------------------------
(* The admission gate.                                                       *)

\* The evidence without which no artifact is durable, by the kind it is taken for.
Evidenced(kind, ev, pol) ==
    \/ /\ kind = "finite_countermodel_verified"
       /\ ev.verifier_passed /\ ev.source_satisfied /\ ev.target_violated
       /\ ev.concrete_witness /\ ev.carrier_size /\ ev.provenance
       /\ pol.require_replayable_for_durable => ev.replayable
    \/ /\ kind = "lean_proof_verified"
       /\ ev.lean_verified /\ ev.proof_artifact /\ ev.provenance
       /\ pol.require_replayable_for_durable => ev.replayable
    \/ /\ kind = "named_obstruction"
       /\ ev.obstruction_name /\ ev.failure_trace /\ ev.scope
       /\ ev.supporting_failed_routes \/ ev.verifier_backed_negative
       /\ ev.replayable \/ ev.bounded

\* LawbookAdmissionGate.evaluate_artifact: whatever an artifact calls itself, it
\* is durable only with the evidence of its kind, and never as a fallback or
\* as a failed search that claims to be the truth.
THEOREM DurableIsEvidenced ==
    ASSUME NEW kind \in ArtifactKind, NEW ev \in AdmissionEvidence,
           NEW pol \in LawbookAdmissionPolicy,
           durable(evaluate_artifact(kind, ev, pol))
    PROVE  /\ Evidenced(evaluate_artifact(kind, ev, pol).kind, ev, pol)
           /\ ~ev.fallback_only /\ kind # "fallback_smoke_artifact"
           /\ ~(ev.claims_true /\ ev.failed_finite_search)
<1> DEFINE d == evaluate_artifact(kind, ev, pol)
<1>1. /\ ~(ev.claims_true /\ ev.failed_finite_search)
      /\ ~ev.fallback_only /\ kind # "fallback_smoke_artifact"
      BY DEF evaluate_artifact, durable, Decision
<1>2. CASE pol.strict_provenance /\ ~ev.provenance
      BY <1>1, <1>2 DEF evaluate_artifact, durable, Decision
<1>3. CASE ~(pol.strict_provenance /\ ~ev.provenance)
  <2>1. CASE kind \in {"finite_countermodel_verified", "finite_countermodel_candidate"}
    <3>1. d = finite_countermodel_decision(kind, ev, pol)
          BY <1>1, <1>3, <2>1 DEF evaluate_artifact
    <3> QED BY <1>1, <3>1 DEF finite_countermodel_decision, Evidenced, durable, Decision
  <2>2. CASE kind = "lean_proof_verified"
    <3>1. d = lean_decision(kind, ev, pol)
          BY <1>1, <1>3, <2>2 DEF evaluate_artifact
    <3> QED BY <1>1, <2>2, <3>1 DEF lean_decision, Evidenced, durable, Decision
  <2>3. CASE kind = "named_obstruction"
    <3>1. d = obstruction_decision(kind, ev, pol)
          BY <1>1, <1>3, <2>3 DEF evaluate_artifact
    <3> QED BY <1>1, <2>3, <3>1 DEF obstruction_decision, Evidenced, durable, Decision
  <2>4. CASE kind \notin {"finite_countermodel_verified", "finite_countermodel_candidate",
                          "lean_proof_verified", "named_obstruction"}
    <3>1. d = routing_decision(kind, ev)
          BY <1>1, <1>3, <2>4 DEF evaluate_artifact
    <3>2. d.level \in {"candidate", "bounded_verified", "advisory_only"}
          BY <3>1 DEF routing_decision, Decision
    <3> QED BY <3>2 DEF durable
  <2> QED BY <2>1, <2>2, <2>3, <2>4
<1> QED BY <1>2, <1>3

\* How far an artifact gets, as a number.
Height(level) ==
    CASE level = "rejected"         -> 0
      [] level = "advisory_only"    -> 1
      [] level = "candidate"        -> 2
      [] level = "bounded_verified" -> 3
      [] level = "finite_verified"  -> 4
      [] level = "durable_lawbook"  -> 5

\* Everything ev has in favour of the artifact is in more, and nothing more
\* has against it is not in ev. That it is a fallback counts against it.
AtLeast(more, ev) ==
    /\ ev.verifier_passed => more.verifier_passed
    /\ ev.source_satisfied => more.source_satisfied
    /\ ev.target_violated => more.target_violated
    /\ ev.concrete_witness => more.concrete_witness
    /\ ev.carrier_size => more.carrier_size
    /\ ev.lean_verified => more.lean_verified
    /\ ev.proof_artifact => more.proof_artifact
    /\ ev.replayable => more.replayable
    /\ ev.bounded => more.bounded
    /\ ev.provenance => more.provenance
    /\ ev.decode_success => more.decode_success
    /\ ev.linked_verified_artifact => more.linked_verified_artifact
    /\ ev.obstruction_name => more.obstruction_name
    /\ ev.failure_trace => more.failure_trace
    /\ ev.scope => more.scope
    /\ ev.supporting_failed_routes => more.supporting_failed_routes
    /\ ev.verifier_backed_negative => more.verifier_backed_negative
    /\ more.fallback_only => ev.fallback_only
    /\ more.failed_finite_search => ev.failed_finite_search
    /\ more.claims_true => ev.claims_true

\* A policy that asks for no more.
AsLenient(lax, pol) ==
    /\ lax.require_replayable_for_durable => pol.require_replayable_for_durable
    /\ lax.strict_provenance => pol.strict_provenance
    /\ pol.allow_bounded_obstruction_without_replay =>
          lax.allow_bounded_obstruction_without_replay

\* The part of the gate that is particular to a kind.
KindDecision(kind, ev, pol) ==
    CASE kind \in {"finite_countermodel_verified", "finite_countermodel_candidate"}
                 -> finite_countermodel_decision(kind, ev, pol)
      [] kind = "lean_proof_verified" -> lean_decision(kind, ev, pol)
      [] kind = "named_obstruction"   -> obstruction_decision(kind, ev, pol)
      [] OTHER                        -> routing_decision(kind, ev)

LEMMA KindIsMonotone ==
    ASSUME NEW kind \in ArtifactKind, NEW ev \in AdmissionEvidence, NEW more \in AdmissionEvidence,
           NEW pol \in LawbookAdmissionPolicy, NEW lax \in LawbookAdmissionPolicy,
           AtLeast(more, ev), AsLenient(lax, pol)
    PROVE  /\ Height(KindDecision(kind, ev, pol).level) \in 1 .. 5
           /\ Height(KindDecision(kind, ev, pol).level)
                 <= Height(KindDecision(kind, more, lax).level)
<1>1. CASE kind \in {"finite_countermodel_verified", "finite_countermodel_candidate"}
  <2>1. /\ KindDecision(kind, ev, pol) = finite_countermodel_decision(kind, ev, pol)
        /\ KindDecision(kind, more, lax) = finite_countermodel_decision(kind, more, lax)
        BY <1>1 DEF KindDecision
  <2> QED BY <2>1 DEF finite_countermodel_decision, Decision, Height, AtLeast, AsLenient
<1>2. CASE kind = "lean_proof_verified"
  <2>1. /\ KindDecision(kind, ev, pol) = lean_decision(kind, ev, pol)
        /\ KindDecision(kind, more, lax) = lean_decision(kind, more, lax)
        BY <1>2 DEF KindDecision
  <2> QED BY <2>1 DEF lean_decision, Decision, Height, AtLeast, AsLenient
<1>3. CASE kind = "named_obstruction"
  <2>1. /\ KindDecision(kind, ev, pol) = obstruction_decision(kind, ev, pol)
        /\ KindDecision(kind, more, lax) = obstruction_decision(kind, more, lax)
        BY <1>3 DEF KindDecision
  <2> QED BY <2>1 DEF obstruction_decision, Decision, Height, AtLeast, AsLenient
<1>4. CASE kind \notin {"finite_countermodel_verified", "finite_countermodel_candidate",
                        "lean_proof_verified", "named_obstruction"}
  <2>1. /\ KindDecision(kind, ev, pol) = routing_decision(kind, ev)
        /\ KindDecision(kind, more, lax) = routing_decision(kind, more)
        BY <1>4 DEF KindDecision
  <2> QED BY <2>1 DEF routing_decision, Decision, Height, AtLeast
<1> QED BY <1>1, <1>2, <1>3, <1>4

\* LawbookAdmissionGate.evaluate_artifact is monotone: an artifact does not lose
\* ground because more is known in its favour, or because the policy asks for
\* less. The one exception is a fallback, which is taken as advice before its
\* provenance is asked for: one without provenance is rejected by a strict
\* policy when it is no fallback. What is durable stays durable even so.
THEOREM EvidenceNeverHurts ==
    ASSUME NEW kind \in ArtifactKind, NEW ev \in AdmissionEvidence, NEW more \in AdmissionEvidence,
           NEW pol \in LawbookAdmissionPolicy, NEW lax \in LawbookAdmissionPolicy,
           AtLeast(more, ev), AsLenient(lax, pol)
    PROVE  LET before == evaluate_artifact(kind, ev, pol)
               after == evaluate_artifact(kind, more, lax)
           IN /\ durable(before) => durable(after)
              /\ more.fallback_only = ev.fallback_only =>
                    Height(before.level) <= Height(after.level)
<1> DEFINE before == evaluate_artifact(kind, ev, pol)
           after == evaluate_artifact(kind, more, lax)
           Refuses(e) == e.claims_true /\ e.failed_finite_search
           Falls(e) == kind = "fallback_smoke_artifact" \/ e.fallback_only
           Lacks(e, p) == p.strict_provenance /\ ~e.provenance
<1>1. /\ Refuses(more) => Refuses(ev)
      /\ Falls(more) => Falls(ev)
      /\ Lacks(more, lax) => Lacks(ev, pol)
      BY DEF AtLeast, AsLenient
<1>2. ASSUME NEW e \in AdmissionEvidence, NEW p \in LawbookAdmissionPolicy
      PROVE  LET d == evaluate_artifact(kind, e, p)
             IN /\ Refuses(e) => Height(d.level) = 0
                /\ ~Refuses(e) /\ Falls(e) => Height(d.level) = 1
                /\ ~Refuses(e) /\ ~Falls(e) /\ Lacks(e, p) => Height(d.level) \in {0, 1}
                /\ ~Refuses(e) /\ ~Falls(e) /\ ~Lacks(e, p) => d = KindDecision(kind, e, p)
      BY DEF evaluate_artifact, KindDecision, Decision, Height
<1>3. ASSUME NEW e \in AdmissionEvidence, NEW p \in LawbookAdmissionPolicy
      PROVE  Height(KindDecision(kind, e, p).level) \in 1 .. 5
  <2>1. AtLeast(e, e) /\ AsLenient(p, p)
        BY DEF AtLeast, AsLenient
  <2> QED BY <2>1, KindIsMonotone
<1>4. \A d : durable(d) <=> d.level = "durable_lawbook"
      BY DEF durable
<1>5. Height("durable_lawbook") = 5
      BY DEF Height
<1> HIDE DEF Refuses, Falls, Lacks
<1>6. durable(before) => durable(after)
  <2> SUFFICES ASSUME durable(before) PROVE durable(after)
    OBVIOUS
  <2>1. Height(before.level) = 5
        BY <1>4, <1>5
  <2>2. ~Refuses(ev) /\ ~Falls(ev) /\ ~Lacks(ev, pol)
        BY <1>2, <2>1
  <2>3. before = KindDecision(kind, ev, pol) /\ after = KindDecision(kind, more, lax)
        BY <1>1, <1>2, <2>2
  <2>4. Height(after.level) = 5
        BY <1>3, <2>1, <2>3, KindIsMonotone
  <2>5. Height(KindDecision(kind, more, lax).level) = 5 => durable(KindDecision(kind, more, lax))
        BY DEF Height, durable, KindDecision, finite_countermodel_decision, lean_decision,
               obstruction_decision, routing_decision, Decision
  <2> QED BY <2>3, <2>4, <2>5
<1>7. ASSUME more.fallback_only = ev.fallback_only
      PROVE  Height(before.level) <= Height(after.level)
  <2>1. Falls(more) <=> Falls(ev)
        BY <1>7 DEF Falls
  <2>2. CASE Refuses(ev)
    <3>1. Height(before.level) = 0
          BY <1>2, <2>2
    <3>2. Height(after.level) \in Nat
          BY <1>2, <1>3
    <3> QED BY <3>1, <3>2
  <2>3. CASE ~Refuses(ev) /\ Falls(ev)
        BY <1>1, <1>2, <2>1, <2>3
  <2>4. CASE ~Refuses(ev) /\ ~Falls(ev) /\ Lacks(ev, pol)
    <3>1. Height(before.level) \in {0, 1}
          BY <1>2, <2>4
    <3>2. CASE Lacks(more, lax)
      <4>1. Height(before.level) = 1 => kind \in {"advisory_route", "reason_motif",
                                                  "decode_candidate", "proof_template"}
            BY <2>4 DEF evaluate_artifact, Decision, Height, Refuses, Falls, Lacks
      <4>2. kind \in {"advisory_route", "reason_motif", "decode_candidate", "proof_template"}
               => Height(after.level) = 1
            BY <1>1, <2>1, <2>4, <3>2
               DEF evaluate_artifact, Decision, Height, Refuses, Falls, Lacks
      <4>3. Height(after.level) \in {0, 1}
            BY <1>1, <1>2, <2>1, <2>4, <3>2
      <4> QED BY <3>1, <4>1, <4>2, <4>3
    <3>3. CASE ~Lacks(more, lax)
      <4>1. after = KindDecision(kind, more, lax)
            BY <1>1, <1>2, <2>1, <2>4, <3>3
      <4> QED BY <1>3, <3>1, <4>1
    <3> QED BY <3>2, <3>3
  <2>5. CASE ~Refuses(ev) /\ ~Falls(ev) /\ ~Lacks(ev, pol)
    <3>1. before = KindDecision(kind, ev, pol) /\ after = KindDecision(kind, more, lax)
          BY <1>1, <1>2, <2>1, <2>5
    <3> QED BY <3>1, KindIsMonotone
  <2> QED BY <2>2, <2>3, <2>4, <2>5
<1> QED BY <1>6, <1>7

\* admit_to_store and insert_artifact agree: the row of a durable artifact is one
\* the store takes, with a form that claims something; any other makes no claim.
THEOREM AdmittedIsTaken ==
    ASSUME NEW kind \in ArtifactKind, NEW ev \in AdmissionEvidence,
           NEW pol \in LawbookAdmissionPolicy, NEW form
    PROVE  LET d == evaluate_artifact(kind, ev, pol)
               new == admit_to_store(form, d)
           IN /\ new.terminal_form \in VerifiedForms <=> durable(d)
              /\ durable(d) => validate_terminal_boundary(new) /\ new.trust_level = 100
              /\ new.durable = durable(d)
<1> DEFINE d == evaluate_artifact(kind, ev, pol)
           new == admit_to_store(form, d)
<1>1. CASE durable(d)
  <2>1. d.kind \in {"finite_countermodel_verified", "lean_proof_verified", "named_obstruction"}
        BY <1>1, DurableIsEvidenced DEF Evidenced
  <2> QED BY <1>1, <2>1 DEF admit_to_store, VerifiedForms, validate_terminal_boundary,
                            VERIFIED_TERMINAL_BOUNDARIES
<1>2. CASE ~durable(d)
  <2>1. durable(d) = FALSE
        BY <1>2 DEF durable
  <2>2. new.durable = FALSE /\ new.terminal_form = IF form \in VerifiedForms THEN "ADVISORY" ELSE form
        BY <1>2 DEF admit_to_store
  <2>3. new.terminal_form \notin VerifiedForms
        BY <2>2 DEF VerifiedForms
  <2> QED BY <1>2, <2>1, <2>2, <2>3
<1> QED BY <1>1, <1>2

\* ingest_external_certificate: a certificate whose row the store takes with a
\* form that claims something is one the promotion gate backs, and a proof has
\* been checked by Lean, a countermodel by the finite checker: other evidence
\* that the gate accepts is refused by the store.
THEOREM IngestedIsBacked ==
    ASSUME NEW c \in Certificate, NEW kind \in BoundaryKinds,
           validate_terminal_boundary(ingest_external_certificate(c, kind)),
           ingest_external_certificate(c, kind).terminal_form \in VerifiedForms
    PROVE  /\ Backed(c)
           /\ kind = IF c.boundary_evidence.terminal_form = "VERIFIED_PROOF"
                     THEN "LEAN_TYPECHECKED" ELSE "FINITE_CHECKED"
<1> DEFINE new == ingest_external_certificate(c, kind)
<1>1. evaluate_external_certificate(c) = "ACCEPT_FOR_LAWBOOK"
      BY DEF ingest_external_certificate, VerifiedForms
<1>2. Backed(c)  BY <1>1, GateAcceptsBacked
<1>3. /\ new.terminal_form = lawbook_candidate(c)
      /\ new.boundary_type = boundary_type(kind)
      BY <1>1 DEF ingest_external_certificate
<1>4. /\ lawbook_candidate(c) \in {"VERIFIED_PROOF", "FINITE_COUNTERMODEL"}
      /\ lawbook_candidate(c) = "VERIFIED_PROOF"
            <=> c.boundary_evidence.terminal_form = "VERIFIED_PROOF"
      BY <1>1, CandidateIsOfEvidence DEF lawbook_candidate
<1>5. boundary_type(kind) \in VERIFIED_TERMINAL_BOUNDARIES(lawbook_candidate(c))
      BY <1>3, <1>4 DEF validate_terminal_boundary
<1>6. CASE lawbook_candidate(c) = "VERIFIED_PROOF"
  <2>1. boundary_type(kind) \in {"lean", "proof_checker", "derived_verified"}
        BY <1>5, <1>6 DEF VERIFIED_TERMINAL_BOUNDARIES
  <2>2. kind = "LEAN_TYPECHECKED"
        BY <2>1 DEF boundary_type, BoundaryKinds
  <2> QED BY <1>2, <1>4, <1>6, <2>2
<1>7. CASE lawbook_candidate(c) = "FINITE_COUNTERMODEL"
  <2>1. boundary_type(kind) \in {"finite_model_checker", "derived_verified"}
        BY <1>5, <1>7 DEF VERIFIED_TERMINAL_BOUNDARIES
  <2>2. kind = "FINITE_CHECKED"
        BY <2>1 DEF boundary_type, BoundaryKinds
  <2> QED BY <1>2, <1>4, <1>7, <2>2
<1> QED BY <1>4, <1>6, <1>7

-----------------------------------------------------------------------------
(* The episodes. First what the gate says of their attempts.                 *)

Found(c) == c.solved /\ ~c.fallback

LEMMA JudgeDecides ==
    ASSUME NEW c \in Contact, NEW pol \in LawbookAdmissionPolicy, pol.require_replayable_for_durable
    PROVE  /\ Found(c) => Judge(c, pol) = Decision("finite_countermodel_verified", "durable_lawbook")
           /\ ~Found(c) => Judge(c, pol).level = "advisory_only"
<1>1. c.solved \in BOOLEAN /\ c.fallback \in BOOLEAN
      BY DEF Contact
<1>2. CASE Found(c)
  <2>1. KindOf(c) = "finite_countermodel_verified"
        BY <1>1, <1>2 DEF KindOf, Found
  <2>2. Judge(c, pol) = finite_countermodel_decision("finite_countermodel_verified", EvidenceOf(c), pol)
        BY <1>1, <1>2, <2>1 DEF Judge, evaluate_artifact, EvidenceOf, Found
  <2> QED BY <1>1, <1>2, <2>2 DEF finite_countermodel_decision, EvidenceOf, Found
<1>3. CASE ~Found(c)
  <2>1. CASE c.fallback
        BY <1>1, <2>1 DEF KindOf, Judge, evaluate_artifact, EvidenceOf, Decision, Found
  <2>2. CASE ~c.fallback
    <3>1. KindOf(c) = "failed_finite_search"
          BY <1>1, <1>3, <2>2 DEF KindOf, Found
    <3>2. Judge(c, pol) = routing_decision("failed_finite_search", EvidenceOf(c))
          BY <1>1, <2>2, <3>1 DEF Judge, evaluate_artifact, EvidenceOf
    <3> QED BY <1>3, <3>2 DEF routing_decision, Decision
  <2> QED BY <2>1, <2>2
<1> QED BY <1>2, <1>3

LEMMA PoliciesAreStrict ==
    /\ BenchmarkPolicy \in LawbookAdmissionPolicy /\ BenchmarkPolicy.require_replayable_for_durable
    /\ \A r : PromotionPolicy(r) \in LawbookAdmissionPolicy
              /\ PromotionPolicy(r).require_replayable_for_durable
<1>1. BenchmarkPolicy \in LawbookAdmissionPolicy /\ BenchmarkPolicy.require_replayable_for_durable
      BY DEF BenchmarkPolicy, LawbookAdmissionPolicy
<1>2. \A r : (r \in Strict) \in BOOLEAN
      OBVIOUS
<1>3. \A r : PromotionPolicy(r) \in LawbookAdmissionPolicy
             /\ PromotionPolicy(r).require_replayable_for_durable
      BY <1>2 DEF BenchmarkPolicy, PromotionPolicy, LawbookAdmissionPolicy
<1> QED BY <1>1, <1>3

LEMMA RowsOfAttempts ==
    ASSUME NEW c \in Contact, NEW pol \in LawbookAdmissionPolicy, pol.require_replayable_for_durable,
           NEW fm \in {"true", "false", "absent"}
    PROVE  LET new == RowOf(c, pol, fm) IN
           /\ new \in ArtifactRow
           /\ Found(c) => /\ new.durable /\ new.trust_level = 100
                          /\ new.terminal_form = "FINITE_COUNTERMODEL"
                          /\ new.boundary_type = "finite_model_checker"
           /\ ~Found(c) => ~new.durable /\ new.trust_level = 0 /\ new.terminal_form = "ADVISORY"
<1>1. Found(c) => RowOf(c, pol, fm) =
          [terminal_form |-> "FINITE_COUNTERMODEL", boundary_type |-> "finite_model_checker",
           trust_level |-> 100, durable |-> TRUE, fallback_mode |-> fm]
  <2>1. Found(c) => /\ Judge(c, pol).kind = "finite_countermodel_verified"
                    /\ durable(Judge(c, pol))
        BY JudgeDecides DEF durable, Decision
  <2>2. Found(c) => admit_to_store("ADVISORY", Judge(c, pol)) =
          [terminal_form |-> "FINITE_COUNTERMODEL", boundary_type |-> "finite_model_checker",
           trust_level |-> 100, durable |-> TRUE]
        BY <2>1 DEF admit_to_store
  <2>3. ASSUME Found(c)
        PROVE  LET made == admit_to_store("ADVISORY", Judge(c, pol)) IN
               /\ made.terminal_form = "FINITE_COUNTERMODEL" /\ made.trust_level = 100
               /\ made.boundary_type = "finite_model_checker" /\ made.durable = TRUE
        BY <2>2, <2>3
  <2> QED BY <2>3 DEF RowOf
<1>2. ~Found(c) => RowOf(c, pol, fm) =
          [terminal_form |-> "ADVISORY", boundary_type |-> "empty",
           trust_level |-> 0, durable |-> FALSE, fallback_mode |-> fm]
  <2>1. "ADVISORY" \notin VerifiedForms
        BY DEF VerifiedForms
  <2> QED BY <2>1, JudgeDecides DEF RowOf, admit_to_store, durable
<1>3. RowOf(c, pol, fm) \in ArtifactRow
  <2>1. CASE Found(c)
    <3>1. [terminal_form |-> "FINITE_COUNTERMODEL", boundary_type |-> "finite_model_checker",
           trust_level |-> 100, durable |-> TRUE, fallback_mode |-> fm] \in ArtifactRow
          BY DEF ArtifactRow
    <3> QED BY <1>1, <2>1, <3>1
  <2>2. CASE ~Found(c)
    <3>1. [terminal_form |-> "ADVISORY", boundary_type |-> "empty",
           trust_level |-> 0, durable |-> FALSE, fallback_mode |-> fm] \in ArtifactRow
          BY DEF ArtifactRow
    <3> QED BY <1>2, <2>2, <3>1
  <2> QED BY <2>1, <2>2
<1>4. Found(c) => LET new == RowOf(c, pol, fm) IN
        /\ new.durable /\ new.trust_level = 100 /\ new.terminal_form = "FINITE_COUNTERMODEL"
        /\ new.boundary_type = "finite_model_checker"
      BY <1>1
<1>5. ~Found(c) => LET new == RowOf(c, pol, fm) IN
        ~new.durable /\ new.trust_level = 0 /\ new.terminal_form = "ADVISORY"
      BY <1>2
<1> QED BY <1>3, <1>4, <1>5

\* Two names are equal only when what they are hashes of is.
LEMMA NamesAreDistinct ==
    ASSUME NEW c \in Contact, NEW d \in Contact
    PROVE  /\ BenchmarkId(c) \in ArtifactIds /\ PromotionId(c) \in ArtifactIds
           /\ BenchmarkId(c) # PromotionId(d)
           /\ BenchmarkId(c) = BenchmarkId(d) => c.fallback = d.fallback
           /\ PromotionId(c) = PromotionId(d) => c = d
BY DEF BenchmarkId, PromotionId, ArtifactIds

\* Only the attempts that found something earn a place.
LEMMA NamesOfFound ==
    ASSUME NEW c \in Contact, NEW id \in {BenchmarkId(c), PromotionId(c)},
           id = BenchmarkId(c) => c.solved
    PROVE  /\ Found(c) => EarnedBy(id, c)
           /\ ~Found(c) => \A d \in Contact : ~EarnedBy(id, d)
<1>1. Found(c) => EarnedBy(id, c)
      BY DEF Found, EarnedBy
<1>2. ASSUME ~Found(c), NEW d \in Contact, EarnedBy(id, d)
      PROVE  FALSE
  <2>1. CASE id = BenchmarkId(c)
        BY <1>2, <2>1, NamesAreDistinct DEF EarnedBy, Found
  <2>2. CASE id = PromotionId(c)
        BY <1>2, <2>2, NamesAreDistinct DEF EarnedBy, Found
  <2> QED BY <2>1, <2>2
<1> QED BY <1>1, <1>2

-----------------------------------------------------------------------------
(* The inductive invariant: what holds of the tables, of each runner, and of *)
(* the shape of the state.                                                   *)

Founded(reason) ==
    /\ reason.attempts \subseteq attempts /\ reason.obstructions \subseteq obstructions
    /\ reason.verified_support_count = Cardinality({a \in reason.attempts : a.success})

AttemptsBacked ==
    \A a \in attempts :
        IF a.success THEN a.artifact \in Stored
        ELSE /\ a.artifact = Absent
             /\ [route_killed |-> a.route, claim |-> a.claim, run |-> a.run] \in obstructions

TablesOK ==
    /\ artifacts \in [ArtifactIds -> ArtifactRow \cup {Absent}]
    /\ attempts \subseteq AttemptRow /\ obstructions \subseteq ObstructionRow
    /\ reasons \subseteq ReasonRow /\ events \subseteq ReuseNote
    /\ contact \subseteq Contact
    /\ IsFiniteSet(Stored) /\ DurableIsEarned
    /\ AttemptsBacked
    /\ \A reason \in reasons : Founded(reason)
    /\ \A note \in events : note.artifact \in Durable

Shape ==
    /\ pc \in [Runners -> Places] /\ episode \in [Runners -> Nat]
    /\ batch \in [Runners -> Seq(Contact)]
    /\ row \in [Runners -> Nat] /\ waiting \in [Runners -> SUBSET Tasks]
    /\ todo \in [Runners -> (SUBSET ReasonRow) \cup (SUBSET ReuseNote)]
    /\ growth \in [Runners -> Seq(Nat)] /\ report \in [Runners -> BOOLEAN \cup {Absent}]

Filed(c) ==
    /\ AttemptOf(c) \in attempts
    /\ ~c.solved => ObstructionOf(c) \in obstructions
Kept(c) == IF c.solved THEN BenchmarkId(c) \in Stored ELSE ObstructionOf(c) \in obstructions

\* Where a runner is in its batch, and what it has written of it.
RowOK(r) ==
    /\ pc[r] \in {"store", "attempt", "promote"} => row[r] \in 1 .. Len(batch[r])
    /\ pc[r] \notin {"store", "attempt", "promote"} => row[r] = 1
    /\ pc[r] = "reasons" => Len(batch[r]) # 0
    /\ pc[r] \in {"store", "attempt"} => \A i \in 1 .. (row[r] - 1) : Filed(batch[r][i])
    /\ pc[r] = "attempt" => Kept(Current(r))

\* What a runner has yet to write can be written.
TodoOK(r) ==
    /\ pc[r] = "reasons" => /\ todo[r] \subseteq ReasonRow
                            /\ \A reason \in todo[r] : Founded(reason)
    /\ pc[r] = "reuse" => /\ todo[r] \subseteq ReuseNote
                          /\ \A note \in todo[r] : note.artifact \in Durable
    /\ pc[r] \notin {"reasons", "reuse"} => todo[r] = {}

GrowthOK(r) ==
    \A i \in 1 .. Len(growth[r]) :
        /\ growth[r][i] <= Cardinality(Durable)
        /\ \A j \in 1 .. i : growth[r][j] <= growth[r][i]

RunnerOK(r) ==
    /\ episode[r] \in 1 .. NumEpisodes[r] /\ Reported(r) \subseteq contact
    /\ RowOK(r) /\ TodoOK(r) /\ GrowthOK(r)

IInv == TablesOK /\ Shape /\ \A r \in Runners : RunnerOK(r)

\* The tables only grow, and what is durable stays so.
Grows ==
    /\ attempts \subseteq attempts' /\ obstructions \subseteq obstructions'
    /\ Stored \subseteq Stored' /\ Durable \subseteq Durable' /\ contact \subseteq contact'
    /\ IsFiniteSet(Stored')

\* What a runner has of its own.
Own(r) == <<pc[r], episode[r], batch[r], row[r], todo[r], waiting[r], growth[r]>>

LEMMA DurableIsFinite ==
    IsFiniteSet(Stored) => IsFiniteSet(Durable)
BY FS_Subset DEF Durable

LEMMA GrowthStands ==
    ASSUME Grows, NEW r \in Runners, growth \in [Runners -> Seq(Nat)],
           growth'[r] = growth[r], GrowthOK(r)
    PROVE  GrowthOK(r)'
<1>1. IsFiniteSet(Durable') /\ Durable \subseteq Durable'
      BY FS_Subset DEF Grows, Durable
<1>2. Cardinality(Durable) <= Cardinality(Durable')
      BY <1>1, FS_Subset
<1>3. Cardinality(Durable) \in Nat /\ Cardinality(Durable') \in Nat
      BY <1>1, FS_Subset, FS_CardinalityType
<1>4. \A i \in 1 .. Len(growth[r]) : growth[r][i] \in Nat
      OBVIOUS
<1> QED BY <1>2, <1>3, <1>4 DEF GrowthOK

\* What another runner writes does not disturb one.
LEMMA OthersStand ==
    ASSUME Grows, Shape, NEW r \in Runners, Own(r)' = Own(r), RunnerOK(r)
    PROVE  RunnerOK(r)'
<1>1. /\ pc'[r] = pc[r] /\ episode'[r] = episode[r] /\ batch'[r] = batch[r]
      /\ row'[r] = row[r] /\ todo'[r] = todo[r] /\ growth'[r] = growth[r]
      BY DEF Own
<1>2. Reported(r)' = Reported(r)
      BY <1>1 DEF Reported
<1>3. episode'[r] \in 1 .. NumEpisodes[r] /\ Reported(r)' \subseteq contact'
      BY <1>1, <1>2 DEF RunnerOK, Grows
<1>4. RowOK(r)'
      BY <1>1 DEF RunnerOK, RowOK, Filed, Kept, Current, Grows
<1>5. TodoOK(r)'
      BY <1>1 DEF RunnerOK, TodoOK, Founded, Grows
<1>6. GrowthOK(r)'
      BY <1>1, GrowthStands DEF RunnerOK, Shape
<1> QED BY <1>3, <1>4, <1>5, <1>6 DEF RunnerOK

\* So a step of one runner preserves the invariant when it preserves its part.
LEMMA StepOfOne ==
    ASSUME IInv, NEW r \in Runners, TablesOK', Shape', Grows, RunnerOK(r)',
           \A q \in Runners \ {r} : Own(q)' = Own(q)
    PROVE  IInv'
<1>1. ASSUME NEW q \in Runners PROVE RunnerOK(q)'
  <2>1. CASE q = r
        BY <2>1
  <2>2. CASE q # r
        BY <2>2, OthersStand DEF IInv
  <2> QED BY <2>1, <2>2
<1> QED BY <1>1 DEF IInv

LEMMA GrowsTables ==
    ASSUME TablesOK, UNCHANGED artifacts,
           attempts \subseteq attempts', obstructions \subseteq obstructions', contact \subseteq contact'
    PROVE  /\ Stored' = Stored /\ Durable' = Durable /\ Grows
           /\ contact' \subseteq Contact => DurableIsEarned'
           /\ \A reason : Founded(reason) => Founded(reason)'
<1>1. Stored' = Stored /\ Durable' = Durable
      BY DEF Stored, Durable
<1>2. Grows
      BY <1>1 DEF Grows, TablesOK
<1>3. contact' \subseteq Contact => DurableIsEarned'
      BY <1>1 DEF DurableIsEarned, TablesOK
<1>4. \A reason : Founded(reason) => Founded(reason)'
      BY DEF Founded
<1> QED BY <1>1, <1>2, <1>3, <1>4

\* The invariant says what the runs check.
LEMMA InvariantHolds ==
    IInv => TypeOK /\ DurableIsEarned /\ RecordsAreBacked /\ GrowthNeverShrinks
<1> SUFFICES ASSUME IInv PROVE TypeOK /\ DurableIsEarned /\ RecordsAreBacked /\ GrowthNeverShrinks
    OBVIOUS
<1>1. TypeOK
      BY DEF IInv, TypeOK, TablesOK, Shape, RunnerOK
<1>2. ASSUME NEW reason \in reasons
      PROVE  {a \in reason.attempts : a.artifact \in Stored} = {a \in reason.attempts : a.success}
  <2>1. reason.attempts \subseteq attempts
        BY DEF IInv, TablesOK, Founded
  <2>2. Absent \notin Stored
        BY AbsentAssumption DEF Stored
  <2> QED BY <2>1, <2>2 DEF IInv, TablesOK, AttemptsBacked
<1>3. RecordsAreBacked
      BY <1>2 DEF IInv, TablesOK, AttemptsBacked, Founded, RecordsAreBacked, Durable
<1>4. GrowthNeverShrinks
      BY DEF IInv, RunnerOK, GrowthOK, GrowthNeverShrinks
<1> QED BY <1>1, <1>3, <1>4 DEF IInv, TablesOK

LEMMA InitIsInvariant == Init => IInv
<1> SUFFICES ASSUME Init PROVE IInv
    OBVIOUS
<1>1. Stored = {}
      BY AbsentAssumption DEF Init, Stored
<1>2. TablesOK
      BY <1>1, FS_EmptySet
      DEF Init, TablesOK, DurableIsEarned, AttemptsBacked
<1>3. Shape
      BY DEF Init, Shape, Places
<1>4. ASSUME NEW r \in Runners PROVE RunnerOK(r)
  <2>1. NumEpisodes[r] \in Nat \ {0}
        BY RunnersAssumption
  <2> QED BY <2>1 DEF Init, RunnerOK, RowOK, TodoOK, GrowthOK, Reported
<1> QED BY <1>2, <1>3, <1>4 DEF IInv

\* An insert of the benchmark or of a promotion: only an attempt that found
\* something replaces a durable row, and it puts a durable one in its place.
LEMMA InsertKeeps ==
    ASSUME TablesOK, NEW c \in contact, NEW pol \in LawbookAdmissionPolicy,
           pol.require_replayable_for_durable, NEW fm \in {"true", "false", "absent"},
           NEW id \in {BenchmarkId(c), PromotionId(c)}, id = BenchmarkId(c) => c.solved,
           insert_artifact(id, RowOf(c, pol, fm)),
           UNCHANGED <<attempts, obstructions, reasons, events, contact>>
    PROVE  TablesOK' /\ Grows /\ Stored' = Stored \cup {id}
<1> DEFINE new == RowOf(c, pol, fm)
<1>1. c \in Contact /\ id \in ArtifactIds
      BY NamesAreDistinct DEF TablesOK
<1>2. new \in ArtifactRow /\ new # Absent
      BY <1>1, RowsOfAttempts, AbsentAssumption
<1>3. /\ artifacts' = [artifacts EXCEPT ![id] = new]
      /\ artifacts' \in [ArtifactIds -> ArtifactRow \cup {Absent}]
      /\ artifacts'[id] = new
      /\ \A x \in ArtifactIds \ {id} : artifacts'[x] = artifacts[x]
      BY <1>1, <1>2 DEF insert_artifact, TablesOK
<1>4. Stored' = Stored \cup {id}
      BY <1>1, <1>2, <1>3 DEF Stored
<1>5. IsFiniteSet(Stored')
      BY <1>4, FS_AddElement DEF TablesOK
<1>6. DurableIsEarned'
  <2>1. ASSUME NEW x \in Stored, x # id
        PROVE  LET a == artifacts'[x] IN
               \/ /\ a.durable /\ a.trust_level = 100 /\ a.terminal_form = "FINITE_COUNTERMODEL"
                  /\ a.boundary_type = "finite_model_checker"
                  /\ \E d \in contact' : EarnedBy(x, d)
               \/ /\ ~a.durable /\ a.trust_level = 0 /\ a.terminal_form = "ADVISORY"
                  /\ \A d \in Contact : ~EarnedBy(x, d)
        BY <2>1, <1>3 DEF TablesOK, DurableIsEarned, Stored
  <2>2. CASE Found(c)
    <3>1. /\ new.durable /\ new.trust_level = 100 /\ new.terminal_form = "FINITE_COUNTERMODEL"
          /\ new.boundary_type = "finite_model_checker"
          BY <1>1, <2>2, RowsOfAttempts
    <3>2. EarnedBy(id, c)
          BY <1>1, <2>2, NamesOfFound
    <3> QED BY <1>3, <1>4, <2>1, <3>1, <3>2 DEF DurableIsEarned
  <2>3. CASE ~Found(c)
    <3>1. ~new.durable /\ new.trust_level = 0 /\ new.terminal_form = "ADVISORY"
          BY <1>1, <2>3, RowsOfAttempts
    <3>2. \A d \in Contact : ~EarnedBy(id, d)
          BY <1>1, <2>3, NamesOfFound
    <3> QED BY <1>3, <1>4, <2>1, <3>1, <3>2 DEF DurableIsEarned
  <2> QED BY <2>2, <2>3
<1>7. Durable \subseteq Durable'
  <2>1. ASSUME NEW x \in Durable PROVE x \in Durable'
    <3>1. CASE x # id
          BY <3>1, <1>3, <1>4 DEF Durable, Stored
    <3>2. CASE x = id
      <4>1. \E d \in Contact : EarnedBy(id, d)
            BY <3>2 DEF Durable, TablesOK, DurableIsEarned
      <4>2. Found(c)
            BY <1>1, <4>1, NamesOfFound
      <4>3. new.durable
            BY <1>1, <4>2, RowsOfAttempts
      <4> QED BY <3>2, <1>3, <1>4, <4>3 DEF Durable
    <3> QED BY <3>1, <3>2
  <2> QED BY <2>1
<1>8. Grows
      BY <1>4, <1>5, <1>7 DEF Grows
<1>9. AttemptsBacked' /\ (\A reason \in reasons : Founded(reason))'
      /\ (\A note \in events : note.artifact \in Durable)'
      BY <1>4, <1>7 DEF TablesOK, AttemptsBacked, Founded
<1> QED BY <1>3, <1>4, <1>5, <1>6, <1>8, <1>9 DEF TablesOK

-----------------------------------------------------------------------------
(* The steps of a runner.                                                    *)

LEMMA CurrentIsReported ==
    ASSUME IInv, NEW r \in Runners, pc[r] \in {"store", "attempt", "promote"}
    PROVE  /\ row[r] \in 1 .. Len(batch[r])
           /\ Current(r) \in contact /\ Current(r) \in Contact
<1>1. row[r] \in 1 .. Len(batch[r])
      BY DEF IInv, RunnerOK, RowOK
<1>2. Current(r) \in Reported(r)
      BY <1>1 DEF Current, Reported
<1> QED BY <1>1, <1>2 DEF IInv, RunnerOK, TablesOK

LEMMA EvaluateKeeps ==
    ASSUME IInv, NEW r \in Runners, evaluate(r) PROVE IInv'
<1> USE DEF At, Goto
<1>1. PICK slice \in Slices[r], fallback \in BOOLEAN : \E solved \in [1 .. Len(slice) -> BOOLEAN] :
        batch' = [batch EXCEPT ![r] =
                    [i \in 1 .. Len(slice) |->
                       [mode |-> slice[i][1], task |-> slice[i][2], episode |-> episode[r],
                        solved |-> solved[i], fallback |-> fallback]]]
      BY DEF evaluate
<1>2. PICK solved \in [1 .. Len(slice) -> BOOLEAN] :
        batch' = [batch EXCEPT ![r] =
                    [i \in 1 .. Len(slice) |->
                       [mode |-> slice[i][1], task |-> slice[i][2], episode |-> episode[r],
                        solved |-> solved[i], fallback |-> fallback]]]
      BY <1>1
<1>3. slice \in Seq(Modes \X Tasks) /\ Len(slice) \in Nat /\ Len(slice) >= 1
      BY SlicesAssumption
<1>4. episode[r] \in Episodes
      BY DEF IInv, RunnerOK, Episodes
<1>5. ASSUME NEW i \in 1 .. Len(slice)
      PROVE  [mode |-> slice[i][1], task |-> slice[i][2], episode |-> episode[r],
              solved |-> solved[i], fallback |-> fallback] \in Contact
      BY <1>3, <1>4 DEF Contact
<1>6. /\ batch'[r] = [i \in 1 .. Len(slice) |->
                       [mode |-> slice[i][1], task |-> slice[i][2], episode |-> episode[r],
                        solved |-> solved[i], fallback |-> fallback]]
      /\ \A q \in Runners \ {r} : batch'[q] = batch[q]
      BY <1>2 DEF IInv, Shape
<1>7. batch'[r] \in Seq(Contact) /\ Len(batch'[r]) = Len(slice)
      BY <1>3, <1>5, <1>6
<1>8. contact' = contact \cup {batch'[r][i] : i \in 1 .. Len(batch'[r])}
      BY DEF evaluate
<1>9. contact \subseteq contact' /\ contact' \subseteq Contact
      BY <1>7, <1>8 DEF IInv, TablesOK
<1>10. /\ UNCHANGED <<artifacts, attempts, obstructions, reasons, events>>
       /\ UNCHANGED <<episode, row, todo, waiting, growth, report>>
       /\ pc[r] = "start" /\ pc' = [pc EXCEPT ![r] = "store"]
      BY DEF evaluate, tables
<1>11. Grows /\ DurableIsEarned' /\ Durable' = Durable /\ Stored' = Stored
      BY <1>9, <1>10, GrowsTables DEF IInv
<1>12. TablesOK'
      BY <1>9, <1>10, <1>11 DEF IInv, TablesOK, AttemptsBacked, Founded, Grows
<1>13. Shape'
      BY <1>2, <1>7, <1>10 DEF IInv, Shape, Places
<1>14. RunnerOK(r)'
  <2>1. pc'[r] = "store" /\ row'[r] = 1 /\ todo'[r] = {}
        BY <1>10 DEF IInv, Shape, RunnerOK, RowOK, TodoOK
  <2>2. RowOK(r)'
        BY <1>3, <1>7, <2>1 DEF RowOK
  <2>3. TodoOK(r)'
        BY <2>1 DEF TodoOK
  <2>4. GrowthOK(r)'
        BY <1>10, <1>11, GrowthStands DEF IInv, Shape, RunnerOK
  <2>5. Reported(r)' \subseteq contact'
        BY <1>8 DEF Reported
  <2> QED BY <1>10, <2>2, <2>3, <2>4, <2>5 DEF IInv, RunnerOK
<1>15. \A q \in Runners \ {r} : Own(q)' = Own(q)
      BY <1>6, <1>10 DEF IInv, Shape, Own
<1> QED BY <1>11, <1>12, <1>13, <1>14, <1>15, StepOfOne

LEMMA StoreArtifactKeeps ==
    ASSUME IInv, NEW r \in Runners, store_artifact(r) PROVE IInv'
<1> USE DEF At, Goto
<1> DEFINE c == Current(r)
           fm == IF c.fallback THEN "true" ELSE "false"
<1>1. /\ pc[r] = "store" /\ c.solved /\ pc' = [pc EXCEPT ![r] = "attempt"]
      /\ insert_artifact(BenchmarkId(c), RowOf(c, BenchmarkPolicy, fm))
      /\ UNCHANGED <<attempts, obstructions, reasons, events, contact>>
      /\ UNCHANGED <<episode, batch, row, todo, waiting, growth, report>>
      BY DEF store_artifact, notes
<1>2. c \in contact /\ c \in Contact /\ row[r] \in 1 .. Len(batch[r])
      BY <1>1, CurrentIsReported
<1>3. TablesOK' /\ Grows /\ Stored' = Stored \cup {BenchmarkId(c)}
  <2>1. fm \in {"true", "false", "absent"}
        OBVIOUS
  <2> HIDE DEF c, fm
  <2> QED BY <1>1, <1>2, <2>1, PoliciesAreStrict, InsertKeeps DEF IInv
<1>4. Shape'
      BY <1>1 DEF IInv, Shape, Places
<1>5. RunnerOK(r)'
  <2>1. pc'[r] = "attempt"
        BY <1>1 DEF IInv, Shape
  <2>2. Current(r)' = c /\ Reported(r)' = Reported(r)
        BY <1>1 DEF Current, Reported
  <2>3. \A i \in 1 .. (row[r] - 1) : Filed(batch[r][i])'
        BY <1>1, <1>3 DEF IInv, RunnerOK, RowOK, Filed
  <2>4. Kept(Current(r))'
        BY <1>1, <1>3, <2>2 DEF Kept
  <2>5. RowOK(r)'
        BY <1>1, <1>2, <2>1, <2>3, <2>4 DEF RowOK
  <2>6. TodoOK(r)'
        BY <1>1, <2>1 DEF IInv, RunnerOK, TodoOK
  <2>7. GrowthOK(r)'
        BY <1>1, <1>3, GrowthStands DEF IInv, Shape, RunnerOK
  <2> QED BY <1>1, <2>2, <2>5, <2>6, <2>7 DEF IInv, RunnerOK
<1>6. \A q \in Runners \ {r} : Own(q)' = Own(q)
      BY <1>1 DEF IInv, Shape, Own
<1> QED BY <1>3, <1>4, <1>5, <1>6, StepOfOne

LEMMA InsertObstructionKeeps ==
    ASSUME IInv, NEW r \in Runners, insert_obstruction(r) PROVE IInv'
<1> USE DEF At, Goto
<1> DEFINE c == Current(r)
<1>1. /\ pc[r] = "store" /\ ~c.solved /\ pc' = [pc EXCEPT ![r] = "attempt"]
      /\ obstructions' = obstructions \cup {ObstructionOf(c)}
      /\ UNCHANGED <<artifacts, attempts, reasons, events, contact>>
      /\ UNCHANGED <<episode, batch, row, todo, waiting, growth, report>>
      BY DEF insert_obstruction, notes
<1>2. c \in Contact /\ row[r] \in 1 .. Len(batch[r])
      BY <1>1, CurrentIsReported
<1>3. ObstructionOf(c) \in ObstructionRow
      BY <1>2 DEF Contact, ObstructionOf, ObstructionRow
<1>4. /\ Stored' = Stored /\ Durable' = Durable /\ Grows /\ DurableIsEarned'
      /\ \A reason : Founded(reason) => Founded(reason)'
      BY <1>1, GrowsTables DEF IInv, TablesOK
<1>5. TablesOK'
      BY <1>1, <1>3, <1>4 DEF IInv, TablesOK, AttemptsBacked
<1>6. Shape'
      BY <1>1 DEF IInv, Shape, Places
<1>7. RunnerOK(r)'
  <2>1. pc'[r] = "attempt"
        BY <1>1 DEF IInv, Shape
  <2>2. Current(r)' = c /\ Reported(r)' = Reported(r)
        BY <1>1 DEF Current, Reported
  <2>3. \A i \in 1 .. (row[r] - 1) : Filed(batch[r][i])'
        BY <1>1 DEF IInv, RunnerOK, RowOK, Filed
  <2>4. Kept(Current(r))'
        BY <1>1, <2>2 DEF Kept
  <2>5. RowOK(r)'
        BY <1>1, <1>2, <2>1, <2>3, <2>4 DEF RowOK
  <2>6. TodoOK(r)'
        BY <1>1, <2>1 DEF IInv, RunnerOK, TodoOK
  <2>7. GrowthOK(r)'
        BY <1>1, <1>4, GrowthStands DEF IInv, Shape, RunnerOK
  <2> QED BY <1>1, <2>2, <2>5, <2>6, <2>7 DEF IInv, RunnerOK
<1>8. \A q \in Runners \ {r} : Own(q)' = Own(q)
      BY <1>1 DEF IInv, Shape, Own
<1> QED BY <1>4, <1>5, <1>6, <1>7, <1>8, StepOfOne

LEMMA RowsAreTyped ==
    ASSUME NEW c \in Contact
    PROVE  /\ AttemptOf(c) \in AttemptRow /\ ObstructionOf(c) \in ObstructionRow
           /\ AttemptOf(c).success = c.solved
BY NamesAreDistinct DEF Contact, AttemptOf, ObstructionOf, AttemptRow, ObstructionRow

\* coagulate_reasons: what it makes from the attempts of an episode is backed by
\* any tables that hold their rows.
LEMMA CoagulatedIsFounded ==
    ASSUME NEW cs \in SUBSET Contact, IsFiniteSet(cs), NEW A, NEW O,
           \A c \in cs : AttemptOf(c) \in A /\ (~c.solved => ObstructionOf(c) \in O),
           NEW x \in coagulate_reasons(cs)
    PROVE  /\ x \in ReasonRow
           /\ x.attempts \subseteq A /\ x.obstructions \subseteq O
           /\ x.verified_support_count = Cardinality({a \in x.attempts : a.success})
<1> DEFINE rows == {AttemptOf(c) : c \in cs}
           failed == {c \in cs : ~c.solved}
           obs == {ObstructionOf(c) : c \in failed}
<1>1. IsFiniteSet(rows) /\ rows \subseteq AttemptRow /\ rows \subseteq A
  <2>1. [c \in cs |-> AttemptOf(c)] \in Surjection(cs, rows)
        BY DEF Surjection
  <2> QED BY <2>1, FS_Surjection, RowsAreTyped
<1>2. IsFiniteSet(obs) /\ obs \subseteq ObstructionRow /\ obs \subseteq O
  <2>1. IsFiniteSet(failed)
        BY FS_Subset
  <2>2. [c \in failed |-> ObstructionOf(c)] \in Surjection(failed, obs)
        BY DEF Surjection
  <2> QED BY <2>1, <2>2, FS_Surjection, RowsAreTyped
<1>3. x \in coagulate_attempts(rows) \/ x \in coagulate_obstructions(obs)
      BY DEF coagulate_reasons
<1> HIDE DEF rows, obs, failed
<1>4. CASE x \in coagulate_attempts(rows)
  <2>1. PICK g \in SUBSET rows :
          x = [attempts |-> g, obstructions |-> {}, support_count |-> Cardinality(g),
               verified_support_count |-> Cardinality({a \in g : a.success})]
        BY <1>4 DEF coagulate_attempts
  <2>2. IsFiniteSet(g) /\ IsFiniteSet({a \in g : a.success})
        BY <1>1, FS_Subset
  <2>3. Cardinality(g) \in Nat /\ Cardinality({a \in g : a.success}) \in Nat
        BY <2>2, FS_CardinalityType
  <2>4. x \in ReasonRow
        BY <1>1, <2>1, <2>3 DEF ReasonRow
  <2> QED BY <1>1, <2>1, <2>4
<1>5. CASE x \in coagulate_obstructions(obs)
  <2>1. PICK g \in SUBSET obs :
          x = [attempts |-> {}, obstructions |-> g, support_count |-> Cardinality(g),
               verified_support_count |-> 0]
        BY <1>5 DEF coagulate_obstructions
  <2>2. Cardinality(g) \in Nat
        BY <1>2, FS_Subset, FS_CardinalityType
  <2>3. x \in ReasonRow
        BY <1>2, <2>1, <2>2 DEF ReasonRow
  <2>4. {a \in x.attempts : a.success} = {}
        BY <2>1
  <2>5. Cardinality({a \in x.attempts : a.success}) = 0
        BY <2>4, FS_EmptySet
  <2> QED BY <1>2, <2>1, <2>3, <2>5
<1> QED BY <1>3, <1>4, <1>5

LEMMA InsertAttemptKeeps ==
    ASSUME IInv, NEW r \in Runners, insert_attempt(r) PROVE IInv'
<1> USE DEF At, Goto
<1>1. PICK c \in Contact : c = Current(r) /\ row[r] \in 1 .. Len(batch[r])
      BY CurrentIsReported DEF insert_attempt
<1>2. /\ pc[r] = "attempt" /\ attempts' = attempts \cup {AttemptOf(c)}
      /\ UNCHANGED <<artifacts, obstructions, reasons, events, contact>>
      /\ UNCHANGED <<episode, batch, waiting, growth, report>>
      /\ NextRow(r, "store", "reasons")
      /\ todo' = [todo EXCEPT ![r] = IF row[r] < Len(batch[r]) THEN {}
                                     ELSE coagulate_reasons(Reported(r))]
      BY <1>1 DEF insert_attempt, notes
<1>3. Kept(c)
      BY <1>1, <1>2 DEF IInv, RunnerOK, RowOK
<1>4. /\ Stored' = Stored /\ Durable' = Durable /\ Grows /\ DurableIsEarned'
      /\ \A reason : Founded(reason) => Founded(reason)'
      BY <1>2, GrowsTables DEF IInv, TablesOK
<1>5. TablesOK'
  <2>1. LET a == AttemptOf(c) IN
        IF a.success THEN a.artifact \in Stored
        ELSE /\ a.artifact = Absent
             /\ [route_killed |-> a.route, claim |-> a.claim, run |-> a.run] \in obstructions
        BY <1>3 DEF Kept, AttemptOf, ObstructionOf
  <2>2. AttemptsBacked'
        BY <1>2, <1>4, <2>1 DEF IInv, TablesOK, AttemptsBacked
  <2> QED BY <1>2, <1>4, <2>2, RowsAreTyped DEF IInv, TablesOK
<1>6. Reported(r)' = Reported(r)
      BY <1>2 DEF Reported
<1>7. \A i \in 1 .. row[r] : Filed(batch[r][i])'
  <2>1. \A i \in 1 .. (row[r] - 1) : Filed(batch[r][i])'
        BY <1>2 DEF IInv, RunnerOK, RowOK, Filed
  <2>2. AttemptOf(c) \in attempts' /\ (~c.solved => ObstructionOf(c) \in obstructions')
        BY <1>2, <1>3 DEF Kept
  <2>3. c = batch'[r][row[r]] /\ row[r] \in Nat
        BY <1>1, <1>2 DEF Current, IInv, Shape
  <2> QED BY <2>1, <2>2, <2>3 DEF Filed
<1>8. GrowthOK(r)'
      BY <1>2, <1>4, GrowthStands DEF IInv, Shape, RunnerOK
<1>9. CASE row[r] < Len(batch[r])
  <2>1. /\ pc' = [pc EXCEPT ![r] = "store"] /\ row' = [row EXCEPT ![r] = row[r] + 1]
        /\ todo' = [todo EXCEPT ![r] = {}]
        BY <1>2, <1>9 DEF NextRow
  <2>2. pc'[r] = "store" /\ row'[r] = row[r] + 1 /\ todo'[r] = {}
        BY <2>1 DEF IInv, Shape
  <2>3. Shape'
    <3>1. row[r] + 1 \in Nat /\ "store" \in Places
          BY <1>1 DEF Places
    <3>2. row' \in [Runners -> Nat] /\ pc' \in [Runners -> Places]
          BY <2>1, <3>1 DEF IInv, Shape
    <3>3. todo' \in [Runners -> (SUBSET ReasonRow) \cup (SUBSET ReuseNote)]
          BY <2>1 DEF IInv, Shape
    <3> QED BY <1>2, <3>2, <3>3 DEF IInv, Shape
  <2>4. RowOK(r)'
        BY <1>1, <1>2, <1>7, <1>9, <2>2 DEF IInv, Shape, RowOK
  <2>5. TodoOK(r)'
        BY <2>2 DEF TodoOK
  <2>6. RunnerOK(r)'
        BY <1>2, <1>6, <1>8, <2>4, <2>5 DEF IInv, RunnerOK
  <2>7. \A q \in Runners \ {r} : Own(q)' = Own(q)
        BY <1>2, <2>1 DEF IInv, Shape, Own
  <2> QED BY <1>4, <1>5, <2>3, <2>6, <2>7, StepOfOne
<1>10. CASE ~(row[r] < Len(batch[r]))
  <2> DEFINE made == coagulate_reasons(Reported(r))
  <2>1. /\ pc' = [pc EXCEPT ![r] = "reasons"] /\ row' = [row EXCEPT ![r] = 1]
        /\ todo' = [todo EXCEPT ![r] = made]
        BY <1>2, <1>10 DEF NextRow
  <2>2. row[r] = Len(batch[r]) /\ Len(batch[r]) \in Nat /\ batch[r] \in Seq(Contact)
        BY <1>1, <1>10 DEF IInv, Shape
  <2>3. \A d \in Reported(r) : Filed(d)'
        BY <1>2, <1>7, <2>2 DEF Reported, Filed
  <2>4. IsFiniteSet(Reported(r))
    <3>1. IsFiniteSet(1 .. Len(batch[r]))
      <4>1. Len(batch[r]) \in Int /\ 1 \in Int
            BY <2>2
      <4> QED BY <4>1, FS_Interval
    <3>2. [i \in 1 .. Len(batch[r]) |-> batch[r][i]] \in Surjection(1 .. Len(batch[r]), Reported(r))
          BY DEF Surjection, Reported
    <3> QED BY <3>1, <3>2, FS_Surjection
  <2>5. Reported(r) \in SUBSET Contact
        BY DEF IInv, RunnerOK, TablesOK
  <2>6. ASSUME NEW x \in made PROVE x \in ReasonRow /\ Founded(x)'
    <3>1. \A d \in Reported(r) : AttemptOf(d) \in attempts' /\ (~d.solved => ObstructionOf(d) \in obstructions')
          BY <2>3 DEF Filed
    <3>2. /\ x \in ReasonRow
          /\ x.attempts \subseteq attempts' /\ x.obstructions \subseteq obstructions'
          /\ x.verified_support_count = Cardinality({a \in x.attempts : a.success})
          BY <2>4, <2>5, <3>1, CoagulatedIsFounded
    <3> QED BY <3>2 DEF Founded
  <2> HIDE DEF made
  <2>7. pc'[r] = "reasons" /\ row'[r] = 1 /\ todo'[r] = made
        BY <2>1 DEF IInv, Shape
  <2>8. Shape'
        BY <1>2, <2>1, <2>6 DEF IInv, Shape, Places
  <2>9. RowOK(r)'
        BY <1>1, <1>2, <2>2, <2>7 DEF RowOK
  <2>10. TodoOK(r)'
        BY <2>6, <2>7 DEF TodoOK
  <2>11. RunnerOK(r)'
        BY <1>2, <1>6, <1>8, <2>9, <2>10 DEF IInv, RunnerOK
  <2>12. \A q \in Runners \ {r} : Own(q)' = Own(q)
        BY <1>2, <2>1 DEF IInv, Shape, Own
  <2> QED BY <1>4, <1>5, <2>8, <2>11, <2>12, StepOfOne
<1> QED BY <1>9, <1>10

LEMMA InsertReasonKeeps ==
    ASSUME IInv, NEW r \in Runners, insert_reason(r) PROVE IInv'
<1> USE DEF At, Goto
<1>1. PICK reason \in todo[r] :
        /\ reasons' = reasons \cup {reason} /\ todo' = [todo EXCEPT ![r] = todo[r] \ {reason}]
      BY DEF insert_reason
<1>2. /\ pc[r] = "reasons"
      /\ IF todo'[r] = {} THEN pc' = [pc EXCEPT ![r] = "promote"] ELSE pc' = pc
      /\ UNCHANGED <<artifacts, attempts, obstructions, events, contact>>
      /\ UNCHANGED <<episode, batch, row, waiting, growth, report>>
      BY DEF insert_reason, notes
<1>3. todo[r] \subseteq ReasonRow /\ \A x \in todo[r] : Founded(x)
      BY <1>2 DEF IInv, RunnerOK, TodoOK
<1>4. /\ Stored' = Stored /\ Durable' = Durable /\ Grows /\ DurableIsEarned'
      /\ \A x : Founded(x) => Founded(x)'
      BY <1>2, GrowsTables DEF IInv, TablesOK
<1>5. TablesOK'
  <2>1. AttemptsBacked'
        BY <1>2, <1>4 DEF IInv, TablesOK, AttemptsBacked
  <2> QED BY <1>1, <1>2, <1>3, <1>4, <2>1 DEF IInv, TablesOK
<1>6. todo'[r] = todo[r] \ {reason} /\ \A q \in Runners \ {r} : todo'[q] = todo[q]
      BY <1>1 DEF IInv, Shape
<1>7. pc'[r] \in {"reasons", "promote"} /\ (pc'[r] = "promote" => todo'[r] = {})
      BY <1>2 DEF IInv, Shape
<1>8. Shape'
  <2>1. todo' \in [Runners -> (SUBSET ReasonRow) \cup (SUBSET ReuseNote)]
        BY <1>1, <1>3 DEF IInv, Shape
  <2> QED BY <1>2, <2>1 DEF IInv, Shape, Places
<1>9. RunnerOK(r)'
  <2>1. row[r] = 1 /\ Len(batch[r]) \in Nat /\ Len(batch[r]) # 0
    <3>1. row[r] = 1 /\ Len(batch[r]) # 0
          BY <1>2 DEF IInv, RunnerOK, RowOK
    <3>2. batch[r] \in Seq(Contact)
          BY DEF IInv, Shape
    <3> QED BY <3>1, <3>2
  <2>2. RowOK(r)'
        BY <1>2, <1>7, <2>1 DEF RowOK
  <2>3. TodoOK(r)'
        BY <1>3, <1>4, <1>6, <1>7 DEF TodoOK
  <2>4. GrowthOK(r)'
        BY <1>2, <1>4, GrowthStands DEF IInv, Shape, RunnerOK
  <2>5. Reported(r)' = Reported(r)
        BY <1>2 DEF Reported
  <2> QED BY <1>2, <2>2, <2>3, <2>4, <2>5 DEF IInv, RunnerOK
<1>10. \A q \in Runners \ {r} : Own(q)' = Own(q)
      BY <1>2, <1>6 DEF IInv, Shape, Own
<1> QED BY <1>4, <1>5, <1>8, <1>9, <1>10, StepOfOne

LEMMA PromoteKeeps ==
    ASSUME IInv, NEW r \in Runners, promote(r) PROVE IInv'
<1> USE DEF At, Goto
<1>1. PICK c \in contact : c \in Contact /\ c = Current(r) /\ row[r] \in 1 .. Len(batch[r])
      BY CurrentIsReported DEF promote
<1>2. /\ pc[r] = "promote"
      /\ \/ insert_artifact(PromotionId(c), RowOf(c, PromotionPolicy(r), "absent"))
         \/ UNCHANGED artifacts
      /\ UNCHANGED <<attempts, obstructions, reasons, events, contact>>
      /\ UNCHANGED <<episode, batch, todo, growth, report>>
      /\ NextRow(r, "promote", "reuse")
      /\ waiting' = [waiting EXCEPT ![r] = IF row[r] < Len(batch[r]) THEN {}
                                           ELSE {c2.task : c2 \in Reported(r)}]
      BY <1>1 DEF promote, notes
<1>3. TablesOK' /\ Grows
  <2>1. CASE insert_artifact(PromotionId(c), RowOf(c, PromotionPolicy(r), "absent"))
    <3>1. PromotionId(c) # BenchmarkId(c)
          BY <1>1, NamesAreDistinct
    <3> QED BY <1>1, <1>2, <2>1, <3>1, PoliciesAreStrict, InsertKeeps DEF IInv
  <2>2. CASE UNCHANGED artifacts
    <3>1. /\ Stored' = Stored /\ Durable' = Durable /\ Grows /\ DurableIsEarned'
          /\ \A x : Founded(x) => Founded(x)'
          BY <1>2, <2>2, GrowsTables DEF IInv, TablesOK
    <3> QED BY <1>2, <2>2, <3>1 DEF IInv, TablesOK, AttemptsBacked
  <2> QED BY <1>2, <2>1, <2>2
<1>4. {c2.task : c2 \in Reported(r)} \subseteq Tasks
      BY DEF IInv, RunnerOK, TablesOK, Contact
<1>5. /\ \/ /\ row[r] < Len(batch[r])
            /\ pc' = [pc EXCEPT ![r] = "promote"] /\ row' = [row EXCEPT ![r] = row[r] + 1]
         \/ pc' = [pc EXCEPT ![r] = "reuse"] /\ row' = [row EXCEPT ![r] = 1]
      BY <1>2 DEF NextRow
<1>6. Shape'
  <2>1. waiting' \in [Runners -> SUBSET Tasks]
        BY <1>2, <1>4 DEF IInv, Shape
  <2>2. pc' \in [Runners -> Places] /\ row' \in [Runners -> Nat]
    <3>1. row \in [Runners -> Nat] /\ pc \in [Runners -> Places]
          BY DEF IInv, Shape
    <3>2. row[r] + 1 \in Nat /\ 1 \in Nat /\ "promote" \in Places /\ "reuse" \in Places
          BY <3>1 DEF Places
    <3>3. row' \in [Runners -> Nat]
          BY <1>5, <3>1, <3>2
    <3>4. pc' \in [Runners -> Places]
          BY <1>5, <3>1, <3>2
    <3> QED BY <3>3, <3>4
  <2> QED BY <1>2, <2>1, <2>2 DEF IInv, Shape
<1>7. RunnerOK(r)'
  <2>1. Len(batch[r]) \in Nat /\ row[r] \in Nat /\ todo[r] = {}
    <3>1. todo[r] = {}
          BY <1>2 DEF IInv, RunnerOK, TodoOK
    <3>2. batch[r] \in Seq(Contact) /\ row[r] \in Nat
          BY DEF IInv, Shape
    <3> QED BY <3>1, <3>2
  <2>2. \/ pc'[r] = "promote" /\ row'[r] = row[r] + 1 /\ row[r] < Len(batch[r])
        \/ pc'[r] = "reuse" /\ row'[r] = 1
        BY <1>5 DEF IInv, Shape
  <2>3. RowOK(r)'
        BY <1>1, <1>2, <2>1, <2>2 DEF RowOK
  <2>4. TodoOK(r)'
        BY <1>2, <2>1, <2>2 DEF TodoOK
  <2>5. GrowthOK(r)'
        BY <1>2, <1>3, GrowthStands DEF IInv, Shape, RunnerOK
  <2>6. Reported(r)' \subseteq contact'
        BY <1>2 DEF Reported, IInv, RunnerOK
  <2> QED BY <1>2, <2>3, <2>4, <2>5, <2>6 DEF IInv, RunnerOK
<1>8. \A q \in Runners \ {r} : Own(q)' = Own(q)
      BY <1>2, <1>5 DEF IInv, Shape, Own
<1> QED BY <1>3, <1>6, <1>7, <1>8, StepOfOne

\* The steps that leave the artifacts and what they rest on alone, and touch
\* only what a runner has yet to write, may note, or has counted.
LEMMA ReuseKeeps ==
    ASSUME IInv, NEW r \in Runners, pc[r] = "reuse",
           retrieve_lawbook_attention(r) \/ record_artifact_reuse(r)
    PROVE  IInv'
<1> USE DEF At, Goto
<1>1. todo[r] \subseteq ReuseNote /\ \A note \in todo[r] : note.artifact \in Durable
      BY DEF IInv, RunnerOK, TodoOK
<1>2. /\ UNCHANGED <<artifacts, attempts, obstructions, reasons, contact>>
      /\ UNCHANGED <<pc, episode, batch, row, growth, report>>
      BY DEF retrieve_lawbook_attention, record_artifact_reuse, tables, notes
<1>3. /\ Stored' = Stored /\ Durable' = Durable /\ Grows /\ DurableIsEarned'
      /\ \A x : Founded(x) => Founded(x)'
      BY <1>2, GrowsTables DEF IInv, TablesOK
<1>4. AttemptsBacked'
      BY <1>2, <1>3 DEF IInv, TablesOK, AttemptsBacked
<1>5. PICK left : /\ todo' = [todo EXCEPT ![r] = left]
                  /\ left \subseteq ReuseNote /\ \A note \in left : note.artifact \in Durable
  <2>1. CASE retrieve_lawbook_attention(r)
    <3> DEFINE Notes(task, found) ==
                 {[artifact |-> id, task |-> task, episode |-> episode[r]] : id \in found}
    <3>0. durable_only(Stored) = Durable /\ waiting[r] \subseteq Tasks
          BY DEF durable_only, Durable, IInv, Shape
    <3>1. PICK task \in Tasks, found \in SUBSET Durable :
            todo' = [todo EXCEPT ![r] = Notes(task, found)]
          BY <2>1, <3>0 DEF retrieve_lawbook_attention
    <3>2. episode[r] \in Episodes
          BY DEF IInv, RunnerOK, Episodes
    <3>3. /\ Notes(task, found) \subseteq ReuseNote
          /\ \A note \in Notes(task, found) : note.artifact \in Durable
          BY <3>2 DEF ReuseNote, Durable, Stored
    <3> HIDE DEF Notes
    <3> QED BY <3>1, <3>3
  <2>2. CASE record_artifact_reuse(r)
        BY <2>2, <1>1 DEF record_artifact_reuse
  <2> QED BY <2>1, <2>2
<1>6. events' \subseteq ReuseNote /\ \A note \in events' : note.artifact \in Durable
      BY <1>1 DEF retrieve_lawbook_attention, record_artifact_reuse, tables, IInv, TablesOK
<1>7. waiting' \in [Runners -> SUBSET Tasks] /\ \A q \in Runners \ {r} : waiting'[q] = waiting[q]
      BY DEF retrieve_lawbook_attention, record_artifact_reuse, IInv, Shape
<1>8. TablesOK'
      BY <1>2, <1>3, <1>4, <1>6 DEF IInv, TablesOK
<1>9. Shape'
  <2>1. todo' \in [Runners -> (SUBSET ReasonRow) \cup (SUBSET ReuseNote)]
    <3> DEFINE T == (SUBSET ReasonRow) \cup (SUBSET ReuseNote)
    <3>1. left \in T
      <4>1. left \in SUBSET ReuseNote
            BY <1>5
      <4> QED BY <4>1
    <3>2. todo \in [Runners -> T]
          BY DEF IInv, Shape
    <3> HIDE DEF T
    <3>3. todo' \in [Runners -> T]
          BY <1>5, <3>1, <3>2
    <3> QED BY <3>3 DEF T
  <2> QED BY <1>2, <1>7, <2>1 DEF IInv, Shape
<1>10. RunnerOK(r)'
  <2>1. todo'[r] = left
        BY <1>5 DEF IInv, Shape
  <2>2. RowOK(r)'
        BY <1>2 DEF IInv, RunnerOK, RowOK
  <2>3. TodoOK(r)'
        BY <1>2, <1>3, <1>5, <2>1 DEF TodoOK
  <2>4. GrowthOK(r)'
        BY <1>2, <1>3, GrowthStands DEF IInv, Shape, RunnerOK
  <2>5. Reported(r)' = Reported(r)
        BY <1>2 DEF Reported
  <2> QED BY <1>2, <2>2, <2>3, <2>4, <2>5 DEF IInv, RunnerOK
<1>11. \A q \in Runners \ {r} : Own(q)' = Own(q)
      BY <1>2, <1>5, <1>7 DEF IInv, Shape, Own
<1> QED BY <1>3, <1>8, <1>9, <1>10, <1>11, StepOfOne

LEMMA CountDurableKeeps ==
    ASSUME IInv, NEW r \in Runners, count_durable(r) PROVE IInv'
<1> USE DEF At, Goto
<1> DEFINE count == Cardinality(Durable)
<1>1. /\ pc[r] = "reuse" /\ todo[r] = {}
      /\ growth' = [growth EXCEPT ![r] = Append(growth[r], count)]
      /\ \/ /\ pc' = [pc EXCEPT ![r] = "start"] /\ episode[r] < NumEpisodes[r]
            /\ episode' = [episode EXCEPT ![r] = episode[r] + 1]
         \/ pc' = [pc EXCEPT ![r] = "report"] /\ UNCHANGED episode
      /\ UNCHANGED tables
      /\ UNCHANGED <<batch, row, todo, waiting, report, contact>>
      BY DEF count_durable
<1>2. /\ Stored' = Stored /\ Durable' = Durable /\ Grows /\ DurableIsEarned'
      /\ \A x : Founded(x) => Founded(x)'
      BY <1>1, GrowsTables DEF IInv, TablesOK, tables
<1>3. TablesOK'
      BY <1>1, <1>2 DEF IInv, TablesOK, AttemptsBacked, tables
<1>4. count \in Nat
      BY FS_CardinalityType, DurableIsFinite DEF IInv, TablesOK
<1> HIDE DEF count
<1>5. /\ growth[r] \in Seq(Nat) /\ Len(growth[r]) \in Nat
      /\ episode[r] \in Nat /\ NumEpisodes[r] \in Nat /\ episode[r] \in 1 .. NumEpisodes[r]
      BY RunnersAssumption DEF IInv, Shape, RunnerOK
<1>6. growth'[r] = Append(growth[r], count) /\ \A q \in Runners \ {r} : growth'[q] = growth[q]
      BY <1>1 DEF IInv, Shape
<1>7. Shape'
  <2>1. growth' \in [Runners -> Seq(Nat)]
        BY <1>1, <1>4, <1>5 DEF IInv, Shape
  <2>2. episode' \in [Runners -> Nat] /\ pc' \in [Runners -> Places]
    <3>1. episode[r] + 1 \in Nat /\ "start" \in Places /\ "report" \in Places
          BY <1>5 DEF Places
    <3> QED BY <1>1, <3>1 DEF IInv, Shape
  <2> QED BY <1>1, <2>1, <2>2 DEF IInv, Shape
<1>8. RunnerOK(r)'
  <2>1. pc'[r] \in {"start", "report"} /\ episode'[r] \in 1 .. NumEpisodes[r]
        BY <1>1, <1>5 DEF IInv, Shape
  <2>2. row[r] = 1
        BY <1>1 DEF IInv, RunnerOK, RowOK
  <2>3. RowOK(r)'
        BY <1>1, <2>1, <2>2 DEF RowOK
  <2>4. TodoOK(r)'
        BY <1>1, <2>1 DEF TodoOK
  <2>5. GrowthOK(r)'
    <3>1. Cardinality(Durable') = count
          BY <1>2 DEF count
    <3>2. /\ Len(growth'[r]) = Len(growth[r]) + 1
          /\ \A i \in 1 .. Len(growth[r]) : growth'[r][i] = growth[r][i]
          /\ growth'[r][Len(growth[r]) + 1] = count
          BY <1>4, <1>5, <1>6
    <3>3. \A i \in 1 .. Len(growth[r]) :
            /\ growth[r][i] <= count
            /\ \A j \in 1 .. i : growth[r][j] <= growth[r][i]
          BY DEF IInv, RunnerOK, GrowthOK, count
    <3>4. ASSUME NEW i \in 1 .. Len(growth'[r])
          PROVE  growth'[r][i] <= count /\ \A j \in 1 .. i : growth'[r][j] <= growth'[r][i]
      <4>1. CASE i = Len(growth[r]) + 1
        <5>1. growth'[r][i] = count /\ count <= count
              BY <1>4, <3>2, <4>1
        <5>2. ASSUME NEW j \in 1 .. i PROVE growth'[r][j] <= count
          <6>1. j \in 1 .. Len(growth[r]) \/ j = Len(growth[r]) + 1
                BY <1>5, <4>1
          <6> QED BY <3>2, <3>3, <5>1, <6>1
        <5> QED BY <5>1, <5>2
      <4>2. CASE i # Len(growth[r]) + 1
        <5>1. i \in 1 .. Len(growth[r]) /\ \A j \in 1 .. i : j \in 1 .. Len(growth[r])
              BY <1>5, <3>2, <4>2
        <5>2. growth'[r][i] = growth[r][i] /\ \A j \in 1 .. i : growth'[r][j] = growth[r][j]
              BY <3>2, <5>1
        <5> QED BY <3>3, <5>1, <5>2
      <4> QED BY <4>1, <4>2
    <3> QED BY <3>1, <3>4 DEF GrowthOK
  <2>6. Reported(r)' \subseteq contact'
        BY <1>1 DEF Reported, IInv, RunnerOK
  <2> QED BY <2>1, <2>3, <2>4, <2>5, <2>6 DEF RunnerOK
<1>9. \A q \in Runners \ {r} : Own(q)' = Own(q)
      BY <1>1, <1>6 DEF IInv, Shape, Own
<1> QED BY <1>2, <1>3, <1>7, <1>8, <1>9, StepOfOne

LEMMA ReportKeeps ==
    ASSUME IInv, NEW r \in Runners, compute_cross_episode_metrics(r) PROVE IInv'
<1> USE DEF At, Goto
<1> DEFINE said == ~\E id \in Durable : LikeFallbackModeTrue(id)
<1>1. /\ pc[r] = "report" /\ pc' = [pc EXCEPT ![r] = "done"]
      /\ report' = [report EXCEPT ![r] = said]
      /\ UNCHANGED tables
      /\ UNCHANGED <<episode, batch, row, todo, waiting, growth, contact>>
      BY DEF compute_cross_episode_metrics
<1>2. /\ Stored' = Stored /\ Durable' = Durable /\ Grows /\ DurableIsEarned'
      /\ \A x : Founded(x) => Founded(x)'
      BY <1>1, GrowsTables DEF IInv, TablesOK, tables
<1>3. TablesOK'
      BY <1>1, <1>2 DEF IInv, TablesOK, AttemptsBacked, tables
<1>4. Shape'
  <2>1. said \in BOOLEAN
        OBVIOUS
  <2> HIDE DEF said
  <2>2. report' \in [Runners -> BOOLEAN \cup {Absent}]
        BY <1>1, <2>1 DEF IInv, Shape
  <2> QED BY <1>1, <2>2 DEF IInv, Shape, Places
<1>5. RunnerOK(r)'
  <2>1. pc'[r] = "done" /\ row[r] = 1 /\ todo[r] = {}
        BY <1>1 DEF IInv, Shape, RunnerOK, RowOK, TodoOK
  <2>2. RowOK(r)' /\ TodoOK(r)'
        BY <1>1, <2>1 DEF RowOK, TodoOK
  <2>3. GrowthOK(r)'
        BY <1>1, <1>2, GrowthStands DEF IInv, Shape, RunnerOK
  <2>4. Reported(r)' \subseteq contact'
        BY <1>1 DEF Reported, IInv, RunnerOK
  <2> QED BY <1>1, <2>2, <2>3, <2>4 DEF IInv, RunnerOK
<1>6. \A q \in Runners \ {r} : Own(q)' = Own(q)
      BY <1>1 DEF IInv, Shape, Own
<1> QED BY <1>2, <1>3, <1>4, <1>5, <1>6, StepOfOne

LEMMA DieKeeps ==
    ASSUME IInv, NEW r \in Runners, Die(r) PROVE IInv'
<1> USE DEF At, Goto
<1>1. /\ pc' = [pc EXCEPT ![r] = "dead"] /\ episode' = [episode EXCEPT ![r] = 1]
      /\ batch' = [batch EXCEPT ![r] = << >>] /\ row' = [row EXCEPT ![r] = 1]
      /\ todo' = [todo EXCEPT ![r] = {}] /\ waiting' = [waiting EXCEPT ![r] = {}]
      /\ growth' = [growth EXCEPT ![r] = << >>]
      /\ UNCHANGED tables /\ UNCHANGED <<report, contact>>
      BY DEF Die
<1>2. /\ Stored' = Stored /\ Durable' = Durable /\ Grows /\ DurableIsEarned'
      /\ \A x : Founded(x) => Founded(x)'
      BY <1>1, GrowsTables DEF IInv, TablesOK, tables
<1>3. TablesOK'
      BY <1>1, <1>2 DEF IInv, TablesOK, AttemptsBacked, tables
<1>4. Shape'
  <2>1. /\ "dead" \in Places /\ {} \in (SUBSET ReasonRow) \cup (SUBSET ReuseNote)
        /\ << >> \in Seq(Contact) /\ << >> \in Seq(Nat)
        BY DEF Places
  <2> QED BY <1>1, <2>1 DEF IInv, Shape
<1>5. RunnerOK(r)'
  <2>1. /\ pc'[r] = "dead" /\ episode'[r] = 1 /\ batch'[r] = << >> /\ row'[r] = 1
        /\ todo'[r] = {} /\ growth'[r] = << >>
        BY <1>1 DEF IInv, Shape
  <2>2. 1 \in 1 .. NumEpisodes[r]
        BY RunnersAssumption
  <2> QED BY <2>1, <2>2 DEF RunnerOK, RowOK, TodoOK, GrowthOK, Reported
<1>6. \A q \in Runners \ {r} : Own(q)' = Own(q)
      BY <1>1 DEF IInv, Shape, Own
<1> QED BY <1>2, <1>3, <1>4, <1>5, <1>6, StepOfOne

LEMMA NextKeeps == IInv /\ [Next]_vars => IInv'
<1> SUFFICES ASSUME IInv, [Next]_vars PROVE IInv'
    OBVIOUS
<1>1. CASE Next
  <2>1. PICK r \in Runners : Step(r)
        BY <1>1 DEF Next
  <2>2. CASE retrieve_lawbook_attention(r) \/ record_artifact_reuse(r)
        BY <2>2, ReuseKeeps DEF retrieve_lawbook_attention, record_artifact_reuse, At
  <2> QED BY <2>1, <2>2, EvaluateKeeps, StoreArtifactKeeps, InsertObstructionKeeps,
             InsertAttemptKeeps, InsertReasonKeeps, PromoteKeeps, CountDurableKeeps,
             ReportKeeps, DieKeeps DEF Step
<1>2. CASE UNCHANGED vars
  <2>1. /\ UNCHANGED <<artifacts, attempts, obstructions, reasons, events, pc, episode, batch>>
        /\ UNCHANGED <<row, todo, waiting, growth, report, contact>>
        BY <1>2 DEF vars, tables, notes
  <2>2. /\ Stored' = Stored /\ Durable' = Durable /\ Grows /\ DurableIsEarned'
        /\ \A x : Founded(x) => Founded(x)'
        BY <2>1, GrowsTables DEF IInv, TablesOK
  <2>3. TablesOK'
        BY <2>1, <2>2 DEF IInv, TablesOK, AttemptsBacked
  <2>4. Shape'
        BY <2>1 DEF IInv, Shape
  <2>5. ASSUME NEW r \in Runners PROVE RunnerOK(r)'
    <3>1. Own(r)' = Own(r)
          BY <2>1 DEF Own
    <3> QED BY <2>2, <3>1, OthersStand DEF IInv
  <2> QED BY <2>3, <2>4, <2>5 DEF IInv
<1> QED BY <1>1, <1>2

LEMMA InvariantStands == Spec => []IInv
<1> QED BY InitIsInvariant, NextKeeps, PTL DEF Spec

-----------------------------------------------------------------------------
(* The theorems, for any number of runners, episodes, tasks, modes and kills.*)

\* TypeOK: table artifacts, the compounding tables and what each runner holds of
\* them stay in their domains.
THEOREM MemoryTypes == Spec => []TypeOK
BY InvariantStands, InvariantHolds, PTL

\* DurableIsEarned: insert_artifact, called by the benchmark and by
\* promote_benchmark_outputs under either policy, leaves nothing durable that no
\* evaluator found with the corpus at hand.
THEOREM MemoryIsEarned == Spec => []DurableIsEarned
BY InvariantStands, InvariantHolds, PTL

\* RecordsAreBacked: wherever a runner is killed between its transactions, the
\* rows that attempts, reasons and notes of reuse refer to are in the file.
THEOREM MemoryIsBacked == Spec => []RecordsAreBacked
BY InvariantStands, InvariantHolds, PTL

\* GrowthNeverShrinks: the counts of durable artifacts that a runner takes after
\* its episodes only grow, though every runner replaces rows of every other.
THEOREM MemoryGrows == Spec => []GrowthNeverShrinks
BY InvariantStands, InvariantHolds, PTL

-----------------------------------------------------------------------------
(* The summary's boundary report.                                            *)

\* A row of the benchmark tells by its name which mode its payload speaks of.
Named(id, mode) ==
    \E c \in Contact : \/ id = BenchmarkId(c) /\ mode = IF c.fallback THEN "true" ELSE "false"
                       \/ id = PromotionId(c) /\ mode = "absent"
ModesAreNamed == \A id \in Stored : Named(id, artifacts[id].fallback_mode)

\* A report that a fallback artifact became durable was made because of a durable
\* row of the benchmark, whose payload says that it is none.
AlarmsAreFalse ==
    \A r \in Runners : report[r] = FALSE =>
        /\ \E id \in Durable : artifacts[id].fallback_mode = "false"
        /\ ~\E id \in Durable : artifacts[id].fallback_mode = "true"

LEMMA DurableIsNoFallback ==
    ASSUME TablesOK, ModesAreNamed, NEW id \in Durable
    PROVE  artifacts[id].fallback_mode # "true"
<1> SUFFICES ASSUME artifacts[id].fallback_mode = "true" PROVE FALSE
    OBVIOUS
<1>1. PICK c \in Contact : id = BenchmarkId(c) /\ c.fallback
      BY DEF ModesAreNamed, Named, Durable
<1>2. PICK d \in contact : EarnedBy(id, d)
      BY DEF TablesOK, DurableIsEarned, Durable
<1> QED BY <1>1, <1>2, NamesAreDistinct DEF EarnedBy, TablesOK

\* The table artifacts in a step.
LEMMA ArtifactsStep ==
    ASSUME IInv, NEW r \in Runners, Step(r)
    PROVE  \/ UNCHANGED artifacts
           \/ \E id \in ArtifactIds, new \in ArtifactRow :
                 artifacts' = [artifacts EXCEPT ![id] = new] /\ Named(id, new.fallback_mode)
<1> DEFINE c == Current(r)
<1>1. CASE store_artifact(r)
  <2> DEFINE fm == IF c.fallback THEN "true" ELSE "false"
             new == RowOf(c, BenchmarkPolicy, fm)
  <2>1. c \in Contact  BY <1>1, CurrentIsReported DEF store_artifact, At
  <2>2. artifacts' = [artifacts EXCEPT ![BenchmarkId(c)] = new]
        BY <1>1 DEF store_artifact, insert_artifact
  <2>3. fm \in {"true", "false", "absent"}  OBVIOUS
  <2>4. Named(BenchmarkId(c), fm)  BY <2>1 DEF Named
  <2> HIDE DEF c, fm
  <2>5. new \in ArtifactRow /\ new.fallback_mode = fm
        BY <2>1, <2>3, PoliciesAreStrict, RowsOfAttempts DEF RowOf
  <2> HIDE DEF new
  <2> QED BY <2>1, <2>2, <2>4, <2>5, NamesAreDistinct
<1>2. CASE promote(r)
  <2> DEFINE new == RowOf(c, PromotionPolicy(r), "absent")
  <2>1. c \in Contact  BY <1>2, CurrentIsReported DEF promote, At
  <2>2. artifacts' = [artifacts EXCEPT ![PromotionId(c)] = new] \/ UNCHANGED artifacts
        BY <1>2 DEF promote, insert_artifact
  <2>3. Named(PromotionId(c), "absent")  BY <2>1 DEF Named
  <2> HIDE DEF c
  <2>4. new \in ArtifactRow /\ new.fallback_mode = "absent"
        BY <2>1, PoliciesAreStrict, RowsOfAttempts DEF RowOf
  <2> HIDE DEF new
  <2> QED BY <2>1, <2>2, <2>3, <2>4, NamesAreDistinct
<1>3. CASE ~store_artifact(r) /\ ~promote(r)
      BY <1>3 DEF Step, tables, evaluate, insert_obstruction, insert_attempt, insert_reason,
                  retrieve_lawbook_attention, record_artifact_reuse, count_durable,
                  compute_cross_episode_metrics, Die
<1> QED BY <1>1, <1>2, <1>3

\* The report in a step.
LEMMA ReportStep ==
    ASSUME IInv, NEW r \in Runners, Step(r)
    PROVE  \/ UNCHANGED report
           \/ /\ UNCHANGED artifacts
              /\ \A q \in Runners \ {r} : report'[q] = report[q]
              /\ report'[r] = FALSE => \E id \in Durable : LikeFallbackModeTrue(id)
<1>1. CASE compute_cross_episode_metrics(r)
      BY <1>1 DEF compute_cross_episode_metrics, tables, IInv, Shape
<1>2. CASE ~compute_cross_episode_metrics(r)
      BY <1>2 DEF Step, notes, evaluate, store_artifact, insert_obstruction, insert_attempt,
                  insert_reason, promote, retrieve_lawbook_attention, record_artifact_reuse,
                  count_durable, Die
<1> QED BY <1>1, <1>2

LEMMA AlarmStep ==
    ASSUME IInv, IInv', ModesAreNamed, AlarmsAreFalse, Next
    PROVE  ModesAreNamed' /\ AlarmsAreFalse'
<1> PICK r \in Runners : Step(r)  BY DEF Next
<1>1. /\ ModesAreNamed'
      /\ \A id \in Durable : /\ id \in Durable'
                             /\ artifacts[id].fallback_mode = "false"
                                   => artifacts'[id].fallback_mode = "false"
  <2>1. CASE UNCHANGED artifacts
        BY <2>1 DEF ModesAreNamed, Stored, Durable
  <2>2. CASE \E id \in ArtifactIds, new \in ArtifactRow :
                 artifacts' = [artifacts EXCEPT ![id] = new] /\ Named(id, new.fallback_mode)
    <3>1. PICK id \in ArtifactIds, new \in ArtifactRow :
                 artifacts' = [artifacts EXCEPT ![id] = new] /\ Named(id, new.fallback_mode)
          BY <2>2
    <3>2. /\ artifacts'[id] = new /\ new # Absent
          /\ \A x \in ArtifactIds \ {id} : artifacts'[x] = artifacts[x]
          BY <3>1, AbsentAssumption DEF IInv, TablesOK
    <3>3. Stored' = Stored \cup {id}  BY <3>2 DEF Stored
    <3>4. ModesAreNamed'
          BY <3>1, <3>2, <3>3 DEF ModesAreNamed, Stored, Named
    <3>5. ASSUME NEW x \in Durable
          PROVE  /\ x \in Durable'
                 /\ artifacts[x].fallback_mode = "false" => artifacts'[x].fallback_mode = "false"
      <4>1. PICK d \in contact : d \in Contact /\ EarnedBy(x, d)
            BY DEF IInv, TablesOK, DurableIsEarned, Durable
      <4>2. x \in Durable'
        <5>1. x \in Stored'  BY <3>3 DEF Durable
        <5> QED BY <4>1, <5>1 DEF IInv, TablesOK, DurableIsEarned, Durable
      <4>3. ASSUME artifacts[x].fallback_mode = "false"
            PROVE  artifacts'[x].fallback_mode = "false"
        <5>1. PICK c \in Contact : x = BenchmarkId(c) /\ ~c.fallback
              BY <4>3 DEF ModesAreNamed, Named, Durable
        <5>2. Named(x, artifacts'[x].fallback_mode)
              BY <3>4, <4>2 DEF ModesAreNamed, Durable, Named
        <5> QED BY <5>1, <5>2, NamesAreDistinct DEF Named
      <4> QED BY <4>2, <4>3
    <3> QED BY <3>4, <3>5
  <2> QED BY <2>1, <2>2, ArtifactsStep
<1>2. ~\E id \in Durable' : artifacts'[id].fallback_mode = "true"
  <2>1. TablesOK'  BY DEF IInv
  <2> SUFFICES ASSUME NEW id \in Durable', artifacts'[id].fallback_mode = "true" PROVE FALSE
      OBVIOUS
  <2>2. PICK c \in Contact : id = BenchmarkId(c) /\ c.fallback
        BY <1>1 DEF ModesAreNamed, Named, Durable
  <2>3. PICK d \in contact' : EarnedBy(id, d)
        BY <2>1 DEF TablesOK, DurableIsEarned, Durable
  <2> QED BY <2>1, <2>2, <2>3, NamesAreDistinct DEF EarnedBy, TablesOK
<1>3. ASSUME NEW q \in Runners, report'[q] = FALSE
      PROVE  \E id \in Durable' : artifacts'[id].fallback_mode = "false"
  <2>1. CASE report'[q] = report[q]
    <3>1. PICK id \in Durable : artifacts[id].fallback_mode = "false"
          BY <1>3, <2>1 DEF AlarmsAreFalse
    <3> QED BY <1>1, <3>1
  <2>2. CASE report'[q] # report[q]
    <3>1. PICK id \in Durable : LikeFallbackModeTrue(id)  BY <1>3, <2>2, ReportStep
    <3>2. artifacts[id].fallback_mode # "true"  BY DurableIsNoFallback DEF IInv
    <3> QED BY <1>1, <3>1, <3>2 DEF LikeFallbackModeTrue
  <2> QED BY <2>1, <2>2
<1> QED BY <1>1, <1>2, <1>3 DEF AlarmsAreFalse

\* AlarmsAreFalse: whatever the runners do, no_fallback_durable is false only
\* by mistake, so that BoundaryReportIsTrue holds just as long as it is not.
THEOREM OnlyFalseAlarms ==
    Spec => [](AlarmsAreFalse /\ (BoundaryReportIsTrue <=> \A r \in Runners : report[r] # FALSE))
<1>1. Init => ModesAreNamed /\ AlarmsAreFalse
      BY AbsentAssumption DEF Init, ModesAreNamed, AlarmsAreFalse, Stored
<1>2. ASSUME IInv, IInv', ModesAreNamed, AlarmsAreFalse, [Next]_vars
      PROVE  ModesAreNamed' /\ AlarmsAreFalse'
  <2>1. CASE UNCHANGED vars
        BY <1>2, <2>1 DEF vars, tables, notes, ModesAreNamed, AlarmsAreFalse, Stored, Durable
  <2> QED BY <1>2, <2>1, AlarmStep
<1>3. AlarmsAreFalse =>
         /\ AlarmsAreFalse
         /\ BoundaryReportIsTrue <=> \A r \in Runners : report[r] # FALSE
      BY DEF AlarmsAreFalse, BoundaryReportIsTrue
<1> QED BY <1>1, <1>2, <1>3, InvariantStands, PTL DEF Spec
=============================================================================
