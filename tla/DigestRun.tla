------------------------------ MODULE DigestRun ------------------------------
(* What one run of the Mathlib digest finds (mathgraph/mathlib_digest.py),   *)
(* and the rows it comes to in the digest Lawbook. A pack config names its   *)
(* targets in a list, in which a target may come more than once: scheduled   *)
(* packs of two basins may share it. Every entry of the list is put to Lean  *)
(* and counted; rows with one key replace each other, so the last one stays. *)
EXTENDS Naturals, Sequences, FiniteSets

CONSTANTS
    Targets,      \* declaration names
    Templates,    \* constructor templates
    Basins,       \* reason basins
    Refs,         \* the references that Lean may print of a target
    TemplatesOf,  \* the templates tried in each basin
    ProofBody(_, _, _),  \* the proof body of a template for a target and its references
    Configs,      \* pack configs: their list of names, and the basin of each target
    MaxRuns       \* bound on digest runs

ASSUME ConfigsAssumption ==
    /\ IsFiniteSet(Targets) /\ IsFiniteSet(Templates)
    /\ TemplatesOf \in [Basins -> SUBSET Templates]
    /\ \A c \in Configs : c.names \in Seq(Targets) /\ c.basin \in [Targets -> Basins]
    /\ MaxRuns \in Nat

\* One entry of the list: whether Lean accepted the target and its statement
\* could be parsed, what it printed, and the templates that verified.
Entries == [target : Targets, accepted : BOOLEAN, stated : BOOLEAN,
            refs : Refs, verified : SUBSET Templates]

\* What the entry of a target in a basin may come to.
Findings(t, b) ==
    {e \in Entries :
        /\ e.target = t /\ (e.stated => e.accepted)
        /\ e.verified \subseteq IF e.stated THEN TemplatesOf[b] ELSE {}}

\* The basin comes from the pack that names the target last, if it says so, or
\* from the name: it is one for all entries of a target in a run, and may be
\* another in the next run.
Payloads ==
    UNION {{[run |-> n, basin |-> c.basin, entries |-> s] :
               n \in 1 .. MaxRuns,
               s \in {f \in [DOMAIN c.names -> Entries] :
                         \A i \in DOMAIN c.names : f[i] \in Findings(c.names[i], c.basin[c.names[i]])}} :
           c \in Configs}

BasinAt(d, i) == d.basin[d.entries[i].target]

\* The entries that name a target, and those of them that Lean accepted.
Naming(d, t) == {i \in DOMAIN d.entries : d.entries[i].target = t}
Accepting(d, t) == {i \in Naming(d, t) : d.entries[i].accepted}

\* The constructor tests of a run: entry and template.
Trials(d) ==
    {x \in (DOMAIN d.entries) \X Templates :
        d.entries[x[1]].stated /\ x[2] \in TemplatesOf[BasinAt(d, x[1])]}
Passed(d, x) == x[2] \in d.entries[x[1]].verified

\* attempt_id hashes run, target and template; constructor_id basin, template
\* and proof body.
Attempt(d, x) == <<d.entries[x[1]].target, x[2]>>
Constructor(d, x) ==
    [basin |-> BasinAt(d, x[1]), template |-> x[2],
     body |-> ProofBody(x[2], d.entries[x[1]].target, d.entries[x[1]].refs)]
Constructors ==
    {[basin |-> b, template |-> m, body |-> ProofBody(m, t, r)] :
        b \in Basins, m \in Templates, t \in Targets, r \in Refs}

-----------------------------------------------------------------------------
(* The rows of a run.                                                        *)

Observations(d) ==
    {[run |-> d.run, target |-> d.entries[i].target, accepted |-> d.entries[i].accepted] :
        i \in {j \in DOMAIN d.entries : \A k \in Naming(d, d.entries[j].target) : k <= j}}

Edges(d) == {<<d.entries[i].target, BasinAt(d, i)>> : i \in DOMAIN d.entries}

Attempts(d) ==
    {[run |-> d.run, attempt |-> Attempt(d, x), verified |-> Passed(d, x)] :
        x \in {y \in Trials(d) :
                  \A z \in Trials(d) : Attempt(d, z) = Attempt(d, y) => z[1] <= y[1]}}

\* Every trial that did not verify, those that were skipped included.
Obstructions(d) ==
    {[run |-> d.run, attempt |-> Attempt(d, x)] : x \in {y \in Trials(d) : ~Passed(d, y)}}

\* How often a run verifies a constructor, and what it finds in a basin.
Yield(d, c) == Cardinality({x \in Trials(d) : Passed(d, x) /\ Constructor(d, x) = c})
Support(d, b) ==
    Cardinality({i \in DOMAIN d.entries : d.entries[i].accepted /\ BasinAt(d, i) = b})
Touches(d, b) == \E i \in DOMAIN d.entries : BasinAt(d, i) = b
Verified(d, b) == \E x \in Trials(d) : Passed(d, x) /\ BasinAt(d, x[1]) = b
=============================================================================
