------------------------- MODULE ReasonAtlasProofs -------------------------
(* The Reason Atlas for any number of processes and entries. The invariants  *)
(* of the runs hold because of where each process is between the             *)
(* transactions of one attempt; IInv says that, and is inductive.            *)
EXTENDS ReasonAtlas, PromotionGateProofs, FiniteSetTheorems

\* A process that has feedback to record knows what to record.
ScriptInv ==
    \A l \in Loops : pc[l] \in {"row", "attempt"} \X Entries => script[l] # <<>>

\* Those that have just these outcomes of an attempt at e left to record.
Owing(e, outcomes) ==
    {l \in Loops : pc[l] \in {"row", "attempt"} \X {e} /\ script[l] = outcomes}

\* CausesComeFirst, counting with each effect the processes that owe it.
CauseInv ==
    \A e \in Entries :
        /\ rows[e]["OBSTRUCTION_FOUND"] + Cardinality(Owing(e, <<"OBSTRUCTION_FOUND">>))
               <= rows[e]["VERIFIER_FAILURE"]
        /\ rows[e]["RESIDUAL_COMPRESSED"] + Cardinality(Owing(e, <<"RESIDUAL_COMPRESSED">>))
               <= rows[e]["TRANSFER_SUCCESS"]
        /\ rows[e]["TRANSFER_SUCCESS"]
               + Cardinality(Owing(e, <<"TRANSFER_SUCCESS", "RESIDUAL_COMPRESSED">>))
               <= rows[e]["VERIFIER_SUCCESS"]

\* What a process holds to write back is not more than the feedback of its entry.
HeldInv ==
    \A l \in Loops, e \in Entries, o \in Outcomes :
        pc[l] \in {"score", "retire"} \X {e} /\ held[l] # Absent => held[l].count[o] <= rows[e][o]

\* While processes have come one after the other at most one is busy, and what
\* it holds is the entry as it is, but for the status it is about to write.
AloneInv ==
    ~overlapped =>
        /\ \A k, l \in Loops : k = l \/ Idle(k) \/ Idle(l)
        /\ \A l \in Loops, e \in Entries :
              /\ At(l, "score", e) => held[l] = entries[e]
              /\ At(l, "retire", e) =>
                    /\ Exists(e) /\ held[l] # Absent
                    /\ held[l].count = entries[e].count /\ held[l].status # "ACTIVE"

IInv ==
    /\ TypeOK /\ ScriptInv /\ CountsAreBacked /\ HeldInv /\ EmissionsAreRecorded
    /\ CauseInv /\ PromotedIsBacked /\ AloneInv /\ CountsAreExact

-----------------------------------------------------------------------------
(* Types.                                                                    *)

LEMMA ScriptsAre ==
    Scripts = {<<>>, <<"VERIFIER_SUCCESS">>, <<"VERIFIER_FAILURE">>, <<"OBSTRUCTION_FOUND">>,
               <<"VERIFIER_FAILURE", "OBSTRUCTION_FOUND">>,
               <<"VERIFIER_SUCCESS", "TRANSFER_SUCCESS", "RESIDUAL_COMPRESSED">>,
               <<"TRANSFER_SUCCESS", "RESIDUAL_COMPRESSED">>, <<"RESIDUAL_COMPRESSED">>}
BY DEF Scripts, Success, Failure, Obstruction, Transfer

\* What is left of a script is a script, and its outcomes are outcomes.
LEMMA ScriptGoesOn ==
    ASSUME NEW s \in Scripts, s # <<>>
    PROVE  Head(s) \in Outcomes /\ Tail(s) \in Scripts
<1>1. ASSUME NEW o \in Outcomes, s = <<o>> PROVE Head(s) \in Outcomes /\ Tail(s) \in Scripts
  <2>1. Tail(s) = <<>> /\ Head(s) = o  BY <1>1
  <2> QED BY <2>1, ScriptsAre
<1>2. CASE s = <<"VERIFIER_FAILURE", "OBSTRUCTION_FOUND">>
  <2>1. Tail(s) = <<"OBSTRUCTION_FOUND">> /\ Head(s) \in Outcomes  BY <1>2 DEF Outcomes
  <2> QED BY <2>1, ScriptsAre
<1>3. CASE s = <<"VERIFIER_SUCCESS", "TRANSFER_SUCCESS", "RESIDUAL_COMPRESSED">>
  <2>1. /\ Tail(s) = <<"TRANSFER_SUCCESS", "RESIDUAL_COMPRESSED">>
        /\ Head(s) \in Outcomes
        BY <1>3 DEF Outcomes
  <2> QED BY <2>1, ScriptsAre
<1>4. CASE s = <<"TRANSFER_SUCCESS", "RESIDUAL_COMPRESSED">>
  <2>1. Tail(s) = <<"RESIDUAL_COMPRESSED">> /\ Head(s) \in Outcomes  BY <1>4 DEF Outcomes
  <2> QED BY <2>1, ScriptsAre
<1> QED BY <1>1, <1>2, <1>3, <1>4, ScriptsAre DEF Outcomes

\* The two ways in which a process changes its place.
LEMMA GotoType ==
    ASSUME NEW l \in Loops, NEW to, NEW e, pc \in [Loops -> Places], overlapped \in BOOLEAN,
           <<to, e>> \in Places, Goto(l, to, e)
    PROVE  /\ pc' \in [Loops -> Places] /\ overlapped' \in BOOLEAN
           /\ pc'[l] = <<to, e>> /\ \A k \in Loops \ {l} : pc'[k] = pc[k]
BY DEF Goto

\* The certificates that a breakthrough loop makes are certificates.
LEMMA AttemptCertificates ==
    CountermodelCertificate \in Certificate /\ FailureCertificate \in Certificate
BY DEF CountermodelCertificate, FailureCertificate, Certificate, Evidence, Forms

\* A verdict is of some certificate, and the gate is right about that one.
LEMMA VerdictIsRight ==
    ASSUME NEW v \in Verdicts
    PROVE  Accepts(v) = v.backed
<1>1. PICK c \in Certificate :
         v = [kind |-> evaluate_external_certificate(c), backed |-> Backed(c)]
      BY DEF Verdicts
<1>2. evaluate_external_certificate(c) = "ACCEPT_FOR_LAWBOOK" <=> Backed(c)
      BY GateAcceptsBacked
<1>3. Backed(c) \in BOOLEAN
      BY DEF Backed
<1> QED BY <1>1, <1>2, <1>3 DEF Accepts

LEMMA FirstOf ==
    ASSUME NEW t, NEW a, NEW b, t = <<a>> \/ t = <<a, b>>
    PROVE  Head(t) = a
OBVIOUS

\* Only the first outcome of an attempt is the verifier's success.
LEMMA LaterOutcomes ==
    ASSUME NEW s \in Scripts, Tail(s) # <<>>, s # <<>>
    PROVE  Head(Tail(s)) # "VERIFIER_SUCCESS"
<1>1. ASSUME NEW o, s = <<o>> PROVE FALSE
  <2>1. Tail(s) = <<>>  BY <1>1
  <2> QED BY <2>1
<1>2. CASE s = <<"VERIFIER_FAILURE", "OBSTRUCTION_FOUND">>
  <2>1. Tail(s) = <<"OBSTRUCTION_FOUND">>  BY <1>2
  <2>2. Head(Tail(s)) = "OBSTRUCTION_FOUND"  BY <2>1, FirstOf
  <2> QED BY <2>2
<1>3. CASE s = <<"VERIFIER_SUCCESS", "TRANSFER_SUCCESS", "RESIDUAL_COMPRESSED">>
  <2>1. Tail(s) = <<"TRANSFER_SUCCESS", "RESIDUAL_COMPRESSED">>  BY <1>3
  <2>2. Head(Tail(s)) = "TRANSFER_SUCCESS"  BY <2>1, FirstOf
  <2> QED BY <2>2
<1>4. CASE s = <<"TRANSFER_SUCCESS", "RESIDUAL_COMPRESSED">>
  <2>1. Tail(s) = <<"RESIDUAL_COMPRESSED">>  BY <1>4
  <2>2. Head(Tail(s)) = "RESIDUAL_COMPRESSED"  BY <2>1, FirstOf
  <2> QED BY <2>2
<1> QED BY <1>1, <1>2, <1>3, <1>4, ScriptsAre

\* A feedback event counts one outcome more and leaves the status alone.
LEMMA FeedbackCounts ==
    ASSUME NEW t \in Entry, NEW o \in Outcomes
    PROVE  /\ apply_feedback_to_entry(t, o) \in Entry
           /\ apply_feedback_to_entry(t, o).status = t.status
           /\ apply_feedback_to_entry(t, o).count = [t.count EXCEPT ![o] = @ + 1]
<1>1. t.count \in [Outcomes -> Nat] /\ t.status \in Statuses  BY DEF Entry
<1>2. [t.count EXCEPT ![o] = @ + 1] \in [Outcomes -> Nat]  BY <1>1
<1>3. apply_feedback_to_entry(t, o) = [status |-> t.status, count |-> [t.count EXCEPT ![o] = @ + 1]]
      BY DEF apply_feedback_to_entry, Entry
<1> QED BY <1>1, <1>2, <1>3 DEF Entry

LEMMA ScriptElsewhere ==
    ASSUME pc \in [Loops -> Places], overlapped \in BOOLEAN, ScriptInv,
           NEW l \in Loops, NEW to, to \notin {"row", "attempt"}, NEW e,
           <<to, e>> \in Places, Goto(l, to, e),
           \A k \in Loops \ {l} : script'[k] = script[k]
    PROVE  ScriptInv'
BY GotoType DEF ScriptInv

LEMMA ScriptGiven ==
    ASSUME pc \in [Loops -> Places], overlapped \in BOOLEAN, ScriptInv,
           NEW l \in Loops, NEW to, NEW e, <<to, e>> \in Places, Goto(l, to, e),
           \A k \in Loops \ {l} : script'[k] = script[k], script'[l] # <<>>
    PROVE  ScriptInv'
BY GotoType DEF ScriptInv

LEMMA TypeStep ==
    ASSUME TypeOK, ScriptInv, NEW l \in Loops, Step(l)
    PROVE  TypeOK' /\ ScriptInv'
<1> USE DEF TypeOK, tables, histories, bounds
<1>1. CASE run(l)
  <2>2. Goto(l, "rows", Absent) /\ <<"rows", Absent>> \in Places  BY <1>1 DEF run, Places
  <2>3. pc' \in [Loops -> Places] /\ overlapped' \in BOOLEAN  BY <2>2, GotoType
  <2>4. todo' \in [Loops -> SUBSET Entries]  BY <1>1 DEF run
  <2>5. runs' \in 0 .. MaxRuns  BY <1>1, BoundsAssumption DEF run
  <2>6. TypeOK'  BY <1>1, <2>3, <2>4, <2>5 DEF run
  <2>7. ScriptInv'  BY <1>1, <2>2, ScriptElsewhere DEF run
  <2> QED BY <2>6, <2>7
<1>2. CASE VerifyRow(l)
  <2>1. PICK e \in Entries, v \in Verdicts :
           /\ todo' = [todo EXCEPT ![l] = @ \ {e}] /\ Judged(v)
           /\ \/ Accepts(v) /\ Goto(l, "emit", e) /\ UNCHANGED script
              \/ /\ ~Accepts(v) /\ Goto(l, "row", e)
                 /\ script' = [script EXCEPT ![l] = IF Obstructs(v) THEN Obstruction ELSE Failure]
        BY <1>2 DEF VerifyRow
  <2>2. <<"emit", e>> \in Places /\ <<"row", e>> \in Places  BY DEF Places
  <2>3. pc' \in [Loops -> Places] /\ overlapped' \in BOOLEAN  BY <2>1, <2>2, GotoType
  <2>4. todo' \in [Loops -> SUBSET Entries] /\ misjudged' \in BOOLEAN
        BY <2>1, VerdictIsRight DEF Judged
  <2>5. script' \in [Loops -> Scripts]  BY <2>1, ScriptsAre DEF Obstruction, Failure
  <2>6. TypeOK'  BY <1>2, <2>3, <2>4, <2>5 DEF VerifyRow
  <2>7. CASE Goto(l, "emit", e) /\ UNCHANGED script  BY <2>2, <2>6, <2>7, ScriptElsewhere
  <2>8. CASE /\ Goto(l, "row", e)
             /\ script' = [script EXCEPT ![l] = IF Obstructs(v) THEN Obstruction ELSE Failure]
        BY <2>2, <2>6, <2>8, ScriptGiven DEF Obstruction, Failure
  <2> QED BY <2>1, <2>6, <2>7, <2>8
<1>3. CASE EmitCandidate(l)
  <2>1. PICK e \in Entries : Goto(l, "row", e) /\ emitted' = [emitted EXCEPT ![e] = @ + 1]
        BY <1>3 DEF EmitCandidate
  <2>2. Goto(l, "row", e) /\ <<"row", e>> \in Places  BY <2>1 DEF Places
  <2>3. pc' \in [Loops -> Places] /\ overlapped' \in BOOLEAN  BY <2>2, GotoType
  <2>4. emitted' \in [Entries -> Nat]  BY <1>3, <2>1 DEF EmitCandidate
  <2>5. script' \in [Loops -> Scripts]  BY <1>3, <2>1, ScriptsAre DEF EmitCandidate, Success
  <2>6. TypeOK'  BY <1>3, <2>1, <2>3, <2>4, <2>5 DEF EmitCandidate
  <2>7. ScriptInv'  BY <1>3, <2>1, <2>2, ScriptGiven, ScriptsAre DEF EmitCandidate, Success
  <2> QED BY <2>6, <2>7
<1>4. CASE record(l)
  <2>1. PICK e \in Entries, place \in {"row", "attempt"} :
          /\ At(l, place, e) /\ add_feedback(e, Head(script[l]))
          /\ IF Tail(script[l]) # <<>> THEN Goto(l, place, e)
             ELSE Goto(l, IF place = "row" THEN "rows" ELSE "episode", Absent)
        BY <1>4 DEF record
  <2>2. /\ <<place, e>> \in Places /\ <<"rows", Absent>> \in Places
        /\ <<"episode", Absent>> \in Places
        BY DEF Places
  <2>3. pc' \in [Loops -> Places] /\ overlapped' \in BOOLEAN
        BY <2>1, <2>2, GotoType
  <2>4. script[l] \in Scripts /\ script[l] # <<>>
    <3>1. pc[l] \in {"row", "attempt"} \X Entries  BY <2>1 DEF At
    <3> QED BY <3>1 DEF ScriptInv
  <2>5. Head(script[l]) \in Outcomes /\ Tail(script[l]) \in Scripts  BY <2>4, ScriptGoesOn
  <2>6. script' = [script EXCEPT ![l] = Tail(script[l])]  BY <1>4 DEF record
  <2>7. rows' \in [Entries -> [Outcomes -> Nat]] /\ entries' \in [Entries -> Entry \cup {Absent}]
    <3>1. rows' \in [Entries -> [Outcomes -> Nat]]  BY <2>1, <2>5 DEF add_feedback
    <3>2. Exists(e) => apply_feedback_to_entry(entries[e], Head(script[l])) \in Entry
          BY <2>5, FeedbackCounts DEF Exists
    <3> QED BY <2>1, <3>1, <3>2 DEF add_feedback
  <2>8. TypeOK'  BY <1>4, <2>3, <2>5, <2>6, <2>7 DEF record
  <2>9. CASE Tail(script[l]) # <<>>  BY <2>1, <2>2, <2>6, <2>8, <2>9, ScriptGiven
  <2>10. CASE Tail(script[l]) = <<>>  BY <2>1, <2>2, <2>6, <2>8, <2>10, ScriptElsewhere
  <2> QED BY <2>8, <2>9, <2>10
<1>5. CASE run_episode(l)
  <2>2. Goto(l, "episode", Absent) /\ <<"episode", Absent>> \in Places  BY <1>5 DEF run_episode, Places
  <2>3. pc' \in [Loops -> Places] /\ overlapped' \in BOOLEAN  BY <2>2, GotoType
  <2>4. runs' \in 0 .. MaxRuns  BY <1>5, BoundsAssumption DEF run_episode
  <2>5. TypeOK'  BY <1>5, <2>3, <2>4 DEF run_episode
  <2>6. ScriptInv'  BY <1>5, <2>2, ScriptElsewhere DEF run_episode
  <2> QED BY <2>5, <2>6
<1>6. CASE Attempt(l)
  <2>1. PICK e \in Entries, cert \in {CountermodelCertificate, FailureCertificate} :
          LET accepted == evaluate_external_certificate(cert) = "ACCEPT_FOR_LAWBOOK" IN
          /\ Goto(l, "attempt", e)
          /\ misjudged' = (misjudged \/ accepted # Backed(cert))
          /\ emitted' = [emitted EXCEPT ![e] = @ + (IF accepted THEN 1 ELSE 0)]
          /\ script' = [script EXCEPT ![l] = IF accepted THEN Transfer ELSE Obstruction]
        BY <1>6 DEF Attempt
  <2>2. <<"attempt", e>> \in Places  BY DEF Places
  <2>3. pc' \in [Loops -> Places] /\ overlapped' \in BOOLEAN  BY <2>1, <2>2, GotoType
  <2>4. emitted' \in [Entries -> Nat] /\ misjudged' \in BOOLEAN  BY <2>1
  <2>5. script' \in [Loops -> Scripts]  BY <2>1, ScriptsAre DEF Obstruction, Transfer
  <2>6. attempts' \in 0 .. MaxAttempts  BY <1>6, BoundsAssumption DEF Attempt
  <2>7. TypeOK'  BY <1>6, <2>3, <2>4, <2>5, <2>6 DEF Attempt
  <2>8. ScriptInv'  BY <2>1, <2>2, ScriptGiven DEF Obstruction, Transfer
  <2> QED BY <2>7, <2>8
<1>7. CASE Rescore(l)
  <2>2. Goto(l, "rescore", Absent) /\ <<"rescore", Absent>> \in Places  BY <1>7 DEF Rescore, Places
  <2>3. pc' \in [Loops -> Places] /\ overlapped' \in BOOLEAN  BY <2>2, GotoType
  <2>4. todo' \in [Loops -> SUBSET Entries]  BY <1>7 DEF Rescore
  <2>5. TypeOK'  BY <1>7, <2>3, <2>4 DEF Rescore
  <2>6. ScriptInv'  BY <1>7, <2>2, ScriptElsewhere DEF Rescore
  <2> QED BY <2>5, <2>6
<1>8. CASE ReadEntry(l)
  <2>1. PICK e \in Entries : /\ Goto(l, "score", e) /\ held' = [held EXCEPT ![l] = entries[e]]
                                   /\ todo' = [todo EXCEPT ![l] = @ \ {e}]
        BY <1>8 DEF ReadEntry
  <2>2. Goto(l, "score", e) /\ <<"score", e>> \in Places  BY <2>1 DEF Places
  <2>3. pc' \in [Loops -> Places] /\ overlapped' \in BOOLEAN  BY <2>2, GotoType
  <2>4. todo' \in [Loops -> SUBSET Entries] /\ held' \in [Loops -> Entry \cup {Absent}]
        BY <1>8, <2>1 DEF ReadEntry
  <2>5. TypeOK'  BY <1>8, <2>1, <2>3, <2>4 DEF ReadEntry
  <2>6. ScriptInv'  BY <1>8, <2>1, <2>2, ScriptElsewhere DEF ReadEntry
  <2> QED BY <2>5, <2>6
<1>9. CASE WriteEntry(l)
  <2>1. PICK e \in Entries : Goto(l, "rescore", Absent) /\ entries' = [entries EXCEPT ![e] = held[l]]
        BY <1>9 DEF WriteEntry
  <2>2. Goto(l, "rescore", Absent) /\ <<"rescore", Absent>> \in Places  BY <2>1 DEF Places
  <2>3. pc' \in [Loops -> Places] /\ overlapped' \in BOOLEAN  BY <2>2, GotoType
  <2>4. entries' \in [Entries -> Entry \cup {Absent}]  BY <1>9, <2>1 DEF WriteEntry
  <2>5. held' \in [Loops -> Entry \cup {Absent}]  BY <1>9, <2>1 DEF WriteEntry
  <2>6. TypeOK'  BY <1>9, <2>1, <2>3, <2>4, <2>5 DEF WriteEntry
  <2>7. ScriptInv'  BY <1>9, <2>1, <2>2, ScriptElsewhere DEF WriteEntry
  <2> QED BY <2>6, <2>7
<1>10. CASE RunEnds(l)
  <2>2. Goto(l, "idle", Absent) /\ <<"idle", Absent>> \in Places  BY <1>10 DEF RunEnds, Places
  <2>3. pc' \in [Loops -> Places] /\ overlapped' \in BOOLEAN  BY <2>2, GotoType
  <2>4. TypeOK'  BY <1>10, <2>3 DEF RunEnds
  <2>5. ScriptInv'  BY <1>10, <2>2, ScriptElsewhere DEF RunEnds
  <2> QED BY <2>4, <2>5
<1>11. CASE ReadToRetire(l)
  <2>1. PICK e \in Entries : /\ Goto(l, "retire", e) /\ Exists(e)
                                   /\ \E s \in Statuses \ {"ACTIVE"} :
                                         held' = [held EXCEPT ![l] = [entries[e] EXCEPT !.status = s]]
        BY <1>11 DEF ReadToRetire
  <2>2. Goto(l, "retire", e) /\ <<"retire", e>> \in Places  BY <2>1 DEF Places
  <2>3. pc' \in [Loops -> Places] /\ overlapped' \in BOOLEAN  BY <2>2, GotoType
  <2>4. held' \in [Loops -> Entry \cup {Absent}]
        BY <1>11, <2>1 DEF ReadToRetire, Exists, Entry
  <2>5. retires' \in 0 .. MaxRetires  BY <1>11, <2>1, BoundsAssumption DEF ReadToRetire
  <2>6. TypeOK'  BY <1>11, <2>1, <2>3, <2>4, <2>5 DEF ReadToRetire
  <2>7. ScriptInv'  BY <1>11, <2>1, <2>2, ScriptElsewhere DEF ReadToRetire
  <2> QED BY <2>6, <2>7
<1>12. CASE WriteRetired(l)
  <2>1. PICK e \in Entries : Goto(l, "idle", Absent) /\ entries' = [entries EXCEPT ![e] = held[l]]
        BY <1>12 DEF WriteRetired
  <2>2. Goto(l, "idle", Absent) /\ <<"idle", Absent>> \in Places  BY <2>1 DEF Places
  <2>3. pc' \in [Loops -> Places] /\ overlapped' \in BOOLEAN  BY <2>2, GotoType
  <2>4. entries' \in [Entries -> Entry \cup {Absent}]  BY <1>12, <2>1 DEF WriteRetired
  <2>5. held' \in [Loops -> Entry \cup {Absent}]  BY <1>12, <2>1 DEF WriteRetired
  <2>6. TypeOK'  BY <1>12, <2>1, <2>3, <2>4, <2>5 DEF WriteRetired
  <2>7. ScriptInv'  BY <1>12, <2>1, <2>2, ScriptElsewhere DEF WriteRetired
  <2> QED BY <2>6, <2>7
<1>13. CASE SeedEntries(l)
  <2>2. Goto(l, "seed", Absent) /\ <<"seed", Absent>> \in Places  BY <1>13 DEF SeedEntries, Places
  <2>3. pc' \in [Loops -> Places] /\ overlapped' \in BOOLEAN  BY <2>2, GotoType
  <2>4. todo' \in [Loops -> SUBSET Entries]  BY <1>13 DEF SeedEntries
  <2>5. seeds' \in 0 .. MaxSeeds  BY <1>13, BoundsAssumption DEF SeedEntries
  <2>6. TypeOK'  BY <1>13, <2>3, <2>4, <2>5 DEF SeedEntries
  <2>7. ScriptInv'  BY <1>13, <2>2, ScriptElsewhere DEF SeedEntries
  <2> QED BY <2>6, <2>7
<1>14. CASE UpsertSeed(l)
  <2>1. PICK e \in Entries : /\ SeedNext(l, e) /\ entries' = [entries EXCEPT ![e] = Fresh]
                             /\ forgot' = (forgot \/ entries[e] \notin {Absent, Fresh}
                                                  \/ rows[e] # Fresh.count)
        BY <1>14 DEF UpsertSeed
  <2>2. PICK place \in {"idle", "seed"} : Goto(l, place, Absent)  BY <2>1 DEF SeedNext
  <2>3. <<place, Absent>> \in Places  BY DEF Places
  <2>4. pc' \in [Loops -> Places] /\ overlapped' \in BOOLEAN  BY <2>2, <2>3, GotoType
  <2>5. todo' \in [Loops -> SUBSET Entries] /\ seeded' \subseteq Loops /\ forgot' \in BOOLEAN
        BY <2>1 DEF SeedNext
  <2>6. entries' \in [Entries -> Entry \cup {Absent}]
        BY <2>1 DEF Fresh, Entry, Statuses
  <2>7. TypeOK'  BY <1>14, <2>4, <2>5, <2>6 DEF UpsertSeed
  <2>8. ScriptInv'  BY <1>14, <2>2, <2>3, ScriptElsewhere DEF UpsertSeed
  <2> QED BY <2>7, <2>8
<1>15. CASE Abort(l)
  <2>2. Goto(l, "idle", Absent) /\ <<"idle", Absent>> \in Places  BY <1>15 DEF Abort, Places
  <2>3. pc' \in [Loops -> Places] /\ overlapped' \in BOOLEAN  BY <2>2, GotoType
  <2>4. todo' \in [Loops -> SUBSET Entries] /\ held' \in [Loops -> Entry \cup {Absent}]
        BY <1>15 DEF Abort
  <2>5. script' \in [Loops -> Scripts] /\ seeded' \subseteq Loops
        BY <1>15, ScriptsAre DEF Abort
  <2>6. unrecorded' \in [Entries -> Nat]  BY <1>15 DEF Abort
  <2>7. aborts' \in 0 .. MaxAborts  BY <1>15, BoundsAssumption DEF Abort
  <2>8. TypeOK'  BY <1>15, <2>3, <2>4, <2>5, <2>6, <2>7 DEF Abort
  <2>9. ScriptInv'  BY <1>15, <2>2, ScriptElsewhere DEF Abort
  <2> QED BY <2>8, <2>9
<1> QED BY <1>1, <1>2, <1>3, <1>4, <1>5, <1>6, <1>7, <1>8, <1>9, <1>10, <1>11, <1>12,
           <1>13, <1>14, <1>15 DEF Step

-----------------------------------------------------------------------------
(* Counts.                                                                   *)

\* A step of l that leaves the tables alone, and after which l holds no entry
\* that it read.
Aside(l) ==
    /\ \E to \in {"idle", "rows", "emit", "row", "episode", "attempt", "rescore", "seed"},
          e \in Entries \cup {Absent} : <<to, e>> \in Places /\ Goto(l, to, e)
    /\ \A k \in Loops \ {l} : held'[k] = held[k]
    /\ UNCHANGED <<tables, forgot>>

LEMMA StepKinds ==
    ASSUME TypeOK, NEW l \in Loops, Step(l)
    PROVE  \/ Aside(l) \/ record(l) \/ ReadEntry(l) \/ WriteEntry(l)
           \/ ReadToRetire(l) \/ WriteRetired(l) \/ UpsertSeed(l)
<1> USE DEF Aside, tables, histories, Places
<1>1. CASE run(l)            BY <1>1 DEF run
<1>2. CASE VerifyRow(l)
  <2>1. PICK e \in Entries : Goto(l, "emit", e) \/ Goto(l, "row", e)
        BY <1>2 DEF VerifyRow, TypeOK
  <2>2. UNCHANGED <<entries, rows, held, forgot>>  BY <1>2 DEF VerifyRow
  <2> QED BY <2>1, <2>2
<1>3. CASE EmitCandidate(l)  BY <1>3 DEF EmitCandidate
<1>4. CASE run_episode(l)    BY <1>4 DEF run_episode
<1>5. CASE Attempt(l)        BY <1>5 DEF Attempt
<1>6. CASE Rescore(l)        BY <1>6 DEF Rescore
<1>7. CASE RunEnds(l)        BY <1>7 DEF RunEnds
<1>8. CASE SeedEntries(l)    BY <1>8 DEF SeedEntries
<1>9. CASE Abort(l)          BY <1>9 DEF Abort, TypeOK
<1> QED BY <1>1, <1>2, <1>3, <1>4, <1>5, <1>6, <1>7, <1>8, <1>9 DEF Step

\* What others hold stays backed when no row is lost.
LEMMA HeldByOthers ==
    ASSUME TypeOK, TypeOK', HeldInv,
           \A e \in Entries, o \in Outcomes : rows[e][o] <= rows'[e][o],
           NEW l \in Loops, NEW to, NEW at, <<to, at>> \in Places, Goto(l, to, at),
           \A k \in Loops \ {l} : held'[k] = held[k],
           to \in {"score", "retire"} /\ held'[l] # Absent
              => \A o \in Outcomes : held'[l].count[o] <= rows'[at][o]
    PROVE  HeldInv'
<1> SUFFICES ASSUME NEW k \in Loops, NEW e \in Entries, NEW o \in Outcomes,
                    pc'[k] \in {"score", "retire"} \X {e}, held'[k] # Absent
             PROVE  held'[k].count[o] <= rows'[e][o]
    BY DEF HeldInv
<1>0. /\ pc \in [Loops -> Places] /\ overlapped \in BOOLEAN
      /\ rows[e][o] \in Nat /\ rows'[e][o] \in Nat
      /\ held[k] \in Entry \cup {Absent}
      BY DEF TypeOK
<1>1. CASE k = l
  <2>1. to \in {"score", "retire"} /\ at = e  BY <1>0, <1>1, GotoType
  <2> QED BY <1>1, <2>1
<1>2. CASE k # l
  <2>1. pc[k] \in {"score", "retire"} \X {e} /\ held[k] # Absent  BY <1>0, <1>2, GotoType
  <2>2. held[k].count[o] <= rows[e][o]  BY <2>1 DEF HeldInv
  <2>3. held[k].count[o] \in Nat  BY <1>0, <2>1 DEF Entry
  <2>4. held'[k] = held[k] /\ rows[e][o] <= rows'[e][o]  BY <1>2
  <2> QED BY <1>0, <2>2, <2>3, <2>4
<1> QED BY <1>1, <1>2

\* The same for a step that adds no row, after which its process holds nothing
\* that it will write back.
LEMMA HeldByNone ==
    ASSUME TypeOK, TypeOK', HeldInv, rows' = rows,
           NEW l \in Loops, NEW to, NEW at, <<to, at>> \in Places, Goto(l, to, at),
           to \notin {"score", "retire"},
           \A k \in Loops \ {l} : held'[k] = held[k]
    PROVE  HeldInv'
<1>1. \A e \in Entries, o \in Outcomes : rows[e][o] <= rows'[e][o]  BY DEF TypeOK
<1> QED BY <1>1, HeldByOthers

LEMMA CountStep ==
    ASSUME TypeOK, ScriptInv, CountsAreBacked, HeldInv, NEW l \in Loops, Step(l)
    PROVE  CountsAreBacked' /\ HeldInv'
<1> USE DEF tables, Exists
<1>1. TypeOK'  BY TypeStep
<1>2. CASE Aside(l)
  <2>1. CountsAreBacked'  BY <1>2 DEF Aside, CountsAreBacked
  <2>2. PICK to \in {"idle", "rows", "emit", "row", "episode", "attempt", "rescore", "seed"},
             e \in Entries \cup {Absent} : <<to, e>> \in Places /\ Goto(l, to, e)
        BY <1>2 DEF Aside
  <2>3. rows' = rows /\ \A k \in Loops \ {l} : held'[k] = held[k]  BY <1>2 DEF Aside
  <2>4. HeldInv'  BY <1>1, <2>2, <2>3, HeldByNone
  <2> QED BY <2>1, <2>4
<1>3. CASE record(l)
  <2>1. PICK e \in Entries, place \in {"row", "attempt"} :
          /\ At(l, place, e) /\ add_feedback(e, Head(script[l]))
          /\ IF Tail(script[l]) # <<>> THEN Goto(l, place, e)
             ELSE Goto(l, IF place = "row" THEN "rows" ELSE "episode", Absent)
        BY <1>3 DEF record
  <2>2. script[l] \in Scripts /\ script[l] # <<>>
    <3>1. pc[l] \in {"row", "attempt"} \X Entries  BY <2>1 DEF At
    <3> QED BY <3>1 DEF ScriptInv, TypeOK
  <2> DEFINE o == Head(script[l])
  <2>3. o \in Outcomes  BY <2>2, ScriptGoesOn
  <2>4. rows' = [rows EXCEPT ![e][o] = @ + 1]  BY <2>1 DEF add_feedback
  <2>5. \A f \in Entries, p \in Outcomes : rows[f][p] <= rows'[f][p]
        BY <2>3, <2>4 DEF TypeOK
  <2>6. ASSUME NEW f \in Entries, NEW p \in Outcomes, entries'[f] # Absent
        PROVE  entries'[f].count[p] <= rows'[f][p]
    <3>1. CASE f = e /\ Exists(e)
      <4>1. entries'[e] = apply_feedback_to_entry(entries[e], o)
            BY <2>1, <3>1 DEF add_feedback, TypeOK
      <4>2. entries[e] \in Entry  BY <3>1 DEF TypeOK
      <4>3. entries'[e].count = [entries[e].count EXCEPT ![o] = @ + 1]
            BY <2>3, <4>1, <4>2, FeedbackCounts
      <4>4. entries[e].count \in [Outcomes -> Nat] /\ entries[e].count[p] <= rows[e][p]
            BY <3>1, <4>2 DEF Entry, CountsAreBacked
      <4> QED BY <2>3, <2>4, <3>1, <4>3, <4>4 DEF TypeOK
    <3>2. CASE f # e \/ ~Exists(e)
      <4>1. entries'[f] = entries[f]  BY <2>1, <3>2 DEF add_feedback, TypeOK
      <4>2. entries[f].count[p] \in Nat  BY <2>6, <4>1 DEF TypeOK, Entry
      <4>3. entries[f].count[p] <= rows[f][p]  BY <2>6, <4>1 DEF CountsAreBacked
      <4> QED BY <2>5, <4>1, <4>2, <4>3, <1>1 DEF TypeOK
    <3> QED BY <3>1, <3>2
  <2>7. CountsAreBacked'  BY <2>6 DEF CountsAreBacked
  <2>8. PICK to \in {place, "rows", "episode"}, at \in {e, Absent} :
           <<to, at>> \in Places /\ Goto(l, to, at)
        BY <2>1 DEF Places
  <2>9. held' = held  BY <1>3 DEF record
  <2>10. to \notin {"score", "retire"}  BY <2>1, <2>8
  <2>11. HeldInv'  BY <1>1, <2>5, <2>8, <2>9, <2>10, HeldByOthers
  <2> QED BY <2>7, <2>11
<1>4. CASE ReadEntry(l)
  <2>1. PICK e \in Entries : Goto(l, "score", e) /\ held' = [held EXCEPT ![l] = entries[e]]
        BY <1>4 DEF ReadEntry, TypeOK
  <2>2. UNCHANGED <<entries, rows>>  BY <1>4 DEF ReadEntry
  <2>3. <<"score", e>> \in Places  BY DEF Places
  <2>4. held'[l] # Absent => \A o \in Outcomes : held'[l].count[o] <= rows'[e][o]
        BY <2>1, <2>2 DEF CountsAreBacked, TypeOK
  <2>5. /\ \A k \in Loops \ {l} : held'[k] = held[k]
        /\ \A f \in Entries, o \in Outcomes : rows[f][o] <= rows'[f][o]
        BY <2>1, <2>2 DEF TypeOK
  <2>6. HeldInv'  BY <1>1, <2>1, <2>3, <2>4, <2>5, HeldByOthers
  <2> QED BY <2>2, <2>6 DEF CountsAreBacked
<1>5. CASE WriteEntry(l) \/ WriteRetired(l)
  <2>1. PICK e \in Entries, to \in {"rescore", "idle"} :
           /\ pc[l] \in {"score", "retire"} \X {e} /\ Goto(l, to, Absent)
           /\ entries' = [entries EXCEPT ![e] = held[l]]
        BY <1>5 DEF WriteEntry, WriteRetired, At
  <2>2. rows' = rows /\ held' = [held EXCEPT ![l] = Absent]
        BY <1>5 DEF WriteEntry, WriteRetired
  <2>3. <<to, Absent>> \in Places  BY DEF Places
  <2>4. held[l] # Absent => \A o \in Outcomes : held[l].count[o] <= rows[e][o]
        BY <2>1 DEF HeldInv
  <2>5. CountsAreBacked'  BY <2>1, <2>2, <2>4 DEF CountsAreBacked, TypeOK
  <2>6. \A k \in Loops \ {l} : held'[k] = held[k]  BY <2>2 DEF TypeOK
  <2>7. HeldInv'  BY <1>1, <2>1, <2>2, <2>3, <2>6, HeldByNone
  <2> QED BY <2>5, <2>7
<1>6. CASE ReadToRetire(l)
  <2>1. PICK e \in Entries, s \in Statuses :
           /\ Exists(e) /\ held' = [held EXCEPT ![l] = [entries[e] EXCEPT !.status = s]]
           /\ Goto(l, "retire", e)
        BY <1>6 DEF ReadToRetire
  <2>2. UNCHANGED <<entries, rows>>  BY <1>6 DEF ReadToRetire
  <2>3. <<"retire", e>> \in Places  BY DEF Places
  <2>4. held'[l].count = entries[e].count  BY <2>1 DEF TypeOK, Entry
  <2>5. \A o \in Outcomes : held'[l].count[o] <= rows'[e][o]
        BY <2>1, <2>2, <2>4 DEF CountsAreBacked
  <2>6. /\ \A k \in Loops \ {l} : held'[k] = held[k]
        /\ \A f \in Entries, o \in Outcomes : rows[f][o] <= rows'[f][o]
        BY <2>1, <2>2 DEF TypeOK
  <2>7. HeldInv'  BY <1>1, <2>1, <2>3, <2>5, <2>6, HeldByOthers
  <2> QED BY <2>2, <2>7 DEF CountsAreBacked
<1>7. CASE UpsertSeed(l)
  <2>1. PICK e \in Entries : SeedNext(l, e) /\ entries' = [entries EXCEPT ![e] = Fresh]
        BY <1>7 DEF UpsertSeed, TypeOK
  <2>2. PICK to \in {"idle", "seed"} : Goto(l, to, Absent)  BY <2>1 DEF SeedNext
  <2>3. rows' = rows /\ held' = held  BY <1>7 DEF UpsertSeed
  <2>4. <<to, Absent>> \in Places  BY DEF Places
  <2>5. CountsAreBacked'  BY <2>1, <2>3 DEF CountsAreBacked, TypeOK, Fresh
  <2>6. \A k \in Loops \ {l} : held'[k] = held[k]  BY <2>3
  <2>7. HeldInv'  BY <1>1, <2>2, <2>3, <2>4, <2>6, HeldByNone
  <2> QED BY <2>5, <2>7
<1> QED BY <1>2, <1>3, <1>4, <1>5, <1>6, <1>7, StepKinds

-----------------------------------------------------------------------------
(* Processes that come one after the other.                                  *)

\* RetiredStaysRetired, of one step.
Retires ==
    ~overlapped' /\ ~forgot' =>
        \A e \in Entries :
            Exists(e) /\ entries[e].status # "ACTIVE" => entries'[e].status # "ACTIVE"

\* A step that overlaps with no other leaves the others idle.
LEMMA OthersIdle ==
    ASSUME TypeOK, AloneInv, NEW l \in Loops, NEW to, NEW e, <<to, e>> \in Places,
           Goto(l, to, e), ~overlapped'
    PROVE  /\ ~overlapped
           /\ \A k \in Loops \ {l} : pc[k] = <<"idle", Absent>> /\ pc'[k] = <<"idle", Absent>>
           /\ pc'[l] = <<to, e>>
<1>1. ~overlapped /\ \A k \in Loops \ {l} : pc[k] = <<"idle", Absent>>
      BY DEF Goto, Idle, At
<1> QED BY <1>1, GotoType DEF TypeOK

\* So only what l holds after the step is left to be seen to.
LEMMA AloneWith ==
    ASSUME TypeOK, AloneInv, NEW l \in Loops, NEW to, NEW at, <<to, at>> \in Places,
           Goto(l, to, at), ~overlapped',
           to = "score" => held'[l] = entries'[at],
           to = "retire" => /\ entries'[at] # Absent /\ held'[l] # Absent
                            /\ held'[l].count = entries'[at].count /\ held'[l].status # "ACTIVE"
    PROVE  AloneInv'
<1>1. /\ \A k \in Loops \ {l} : pc'[k] = <<"idle", Absent>>
      /\ pc'[l] = <<to, at>>
      BY OthersIdle
<1>2. \A k, m \in Loops : k = m \/ Idle(k)' \/ Idle(m)'  BY <1>1 DEF Idle, At
<1>3. ASSUME NEW k \in Loops, NEW e \in Entries, pc'[k] = <<"score", e>>
      PROVE  held'[k] = entries'[e]
      BY <1>1, <1>3
<1>4. ASSUME NEW k \in Loops, NEW e \in Entries, pc'[k] = <<"retire", e>>
      PROVE  /\ entries'[e] # Absent /\ held'[k] # Absent
             /\ held'[k].count = entries'[e].count /\ held'[k].status # "ACTIVE"
  <2>1. k = l /\ at = e /\ to = "retire"  BY <1>1, <1>4
  <2> QED BY <2>1
<1> QED BY <1>2, <1>3, <1>4 DEF AloneInv, At, Exists

LEMMA AloneStep ==
    ASSUME TypeOK, ScriptInv, AloneInv, CountsAreExact, NEW l \in Loops, Step(l)
    PROVE  AloneInv' /\ CountsAreExact' /\ Retires
<1> SUFFICES ASSUME ~overlapped'
             PROVE  AloneInv' /\ CountsAreExact' /\ Retires
    BY DEF AloneInv, CountsAreExact, Retires
<1> USE DEF tables, Exists
<1>1. CASE Aside(l)
  <2>1. PICK to \in {"idle", "rows", "emit", "row", "episode", "attempt", "rescore", "seed"},
             e \in Entries \cup {Absent} : <<to, e>> \in Places /\ Goto(l, to, e)
        BY <1>1 DEF Aside
  <2>2. ~overlapped  BY <2>1, OthersIdle
  <2>3. UNCHANGED <<entries, rows, forgot>>  BY <1>1 DEF Aside
  <2>4. AloneInv'  BY <2>1, AloneWith
  <2> QED BY <2>2, <2>3, <2>4 DEF CountsAreExact, Retires
<1>2. CASE record(l)
  <2>1. PICK e \in Entries, place \in {"row", "attempt"} :
          /\ At(l, place, e) /\ add_feedback(e, Head(script[l]))
          /\ IF Tail(script[l]) # <<>> THEN Goto(l, place, e)
             ELSE Goto(l, IF place = "row" THEN "rows" ELSE "episode", Absent)
        BY <1>2 DEF record
  <2>2. script[l] \in Scripts /\ script[l] # <<>>
    <3>1. pc[l] \in {"row", "attempt"} \X Entries  BY <2>1 DEF At
    <3> QED BY <3>1 DEF ScriptInv, TypeOK
  <2> DEFINE o == Head(script[l])
  <2>3. o \in Outcomes  BY <2>2, ScriptGoesOn
  <2>4. PICK to \in {place, "rows", "episode"}, at \in {e, Absent} :
           <<to, at>> \in Places /\ Goto(l, to, at)
        BY <2>1 DEF Places
  <2>5. ~overlapped  BY <2>4, OthersIdle
  <2>6. AloneInv'  BY <2>4, AloneWith
  <2>7. rows' = [rows EXCEPT ![e][o] = @ + 1]  BY <2>1 DEF add_feedback
  <2>8. ASSUME NEW f \in Entries
        PROVE  \/ entries'[f] = entries[f] /\ (f # e \/ ~Exists(e))
               \/ /\ f = e /\ Exists(e) /\ entries'[f] # Absent
                  /\ entries'[f].status = entries[f].status
                  /\ entries'[f].count = [entries[f].count EXCEPT ![o] = @ + 1]
    <3>1. CASE f = e /\ Exists(e)
      <4>1. entries'[e] = apply_feedback_to_entry(entries[e], o)
            BY <2>1, <3>1 DEF add_feedback, TypeOK
      <4>2. entries[e] \in Entry  BY <3>1 DEF TypeOK
      <4> QED BY <2>3, <3>1, <4>1, <4>2, FeedbackCounts, AbsentAssumption
    <3>2. CASE f # e \/ ~Exists(e)
          BY <2>1, <3>2 DEF add_feedback, TypeOK
    <3> QED BY <3>1, <3>2
  <2>9. ASSUME ~forgot, NEW f \in Entries, NEW p \in Outcomes, entries'[f] # Absent
        PROVE  entries'[f].count[p] = rows'[f][p]
    <3>1. entries[f] # Absent  BY <2>8, <2>9
    <3>2. entries[f].count[p] = rows[f][p] /\ entries[f].count \in [Outcomes -> Nat]
          BY <2>5, <2>9, <3>1 DEF CountsAreExact, TypeOK, Entry
    <3>3. rows[e] \in [Outcomes -> Nat]  BY DEF TypeOK
    <3>4. CASE f = e
      <4>1. entries'[e].count = [entries[e].count EXCEPT ![o] = @ + 1]  BY <2>8, <3>1, <3>4
      <4>2. rows'[e] = [rows[e] EXCEPT ![o] = @ + 1]  BY <2>7 DEF TypeOK
      <4> QED BY <2>3, <3>2, <3>3, <3>4, <4>1, <4>2
    <3>5. CASE f # e
      <4>1. entries'[f] = entries[f] /\ rows'[f] = rows[f]  BY <2>7, <2>8, <3>5 DEF TypeOK
      <4> QED BY <3>2, <4>1
    <3> QED BY <3>4, <3>5
  <2>10. forgot' = forgot  BY <1>2 DEF record, histories
  <2>11. CountsAreExact'  BY <2>9, <2>10 DEF CountsAreExact
  <2>12. Retires  BY <2>8 DEF Retires
  <2> QED BY <2>6, <2>11, <2>12
<1>3. CASE ReadEntry(l)
  <2>1. PICK e \in Entries : Goto(l, "score", e) /\ held' = [held EXCEPT ![l] = entries[e]]
        BY <1>3 DEF ReadEntry, TypeOK
  <2>2. UNCHANGED <<entries, rows, forgot>>  BY <1>3 DEF ReadEntry, histories
  <2>3. <<"score", e>> \in Places  BY DEF Places
  <2>4. ~overlapped  BY <2>1, <2>3, OthersIdle
  <2>5. held'[l] = entries'[e]  BY <2>1, <2>2 DEF TypeOK
  <2>6. AloneInv'  BY <2>1, <2>3, <2>5, AloneWith
  <2> QED BY <2>2, <2>4, <2>6 DEF CountsAreExact, Retires
<1>4. CASE WriteEntry(l)
  <2>1. PICK e \in Entries : /\ At(l, "score", e) /\ Goto(l, "rescore", Absent)
                             /\ entries' = [entries EXCEPT ![e] = held[l]]
        BY <1>4 DEF WriteEntry
  <2>2. UNCHANGED <<rows, forgot>>  BY <1>4 DEF WriteEntry, histories
  <2>3. <<"rescore", Absent>> \in Places  BY DEF Places
  <2>4. ~overlapped  BY <2>1, <2>3, OthersIdle
  <2>5. held[l] = entries[e]  BY <2>1, <2>4 DEF AloneInv
  <2>6. entries' = entries  BY <2>1, <2>5 DEF TypeOK
  <2>7. AloneInv'  BY <2>1, <2>3, AloneWith
  <2> QED BY <2>2, <2>4, <2>6, <2>7 DEF CountsAreExact, Retires
<1>5. CASE ReadToRetire(l)
  <2>1. PICK e \in Entries, s \in Statuses \ {"ACTIVE"} :
           /\ Exists(e) /\ held' = [held EXCEPT ![l] = [entries[e] EXCEPT !.status = s]]
           /\ Goto(l, "retire", e)
        BY <1>5 DEF ReadToRetire
  <2>2. UNCHANGED <<entries, rows, forgot>>  BY <1>5 DEF ReadToRetire, histories
  <2>3. <<"retire", e>> \in Places  BY DEF Places
  <2>4. ~overlapped  BY <2>1, <2>3, OthersIdle
  <2>5. /\ held'[l] \in Entry /\ held'[l].status # "ACTIVE"
        /\ held'[l].count = entries'[e].count /\ entries'[e] # Absent
        BY <2>1, <2>2 DEF TypeOK, Entry
  <2>6. AloneInv'  BY <2>1, <2>3, <2>5, AloneWith, AbsentAssumption
  <2> QED BY <2>2, <2>4, <2>6 DEF CountsAreExact, Retires
<1>6. CASE WriteRetired(l)
  <2>1. PICK e \in Entries : /\ At(l, "retire", e) /\ Goto(l, "idle", Absent)
                             /\ entries' = [entries EXCEPT ![e] = held[l]]
        BY <1>6 DEF WriteRetired
  <2>2. UNCHANGED <<rows, forgot>>  BY <1>6 DEF WriteRetired, histories
  <2>3. <<"idle", Absent>> \in Places  BY DEF Places
  <2>4. ~overlapped  BY <2>1, <2>3, OthersIdle
  <2>5. /\ Exists(e) /\ held[l].count = entries[e].count
        /\ held[l].status # "ACTIVE"
        BY <2>1, <2>4 DEF AloneInv
  <2>6. AloneInv'  BY <2>1, <2>3, AloneWith
  <2>7. CountsAreExact'  BY <2>1, <2>2, <2>4, <2>5 DEF CountsAreExact, TypeOK
  <2>8. Retires  BY <2>1, <2>5 DEF Retires, TypeOK
  <2> QED BY <2>6, <2>7, <2>8
<1>7. CASE UpsertSeed(l)
  <2>1. PICK e \in Entries :
           /\ SeedNext(l, e) /\ entries' = [entries EXCEPT ![e] = Fresh]
           /\ forgot' = (forgot \/ entries[e] \notin {Absent, Fresh} \/ rows[e] # Fresh.count)
        BY <1>7 DEF UpsertSeed, TypeOK
  <2>2. PICK to \in {"idle", "seed"} : Goto(l, to, Absent)  BY <2>1 DEF SeedNext
  <2>3. rows' = rows  BY <1>7 DEF UpsertSeed
  <2>4. <<to, Absent>> \in Places  BY DEF Places
  <2>5. ~overlapped  BY <2>2, <2>4, OthersIdle
  <2>6. AloneInv'  BY <2>2, <2>4, AloneWith
  <2>7. CountsAreExact'  BY <2>1, <2>3, <2>5 DEF CountsAreExact, TypeOK
  <2>8. Retires
    <3>1. Fresh.status = "ACTIVE"  BY DEF Fresh
    <3> QED BY <2>1, <3>1 DEF Retires, TypeOK
  <2> QED BY <2>6, <2>7, <2>8
<1> QED BY <1>1, <1>2, <1>3, <1>4, <1>5, <1>6, <1>7, StepKinds

-----------------------------------------------------------------------------
(* Causes, and emissions.                                                    *)

\* The number of processes in a set, when the membership of one changes.
Counts(p) == IF p THEN 1 ELSE 0

LEMMA OneMoves ==
    ASSUME NEW A \in SUBSET Loops, NEW B \in SUBSET Loops, NEW l \in Loops,
           \A k \in Loops \ {l} : k \in A <=> k \in B
    PROVE  /\ Cardinality(A) \in Nat /\ Cardinality(B) \in Nat
           /\ Cardinality(B) = Cardinality(A) + Counts(l \in B) - Counts(l \in A)
<1>1. IsFiniteSet(A) /\ IsFiniteSet(B)  BY LoopsAssumption, FS_Subset
<1>2. Cardinality(A) \in Nat /\ Cardinality(B) \in Nat  BY <1>1, FS_CardinalityType
<1>3. CASE l \in A <=> l \in B
  <2>1. A = B  BY <1>3
  <2> QED BY <1>2, <1>3, <2>1 DEF Counts
<1>4. CASE l \in B /\ l \notin A
  <2>1. B = A \cup {l}  BY <1>4
  <2>2. Cardinality(B) = Cardinality(A) + 1  BY <1>1, <1>4, <2>1, FS_AddElement
  <2> QED BY <1>2, <1>4, <2>2 DEF Counts
<1>5. CASE l \in A /\ l \notin B
  <2>1. A = B \cup {l}  BY <1>5
  <2>2. Cardinality(A) = Cardinality(B) + 1  BY <1>1, <1>5, <2>1, FS_AddElement
  <2> QED BY <1>2, <1>5, <2>2 DEF Counts
<1> QED BY <1>3, <1>4, <1>5

\* Whether l is among those, and how their number goes with a step of l.
Owes(l, e, s) == pc[l] \in {"row", "attempt"} \X {e} /\ script[l] = s

LEMMA OwingMoves ==
    ASSUME NEW l \in Loops, NEW e, NEW s,
           \A k \in Loops \ {l} : pc'[k] = pc[k] /\ script'[k] = script[k]
    PROVE  /\ Cardinality(Owing(e, s)) \in Nat /\ Cardinality(Owing(e, s)') \in Nat
           /\ Cardinality(Owing(e, s)') =
                  Cardinality(Owing(e, s)) + Counts(Owes(l, e, s)') - Counts(Owes(l, e, s))
<1>1. \A k \in Loops \ {l} : k \in Owing(e, s) <=> k \in Owing(e, s)'
      BY DEF Owing
<1>2. Owing(e, s) \in SUBSET Loops /\ Owing(e, s)' \in SUBSET Loops  BY DEF Owing
<1>3. /\ (l \in Owing(e, s)) <=> Owes(l, e, s)
      /\ (l \in Owing(e, s)') <=> Owes(l, e, s)'
      BY DEF Owing, Owes
<1>4. /\ Cardinality(Owing(e, s)) \in Nat /\ Cardinality(Owing(e, s)') \in Nat
      /\ Cardinality(Owing(e, s)') = Cardinality(Owing(e, s))
             + Counts(l \in Owing(e, s)') - Counts(l \in Owing(e, s))
      BY <1>1, <1>2, OneMoves
<1> QED BY <1>3, <1>4 DEF Counts

LEMMA PendingMoves ==
    ASSUME NEW l \in Loops, NEW e,
           \A k \in Loops \ {l} : pc'[k] = pc[k] /\ script'[k] = script[k]
    PROVE  LET was == {k \in Loops : Pending(k, e)}
               is == {k \in Loops : Pending(k, e)'}
           IN  /\ Cardinality(was) \in Nat /\ Cardinality(is) \in Nat
               /\ Cardinality(is) =
                      Cardinality(was) + Counts(Pending(l, e)') - Counts(Pending(l, e))
<1> DEFINE was == {k \in Loops : Pending(k, e)}
           is == {k \in Loops : Pending(k, e)'}
<1>1. \A k \in Loops \ {l} : k \in was <=> k \in is  BY DEF Pending
<1>2. /\ Cardinality(was) \in Nat /\ Cardinality(is) \in Nat
      /\ Cardinality(is) = Cardinality(was) + Counts(l \in is) - Counts(l \in was)
  <2>1. was \in SUBSET Loops /\ is \in SUBSET Loops  OBVIOUS
  <2> HIDE DEF was, is
  <2> QED BY <1>1, <2>1, OneMoves
<1>3. ((l \in was) <=> Pending(l, e)) /\ ((l \in is) <=> Pending(l, e)')  OBVIOUS
<1> QED BY <1>2, <1>3 DEF Counts

Away(place) == place \notin {"row", "attempt"} \X Entries

\* A step that has nothing to do with feedback.
Quietly(l) == Away(pc[l]) /\ Away(pc'[l]) /\ UNCHANGED <<rows, emitted, unrecorded>>

LEMMA OthersStay ==
    ASSUME TypeOK, NEW l \in Loops, Step(l)
    PROVE  \A k \in Loops \ {l} : pc'[k] = pc[k] /\ script'[k] = script[k]
<1>1. \E to, at : Goto(l, to, at)
  <2>1. CASE UpsertSeed(l)  BY <2>1 DEF UpsertSeed, SeedNext
  <2>2. CASE VerifyRow(l)  BY <2>2 DEF VerifyRow
  <2>3. CASE record(l)  BY <2>3 DEF record
  <2>4. CASE Attempt(l)  BY <2>4 DEF Attempt
  <2> QED BY <2>1, <2>2, <2>3, <2>4 DEF Step, run, EmitCandidate, run_episode, Rescore,
             ReadEntry, WriteEntry, RunEnds, ReadToRetire, WriteRetired, SeedEntries, Abort
<1>2. script' = [script EXCEPT ![l] = script'[l]]
  <2>1. CASE VerifyRow(l)  BY <2>1 DEF VerifyRow, TypeOK
  <2>2. CASE record(l)  BY <2>2 DEF record, TypeOK
  <2>3. CASE Attempt(l)  BY <2>3 DEF Attempt, TypeOK
  <2>4. CASE EmitCandidate(l)  BY <2>4 DEF EmitCandidate, TypeOK
  <2>5. CASE Abort(l)  BY <2>5 DEF Abort, TypeOK
  <2>6. CASE UNCHANGED script  BY <2>6 DEF TypeOK
  <2> QED BY <2>1, <2>2, <2>3, <2>4, <2>5, <2>6 DEF Step, run, run_episode, Rescore,
             ReadEntry, WriteEntry, RunEnds, ReadToRetire, WriteRetired, SeedEntries, UpsertSeed
<1>3. pc \in [Loops -> Places] /\ script \in [Loops -> Scripts]  BY DEF TypeOK
<1> QED BY <1>1, <1>2, <1>3 DEF Goto

LEMMA QuietKinds ==
    ASSUME TypeOK, NEW l \in Loops, Step(l)
    PROVE  \/ Quietly(l) \/ VerifyRow(l) \/ EmitCandidate(l) \/ record(l) \/ Attempt(l)
           \/ Abort(l)
<1> USE DEF Quietly, Away, Goto, At, Idle, tables, histories
<1>0. pc \in [Loops -> Places]  BY DEF TypeOK
<1>1. CASE run(l)            BY <1>0, <1>1 DEF run
<1>2. CASE run_episode(l)    BY <1>0, <1>2 DEF run_episode
<1>3. CASE Rescore(l)        BY <1>0, <1>3 DEF Rescore
<1>4. CASE ReadEntry(l)      BY <1>0, <1>4 DEF ReadEntry
<1>5. CASE WriteEntry(l)     BY <1>0, <1>5 DEF WriteEntry
<1>6. CASE RunEnds(l)        BY <1>0, <1>6 DEF RunEnds
<1>7. CASE ReadToRetire(l)   BY <1>0, <1>7 DEF ReadToRetire
<1>8. CASE WriteRetired(l)   BY <1>0, <1>8 DEF WriteRetired
<1>9. CASE SeedEntries(l)    BY <1>0, <1>9 DEF SeedEntries
<1>10. CASE UpsertSeed(l)    BY <1>0, <1>10 DEF UpsertSeed, SeedNext
<1> QED BY <1>1, <1>2, <1>3, <1>4, <1>5, <1>6, <1>7, <1>8, <1>9, <1>10 DEF Step

\* What record does to the script of l and to the rows.
LEMMA RecordStep ==
    ASSUME TypeOK, ScriptInv, NEW l \in Loops, record(l)
    PROVE  \E e \in Entries :
              /\ pc[l] \in {"row", "attempt"} \X {e}
              /\ script[l] \in Scripts /\ script[l] # <<>> /\ Head(script[l]) \in Outcomes
              /\ script'[l] = Tail(script[l])
              /\ IF Tail(script[l]) = <<>> THEN Away(pc'[l])
                                           ELSE pc'[l] \in {"row", "attempt"} \X {e}
              /\ rows' = [rows EXCEPT ![e][Head(script[l])] = @ + 1]
              /\ UNCHANGED <<emitted, unrecorded>>
<1>1. PICK e \in Entries, place \in {"row", "attempt"} :
          /\ At(l, place, e) /\ add_feedback(e, Head(script[l]))
          /\ IF Tail(script[l]) # <<>> THEN Goto(l, place, e)
             ELSE Goto(l, IF place = "row" THEN "rows" ELSE "episode", Absent)
        BY DEF record
<1>2. pc[l] \in {"row", "attempt"} \X {e}  BY <1>1 DEF At
<1>3. script[l] \in Scripts /\ script[l] # <<>>  BY <1>2 DEF ScriptInv, TypeOK
<1>4. Head(script[l]) \in Outcomes  BY <1>3, ScriptGoesOn
<1>5. script'[l] = Tail(script[l])  BY DEF record, TypeOK
<1>6. rows' = [rows EXCEPT ![e][Head(script[l])] = @ + 1]  BY <1>1 DEF add_feedback
<1>7. pc \in [Loops -> Places]  BY DEF TypeOK
<1>8. IF Tail(script[l]) = <<>> THEN Away(pc'[l]) ELSE pc'[l] \in {"row", "attempt"} \X {e}
      BY <1>1, <1>7 DEF Goto, Away
<1>9. UNCHANGED <<emitted, unrecorded>>  BY DEF record, histories
<1> QED BY <1>2, <1>3, <1>4, <1>5, <1>6, <1>8, <1>9

\* The three scripts that begin with an effect.
Debts == {<<"OBSTRUCTION_FOUND">>, <<"RESIDUAL_COMPRESSED">>,
          <<"TRANSFER_SUCCESS", "RESIDUAL_COMPRESSED">>}

\* Only recording leaves a process in the middle of an attempt.
LEMMA NoNewDebt ==
    ASSUME TypeOK, NEW l \in Loops, Step(l), ~record(l)
    PROVE  rows' = rows /\ \A e \in Entries, s \in Debts : ~Owes(l, e, s)'
<1> USE DEF Owes, tables
<1>0. pc \in [Loops -> Places] /\ script \in [Loops -> Scripts]  BY DEF TypeOK
<1>1. ASSUME script'[l] \in {Success, Failure, Obstruction, Transfer}
      PROVE  \A e \in Entries, s \in Debts : ~Owes(l, e, s)'
      BY <1>1 DEF Debts, Success, Failure, Obstruction, Transfer
<1>2. CASE Quietly(l)  BY <1>2 DEF Quietly, Away
<1>3. CASE VerifyRow(l)
  <2>1. PICK e \in Entries : \/ Goto(l, "emit", e)
                             \/ script'[l] \in {Failure, Obstruction}
        BY <1>0, <1>3 DEF VerifyRow, TypeOK
  <2>2. Goto(l, "emit", e) => pc'[l] = <<"emit", e>>  BY <1>0 DEF Goto
  <2> QED BY <1>1, <1>3, <2>1, <2>2 DEF VerifyRow
<1>4. CASE EmitCandidate(l)  BY <1>0, <1>1, <1>4 DEF EmitCandidate
<1>5. CASE Attempt(l)  BY <1>0, <1>1, <1>5 DEF Attempt
<1>6. CASE Abort(l)
  <2>1. pc'[l] = <<"idle", Absent>>  BY <1>0, <1>6 DEF Abort, Goto
  <2> QED BY <1>6, <2>1 DEF Abort
<1> QED BY <1>2, <1>3, <1>4, <1>5, <1>6, QuietKinds

LEMMA CauseStep ==
    ASSUME TypeOK, ScriptInv, CauseInv, NEW l \in Loops, Step(l)
    PROVE  CauseInv'
<1> SUFFICES ASSUME NEW e \in Entries
    PROVE  /\ rows'[e]["OBSTRUCTION_FOUND"] + Cardinality(Owing(e, <<"OBSTRUCTION_FOUND">>)')
                  <= rows'[e]["VERIFIER_FAILURE"]
           /\ rows'[e]["RESIDUAL_COMPRESSED"]
                  + Cardinality(Owing(e, <<"RESIDUAL_COMPRESSED">>)')
                  <= rows'[e]["TRANSFER_SUCCESS"]
           /\ rows'[e]["TRANSFER_SUCCESS"]
                  + Cardinality(Owing(e, <<"TRANSFER_SUCCESS", "RESIDUAL_COMPRESSED">>)')
                  <= rows'[e]["VERIFIER_SUCCESS"]
    BY DEF CauseInv
<1> DEFINE num(s) == Cardinality(Owing(e, s))
           new(s) == Cardinality(Owing(e, s)')
           of == <<"OBSTRUCTION_FOUND">>
           rc == <<"RESIDUAL_COMPRESSED">>
           ts == <<"TRANSFER_SUCCESS", "RESIDUAL_COMPRESSED">>
<1>1. \A s \in Debts : /\ num(s) \in Nat /\ new(s) \in Nat
                       /\ new(s) = num(s) + Counts(Owes(l, e, s)') - Counts(Owes(l, e, s))
      BY OthersStay, OwingMoves
<1>2. /\ rows[e]["OBSTRUCTION_FOUND"] + num(of) <= rows[e]["VERIFIER_FAILURE"]
      /\ rows[e]["RESIDUAL_COMPRESSED"] + num(rc) <= rows[e]["TRANSFER_SUCCESS"]
      /\ rows[e]["TRANSFER_SUCCESS"] + num(ts) <= rows[e]["VERIFIER_SUCCESS"]
      BY DEF CauseInv
<1>3. rows \in [Entries -> [Outcomes -> Nat]]  BY DEF TypeOK
<1>4. \A o \in Outcomes : rows[e][o] \in Nat  BY <1>3
<1>5. of \in Debts /\ rc \in Debts /\ ts \in Debts  BY DEF Debts
<1> HIDE DEF num, new
<1>6. CASE ~record(l)
  <2>1. rows' = rows /\ \A s \in Debts : ~Owes(l, e, s)'  BY <1>6, NoNewDebt
  <2>2. \A s \in Debts : new(s) <= num(s)  BY <1>1, <2>1 DEF Counts
  <2>3. rows'[e] = rows[e]  BY <2>1
  <2> HIDE DEF of, rc, ts
  <2>4. /\ rows'[e]["OBSTRUCTION_FOUND"] + new(of) <= rows'[e]["VERIFIER_FAILURE"]
        /\ rows'[e]["RESIDUAL_COMPRESSED"] + new(rc) <= rows'[e]["TRANSFER_SUCCESS"]
        /\ rows'[e]["TRANSFER_SUCCESS"] + new(ts) <= rows'[e]["VERIFIER_SUCCESS"]
        BY <1>1, <1>2, <1>4, <1>5, <2>2, <2>3 DEF Outcomes
  <2> QED BY <2>4 DEF new, of, rc, ts
<1>7. CASE record(l)
  <2>1. PICK f \in Entries :
              /\ pc[l] \in {"row", "attempt"} \X {f}
              /\ script[l] \in Scripts /\ script[l] # <<>> /\ Head(script[l]) \in Outcomes
              /\ script'[l] = Tail(script[l])
              /\ IF Tail(script[l]) = <<>> THEN Away(pc'[l])
                                           ELSE pc'[l] \in {"row", "attempt"} \X {f}
              /\ rows' = [rows EXCEPT ![f][Head(script[l])] = @ + 1]
        BY <1>7, RecordStep
  <2>2. CASE f # e
    <3>1. \A s \in Debts : ~Owes(l, e, s) /\ ~Owes(l, e, s)'
          BY <2>1, <2>2 DEF Owes, Away
    <3>2. rows'[e] = rows[e]  BY <1>3, <2>1, <2>2
    <3>3. \A s \in Debts : new(s) = num(s)  BY <1>1, <3>1 DEF Counts
    <3>4. new(of) = num(of) /\ new(rc) = num(rc) /\ new(ts) = num(ts)  BY <1>5, <3>3
    <3> QED BY <1>2, <3>2, <3>4 DEF new
  <2>3. CASE f = e
    <3> DEFINE s0 == script[l]
               s1 == Tail(script[l])
    <3>1. \A s \in Debts : (Owes(l, e, s) <=> s = s0) /\ (Owes(l, e, s)' <=> s = s1)
      <4>1. \A s \in Debts : s # <<>>  BY DEF Debts
      <4>2. \A s \in Debts : Owes(l, e, s) <=> s = s0  BY <2>1, <2>3 DEF Owes
      <4>3. CASE s1 = <<>>  BY <2>1, <4>1, <4>2, <4>3 DEF Owes, Away
      <4>4. CASE s1 # <<>>  BY <2>1, <2>3, <4>2, <4>4 DEF Owes
      <4> QED BY <4>3, <4>4
    <3>2. \A s \in Debts : new(s) = num(s) + Counts(s = s1) - Counts(s = s0)
          BY <1>1, <3>1 DEF Counts
    <3>3. /\ new(of) = num(of) + Counts(of = s1) - Counts(of = s0)
          /\ new(rc) = num(rc) + Counts(rc = s1) - Counts(rc = s0)
          /\ new(ts) = num(ts) + Counts(ts = s1) - Counts(ts = s0)
          BY <1>5, <3>2
    <3>4. \A o \in Outcomes : rows'[e][o] = rows[e][o] + Counts(o = Head(s0))
          BY <1>3, <2>1, <2>3 DEF Counts
    <3>5. /\ num(of) \in Nat /\ num(rc) \in Nat /\ num(ts) \in Nat  BY <1>1, <1>5
    <3> DEFINE Goal ==
           /\ rows'[e]["OBSTRUCTION_FOUND"] + new(of) <= rows'[e]["VERIFIER_FAILURE"]
           /\ rows'[e]["RESIDUAL_COMPRESSED"] + new(rc) <= rows'[e]["TRANSFER_SUCCESS"]
           /\ rows'[e]["TRANSFER_SUCCESS"] + new(ts) <= rows'[e]["VERIFIER_SUCCESS"]
    <3>5a. /\ rows[e]["OBSTRUCTION_FOUND"] + num(of) <= rows[e]["VERIFIER_FAILURE"]
           /\ rows[e]["RESIDUAL_COMPRESSED"] + num(rc) <= rows[e]["TRANSFER_SUCCESS"]
           /\ rows[e]["TRANSFER_SUCCESS"] + num(ts) <= rows[e]["VERIFIER_SUCCESS"]
           /\ \A o \in {"OBSTRUCTION_FOUND", "VERIFIER_FAILURE", "RESIDUAL_COMPRESSED", "TRANSFER_SUCCESS", "VERIFIER_SUCCESS"} : rows[e][o] \in Nat
          BY <1>2, <1>4 DEF Outcomes
    <3>5b. \A o \in {"OBSTRUCTION_FOUND", "VERIFIER_FAILURE", "RESIDUAL_COMPRESSED", "TRANSFER_SUCCESS", "VERIFIER_SUCCESS"} :
              rows'[e][o] = rows[e][o] + Counts(o = Head(s0))
          BY <3>4 DEF Outcomes
    <3> HIDE DEF of, rc, ts, s0, s1
    <3>6. ASSUME s0 = <<"VERIFIER_SUCCESS">> PROVE Goal
      <4>1. Head(s0) = "VERIFIER_SUCCESS" /\ s1 = <<>>  BY <3>6 DEF of, rc, ts, s0, s1
      <4>2. new(of) = num(of) /\ new(rc) = num(rc) /\ new(ts) = num(ts)
            BY <3>3, <3>5, <3>6, <4>1 DEF Counts, of, rc, ts
      <4>3. /\ rows'[e]["OBSTRUCTION_FOUND"] = rows[e]["OBSTRUCTION_FOUND"]
            /\ rows'[e]["VERIFIER_FAILURE"] = rows[e]["VERIFIER_FAILURE"]
            /\ rows'[e]["RESIDUAL_COMPRESSED"] = rows[e]["RESIDUAL_COMPRESSED"]
            /\ rows'[e]["TRANSFER_SUCCESS"] = rows[e]["TRANSFER_SUCCESS"]
            /\ rows'[e]["VERIFIER_SUCCESS"] = rows[e]["VERIFIER_SUCCESS"] + 1
            BY <3>5a, <3>5b, <4>1 DEF Counts
      <4> QED BY <3>5, <3>5a, <4>2, <4>3
    <3>7. ASSUME s0 = <<"VERIFIER_FAILURE">> PROVE Goal
      <4>1. Head(s0) = "VERIFIER_FAILURE" /\ s1 = <<>>  BY <3>7 DEF of, rc, ts, s0, s1
      <4>2. new(of) = num(of) /\ new(rc) = num(rc) /\ new(ts) = num(ts)
            BY <3>3, <3>5, <3>7, <4>1 DEF Counts, of, rc, ts
      <4>3. /\ rows'[e]["OBSTRUCTION_FOUND"] = rows[e]["OBSTRUCTION_FOUND"]
            /\ rows'[e]["VERIFIER_FAILURE"] = rows[e]["VERIFIER_FAILURE"] + 1
            /\ rows'[e]["RESIDUAL_COMPRESSED"] = rows[e]["RESIDUAL_COMPRESSED"]
            /\ rows'[e]["TRANSFER_SUCCESS"] = rows[e]["TRANSFER_SUCCESS"]
            /\ rows'[e]["VERIFIER_SUCCESS"] = rows[e]["VERIFIER_SUCCESS"]
            BY <3>5a, <3>5b, <4>1 DEF Counts
      <4> QED BY <3>5, <3>5a, <4>2, <4>3
    <3>8. ASSUME s0 = of PROVE Goal
      <4>1. Head(s0) = "OBSTRUCTION_FOUND" /\ s1 = <<>>  BY <3>8 DEF of, rc, ts, s0, s1
      <4>2. new(of) = num(of) - 1 /\ new(rc) = num(rc) /\ new(ts) = num(ts)
            BY <3>3, <3>5, <3>8, <4>1 DEF Counts, of, rc, ts
      <4>3. /\ rows'[e]["OBSTRUCTION_FOUND"] = rows[e]["OBSTRUCTION_FOUND"] + 1
            /\ rows'[e]["VERIFIER_FAILURE"] = rows[e]["VERIFIER_FAILURE"]
            /\ rows'[e]["RESIDUAL_COMPRESSED"] = rows[e]["RESIDUAL_COMPRESSED"]
            /\ rows'[e]["TRANSFER_SUCCESS"] = rows[e]["TRANSFER_SUCCESS"]
            /\ rows'[e]["VERIFIER_SUCCESS"] = rows[e]["VERIFIER_SUCCESS"]
            BY <3>5a, <3>5b, <4>1 DEF Counts
      <4> QED BY <3>5, <3>5a, <4>2, <4>3
    <3>9. ASSUME s0 = rc PROVE Goal
      <4>1. Head(s0) = "RESIDUAL_COMPRESSED" /\ s1 = <<>>  BY <3>9 DEF of, rc, ts, s0, s1
      <4>2. new(of) = num(of) /\ new(rc) = num(rc) - 1 /\ new(ts) = num(ts)
            BY <3>3, <3>5, <3>9, <4>1 DEF Counts, of, rc, ts
      <4>3. /\ rows'[e]["OBSTRUCTION_FOUND"] = rows[e]["OBSTRUCTION_FOUND"]
            /\ rows'[e]["VERIFIER_FAILURE"] = rows[e]["VERIFIER_FAILURE"]
            /\ rows'[e]["RESIDUAL_COMPRESSED"] = rows[e]["RESIDUAL_COMPRESSED"] + 1
            /\ rows'[e]["TRANSFER_SUCCESS"] = rows[e]["TRANSFER_SUCCESS"]
            /\ rows'[e]["VERIFIER_SUCCESS"] = rows[e]["VERIFIER_SUCCESS"]
            BY <3>5a, <3>5b, <4>1 DEF Counts
      <4> QED BY <3>5, <3>5a, <4>2, <4>3
    <3>10. ASSUME s0 = <<"VERIFIER_FAILURE", "OBSTRUCTION_FOUND">> PROVE Goal
      <4>1. Head(s0) = "VERIFIER_FAILURE" /\ s1 = of  BY <3>10 DEF of, rc, ts, s0, s1
      <4>2. new(of) = num(of) + 1 /\ new(rc) = num(rc) /\ new(ts) = num(ts)
            BY <3>3, <3>5, <3>10, <4>1 DEF Counts, of, rc, ts
      <4>3. /\ rows'[e]["OBSTRUCTION_FOUND"] = rows[e]["OBSTRUCTION_FOUND"]
            /\ rows'[e]["VERIFIER_FAILURE"] = rows[e]["VERIFIER_FAILURE"] + 1
            /\ rows'[e]["RESIDUAL_COMPRESSED"] = rows[e]["RESIDUAL_COMPRESSED"]
            /\ rows'[e]["TRANSFER_SUCCESS"] = rows[e]["TRANSFER_SUCCESS"]
            /\ rows'[e]["VERIFIER_SUCCESS"] = rows[e]["VERIFIER_SUCCESS"]
            BY <3>5a, <3>5b, <4>1 DEF Counts
      <4> QED BY <3>5, <3>5a, <4>2, <4>3
    <3>11. ASSUME s0 = ts PROVE Goal
      <4>1. Head(s0) = "TRANSFER_SUCCESS" /\ s1 = rc  BY <3>11 DEF of, rc, ts, s0, s1
      <4>2. new(of) = num(of) /\ new(rc) = num(rc) + 1 /\ new(ts) = num(ts) - 1
            BY <3>3, <3>5, <3>11, <4>1 DEF Counts, of, rc, ts
      <4>3. /\ rows'[e]["OBSTRUCTION_FOUND"] = rows[e]["OBSTRUCTION_FOUND"]
            /\ rows'[e]["VERIFIER_FAILURE"] = rows[e]["VERIFIER_FAILURE"]
            /\ rows'[e]["RESIDUAL_COMPRESSED"] = rows[e]["RESIDUAL_COMPRESSED"]
            /\ rows'[e]["TRANSFER_SUCCESS"] = rows[e]["TRANSFER_SUCCESS"] + 1
            /\ rows'[e]["VERIFIER_SUCCESS"] = rows[e]["VERIFIER_SUCCESS"]
            BY <3>5a, <3>5b, <4>1 DEF Counts
      <4> QED BY <3>5, <3>5a, <4>2, <4>3
    <3>12. ASSUME s0 = <<"VERIFIER_SUCCESS", "TRANSFER_SUCCESS", "RESIDUAL_COMPRESSED">> PROVE Goal
      <4>1. Head(s0) = "VERIFIER_SUCCESS" /\ s1 = ts  BY <3>12 DEF of, rc, ts, s0, s1
      <4>2. new(of) = num(of) /\ new(rc) = num(rc) /\ new(ts) = num(ts) + 1
            BY <3>3, <3>5, <3>12, <4>1 DEF Counts, of, rc, ts
      <4>3. /\ rows'[e]["OBSTRUCTION_FOUND"] = rows[e]["OBSTRUCTION_FOUND"]
            /\ rows'[e]["VERIFIER_FAILURE"] = rows[e]["VERIFIER_FAILURE"]
            /\ rows'[e]["RESIDUAL_COMPRESSED"] = rows[e]["RESIDUAL_COMPRESSED"]
            /\ rows'[e]["TRANSFER_SUCCESS"] = rows[e]["TRANSFER_SUCCESS"]
            /\ rows'[e]["VERIFIER_SUCCESS"] = rows[e]["VERIFIER_SUCCESS"] + 1
            BY <3>5a, <3>5b, <4>1 DEF Counts
      <4> QED BY <3>5, <3>5a, <4>2, <4>3
    <3>13. Goal  BY <2>1, <3>6, <3>7, <3>8, <3>9, <3>10, <3>11, <3>12, ScriptsAre DEF of, rc, ts, s0, s1
    <3> QED BY <3>13 DEF new, of, rc, ts
  <2> QED BY <2>2, <2>3
<1> QED BY <1>6, <1>7

\* A step makes up for each candidate it emits or loses sight of.
LEMMA EmissionBalance ==
    ASSUME TypeOK, ScriptInv, NEW l \in Loops, Step(l), NEW e \in Entries
    PROVE  emitted'[e] + rows[e]["VERIFIER_SUCCESS"] + unrecorded[e] + Counts(Pending(l, e))
         = emitted[e] + rows'[e]["VERIFIER_SUCCESS"] + unrecorded'[e] + Counts(Pending(l, e)')
<1> USE DEF tables, histories
<1>0. /\ pc \in [Loops -> Places] /\ script \in [Loops -> Scripts]
      /\ emitted \in [Entries -> Nat] /\ unrecorded \in [Entries -> Nat]
      /\ rows \in [Entries -> [Outcomes -> Nat]]
      BY DEF TypeOK
<1>a. rows[e]["VERIFIER_SUCCESS"] \in Nat /\ emitted[e] \in Nat /\ unrecorded[e] \in Nat
      BY <1>0 DEF Outcomes
<1>1. CASE Quietly(l)
  <2>1. ~Pending(l, e) /\ ~Pending(l, e)'  BY <1>1 DEF Quietly, Away, Pending
  <2> QED BY <1>1, <2>1 DEF Quietly, Counts
<1>2. CASE VerifyRow(l)
  <2>1. PICK f \in Entries :
           \/ Goto(l, "emit", f)
           \/ Goto(l, "row", f) /\ script'[l] \in {Obstruction, Failure}
        BY <1>0, <1>2 DEF VerifyRow, TypeOK
  <2>2. ~Pending(l, e)  BY <1>2 DEF VerifyRow, At, Pending
  <2>3. ~Pending(l, e)'
    <3>1. CASE Goto(l, "emit", f)
      <4>1. pc'[l] = <<"emit", f>>  BY <1>0, <3>1 DEF Goto
      <4> QED BY <4>1 DEF Pending
    <3>2. CASE script'[l] \in {Obstruction, Failure}
      <4>1. Head(script'[l]) = "VERIFIER_FAILURE"  BY <3>2 DEF Obstruction, Failure
      <4> QED BY <4>1 DEF Pending
    <3> QED BY <2>1, <3>1, <3>2
  <2> QED BY <1>2, <2>2, <2>3 DEF VerifyRow, Counts
<1>3. CASE EmitCandidate(l)
  <2>1. PICK f \in Entries : /\ At(l, "emit", f) /\ Goto(l, "row", f)
                             /\ emitted' = [emitted EXCEPT ![f] = @ + 1]
        BY <1>3 DEF EmitCandidate
  <2>2. ~Pending(l, e)  BY <2>1 DEF At, Pending
  <2>3. pc'[l] = <<"row", f>>  BY <1>0, <2>1 DEF Goto
  <2>4. Head(script'[l]) = "VERIFIER_SUCCESS"  BY <1>0, <1>3 DEF EmitCandidate, Success
  <2>5. Pending(l, e)' <=> e = f  BY <2>3, <2>4 DEF Pending
  <2>6. rows' = rows /\ unrecorded' = unrecorded  BY <1>3 DEF EmitCandidate
  <2>7. emitted'[e] = emitted[e] + Counts(e = f)  BY <1>0, <2>1 DEF Counts
  <2> QED BY <1>a, <2>2, <2>5, <2>6, <2>7 DEF Counts
<1>4. CASE Attempt(l)
  <2>1. PICK f \in Entries, accepted \in BOOLEAN :
          /\ Goto(l, "attempt", f)
          /\ emitted' = [emitted EXCEPT ![f] = @ + (IF accepted THEN 1 ELSE 0)]
          /\ script' = [script EXCEPT ![l] = IF accepted THEN Transfer ELSE Obstruction]
        BY <1>4 DEF Attempt
  <2>2. ~Pending(l, e)  BY <1>4 DEF Attempt, At, Pending
  <2>3. pc'[l] = <<"attempt", f>>  BY <1>0, <2>1 DEF Goto
  <2>4. Head(script'[l]) = "VERIFIER_SUCCESS" <=> accepted
    <3>1. CASE accepted
      <4>1. script'[l] = Transfer  BY <1>0, <2>1, <3>1
      <4> QED BY <3>1, <4>1 DEF Transfer
    <3>2. CASE ~accepted
      <4>1. script'[l] = Obstruction  BY <1>0, <2>1, <3>2
      <4> QED BY <3>2, <4>1 DEF Obstruction
    <3> QED BY <3>1, <3>2
  <2>5. Pending(l, e)' <=> e = f /\ accepted  BY <2>3, <2>4 DEF Pending
  <2>6. rows' = rows /\ unrecorded' = unrecorded  BY <1>4 DEF Attempt
  <2>7. emitted'[e] = emitted[e] + Counts(e = f /\ accepted)  BY <1>0, <2>1 DEF Counts
  <2> QED BY <1>a, <2>2, <2>5, <2>6, <2>7 DEF Counts
<1>5. CASE record(l)
  <2>1. PICK f \in Entries :
              /\ pc[l] \in {"row", "attempt"} \X {f}
              /\ script[l] \in Scripts /\ script[l] # <<>> /\ Head(script[l]) \in Outcomes
              /\ script'[l] = Tail(script[l])
              /\ IF Tail(script[l]) = <<>> THEN Away(pc'[l])
                                           ELSE pc'[l] \in {"row", "attempt"} \X {f}
              /\ rows' = [rows EXCEPT ![f][Head(script[l])] = @ + 1]
              /\ UNCHANGED <<emitted, unrecorded>>
        BY <1>5, RecordStep
  <2>2. Pending(l, e) <=> e = f /\ Head(script[l]) = "VERIFIER_SUCCESS"
        BY <2>1 DEF Pending
  <2>3. ~Pending(l, e)'
    <3>1. CASE Tail(script[l]) = <<>>  BY <2>1, <3>1 DEF Pending, Away
    <3>2. CASE Tail(script[l]) # <<>>
      <4>1. Head(Tail(script[l])) # "VERIFIER_SUCCESS"  BY <2>1, <3>2, LaterOutcomes
      <4> QED BY <2>1, <4>1 DEF Pending
    <3> QED BY <3>1, <3>2
  <2>4. rows'[e]["VERIFIER_SUCCESS"] = rows[e]["VERIFIER_SUCCESS"]
            + Counts(e = f /\ Head(script[l]) = "VERIFIER_SUCCESS")
    <3>1. CASE e = f
      <4>1. rows'[e] = [rows[e] EXCEPT ![Head(script[l])] = @ + 1]  BY <1>0, <2>1, <3>1
      <4>2. rows[e] \in [Outcomes -> Nat] /\ "VERIFIER_SUCCESS" \in Outcomes
            BY <1>0 DEF Outcomes
      <4> QED BY <2>1, <3>1, <4>1, <4>2 DEF Counts
    <3>2. CASE e # f
      <4>1. rows'[e] = rows[e]  BY <1>0, <2>1, <3>2
      <4> QED BY <1>a, <3>2, <4>1 DEF Counts
    <3> QED BY <3>1, <3>2
  <2> QED BY <1>a, <2>1, <2>2, <2>3, <2>4 DEF Counts
<1>6. CASE Abort(l)
  <2>1. pc'[l] = <<"idle", Absent>>  BY <1>0, <1>6 DEF Abort, Goto
  <2>2. ~Pending(l, e)'  BY <2>1 DEF Pending
  <2>3. rows' = rows /\ emitted' = emitted  BY <1>6 DEF Abort
  <2>4. unrecorded'[e] = unrecorded[e] + Counts(Pending(l, e))  BY <1>6 DEF Abort, Counts
  <2> QED BY <1>a, <2>2, <2>3, <2>4 DEF Counts
<1> QED BY <1>1, <1>2, <1>3, <1>4, <1>5, <1>6, QuietKinds

LEMMA EmissionStep ==
    ASSUME TypeOK, ScriptInv, EmissionsAreRecorded, NEW l \in Loops, Step(l)
    PROVE  EmissionsAreRecorded'
<1> SUFFICES ASSUME NEW e \in Entries
    PROVE  emitted'[e] = rows'[e]["VERIFIER_SUCCESS"] + unrecorded'[e]
                         + Cardinality({k \in Loops : Pending(k, e)'})
    BY DEF EmissionsAreRecorded
<1> DEFINE was == Cardinality({k \in Loops : Pending(k, e)})
           is == Cardinality({k \in Loops : Pending(k, e)'})
<1>1. was \in Nat /\ is \in Nat /\ is = was + Counts(Pending(l, e)') - Counts(Pending(l, e))
      BY OthersStay, PendingMoves
<1>2. emitted[e] = rows[e]["VERIFIER_SUCCESS"] + unrecorded[e] + was
      BY DEF EmissionsAreRecorded
<1>3. emitted'[e] + rows[e]["VERIFIER_SUCCESS"] + unrecorded[e] + Counts(Pending(l, e))
         = emitted[e] + rows'[e]["VERIFIER_SUCCESS"] + unrecorded'[e] + Counts(Pending(l, e)')
      BY EmissionBalance
<1>4. TypeOK'  BY TypeStep
<1>5. /\ rows[e]["VERIFIER_SUCCESS"] \in Nat /\ rows'[e]["VERIFIER_SUCCESS"] \in Nat
      /\ emitted[e] \in Nat /\ emitted'[e] \in Nat
      /\ unrecorded[e] \in Nat /\ unrecorded'[e] \in Nat
      BY <1>4 DEF TypeOK, Outcomes
<1>6. Counts(Pending(l, e)) \in {0, 1} /\ Counts(Pending(l, e)') \in {0, 1}  BY DEF Counts
<1> HIDE DEF was, is
<1>7. emitted'[e] = rows'[e]["VERIFIER_SUCCESS"] + unrecorded'[e] + is
      BY <1>1, <1>2, <1>3, <1>5, <1>6
<1> QED BY <1>7 DEF is

\* The gate is asked by both loops, and only they touch the history of it.
LEMMA PromotionStep ==
    ASSUME TypeOK, PromotedIsBacked, NEW l \in Loops, Step(l)
    PROVE  PromotedIsBacked'
<1> USE DEF PromotedIsBacked, histories
<1>1. CASE VerifyRow(l)
  <2>1. PICK v \in Verdicts : Judged(v)  BY <1>1 DEF VerifyRow
  <2> QED BY <2>1, VerdictIsRight DEF Judged
<1>2. CASE Attempt(l)
  <2>1. PICK c \in Certificate :
           misjudged' = (misjudged \/ (evaluate_external_certificate(c) = "ACCEPT_FOR_LAWBOOK")
                                      # Backed(c))
        BY <1>2, AttemptCertificates DEF Attempt
  <2>2. evaluate_external_certificate(c) = "ACCEPT_FOR_LAWBOOK" <=> Backed(c)
        BY GateAcceptsBacked
  <2>3. Backed(c) \in BOOLEAN  BY DEF Backed
  <2> QED BY <2>1, <2>2, <2>3
<1>3. CASE UNCHANGED misjudged  BY <1>3
<1> QED BY <1>1, <1>2, <1>3 DEF Step, run, EmitCandidate, record, run_episode, Rescore,
           ReadEntry, WriteEntry, RunEnds, ReadToRetire, WriteRetired, SeedEntries, UpsertSeed,
           Abort

-----------------------------------------------------------------------------
(* The theorems.                                                             *)

LEMMA InitHolds == Init => IInv
<1> SUFFICES ASSUME Init PROVE IInv  OBVIOUS
<1> USE DEF Init
<1>1. TypeOK
  <2>1. Fresh.count \in [Outcomes -> Nat] /\ Fresh \in Entry  BY DEF Fresh, Entry, Statuses
  <2>2. pc \in [Loops -> Places]  BY DEF Places
  <2>3. script \in [Loops -> Scripts]  BY ScriptsAre
  <2>4. entries \in [Entries -> Entry \cup {Absent}]  BY <2>1
  <2>5. rows \in [Entries -> [Outcomes -> Nat]]  BY <2>1
  <2>6. emitted \in [Entries -> Nat] /\ unrecorded \in [Entries -> Nat]  OBVIOUS
  <2>7. todo \in [Loops -> SUBSET Entries] /\ held \in [Loops -> Entry \cup {Absent}]  OBVIOUS
  <2>8. /\ seeded \subseteq Loops /\ misjudged \in BOOLEAN
        /\ forgot \in BOOLEAN /\ overlapped \in BOOLEAN
        OBVIOUS
  <2>9. /\ runs \in 0 .. MaxRuns /\ seeds \in 0 .. MaxSeeds /\ attempts \in 0 .. MaxAttempts
        /\ retires \in 0 .. MaxRetires /\ aborts \in 0 .. MaxAborts
        BY BoundsAssumption
  <2> QED BY <2>2, <2>3, <2>4, <2>5, <2>6, <2>7, <2>8, <2>9 DEF TypeOK
<1>2. ScriptInv /\ HeldInv  BY DEF ScriptInv, HeldInv
<1>3. CountsAreBacked /\ CountsAreExact
      BY DEF CountsAreBacked, CountsAreExact, Exists, Fresh
<1>4. \A e \in Entries : \A s : Owing(e, s) = {} /\ {l \in Loops : Pending(l, e)} = {}
      BY DEF Owing, Pending
<1>5. Cardinality({}) = 0  BY FS_EmptySet
<1>6. \A e \in Entries, o \in Outcomes : rows[e][o] = 0  BY DEF Fresh
<1>7. EmissionsAreRecorded
  <2> SUFFICES ASSUME NEW e \in Entries
      PROVE  emitted[e] = rows[e]["VERIFIER_SUCCESS"] + unrecorded[e]
                          + Cardinality({l \in Loops : Pending(l, e)})
      BY DEF EmissionsAreRecorded
  <2>1. rows[e]["VERIFIER_SUCCESS"] = 0  BY <1>6 DEF Outcomes
  <2>2. emitted[e] = 0 /\ unrecorded[e] = 0  OBVIOUS
  <2>3. Cardinality({l \in Loops : Pending(l, e)}) = 0  BY <1>4, <1>5
  <2> QED BY <2>1, <2>2, <2>3
<1>8. CauseInv
  <2>1. ASSUME NEW e \in Entries, NEW s PROVE Cardinality(Owing(e, s)) = 0
        BY <1>4, <1>5
  <2>2. ASSUME NEW e \in Entries, NEW s, NEW o \in Outcomes, NEW c \in Outcomes
        PROVE  rows[e][o] + Cardinality(Owing(e, s)) <= rows[e][c]
        BY <1>6, <2>1
  <2> QED BY <2>2 DEF CauseInv, Outcomes
<1>9. PromotedIsBacked /\ AloneInv  BY DEF PromotedIsBacked, AloneInv, Idle, At
<1> QED BY <1>1, <1>2, <1>3, <1>7, <1>8, <1>9 DEF IInv

LEMMA StepHolds ==
    ASSUME IInv, [Next]_vars
    PROVE  IInv'
<1>1. ASSUME NEW l \in Loops, Step(l) PROVE IInv'
      BY <1>1, TypeStep, CountStep, AloneStep, CauseStep, EmissionStep, PromotionStep DEF IInv
<1>2. CASE UNCHANGED vars
  <2> USE <1>2 DEF vars, tables, histories, bounds
  <2>1. TypeOK' /\ ScriptInv'  BY DEF IInv, TypeOK, ScriptInv
  <2>2. CountsAreBacked' /\ HeldInv' /\ CountsAreExact'
        BY DEF IInv, CountsAreBacked, HeldInv, CountsAreExact, Exists
  <2>3. EmissionsAreRecorded'  BY DEF IInv, EmissionsAreRecorded, Pending
  <2>4. CauseInv'  BY DEF IInv, CauseInv, Owing
  <2>5. PromotedIsBacked' /\ AloneInv'
        BY DEF IInv, PromotedIsBacked, AloneInv, Idle, At, Exists
  <2> QED BY <2>1, <2>2, <2>3, <2>4, <2>5 DEF IInv
<1> QED BY <1>1, <1>2 DEF Next

\* The strengthened invariant holds throughout.
THEOREM Invariance == Spec => []IInv
<1>1. Init => IInv  BY InitHolds
<1>2. IInv /\ [Next]_vars => IInv'  BY StepHolds
<1> QED BY <1>1, <1>2, PTL DEF Spec

\* Every variable stays in its domain, for any processes and entries.
THEOREM TypeCorrect == Spec => []TypeOK
<1>1. IInv => TypeOK  BY DEF IInv
<1> QED BY <1>1, Invariance, PTL

\* The store may forget evidence in a race and never invents any.
THEOREM CountsBacked == Spec => []CountsAreBacked
<1>1. IInv => CountsAreBacked  BY DEF IInv
<1> QED BY <1>1, Invariance, PTL

\* Every candidate that is emitted is recorded once, is about to be, or was lost
\* with its process.
THEOREM EmissionsRecorded == Spec => []EmissionsAreRecorded
<1>1. IInv => EmissionsAreRecorded  BY DEF IInv
<1> QED BY <1>1, Invariance, PTL

\* No effect of an attempt is ever recorded without its cause.
THEOREM CausesFirst == Spec => []CausesComeFirst
<1>1. IInv => CausesComeFirst
  <2> SUFFICES ASSUME IInv, NEW e \in Entries
      PROVE  /\ rows[e]["OBSTRUCTION_FOUND"] <= rows[e]["VERIFIER_FAILURE"]
             /\ rows[e]["RESIDUAL_COMPRESSED"] <= rows[e]["TRANSFER_SUCCESS"]
             /\ rows[e]["TRANSFER_SUCCESS"] <= rows[e]["VERIFIER_SUCCESS"]
      BY DEF CausesComeFirst
  <2>1. \A s : Cardinality(Owing(e, s)) \in Nat
    <3>1. \A s : Owing(e, s) \in SUBSET Loops  BY DEF Owing
    <3> QED BY <3>1, LoopsAssumption, FS_Subset, FS_CardinalityType
  <2>2. \A o \in Outcomes : rows[e][o] \in Nat  BY DEF IInv, TypeOK
  <2> DEFINE of == Cardinality(Owing(e, <<"OBSTRUCTION_FOUND">>))
             rc == Cardinality(Owing(e, <<"RESIDUAL_COMPRESSED">>))
             ts == Cardinality(Owing(e, <<"TRANSFER_SUCCESS", "RESIDUAL_COMPRESSED">>))
  <2>3. of \in Nat /\ rc \in Nat /\ ts \in Nat  BY <2>1
  <2>4. /\ rows[e]["OBSTRUCTION_FOUND"] + of <= rows[e]["VERIFIER_FAILURE"]
        /\ rows[e]["RESIDUAL_COMPRESSED"] + rc <= rows[e]["TRANSFER_SUCCESS"]
        /\ rows[e]["TRANSFER_SUCCESS"] + ts <= rows[e]["VERIFIER_SUCCESS"]
        BY DEF IInv, CauseInv
  <2> HIDE DEF of, rc, ts
  <2> QED BY <2>2, <2>3, <2>4 DEF Outcomes
<1> QED BY <1>1, Invariance, PTL

\* Whatever certificates the verifiers return, only backed ones are promoted.
THEOREM PromotedBacked == Spec => []PromotedIsBacked
<1>1. IInv => PromotedIsBacked  BY DEF IInv
<1> QED BY <1>1, Invariance, PTL

\* One process after the other, and no entry with a past seeded: counts are exact.
THEOREM CountsExact == Spec => []CountsAreExact
<1>1. IInv => CountsAreExact  BY DEF IInv
<1> QED BY <1>1, Invariance, PTL

\* Under the same conditions a retired entry stays retired.
THEOREM RetiredStays == Spec => RetiredStaysRetired
<1>1. ASSUME IInv, [Next]_vars PROVE [Retires]_vars
  <2>1. ASSUME NEW l \in Loops, Step(l) PROVE Retires
        BY <1>1, <2>1, AloneStep DEF IInv
  <2> QED BY <1>1, <2>1 DEF Next
<1>2. Spec => [][Retires]_vars  BY <1>1, Invariance, PTL DEF Spec
<1> QED BY <1>2, PTL DEF RetiredStaysRetired, Retires

-----------------------------------------------------------------------------
(* When the atlas remembers.                                                 *)

\* Under the same conditions no entry vanishes and none of its counts goes down:
\* what takes a count away is a race, or an entry with a past seeded again.
RemembersAlone ==
    [][(~overlapped' /\ ~forgot') =>
          \A e \in Entries, o \in Outcomes :
              Exists(e) => entries'[e] # Absent /\ entries'[e].count[o] >= entries[e].count[o]]_vars

\* A step after which the conditions hold is of a process that is alone, had
\* them before, loses no row and removes no entry.
LEMMA NothingIsLost ==
    ASSUME TypeOK, ScriptInv, AloneInv, NEW l \in Loops, Step(l), ~overlapped', ~forgot'
    PROVE  /\ ~overlapped /\ ~forgot
           /\ \A e \in Entries : /\ Exists(e) => entries'[e] # Absent
                                 /\ \A o \in Outcomes : rows'[e][o] >= rows[e][o]
<1> USE DEF tables, histories, Exists
<1>0. /\ entries \in [Entries -> Entry \cup {Absent}] /\ held \in [Loops -> Entry \cup {Absent}]
      /\ \A e \in Entries, o \in Outcomes : rows[e][o] \in Nat
      BY DEF TypeOK
<1>1. CASE Aside(l)
  <2>1. PICK to \in {"idle", "rows", "emit", "row", "episode", "attempt", "rescore", "seed"},
             e \in Entries \cup {Absent} : <<to, e>> \in Places /\ Goto(l, to, e)
        BY <1>1 DEF Aside
  <2>2. ~overlapped  BY <2>1, OthersIdle
  <2> QED BY <1>0, <1>1, <2>2 DEF Aside
<1>2. CASE record(l)
  <2>1. PICK e \in Entries, place \in {"row", "attempt"} :
          /\ At(l, place, e) /\ add_feedback(e, Head(script[l]))
          /\ IF Tail(script[l]) # <<>> THEN Goto(l, place, e)
             ELSE Goto(l, IF place = "row" THEN "rows" ELSE "episode", Absent)
        BY <1>2 DEF record
  <2>2. script[l] \in Scripts /\ script[l] # <<>>
    <3>1. pc[l] \in {"row", "attempt"} \X Entries  BY <2>1 DEF At
    <3> QED BY <3>1 DEF ScriptInv, TypeOK
  <2> DEFINE o == Head(script[l])
  <2>3. o \in Outcomes  BY <2>2, ScriptGoesOn
  <2>4. PICK to \in {place, "rows", "episode"}, at \in {e, Absent} :
           <<to, at>> \in Places /\ Goto(l, to, at)
        BY <2>1 DEF Places
  <2>5. ~overlapped /\ ~forgot  BY <1>2, <2>4, OthersIdle DEF record
  <2>6. ASSUME NEW f \in Entries, NEW p \in Outcomes PROVE rows'[f][p] >= rows[f][p]
        BY <1>0, <2>1, <2>3 DEF add_feedback, TypeOK
  <2>7. ASSUME Exists(e) PROVE apply_feedback_to_entry(entries[e], o) # Absent
    <3>1. entries[e] \in Entry  BY <1>0, <2>7
    <3>2. apply_feedback_to_entry(entries[e], o) \in Entry  BY <2>3, <3>1, FeedbackCounts
    <3> QED BY <3>2, AbsentAssumption
  <2>8. ASSUME NEW f \in Entries, Exists(f) PROVE entries'[f] # Absent
        BY <1>0, <2>1, <2>7, <2>8 DEF add_feedback
  <2> QED BY <2>5, <2>6, <2>8
<1>3. CASE ReadEntry(l)
  <2>1. PICK e \in Entries : Goto(l, "score", e)  BY <1>3 DEF ReadEntry, TypeOK
  <2>2. ~overlapped  BY <2>1, OthersIdle DEF Places
  <2> QED BY <1>0, <1>3, <2>2 DEF ReadEntry
<1>4. CASE WriteEntry(l)
  <2>1. PICK e \in Entries : /\ At(l, "score", e) /\ Goto(l, "rescore", Absent)
                             /\ entries' = [entries EXCEPT ![e] = held[l]]
        BY <1>4 DEF WriteEntry
  <2>2. ~overlapped  BY <2>1, OthersIdle DEF Places
  <2>3. entries' = entries  BY <1>0, <2>1, <2>2 DEF AloneInv
  <2> QED BY <1>0, <1>4, <2>2, <2>3 DEF WriteEntry
<1>5. CASE ReadToRetire(l)
  <2>1. PICK e \in Entries : Goto(l, "retire", e)  BY <1>5 DEF ReadToRetire
  <2>2. ~overlapped  BY <2>1, OthersIdle DEF Places
  <2> QED BY <1>0, <1>5, <2>2 DEF ReadToRetire
<1>6. CASE WriteRetired(l)
  <2>1. PICK e \in Entries : /\ At(l, "retire", e) /\ Goto(l, "idle", Absent)
                             /\ entries' = [entries EXCEPT ![e] = held[l]]
        BY <1>6 DEF WriteRetired
  <2>2. ~overlapped  BY <2>1, OthersIdle DEF Places
  <2>3. held[l] # Absent  BY <2>1, <2>2 DEF AloneInv
  <2> QED BY <1>0, <1>6, <2>1, <2>2, <2>3 DEF WriteRetired
<1>7. CASE UpsertSeed(l)
  <2>1. PICK e \in Entries :
           /\ SeedNext(l, e) /\ entries' = [entries EXCEPT ![e] = Fresh]
           /\ forgot' = (forgot \/ entries[e] \notin {Absent, Fresh} \/ rows[e] # Fresh.count)
        BY <1>7 DEF UpsertSeed, TypeOK
  <2>2. PICK to \in {"idle", "seed"} : Goto(l, to, Absent)  BY <2>1 DEF SeedNext
  <2>3. ~overlapped  BY <2>2, OthersIdle DEF Places
  <2>4. Fresh # Absent  BY AbsentAssumption DEF Fresh, Entry, Statuses
  <2>5. rows' = rows /\ ~forgot  BY <1>7, <2>1 DEF UpsertSeed
  <2>6. ASSUME NEW f \in Entries, Exists(f) PROVE entries'[f] # Absent
        BY <1>0, <2>1, <2>4, <2>6
  <2> QED BY <1>0, <2>3, <2>5, <2>6
<1> QED BY <1>1, <1>2, <1>3, <1>4, <1>5, <1>6, <1>7, StepKinds

\* One process after the other, and no entry with a past seeded: the atlas remembers.
THEOREM AloneRemembers == Spec => RemembersAlone
<1> DEFINE Kept == ~overlapped' /\ ~forgot' =>
          \A e \in Entries, o \in Outcomes :
              Exists(e) => entries'[e] # Absent /\ entries'[e].count[o] >= entries[e].count[o]
<1>1. ASSUME IInv, IInv', NEW l \in Loops, Step(l) PROVE Kept
  <2> SUFFICES ASSUME ~overlapped', ~forgot', NEW e \in Entries, NEW o \in Outcomes, Exists(e)
               PROVE  entries'[e] # Absent /\ entries'[e].count[o] >= entries[e].count[o]
      OBVIOUS
  <2>1. /\ ~overlapped /\ ~forgot
        /\ entries'[e] # Absent /\ rows'[e][o] >= rows[e][o]
        BY <1>1, NothingIsLost DEF IInv
  <2>2. entries[e].count[o] = rows[e][o] /\ entries'[e].count[o] = rows'[e][o]
        BY <1>1, <2>1 DEF IInv, CountsAreExact, Exists
  <2> QED BY <2>1, <2>2
<1>2. ASSUME IInv, IInv', [Next]_vars PROVE [Kept]_vars
      BY <1>1, <1>2 DEF Next
<1>3. Spec => [][Kept]_vars  BY <1>2, Invariance, PTL DEF Spec
<1> QED BY <1>3, PTL DEF RemembersAlone
=============================================================================
