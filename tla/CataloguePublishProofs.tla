---------------------- MODULE CataloguePublishProofs ----------------------
(* Theorems about CataloguePublish, for any number of publishers, files,     *)
(* publications, failures and foreign directories.                           *)
EXTENDS CataloguePublish, TLAPS

LEMMA InitIInv == Init => IInv
  <1> SUFFICES ASSUME Init PROVE IInv
    OBVIOUS
  <1>1. \A c \in Publications \cup {Unrelated} :
           Whole(c) \in Tree /\ Whole(c).n = NFiles
    BY NFilesAssumption DEF Whole, Tree
  <1>2. output \in Tree \cup {Nothing} /\ (output # Nothing => output.n = NFiles)
    BY <1>1 DEF Init, Published
  <1>3. TypeOK
    BY <1>2, FaultsAssumption DEF Init, TypeOK, Running, Ended
  <1>4. OutputIsWhole /\ ShownSurvives
    BY <1>2 DEF Init, OutputIsWhole, ShownSurvives, exists
  <1>5. StagingByPlace /\ BackupByPlace /\ CheckStops /\ CheckWritesNothing
    BY DEF Init, StagingByPlace, BackupByPlace, CheckStops, CheckWritesNothing, exists
  <1> QED
    BY <1>3, <1>4, <1>5 DEF IInv

\* The directories a step can make from one in the domain are in it.
LEMMA Trees ==
    /\ \A c \in Publications \cup {Unrelated}, n \in 0 .. NFiles : [of |-> c, n |-> n] \in Tree
    /\ \A t \in Tree : Removed(t) \in Tree \cup {Nothing}
    /\ \A t \in Tree : t # Nothing
  <1>1. \A c \in Publications \cup {Unrelated}, n \in 0 .. NFiles : [of |-> c, n |-> n] \in Tree
    BY DEF Tree
  <1>2. ASSUME NEW t \in Tree PROVE Removed(t) \in Tree \cup {Nothing}
    <2>1. CASE t.n = 0
      BY <2>1 DEF Removed
    <2>2. CASE t.n # 0
      BY <2>2, NFilesAssumption DEF Removed, Tree
    <2> QED
      BY <2>1, <2>2
  <1>3. \A t \in Tree : t # Nothing
    BY NothingAssumption
  <1> QED
    BY <1>1, <1>2, <1>3

\* Steps that move a publisher and no directory.
LEMMA CallSteps ==
    ASSUME IInv, NEW p \in Publishers,
           UNCHANGED <<trees, call, foreign>>,
           \/ publish_catalogue(p) \/ LookForOutput(p) \/ ReadFile(p) \/ Judge(p) \/ LookAgain(p)
           \/ MakeFails(p) \/ WriteFails(p) \/ MoveFails(p) \/ SwapFails(p) \/ RollbackFails(p)
           \/ DropFails(p) \/ CleanupFails(p)
           \/ Crash(p)
    PROVE  IInv'
  <1> USE NothingAssumption DEF IInv, Goto, At, Fault, trees, call
  <1>1. TypeOK'
    <2>1. output' = output /\ shown' = shown /\ staging' = staging /\ backup' = backup
          /\ want' = want /\ check' = check /\ foreign' = foreign
      BY DEF TypeOK
    <2>2. pc' \in [Publishers -> Running \cup Ended]
      BY DEF TypeOK, Running, Ended, publish_catalogue, LookForOutput, ReadFile, Judge,
             LookAgain, MakeFails, WriteFails, MoveFails, SwapFails, RollbackFails, DropFails,
             CleanupFails, Crash
    <2>3. faults' \in 0 .. MaxFaults
      <3>1. faults' = faults \/ (faults < MaxFaults /\ faults' = faults + 1)
        BY DEF publish_catalogue, LookForOutput, ReadFile, Judge,
             LookAgain, MakeFails, WriteFails, MoveFails, SwapFails, RollbackFails, DropFails,
             CleanupFails, Crash
      <3>2. faults \in 0 .. MaxFaults
        BY DEF TypeOK
      <3> QED
        BY <3>1, <3>2, FaultsAssumption
    <2>4. actual' \in [Publishers -> Seq(Publications \cup {Unrelated})]
      <3>1. CASE ReadFile(p)
        <4>1. CASE actual' = actual
          BY <4>1 DEF TypeOK
        <4>2. CASE output # Nothing /\ actual' = [actual EXCEPT ![p] = Append(@, output.of)]
          <5>1. output.of \in Publications \cup {Unrelated}
            BY <4>2 DEF TypeOK, Tree
          <5>2. Append(actual[p], output.of) \in Seq(Publications \cup {Unrelated})
            BY <5>1 DEF TypeOK
          <5> QED
            BY <4>2, <5>2 DEF TypeOK
        <4> QED
          BY <3>1, <4>1, <4>2 DEF ReadFile, exists
      <3>2. CASE actual' = actual
        BY <3>2 DEF TypeOK
      <3> QED
        BY <3>1, <3>2 DEF publish_catalogue, LookForOutput, Judge,
             LookAgain, MakeFails, WriteFails, MoveFails, SwapFails, RollbackFails, DropFails,
             CleanupFails, Crash
    <2> QED
      BY <2>1, <2>2, <2>3, <2>4 DEF TypeOK
  <1>2. OutputIsWhole' /\ CheckWritesNothing'
    BY DEF OutputIsWhole, CheckWritesNothing
  <1>3. ShownSurvives'
    BY DEF ShownSurvives, TypeOK, publish_catalogue, LookForOutput, ReadFile, Judge,
           LookAgain, MakeFails, WriteFails, MoveFails, SwapFails, RollbackFails, DropFails,
           CleanupFails, Crash, exists, Running
  <1>4. StagingByPlace'
    BY DEF StagingByPlace, TypeOK, publish_catalogue, LookForOutput, ReadFile, Judge,
           LookAgain, MakeFails, WriteFails, MoveFails, SwapFails, RollbackFails, DropFails,
           CleanupFails, Crash, exists
  <1>5. BackupByPlace'
    BY DEF BackupByPlace, TypeOK, publish_catalogue, LookForOutput, ReadFile, Judge,
           LookAgain, MakeFails, WriteFails, MoveFails, SwapFails, RollbackFails, DropFails,
           CleanupFails, Crash, exists
  <1>6. CheckStops'
    BY DEF CheckStops, TypeOK, publish_catalogue, LookForOutput, ReadFile, Judge,
           LookAgain, MakeFails, WriteFails, MoveFails, SwapFails, RollbackFails, DropFails,
           CleanupFails, Crash, exists
  <1> QED
    BY <1>1, <1>2, <1>3, <1>4, <1>5, <1>6

\* Steps that touch the staging directory only.
LEMMA StagingSteps ==
    ASSUME IInv, NEW p \in Publishers, MakeStaging(p) \/ WriteFile(p) \/ Cleanup(p)
    PROVE  IInv'
  <1> USE NothingAssumption, NFilesAssumption DEF IInv, Goto, At, call, exists
  <1>1. ~check[p]
    BY DEF CheckStops, MakeStaging, WriteFile, Cleanup
  <1>2. /\ UNCHANGED <<output, backup, shown, want, check, actual, faults, foreign>>
        /\ staging' \in [Publishers -> Tree \cup {Nothing}]
        /\ \A q \in Publishers \ {p} : staging'[q] = staging[q] /\ pc'[q] = pc[q]
        /\ pc' \in [Publishers -> Running \cup Ended]
    <2>1. CASE MakeStaging(p)
      <3>1. [of |-> want[p], n |-> 0] \in Tree
        <4>1. want[p] \in Publications /\ 0 \in 0 .. NFiles
          BY DEF TypeOK
        <4> QED
          BY <4>1 DEF Tree
      <3> QED
        BY <2>1, <3>1 DEF MakeStaging, TypeOK, Running, Ended
    <2>2. CASE WriteFile(p)
      <3>1. staging[p] \in Tree /\ staging[p].n + 1 \in 0 .. NFiles
        BY <2>2 DEF WriteFile, TypeOK, StagingByPlace, Tree
      <3>2. [staging[p] EXCEPT !.n = @ + 1] \in Tree
        BY <3>1 DEF Tree
      <3> QED
        BY <2>2, <3>2 DEF WriteFile, TypeOK, Running, Ended
    <2>3. CASE Cleanup(p)
      <3>1. staging[p] # Nothing => Removed(staging[p]) \in Tree \cup {Nothing}
        BY Trees DEF TypeOK
      <3>2. staging' \in [Publishers -> Tree \cup {Nothing}]
        BY <2>3, <3>1 DEF Cleanup, TypeOK
      <3> QED
        BY <2>3, <3>2 DEF Cleanup, TypeOK, Running, Ended
    <2> QED
      BY <2>1, <2>2, <2>3
  <1>3. TypeOK'
    BY <1>2 DEF TypeOK
  <1>4. OutputIsWhole' /\ CheckWritesNothing'
    BY <1>1, <1>2 DEF OutputIsWhole, CheckWritesNothing
  <1>5. ShownSurvives'
    BY <1>2 DEF ShownSurvives, TypeOK, MakeStaging, WriteFile, Cleanup
  <1>6. StagingByPlace'
    <2>1. CASE MakeStaging(p)
      <3>1. [of |-> want[p], n |-> 0] \in Tree
        <4>1. want[p] \in Publications /\ 0 \in 0 .. NFiles
          BY DEF TypeOK
        <4> QED
          BY <4>1 DEF Tree
      <3>2. staging'[p] # Nothing /\ staging'[p].n = 0 /\ pc'[p] = "write"
        BY <2>1, <3>1 DEF MakeStaging, TypeOK
      <3> QED
        BY <1>2, <3>2 DEF StagingByPlace
    <2>2. CASE WriteFile(p)
      <3>1. staging[p] \in Tree /\ staging[p].n + 1 \in 0 .. NFiles
        BY <2>2 DEF WriteFile, TypeOK, StagingByPlace, Tree
      <3>2. staging'[p] \in Tree /\ staging'[p].n = staging[p].n + 1
        BY <2>2, <3>1 DEF WriteFile, TypeOK, Tree
      <3>3. IF staging'[p].n = NFiles THEN pc'[p] = "look" ELSE pc'[p] = "write"
        BY <2>2 DEF WriteFile, TypeOK
      <3> QED
        BY <1>2, <3>1, <3>2, <3>3 DEF StagingByPlace
    <2>3. CASE Cleanup(p)
      BY <2>3, <1>2 DEF Cleanup, TypeOK, StagingByPlace
    <2> QED
      BY <2>1, <2>2, <2>3
  <1>7. BackupByPlace' /\ CheckStops'
    BY <1>1, <1>2 DEF BackupByPlace, CheckStops, TypeOK, MakeStaging, WriteFile, Cleanup
  <1> QED
    BY <1>3, <1>4, <1>5, <1>6, <1>7

\* The renames and the removal of the old directory.
LEMMA OutputSteps ==
    ASSUME IInv, NEW p \in Publishers,
           MoveAside(p) \/ Swap(p) \/ Rollback(p) \/ DropBackup(p)
    PROVE  IInv'
  <1> USE NothingAssumption, NFilesAssumption DEF IInv, Goto, At, call, exists
  <1>1. ~check[p]
    BY DEF CheckStops, MoveAside, Swap, Rollback, DropBackup
  <1>2. /\ UNCHANGED <<want, check, actual, faults, foreign>>
        /\ \A q \in Publishers \ {p} :
              staging'[q] = staging[q] /\ backup'[q] = backup[q] /\ pc'[q] = pc[q]
        /\ pc' \in [Publishers -> Running \cup Ended]
    BY DEF TypeOK, MoveAside, Swap, Rollback, DropBackup, Running, Ended
  <1>3. TypeOK'
    <2>1. staging' \in [Publishers -> Tree \cup {Nothing}]
      BY DEF TypeOK, MoveAside, Swap, Rollback, DropBackup
    <2>2. backup' \in [Publishers -> Tree \cup {Nothing}]
      BY Trees DEF TypeOK, MoveAside, Swap, Rollback, DropBackup
    <2>3. output' \in Tree \cup {Nothing} /\ shown' \in Tree \cup {Nothing}
      BY DEF TypeOK, MoveAside, Swap, Rollback, DropBackup
    <2> QED
      BY <1>2, <2>1, <2>2, <2>3 DEF TypeOK
  <1>4. OutputIsWhole'
    BY DEF OutputIsWhole, StagingByPlace, BackupByPlace, MoveAside, Swap, Rollback, DropBackup
  <1>5. ShownSurvives'
    <2>1. CASE MoveAside(p)
      BY <2>1 DEF ShownSurvives, TypeOK, MoveAside
    <2>2. CASE Swap(p)
      BY <2>2 DEF ShownSurvives, TypeOK, Swap
    <2>3. CASE Rollback(p)
      BY <2>3 DEF ShownSurvives, TypeOK, Rollback
    <2>4. CASE DropBackup(p)
      BY <2>4, <1>2 DEF ShownSurvives, TypeOK, DropBackup
    <2> QED
      BY <2>1, <2>2, <2>3, <2>4
  <1>6. StagingByPlace'
    BY <1>2 DEF StagingByPlace, TypeOK, MoveAside, Swap, Rollback, DropBackup
  <1>7. BackupByPlace'
    <2>1. CASE MoveAside(p)
      BY <2>1, <1>2 DEF BackupByPlace, OutputIsWhole, TypeOK, MoveAside
    <2>2. CASE Swap(p)
      BY <2>2, <1>2 DEF BackupByPlace, TypeOK, Swap
    <2>3. CASE Rollback(p)
      BY <2>3, <1>2 DEF BackupByPlace, TypeOK, Rollback
    <2>4. CASE DropBackup(p)
      BY <2>4, <1>2 DEF BackupByPlace, TypeOK, DropBackup
    <2> QED
      BY <2>1, <2>2, <2>3, <2>4
  <1>8. CheckStops' /\ CheckWritesNothing'
    BY <1>1, <1>2 DEF CheckStops, CheckWritesNothing
  <1> QED
    BY <1>3, <1>4, <1>5, <1>6, <1>7, <1>8

LEMMA NextIInv == IInv /\ [Next]_vars => IInv'
  <1> SUFFICES ASSUME IInv, [Next]_vars PROVE IInv'
    OBVIOUS
  <1>1. ASSUME NEW p \in Publishers, Step(p) PROVE IInv'
    BY <1>1, CallSteps, StagingSteps, OutputSteps
       DEF Step, publish_catalogue, LookForOutput, ReadFile, Judge, LookAgain
  <1>2. ASSUME NEW p \in Publishers, Fails(p) PROVE IInv'
    BY <1>2, CallSteps
       DEF Fails, MakeFails, WriteFails, MoveFails, SwapFails, RollbackFails, DropFails,
           CleanupFails, Crash
  <1>3. CASE ForeignOutput
    <2>1. TypeOK' /\ output'.n = NFiles
      <3>1. Whole(Unrelated) \in Tree /\ Whole(Unrelated).n = NFiles
        BY Trees, NFilesAssumption DEF Whole
      <3>2. foreign' \in 0 .. MaxForeign
        BY <1>3, FaultsAssumption DEF IInv, TypeOK, ForeignOutput
      <3> QED
        BY <1>3, <3>1, <3>2 DEF IInv, TypeOK, ForeignOutput, call
    <2> QED
      BY <1>3, <2>1 DEF IInv, ForeignOutput, OutputIsWhole, ShownSurvives, StagingByPlace,
                        BackupByPlace, CheckStops, CheckWritesNothing, call
  <1>4. CASE UNCHANGED vars
    BY <1>4 DEF vars, call, IInv, TypeOK, OutputIsWhole, ShownSurvives, StagingByPlace,
                BackupByPlace, CheckStops, CheckWritesNothing
  <1> QED
    BY <1>1, <1>2, <1>3, <1>4 DEF Next

THEOREM Invariant == Spec => []IInv
  BY InitIInv, NextIInv, PTL DEF Spec

\* The variables of the publishers and of the directories keep their domains.
THEOREM TypeCorrect == Spec => []TypeOK
  <1>1. IInv => TypeOK
    BY DEF IInv
  <1> QED
    BY <1>1, Invariant, PTL

\* No reader ever finds part of a publication at the output path.
THEOREM NeverPartial == Spec => []OutputIsWhole
  <1>1. IInv => OutputIsWhole
    BY DEF IInv
  <1> QED
    BY <1>1, Invariant, PTL

\* The last publication is never destroyed before the next is in place.
THEOREM NothingIsLost == Spec => []ShownSurvives
  <1>1. IInv => ShownSurvives
    BY DEF IInv
  <1> QED
    BY <1>1, Invariant, PTL

\* A call that ended by itself leaves no staging directory behind, and a backup
\* only where that could neither be put back nor removed.
THEOREM Tidy == Spec => []EndedIsTidy
  <1>1. IInv => EndedIsTidy
    BY DEF IInv, EndedIsTidy, StagingByPlace, BackupByPlace, Ended, exists
  <1> QED
    BY <1>1, Invariant, PTL

\* A call that only checks leaves the directories alone.
THEOREM ChecksAreReadOnly == Spec => []CheckWritesNothing
  <1>1. IInv => CheckWritesNothing
    BY DEF IInv
  <1> QED
    BY <1>1, Invariant, PTL
-----------------------------------------------------------------------------
(* What was last put at the path is put back. As long as there is at most    *)
(* one fault, a path that was emptied has a publisher that is still going to *)
(* fill it, or was killed.                                                   *)

Restorer(p) ==
    /\ backup[p] = shown
    /\ \/ pc[p] \in {"swap", "crashed"}
       \/ pc[p] = "rollback" /\ faults >= 1

RestoredInv ==
    (faults <= 1 /\ output # shown) => output = Nothing /\ \E p \in Publishers : Restorer(p)

\* What one publisher does leaves the places and backups of the others alone,
\* and adds at most one to the faults.
LEMMA OthersStay ==
    ASSUME TypeOK, NEW p \in Publishers, Step(p) \/ Fails(p)
    PROVE  /\ \A q \in Publishers \ {p} : backup'[q] = backup[q] /\ pc'[q] = pc[q]
           /\ faults' \in {faults, faults + 1} /\ foreign' = foreign
  <1> USE DEF TypeOK, Goto, Fault, trees, call
  <1>1. CASE Step(p)
    BY <1>1 DEF Step, publish_catalogue, LookForOutput, ReadFile, Judge, MakeStaging, WriteFile,
                LookAgain, MoveAside, Swap, Rollback, DropBackup, Cleanup
  <1>2. CASE Fails(p)
    BY <1>2 DEF Fails, MakeFails, WriteFails, MoveFails, SwapFails, RollbackFails, DropFails,
                CleanupFails, Crash
  <1> QED
    BY <1>1, <1>2

\* The path changes by a rename of a publisher that also is the last to put
\* something there, or by one that moves aside what is there.
LEMMA PathSteps ==
    ASSUME NEW p \in Publishers, Step(p) \/ Fails(p)
    PROVE  \/ output' = output /\ shown' = shown
           \/ output' = shown'
           \/ MoveAside(p) /\ output # Nothing
  <1> USE DEF trees, exists
  <1>1. CASE Step(p)
    BY <1>1 DEF Step, publish_catalogue, LookForOutput, ReadFile, Judge, MakeStaging, WriteFile,
                LookAgain, MoveAside, Swap, Rollback, DropBackup, Cleanup
  <1>2. CASE Fails(p)
    BY <1>2 DEF Fails, MakeFails, WriteFails, MoveFails, SwapFails, RollbackFails, DropFails,
                CleanupFails, Crash
  <1> QED
    BY <1>1, <1>2

\* The publisher that is going to fill the path does so, unless it fails too.
LEMMA RestorerActs ==
    ASSUME TypeOK, NEW p \in Publishers, Step(p) \/ Fails(p), Restorer(p),
           output = Nothing, shown # Nothing, faults' <= 1, output' # shown'
    PROVE  Restorer(p)'
  <1> USE DEF TypeOK, Restorer, At, Goto, Fault, trees, call, exists
  <1>1. CASE Step(p)
    BY <1>1 DEF Step, publish_catalogue, LookForOutput, ReadFile, Judge, MakeStaging, WriteFile,
                LookAgain, MoveAside, Swap, Rollback, DropBackup, Cleanup
  <1>2. CASE Fails(p)
    BY <1>2, FaultsAssumption
       DEF Fails, MakeFails, WriteFails, MoveFails, SwapFails, RollbackFails, DropFails,
           CleanupFails, Crash, Running
  <1> QED
    BY <1>1, <1>2

LEMMA RestoredStep ==
    ASSUME TypeOK, RestoredInv, [Next]_vars
    PROVE  RestoredInv'
  <1> SUFFICES ASSUME faults' <= 1, output' # shown'
               PROVE  output' = Nothing /\ \E p \in Publishers : Restorer(p)'
    BY DEF RestoredInv
  <1>1. ASSUME NEW p \in Publishers, Step(p) \/ Fails(p)
        PROVE  output' = Nothing /\ \E q \in Publishers : Restorer(q)'
    <2>1. faults <= 1 /\ faults <= faults'
      BY <1>1, OthersStay DEF TypeOK
    <2>2. CASE MoveAside(p) /\ output # Nothing
      <3>1. output = shown
        BY <2>1, <2>2 DEF RestoredInv
      <3>2. output' = Nothing /\ shown' = shown /\ backup'[p] = output /\ pc'[p] = "swap"
        BY <2>2 DEF MoveAside, Goto, TypeOK, exists
      <3> QED
        BY <3>1, <3>2 DEF Restorer
    <2>3. CASE output' = output /\ shown' = shown
      <3>1. output = Nothing /\ \E q \in Publishers : Restorer(q)
        BY <2>1, <2>3 DEF RestoredInv
      <3>2. PICK q \in Publishers : Restorer(q)
        BY <3>1
      <3>3. CASE q = p
        BY <1>1, <2>3, <3>1, <3>2, <3>3, RestorerActs
      <3>4. CASE q # p
        <4>1. backup'[q] = backup[q] /\ pc'[q] = pc[q]
          BY <1>1, <3>4, OthersStay
        <4>2. faults >= 1 => faults' >= 1
          BY <2>1, FaultsAssumption DEF TypeOK
        <4> QED
          BY <2>3, <3>1, <3>2, <4>1, <4>2 DEF Restorer
      <3> QED
        BY <3>3, <3>4
    <2> QED
      BY <1>1, <2>2, <2>3, PathSteps
  <1>2. CASE ForeignOutput
    BY <1>2 DEF ForeignOutput
  <1>3. CASE UNCHANGED vars
    BY <1>3 DEF vars, RestoredInv, Restorer
  <1> QED
    BY <1>1, <1>2, <1>3 DEF Next

\* When all calls have ended, none was killed and at most one system call
\* failed, what was last put at the output path is there (the rollback after a
\* failed staging.rename(output)).
THEOREM Restored == Spec => []EndedIsRestored
  <1>1. Init => RestoredInv
    BY DEF Init, RestoredInv
  <1>2. TypeOK /\ RestoredInv /\ [Next]_vars => RestoredInv'
    BY RestoredStep
  <1>3. RestoredInv => EndedIsRestored
    BY DEF RestoredInv, EndedIsRestored, Restorer, Ended
  <1> QED
    BY <1>1, <1>2, <1>3, TypeCorrect, PTL DEF Spec

-----------------------------------------------------------------------------
(* What is no publication is refused. As long as nobody else has put         *)
(* anything at the path, either content that is no publication was there     *)
(* from the start, and no call has got past its judgement, or there is none. *)

Foreigner(t) == t # Nothing /\ t.of = Unrelated

Refusing ==
    /\ output = Whole(Unrelated)
    /\ \A p \in Publishers :
          /\ pc[p] \in {"idle", "exists", "read", "judge", "refused", "crashed"}
          /\ pc[p] \in {"idle", "exists"} => actual[p] = <<>>
          /\ pc[p] = "read" => Len(actual[p]) < NFiles
          /\ pc[p] = "judge" => actual[p] # <<>>
          /\ \A i \in 1 .. Len(actual[p]) : actual[p][i] = Unrelated

OnlyPublications ==
    ~Foreigner(output)
        /\ \A p \in Publishers : ~Foreigner(staging[p]) /\ ~Foreigner(backup[p])

RefusedInv == foreign = 0 => Refusing \/ OnlyPublications

\* A call that looks at content which is no publication does not get past its
\* judgement.
LEMMA RefusingStep ==
    ASSUME TypeOK, Refusing, NEW p \in Publishers, Step(p) \/ Fails(p)
    PROVE  Refusing'
  <1>1. output # Nothing /\ output.n = NFiles /\ output.of = Unrelated
    <2>1. Whole(Unrelated) \in Tree
      BY Trees, NFilesAssumption DEF Whole
    <2> QED
      BY <2>1, NothingAssumption DEF Refusing, Whole
  <1>2. pc[p] \in {"idle", "exists", "read", "judge", "refused", "crashed"}
    BY DEF Refusing
  <1>3. \/ publish_catalogue(p) \/ LookForOutput(p) \/ ReadFile(p) \/ Judge(p) \/ Crash(p)
    BY <1>2 DEF Step, Fails, MakeStaging, WriteFile, LookAgain, MoveAside, Swap, Rollback,
                DropBackup, Cleanup, MakeFails, WriteFails, MoveFails, SwapFails, RollbackFails,
                DropFails, CleanupFails, At
  <1>4. output' = output
    BY <1>3 DEF publish_catalogue, LookForOutput, ReadFile, Judge, Crash, trees
  <1>5. \A q \in Publishers \ {p} : pc'[q] = pc[q] /\ actual'[q] = actual[q]
    BY <1>3 DEF publish_catalogue, LookForOutput, ReadFile, Judge, Crash, Goto, Fault, TypeOK
  <1>6. /\ pc'[p] \in {"idle", "exists", "read", "judge", "refused", "crashed"}
        /\ pc'[p] \in {"idle", "exists"} => actual'[p] = <<>>
        /\ pc'[p] = "read" => Len(actual'[p]) < NFiles
        /\ pc'[p] = "judge" => actual'[p] # <<>>
        /\ \A i \in 1 .. Len(actual'[p]) : actual'[p][i] = Unrelated
    <2>1. CASE publish_catalogue(p) \/ Crash(p)
      <3>1. actual'[p] = actual[p] /\ \A i \in 1 .. Len(actual[p]) : actual[p][i] = Unrelated
        BY <2>1 DEF publish_catalogue, Crash, Refusing
      <3>2. \/ pc'[p] = "crashed"
            \/ pc'[p] = "exists" /\ actual[p] = <<>>
        BY <2>1 DEF publish_catalogue, Crash, At, Goto, Fault, TypeOK, Refusing
      <3> QED
        BY <3>1, <3>2
    <2>2. CASE LookForOutput(p)
      <3>1. pc'[p] = "read" /\ actual'[p] = <<>>
        BY <2>2, <1>1 DEF LookForOutput, At, Goto, TypeOK, Refusing, exists
      <3> QED
        BY <3>1, NFilesAssumption
    <2>3. CASE ReadFile(p)
      <3> DEFINE read == actual[p]
      <3>1. /\ read \in Seq(Publications \cup {Unrelated}) /\ Len(read) \in Nat
            /\ Len(read) < NFiles /\ \A i \in 1 .. Len(read) : read[i] = Unrelated
        BY <2>3 DEF ReadFile, At, TypeOK, Refusing
      <3>2. /\ actual'[p] = Append(read, Unrelated)
            /\ pc'[p] = IF Len(read) + 1 = NFiles THEN "judge" ELSE "read"
        BY <2>3, <1>1, <3>1, NFilesAssumption DEF ReadFile, Goto, TypeOK, exists
      <3>3. /\ Len(actual'[p]) = Len(read) + 1
            /\ \A i \in 1 .. Len(read) + 1 : actual'[p][i] = Unrelated
        BY <3>1, <3>2
      <3>4. actual'[p] # <<>>
        BY <3>1, <3>3
      <3> QED
        BY <3>1, <3>2, <3>3, <3>4, NFilesAssumption
    <2>4. CASE Judge(p)
      <3>1. actual'[p] = actual[p] /\ actual[p] \in Seq(Publications \cup {Unrelated})
        BY <2>4 DEF Judge, TypeOK
      <3>2. pc[p] = "judge" /\ actual[p] # <<>>
        BY <2>4 DEF Judge, At, Refusing
      <3>3. 1 \in DOMAIN actual[p] /\ actual[p][1] = Unrelated
        BY <3>1, <3>2 DEF Refusing
      <3>4. ~Matches(p) /\ ~validate_publication(actual[p])
        BY <3>3, PublicationsAssumption DEF Matches, validate_publication, TypeOK
      <3>5. pc'[p] = "refused"
        BY <2>4, <3>4 DEF Judge, Goto, TypeOK
      <3> QED
        BY <3>1, <3>5 DEF Refusing
    <2> QED
      BY <1>3, <2>1, <2>2, <2>3, <2>4
  <1> QED
    BY <1>4, <1>5, <1>6 DEF Refusing

\* No call makes such content.
LEMMA PublicationsStep ==
    ASSUME TypeOK, StagingByPlace, OnlyPublications, NEW p \in Publishers, Step(p) \/ Fails(p)
    PROVE  OnlyPublications'
  <1> USE DEF TypeOK, OnlyPublications, trees
  <1>1. \A t \in Tree \cup {Nothing} : ~Foreigner(t) /\ t # Nothing => ~Foreigner(Removed(t))
    BY DEF Foreigner, Removed, Tree
  <1>2. CASE MakeStaging(p)
    <2>1. staging'[p].of # Unrelated
      BY <1>2, PublicationsAssumption DEF MakeStaging
    <2> QED
      BY <1>2, <2>1 DEF MakeStaging, Foreigner
  <1>3. CASE WriteFile(p)
    <2>1. staging[p] \in Tree /\ staging[p].of # Unrelated
      BY <1>3 DEF WriteFile, At, StagingByPlace, Foreigner
    <2>2. staging'[p].of = staging[p].of
      BY <1>3, <2>1 DEF WriteFile, Tree
    <2> QED
      BY <1>3, <2>1, <2>2 DEF WriteFile, Foreigner
  <1>4. CASE DropBackup(p) \/ Cleanup(p)
    BY <1>1, <1>4 DEF DropBackup, Cleanup, exists
  <1>5. CASE MoveAside(p) \/ Swap(p) \/ Rollback(p)
    BY <1>5 DEF MoveAside, Swap, Rollback, Foreigner
  <1>6. CASE UNCHANGED trees
    BY <1>6
  <1> QED
    BY <1>2, <1>3, <1>4, <1>5, <1>6
       DEF Step, Fails, publish_catalogue, LookForOutput, ReadFile, Judge, LookAgain,
           MakeFails, WriteFails, MoveFails, SwapFails, RollbackFails, DropFails, CleanupFails,
           Crash

LEMMA RefusedStep ==
    ASSUME IInv, RefusedInv, [Next]_vars
    PROVE  RefusedInv'
  <1> SUFFICES ASSUME foreign' = 0
               PROVE  Refusing' \/ OnlyPublications'
    BY DEF RefusedInv
  <1>1. ASSUME NEW p \in Publishers, Step(p) \/ Fails(p)
        PROVE  Refusing' \/ OnlyPublications'
    <2>1. foreign = 0
      BY <1>1, OthersStay DEF IInv
    <2> QED
      BY <1>1, <2>1, RefusingStep, PublicationsStep DEF RefusedInv, IInv
  <1>2. CASE ForeignOutput
    BY <1>2, FaultsAssumption DEF ForeignOutput, IInv, TypeOK
  <1>3. CASE UNCHANGED vars
    BY <1>3 DEF vars, RefusedInv, Refusing, OnlyPublications
  <1> QED
    BY <1>1, <1>2, <1>3 DEF Next

\* One step leaves refused content where it is.
Refuses == (foreign' = 0 /\ output = Whole(Unrelated)) => output' = output

LEMMA RefusedIsLeft ==
    ASSUME IInv, RefusedInv, RefusedInv', [Next]_vars
    PROVE  [Refuses]_vars
  <1> SUFFICES ASSUME foreign' = 0, output = Whole(Unrelated), Next
               PROVE  output' = output
    BY DEF Refuses
  <1>1. CASE ForeignOutput
    BY <1>1, FaultsAssumption DEF ForeignOutput, IInv, TypeOK
  <1>2. ASSUME NEW p \in Publishers, Step(p) \/ Fails(p)
        PROVE  output' = output
    <2>1. Foreigner(output)
      BY Trees, NFilesAssumption DEF Whole, Foreigner
    <2>2. foreign = 0
      BY <1>2, OthersStay DEF IInv
    <2>3. Refusing
      BY <2>1, <2>2 DEF RefusedInv, OnlyPublications
    <2>4. Refusing'
      BY <1>2, <2>3, RefusingStep DEF IInv
    <2> QED
      BY <2>3, <2>4 DEF Refusing
  <1> QED
    BY <1>1, <1>2 DEF Next

\* As long as nobody else has put anything at the path, content there that is
\* no publication (validate_publication raises) is left alone by every call.
THEOREM RefusedStays == Spec => RefusedIsKept
  <1>1. Init => RefusedInv
    <2> SUFFICES ASSUME Init, output # Whole(Unrelated)
                 PROVE  OnlyPublications
      BY DEF Init, RefusedInv, Refusing
    <2>1. ~Foreigner(output)
      BY PublicationsAssumption DEF Init, Published, Whole, Foreigner
    <2> QED
      BY <2>1 DEF Init, OnlyPublications, Foreigner
  <1>2. IInv /\ RefusedInv /\ [Next]_vars => RefusedInv'
    BY RefusedStep
  <1>3. IInv /\ RefusedInv /\ RefusedInv' /\ [Next]_vars => [Refuses]_vars
    BY RefusedIsLeft
  <1> QED
    BY <1>1, <1>2, <1>3, Invariant, PTL DEF Spec, RefusedIsKept, Refuses
-----------------------------------------------------------------------------
(* When the promises of publish_catalogue that some behaviours break hold.   *)

\* Nothing that is no publication is renamed aside, so nothing of that kind is
\* removed.
UnrelatedIsNotMoved == foreign = 0 => \A p \in Publishers : ~Foreigner(backup[p])

LEMMA UnrelatedStep ==
    ASSUME IInv, RefusedInv, UnrelatedIsNotMoved, [Next]_vars
    PROVE  UnrelatedIsNotMoved'
  <1> SUFFICES ASSUME foreign' = 0, NEW q \in Publishers
               PROVE  ~Foreigner(backup'[q])
    BY DEF UnrelatedIsNotMoved, Foreigner
  <1>1. ASSUME NEW p \in Publishers, Step(p) \/ Fails(p)
        PROVE  ~Foreigner(backup'[q])
    <2>1. foreign = 0
      BY <1>1, OthersStay DEF IInv
    <2>2. CASE Refusing
      <3>1. pc[p] \in {"idle", "exists", "read", "judge", "refused", "crashed"}
        BY <2>2 DEF Refusing
      <3>2. UNCHANGED trees
        BY <1>1, <3>1
           DEF Step, Fails, publish_catalogue, LookForOutput, ReadFile, Judge, MakeStaging,
               WriteFile, LookAgain, MoveAside, Swap, Rollback, DropBackup, Cleanup, WriteFails,
               MakeFails, MoveFails, SwapFails, RollbackFails, DropFails, CleanupFails, Crash, At
      <3> QED
        BY <2>1, <3>2 DEF trees, UnrelatedIsNotMoved
    <2>3. CASE OnlyPublications
      <3>1. OnlyPublications'
        BY <1>1, <2>3, PublicationsStep DEF IInv
      <3> QED
        BY <3>1 DEF OnlyPublications, Foreigner
    <2> QED
      BY <2>1, <2>2, <2>3 DEF RefusedInv
  <1>2. CASE ForeignOutput
    BY <1>2, FaultsAssumption DEF ForeignOutput, IInv, TypeOK
  <1>3. CASE UNCHANGED vars
    BY <1>3 DEF vars, UnrelatedIsNotMoved
  <1> QED
    BY <1>1, <1>2, <1>3 DEF Next

\* "unrelated output is never erased" holds as long as no other program puts
\* anything at the path: it takes content that appears there after a call has
\* read the path, and before its output.rename(backup), to have it removed.
THEOREM UnrelatedIsSafe == Spec => []UnrelatedIsNotMoved
  <1>1. Init => RefusedInv /\ UnrelatedIsNotMoved
    <2> SUFFICES ASSUME Init
                 PROVE  RefusedInv /\ UnrelatedIsNotMoved
      OBVIOUS
    <2>1. output # Whole(Unrelated) => OnlyPublications
      BY PublicationsAssumption
         DEF Init, OnlyPublications, Published, Whole, Foreigner
    <2>2. output = Whole(Unrelated) => Refusing
      BY DEF Init, Refusing
    <2> QED
      BY <2>1, <2>2 DEF Init, RefusedInv, UnrelatedIsNotMoved, Foreigner
  <1>2. IInv /\ RefusedInv /\ [Next]_vars => RefusedInv'
    BY RefusedStep
  <1>3. IInv /\ RefusedInv /\ UnrelatedIsNotMoved /\ [Next]_vars => UnrelatedIsNotMoved'
    BY UnrelatedStep
  <1> QED
    BY <1>1, <1>2, <1>3, Invariant, PTL DEF Spec

\* The places of a call that has put something at the path, or never will.
PastPut == {"drop", "published", "untidy", "cleanup", "failed", "stranded", "littered", "crashed"}

\* What is at the path is what was put there last; and what a call between its
\* renames holds is that too, or the path is taken and nobody is left to
\* empty it.
LatestInv ==
    /\ exists(output) => output = shown
    /\ foreign = 0 =>
         \A p \in Publishers :
            pc[p] \in {"swap", "rollback"} /\ exists(backup[p]) =>
               \/ backup[p] = shown
               \/ exists(output) /\ \A q \in Publishers \ {p} : pc[q] \in PastPut

\* A rollback puts back what was at the path last, never an older directory
\* over a newer one.
RollbackIsLatest ==
    [][\A p \in Publishers :
          foreign' = 0 /\ Rollback(p) => output' \in {output, shown}]_vars

\* Between its renames a call keeps its backup, and it leaves that place for
\* good; past it, a call takes nothing from the path.
LEMMA PlaceSteps ==
    ASSUME TypeOK, StagingByPlace, NEW p \in Publishers, Step(p) \/ Fails(p)
    PROVE  /\ pc[p] \in PastPut => pc'[p] \in PastPut
           /\ pc[p] \in {"swap", "rollback"} =>
                pc'[p] \in {"swap", "rollback"} \cup PastPut
           /\ pc'[p] \in {"swap", "rollback"} =>
                \/ pc[p] \in {"swap", "rollback"} /\ backup'[p] = backup[p]
                \/ pc[p] = "look" /\ backup'[p] = backup[p]
                \/ MoveAside(p) /\ exists(output)
           /\ \/ output' = output /\ shown' = shown
              \/ output' = shown' /\ exists(output') /\ pc'[p] \in PastPut
              \/ pc[p] = "aside" /\ output' = Nothing /\ shown' = shown
  <1> USE DEF TypeOK, PastPut, At, Goto, Fault, trees, call, exists
  <1>1. CASE Swap(p)
    <2>1. CASE exists(output)
      BY <1>1, <2>1 DEF Swap
    <2>2. CASE ~exists(output)
      <3>1. pc[p] = "swap" /\ pc'[p] = "drop" /\ output' = staging[p] /\ shown' = staging[p]
        BY <1>1, <2>2 DEF Swap
      <3>2. staging[p] # Nothing
        BY <3>1 DEF StagingByPlace
      <3> QED
        BY <3>1, <3>2
    <2> QED
      BY <2>1, <2>2
  <1>2. CASE Step(p) /\ ~Swap(p)
    BY <1>2 DEF Step, publish_catalogue, LookForOutput, ReadFile, Judge, MakeStaging, WriteFile,
                LookAgain, MoveAside, Rollback, DropBackup, Cleanup
  <1>3. CASE Fails(p)
    BY <1>3 DEF Fails, MakeFails, WriteFails, MoveFails, SwapFails, RollbackFails, DropFails,
                CleanupFails, Crash, Running
  <1> QED
    BY <1>1, <1>2, <1>3

LEMMA LatestStep ==
    ASSUME NEW a, NEW b, Publishers \subseteq {a, b},
           IInv, LatestInv, [Next]_vars
    PROVE  LatestInv'
  <1>1. ASSUME NEW p \in Publishers, Step(p) \/ Fails(p)
        PROVE  LatestInv'
    <2>1. TypeOK /\ StagingByPlace /\ BackupByPlace
      BY DEF IInv
    <2>2. exists(output') => output' = shown'
      BY <1>1, <2>1, PlaceSteps DEF LatestInv, exists
    <2>3. ASSUME foreign' = 0, NEW q \in Publishers, pc'[q] \in {"swap", "rollback"},
                 exists(backup'[q])
          PROVE  \/ backup'[q] = shown'
                 \/ exists(output') /\ \A r \in Publishers \ {q} : pc'[r] \in PastPut
      <3>1. foreign = 0
        BY <1>1, <2>1, <2>3, OthersStay
      <3>2. CASE q = p
        <4>1. \A r \in Publishers \ {p} : pc'[r] = pc[r]
          BY <1>1, <2>1, OthersStay
        <4>2. pc[p] \notin {"look"} \/ backup'[p] # backup[p]
          BY <2>1, <2>3, <3>2 DEF BackupByPlace, exists
        <4>3. CASE MoveAside(p) /\ exists(output)
          BY <2>1, <3>2, <4>3 DEF LatestInv, MoveAside, TypeOK
        <4>4. CASE pc[p] \in {"swap", "rollback"} /\ backup'[p] = backup[p]
          <5>1. \/ backup[p] = shown
                \/ exists(output) /\ \A r \in Publishers \ {p} : pc[r] \in PastPut
            BY <2>3, <3>1, <3>2, <4>4 DEF LatestInv
          <5>2. output' = output /\ shown' = shown
            BY <1>1, <2>1, <2>3, <3>2, <4>4, PlaceSteps DEF PastPut
          <5> QED
            BY <3>2, <4>1, <4>4, <5>1, <5>2
        <4> QED
          BY <1>1, <2>1, <2>3, <3>2, <4>2, <4>3, <4>4, PlaceSteps
      <3>3. CASE q # p
        <4>1. pc'[q] = pc[q] /\ backup'[q] = backup[q]
          BY <1>1, <2>1, <3>3, OthersStay
        <4>2. \/ backup[q] = shown
              \/ exists(output) /\ pc[p] \in PastPut
          BY <2>3, <3>1, <3>3, <4>1 DEF LatestInv
        <4>3. \A r \in Publishers \ {q} : r = p
          BY <3>3
        <4>4. CASE output' = output /\ shown' = shown
          BY <1>1, <2>1, <4>1, <4>2, <4>3, <4>4, PlaceSteps
        <4>5. CASE output' = shown' /\ exists(output') /\ pc'[p] \in PastPut
          BY <4>3, <4>5
        <4>6. CASE pc[p] = "aside" /\ output' = Nothing /\ shown' = shown
          BY <4>1, <4>2, <4>6 DEF PastPut
        <4> QED
          BY <1>1, <2>1, <4>4, <4>5, <4>6, PlaceSteps
      <3> QED
        BY <3>2, <3>3
    <2> QED
      BY <2>2, <2>3 DEF LatestInv, exists
  <1>2. CASE ForeignOutput
    <2>1. foreign' # 0
      BY <1>2, FaultsAssumption DEF ForeignOutput, IInv, TypeOK
    <2>2. output' = shown'
      BY <1>2 DEF ForeignOutput
    <2> QED
      BY <2>1, <2>2 DEF LatestInv
  <1>3. CASE UNCHANGED vars
    BY <1>3 DEF vars, LatestInv, exists
  <1> QED
    BY <1>1, <1>2, <1>3 DEF Next

\* With two publishers, and no other program at the path, a rollback (the
\* except clause around staging.rename(output)) puts back what was there last,
\* however the calls interleave, fail or are killed: it takes three calls for
\* an older publication to come back over a newer one.
THEOREM TwoRollBackRightly ==
    ASSUME NEW a, NEW b, Publishers \subseteq {a, b}
    PROVE  Spec => RollbackIsLatest
  <1> DEFINE Right == \A p \in Publishers :
                        foreign' = 0 /\ Rollback(p) => output' \in {output, shown}
  <1>1. Init => LatestInv
    BY DEF Init, LatestInv
  <1>2. IInv /\ LatestInv /\ [Next]_vars => LatestInv'
    BY LatestStep
  <1>3. LatestInv /\ [Next]_vars => [Right]_vars
    <2> SUFFICES ASSUME LatestInv, NEW p \in Publishers, foreign' = 0, Rollback(p)
                 PROVE  output' \in {output, shown}
      OBVIOUS
    <2>1. foreign = 0 /\ pc[p] = "rollback"
      BY DEF Rollback, At
    <2>2. CASE exists(backup[p]) /\ ~exists(output)
      BY <2>1, <2>2 DEF LatestInv, Rollback
    <2>3. CASE ~(exists(backup[p]) /\ ~exists(output))
      BY <2>3 DEF Rollback
    <2> QED
      BY <2>2, <2>3
  <1> QED
    BY <1>1, <1>2, <1>3, Invariant, PTL DEF Spec, RollbackIsLatest
=============================================================================
