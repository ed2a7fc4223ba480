------------------------- MODULE CataloguePublish -------------------------
(* publish_catalogue of mathgraph/source_catalogue_publisher_v1.py: several  *)
(* publisher processes, each making one call, replace or check the directory *)
(* at one output path. A call reads what is at the path, writes its files to *)
(* a fresh staging directory beside it, renames the old directory aside,     *)
(* renames the staging directory into place, and removes the old one; any    *)
(* step may fail, and a process may be killed between any two steps.         *)
EXTENDS Naturals, Sequences

CONSTANTS
    Publishers,     \* processes; each makes one call
    Publications,   \* valid publications
    Unrelated,      \* content that is not a publication
    NFiles,         \* files of a publication, written in path order
    Nothing,        \* the absent directory
    MaxFaults,      \* bound on system calls that fail
    MaxForeign      \* bound on directories others put at the output path

ASSUME PublicationsAssumption == Unrelated \notin Publications
ASSUME NFilesAssumption == NFiles \in Nat \ {0}
ASSUME FaultsAssumption == MaxFaults \in Nat /\ MaxForeign \in Nat

VARIABLES
    output,    \* the directory at the output path
    staging,   \* the staging directory of each publisher
    backup,    \* the directory each publisher renamed aside
    pc,        \* where each publisher's call stands, or how it ended
    want,      \* the publication each call was given
    check,     \* whether the call only checks
    actual,    \* what the call has read so far, file by file
    shown,     \* history: the directory last put at the output path
    faults,    \* system calls that have failed
    foreign    \* directories others have put at the output path

vars == <<output, staging, backup, pc, want, check, actual, shown, faults, foreign>>
trees == <<output, staging, backup, shown>>
call == <<want, check>>

\* A directory: whose content it holds, and how many of its files.
Tree == [of: Publications \cup {Unrelated}, n: 0 .. NFiles]
Whole(c) == [of |-> c, n |-> NFiles]
ASSUME NothingAssumption == Nothing \notin Tree

exists(t) == t # Nothing
Published == {Whole(c) : c \in Publications}

Running == {"exists", "read", "judge", "mkdtemp", "write", "look", "aside", "swap",
            "rollback", "drop", "cleanup"}
Ended == {"idle", "published", "matches", "refused", "failed", "stranded", "untidy",
          "littered", "crashed"}

Init ==
    /\ output \in {Nothing, Whole(Unrelated)} \cup Published
    /\ shown = output
    /\ staging = [p \in Publishers |-> Nothing]
    /\ backup = [p \in Publishers |-> Nothing]
    /\ pc = [p \in Publishers |-> "idle"]
    /\ want \in [Publishers -> Publications]
    /\ check \in [Publishers -> BOOLEAN]
    /\ actual = [p \in Publishers |-> <<>>]
    /\ faults = 0 /\ foreign = 0

Goto(p, l) == pc' = [pc EXCEPT ![p] = l]
At(p, l) == pc[p] = l
\* A system call of p fails, and control goes to l.
Fault(p, l) == faults < MaxFaults /\ faults' = faults + 1 /\ Goto(p, l)

-----------------------------------------------------------------------------
(* Before anything is written.                                               *)

publish_catalogue(p) ==
    /\ At(p, "idle") /\ Goto(p, "exists")
    /\ UNCHANGED <<trees, call, actual, faults, foreign>>

\* if output.exists(): ... else: require(not check, "publication missing")
LookForOutput(p) ==
    /\ At(p, "exists")
    /\ Goto(p, IF exists(output) THEN "read" ELSE IF check[p] THEN "refused" ELSE "mkdtemp")
    /\ UNCHANGED <<trees, call, actual, faults, foreign>>

\* One file of the directory that is at the path now; a file that has gone
\* since is an error or is left out, and is refused either way.
ReadFile(p) ==
    /\ At(p, "read")
    /\ LET i == Len(actual[p]) + 1
       IN  IF exists(output) /\ i <= output.n
           THEN /\ actual' = [actual EXCEPT ![p] = Append(@, output.of)]
                /\ Goto(p, IF i = NFiles THEN "judge" ELSE "read")
           ELSE Goto(p, "refused") /\ UNCHANGED actual
    /\ UNCHANGED <<trees, call, faults, foreign>>

\* validate_publication: every file is the one the manifest names.
validate_publication(read) ==
    \E c \in Publications : \A i \in DOMAIN read : read[i] = c

Matches(p) == \A i \in DOMAIN actual[p] : actual[p][i] = want[p]

\* Mutant: what is there is not validated.
Judge_Unvalidated(p) ==
    /\ At(p, "judge")
    /\ Goto(p, IF check[p] THEN IF Matches(p) THEN "matches" ELSE "refused" ELSE "mkdtemp")
    /\ UNCHANGED <<trees, call, actual, faults, foreign>>

Judge(p) ==
    /\ At(p, "judge")
    /\ Goto(p, IF check[p] THEN IF Matches(p) THEN "matches" ELSE "refused"
               ELSE IF validate_publication(actual[p]) THEN "mkdtemp" ELSE "refused")
    /\ UNCHANGED <<trees, call, actual, faults, foreign>>

-----------------------------------------------------------------------------
(* The staging directory.                                                    *)

MakeStaging(p) ==
    /\ At(p, "mkdtemp")
    /\ staging' = [staging EXCEPT ![p] = [of |-> want[p], n |-> 0]]
    /\ Goto(p, "write")
    /\ UNCHANGED <<output, backup, shown, call, actual, faults, foreign>>

\* The parent directory or the staging directory cannot be made.
MakeFails(p) ==
    /\ At(p, "mkdtemp") /\ Fault(p, "failed")
    /\ UNCHANGED <<trees, call, actual, foreign>>

\* Mutant: the last file is not written.
WriteFile_Early(p) ==
    /\ At(p, "write")
    /\ staging' = [staging EXCEPT ![p].n = @ + 1]
    /\ Goto(p, IF staging'[p].n + 1 >= NFiles THEN "look" ELSE "write")
    /\ UNCHANGED <<output, backup, shown, call, actual, faults, foreign>>

WriteFile(p) ==
    /\ At(p, "write")
    /\ staging' = [staging EXCEPT ![p].n = @ + 1]
    /\ Goto(p, IF staging'[p].n = NFiles THEN "look" ELSE "write")
    /\ UNCHANGED <<output, backup, shown, call, actual, faults, foreign>>

WriteFails(p) ==
    /\ At(p, "write") /\ Fault(p, "cleanup")
    /\ UNCHANGED <<trees, call, actual, foreign>>

-----------------------------------------------------------------------------
(* The two renames, the rollback and the removal.                            *)

\* Mutant: the old directory is removed instead of renamed aside.
LookAgain_DropsOutput(p) ==
    /\ At(p, "look") /\ Goto(p, "swap") /\ output' = Nothing
    /\ UNCHANGED <<staging, backup, shown, call, actual, faults, foreign>>

\* if output.exists(): the path is looked at again, not what was read there.
LookAgain(p) ==
    /\ At(p, "look") /\ Goto(p, IF exists(output) THEN "aside" ELSE "swap")
    /\ UNCHANGED <<trees, call, actual, faults, foreign>>

\* output.rename(backup); nothing is at the path until the next rename.
MoveAside(p) ==
    /\ At(p, "aside")
    /\ IF exists(output)
       THEN /\ backup' = [backup EXCEPT ![p] = output]
            /\ output' = Nothing
            /\ Goto(p, "swap")
       ELSE Goto(p, "cleanup") /\ UNCHANGED <<output, backup>>
    /\ UNCHANGED <<staging, shown, call, actual, faults, foreign>>

MoveFails(p) ==
    /\ At(p, "aside") /\ Fault(p, "cleanup")
    /\ UNCHANGED <<trees, call, actual, foreign>>

\* staging.rename(output): a rename onto a directory with files in it fails.
Swap(p) ==
    /\ At(p, "swap")
    /\ IF exists(output)
       THEN Goto(p, "rollback") /\ UNCHANGED <<output, staging, shown>>
       ELSE /\ output' = staging[p] /\ shown' = staging[p]
            /\ staging' = [staging EXCEPT ![p] = Nothing]
            /\ Goto(p, "drop")
    /\ UNCHANGED <<backup, call, actual, faults, foreign>>

SwapFails(p) ==
    /\ At(p, "swap") /\ Fault(p, "rollback")
    /\ UNCHANGED <<trees, call, actual, foreign>>

\* Mutant: a failed swap is not rolled back.
Rollback_Skipped(p) ==
    /\ At(p, "rollback") /\ Goto(p, "cleanup")
    /\ UNCHANGED <<trees, call, actual, faults, foreign>>

\* except OSError: if backup.exists(): backup.rename(output); raise
Rollback(p) ==
    /\ At(p, "rollback")
    /\ IF exists(backup[p]) /\ ~exists(output)
       THEN /\ output' = backup[p] /\ shown' = backup[p]
            /\ backup' = [backup EXCEPT ![p] = Nothing]
       ELSE UNCHANGED <<output, shown, backup>>
    /\ Goto(p, "cleanup")
    /\ UNCHANGED <<staging, call, actual, faults, foreign>>

RollbackFails(p) ==
    /\ At(p, "rollback") /\ exists(backup[p]) /\ Fault(p, "cleanup")
    /\ UNCHANGED <<trees, call, actual, foreign>>

\* Mutant: the empty directory is not removed.
Removed_KeepsDirectory(t) == [t EXCEPT !.n = @ - 1]

\* shutil.rmtree removes the files one by one and the directory last.
Removed(t) == IF t.n = 0 THEN Nothing ELSE [t EXCEPT !.n = @ - 1]

DropBackup(p) ==
    /\ At(p, "drop")
    /\ IF exists(backup[p])
       THEN backup' = [backup EXCEPT ![p] = Removed(@)] /\ UNCHANGED pc
       ELSE Goto(p, "published") /\ UNCHANGED backup
    /\ UNCHANGED <<output, staging, shown, call, actual, faults, foreign>>

\* The call raises although its publication is in place.
DropFails(p) ==
    /\ At(p, "drop") /\ exists(backup[p]) /\ Fault(p, "untidy")
    /\ UNCHANGED <<trees, call, actual, foreign>>

\* Mutant: the staging directory is left behind.
Cleanup_Skipped(p) ==
    /\ At(p, "cleanup")
    /\ Goto(p, IF exists(backup[p]) THEN "stranded" ELSE "failed")
    /\ UNCHANGED <<trees, call, actual, faults, foreign>>

\* finally: if staging.exists(): shutil.rmtree(staging). The call then raises;
\* "stranded" is that same end with the old directory left in the backup.
Cleanup(p) ==
    /\ At(p, "cleanup")
    /\ IF exists(staging[p])
       THEN staging' = [staging EXCEPT ![p] = Removed(@)] /\ UNCHANGED pc
       ELSE /\ Goto(p, IF exists(backup[p]) THEN "stranded" ELSE "failed")
            /\ UNCHANGED staging
    /\ UNCHANGED <<output, backup, shown, call, actual, faults, foreign>>

\* The removal fails, and part of the staging directory is left: the call raises
\* "littered", whether or not the old directory is in the backup.
CleanupFails(p) ==
    /\ At(p, "cleanup") /\ exists(staging[p]) /\ Fault(p, "littered")
    /\ UNCHANGED <<trees, call, actual, foreign>>

-----------------------------------------------------------------------------
(* The environment.                                                          *)

Crash(p) ==
    /\ pc[p] \in Running /\ Fault(p, "crashed")
    /\ UNCHANGED <<trees, call, actual, foreign>>

\* Another program makes a directory at the free output path.
ForeignOutput ==
    /\ foreign < MaxForeign /\ ~exists(output)
    /\ output' = Whole(Unrelated) /\ shown' = output' /\ foreign' = foreign + 1
    /\ UNCHANGED <<staging, backup, pc, call, actual, faults>>

Step(p) ==
    \/ publish_catalogue(p) \/ LookForOutput(p) \/ ReadFile(p) \/ Judge(p)
    \/ MakeStaging(p) \/ WriteFile(p) \/ LookAgain(p) \/ MoveAside(p) \/ Swap(p)
    \/ Rollback(p) \/ DropBackup(p) \/ Cleanup(p)

Fails(p) ==
    \/ MakeFails(p) \/ WriteFails(p) \/ MoveFails(p) \/ SwapFails(p) \/ RollbackFails(p)
    \/ DropFails(p) \/ CleanupFails(p) \/ Crash(p)

Next == (\E p \in Publishers : Step(p) \/ Fails(p)) \/ ForeignOutput

Spec == Init /\ [][Next]_vars

-----------------------------------------------------------------------------
(* Properties.                                                               *)

\* Every variable stays in its domain.
TypeOK ==
    /\ output \in Tree \cup {Nothing} /\ shown \in Tree \cup {Nothing}
    /\ staging \in [Publishers -> Tree \cup {Nothing}]
    /\ backup \in [Publishers -> Tree \cup {Nothing}]
    /\ pc \in [Publishers -> Running \cup Ended]
    /\ want \in [Publishers -> Publications] /\ check \in [Publishers -> BOOLEAN]
    /\ actual \in [Publishers -> Seq(Publications \cup {Unrelated})]
    /\ faults \in 0 .. MaxFaults /\ foreign \in 0 .. MaxForeign

\* Whatever fails, and whoever races, a reader of the output path never finds
\* part of a publication there: the staging directory is complete when it is
\* renamed, and no file is removed from the output.
OutputIsWhole == exists(output) => output.n = NFiles

\* What was last put at the output path is there, or whole in the backup of a
\* publisher that has not replaced it: no crash, failed rename or race of two
\* publishers destroys the last publication before the next is in place.
ShownSurvives ==
    exists(shown) =>
        \/ output = shown
        \/ \E p \in Publishers :
              /\ backup[p] = shown
              /\ pc[p] \in {"swap", "rollback", "cleanup", "stranded", "littered", "crashed"}

\* When every call has ended, none was killed and at most one system call
\* failed, what was last put at the output path is at the output path: the
\* rollback makes good a failed swap, and publishers that race leave the path
\* occupied.
EndedIsRestored ==
    (faults <= 1 /\ \A p \in Publishers : pc[p] \in Ended \ {"crashed"}) => output = shown

\* A call that ended by itself, and whose removals did not fail, leaves nothing
\* beside the output, except the old directory when that could not be put back.
\* A call that did not publish never leaves the old directory in parts, not even
\* when the removal of its staging directory fails.
EndedIsTidy ==
    \A p \in Publishers :
        /\ pc[p] \in Ended \ {"crashed", "littered"} => ~exists(staging[p])
        /\ pc[p] \in Ended \ {"crashed", "stranded", "untidy", "littered"} => ~exists(backup[p])
        /\ pc[p] \in {"stranded", "littered"} => ~exists(backup[p]) \/ backup[p].n = NFiles

\* A call with check=True creates, moves and removes nothing, whatever it finds.
CheckWritesNothing ==
    \A p \in Publishers : check[p] => ~exists(staging[p]) /\ ~exists(backup[p])

\* "unrelated output is never erased": a directory that is no publication is
\* never removed from a backup, it stays or goes back to the output path.
UnrelatedIsKept ==
    [][\A p \in Publishers :
          backup[p] = Whole(Unrelated) => backup'[p] = backup[p] \/ output' = backup[p]]_vars

\* As long as no other program has put anything at the path, content there that
\* is no publication is refused by every call, and stays.
RefusedIsKept ==
    [][(foreign' = 0 /\ output = Whole(Unrelated)) => output' = output]_vars

-----------------------------------------------------------------------------
(* The inductive invariant of CataloguePublishProofs.                        *)

\* What a staging directory holds, by the place of its publisher.
StagingByPlace ==
    \A p \in Publishers :
        /\ pc[p] \in {"idle", "exists", "read", "judge", "mkdtemp", "drop", "published",
                      "matches", "refused", "failed", "stranded", "untidy"}
             => staging[p] = Nothing
        /\ pc[p] = "write" => staging[p] # Nothing /\ staging[p].n < NFiles
        /\ pc[p] \in {"look", "aside", "swap"} => staging[p] # Nothing /\ staging[p].n = NFiles

\* What a backup holds, by the place of its publisher.
BackupByPlace ==
    \A p \in Publishers :
        /\ pc[p] \in {"idle", "exists", "read", "judge", "mkdtemp", "write", "look", "aside",
                      "published", "matches", "refused", "failed"}
             => backup[p] = Nothing
        /\ pc[p] \in {"swap", "rollback", "cleanup", "stranded", "littered"} =>
              backup[p] = Nothing \/ backup[p].n = NFiles

\* A call that checks never gets past its judgement.
CheckStops ==
    \A p \in Publishers : check[p] =>
        pc[p] \in {"idle", "exists", "read", "judge", "matches", "refused", "crashed"}

IInv ==
    /\ TypeOK /\ OutputIsWhole /\ ShownSurvives
    /\ StagingByPlace /\ BackupByPlace /\ CheckStops /\ CheckWritesNothing
=============================================================================
