------------------------ MODULE MCPipelineValidation ------------------------
(* PipelineValidation for TLC, with four command lines: one that installs    *)
(* and tests, one with the repository's history, one that asks for           *)
(* heartbeats, and the documented one, which allows assets to be missing.    *)
EXTENDS PipelineValidation

Plain == [git |-> FALSE, install |-> FALSE, pytest |-> FALSE, heartbeats |-> FALSE,
          allow_missing_assets |-> FALSE, allow_synthetic_fallback |-> FALSE]
Tested == [Plain EXCEPT !.install = TRUE, !.pytest = TRUE]
InGit == [Plain EXCEPT !.git = TRUE]
Beating == [Plain EXCEPT !.heartbeats = TRUE]
Documented == [Plain EXCEPT !.allow_missing_assets = TRUE, !.allow_synthetic_fallback = TRUE]
FourArguments == {Tested, InGit, Beating, Documented}
=============================================================================
