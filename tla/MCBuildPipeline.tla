--------------------------- MODULE MCBuildPipeline ---------------------------
(* Instance for TLC: a platform with async targets only, then a mixed one with two packs. *)
EXTENDS BuildPipeline

CONSTANTS linux, x64, arm64, appImage, zip, squirrel, nsis

MCPlan == << [packs |-> <<linux>>, asyncTargets |-> {appImage}, syncTargets |-> <<>>],
             [packs |-> <<x64, arm64>>, asyncTargets |-> {zip},
                syncTargets |-> <<squirrel, nsis>>] >>
=============================================================================
