---------------------------- MODULE MCRunnerLink ----------------------------
(* Values for the constants of RunnerLink that a .cfg cannot write.        *)
EXTENDS RunnerLink, TLC

CONSTANTS good, broken, stuck

MCKind == (good :> "good") @@ (broken :> "broken") @@ (stuck :> "stuck")
=============================================================================
