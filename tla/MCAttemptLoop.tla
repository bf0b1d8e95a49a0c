--------------------------- MODULE MCAttemptLoop ---------------------------
(***************************************************************************)
(* Three accounts, one more than the least number of attempts, and two     *)
(* retries on each: the first has an exact alias and a pattern, the second *)
(* is restricted to one model, the third takes all.                        *)
(***************************************************************************)
EXTENDS AttemptLoop, TLC

MCAliases == <<"opus" :> "gpt" @@ "*" :> "gpt-mini", <<>>, <<>>>>
MCAllowedModels == <<{"opus"}, {"haiku"}, {}>>
MCMaxConcurrent == <<2, 0, 1>>
============================================================================
