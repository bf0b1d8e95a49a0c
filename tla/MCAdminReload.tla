---------------------------- MODULE MCAdminReload ----------------------------
(***************************************************************************)
(* Two admin handlers and one account.  Three requests: one to make        *)
(* and two to race, or two that race and a third that reloads alone.       *)
(* The handlers are alike.                                                 *)
(***************************************************************************)
EXTENDS AdminReload, TLC

HandlerSymmetry == Permutations(Handlers)
=============================================================================
