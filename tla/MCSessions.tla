----------------------------- MODULE MCSessions -----------------------------
(***************************************************************************)
(* A small instance of Sessions for TLC: an administrator and an accountant. *)
(***************************************************************************)
EXTENDS Sessions, TLC

CONSTANTS ann, bob

MCFirstRoles == ann :> "admin" @@ bob :> "accountant"
=============================================================================
