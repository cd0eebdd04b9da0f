------------------------------ MODULE Accounts ------------------------------
(***************************************************************************)
(* What Login and Sessions share: the accounts and the requests of the API *)
(* that may be in progress at once.                                        *)
(***************************************************************************)

CONSTANTS
  Users,     \* accounts
  Handlers   \* requests that may be in progress at once

(* No request.                                                              *)
Idle == [pc |-> "idle"]
=============================================================================
