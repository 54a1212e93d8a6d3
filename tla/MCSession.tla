----------------------------- MODULE MCSession -----------------------------
(* Links with different scopes for the sessions. *)
EXTENDS Session, TLC

CONSTANTS phone, tablet, desk_link, phone_link

\* A link for an administrator's device and one for a device that prompts.
TwoGrants ==
    (desk_link :> {"observe", "administer_devices"}) @@ (phone_link :> {"observe", "prompt"})
=============================================================================
