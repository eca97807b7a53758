----------------------------- MODULE MCFirewall -----------------------------
(* Small instances of Firewall.  good is a rule the user wants, rogue and    *)
(* moved are not; moved belongs to another program.                          *)
EXTENDS Firewall, TLC

CONSTANTS good, rogue, moved, app, other

MCProg == good :> app @@ rogue :> app @@ moved :> other

Plain == [GuardFwRules |-> FALSE, FwAutoApproveRecreate |-> TRUE,
          FwAutoApproveAllowRemoval |-> FALSE, DeleteRogueFwRules |-> FALSE,
          entry |-> [x \in Progs |-> "none"], template |-> [x \in Progs |-> "none"]]

Stored(g, on, s) == [guid |-> g, backup |-> FALSE, c |-> [k |-> good, on |-> on], state |-> s]

MCStarts == {{},
             {Stored(1, TRUE, "approved")},
             {Stored(1, TRUE, "approved"), Stored(2, FALSE, "unapproved")},
             {Stored(1, TRUE, "unapproved"), Stored(2, TRUE, "approved")}}

Guarded == [Plain EXCEPT !.GuardFwRules = TRUE]
Mixed ==
    {Plain, Guarded,
     [Guarded EXCEPT !.DeleteRogueFwRules = TRUE],
     [Guarded EXCEPT !.FwAutoApproveAllowRemoval = TRUE, !.template[other] = "block"],
     [Plain EXCEPT !.entry[app] = "reject", !.template[other] = "allow"]}
=============================================================================
