----------------------------- MODULE MCPresets -----------------------------
(* Small instances of Presets.  r1 is an access rule, t1 a firewall template  *)
(* with the derived rule d1.  Two presets want overlapping items.            *)
EXTENDS Presets, TLC

CONSTANTS r1, t1, d1, c1, c2

NoTemplate == <<>>
OneRule == r1 :> "rule"
RuleEdits == [{r1} -> {"enable"}]

RuleAndTemplate == r1 :> "rule" @@ t1 :> "fw"
MCTemplate == d1 :> t1
\* One preset wants both items, another wants the opposite of one of them.
MCEdits == {r1 :> "enable" @@ t1 :> "disable", r1 :> "disable" @@ t1 :> "skip"}

\* One client that makes every request but the two that only store or import.
EditAndSwitch == c1 :> OpNames \ {"SetPresets", "Commit"}

\* One client that never deletes a preset.
NoDeletion == c1 :> OpNames \ {"DelEntry"}

\* One client walks over the active presets while the other adds and removes some.
WalkAndErase == c1 :> {"DeactivateAll", "SetEntry"} @@ c2 :> {"Activate", "Force", "Deactivate"}
=============================================================================
