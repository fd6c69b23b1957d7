----------------------------- MODULE MCUpgrade -----------------------------
(***************************************************************************)
(* Small instances of Upgrade.                                             *)
(***************************************************************************)
EXTENDS Upgrade

MCVersions == 1..3
TwoVersions == 1..2
Broken == {2}

=============================================================================
