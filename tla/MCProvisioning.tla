--------------------------- MODULE MCProvisioning ---------------------------
(* Instances of Provisioning for TLC. *)
EXTENDS Provisioning

\* Two networks, each with its own password; a pair that mixes them joins
\* neither.
MCForms == {[ssid |-> "net1", pwd |-> "pwd1"], [ssid |-> "net2", pwd |-> "pwd2"]}

\* One network.
MCOneForm == {[ssid |-> "net1", pwd |-> "pwd1"]}
=============================================================================
