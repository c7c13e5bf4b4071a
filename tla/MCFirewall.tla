----------------------------- MODULE MCFirewall -----------------------------
(* The firewall on small instances.                                        *)
EXTENDS Firewall, TLC

CONSTANTS a1, a2

\* One of each kind, for scripts that run at the same time.
FewRequests ==
    {[do |-> "allow", apps |-> <<a2>>], [do |-> "deny", apps |-> <<a1>>],
     [do |-> "allow-temp", apps |-> <<a2>>], [do |-> "fw-flush", apps |-> << >>],
     [do |-> "install-this", apps |-> <<a2>>]}

\* The same app allowed and denied at once.
AllowDeny == [do : {"allow", "deny"}, apps : {<<a1>>}]

\* oem_sbox with at most one rule missing of those that decide on an app.
WithoutOne == {SboxRules} \cup {SboxRules \ {x} : x \in {"tun0", "drop"}}

\* oem_sbox as it should be.
AllThere == {SboxRules}

Symmetry == Permutations(Uids) \cup Permutations(Runs \ {Boot})

=============================================================================
