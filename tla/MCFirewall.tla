----------------------------- MODULE MCFirewall -----------------------------
(* Firewall on small instances: a rule that is enabled and a disabled one. *)
EXTENDS Firewall, TLC

CONSTANTS good, off, drop, accept, t1, t2

GoodAndOff == {good, off}
NoRule == {}
OffRule == {off}
GoodRule == {good}
OnePolicy == {drop}
TwoPolicies == {drop, accept}
OneThread == {t1}
TwoThreads == {t1, t2}
=============================================================================
