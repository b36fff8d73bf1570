--------------------------- MODULE MCMinitapFirewall ---------------------------
(* Instances of MinitapFirewall for TLC. *)
EXTENDS MinitapFirewall

CONSTANTS i1, ns,  \* a host and the name server
          d1, d2   \* the second name is never listed

MCIps == {i1, ns}
MCDomains == {d1, d2}

\* One literal rule, one name; the name only; no policy.
RulePolicies == {[max |-> -1, ips |-> {i1}, domains |-> {d1}],
                 [max |-> -1, ips |-> {}, domains |-> {d1}],
                 [max |-> -1, ips |-> {}, domains |-> {}]}

\* A limit of nothing (an unreadable rule file) and of one, with and without
\* a rule that the limit overrides: DumpRules writes no rule beside a limit,
\* but a /tmp/firewall.rules made by hand may hold both.
LimitPolicies == {[max |-> m, ips |-> {}, domains |-> ds] :
                    m \in 0..1, ds \in {{}, {d1}}}

AllPolicies == RulePolicies \cup LimitPolicies

=============================================================================
