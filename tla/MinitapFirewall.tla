---------------------------- MODULE MinitapFirewall ----------------------------
(***************************************************************************)
(* The user-space firewall of minitap while the sandboxed program runs.    *)
(*                                                                         *)
(* Each TCP or UDP request of the program runs notifyTCP or notifyUDP in a *)
(* goroutine of its own, under the mux's mutex, and asks                   *)
(* firewallConnection.  Each DNS query runs handleDNS in a goroutine of    *)
(* its own, without any lock.  Both end up in updateFirewall, which edits  *)
(* the maps allowedIps and domainMap in several unsynchronised steps: the  *)
(* Go runtime may stop the process when it notices (Crash), or the steps   *)
(* interleave.                                                             *)
(***************************************************************************)
EXTENDS Integers, FiniteSets

CONSTANTS
  Ips,          \* destination addresses
  Domains,      \* fully qualified domain names
  Upstream,     \* the name server setUpstreamDNS found
  Conns,        \* connection requests of the sandboxed program
  Queries,      \* goroutines running handleDNS
  Policies,     \* the rule files a run may be started with
  MaxInFlight,  \* maxInFlight of the TCP forwarder
  NoOne         \* nobody holds the mutex

Actors == Conns \cup Queries

\* What ReadFirewallRules leaves: the header and the rules, split by
\* net.ParseIP into literal addresses and names.
Policy == [max: Int, ips: SUBSET Ips, domains: SUBSET Domains]

ASSUME FirewallAssumption ==
  /\ Upstream \in Ips
  /\ IsFiniteSet(Conns)
  /\ Conns \cap Queries = {}
  /\ NoOne \notin Actors
  /\ Policies \subseteq Policy
  /\ MaxInFlight \in Nat

VARIABLES
  fw,           \* fwRules
  alive,        \* minitap runs
  allowedIps,   \* the map allowedIps
  domainMap,    \* the map domainMap
  connections,  \* the counter of accepted connections
  mutex,        \* who holds mux.mu
  inFlight,     \* requests the TCP forwarder counts as in flight
  pc,           \* control of each request
  req,          \* kind and destination of each request
  tries,        \* handlers left to ask, this one included
  todo,         \* names the slow path of a request has still to solve
  query,        \* the handleDNSQuery call of each goroutine
  vouched,      \* history: addresses looked up for a listed name
  admitted      \* history: requests handed to a handler

vars == <<fw, alive, allowedIps, domainMap, connections, mutex, inFlight, pc,
          req, tries, todo, query, vouched, admitted>>

Kinds == {"tcp", "udp", "dns"}
NoQuery == [pc |-> "none", name |-> "", ips |-> {}]

\* fwRules.Count is 0 exactly if there is no rule.
NoRules == fw.ips = {} /\ fw.domains = {}
\* Only the rules decide: the policy in which the maps are consulted.
RulesPolicy == fw.max < 0 /\ ~NoRules

\* setUpstreamDNS and InitFirewall have run.
Init ==
  /\ fw \in Policies
  /\ alive = TRUE
  /\ allowedIps = {Upstream} \cup fw.ips
  /\ domainMap = [d \in fw.domains |-> {}]
  /\ connections = 0
  /\ mutex = NoOne
  /\ inFlight = {}
  /\ pc = [c \in Conns |-> "idle"]
  /\ req = [c \in Conns |-> [kind |-> "tcp", dst |-> Upstream]]
  /\ tries = [c \in Conns |-> 0]
  /\ todo = [c \in Conns |-> {}]
  /\ query = [a \in Actors |-> NoQuery]
  /\ vouched = {}
  /\ admitted = {}

-----------------------------------------------------------------------------
(* The forwarders: a packet starts a goroutine. *)

\* The TCP forwarder drops the request if maxInFlight requests are not
\* completed; the UDP forwarder has no such limit.
Forward(c, kind, dst) ==
  /\ alive
  /\ pc[c] = "idle"
  /\ req' = [req EXCEPT ![c] = [kind |-> kind, dst |-> dst]]
  /\ \/ /\ kind = "tcp" /\ Cardinality(inFlight) >= MaxInFlight
        /\ pc' = [pc EXCEPT ![c] = "refused"]
        /\ UNCHANGED inFlight
     \/ /\ kind = "tcp" /\ Cardinality(inFlight) < MaxInFlight
        /\ pc' = [pc EXCEPT ![c] = "queued"]
        /\ inFlight' = inFlight \cup {c}
     \/ /\ kind # "tcp"
        /\ pc' = [pc EXCEPT ![c] = "queued"]
        /\ UNCHANGED inFlight
  /\ UNCHANGED <<fw, alive, allowedIps, domainMap, connections, mutex, tries,
                 todo, query, vouched, admitted>>

\* Mutant: the decision is not made under mux.mu.
LockUnguarded(c) ==
  /\ alive
  /\ pc[c] = "queued"
  /\ mutex' = c
  /\ pc' = [pc EXCEPT ![c] = "deciding"]
  /\ tries' = [tries EXCEPT ![c] = IF req[c].kind = "dns" THEN 2 ELSE 1]
  /\ UNCHANGED <<fw, alive, allowedIps, domainMap, connections, inFlight, req,
                 todo, query, vouched, admitted>>

\* notifyTCP and notifyUDP: take mux.mu.  A datagram to port 53 matches the
\* patterns ":53" and "*", everything else only "*".
Lock(c) ==
  /\ alive
  /\ pc[c] = "queued"
  /\ mutex = NoOne
  /\ mutex' = c
  /\ pc' = [pc EXCEPT ![c] = "deciding"]
  /\ tries' = [tries EXCEPT ![c] = IF req[c].kind = "dns" THEN 2 ELSE 1]
  /\ UNCHANGED <<fw, alive, allowedIps, domainMap, connections, inFlight, req,
                 todo, query, vouched, admitted>>

\* firewallConnection returned true: go entry.handler, and unlock.
Grant(c) ==
  /\ pc' = [pc EXCEPT ![c] = "accepted"]
  /\ mutex' = NoOne
  /\ admitted' = admitted \cup {c}
  /\ UNCHANGED tries

\* Mutant: one handler too many is asked.
DenyAsksAgain(c) ==
  /\ \/ /\ tries[c] >= 1
        /\ pc' = [pc EXCEPT ![c] = "deciding"]
        /\ UNCHANGED mutex
     \/ /\ tries[c] < 1
        /\ pc' = [pc EXCEPT ![c] = "dropped"]
        /\ mutex' = NoOne
  /\ tries' = [tries EXCEPT ![c] = @ - 1]
  /\ UNCHANGED admitted

\* Mutant: a refused request returns without the deferred Unlock.
DenyKeepsMutex(c) ==
  /\ pc' = [pc EXCEPT ![c] = IF tries[c] > 1 THEN "deciding" ELSE "dropped"]
  /\ tries' = [tries EXCEPT ![c] = @ - 1]
  /\ UNCHANGED <<admitted, mutex>>

\* It returned false: the next handler whose pattern matches is asked, and
\* after the last one the request is dropped without being completed.
Deny(c) ==
  /\ \/ /\ tries[c] > 1
        /\ pc' = [pc EXCEPT ![c] = "deciding"]
        /\ UNCHANGED mutex
     \/ /\ tries[c] <= 1
        /\ pc' = [pc EXCEPT ![c] = "dropped"]
        /\ mutex' = NoOne
  /\ tries' = [tries EXCEPT ![c] = @ - 1]
  /\ UNCHANGED admitted

-----------------------------------------------------------------------------
(* firewallConnection. *)

\* A limit, when there is one, is the only policy.
CheckLimit(c) ==
  /\ alive
  /\ pc[c] = "deciding" /\ fw.max >= 0
  /\ \/ /\ connections < fw.max
        /\ pc' = [pc EXCEPT ![c] = "counting"]
        /\ UNCHANGED <<mutex, tries, admitted>>
     \/ /\ connections >= fw.max
        /\ Deny(c)
  /\ UNCHANGED <<fw, alive, allowedIps, domainMap, connections, inFlight, req,
                 todo, query, vouched>>

\* connections ++, and the request is let through.
Count(c) ==
  /\ alive
  /\ pc[c] = "counting"
  /\ connections' = connections + 1
  /\ Grant(c)
  /\ UNCHANGED <<fw, alive, allowedIps, domainMap, inFlight, req, todo, query,
                 vouched>>

\* No policy at all, or the fast path through allowedIps.
DecideFast(c) ==
  /\ alive
  /\ pc[c] = "deciding" /\ fw.max < 0
  /\ NoRules \/ req[c].dst \in allowedIps
  /\ Grant(c)
  /\ UNCHANGED <<fw, alive, allowedIps, domainMap, connections, inFlight, req,
                 todo, query, vouched>>

\* The slow path: look up every listed name, holding mux.mu.
DecideSlow(c) ==
  /\ alive
  /\ pc[c] = "deciding" /\ RulesPolicy
  /\ req[c].dst \notin allowedIps
  /\ pc' = [pc EXCEPT ![c] = "solving"]
  /\ todo' = [todo EXCEPT ![c] = fw.domains]
  /\ UNCHANGED <<fw, alive, allowedIps, domainMap, connections, mutex,
                 inFlight, req, tries, query, vouched, admitted>>

\* solveDomainName of the next name, in the map's order, which is any order.
solveDomainName(c, d) ==
  /\ alive
  /\ pc[c] = "solving"
  /\ d \in todo[c]
  /\ query[c] = NoQuery
  /\ query' = [query EXCEPT ![c] = [pc |-> "ask", name |-> d, ips |-> {}]]
  /\ todo' = [todo EXCEPT ![c] = @ \ {d}]
  /\ UNCHANGED <<fw, alive, allowedIps, domainMap, connections, mutex,
                 inFlight, pc, req, tries, vouched, admitted>>

\* Mutant: once the names are looked up the request is let through.
DecideSolvedTrusts(c) ==
  /\ alive
  /\ pc[c] = "solving"
  /\ todo[c] = {} /\ query[c] = NoQuery
  /\ Grant(c)
  /\ UNCHANGED <<fw, alive, allowedIps, domainMap, connections, inFlight, req,
                 todo, query, vouched>>

\* All names are looked up: allowedIps decides.
DecideSolved(c) ==
  /\ alive
  /\ pc[c] = "solving"
  /\ todo[c] = {} /\ query[c] = NoQuery
  /\ IF req[c].dst \in allowedIps THEN Grant(c) ELSE Deny(c)
  /\ UNCHANGED <<fw, alive, allowedIps, domainMap, connections, inFlight, req,
                 todo, query, vouched>>

\* The TCP handler accepts the request, which completes it.
Accept(c) ==
  /\ alive
  /\ pc[c] = "accepted" /\ c \in inFlight
  /\ inFlight' = inFlight \ {c}
  /\ UNCHANGED <<fw, alive, allowedIps, domainMap, connections, mutex, pc, req,
                 tries, todo, query, vouched, admitted>>

-----------------------------------------------------------------------------
(* handleDNSQuery and updateFirewall, run by the goroutine a. *)

\* The flow was let through at its first try, so by the handler of ":53"; at
\* the second it is proxied like any other datagram.
ServedByDns(c) == req[c].kind = "dns" /\ tries[c] = 2

\* A packet on a flow the DNS handler serves: go handleDNS.
handleDNS(a, d) ==
  /\ alive
  /\ \E c \in admitted : ServedByDns(c)
  /\ query[a] = NoQuery
  /\ query' = [query EXCEPT ![a] = [pc |-> "ask", name |-> d, ips |-> {}]]
  /\ UNCHANGED <<fw, alive, allowedIps, domainMap, connections, mutex,
                 inFlight, pc, req, tries, todo, vouched, admitted>>

firewallDns(d) == IF NoRules THEN fw.max < 0 \/ connections < fw.max
                             ELSE d \in fw.domains

\* firewallDns, then lookupWithSearch, which fails or yields addresses.
Lookup(a, ips) ==
  LET d == query[a].name IN
  /\ alive
  /\ query[a].pc = "ask"
  /\ query' = [query EXCEPT
                 ![a] = IF firewallDns(d) /\ ips # {}
                        THEN [pc |-> "clean", name |-> d, ips |-> ips]
                        ELSE NoQuery]
  /\ vouched' = IF firewallDns(d) THEN vouched \cup {<<d, i>> : i \in ips}
                                  ELSE vouched
  /\ UNCHANGED <<fw, alive, allowedIps, domainMap, connections, mutex,
                 inFlight, pc, req, tries, todo, admitted>>

\* Mutant: the new addresses replace everything that was allowed.
CleanPreviousAll(a) ==
  /\ alive
  /\ query[a].pc = "clean"
  /\ allowedIps' = {}
  /\ query' = [query EXCEPT ![a] = IF query[a].name \in DOMAIN domainMap
                                   THEN [query[a] EXCEPT !.pc = "allow"]
                                   ELSE NoQuery]
  /\ UNCHANGED <<fw, alive, domainMap, connections, mutex, inFlight, pc, req,
                 tries, todo, vouched, admitted>>

\* updateFirewall: the addresses of the last update of this name go.  A name
\* that is not listed only enters the log.
CleanPrevious(a) ==
  LET d == query[a].name IN
  /\ alive
  /\ query[a].pc = "clean"
  /\ \/ /\ d \in DOMAIN domainMap
        /\ allowedIps' = allowedIps \ domainMap[d]
        /\ query' = [query EXCEPT ![a].pc = "allow"]
     \/ /\ d \notin DOMAIN domainMap
        /\ query' = [query EXCEPT ![a] = NoQuery]
        /\ UNCHANGED allowedIps
  /\ UNCHANGED <<fw, alive, domainMap, connections, mutex, inFlight, pc, req,
                 tries, todo, vouched, admitted>>

\* updateFirewall: the new addresses are allowed ...
AllowNew(a) ==
  /\ alive
  /\ query[a].pc = "allow"
  /\ allowedIps' = allowedIps \cup query[a].ips
  /\ query' = [query EXCEPT ![a].pc = "record"]
  /\ UNCHANGED <<fw, alive, domainMap, connections, mutex, inFlight, pc, req,
                 tries, todo, vouched, admitted>>

\* ... and then remembered, to be cleaned by the next update.
RecordNew(a) ==
  /\ alive
  /\ query[a].pc = "record"
  /\ domainMap' = [domainMap EXCEPT ![query[a].name] = query[a].ips]
  /\ query' = [query EXCEPT ![a] = NoQuery]
  /\ UNCHANGED <<fw, alive, allowedIps, connections, mutex, inFlight, pc, req,
                 tries, todo, vouched, admitted>>

\* The runtime stops a process it catches reading or writing a map while
\* another goroutine writes it.
Writing(a) == query[a].pc \in {"clean", "allow", "record"}
Reading(a) == a \in Conns /\ RulesPolicy /\ pc[a] \in {"deciding", "solving"}

Crash ==
  /\ alive
  /\ \E a, b \in Actors : a # b /\ Writing(a) /\ (Writing(b) \/ Reading(b))
  /\ alive' = FALSE
  /\ UNCHANGED <<fw, allowedIps, domainMap, connections, mutex, inFlight, pc,
                 req, tries, todo, query, vouched, admitted>>

Decided(c) == pc[c] \in {"accepted", "dropped", "refused"}

\* minitap has stopped, or every request has been decided.
Finished == (~alive \/ \A c \in Conns : Decided(c)) /\ UNCHANGED vars

-----------------------------------------------------------------------------

RequestStep(c) == \/ Lock(c) \/ CheckLimit(c) \/ Count(c) \/ DecideFast(c)
                  \/ DecideSlow(c) \/ DecideSolved(c) \/ Accept(c)
                  \/ \E d \in Domains : solveDomainName(c, d)

QueryStep(a) == \/ \E ips \in SUBSET Ips : Lookup(a, ips)
                \/ CleanPrevious(a) \/ AllowNew(a) \/ RecordNew(a)

Environment == \/ \E c \in Conns, k \in Kinds, i \in Ips : Forward(c, k, i)
               \/ \E a \in Queries, d \in Domains : handleDNS(a, d)

Next == \/ \E c \in Conns : RequestStep(c)
        \/ \E a \in Actors : QueryStep(a)
        \/ Environment \/ Crash \/ Finished

Spec == Init /\ [][Next]_vars

\* Goroutines are scheduled, lookups end (the resolver's timeout), and a mutex
\* handed over again and again is not withheld from one waiter forever (Go's
\* starvation mode).
Fairness ==
  /\ \A c \in Conns : WF_vars(RequestStep(c)) /\ SF_vars(Lock(c))
  /\ \A a \in Actors : WF_vars(QueryStep(a))

FairSpec == Spec /\ Fairness

-----------------------------------------------------------------------------
(* Properties. *)

Phases == {"idle", "queued", "deciding", "counting", "solving", "accepted",
           "dropped", "refused"}
UpdatePhases == {"ask", "clean", "allow", "record"}

QueryType == [pc: UpdatePhases, name: Domains, ips: SUBSET Ips] \cup {NoQuery}

\* The state of minitap is what the Go declarations say, no request is asked
\* about by more handlers than match it, and updateFirewall works on listed
\* names once it has found the name in domainMap.
TypeOK ==
  /\ fw \in Policies
  /\ alive \in BOOLEAN
  /\ allowedIps \in SUBSET Ips
  /\ domainMap \in [fw.domains -> SUBSET Ips]
  /\ connections \in Nat
  /\ mutex \in Conns \cup {NoOne}
  /\ inFlight \in SUBSET Conns
  /\ pc \in [Conns -> Phases]
  /\ req \in [Conns -> [kind: Kinds, dst: Ips]]
  /\ tries \in [Conns -> 0..2]
  /\ todo \in [Conns -> SUBSET Domains]
  /\ query \in [Actors -> QueryType]
  /\ vouched \in SUBSET (Domains \X Ips)
  /\ admitted \in SUBSET Conns

\* firewallConnection compares and then increments a plain int: the requests
\* handed to a handler never exceed MaxConnections, whatever the goroutines'
\* interleaving, because every decision is made under mux.mu.
ConnectionLimit == fw.max >= 0 => Cardinality(admitted) <= fw.max

\* Under a rules policy a request reaches a handler only if its destination is
\* a literal rule, the name server, or an address some lookup returned for a
\* listed name, although the DNS goroutines edit allowedIps without a lock.
OnlyVouched ==
  RulesPolicy =>
    \A c \in admitted :
      \/ req[c].dst \in fw.ips \cup {Upstream}
      \/ \E d \in fw.domains : <<d, req[c].dst>> \in vouched

\* Every request that notifyTCP or notifyUDP was started for is decided,
\* although each waits for a mutex that others hold during DNS lookups; and its
\* slot in the TCP forwarder is given back, unless the request was dropped:
\* notifyTCP does not complete those, and the forwarder counts them for ever.
RequestsDecided ==
  \A c \in Conns :
    /\ pc[c] = "queued" ~> (Decided(c) \/ ~alive)
    /\ c \in inFlight ~> (c \notin inFlight \/ pc[c] = "dropped" \/ ~alive)

\* docs/libminisandbox_apis.md: "Allow a specific IPv4 address."  Under a
\* rules policy a request to a literal rule is dropped only if the address was
\* also an answer for a listed name: that is the one case in which
\* updateFirewall may have taken it out of allowedIps.
LiteralRuleHonoured ==
  RulesPolicy =>
    \A c \in Conns :
      pc[c] = "dropped" /\ req[c].dst \in fw.ips =>
        \E d \in fw.domains : <<d, req[c].dst>> \in vouched

=============================================================================
