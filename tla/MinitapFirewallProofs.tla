------------------------- MODULE MinitapFirewallProofs -------------------------
(***************************************************************************)
(* Proofs about minitap's firewall, for any number of requests, DNS        *)
(* goroutines, addresses, names and rule files.                            *)
(***************************************************************************)
EXTENDS MinitapFirewall, FiniteSetTheorems, TLAPS

\* What a step of Next is, one action at a time.
LEMMA NextCases ==
  ASSUME Next
  PROVE  \/ \E c \in Conns, k \in Kinds, i \in Ips : Forward(c, k, i)
         \/ \E c \in Conns : Lock(c)
         \/ \E c \in Conns : CheckLimit(c)
         \/ \E c \in Conns : Count(c)
         \/ \E c \in Conns : DecideFast(c)
         \/ \E c \in Conns : DecideSlow(c)
         \/ \E c \in Conns, d \in Domains : solveDomainName(c, d)
         \/ \E c \in Conns : DecideSolved(c)
         \/ \E c \in Conns : Accept(c)
         \/ \E a \in Queries, d \in Domains : handleDNS(a, d)
         \/ \E a \in Actors, ips \in SUBSET Ips : Lookup(a, ips)
         \/ \E a \in Actors : CleanPrevious(a)
         \/ \E a \in Actors : AllowNew(a)
         \/ \E a \in Actors : RecordNew(a)
         \/ Crash
         \/ UNCHANGED vars
  BY DEF Next, RequestStep, QueryStep, Environment, Finished

\* No step changes the policy.
LEMMA PolicyFixed == ASSUME [Next]_vars PROVE fw' = fw
<1>1. CASE Next
  BY <1>1, NextCases DEF Forward, Lock, CheckLimit, Count, DecideFast, DecideSlow,
     solveDomainName, DecideSolved, Accept, handleDNS, Lookup, CleanPrevious,
     AllowNew, RecordNew, Crash, vars
<1> QED
  BY <1>1 DEF vars

-----------------------------------------------------------------------------
(* Control: who decides, and how often. *)

Holding == {"deciding", "counting", "solving"}

\* A request being decided holds the mutex and has a handler left to ask; only
\* a limit policy counts and only the others look names up; a request handed to a handler stays with it.
Control ==
  /\ \A c \in Conns : pc[c] \in Holding => mutex = c /\ tries[c] >= 1
  /\ \A c \in Conns : pc[c] = "counting" => fw.max >= 0
  /\ \A c \in Conns : pc[c] = "solving" => fw.max < 0
  /\ \A c \in admitted : pc[c] = "accepted"

ControlInv == TypeOK /\ Control

\* Granting a request keeps the invariant's part about requests.
LEMMA GrantControl ==
  ASSUME ControlInv, NEW c \in Conns, pc[c] \in Holding, Grant(c), UNCHANGED fw
  PROVE  /\ pc' \in [Conns -> Phases]
         /\ mutex' \in Conns \cup {NoOne}
         /\ tries' \in [Conns -> 0..2]
         /\ admitted' \in SUBSET Conns
         /\ Control'
  BY DEF ControlInv, TypeOK, Control, Grant, Holding, Phases

\* So does denying one.
LEMMA DenyControl ==
  ASSUME ControlInv, NEW c \in Conns, pc[c] \in Holding, Deny(c), UNCHANGED fw
  PROVE  /\ pc' \in [Conns -> Phases]
         /\ mutex' \in Conns \cup {NoOne}
         /\ tries' \in [Conns -> 0..2]
         /\ admitted' \in SUBSET Conns
         /\ Control'
<1> USE DEF ControlInv, Holding
<1>1. tries[c] \in 1..2 /\ mutex = c
  BY DEF TypeOK, Control
<1>2. tries' = [tries EXCEPT ![c] = tries[c] - 1] /\ tries' \in [Conns -> 0..2]
  BY <1>1 DEF Deny, TypeOK
<1>3. CASE tries[c] > 1
  BY <1>1, <1>2, <1>3 DEF Deny, TypeOK, Control, Phases
<1>4. CASE tries[c] <= 1
  <2>1. pc' = [pc EXCEPT ![c] = "dropped"] /\ mutex' = NoOne /\ admitted' = admitted
    BY <1>1, <1>4 DEF Deny
  <2>2. \A b \in Conns : pc'[b] \notin Holding
    BY <1>1, <2>1 DEF TypeOK, Control
  <2> QED
    BY <1>2, <2>1, <2>2 DEF TypeOK, Control, Phases
<1> QED
  BY <1>1, <1>3, <1>4

\* The queries other goroutines run are not touched, and this one's becomes q.
LEMMA QueryUpdate ==
  ASSUME TypeOK, NEW a \in Actors, NEW q \in QueryType,
         query' = [query EXCEPT ![a] = q]
  PROVE  /\ query' \in [Actors -> QueryType]
         /\ query'[a] = q
         /\ \A b \in Actors \ {a} : query'[b] = query[b]
  BY DEF TypeOK

\* A goroutine in updateFirewall has a name and addresses.
LEMMA QueryFields ==
  ASSUME TypeOK, NEW a \in Actors, query[a].pc \in UpdatePhases
  PROVE  /\ query[a].name \in Domains
         /\ query[a].ips \in SUBSET Ips
         /\ \A p \in UpdatePhases :
              /\ [query[a] EXCEPT !.pc = p]
                   = [pc |-> p, name |-> query[a].name, ips |-> query[a].ips]
              /\ [query[a] EXCEPT !.pc = p] \in QueryType
<1>1. query[a] \in QueryType
  BY DEF TypeOK
<1>2. NoQuery.pc \notin UpdatePhases
  BY DEF NoQuery, UpdatePhases
<1>3. query[a] \in [pc: UpdatePhases, name: Domains, ips: SUBSET Ips]
  BY <1>1, <1>2 DEF QueryType
<1> QED
  BY <1>3 DEF QueryType

\* Every run is well typed, decides one request at a time, and asks about a
\* request only while a matching handler is left.
LEMMA ControlInvariant == Spec => []ControlInv
<1> USE FirewallAssumption DEF Actors
<1>1. Init => ControlInv
  <2> SUFFICES ASSUME Init PROVE ControlInv
    OBVIOUS
  <2>1. fw.ips \in SUBSET Ips /\ fw.domains \in SUBSET Domains
    BY DEF Init, Policy
  <2>2. TypeOK
    BY <2>1 DEF Init, TypeOK, Phases, QueryType, Kinds
  <2>3. Control
    BY DEF Init, Control, Holding
  <2> QED
    BY <2>2, <2>3 DEF ControlInv
<1>2. ControlInv /\ [Next]_vars => ControlInv'
  <2> SUFFICES ASSUME ControlInv, [Next]_vars PROVE ControlInv'
    OBVIOUS
  <2> USE DEF ControlInv
  <2>1. ASSUME NEW c \in Conns, NEW k \in Kinds, NEW i \in Ips, Forward(c, k, i)
        PROVE  ControlInv'
    BY <2>1 DEF Forward, TypeOK, Control, Holding, Phases
  <2>2. ASSUME NEW c \in Conns, Lock(c) PROVE ControlInv'
    BY <2>2 DEF Lock, TypeOK, Control, Holding, Phases
  <2>3. ASSUME NEW c \in Conns, CheckLimit(c) PROVE ControlInv'
    <3>1. CASE connections < fw.max /\ pc' = [pc EXCEPT ![c] = "counting"]
               /\ UNCHANGED <<mutex, tries, admitted>>
      BY <2>3, <3>1 DEF CheckLimit, TypeOK, Control, Holding, Phases
    <3>2. CASE Deny(c)
      BY <2>3, <3>2, DenyControl DEF CheckLimit, TypeOK, Holding
    <3> QED
      BY <2>3, <3>1, <3>2 DEF CheckLimit
  <2>4. ASSUME NEW c \in Conns, Count(c) PROVE ControlInv'
    BY <2>4, GrantControl DEF Count, TypeOK, Holding
  <2>5. ASSUME NEW c \in Conns, DecideFast(c) PROVE ControlInv'
    BY <2>5, GrantControl DEF DecideFast, TypeOK, Holding
  <2>6. ASSUME NEW c \in Conns, DecideSlow(c) PROVE ControlInv'
    <3>1. fw.domains \in SUBSET Domains
      BY DEF TypeOK, Policy
    <3> QED
      BY <2>6, <3>1 DEF DecideSlow, RulesPolicy, TypeOK, Control,
         Holding, Phases
  <2>7. ASSUME NEW c \in Conns, NEW d \in Domains, solveDomainName(c, d)
        PROVE  ControlInv'
    <3>1. [pc |-> "ask", name |-> d, ips |-> {}] \in QueryType
      BY DEF QueryType, UpdatePhases
    <3>2. query' \in [Actors -> QueryType]
      BY <2>7, <3>1, QueryUpdate DEF solveDomainName
    <3> QED
      BY <2>7, <3>2 DEF solveDomainName, TypeOK, Control
  <2>8. ASSUME NEW c \in Conns, DecideSolved(c) PROVE ControlInv'
    <3>1. Grant(c) \/ Deny(c)
      BY <2>8 DEF DecideSolved
    <3> QED
      BY <2>8, <3>1, GrantControl, DenyControl DEF DecideSolved, TypeOK, Holding
  <2>9. ASSUME NEW c \in Conns, Accept(c) PROVE ControlInv'
    BY <2>9 DEF Accept, TypeOK, Control
  <2>10. ASSUME NEW a \in Queries, NEW d \in Domains, handleDNS(a, d)
         PROVE  ControlInv'
    <3>1. [pc |-> "ask", name |-> d, ips |-> {}] \in QueryType
      BY DEF QueryType, UpdatePhases
    <3>2. query' \in [Actors -> QueryType]
      BY <2>10, <3>1, QueryUpdate DEF handleDNS
    <3> QED
      BY <2>10, <3>2 DEF handleDNS, TypeOK, Control
  <2>11. ASSUME NEW a \in Actors, NEW ips \in SUBSET Ips, Lookup(a, ips)
         PROVE  ControlInv'
    <3>1. query[a].name \in Domains
      BY <2>11, QueryFields DEF Lookup, UpdatePhases
    <3>2. /\ NoQuery \in QueryType
          /\ [pc |-> "clean", name |-> query[a].name, ips |-> ips] \in QueryType
      BY <3>1 DEF QueryType, UpdatePhases
    <3>3. query' \in [Actors -> QueryType]
      BY <2>11, <3>2, QueryUpdate DEF Lookup
    <3>4. vouched' \in SUBSET (Domains \X Ips)
      BY <2>11, <3>1 DEF Lookup, TypeOK
    <3> QED
      BY <2>11, <3>3, <3>4 DEF Lookup, TypeOK, Control
  <2>12. ASSUME NEW a \in Actors, CleanPrevious(a) PROVE ControlInv'
    <3>1. [query[a] EXCEPT !.pc = "allow"] \in QueryType /\ NoQuery \in QueryType
      BY <2>12, QueryFields DEF CleanPrevious, UpdatePhases, QueryType
    <3>2. query' \in [Actors -> QueryType]
      BY <2>12, <3>1 DEF CleanPrevious, TypeOK
    <3> QED
      BY <2>12, <3>2 DEF CleanPrevious, TypeOK, Control
  <2>13. ASSUME NEW a \in Actors, AllowNew(a) PROVE ControlInv'
    <3>1. /\ [query[a] EXCEPT !.pc = "record"] \in QueryType
          /\ query[a].ips \in SUBSET Ips
      BY <2>13, QueryFields DEF AllowNew, UpdatePhases
    <3>2. query' \in [Actors -> QueryType]
      BY <2>13, <3>1 DEF AllowNew, TypeOK
    <3> QED
      BY <2>13, <3>1, <3>2 DEF AllowNew, TypeOK, Control
  <2>14. ASSUME NEW a \in Actors, RecordNew(a) PROVE ControlInv'
    <3>1. query[a].ips \in SUBSET Ips /\ NoQuery \in QueryType
      BY <2>14, QueryFields DEF RecordNew, UpdatePhases, QueryType
    <3>2. query' \in [Actors -> QueryType]
      BY <2>14, <3>1, QueryUpdate DEF RecordNew
    <3>3. domainMap' \in [fw.domains -> SUBSET Ips]
      BY <2>14, <3>1 DEF RecordNew, TypeOK
    <3> QED
      BY <2>14, <3>2, <3>3 DEF RecordNew, TypeOK, Control
  <2>15. CASE Crash
    BY <2>15 DEF Crash, TypeOK, Control
  <2>16. CASE UNCHANGED vars
    BY <2>16 DEF vars, TypeOK, Control
  <2> QED
    BY NextCases, <2>1, <2>2, <2>3, <2>4, <2>5, <2>6, <2>7, <2>8, <2>9, <2>10,
       <2>11, <2>12, <2>13, <2>14, <2>15, <2>16
<1> QED
  BY <1>1, <1>2, PTL DEF Spec

\* TypeOK holds of every run: no request is asked about by more handlers than
\* match it, whatever the rule file and the number of goroutines.
THEOREM FirewallTypeCorrect == Spec => []TypeOK
  BY ControlInvariant, PTL DEF ControlInv

-----------------------------------------------------------------------------
(* The limit on connections. *)

\* Under a limit the counter counts the requests let through, and the request
\* that has been compared with the limit but not counted yet still fits.
Counted ==
  fw.max >= 0 =>
    /\ connections = Cardinality(admitted)
    /\ connections <= fw.max
    /\ \A c \in Conns : pc[c] = "counting" => connections < fw.max

\* The counter and the history change only by Count, under a limit.
LEMMA CountedStep == ControlInv /\ ControlInv' /\ Counted /\ [Next]_vars => Counted'
<1> SUFFICES ASSUME ControlInv, ControlInv', Counted, [Next]_vars
             PROVE  Counted'
  OBVIOUS
<1>f. fw' = fw
  BY PolicyFixed
<1> SUFFICES ASSUME fw.max >= 0 PROVE Counted'
  BY <1>f DEF Counted
<1> USE DEF ControlInv
<1>0. fw.max \in Int /\ connections \in Nat /\ IsFiniteSet(admitted)
  BY FirewallAssumption, FS_Subset DEF TypeOK, Policy
<1>1. ASSUME NEW c \in Conns, NEW k \in Kinds, NEW i \in Ips, Forward(c, k, i)
      PROVE  Counted'
  BY <1>1 DEF Forward, Counted, TypeOK
<1>2. ASSUME NEW c \in Conns, Lock(c) PROVE Counted'
  BY <1>2 DEF Lock, Counted, TypeOK
<1>3. ASSUME NEW c \in Conns, CheckLimit(c) PROVE Counted'
  <2>1. fw' = fw /\ connections' = connections /\ admitted' = admitted
    BY <1>3 DEF CheckLimit, Deny
  <2>2. ASSUME NEW b \in Conns, pc'[b] = "counting" PROVE connections < fw.max
    <3>1. CASE connections < fw.max
      BY <3>1
    <3>2. CASE Deny(c)
      BY <1>3, <2>2, <3>2 DEF Deny, TypeOK, Counted
    <3> QED
      BY <1>3, <3>1, <3>2 DEF CheckLimit
  <2> QED
    BY <2>1, <2>2 DEF Counted
<1>4. ASSUME NEW c \in Conns, Count(c) PROVE Counted'
  <2>1. /\ fw' = fw /\ connections' = connections + 1
        /\ admitted' = admitted \cup {c} /\ pc[c] = "counting" /\ mutex' = NoOne
    BY <1>4 DEF Count, Grant
  <2>2. c \notin admitted
    BY <2>1 DEF Control
  <2>3. Cardinality(admitted') = Cardinality(admitted) + 1
    BY <1>0, <2>1, <2>2, FS_AddElement
  <2>4. connections < fw.max /\ connections = Cardinality(admitted)
    BY <2>1 DEF Counted
  <2>5. \A b \in Conns : pc'[b] # "counting"
    BY <2>1, FirewallAssumption DEF Control, Holding, Actors
  <2> QED
    BY <1>0, <2>1, <2>3, <2>4, <2>5 DEF Counted
<1>5. ASSUME NEW c \in Conns, DecideFast(c) PROVE Counted'
  BY <1>0, <1>5 DEF DecideFast
<1>6. ASSUME NEW c \in Conns, DecideSlow(c) PROVE Counted'
  BY <1>0, <1>6 DEF DecideSlow, RulesPolicy
<1>7. ASSUME NEW c \in Conns, NEW d \in Domains, solveDomainName(c, d)
      PROVE  Counted'
  BY <1>7 DEF solveDomainName, Counted
<1>8. ASSUME NEW c \in Conns, DecideSolved(c) PROVE Counted'
  BY <1>0, <1>8 DEF DecideSolved, Control
<1>9. ASSUME NEW c \in Conns, Accept(c) PROVE Counted'
  BY <1>9 DEF Accept, Counted
<1>10. ASSUME NEW a \in Queries, NEW d \in Domains, handleDNS(a, d)
       PROVE  Counted'
  BY <1>10 DEF handleDNS, Counted
<1>11. ASSUME NEW a \in Actors, NEW ips \in SUBSET Ips, Lookup(a, ips)
       PROVE  Counted'
  BY <1>11 DEF Lookup, Counted
<1>12. ASSUME NEW a \in Actors, CleanPrevious(a) PROVE Counted'
  BY <1>12 DEF CleanPrevious, Counted
<1>13. ASSUME NEW a \in Actors, AllowNew(a) PROVE Counted'
  BY <1>13 DEF AllowNew, Counted
<1>14. ASSUME NEW a \in Actors, RecordNew(a) PROVE Counted'
  BY <1>14 DEF RecordNew, Counted
<1>15. CASE Crash
  BY <1>15 DEF Crash, Counted
<1>16. CASE UNCHANGED vars
  BY <1>16 DEF vars, Counted
<1> QED
  BY NextCases, <1>1, <1>2, <1>3, <1>4, <1>5, <1>6, <1>7, <1>8, <1>9, <1>10,
     <1>11, <1>12, <1>13, <1>14, <1>15, <1>16

\* The limit of firewallConnection holds for every number of goroutines, limit
\* and order in which they get the mutex.
THEOREM LimitSafety == Spec => []ConnectionLimit
<1>1. Init => Counted
  BY FirewallAssumption, FS_EmptySet DEF Init, Counted, Policy
<1>2. ControlInv /\ Counted => ConnectionLimit
  BY DEF Counted, ConnectionLimit
<1> QED
  BY <1>1, <1>2, ControlInvariant, CountedStep, PTL DEF Spec

-----------------------------------------------------------------------------
(* What a rules policy lets through. *)

\* The addresses a rules policy may let through by now.
Good == fw.ips \cup {Upstream}
          \cup {i \in Ips : \E d \in fw.domains : <<d, i>> \in vouched}

\* Under a rules policy the maps and the updates under way only hold addresses
\* that were vouched for, and so do the requests let through.
Vouching ==
  RulesPolicy =>
    /\ allowedIps \subseteq Good
    /\ \A a \in Actors :
         Writing(a) => \A i \in query[a].ips : <<query[a].name, i>> \in vouched
    /\ \A a \in Actors :
         query[a].pc \in {"allow", "record"} => query[a].name \in fw.domains
    /\ \A c \in admitted : req[c].dst \in Good

\* A step that leaves the firewall's data alone keeps the invariant.
LEMMA VouchingKept ==
  ASSUME Vouching, UNCHANGED <<fw, allowedIps, query, vouched>>,
         \A c \in admitted' : c \in admitted /\ req'[c] = req[c]
  PROVE  Vouching'
  BY DEF Vouching, RulesPolicy, NoRules, Good, Writing

\* A step that only replaces one goroutine's query by one that does not write.
LEMMA VouchingQuery ==
  ASSUME TypeOK, Vouching, UNCHANGED <<fw, allowedIps, vouched, admitted, req>>,
         NEW a \in Actors, NEW q \in QueryType, q.pc \in {"ask", "none"},
         query' = [query EXCEPT ![a] = q]
  PROVE  Vouching'
<1>1. query'[a].pc \in {"ask", "none"} /\ \A b \in Actors \ {a} : query'[b] = query[b]
  BY QueryUpdate
<1> QED
  BY <1>1 DEF Vouching, RulesPolicy, NoRules, Good, Writing

\* Initially only the literal rules and the name server are allowed.
LEMMA VouchingInit == Init => Vouching
<1> SUFFICES ASSUME Init PROVE Vouching
  OBVIOUS
<1>1. \A a \in Actors : query[a].pc = "none"
  BY DEF Init, NoQuery
<1>2. allowedIps \subseteq Good /\ admitted = {}
  BY DEF Init, Good
<1> QED
  BY <1>1, <1>2 DEF Vouching, Writing

\* Every step keeps the invariant, the unlocked ones of the DNS goroutines too.
LEMMA VouchingStep == ControlInv /\ Vouching /\ [Next]_vars => Vouching'
<1> SUFFICES ASSUME ControlInv, Vouching, [Next]_vars PROVE Vouching'
  OBVIOUS
<1>f. fw' = fw
  BY PolicyFixed
<1> SUFFICES ASSUME RulesPolicy PROVE Vouching'
  BY <1>f DEF Vouching, RulesPolicy, NoRules
<1> USE DEF ControlInv
<1>0. fw.max < 0 /\ fw.max \in Int
  BY FirewallAssumption DEF RulesPolicy, TypeOK, Policy
<1>q. NoQuery \in QueryType /\ NoQuery.pc = "none"
  BY DEF QueryType, NoQuery
<1>1. ASSUME NEW c \in Conns, NEW k \in Kinds, NEW i \in Ips, Forward(c, k, i)
      PROVE  Vouching'
  <2>1. c \notin admitted
    BY <1>1 DEF Forward, Control
  <2> QED
    BY <1>1, <2>1, VouchingKept DEF Forward, TypeOK
<1>2. ASSUME NEW c \in Conns, Lock(c) PROVE Vouching'
  BY <1>2, VouchingKept DEF Lock
<1>3. ASSUME NEW c \in Conns, CheckLimit(c) PROVE Vouching'
  BY <1>0, <1>3 DEF CheckLimit
<1>4. ASSUME NEW c \in Conns, Count(c) PROVE Vouching'
  BY <1>0, <1>4 DEF Count, Control
<1>5. ASSUME NEW c \in Conns, req[c].dst \in allowedIps, Grant(c),
             UNCHANGED <<fw, allowedIps, query, vouched, req>>
      PROVE  Vouching'
  BY <1>5 DEF Grant, Vouching, RulesPolicy, NoRules, Good, Writing
<1>6. ASSUME NEW c \in Conns, DecideFast(c) PROVE Vouching'
  BY <1>5, <1>6 DEF DecideFast, RulesPolicy
<1>7. ASSUME NEW c \in Conns, DecideSlow(c) PROVE Vouching'
  BY <1>7, VouchingKept DEF DecideSlow
<1>8. ASSUME NEW c \in Conns, NEW d \in Domains, solveDomainName(c, d)
      PROVE  Vouching'
  <2>1. [pc |-> "ask", name |-> d, ips |-> {}] \in QueryType
    BY DEF QueryType, UpdatePhases
  <2> QED
    BY <1>8, <2>1, VouchingQuery DEF solveDomainName, Actors
<1>9. ASSUME NEW c \in Conns, DecideSolved(c) PROVE Vouching'
  <2>1. CASE req[c].dst \in allowedIps
    BY <1>5, <1>9, <2>1 DEF DecideSolved
  <2>2. CASE req[c].dst \notin allowedIps
    BY <1>9, <2>2, VouchingKept DEF DecideSolved, Deny
  <2> QED
    BY <2>1, <2>2
<1>10. ASSUME NEW c \in Conns, Accept(c) PROVE Vouching'
  BY <1>10, VouchingKept DEF Accept
<1>11. ASSUME NEW a \in Queries, NEW d \in Domains, handleDNS(a, d)
       PROVE  Vouching'
  <2>1. [pc |-> "ask", name |-> d, ips |-> {}] \in QueryType
    BY DEF QueryType, UpdatePhases
  <2> QED
    BY <1>11, <2>1, VouchingQuery DEF handleDNS, Actors
<1>12. ASSUME NEW a \in Actors, NEW ips \in SUBSET Ips, Lookup(a, ips)
       PROVE  Vouching'
  <2>1. query[a].name \in Domains
    BY <1>12, QueryFields DEF Lookup, UpdatePhases
  <2>2. CASE firewallDns(query[a].name) /\ ips # {}
    <3> DEFINE q == [pc |-> "clean", name |-> query[a].name, ips |-> ips]
    <3>1. q \in QueryType /\ query' = [query EXCEPT ![a] = q]
      BY <1>12, <2>1, <2>2 DEF Lookup, QueryType, UpdatePhases
    <3>2. query'[a] = q /\ \A b \in Actors \ {a} : query'[b] = query[b]
      BY <3>1, QueryUpdate
    <3>3. vouched' = vouched \cup {<<query[a].name, i>> : i \in ips}
      BY <1>12, <2>2 DEF Lookup
    <3>4. UNCHANGED <<fw, allowedIps, admitted, req>>
      BY <1>12 DEF Lookup
    <3>5. Good \subseteq Good'
      BY <3>3, <3>4 DEF Good
    <3>6. \A b \in Actors :
            Writing(b)' => \A i \in query'[b].ips : <<query'[b].name, i>> \in vouched'
      BY <3>2, <3>3 DEF Vouching, Writing
    <3>7. \A b \in Actors :
            query'[b].pc \in {"allow", "record"} => query'[b].name \in fw'.domains
      BY <3>2, <3>4 DEF Vouching
    <3> QED
      BY <3>4, <3>5, <3>6, <3>7 DEF Vouching
  <2>3. CASE ~(firewallDns(query[a].name) /\ ips # {})
    <3>1. query' = [query EXCEPT ![a] = NoQuery] /\ vouched' = vouched
      BY <1>12, <2>3 DEF Lookup
    <3> QED
      BY <1>12, <1>q, <3>1, VouchingQuery DEF Lookup
  <2> QED
    BY <2>2, <2>3
<1>13. ASSUME NEW a \in Actors, CleanPrevious(a) PROVE Vouching'
  <2>1. UNCHANGED <<fw, vouched, admitted, req>> /\ allowedIps' \subseteq allowedIps
    BY <1>13 DEF CleanPrevious
  <2>2. CASE query[a].name \in DOMAIN domainMap
    <3>1. query[a].name \in fw.domains /\ Writing(a)
      BY <1>13, <2>2 DEF TypeOK, CleanPrevious, Writing
    <3>2. query' = [query EXCEPT ![a] = [query[a] EXCEPT !.pc = "allow"]]
      BY <1>13, <2>2 DEF CleanPrevious
    <3>3. /\ query'[a].name = query[a].name /\ query'[a].ips = query[a].ips
          /\ \A b \in Actors \ {a} : query'[b] = query[b]
      BY <1>13, <3>2, QueryFields, QueryUpdate DEF CleanPrevious, UpdatePhases
    <3> QED
      BY <2>1, <3>1, <3>3 DEF Vouching, RulesPolicy, NoRules, Good, Writing
  <2>3. CASE query[a].name \notin DOMAIN domainMap
    <3>1. query' = [query EXCEPT ![a] = NoQuery] /\ allowedIps' = allowedIps
      BY <1>13, <2>3 DEF CleanPrevious
    <3> QED
      BY <1>q, <2>1, <3>1, VouchingQuery
  <2> QED
    BY <2>2, <2>3
<1>14. ASSUME NEW a \in Actors, AllowNew(a) PROVE Vouching'
  <2>1. /\ UNCHANGED <<fw, vouched, admitted, req>>
        /\ allowedIps' = allowedIps \cup query[a].ips
        /\ query' = [query EXCEPT ![a] = [query[a] EXCEPT !.pc = "record"]]
        /\ query[a].pc = "allow"
    BY <1>14 DEF AllowNew
  <2>2. /\ query'[a].name = query[a].name /\ query'[a].ips = query[a].ips
        /\ \A b \in Actors \ {a} : query'[b] = query[b]
        /\ query[a].ips \subseteq Ips
    <3>1. query[a].pc \in UpdatePhases /\ "record" \in UpdatePhases
      BY <2>1 DEF UpdatePhases
    <3>2. [query[a] EXCEPT !.pc = "record"] \in QueryType
      BY <3>1, QueryFields
    <3> QED
      BY <2>1, <3>1, <3>2, QueryFields, QueryUpdate
  <2>3. query[a].ips \subseteq Good
    BY <2>1, <2>2 DEF Vouching, Writing, Good
  <2>4. Good' = Good
    BY <2>1 DEF Good
  <2>5. \A b \in Actors : query'[b].name = query[b].name /\ query'[b].ips = query[b].ips
                           /\ (Writing(b)' => Writing(b))
                           /\ (query'[b].pc \in {"allow", "record"}
                                 => query[b].pc \in {"allow", "record"})
    BY <2>1, <2>2 DEF Writing
  <2> QED
    BY <2>1, <2>3, <2>4, <2>5 DEF Vouching
<1>15. ASSUME NEW a \in Actors, RecordNew(a) PROVE Vouching'
  BY <1>15, <1>q, VouchingQuery DEF RecordNew
<1>16. CASE Crash
  BY <1>16, VouchingKept DEF Crash
<1>17. CASE UNCHANGED vars
  BY <1>17, VouchingKept DEF vars
<1> QED
  BY NextCases, <1>1, <1>2, <1>3, <1>4, <1>6, <1>7, <1>8, <1>9, <1>10, <1>11,
     <1>12, <1>13, <1>14, <1>15, <1>16, <1>17

\* The unsynchronised updates of allowedIps and domainMap can lose rules and
\* keep old addresses, but never let a request through to an address that is
\* neither a rule nor an answer for a listed name.
THEOREM RulesSafety == Spec => []OnlyVouched
<1>1. ControlInv /\ Vouching => OnlyVouched
  BY DEF Vouching, Good, OnlyVouched
<1> QED
  BY <1>1, VouchingInit, ControlInvariant, VouchingStep, PTL DEF Spec

-----------------------------------------------------------------------------
(* A literal rule is lost only to a listed name. *)

\* The address was an answer for a listed name.
Answer(i) == \E d \in fw.domains : <<d, i>> \in vouched

\* Under a rules policy only answers are ever cleaned out of allowedIps: what
\* domainMap remembers of a name are answers for it, and a literal rule that is
\* no longer allowed is one of them.
Literal ==
  RulesPolicy =>
    /\ \A i \in fw.ips : i \in allowedIps \/ Answer(i)
    /\ \A d \in fw.domains : \A i \in domainMap[d] : <<d, i>> \in vouched
    /\ \A c \in Conns : pc[c] = "dropped" /\ req[c].dst \in fw.ips => Answer(req[c].dst)

\* A step that takes nothing out of the maps and drops no request.
LEMMA LiteralKept ==
  ASSUME Literal, UNCHANGED <<fw, domainMap>>, allowedIps \subseteq allowedIps',
         vouched \subseteq vouched',
         \A c \in Conns : pc'[c] = "dropped" => pc[c] = "dropped" /\ req'[c] = req[c]
  PROVE  Literal'
<1>1. \A i : Answer(i) => Answer(i)'
  BY DEF Answer
<1>2. RulesPolicy' => RulesPolicy
  BY DEF RulesPolicy, NoRules
<1> QED
  BY <1>1, <1>2 DEF Literal

\* A request whose destination is not allowed is dropped, or asked about again.
LEMMA LiteralDeny ==
  ASSUME TypeOK, Literal, NEW c \in Conns, req[c].dst \notin allowedIps, Deny(c),
         UNCHANGED <<fw, allowedIps, domainMap, vouched, req>>
  PROVE  Literal'
<1>1. RulesPolicy' => RulesPolicy
  BY DEF RulesPolicy, NoRules
<1>2. \A i : Answer(i)' <=> Answer(i)
  BY DEF Answer
<1>3. \A b \in Conns : b # c => pc'[b] = pc[b]
  BY DEF Deny, TypeOK
<1> QED
  BY <1>1, <1>2, <1>3 DEF Literal

LEMMA LiteralStep == ControlInv /\ Vouching /\ Literal /\ [Next]_vars => Literal'
<1> SUFFICES ASSUME ControlInv, Vouching, Literal, [Next]_vars PROVE Literal'
  OBVIOUS
<1>f. fw' = fw
  BY PolicyFixed
<1> SUFFICES ASSUME RulesPolicy PROVE Literal'
  BY <1>f DEF Literal, RulesPolicy, NoRules
<1> USE DEF ControlInv
<1>0. fw.max < 0 /\ fw.max \in Int
  BY FirewallAssumption DEF RulesPolicy, TypeOK, Policy
<1>1. ASSUME NEW c \in Conns, NEW k \in Kinds, NEW i \in Ips, Forward(c, k, i)
      PROVE  Literal'
  BY <1>1, LiteralKept DEF Forward, TypeOK
<1>2. ASSUME NEW c \in Conns, Lock(c) PROVE Literal'
  BY <1>2, LiteralKept DEF Lock, TypeOK
<1>3. ASSUME NEW c \in Conns, CheckLimit(c) PROVE Literal'
  BY <1>0, <1>3 DEF CheckLimit
<1>4. ASSUME NEW c \in Conns, Count(c) PROVE Literal'
  BY <1>0, <1>4 DEF Count, Control
<1>5. ASSUME NEW c \in Conns, DecideFast(c) PROVE Literal'
  BY <1>5, LiteralKept DEF DecideFast, Grant, TypeOK
<1>6. ASSUME NEW c \in Conns, DecideSlow(c) PROVE Literal'
  BY <1>6, LiteralKept DEF DecideSlow, TypeOK
<1>7. ASSUME NEW c \in Conns, NEW d \in Domains, solveDomainName(c, d) PROVE Literal'
  BY <1>7, LiteralKept DEF solveDomainName
<1>8. ASSUME NEW c \in Conns, DecideSolved(c) PROVE Literal'
  <2>1. CASE req[c].dst \in allowedIps
    BY <1>8, <2>1, LiteralKept DEF DecideSolved, Grant, TypeOK
  <2>2. CASE req[c].dst \notin allowedIps
    BY <1>8, <2>2, LiteralDeny DEF DecideSolved
  <2> QED
    BY <2>1, <2>2
<1>9. ASSUME NEW c \in Conns, Accept(c) PROVE Literal'
  BY <1>9, LiteralKept DEF Accept
<1>10. ASSUME NEW a \in Queries, NEW d \in Domains, handleDNS(a, d) PROVE Literal'
  BY <1>10, LiteralKept DEF handleDNS
<1>11. ASSUME NEW a \in Actors, NEW ips \in SUBSET Ips, Lookup(a, ips) PROVE Literal'
  BY <1>11, LiteralKept DEF Lookup
<1>12. ASSUME NEW a \in Actors, CleanPrevious(a) PROVE Literal'
  <2>1. UNCHANGED <<fw, domainMap, pc, req, vouched>>
    BY <1>12 DEF CleanPrevious
  <2>2. CASE query[a].name \in DOMAIN domainMap
    <3>1. query[a].name \in fw.domains
      BY <2>2 DEF TypeOK
    <3>2. \A i \in allowedIps : i \in allowedIps' \/ Answer(i)
      BY <1>12, <2>2, <3>1 DEF CleanPrevious, Literal, Answer
    <3>3. \A i : Answer(i)' <=> Answer(i)
      BY <2>1 DEF Answer
    <3> QED
      BY <2>1, <3>2, <3>3 DEF Literal
  <2>3. CASE query[a].name \notin DOMAIN domainMap
    BY <1>12, <2>1, <2>3, LiteralKept DEF CleanPrevious
  <2> QED
    BY <2>2, <2>3
<1>13. ASSUME NEW a \in Actors, AllowNew(a) PROVE Literal'
  BY <1>13, LiteralKept DEF AllowNew
<1>14. ASSUME NEW a \in Actors, RecordNew(a) PROVE Literal'
  <2>1. /\ UNCHANGED <<fw, allowedIps, pc, req, vouched>>
        /\ query[a].pc = "record"
        /\ domainMap' = [domainMap EXCEPT ![query[a].name] = query[a].ips]
    BY <1>14 DEF RecordNew
  <2>2. /\ query[a].name \in fw.domains
        /\ \A i \in query[a].ips : <<query[a].name, i>> \in vouched
    BY <2>1 DEF Vouching, Writing
  <2>3. \A d \in fw.domains : \A i \in domainMap'[d] : <<d, i>> \in vouched
    BY <2>1, <2>2 DEF TypeOK, Literal
  <2>4. \A i : Answer(i)' <=> Answer(i)
    BY <2>1 DEF Answer
  <2> QED
    BY <2>1, <2>3, <2>4 DEF Literal
<1>15. CASE Crash
  BY <1>15, LiteralKept DEF Crash
<1>16. CASE UNCHANGED vars
  BY <1>16, LiteralKept DEF vars
<1> QED
  BY NextCases, <1>1, <1>2, <1>3, <1>4, <1>5, <1>6, <1>7, <1>8, <1>9, <1>10,
     <1>11, <1>12, <1>13, <1>14, <1>15, <1>16

\* However the unlocked updates interleave, a request to an address that is a
\* rule by itself is dropped only if the address was also an answer for a
\* listed name.
THEOREM LiteralSafety == Spec => []LiteralRuleHonoured
<1>1. Init => Vouching /\ Literal
  <2> SUFFICES ASSUME Init PROVE Vouching /\ Literal
    OBVIOUS
  <2>1. Vouching
    BY VouchingInit
  <2>2. fw.ips \subseteq allowedIps /\ \A d \in fw.domains : domainMap[d] = {}
    BY DEF Init
  <2>3. \A c \in Conns : pc[c] # "dropped"
    BY DEF Init
  <2> QED
    BY <2>1, <2>2, <2>3 DEF Literal
<1>2. Literal => LiteralRuleHonoured
  BY DEF Literal, Answer, LiteralRuleHonoured
<1> QED
  BY <1>1, <1>2, ControlInvariant, VouchingStep, LiteralStep, PTL DEF Spec

=============================================================================
