------------------------- MODULE FirewallPolicyProofs -------------------------
(***************************************************************************)
(* Proofs about FirewallPolicy, for every set of rules, of rule files and  *)
(* of limits, for a table of any size, and for whatever a rule written     *)
(* behind the table leaves there.                                          *)
(***************************************************************************)
EXTENDS FirewallPolicy, TLAPS

Table == [rows: [1..MAX_RULES -> Row], count: Nat,
          max_connections: Limits \cup {-1} \cup Garbage, mode: Modes]

(***************************************************************************)
(* The inductive invariant.                                                *)
(***************************************************************************)

\* Every row of the table that counts was written.
RowsWritten(fw) == \A i \in 1..MAX_RULES : i <= fw.count => fw.rows[i].text \in Texts

\* A table that was never reset holds exactly the rules in A, each in a row of
\* its own, and nothing beyond them.
Holds(fw, A) ==
  /\ \A i \in 1..fw.count : /\ fw.rows[i].text \in A
                            /\ fw.rows[i].size = Size[fw.rows[i].text]
  /\ \A r \in A : \E i \in 1..fw.count : fw.rows[i].text = r
  /\ \A i \in 1..MAX_RULES : i > fw.count => fw.rows[i].size = 0

\* What the table has to do with the rules that were accepted and with the
\* limit.  An overrun needs a full table, so every row was written then; but
\* count may point anywhere afterwards.
TableOf(fw, A, lim, over, mixed) ==
  /\ RowsWritten(fw)
  /\ over => \A i \in 1..MAX_RULES : fw.rows[i].text \in Texts
  /\ fw.count = 0 => A = {}
  /\ ~over => fw.count <= MAX_RULES /\ fw.max_connections = lim
  /\ ~over /\ ~mixed => Holds(fw, A)

\* What is dumped, read and enforced is what the table holds.
PolicyChain ==
  /\ phase = "open" => file = NoFile
  /\ phase \in {"open", "dumped"} => fwRules = [max |-> 0, rules |-> <<>>]
  /\ file # NoFile =>
       file = [max |-> fw_rules.max_connections,
               rules |-> IF fw_rules.max_connections < 0 THEN Lines ELSE <<>>]
  /\ phase \in {"read", "ready"} =>
       fwRules = IF file # NoFile THEN file
                 ELSE IF fallback # NoFile THEN fallback
                 ELSE [max |-> 0, rules |-> <<>>]
  /\ phase = "ready" =>
       policy = [max |-> fwRules.max,
                 ips |-> Range(fwRules.rules) \cap Ipv4,
                 domains |-> Range(fwRules.rules) \ Ipv4]

PolicyInv ==
  /\ TypeOK
  /\ TableOf(fw_rules, asked, limit, overrun, reused)
  /\ reading # <<>> => phase = "open"
  /\ PolicyChain

(***************************************************************************)
(* Lemmas about the operators on the table.                                *)
(***************************************************************************)

\* The numbers and the rows of a table.
LEMMA TableFields ==
  ASSUME NEW fw \in Table
  PROVE  /\ fw.count \in Nat
         /\ fw.max_connections \in Int
         /\ \A i \in 1..MAX_RULES : fw.rows[i].size \in Nat
<1>1. Limits \subseteq Int /\ Garbage \subseteq Int /\ -1 \in Int
  BY PolicyAssumption
<1>2. /\ fw.count \in Nat /\ fw.max_connections \in Limits \cup {-1} \cup Garbage
      /\ fw.rows \in [1..MAX_RULES -> Row]
  BY DEF Table
<1>3. fw.max_connections \in Int
  BY <1>1, <1>2
<1>4. ASSUME NEW i \in 1..MAX_RULES PROVE fw.rows[i].size \in Nat
  <2>1. fw.rows[i].size \in 0..MAX_RULE_LENGTH
    BY <1>2 DEF Row
  <2>2. QED
    BY <2>1, PolicyAssumption
<1>5. QED
  BY <1>2, <1>3, <1>4

\* What a rule that is copied leaves in a row.
LEMMA CopyRow ==
  ASSUME NEW row \in Row, NEW rule \in Rules, Size[rule] <= MAX_RULE_LENGTH
  PROVE  /\ memcpy(row, rule) \in Row
         /\ memcpy(row, rule).text \in Texts
         /\ row.size = 0 => memcpy(row, rule) = [text |-> rule, size |-> Size[rule]]
<1>1. row.size \in 0..MAX_RULE_LENGTH /\ Size[rule] \in Nat /\ MAX_RULE_LENGTH \in Nat
  BY PolicyAssumption DEF Row
<1>2. Size[rule] \in 0..MAX_RULE_LENGTH /\ rule \in Texts /\ Mixed \in Texts
  BY <1>1 DEF Texts
<1>3. QED
  BY <1>1, <1>2 DEF memcpy, Row

\* What set_firewall_rule does to a table: nothing, one more row, or the fields
\* behind the rows.
LEMMA RuleOutcome ==
  ASSUME NEW fw \in Table, NEW rule \in Rules, NEW t \in set_firewall_rule(rule, fw)
  PROVE  /\ t \in Table
         /\ ~Accepted(rule, fw) => t = fw
         /\ Accepted(rule, fw) /\ ~Overruns(rule, fw) =>
              /\ fw.count + 1 \in 1..MAX_RULES
              /\ t.max_connections = fw.max_connections
              /\ t.count = fw.count + 1
              /\ t.rows[fw.count + 1] = memcpy(fw.rows[fw.count + 1], rule)
              /\ \A i \in 1..MAX_RULES : i # fw.count + 1 => t.rows[i] = fw.rows[i]
         /\ Overruns(rule, fw) => t.rows = fw.rows /\ t.count >= 1
<1>1. CASE Accepted(rule, fw) /\ ~Overruns(rule, fw)
  <2>1. fw.count + 1 \in 1..MAX_RULES
    BY <1>1, PolicyAssumption DEF Table, Accepted, Overruns
  <2>2. memcpy(fw.rows[fw.count + 1], rule) \in Row
    BY <1>1, <2>1, CopyRow DEF Table, Accepted
  <2> DEFINE row == memcpy(fw.rows[fw.count + 1], rule)
  <2>3. t = [fw EXCEPT !.mode = "Enabled", !.rows[fw.count + 1] = row,
                       !.count = fw.count + 1]
    BY <1>1 DEF set_firewall_rule, Table
  <2> HIDE DEF row
  <2>4. t = [rows |-> [fw.rows EXCEPT ![fw.count + 1] = row], count |-> fw.count + 1,
             max_connections |-> fw.max_connections, mode |-> "Enabled"]
    BY <2>1, <2>3 DEF Table
  <2>5. row \in Row
    BY <2>2 DEF row
  <2>6. t \in Table
    <3>1. [fw.rows EXCEPT ![fw.count + 1] = row] \in [1..MAX_RULES -> Row]
      BY <2>1, <2>5 DEF Table
    <3>2. fw.count + 1 \in Nat /\ "Enabled" \in Modes
      BY <2>1 DEF Modes
    <3>3. QED
      BY <2>4, <3>1, <3>2 DEF Table
  <2>7. /\ t.rows[fw.count + 1] = row
        /\ \A i \in 1..MAX_RULES : i # fw.count + 1 => t.rows[i] = fw.rows[i]
    <3>1. fw.rows \in [1..MAX_RULES -> Row]
      BY DEF Table
    <3>2. t.rows = [fw.rows EXCEPT ![fw.count + 1] = row]
      BY <2>4
    <3>3. QED
      BY <2>1, <3>1, <3>2
  <2>8. t.count = fw.count + 1 /\ t.max_connections = fw.max_connections
    BY <2>4
  <2>9. QED
    BY <1>1, <2>1, <2>6, <2>7, <2>8 DEF row
<1>2. CASE Overruns(rule, fw)
  <2>1. Accepted(rule, fw)
    BY <1>2 DEF Overruns
  <2>2. /\ t = [rows |-> t.rows, count |-> t.count, max_connections |-> t.max_connections,
                mode |-> t.mode]
        /\ t.rows = fw.rows /\ t.count \in {c + 1 : c \in Garbage \cap Nat}
        /\ t.max_connections \in Garbage \cup {fw.max_connections}
        /\ t.mode \in Modes \cup {"Enabled"}
    BY <1>2, <2>1 DEF set_firewall_rule, Overwritten
  <2>3. t.count \in Nat /\ t.count >= 1
    BY <2>2
  <2>4. t.mode \in Modes /\ t.max_connections \in Limits \cup {-1} \cup Garbage
    BY <2>2 DEF Modes, Table
  <2>5. t \in Table
    BY <2>2, <2>3, <2>4 DEF Table
  <2>6. QED
    BY <1>2, <2>1, <2>2, <2>3, <2>5
<1>3. CASE ~Accepted(rule, fw)
  BY <1>3 DEF set_firewall_rule, Overruns
<1>4. QED
  BY <1>1, <1>2, <1>3

\* An accepted rule that fits is in the table afterwards, with the others; one
\* that does not fit leaves every row written.
LEMMA RuleKeeps ==
  ASSUME NEW fw \in Table, NEW rule \in Rules, NEW A \in SUBSET Rules, NEW lim,
         NEW over \in BOOLEAN, NEW mixed \in BOOLEAN, TableOf(fw, A, lim, over, mixed),
         NEW t \in set_firewall_rule(rule, fw),
         NEW o2 \in BOOLEAN, o2 <=> (over \/ Overruns(rule, fw)),
         NEW A2, A2 = IF Accepted(rule, fw) THEN A \cup {rule} ELSE A
  PROVE  TableOf(t, A2, lim, o2, mixed)
<1> DEFINE k == fw.count + 1
<1>0. fw.count \in Nat /\ MAX_RULES \in Nat
  BY PolicyAssumption DEF Table
<1>1. CASE ~Accepted(rule, fw)
  BY <1>1, RuleOutcome DEF Overruns
<1>2. CASE Overruns(rule, fw)
  <2>1. t.rows = fw.rows /\ t.count >= 1 /\ t \in Table
    BY <1>2, RuleOutcome
  <2>2. \A i \in 1..MAX_RULES : fw.rows[i].text \in Texts
    BY <1>0, <1>2 DEF Overruns, TableOf, RowsWritten
  <2>3. t.count \in Nat /\ t.count # 0
    BY <2>1 DEF Table
  <2>4. QED
    BY <1>2, <2>1, <2>2, <2>3 DEF TableOf, RowsWritten
<1>3. CASE Accepted(rule, fw) /\ ~Overruns(rule, fw)
  <2>1. /\ k \in 1..MAX_RULES
        /\ t.max_connections = fw.max_connections
        /\ t.count = k
        /\ t.rows[k] = memcpy(fw.rows[k], rule)
        /\ \A i \in 1..MAX_RULES : i # k => t.rows[i] = fw.rows[i]
    BY <1>3, RuleOutcome
  <2>2. fw.rows[k] \in Row
    BY <2>1 DEF Table
  <2>3. t.rows[k].text \in Texts
    BY <1>3, <2>1, <2>2, CopyRow DEF Accepted
  <2>4. 1..fw.count \subseteq 1..MAX_RULES /\ 1..k = (1..fw.count) \cup {k}
    BY <1>0, <2>1
  <2>5. \A i \in 1..MAX_RULES : i <= k => i = k \/ i <= fw.count
    BY <1>0
  <2>6. A2 = A \cup {rule} /\ (o2 <=> over)
    BY <1>3
  <2>7. ASSUME ~over, ~mixed PROVE Holds(t, A2)
    <3>1. Holds(fw, A)
      BY <2>7 DEF TableOf
    <3>2. fw.rows[k].size = 0
      BY <1>0, <2>1, <3>1 DEF Holds
    <3>3. t.rows[k] = [text |-> rule, size |-> Size[rule]]
      BY <1>3, <2>1, <2>2, <3>2, CopyRow DEF Accepted
    <3> HIDE DEF k
    <3>4. \A i \in 1..t.count : /\ t.rows[i].text \in A \cup {rule}
                                /\ t.rows[i].size = Size[t.rows[i].text]
      BY <2>1, <2>4, <3>1, <3>3 DEF Holds
    <3>5. ASSUME NEW r \in A \cup {rule} PROVE \E i \in 1..t.count : t.rows[i].text = r
      <4>1. CASE r = rule
        BY <2>1, <2>4, <3>3, <4>1
      <4>2. CASE r \in A
        <5>1. PICK i \in 1..fw.count : fw.rows[i].text = r
          BY <3>1, <4>2 DEF Holds
        <5>2. i \in 1..MAX_RULES /\ i # k /\ i \in 1..k
          BY <1>0, <2>4, <5>1 DEF k
        <5>3. QED
          BY <2>1, <5>1, <5>2
      <4>3. QED
        BY <4>1, <4>2
    <3>6. \A i \in 1..MAX_RULES : i > t.count => t.rows[i].size = 0
      BY <1>0, <2>1, <3>1 DEF Holds, k
    <3>7. QED
      BY <2>6, <3>4, <3>5, <3>6 DEF Holds
  <2>8. RowsWritten(t) /\ (over => \A i \in 1..MAX_RULES : t.rows[i].text \in Texts)
    <3> HIDE DEF k
    <3> QED
      BY <2>1, <2>3, <2>5 DEF TableOf, RowsWritten
  <2>9. t.count # 0 /\ t.count <= MAX_RULES
    BY <1>0, <2>1
  <2>10. QED
    BY <2>1, <2>6, <2>7, <2>8, <2>9 DEF TableOf
<1>4. QED
  BY <1>1, <1>2, <1>3

(***************************************************************************)
(* The invariant.                                                          *)
(***************************************************************************)

\* What DumpRules prints is a list of texts, one for each row that counts.
LEMMA LinesType ==
  ASSUME fw_rules \in Table, RowsWritten(fw_rules)
  PROVE  /\ Lines \in Seq(Texts)
         /\ Range(Lines) = {Printed(i) : i \in 1..fw_rules.count}
<1>1. fw_rules.count \in Nat
  BY DEF Table
<1>2. \A i \in 1..fw_rules.count : Printed(i) \in Texts
  BY <1>1, PolicyAssumption DEF RowsWritten, Printed, Texts
<1>3. Lines \in [1..fw_rules.count -> Texts]
  BY <1>2 DEF Lines
<1>4. Lines \in Seq(Texts)
  BY <1>1, <1>3
<1>5. QED
  BY <1>4 DEF Lines, Range

\* A rule file is not NoFile, and its rules are a set of texts.
LEMMA FileFacts ==
  /\ \A f \in FileType : f # NoFile /\ f.max \in Int /\ Range(f.rules) \subseteq Texts
  /\ [max |-> 0, rules |-> <<>>] \in FileType
  /\ Range(<<>>) = {}
<1>1. ASSUME NEW f \in FileType PROVE f # NoFile /\ f.max \in Int /\ f.rules \in Seq(Texts)
  BY PolicyAssumption DEF FileType
<1>2. ASSUME NEW q \in Seq(Texts) PROVE Range(q) \subseteq Texts
  BY DEF Range
<1>3. [max |-> 0, rules |-> <<>>] \in FileType
  BY DEF FileType
<1>4. Range(<<>>) = {}
  BY DEF Range
<1>5. QED
  BY <1>1, <1>2, <1>3, <1>4

\* Init establishes the invariant.
LEMMA PolicyInit == Init => PolicyInv
<1> SUFFICES ASSUME Init PROVE PolicyInv
  OBVIOUS
<1>1. fw_rules \in Table
  <2>1. EmptyRow \in Row
    BY PolicyAssumption DEF EmptyRow, Row
  <2>2. QED
    BY <2>1 DEF Init, Table, Modes
<1>2. policy \in [max: Int, ips: SUBSET Ipv4, domains: SUBSET Texts]
  BY DEF Init, NoPolicy
<1>3. overrun \in BOOLEAN /\ reused \in BOOLEAN
  BY Zenon DEF Init
<1>4. fwRules \in FileType
  BY FileFacts DEF Init
<1>5. TypeOK
  BY <1>1, <1>2, <1>3, <1>4, PolicyAssumption DEF Init, TypeOK, Table
<1>6. TableOf(fw_rules, asked, limit, overrun, reused)
  BY PolicyAssumption DEF Init, TableOf, RowsWritten, Holds, EmptyRow
<1>7. PolicyChain
  BY DEF Init, PolicyChain
<1>8. QED
  BY <1>5, <1>6, <1>7 DEF Init, PolicyInv

\* A call by the application leaves everything but the table alone.
LEMMA CallKeeps ==
  ASSUME PolicyInv, phase = "open",
         UNCHANGED <<phase, file, fallback, fwRules, policy>>, calls' \in 0..MaxCalls,
         fw_rules' \in Table, reading' \in Seq(Rules \cup {Junk}),
         asked' \in SUBSET Rules, limit' \in Limits \cup {-1},
         overrun' \in BOOLEAN, reused' \in BOOLEAN,
         TableOf(fw_rules', asked', limit', overrun', reused')
  PROVE  PolicyInv'
<1>1. TypeOK'
  BY PolicyAssumption DEF PolicyInv, TypeOK, Table, TableOf
<1>2. PolicyChain'
  BY DEF PolicyInv, PolicyChain
<1>3. TableOf(fw_rules, asked, limit, overrun, reused)'
  BY DEF TableOf, RowsWritten, Holds
<1>4. QED
  BY <1>1, <1>2, <1>3 DEF PolicyInv

\* A call or a line that sets a rule.
LEMMA SetRuleKeeps ==
  ASSUME PolicyInv, NEW rule \in Rules, SetRule(rule), phase = "open",
         UNCHANGED <<phase, file, fallback, fwRules, policy>>, calls' \in 0..MaxCalls,
         reading' \in Seq(Rules \cup {Junk})
  PROVE  PolicyInv'
<1>0. /\ fw_rules \in Table /\ asked \in SUBSET Rules /\ limit \in Limits \cup {-1}
      /\ overrun \in BOOLEAN /\ reused \in BOOLEAN
      /\ TableOf(fw_rules, asked, limit, overrun, reused)
  BY DEF PolicyInv, TypeOK, Table
<1>1. /\ fw_rules' \in set_firewall_rule(rule, fw_rules)
      /\ asked' = IF Accepted(rule, fw_rules) THEN asked \cup {rule} ELSE asked
      /\ UNCHANGED <<limit, reused>>
  BY DEF SetRule
<1>2. overrun' \in BOOLEAN /\ (overrun' <=> (overrun \/ Overruns(rule, fw_rules)))
  <2>1. overrun' = (overrun \/ Overruns(rule, fw_rules))
    BY DEF SetRule
  <2>2. QED
    BY <2>1, Zenon
<1>3. fw_rules' \in Table
  BY <1>0, <1>1, RuleOutcome
<1>4. TableOf(fw_rules', asked', limit, overrun', reused)
  BY <1>0, <1>1, <1>2, RuleKeeps
<1>5. asked' \in SUBSET Rules
  BY <1>0, <1>1
<1>6. QED
  BY <1>0, <1>1, <1>2, <1>3, <1>4, <1>5, CallKeeps

\* Every step preserves the invariant.
LEMMA PolicyStep == PolicyInv /\ [Next]_vars => PolicyInv'
<1> SUFFICES ASSUME PolicyInv, [Next]_vars PROVE PolicyInv'
  OBVIOUS
<1>0. /\ fw_rules \in Table /\ asked \in SUBSET Rules /\ limit \in Limits \cup {-1}
      /\ overrun \in BOOLEAN /\ reused \in BOOLEAN
      /\ reading \in Seq(Rules \cup {Junk}) /\ calls \in 0..MaxCalls
      /\ TableOf(fw_rules, asked, limit, overrun, reused)
  BY DEF PolicyInv, TypeOK, Table
<1>C. Call => /\ phase = "open" /\ UNCHANGED <<phase, file, fallback, fwRules, policy>>
              /\ calls' \in 0..MaxCalls
  BY <1>0, PolicyAssumption DEF Call
<1>1. ASSUME NEW n \in Limits, MiniSbxAllowMaxConnections(n) PROVE PolicyInv'
  <2>0. /\ Call /\ limit' = n /\ UNCHANGED <<reading, asked, overrun, reused>>
        /\ fw_rules' = set_max_connections(n, fw_rules)
    BY <1>1 DEF MiniSbxAllowMaxConnections
  <2>1. fw_rules' = [rows |-> fw_rules.rows, count |-> fw_rules.count,
                     max_connections |-> n, mode |-> "MaxConnections"]
    BY <1>0, <2>0 DEF set_max_connections, Table
  <2>2. fw_rules' \in Table
    BY <1>0, <2>1 DEF Table, Modes
  <2>3. TableOf(fw_rules', asked, n, overrun, reused)
    BY <1>0, <2>1 DEF TableOf, RowsWritten, Holds
  <2>4. QED
    BY <1>0, <1>C, <2>0, <2>2, <2>3, CallKeeps
<1>2. CASE MiniSbxAllowAllDomains
  <2>0. /\ Call /\ UNCHANGED <<reading, limit, overrun>>
        /\ fw_rules' = reset_firewall_rules(fw_rules)
    BY <1>2 DEF MiniSbxAllowAllDomains
  <2>1. CASE fw_rules.mode = "Enabled"
    <3>1. UNCHANGED <<fw_rules, asked, reused>>
      BY <1>2, <2>1 DEF MiniSbxAllowAllDomains, reset_firewall_rules
    <3>2. QED
      BY <1>0, <1>C, <2>0, <3>1, CallKeeps
  <2>2. CASE fw_rules.mode # "Enabled"
    <3>1. fw_rules' = [rows |-> fw_rules.rows, count |-> 0,
                       max_connections |-> fw_rules.max_connections, mode |-> "Disabled"]
      BY <1>0, <2>0, <2>2 DEF reset_firewall_rules, Table
    <3>2. fw_rules' \in Table
      BY <1>0, <3>1 DEF Table, Modes
    <3>3. asked' = {} /\ reused' = (reused \/ fw_rules.count > 0)
      BY <1>2, <2>2 DEF MiniSbxAllowAllDomains
    <3>4. reused' \in BOOLEAN
      BY <3>3, Zenon
    <3>5. ~reused' => ~reused /\ fw_rules.count = 0
      <4>1. ~reused' => ~reused /\ ~(fw_rules.count > 0)
        BY <3>3, Zenon
      <4>2. fw_rules.count \in Nat
        BY <1>0, TableFields
      <4>3. QED
        BY <4>1, <4>2
    <3>6. TableOf(fw_rules', asked', limit, overrun, reused')
      BY <1>0, <3>1, <3>3, <3>5, PolicyAssumption DEF TableOf, RowsWritten, Holds
    <3>7. QED
      BY <1>0, <1>C, <2>0, <3>2, <3>3, <3>4, <3>6, CallKeeps
  <2>3. QED
    BY <2>1, <2>2
<1>3. ASSUME NEW rule \in Rules, MiniSbxAllowDomain(rule) PROVE PolicyInv'
  BY <1>0, <1>3, <1>C, SetRuleKeeps DEF MiniSbxAllowDomain
<1>4. ASSUME NEW lines \in RuleFiles, MiniSbxAllowConnections(lines) PROVE PolicyInv'
  <2>1. lines \in Seq(Rules \cup {Junk})
    BY PolicyAssumption
  <2>2. Call /\ reading' = lines /\ UNCHANGED <<fw_rules, asked, limit, overrun, reused>>
    BY <1>4 DEF MiniSbxAllowConnections, history
  <2>3. QED
    BY <1>0, <1>C, <2>1, <2>2, CallKeeps
<1>5. CASE ReadAllowedConnections
  <2>1. /\ reading # <<>> /\ reading' = Tail(reading)
        /\ UNCHANGED <<phase, file, fallback, fwRules, policy, calls>>
    BY <1>5 DEF ReadAllowedConnections
  <2>2. phase = "open"
    BY <2>1 DEF PolicyInv
  <2>3. Head(reading) \in Rules \cup {Junk} /\ reading' \in Seq(Rules \cup {Junk})
    BY <1>0, <2>1
  <2>4. CASE Head(reading) = Junk
    <3>1. UNCHANGED <<fw_rules, asked, limit, overrun, reused>>
      BY <1>5, <2>4 DEF ReadAllowedConnections, history
    <3>2. QED
      BY <1>0, <2>1, <2>2, <2>3, <3>1, CallKeeps
  <2>5. CASE Head(reading) # Junk
    <3>1. SetRule(Head(reading)) /\ Head(reading) \in Rules
      BY <1>5, <2>3, <2>5 DEF ReadAllowedConnections
    <3>2. QED
      BY <1>0, <2>1, <2>2, <2>3, <3>1, SetRuleKeeps
  <2>6. QED
    BY <2>4, <2>5
<1>6. CASE DumpRules \/ DumpRulesCrashes
  <2>1. /\ phase = "open" /\ phase' \in {"dumped", "crashed"} /\ reading = <<>>
        /\ UNCHANGED <<fw_rules, reading, fallback, fwRules, policy, asked, limit, overrun,
                       reused, calls>>
    BY <1>6 DEF DumpRules, DumpRulesCrashes, Starts, history
  <2>2. TableOf(fw_rules, asked, limit, overrun, reused)' /\ (Lines = Lines')
    BY <1>0, <2>1 DEF TableOf, RowsWritten, Holds, Lines, Printed
  <2>3. Lines \in Seq(Texts)
    BY <1>0, <2>1, LinesType DEF TableOf
  <2>4. fw_rules.max_connections \in Int
    BY <1>0, TableFields
  <2> DEFINE dump == [max |-> fw_rules.max_connections,
                      rules |-> IF fw_rules.max_connections < 0 THEN Lines ELSE <<>>]
  <2>5. dump \in FileType
    BY <2>3, <2>4 DEF FileType
  <2>6. file' = NoFile \/ file' = dump
    BY <1>6, <2>1 DEF DumpRules, DumpRulesCrashes, PolicyInv, PolicyChain
  <2>7. file' \in FileType \cup {NoFile}
    <3> HIDE DEF dump
    <3> QED
      BY <2>5, <2>6
  <2>8. TypeOK'
    BY <2>1, <2>7 DEF PolicyInv, TypeOK
  <2>9. PolicyChain'
    BY <2>1, <2>2, <2>6 DEF PolicyInv, PolicyChain
  <2>10. QED
    BY <2>1, <2>2, <2>8, <2>9 DEF PolicyInv
<1>7. CASE ParseArg
  <2>1. /\ phase = "dumped" /\ phase' = "read"
        /\ UNCHANGED <<fw_rules, reading, file, fallback, policy, asked, limit, overrun,
                       reused, calls>>
        /\ fwRules' = IF file # NoFile THEN file
                      ELSE IF fallback # NoFile THEN fallback
                      ELSE fwRules
    BY <1>7 DEF ParseArg, history
  <2>2. fwRules' \in FileType
    BY <2>1, PolicyAssumption DEF PolicyInv, TypeOK
  <2>3. TypeOK'
    BY <2>1, <2>2 DEF PolicyInv, TypeOK
  <2>4. TableOf(fw_rules, asked, limit, overrun, reused)'
    BY <1>0, <2>1 DEF TableOf, RowsWritten, Holds
  <2>5. PolicyChain'
    BY <2>1 DEF PolicyInv, PolicyChain, Lines, Printed
  <2>6. QED
    BY <2>1, <2>3, <2>4, <2>5 DEF PolicyInv
<1>8. CASE InitFirewall
  <2>1. /\ phase = "read" /\ phase' = "ready"
        /\ UNCHANGED <<fw_rules, reading, file, fallback, fwRules, asked, limit, overrun,
                       reused, calls>>
        /\ policy' = [max |-> fwRules.max,
                      ips |-> Range(fwRules.rules) \cap Ipv4,
                      domains |-> Range(fwRules.rules) \ Ipv4]
    BY <1>8 DEF InitFirewall, history
  <2>2. policy' \in [max: Int, ips: SUBSET Ipv4, domains: SUBSET Texts]
    <3>1. fwRules.max \in Int /\ Range(fwRules.rules) \subseteq Texts
      BY FileFacts DEF PolicyInv, TypeOK
    <3>2. QED
      BY <2>1, <3>1
  <2>3. TypeOK'
    BY <2>1, <2>2 DEF PolicyInv, TypeOK
  <2>4. TableOf(fw_rules, asked, limit, overrun, reused)'
    BY <1>0, <2>1 DEF TableOf, RowsWritten, Holds
  <2>5. PolicyChain'
    BY <2>1 DEF PolicyInv, PolicyChain, Lines, Printed
  <2>6. QED
    BY <2>1, <2>3, <2>4, <2>5 DEF PolicyInv
<1>9. CASE UNCHANGED vars
  <2>1. TableOf(fw_rules, asked, limit, overrun, reused)'
    BY <1>0, <1>9 DEF TableOf, RowsWritten, Holds, vars, history
  <2>2. TypeOK' /\ PolicyChain'
    BY <1>9 DEF PolicyInv, TypeOK, PolicyChain, Lines, Printed, vars, history
  <2>3. QED
    BY <1>9, <2>1, <2>2 DEF PolicyInv, vars
<1>10. QED
  BY <1>1, <1>2, <1>3, <1>4, <1>5, <1>6, <1>7, <1>8, <1>9 DEF Next, Finished

\* The invariant is inductive.
LEMMA PolicyInvariant == Spec => []PolicyInv
BY PolicyInit, PolicyStep, PTL DEF Spec

\* No rule is longer than its row, count stays within the rows until a rule
\* overruns them, and everything that is made of the table is well typed, also
\* after that.
THEOREM PolicyTypeCorrect == Spec => []TypeOK
<1>1. PolicyInv => TypeOK
  BY DEF PolicyInv
<1>2. QED
  BY <1>1, PolicyInvariant, PTL

\* Whatever sequence of calls is made, minitap enforces the limit or the rules
\* that the calls have asked for, and nothing else, unless a rule was written
\* behind the table, over a longer one, or up to the end of its row.
THEOREM PolicySafety == Spec => []PolicyArrives
<1>1. PolicyInv => PolicyArrives
  <2> SUFFICES ASSUME PolicyInv, phase = "ready", file # NoFile
               PROVE  /\ policy.max >= 0 => policy.ips = {} /\ policy.domains = {}
                      /\ ~overrun => policy.max = limit
                      /\ policy.max < 0 /\ ~overrun /\ ~reused
                         /\ (\A r \in asked : Size[r] < MAX_RULE_LENGTH) =>
                           policy.ips = asked \cap Ipv4 /\ policy.domains = asked \ Ipv4
    BY DEF PolicyArrives
  <2>1. /\ policy.max = fw_rules.max_connections
        /\ policy.ips = Range(fwRules.rules) \cap Ipv4
        /\ policy.domains = Range(fwRules.rules) \ Ipv4
        /\ fwRules.rules = IF fw_rules.max_connections < 0 THEN Lines ELSE <<>>
    BY DEF PolicyInv, PolicyChain
  <2>2. fw_rules \in Table /\ fw_rules.max_connections \in Int
    <3>1. fw_rules \in Table
      BY DEF PolicyInv, TypeOK, Table
    <3>2. QED
      BY <3>1, TableFields
  <2>3. policy.max >= 0 => Range(fwRules.rules) = {}
    BY <2>1, <2>2, FileFacts
  <2>4. ASSUME policy.max < 0, ~overrun, ~reused, \A r \in asked : Size[r] < MAX_RULE_LENGTH
        PROVE  Range(fwRules.rules) = asked
    <3>1. /\ RowsWritten(fw_rules) /\ Holds(fw_rules, asked)
          /\ fw_rules.count <= MAX_RULES /\ fw_rules.count \in Nat
      BY <2>2, <2>4, TableFields DEF PolicyInv, TableOf
    <3>2. Range(fwRules.rules) = {Printed(i) : i \in 1..fw_rules.count}
      BY <2>1, <2>2, <2>4, <3>1, LinesType
    <3>3. ASSUME NEW i \in 1..fw_rules.count PROVE Printed(i) = fw_rules.rows[i].text
      <4>1. fw_rules.rows[i].size < MAX_RULE_LENGTH
        BY <2>4, <3>1 DEF Holds
      <4>2. fw_rules.rows[i].size # MAX_RULE_LENGTH /\ ~(i > MAX_RULES)
        <5>1. i \in 1..MAX_RULES
          BY <3>1, PolicyAssumption
        <5>2. fw_rules.rows[i].size \in Nat
          BY <2>2, <5>1, TableFields
        <5>3. QED
          BY <4>1, <5>1, <5>2, PolicyAssumption
      <4>3. QED
        BY <4>2 DEF Printed
    <3>4. QED
      BY <3>1, <3>2, <3>3 DEF Holds
  <2>5. ~overrun => fw_rules.max_connections = limit
    BY DEF PolicyInv, TableOf
  <2>6. QED
    BY <2>1, <2>3, <2>4, <2>5
<1>2. QED
  BY <1>1, PolicyInvariant, PTL

\* minitap is open only to an application that asked for neither a limit nor a
\* rule, even if the dump is lost; rules close it after an overrun too.
THEOREM FailsClosedSafety == Spec => []FailsClosed
<1>1. PolicyInv => FailsClosed
  <2> SUFFICES ASSUME PolicyInv, phase = "ready", file = NoFile => fallback = NoFile,
                      policy.max < 0, policy.ips = {}, policy.domains = {}
               PROVE  asked = {} /\ (overrun \/ limit < 0)
    BY DEF FailsClosed
  <2>1. /\ policy.max = fwRules.max
        /\ policy.ips = Range(fwRules.rules) \cap Ipv4
        /\ policy.domains = Range(fwRules.rules) \ Ipv4
    BY DEF PolicyInv, PolicyChain
  <2>2. Range(fwRules.rules) = {}
    BY <2>1
  <2>3. file # NoFile
    <3>1. SUFFICES ASSUME file = NoFile PROVE FALSE
      OBVIOUS
    <3>2. fwRules.max = 0
      BY <3>1 DEF PolicyInv, PolicyChain
    <3>3. QED
      BY <2>1, <3>2
  <2>4. /\ fwRules.max = fw_rules.max_connections
        /\ fwRules.rules = IF fw_rules.max_connections < 0 THEN Lines ELSE <<>>
    BY <2>3 DEF PolicyInv, PolicyChain
  <2>5. fw_rules.max_connections < 0 /\ fwRules.rules = Lines
    BY <2>1, <2>4
  <2>6. fw_rules \in Table /\ TableOf(fw_rules, asked, limit, overrun, reused)
    BY DEF PolicyInv, TypeOK, Table
  <2>7. {Printed(i) : i \in 1..fw_rules.count} = {}
    BY <2>2, <2>5, <2>6, LinesType DEF TableOf
  <2>8. fw_rules.count = 0
    <3>1. fw_rules.count \in Nat
      BY <2>6, PolicyAssumption DEF Table
    <3>2. 1 \notin 1..fw_rules.count
      BY <2>7
    <3>3. QED
      BY <3>1, <3>2
  <2>9. overrun \/ fw_rules.max_connections = limit
    BY <2>6 DEF TableOf
  <2>10. QED
    BY <2>5, <2>6, <2>8, <2>9 DEF TableOf
<1>2. QED
  BY <1>1, PolicyInvariant, PTL

=============================================================================
