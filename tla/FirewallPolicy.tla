---------------------------- MODULE FirewallPolicy ----------------------------
(***************************************************************************)
(* How a network policy gets from the application's calls to minitap in    *)
(* the TAP builds: the MiniSbxAllow... calls fill a table of fixed size,   *)
(* MiniSbxStart dumps it to a file, and minitap reads the file and sorts   *)
(* its rules into addresses and names.                                     *)
(***************************************************************************)
EXTENDS Integers, Sequences, Functions

CONSTANTS
  Rules,            \* texts an application passes as rules
  Size,             \* their lengths
  Ipv4,             \* the ones net.ParseIP accepts; no subnet is
  Junk,             \* a line that has the form of no rule
  Mixed,            \* the head of one rule and the tail of another
  NoText,           \* a row that was never written
  RuleFiles,        \* what MiniSbxAllowConnections reads: sequences of lines
  Limits,           \* arguments of MiniSbxAllowMaxConnections
  Fallbacks,        \* what /tmp/firewall.rules may hold
  NoFile,
  MAX_RULES,
  MAX_RULE_LENGTH,
  COUNT_SIZE,       \* bytes of count, which lies behind the rows
  INT_SIZE,         \* bytes of max_connections, which lies behind count
  Garbage,          \* numbers that characters of a rule may be read as
  MaxCalls          \* bound: calls an application makes

Texts == Rules \cup {Mixed}
\* A rule file: the limit, then a rule in each line.
FileType == [max: Int, rules: Seq(Texts)]

ASSUME PolicyAssumption ==
  /\ Size \in [Rules -> Nat \ {0}]
  /\ Ipv4 \subseteq Rules
  /\ {Junk, Mixed, NoText} \cap Rules = {} /\ Mixed # NoText
  /\ RuleFiles \subseteq Seq(Rules \cup {Junk})
  /\ Limits \subseteq Int
  /\ NoFile \notin FileType /\ Fallbacks \subseteq FileType \cup {NoFile}
  /\ MAX_RULES \in Nat \ {0} /\ MAX_RULE_LENGTH \in Nat /\ MaxCalls \in Nat
  /\ COUNT_SIZE \in Nat /\ INT_SIZE \in Nat /\ Garbage \subseteq Int

VARIABLES
  fw_rules,   \* the C struct FirewallRules
  reading,    \* lines MiniSbxAllowConnections has still to read
  phase,      \* of the start
  file,       \* the dump
  fallback,   \* /tmp/firewall.rules
  fwRules,    \* the Go struct FirewallRules
  policy,     \* what InitFirewall has made of it
  asked,      \* history: the rules accepted and not withdrawn
  limit,      \* history: the last limit that was set
  overrun,    \* history: a rule was written behind the table
  reused,     \* history: a table with rules in it was reset
  calls

history == <<asked, limit, overrun, reused>>
vars == <<fw_rules, reading, phase, file, fallback, fwRules, policy, history,
          calls>>

Modes == {"Uninitialized", "Enabled", "Disabled", "MaxConnections", "Other"}
Row == [text: Texts \cup {NoText}, size: 0..MAX_RULE_LENGTH]
EmptyRow == [text |-> NoText, size |-> 0]
NoPolicy == [max |-> 0, ips |-> {}, domains |-> {}]

\* The table is a global, so its rows are zero; so is the Go struct.
Init ==
  /\ fw_rules = [rows |-> [i \in 1..MAX_RULES |-> EmptyRow], count |-> 0,
                 max_connections |-> -1, mode |-> "Uninitialized"]
  /\ reading = <<>>
  /\ phase = "open"
  /\ file = NoFile
  /\ fallback \in Fallbacks
  /\ fwRules = [max |-> 0, rules |-> <<>>]
  /\ policy = NoPolicy
  /\ asked = {} /\ limit = -1 /\ overrun = FALSE /\ reused = FALSE
  /\ calls = 0

-----------------------------------------------------------------------------
(* firewall.cc *)

set_max_connections(n, fw) == [fw EXCEPT !.mode = "MaxConnections",
                                         !.max_connections = n]

\* memcpy copies no terminator: what the row held beyond the rule stays.
memcpy(row, rule) == IF Size[rule] >= row.size
                     THEN [text |-> rule, size |-> Size[rule]]
                     ELSE [text |-> Mixed, size |-> row.size]

\* Mutant: the length is not compared.
AcceptedAnyLength(rule, fw) == fw.count <= MAX_RULES /\ fw.mode # "Disabled"

\* A rule that set_firewall_rule returns 0 for.
Accepted(rule, fw) == /\ fw.count <= MAX_RULES
                      /\ Size[rule] <= MAX_RULE_LENGTH
                      /\ fw.mode # "Disabled"

\* The comparison lets one rule more than MAX_RULES through.
Overruns(rule, fw) == Accepted(rule, fw) /\ fw.count = MAX_RULES

\* The rule that overruns the table is copied over count, then max_connections,
\* then mode, as far as it reaches.  count is read again afterwards, or was kept
\* in a register (then MAX_RULES is among Garbage).
Overwritten(rule, fw) ==
  [rows: {fw.rows},
   count: {c + 1 : c \in Garbage \cap Nat},
   max_connections: IF Size[rule] > COUNT_SIZE THEN Garbage ELSE {fw.max_connections},
   mode: IF Size[rule] > COUNT_SIZE + INT_SIZE THEN Modes ELSE {"Enabled"}]

\* The tables a call may leave.
set_firewall_rule(rule, fw) ==
  IF ~Accepted(rule, fw) THEN {fw}
  ELSE IF Overruns(rule, fw) THEN Overwritten(rule, fw)
  ELSE {[fw EXCEPT !.mode = "Enabled",
                   !.rows[fw.count + 1] = memcpy(@, rule),
                   !.count = @ + 1]}

\* Mutant: the rules are not forgotten.
reset_firewall_rulesKeeps(fw) ==
  IF fw.mode = "Enabled" THEN fw ELSE [fw EXCEPT !.mode = "Disabled"]

reset_firewall_rules(fw) ==
  IF fw.mode = "Enabled" THEN fw ELSE [fw EXCEPT !.mode = "Disabled", !.count = 0]

-----------------------------------------------------------------------------
(* linux-sandbox-options.cc *)

Call == /\ phase = "open" /\ reading = <<>>
        /\ calls < MaxCalls
        /\ calls' = calls + 1
        /\ UNCHANGED <<phase, file, fallback, fwRules, policy>>

MiniSbxAllowMaxConnections(n) ==
  /\ Call
  /\ fw_rules' = set_max_connections(n, fw_rules)
  /\ limit' = n
  /\ UNCHANGED <<reading, asked, overrun, reused>>

MiniSbxAllowAllDomains ==
  /\ Call
  /\ fw_rules' = reset_firewall_rules(fw_rules)
  /\ IF fw_rules.mode = "Enabled"
     THEN UNCHANGED <<asked, reused>>
     ELSE asked' = {} /\ reused' = (reused \/ fw_rules.count > 0)
  /\ UNCHANGED <<reading, limit, overrun>>

SetRule(rule) ==
  /\ fw_rules' \in set_firewall_rule(rule, fw_rules)
  /\ asked' = IF Accepted(rule, fw_rules) THEN asked \cup {rule} ELSE asked
  /\ overrun' = (overrun \/ Overruns(rule, fw_rules))
  /\ UNCHANGED <<limit, reused>>

\* MiniSbxAllowDomain, MiniSbxAllowIpv4 and MiniSbxAllowIpv4Subnet.
MiniSbxAllowDomain(rule) == Call /\ SetRule(rule) /\ UNCHANGED reading

MiniSbxAllowConnections(lines) ==
  /\ Call
  /\ reading' = lines
  /\ UNCHANGED <<fw_rules, history>>

\* What the call for a line returns is ignored, and so is a line of no form.
ReadAllowedConnections ==
  /\ reading # <<>>
  /\ reading' = Tail(reading)
  /\ IF Head(reading) = Junk THEN UNCHANGED <<fw_rules, history>>
     ELSE SetRule(Head(reading))
  /\ UNCHANGED <<phase, file, fallback, fwRules, policy, calls>>

-----------------------------------------------------------------------------
(* The start. *)

\* %s prints a row, and the next one too if the rule fills its row.  Behind
\* the table there is what the overrun has left.
Printed(i) ==
  IF \/ i > MAX_RULES
     \/ /\ fw_rules.rows[i].size = MAX_RULE_LENGTH
        /\ i = MAX_RULES \/ fw_rules.rows[i + 1].size > 0
  THEN Mixed ELSE fw_rules.rows[i].text

Lines == [i \in 1..fw_rules.count |-> Printed(i)]

Starts == /\ phase = "open" /\ reading = <<>>
          /\ UNCHANGED <<fw_rules, reading, fallback, fwRules, policy, history, calls>>

\* Mutant: the rules are dumped beside a limit.
DumpRulesAlways ==
  /\ Starts /\ phase' = "dumped"
  /\ file' = [max |-> fw_rules.max_connections, rules |-> Lines]

\* Only perror reports that the file cannot be opened.
DumpRules ==
  /\ Starts /\ phase' = "dumped"
  /\ \/ UNCHANGED file
     \/ file' = [max |-> fw_rules.max_connections,
                 rules |-> IF fw_rules.max_connections < 0 THEN Lines ELSE <<>>]

\* A count that points behind the table may lead out of the program's memory.
DumpRulesCrashes ==
  /\ Starts /\ phase' = "crashed"
  /\ fw_rules.max_connections < 0 /\ fw_rules.count > MAX_RULES
  /\ UNCHANGED file

\* Mutant: without a file there is no limit.
ParseArgOpen ==
  /\ phase = "dumped" /\ phase' = "read"
  /\ fwRules' = IF file # NoFile THEN file
                ELSE IF fallback # NoFile THEN fallback
                ELSE [max |-> -1, rules |-> <<>>]
  /\ UNCHANGED <<fw_rules, reading, file, fallback, policy, history, calls>>

\* ReadFirewallRules on the dump, on /tmp/firewall.rules, or on neither.
ParseArg ==
  /\ phase = "dumped" /\ phase' = "read"
  /\ fwRules' = IF file # NoFile THEN file
                ELSE IF fallback # NoFile THEN fallback
                ELSE fwRules
  /\ UNCHANGED <<fw_rules, reading, file, fallback, policy, history, calls>>

\* A rule that is not an address is a name, a subnet included.
InitFirewall ==
  /\ phase = "read" /\ phase' = "ready"
  /\ policy' = [max |-> fwRules.max,
                ips |-> Range(fwRules.rules) \cap Ipv4,
                domains |-> Range(fwRules.rules) \ Ipv4]
  /\ UNCHANGED <<fw_rules, reading, file, fallback, fwRules, history, calls>>

Finished == phase \in {"ready", "crashed"} /\ UNCHANGED vars

Next ==
  \/ \E n \in Limits : MiniSbxAllowMaxConnections(n)
  \/ MiniSbxAllowAllDomains
  \/ \E rule \in Rules : MiniSbxAllowDomain(rule)
  \/ \E lines \in RuleFiles : MiniSbxAllowConnections(lines)
  \/ ReadAllowedConnections
  \/ DumpRules \/ DumpRulesCrashes \/ ParseArg \/ InitFirewall \/ Finished

Spec == Init /\ [][Next]_vars

-----------------------------------------------------------------------------
(* Properties. *)

\* No rule is longer than its row, and count stays within the rows until the
\* rule that overruns them.
TypeOK ==
  /\ fw_rules \in [rows: [1..MAX_RULES -> Row], count: Nat,
                   max_connections: Limits \cup {-1} \cup Garbage, mode: Modes]
  /\ ~overrun => fw_rules.count <= MAX_RULES
  /\ reading \in Seq(Rules \cup {Junk})
  /\ phase \in {"open", "dumped", "crashed", "read", "ready"}
  /\ file \in FileType \cup {NoFile}
  /\ fallback \in Fallbacks
  /\ fwRules \in FileType
  /\ policy \in [max: Int, ips: SUBSET Ipv4, domains: SUBSET Texts]
  /\ asked \subseteq Rules /\ limit \in Limits \cup {-1}
  /\ overrun \in BOOLEAN /\ reused \in BOOLEAN
  /\ calls \in 0..MaxCalls

\* Whatever sequence of calls an application makes, minitap enforces the last
\* limit it has set and no rule, or no limit and exactly the rules that were
\* accepted, each as an address or as a name.  firewallConnection and
\* firewallDns rely on the exclusion.  There are three exceptions: a rule
\* written behind the table, which may leave a limit that nobody has set and so
\* drop every rule; a row reused for a shorter rule, and a row filled to the
\* last byte, which lead to other rules.
PolicyArrives ==
  phase = "ready" /\ file # NoFile =>
    /\ policy.max >= 0 => policy.ips = {} /\ policy.domains = {}
    /\ ~overrun => policy.max = limit
    /\ /\ policy.max < 0 /\ ~overrun /\ ~reused
       /\ \A r \in asked : Size[r] < MAX_RULE_LENGTH
       => policy.ips = asked \cap Ipv4 /\ policy.domains = asked \ Ipv4

\* minitap lets everything through only if the application has asked for no
\* limit and for no rule, even if the dump is lost on the way: the zero value
\* of the Go struct is a limit of no connection at all.  Rules keep it closed
\* after an overrun too, but the limit may be overwritten then.
FailsClosed ==
  phase = "ready" /\ (file = NoFile => fallback = NoFile)
    /\ policy.max < 0 /\ policy.ips = {} /\ policy.domains = {}
  => asked = {} /\ (overrun \/ limit < 0)

=============================================================================
