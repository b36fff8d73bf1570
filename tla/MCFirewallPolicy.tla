--------------------------- MODULE MCFirewallPolicy ---------------------------
(* Instances of FirewallPolicy for TLC. *)
EXTENDS FirewallPolicy, TLC

CONSTANTS ip, name, subnet, full, long  \* an address, names, a rule of the
                                        \* size of a row, a longer one

\* A row holds three characters.
MCSize == (ip :> 1) @@ (name :> 2) @@ (subnet :> 2) @@ (full :> 3) @@ (long :> 4)

\* A list with a line of another form, and one that fills a table of two.
MCFiles == {<<ip, Junk, name>>, <<name, subnet, ip>>}

\* No file, or one with both a limit and a rule, written by hand.
MCFallbacks == {NoFile, [max |-> 1, rules |-> <<name>>]}

\* The fields behind the rows have a byte each: a rule of one character reaches
\* count, one of two the limit, one of three the mode.  Read as a number it may
\* point into the table, at its end or behind it, and be a limit or none.
MCGarbage == {-1, 0, 2, 3}

MCLimits == {-1, 0, 1}

=============================================================================
