---------------------------- MODULE ReservedHosts ----------------------------
(* Hostnames and the rules that reserve some of them: tenants/validators.py   *)
(* and ReservedHostRule in tenants/models.py.  A hostname is the sequence of  *)
(* its labels, lower-cased; what was typed may also end in dots.              *)
EXTENDS Naturals, Sequences

CONSTANTS
    Labels,      \* what _LABEL_RE accepts
    Broken,      \* what it refuses, the empty label among it
    Numeric      \* the labels made of digits only

ASSUME LabelConstants ==
    /\ Labels \cap Broken = {}
    /\ Numeric \subseteq Labels

\* A value as typed: labels, and how many dots follow the last one.
Typed == [labels : Seq(Labels \cup Broken), dots : Nat]

\* The canonicalizer of every write path drops all trailing dots...
normalize_host(typed) == typed.labels

\* ... while validation allows one, the DNS root, and repairs nothing.
ValidHostname(typed) ==
    /\ typed.dots <= 1
    /\ typed.labels # <<>>
    /\ typed.labels \in Seq(Labels)
    /\ typed.labels[Len(typed.labels)] \notin Numeric

\* No dot at all in the value of a LABEL rule.
ValidLabel(typed) == typed.dots = 0 /\ Len(typed.labels) = 1 /\ typed.labels[1] \in Labels

Blank(typed) == typed.labels = <<>> /\ typed.dots = 0

MatchTypes == {"exact", "suffix", "label"}

\* ReservedHostRule.normalize: whether (type, value, base) may be stored, and as what.
ValidRule(type, value, base) ==
    IF type = "label" THEN ValidLabel(value) /\ (Blank(base) \/ ValidHostname(base))
                      ELSE ValidHostname(value)
NormalizeRule(type, value, base) ==
    [type |-> type, value |-> normalize_host(value),
     base |-> IF type = "label" THEN normalize_host(base) ELSE <<>>]

\* host.startswith(name + ".") and host.endswith("." + name)
StartsWith(host, name) == Len(name) < Len(host) /\ SubSeq(host, 1, Len(name)) = name
EndsWith(host, name) ==
    Len(name) < Len(host) /\ SubSeq(host, Len(host) - Len(name) + 1, Len(host)) = name

\* host == name or host.endswith("." + name)
Under(host, name) == host = name \/ EndsWith(host, name)

\* ReservedHostRule.matches, the authority.
matches(rule, host) ==
    \/ rule.type = "exact" /\ host = rule.value
    \/ rule.type = "suffix" /\ Under(host, rule.value)
    \/ /\ rule.type = "label"
       /\ host # <<>> /\ <<Head(host)>> = rule.value
       /\ rule.base = <<>> \/ Under(host, rule.base)

\* Broken: a dotted prefix only, so the bare label is not looked at.
CandidateDotted(rule, host) ==
    \/ rule.type = "exact" /\ host = rule.value
    \/ rule.type = "suffix" /\ Under(host, rule.value)
    \/ rule.type = "label" /\ StartsWith(host, rule.value)

\* candidate_q, what the SQL prefilter lets through.
candidate_q(rule, host) ==
    \/ rule.type = "exact" /\ host = rule.value
    \/ rule.type = "suffix" /\ Under(host, rule.value)
    \/ rule.type = "label" /\ (host = rule.value \/ StartsWith(host, rule.value))

\* matching_rule: some active rule reserves the host.
Reserved(active, host) == \E rule \in active : matches(rule, host)

\* Only global label rules reserve schema names; a name is one label to them.
reserved_schema_labels(active) ==
    {rule.value[1] : rule \in {r \in active : r.type = "label" /\ r.base = <<>>}}

==============================================================================
