--------------------------- MODULE PublishedHistory ---------------------------
(***************************************************************************)
(* What the archive of one chain promises: a set of packages that only      *)
(* grows, each one continuing the chain at the tip, and acknowledgements    *)
(* that name published packages only.  Runs, levels, retries and compaction *)
(* are invisible here; module TieredArchive implements this.                *)
(***************************************************************************)
EXTENDS Integers

CONSTANTS Packages, None

VARIABLES
    published,  \* the packages a reader can see
    tip,        \* last block, its hash and the digest of the last package
    acked       \* packages whose publication was reported as successful

vars == <<published, tip, acked>>

Init ==
    /\ published = {}
    /\ tip = None
    /\ acked = {}

Continues(p) ==
    \/ tip = None /\ p.preceding = None /\ p.first = 0
    \/ tip # None /\ p.first = tip.number + 1 /\ p.preceding = tip.hash

\* A package becomes visible, and may be acknowledged in the same step.
Publish(p) ==
    /\ Continues(p)
    /\ p.gate = p.hash
    /\ published' = published \cup {p}
    /\ tip' = [number |-> p.last, hash |-> p.hash, input |-> p.input]
    /\ acked' \in {acked, acked \cup {p}}

\* Late or repeated success for the package at the tip.
Acknowledge(p) ==
    /\ p \in published
    /\ tip = [number |-> p.last, hash |-> p.hash, input |-> p.input]
    /\ acked' = acked \cup {p}
    /\ UNCHANGED <<published, tip>>

Next == \E p \in Packages : Publish(p) \/ Acknowledge(p)

Spec == Init /\ [][Next]_vars
===============================================================================
