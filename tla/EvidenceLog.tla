---------------------------- MODULE EvidenceLog ----------------------------
(***************************************************************************)
(* What the evidence writer promises, without batches, failures, crashes   *)
(* or rotation: one log of entries that only grows at its end, in which    *)
(* every entry has one place, in the order append() took the entries, and  *)
(* a set of acknowledged entries that are all in it.  Entries are numbered *)
(* by append(); a place of the log is a segment and a line in it.          *)
(***************************************************************************)
EXTENDS Naturals

VARIABLES
  log,    \* log[p]: the entry at place p
  acked   \* the entries that were acknowledged

Before(p, q) == p[1] < q[1] \/ (p[1] = q[1] /\ p[2] < q[2])

Init == DOMAIN log = {} /\ acked = {}

\* No entry moves, changes or disappears.
Stays == \A p \in DOMAIN log : p \in DOMAIN log' /\ log'[p] = log[p]

\* A flush, or the recovery of a crashed one, adds entries at the end only.
AtEnd == \A p \in DOMAIN log, q \in DOMAIN log' \ DOMAIN log : Before(p, q)

\* An entry is recorded once, after the ones that append() took before it.
InOrder == \A p, q \in DOMAIN log' : Before(p, q) => log'[p] < log'[q]

\* A flush that returns acknowledges entries of the log, for good.
Acknowledged ==
  /\ acked \subseteq acked'
  /\ \A a \in acked' : \E p \in DOMAIN log' : log'[p] = a

Next == Stays /\ AtEnd /\ InOrder /\ Acknowledged

Spec == Init /\ [][Next]_<<log, acked>>

=============================================================================
