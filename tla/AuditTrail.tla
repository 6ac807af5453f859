----------------------------- MODULE AuditTrail -----------------------------
(***************************************************************************)
(* What the audit log of a tenant promises to those who read it: one        *)
(* sequence of entries that only ever grows at its end, and readers that    *)
(* walk along it with a cursor.  An entry, once it is behind a cursor, was  *)
(* read; nothing is ever inserted behind a cursor.  Nothing here says how   *)
(* the entries get their numbers: that is the business of AuditLog.         *)
(***************************************************************************)
EXTENDS Naturals, Sequences

CONSTANTS Authors,   \* the requests that write entries
          Readers    \* the exporters that follow the log

VARIABLES trail,     \* the entries, in the order of their numbers
          position   \* where the cursor of each reader stands

vars == <<trail, position>>

TypeOK ==
    /\ trail \in Seq(Authors)
    /\ position \in [Readers -> Nat]

Init ==
    /\ trail = <<>>
    /\ position = [rd \in Readers |-> 0]

(* One request commits: all its entries appear at the end, at once. *)
Publish ==
    /\ Len(trail') > Len(trail)
    /\ SubSeq(trail', 1, Len(trail)) = trail
    /\ \A i, j \in Len(trail) + 1 .. Len(trail') : trail'[i] = trail'[j]
    /\ UNCHANGED position

(* A reader moves on to an entry that is there; it never moves back. *)
Follow(rd) ==
    /\ position' \in [Readers -> 0 .. Len(trail)]
    /\ position'[rd] >= position[rd]
    /\ \A other \in Readers \ {rd} : position'[other] = position[other]
    /\ UNCHANGED trail

Next == Publish \/ \E rd \in Readers : Follow(rd)

Spec == Init /\ [][Next]_vars
=============================================================================
