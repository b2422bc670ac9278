--------------------------- MODULE MCJournalStore ---------------------------
(* JournalStore for TLC: two days, the first one the sample day.           *)
EXTENDS JournalStore, TLC

CONSTANTS s1, a1, b1

MCEvent == {s1, a1, b1}
MCDay   == 1 .. 2
MCDayOf == s1 :> 1 @@ a1 :> 1 @@ b1 :> 2

\* Every event has a key of its own.
MCIdOf == [e \in MCEvent |-> e]

\* a1 and b1 are two gateway.reconnected events: nothing normalizedEventId hashes
\* tells them apart.
MCReconnectIdOf == [e \in MCEvent |-> IF e = b1 THEN a1 ELSE e]

\* Snapshots differ in what they hold only.
Symmetry == Permutations(SnapshotId)
=============================================================================
