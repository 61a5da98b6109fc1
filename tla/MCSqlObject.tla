---------------------------- MODULE MCSqlObject ----------------------------
(* Instances of SqlObject. *)
EXTENDS SqlObject
CONSTANTS s1, s2
MCSessions == {s1, s2}
MCSize(d) == IF d = 1 THEN 60 ELSE 3000   \* below the version check, and above every first buffer
\* The sessions' relays are of one group, of two groups that write one row, and
\* of two groups that write different rows.
MCGroupings == {[s \in MCSessions |-> IF s = s1 THEN 1 ELSE g] : g \in 1..3}
=============================================================================
