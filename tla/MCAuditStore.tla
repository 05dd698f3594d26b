--------------------------- MODULE MCAuditStore ---------------------------
(* Two connections and two rows beside the first: either connection's       *)
(* transaction commits or publishes first, and one may come after an older   *)
(* copy came back.  Liveness is checked in the same run, so no symmetry.     *)
EXTENDS AuditStore
=============================================================================
