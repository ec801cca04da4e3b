---------------------------- MODULE OperationLedger ----------------------------
(****************************************************************************)
(* What the compaction_operation table promises to every worker, whatever   *)
(* the interleaving of their statements: each row moves only forward        *)
(* through its statuses, its lease changes hands only when it has lapsed,   *)
(* and a lifecycle epoch never has two active rows.                         *)
(****************************************************************************)
EXTENDS Naturals

CONSTANTS Worker, Op, None

VARIABLE op   \* the rows, by operation id

Active == {"queued", "running"}
Closed == {"completed", "failed", "abandoned", "cancelled"}

IsActive(row) == row.status \in Active

OneActive(rows) ==
  \A a, b \in Op : IsActive(rows[a]) /\ IsActive(rows[b]) /\ rows[a].ep = rows[b].ep
                   => a = b

\* A row appears once, owned and with a fresh heartbeat.
Opens(row, new) ==
  /\ row.status = "absent" /\ IsActive(new)
  /\ new.owner \in Worker /\ new.fresh

\* While it is active: queued may become running; only a lapsed lease, or one
\* that the worker holds, is taken.
Continues(row, new) ==
  /\ IsActive(row) /\ IsActive(new) /\ new.ep = row.ep
  /\ row.status = "running" => new.status = "running"
  /\ new.owner = row.owner \/ ~row.fresh

\* It is closed once, and only a running operation is abandoned.
Closes(row, new) ==
  /\ IsActive(row) /\ new.status \in Closed /\ new.ep = row.ep
  /\ new.status = "abandoned" => row.status = "running"

Init == \A o \in Op : op[o].status = "absent"

Next ==
  /\ \A o \in Op : \/ op'[o] = op[o]
                   \/ Opens(op[o], op'[o])
                   \/ Continues(op[o], op'[o])
                   \/ Closes(op[o], op'[o])
  /\ OneActive(op')

Spec == Init /\ [][Next]_op
=============================================================================
