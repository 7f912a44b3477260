--------------------------- MODULE MCOrderLifecycle ---------------------------
(***************************************************************************)
(* OrderLifecycle on small instances: one order or two, two suppliers.  A   *)
(* history variable keeps what the collections do not: which orders had the *)
(* record of an email refused, so that an outcome missing for that reason   *)
(* can be told from one that was never written.                             *)
(***************************************************************************)
EXTENDS OrderLifecycle

VARIABLE unrecorded   \* the orders an email of which ended without its record

MCInit == Init /\ unrecorded = {}

MCNext ==
  \/ Handled /\ UNCHANGED unrecorded
  \/ \E id \in OrderIds : LoseRecord(id) /\ unrecorded' = unrecorded \union {id}

MCFairSpec == MCInit /\ [][MCNext]_<<vars, unrecorded>> /\ Fairness

\* An uploaded invoice that goes by email has the outcome of its email written down
\* in the end (emailInvoice: "a failure is written down as a failure"), unless the
\* database refused an outcome: emailInvoice only logs that.
EmailOutcomeRecorded ==
  \A id \in OrderIds : OwedByEmail(id) ~> ~OwedByEmail(id) \/ id \in unrecorded
=============================================================================
