---------------------------- MODULE MCOrderRequests ----------------------------
(* OrderRequests on small instances, and its refinement of OrderLifecycle. *)
EXTENDS OrderRefinement, TLC

\* Every kind of order: card or Direct Debit, either channel, with or without a V62.
AllPurchases ==
  [channel : CommunicationMethod, review : {"none", "submitted"}, v62 : {"none", "requested"}]

\* Both invoiced through an admin, the longest way round: a Direct Debit order, and a
\* card order with a V62.
LongPurchases ==
  {[channel |-> "whatsapp", review |-> "submitted", v62 |-> "none"],
   [channel |-> "whatsapp", review |-> "none", v62 |-> "requested"]}

Symmetry == Permutations(Workers) \union Permutations(Suppliers)

\* No guard and no property of the order reads what a request does after its save:
\* the alerts and the email's outcome.  So where only such properties are checked,
\* a saved request may run to its end at once, and the alerts need not be told apart.
SavedRequestsFinish ==
  (\E w \in Workers : stage[w] = "after")
    => \E w \in Workers : stage[w] = "after" /\ todo'[w] # todo[w]

AllButAlerts == <<order, issued, lapsed, requestVars, sweep, announced>>
=============================================================================
