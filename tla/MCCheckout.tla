------------------------------ MODULE MCCheckout ------------------------------
(* Checkout on small instances. *)
EXTENDS Checkout, TLC

\* The provider's rates, whose Direct Debit total is no multiple of twelve pence, a row
\* of DVLA's tables, and a first licence: no six months and no Direct Debit.
MCRateTables ==
  {[sixMonth |-> 10450, twelveMonth |-> 19000, directDebit |-> Undefined],
   [sixMonth |-> 10725, twelveMonth |-> 19500, directDebit |-> 20475],
   [sixMonth |-> Null, twelveMonth |-> 19500, directDebit |-> Null]}

MCBaskets ==
  {[option |-> "6m", v62 |-> FALSE], [option |-> "12m", v62 |-> TRUE],
   [option |-> "dd", v62 |-> FALSE]}

\* Complete but for at most one box, and every date.
MCForms ==
  [sameAsTaxDetails : BOOLEAN, dateAcquired : Dates,
   filled : {Boxes} \union {Boxes \ {b} : b \in Boxes}]

\* A whole mandate and one with a sort code of five digits.
MCMandates == {BankField, BankField \ {"sortCode"}}

Symmetry ==
  Permutations(Requests) \union Permutations(Payments) \union Permutations(Customers)
=============================================================================
