------------------------------- MODULE Pricing -------------------------------
(***************************************************************************)
(* What a term of vehicle tax costs (PricingService), in pence.  The rates   *)
(* are one vehicle's, as a tax lookup reports them; a quote, a payment and   *)
(* an order each price their basket by these definitions.                  *)
(***************************************************************************)
EXTENDS Integers

CONSTANTS
  ServiceFee,
  V62Fee,
  Null,      \* no such rate
  Undefined  \* a Direct Debit rate the provider does not report

ASSUME FeesAssumption == ServiceFee \in Nat /\ V62Fee \in Nat
ASSUME NullAssumption == Null # Undefined

TaxOptionId == {"6m", "12m", "dd"}

\* A basket: a term, with or without a V62.
Basket == [option : TaxOptionId, v62 : BOOLEAN]

OrderType(option) ==
  CASE option = "6m"  -> "tax_6"
    [] option = "12m" -> "tax_12"
    [] option = "dd"  -> "direct_debit"

Instalments(option) == IF option = "dd" THEN 12 ELSE 1

\* Mutant: cut off, not rounded.
Rounded_Down(n, d) == n \div d

\* Math.round of n / d.
Rounded(n, d) == (2 * n + d) \div (2 * d)

\* DVLA's five per cent, where nobody reports a Direct Debit rate.
Surcharged(annual) == Rounded(105 * annual, 100)

Sellable(rate) == IF rate \in Int /\ rate < 0 THEN Null ELSE rate

RateFor(option, ved) ==
  Sellable(CASE option = "6m"  -> ved.sixMonth
             [] option = "12m" -> ved.twelveMonth
             [] option = "dd"  ->
                  IF ved.twelveMonth = Null THEN Null
                  ELSE IF ved.directDebit # Undefined THEN ved.directDebit
                  ELSE Surcharged(ved.twelveMonth))

\* The terms on offer; the others are shown, and marked unavailable.
ListOptions(ved) == {option \in TaxOptionId : RateFor(option, ved) # Null}

\* getOption: a term that cannot be sold is refused.
Available(basket, ved) == basket.option \in ListOptions(ved)

Price(basket, ved) ==
  LET tax == RateFor(basket.option, ved)
      v62Fee == IF basket.v62 THEN V62Fee ELSE 0
      total == tax + ServiceFee + v62Fee
      parts == Instalments(basket.option)
  IN  [tax |-> tax, serviceFee |-> ServiceFee, v62Fee |-> v62Fee, total |-> total,
       instalments |-> parts,
       dueNow |-> IF parts > 1 THEN Rounded(total, parts) ELSE total]

PriceRecord ==
  [tax : Int, serviceFee : Nat, v62Fee : Nat, total : Int, instalments : {1, 12}, dueNow : Int]

ItemsFor(basket) == {basket.option} \union (IF basket.v62 THEN {"v62"} ELSE {})
=============================================================================
