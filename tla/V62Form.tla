------------------------------- MODULE V62Form -------------------------------
(***************************************************************************)
(* The customer's half of the V62 (buildV62Submission) and of the Direct     *)
(* Debit mandate (bankProblems): which boxes are filled in, and the printed  *)
(* form they make with the account's own details.                          *)
(***************************************************************************)

\* "title" is filled with one of the form's four; any other is not to be told from none.
Boxes == {"title", "name", "phone", "email", "address1", "city", "postcode"}

\* dateAcquired: missing or no date, before 1900, later than tomorrow, or good.
Dates == {"none", "ancient", "future", "past"}

V62Data == [sameAsTaxDetails : BOOLEAN, dateAcquired : Dates, filled : SUBSET Boxes]

\* Every account has these; the phone is optional.
AccountBoxes == {"name", "email"}

AddressBoxes == {"address1", "city", "postcode"}

\* Mutant: with the details the same, the address is taken to be the account's.
V62Problem_SameAddress(form) ==
  IF form.dateAcquired # "past" THEN "date"
  ELSE IF ~form.sameAsTaxDetails /\ ~(Boxes \subseteq form.filled) THEN "applicant"
  ELSE IF "title" \notin form.filled THEN "title"
  ELSE "none"

\* The checks in the order the form reads.
V62Problem(form) ==
  IF form.dateAcquired # "past" THEN "date"
  ELSE IF ~form.sameAsTaxDetails /\ ~(Boxes \subseteq form.filled) THEN "applicant"
  ELSE IF "title" \notin form.filled THEN "title"
  ELSE IF ~(AddressBoxes \subseteq form.filled) THEN "address"
  ELSE "none"

\* The boxes of the printed form: with the details the same, name and contact are the
\* account's, and only a title and an address are read from what was typed.
Keeper(form) ==
  IF form.sameAsTaxDetails
  THEN AccountBoxes \union (form.filled \intersect ({"title"} \union AddressBoxes))
  ELSE form.filled

\* What DVLA returns a form without.
Printable(submission) ==
  /\ submission.dateAcquired = "past"
  /\ {"title", "name"} \union AddressBoxes \subseteq submission.keeper

Submission(form) == [dateAcquired |-> form.dateAcquired, keeper |-> Keeper(form)]

BankField == {"accountHolder", "accountNumber", "sortCode", "dateOfBirth"}

\* A mandate is the fields of it that are valid.
BankProblems(valid) == BankField \ valid
=============================================================================
