---------------------------- MODULE ProviderStatus ----------------------------
(***************************************************************************)
(* Whether a response of the vehicle data provider can be used, and what it  *)
(* says if not (readStatus in vehicle-data.client.ts).  The provider gives a *)
(* status for the request and one in each package block, and sometimes its   *)
(* own verdict; a code that is not zero need not be a failure.  A message is *)
(* what the NO_SUCH_VEHICLE pattern makes of it.                            *)
(***************************************************************************)
EXTENDS Naturals, Sequences

\* Zero, or not a number; or one that is not zero, as of a plate in retention, whose
\* vehicle comes with it.
Codes == {"none", "some"}

\* What a message can say, of a vehicle that the provider has and of one it has not.
SaysOf(recorded) == {"anything else"} \union (IF recorded THEN {} ELSE {"no such vehicle"})

Reported(says) == [code : Codes, message : says]

\* success: IsSuccessStatusCode, where the envelope has one.
Payloads(says) ==
  [success  : {"yes", "no", "unsaid"},
   envelope : Reported(says),
   blocks   : UNION {[1 .. n -> Reported(says)] : n \in 0 .. 2}]

Failed(status) == status.code = "some"

Fine == [code |-> "none", message |-> "anything else"]

FirstFailed(statuses) ==
  LET failures == {i \in DOMAIN statuses : Failed(statuses[i])}
  IN  IF failures = {} THEN Fine
      ELSE statuses[CHOOSE i \in failures : \A j \in failures : i <= j]

\* The provider's verdict where there is one: a success is unusable only if every block
\* failed.  Any failed status where there is none.
ReadFailure(p) ==
  CASE p.success = "no"  -> [failed |-> TRUE, status |-> p.envelope]
    [] p.success = "yes" ->
         LET allFailed == p.blocks # << >> /\ \A i \in DOMAIN p.blocks : Failed(p.blocks[i])
         IN  [failed |-> allFailed, status |-> IF allFailed THEN Head(p.blocks) ELSE Fine]
    [] OTHER ->
         LET first == FirstFailed(<<p.envelope>> \o p.blocks)
         IN  [failed |-> first # Fine, status |-> first]

\* Mutant: whatever is refused has no such vehicle.
ReadStatus_AllAbsent(p) == IF ReadFailure(p).failed THEN "not-found" ELSE "ok"

\* "A failure is notFound only when the provider says so."
ReadStatus(p) ==
  LET failure == ReadFailure(p) IN
  IF ~failure.failed THEN "ok"
  ELSE IF failure.status.message = "no such vehicle" THEN "not-found" ELSE "upstream"
=============================================================================
