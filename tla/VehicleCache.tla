----------------------------- MODULE VehicleCache -----------------------------
(***************************************************************************)
(* VehiclesService for one plate: a row keeps the provider's paid answers,  *)
(* a row inside its TTL answers without a call, an expired one is refreshed *)
(* or, when the provider cannot be reached, served stale, and a row mapped  *)
(* by an older build is read again from what it stored.  A V62 order then   *)
(* adds the identity package's answer to the row.                           *)
(*                                                                         *)
(* Requests interleave at every await, and hold what they read meanwhile.   *)
(* The server is one production process: requests waiting for the same      *)
(* package of the plate wait for one call (SpendGate), so that one step      *)
(* answers all of them.  An answer is a number in the order of payment; what *)
(* it says of the vehicle is left to a choice where the code branches on it.*)
(***************************************************************************)
EXTENDS ProviderStatus, FiniteSets

CONSTANTS
  Requests,   \* requests that can ask about the plate at once
  NoRow,      \* nothing kept about the plate
  TTL,        \* cacheTtlMs, in ticks of the clock
  Faults,     \* whether the database and the server can fail
  MaxTime,    \* bound: the last tick
  MaxVersion, \* bound: the last MAPPING_VERSION deployed
  MaxBills    \* bound: answers paid for, of each package

ASSUME TTLAssumption == TTL \in Nat \ {0}
ASSUME FaultsAssumption == Faults \in BOOLEAN
ASSUME BoundsAssumption ==
  MaxTime \in Nat /\ MaxVersion \in Nat \ {0} /\ MaxBills \in Nat

Time == 0 .. MaxTime
Versions == 1 .. MaxVersion
Bills == 0 .. MaxBills

\* raw: the Tax answer, 0 where Tax had no record; identity: detailsRaw is there;
\* vin: `vehicle' was mapped with an identity; readBy: the build that mapped `details'.
Row == [raw : Bills, identity : BOOLEAN, vin : BOOLEAN,
        readBy : Versions, mappingVersion : Versions, fetchedAt : Time]

ASSUME NoRowAssumption == NoRow \notin Row

VARIABLES
  now,
  version,  \* MAPPING_VERSION of the build that runs
  onFile,   \* what the local register has on the plate
  provider, \* of each package, whether it has the vehicle and how its responses can be read
  row,      \* the plate's document in vehicle_tax_lookups
  call,     \* of each request: how far it is, and what it holds
  bills,    \* Tax answers paid for
  paidAt    \* when the last of them was

vars == <<now, version, onFile, provider, row, call, bills, paidAt>>

Kinds == {"tax", "lookup", "v62"}
OnFile == {"nothing", "no VIN", "a VIN"}

\* "assumed-absent" is the 404 of "not-found" too, and is told apart from it for the
\* properties: nobody looked in the identity package.
Told == [as : {"served"}, readBy : Versions, vin : BOOLEAN]
          \union [as : {"nothing", "register", "not-found", "assumed-absent",
                        "unavailable", "error"}]

\* solo: no other request was in progress since it began; again: addIdentity was true;
\* known: what lookup told lookupForV62 the first time.
Call == [stage : {"reading", "remapping", "tax", "identity", "valuation", "writing",
                  "looking", "describing", "adding"},
         kind : Kinds, solo : BOOLEAN, again : BOOLEAN, known : Told,
         cached : Row \union {NoRow}, tax : Bills, identity : BOOLEAN, fetchedAt : Time]

\* What comes back from a package for a vehicle it has, and for one it has not.
Packages ==
  {[recorded |-> b, reads |-> {ReadStatus(p) : p \in Payloads(SaysOf(b))}] : b \in BOOLEAN}

\* Each package has a register of its own.
Providers == [tax : Packages, identity : Packages]

Idle == [stage : {"idle"}, told : Told]

Done(told) == [stage |-> "idle", told |-> told]

Nothing == [as |-> "nothing"]

Asked(kind, solo) ==
  [stage |-> "reading", kind |-> kind, solo |-> solo, again |-> FALSE, known |-> Nothing,
   cached |-> NoRow, tax |-> 0, identity |-> FALSE, fetchedAt |-> 0]

Active == {c \in Requests : call[c].stage # "idle"}
At(stage) == {c \in Requests : call[c].stage = stage}

Init ==
  /\ now = 0
  /\ version = 1
  /\ onFile \in OnFile
  /\ provider \in Providers
  /\ row = NoRow
  /\ call = [c \in Requests |-> Done(Nothing)]
  /\ bills = 0
  /\ paidAt = 0

-----------------------------------------------------------------------------
(* How a request goes on; each is the request's next record.               *)

\* lookupForV62, with what lookup told it: no VIN means the identity is looked for.
LookedUp(c, told, vin) ==
  IF call[c].kind = "v62" /\ ~vin /\ ~call[c].again
  THEN [Asked("v62", call[c].solo) EXCEPT !.stage = "looking", !.known = told]
  ELSE Done(told)

\* "We could not find" or "we could not check": every other reason is told alike.
ToHttp(reason) ==
  IF reason \in {"not-found", "assumed-absent"} THEN reason ELSE "unavailable"

\* resolve has no vehicle to give: a lookup has the register first.
Refused(c, reason) ==
  IF call[c].kind # "tax" /\ onFile # "nothing"
  THEN LookedUp(c, [as |-> "register"], onFile = "a VIN")
  ELSE Done([as |-> ToHttp(reason)])

\* resolve's result, read back from r; a lookup needs it to name a make.
Resolved(c, r, named) ==
  IF call[c].kind = "tax" \/ named
  THEN LookedUp(c, [as |-> "served", readBy |-> r.readBy, vin |-> r.vin], r.vin)
  ELSE Refused(c, "not-found")

Fresh(r) == now < r.fetchedAt + TTL

\* resolve, past the mapping: a fresh row answers, and otherwise Tax is asked.
Decide(c, r, named) ==
  IF r # NoRow /\ Fresh(r)
  THEN Resolved(c, r, named)
  ELSE [call[c] EXCEPT !.stage = "tax", !.cached = r]

\* Everything is in: the row to write is made, and fetchedAt is now.
ToWrite(c, tax, identity) ==
  [call[c] EXCEPT !.stage = "writing", !.cached = NoRow,
                  !.tax = tax, !.identity = identity, !.fetchedAt = now]

\* Mutant: an expired row is not served when Tax fails.
TaxFailed_NoStale(c, named) == Refused(c, "upstream")

\* "An expired answer still beats no answer."
TaxFailed(c, named) ==
  IF call[c].cached # NoRow
  THEN Resolved(c, call[c].cached, named)
  ELSE Refused(c, "upstream")

Continue(C, next(_)) ==
  call' = [c \in Requests |-> IF c \in C THEN next(c) ELSE call[c]]

-----------------------------------------------------------------------------
(* The request's own steps.                                                *)

Begin(c) ==
  /\ call[c].stage = "idle"
  /\ \E kind \in Kinds :
       call' = [d \in Requests |->
         IF d = c
         THEN Asked(kind, Active = {})
         ELSE IF d \in Active THEN [call[d] EXCEPT !.solo = FALSE] ELSE call[d]]
  /\ UNCHANGED <<now, version, onFile, provider, row, bills, paidAt>>

\* Mutant: an old row is taken as it is.
Outdated_Never(r) == FALSE

Outdated(r) == r # NoRow /\ r.mappingVersion < version

\* Mutant: the identity it stored is not read again.
Remapped_TaxOnly(r, from) ==
  [r EXCEPT !.readBy = version, !.mappingVersion = version, !.vin = FALSE]

\* What remap sets on r, all of it read from the stored answers of `from'.
Remapped(r, from) ==
  [r EXCEPT !.readBy = version, !.mappingVersion = version, !.vin = from.identity]

\* resolve's findOne.
ReadRow(c) ==
  /\ call[c].stage = "reading"
  /\ \E named \in BOOLEAN :
       call' = [call EXCEPT ![c] =
         IF Outdated(row)
         THEN [call[c] EXCEPT !.stage = "remapping", !.cached = row]
         ELSE Decide(c, row, named)]
  /\ UNCHANGED <<now, version, onFile, provider, row, bills, paidAt>>

\* remap's updateOne.
Remap(c) ==
  /\ call[c].stage = "remapping"
  /\ row' = Remapped(row, call[c].cached)
  /\ \E named \in BOOLEAN :
       call' = [call EXCEPT ![c] =
                  Decide(c, Remapped(call[c].cached, call[c].cached), named)]
  /\ UNCHANGED <<now, version, onFile, provider, bills, paidAt>>

\* Mutant: a refresh does not date the row anew.
Written_Undated(c) ==
  [raw |-> call[c].tax, identity |-> call[c].identity, vin |-> call[c].identity,
   readBy |-> version, mappingVersion |-> version,
   fetchedAt |-> IF row = NoRow THEN call[c].fetchedAt ELSE row.fetchedAt]

Written(c) ==
  [raw |-> call[c].tax, identity |-> call[c].identity, vin |-> call[c].identity,
   readBy |-> version, mappingVersion |-> version, fetchedAt |-> call[c].fetchedAt]

\* resolve's upsert.
WriteRow(c) ==
  /\ call[c].stage = "writing"
  /\ row' = Written(c)
  /\ \E named \in BOOLEAN :
       call' = [call EXCEPT ![c] = Resolved(c, Written(c), named)]
  /\ UNCHANGED <<now, version, onFile, provider, bills, paidAt>>

\* addIdentity's findOne: only a row without an identity has something to learn.
LookForIdentity(c) ==
  /\ call[c].stage = "looking"
  /\ call' = [call EXCEPT ![c] =
       IF row = NoRow \/ row.identity THEN Done(call[c].known)
       ELSE [call[c] EXCEPT !.stage = "describing"]]
  /\ UNCHANGED <<now, version, onFile, provider, row, bills, paidAt>>

\* Mutant: the stored answer is kept, the vehicle not.
Described_RawOnly == [row EXCEPT !.identity = TRUE]

Described == [row EXCEPT !.identity = TRUE, !.vin = TRUE]

\* addIdentity's updateOne; true, so that the plate is looked up again.
AddIdentity(c) ==
  /\ call[c].stage = "adding"
  /\ row' = Described
  /\ call' = [call EXCEPT ![c].stage = "reading", ![c].again = TRUE, ![c].known = Nothing]
  /\ UNCHANGED <<now, version, onFile, provider, bills, paidAt>>

\* A write is refused: whatever was paid for is lost.
WriteFails(c) ==
  /\ Faults
  /\ call[c].stage \in {"remapping", "writing", "adding"}
  /\ call' = [call EXCEPT ![c] = Done([as |-> "error"])]
  /\ UNCHANGED <<now, version, onFile, provider, row, bills, paidAt>>

-----------------------------------------------------------------------------
(* The provider's answers, to every request that waits for the package.    *)

TaxPays ==
  /\ At("tax") # {}
  /\ "ok" \in provider.tax.reads
  /\ bills < MaxBills
  /\ bills' = bills + 1
  /\ paidAt' = now

\* fetchTaxAndIdentity: Tax priced the vehicle, and nothing else is asked.
TaxPrices ==
  /\ TaxPays
  /\ Continue(At("tax"), LAMBDA c : ToWrite(c, bills + 1, FALSE))
  /\ UNCHANGED <<now, version, onFile, provider, row>>

\* Tax has a record without a rate, or none: the identity package is asked.
TaxLeavesUnpriced ==
  /\ TaxPays
  /\ Continue(At("tax"),
       LAMBDA c : [call[c] EXCEPT !.stage = "identity", !.cached = NoRow, !.tax = bills + 1])
  /\ UNCHANGED <<now, version, onFile, provider, row>>

TaxFindsNothing ==
  /\ At("tax") # {}
  /\ "not-found" \in provider.tax.reads
  /\ Continue(At("tax"), LAMBDA c : [call[c] EXCEPT !.stage = "identity", !.cached = NoRow])
  /\ UNCHANGED <<now, version, onFile, provider, row, bills, paidAt>>

\* Not configured, out of budget, refused, an error or a timeout.
TaxFails ==
  /\ At("tax") # {}
  /\ \E named \in BOOLEAN : Continue(At("tax"), LAMBDA c : TaxFailed(c, named))
  /\ UNCHANGED <<now, version, onFile, provider, row, bills, paidAt>>

\* claimBudget's own write fails: no VehicleDataError, so an expired row is no answer.
TaxThrows ==
  /\ Faults
  /\ At("tax") # {}
  /\ Continue(At("tax"), LAMBDA c : Done([as |-> "error"]))
  /\ UNCHANGED <<now, version, onFile, provider, row, bills, paidAt>>

\* What the identity package comes back with, or keeps back: it is not configured, out of
\* budget, refused, down or too slow.
IdentitySays == provider.identity.reads \union {"unavailable"}

\* Mutant: what the identity package said is not looked at.
GivesUp_AsKnown(c, said) == Refused(c, "not-found")

\* Tax has no record and fetchDetails gave null, whether because there is no such vehicle
\* or because the package failed: Tax's own "not-found" is thrown again.
GivesUp(c, said) == Refused(c, IF said = "not-found" THEN "not-found" ELSE "assumed-absent")

\* A resolve that waits for the identity; the list price is asked for where it could
\* change the tax.
IdentityKnown(c, said, needsListPrice) ==
  IF call[c].tax = 0 /\ said # "ok" THEN GivesUp(c, said)
  ELSE IF needsListPrice THEN [call[c] EXCEPT !.stage = "valuation", !.identity = said = "ok"]
  ELSE ToWrite(c, call[c].tax, said = "ok")

\* fetchDetails: every failure is null.
IdentityAnswers ==
  /\ At("identity") \union At("describing") # {}
  /\ \E said \in IdentitySays, needsListPrice \in BOOLEAN :
       Continue(At("identity") \union At("describing"),
         LAMBDA c :
           IF call[c].stage = "identity" THEN IdentityKnown(c, said, needsListPrice)
           ELSE IF said = "ok" THEN [call[c] EXCEPT !.stage = "adding"]
           ELSE Done(call[c].known))
  /\ UNCHANGED <<now, version, onFile, provider, row, bills, paidAt>>

ValuationAnswers ==
  /\ At("valuation") # {}
  /\ Continue(At("valuation"), LAMBDA c : ToWrite(c, call[c].tax, call[c].identity))
  /\ UNCHANGED <<now, version, onFile, provider, row, bills, paidAt>>

-----------------------------------------------------------------------------

Tick ==
  /\ now < MaxTime
  /\ now' = now + 1
  /\ UNCHANGED <<version, onFile, provider, row, call, bills, paidAt>>

\* The server stops and starts, with the same build or the next.
Restart ==
  /\ Faults
  /\ version' \in {version, version + 1} \intersect Versions
  /\ call' = [c \in Requests |-> Done(Nothing)]
  /\ UNCHANGED <<now, onFile, provider, row, bills, paidAt>>

TaxAnswers == TaxPrices \/ TaxLeavesUnpriced \/ TaxFindsNothing \/ TaxFails \/ TaxThrows

Work(c) ==
  ReadRow(c) \/ Remap(c) \/ WriteRow(c) \/ LookForIdentity(c) \/ AddIdentity(c)
    \/ WriteFails(c)

Next ==
  \/ Tick \/ Restart \/ TaxAnswers \/ IdentityAnswers \/ ValuationAnswers
  \/ \E c \in Requests : Begin(c) \/ Work(c)

Spec == Init /\ [][Next]_vars

-----------------------------------------------------------------------------
(* Properties.                                                             *)

TypeOK ==
  /\ now \in Time
  /\ version \in Versions
  /\ onFile \in OnFile
  /\ provider \in Providers
  /\ row \in Row \union {NoRow}
  /\ call \in [Requests -> Call \union Idle]
  /\ bills \in Bills
  /\ paidAt \in Time

\* "The fix lands on the next request": whatever rows older builds left behind, and
\* whatever a request held while they were rewritten, no answer was mapped by another
\* build than the one that gives it.
ServedByThisBuild ==
  \A c \in Requests :
    call[c].stage = "idle" /\ call[c].told.as = "served" => call[c].told.readBy = version

Alone == \A c \in Active : call[c].solo

\* "A plate looked up twice inside the TTL is paid for once", where requests do not
\* overlap and the answer was kept: Tax is not paid again while the row holds the last
\* answer paid for and that was less than a TTL ago.
PaidOnceWhenKept ==
  [][bills' > bills /\ bills > 0 /\ Alone /\ row # NoRow /\ row.raw = bills
       => now >= paidAt + TTL]_vars

\* Each write touches some of the row's fields and leaves the others: without an overlap
\* they stay of one reading, so that a row with an identity ("nothing more to learn") is
\* a row whose vehicle has one.
RowStaysWhole == [][row' # row /\ Alone => row'.vin = row'.identity]_vars

Ends(c) == call[c].stage # "idle" /\ call'[c].stage = "idle"

\* "A stale answer is served in preference to an error": only a plate with no row gets
\* "could not check" from a provider that does not answer.  And no failure of the Tax
\* package is read as an absence: a tax check is told that there is no such vehicle only
\* where Tax has none; nor does the identity package have it, unless it did not say.
FailuresToldApart ==
  [][\A c \in Requests : Ends(c) =>
       /\ Alone /\ call'[c].told.as = "unavailable" => row = NoRow
       /\ call[c].kind = "tax" =>
            /\ call'[c].told.as \in {"not-found", "assumed-absent"} => ~provider.tax.recorded
            /\ call'[c].told.as = "not-found" => ~provider.identity.recorded]_vars

\* A V62 order that bought the identity has the VIN it paid for, unless the row expired
\* in between and Tax answered anew.
BoughtIdentityServed ==
  [][\A c \in Requests :
       Ends(c) /\ Alone /\ call[c].again /\ call'[c].told.as = "served"
         => call'[c].told.vin \/ call[c].stage = "writing"]_vars
=============================================================================
