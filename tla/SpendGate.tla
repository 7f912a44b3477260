------------------------------ MODULE SpendGate ------------------------------
(***************************************************************************)
(* VehicleDataClient: every lookup that leaves the server is billed, so it  *)
(* is "a spend gate first and an HTTP client second".  A caller either      *)
(* joins the call in flight for its key or starts one, which claims a slot  *)
(* of the day's budget, asks the provider, and hands the slot back when     *)
(* nothing was billed.  Callers interleave at every await, midnight may     *)
(* pass between any two of them, and the server may restart.                *)
(*                                                                         *)
(* A key is one package of one plate in one server process: each process    *)
(* has its own inFlight map.  The spacing of calls (waitForSlot) is only a   *)
(* delay before the answer.  A daily limit of zero refuses every call       *)
(* before anything happens.  The provider charges for what it says it       *)
(* answered: that a call which timed out costs nothing is its word.         *)
(***************************************************************************)
EXTENDS Naturals, FiniteSets

CONSTANTS
  Callers,  \* requests that can need vehicle data at once
  Keys,     \* what calls are collapsed by
  Nobody,   \* no call in flight
  Limit,    \* dailyCallLimit
  LastDay   \* bound: days modelled, in UTC

ASSUME CallersAssumption == Nobody \notin Callers /\ IsFiniteSet(Callers)
ASSUME LimitAssumption == Limit \in Nat \ {0}
ASSUME DaysAssumption == LastDay \in Nat \ {0}

Days == 1 .. LastDay

VARIABLES
  today,
  usage,       \* of each day: whether its document exists, and its count
  inFlight,  \* of each key: the caller whose call the others wait for
  caller,      \* of each caller: how far it is
  billed,    \* of each day: the calls claimed on it that the provider charged
  strays     \* of each day: the slots given back to it that were an earlier day's

gateVars == <<today, usage, inFlight, caller, billed, strays>>

NoUsage == [exists |-> FALSE, calls |-> 0]

\* day: the one a slot is claimed from; backTo: the one it is given back to.
Calling == [stage  : {"joined", "claiming", "inserting", "sending", "releasing"},
         key    : Keys,
         day    : Days,
         backTo : Days]

NotCalling == [stage |-> "idle"]

NewCall(stage, k) ==
  [stage |-> stage, key |-> k, day |-> today, backTo |-> today]

Spending(c) == caller[c].stage \in {"claiming", "inserting", "sending", "releasing"}

GateInit ==
  /\ today = 1
  /\ usage = [d \in Days |-> NoUsage]
  /\ inFlight = [k \in Keys |-> Nobody]
  /\ caller = [c \in Callers |-> NotCalling]
  /\ billed = [d \in Days |-> 0]
  /\ strays = [d \in Days |-> 0]

-----------------------------------------------------------------------------

Goto(c, stage) == caller' = [caller EXCEPT ![c].stage = stage]

\* Mutant: only the caller that made the call is answered.
Settle_ForgetsWaiters(c) ==
  /\ caller' = [caller EXCEPT ![c] = NotCalling]
  /\ inFlight' = [inFlight EXCEPT ![caller[c].key] = Nobody]

\* The promise settles: `finally' clears the entry, and everybody waiting has the answer.
Settle(c) ==
  /\ caller' = [w \in Callers |->
                IF w = c \/ (caller[w].stage = "joined" /\ caller[w].key = caller[c].key)
                THEN NotCalling ELSE caller[w]]
  /\ inFlight' = [inFlight EXCEPT ![caller[c].key] = Nobody]

\* Mutant: a call in flight is not looked for.
Ask_NeverJoins(c) ==
  /\ caller[c].stage = "idle"
  /\ \E k \in Keys :
       /\ caller' = [caller EXCEPT ![c] = NewCall("claiming", k)]
       /\ inFlight' = [inFlight EXCEPT ![k] = c]
  /\ UNCHANGED <<today, usage, billed, strays>>

\* fetchPackage: no await between looking for a call in flight and entering one, nor
\* until claimBudget has taken the day.
Ask(c) ==
  /\ caller[c].stage = "idle"
  /\ \E k \in Keys :
       \/ /\ inFlight[k] = Nobody
          /\ caller' = [caller EXCEPT ![c] = NewCall("claiming", k)]
          /\ inFlight' = [inFlight EXCEPT ![k] = c]
       \/ /\ inFlight[k] # Nobody
          /\ caller' = [caller EXCEPT ![c] = NewCall("joined", k)]
          /\ UNCHANGED inFlight
  /\ UNCHANGED <<today, usage, billed, strays>>

\* Mutant: the comparison lets one more through.
Matches_OneMore(d) == usage[d].exists /\ usage[d].calls <= Limit

Matches(d) == usage[d].exists /\ usage[d].calls < Limit

Counted(d)  == [usage EXCEPT ![d].calls = @ + 1]
Inserted(d) == [usage EXCEPT ![d] = [exists |-> TRUE, calls |-> 1]]

\* claimBudget's findOneAndUpdate, where it finds the day's row below the limit.
ClaimSlot(c) ==
  /\ caller[c].stage = "claiming"
  /\ Matches(caller[c].day)
  /\ usage' = Counted(caller[c].day)
  /\ Goto(c, "sending")
  /\ UNCHANGED <<today, inFlight, billed, strays>>

\* Where it finds none, the upsert goes on to insert one.
ClaimMissed(c) ==
  /\ caller[c].stage = "claiming"
  /\ ~Matches(caller[c].day)
  /\ Goto(c, "inserting")
  /\ UNCHANGED <<today, usage, inFlight, billed, strays>>

InsertRow(c) ==
  /\ caller[c].stage = "inserting"
  /\ ~usage[caller[c].day].exists
  /\ usage' = Inserted(caller[c].day)
  /\ Goto(c, "sending")
  /\ UNCHANGED <<today, inFlight, billed, strays>>

\* The unique index on day refuses it: error 11000, answered as "budget-spent".
RefuseInsert(c) ==
  /\ caller[c].stage = "inserting"
  /\ usage[caller[c].day].exists
  /\ Settle(c)
  /\ UNCHANGED <<today, usage, billed, strays>>

\* Any other error is thrown on, whether the database had counted the call or not.
ClaimFails(c) ==
  /\ caller[c].stage = "claiming"
  /\ \/ UNCHANGED usage
     \/ Matches(caller[c].day) /\ usage' = Counted(caller[c].day)
     \/ ~usage[caller[c].day].exists /\ usage' = Inserted(caller[c].day)
  /\ Settle(c)
  /\ UNCHANGED <<today, billed, strays>>

\* A successful return, which is what the provider charges for.
Answer(c) ==
  /\ caller[c].stage = "sending"
  /\ billed' = [billed EXCEPT ![caller[c].day] = @ + 1]
  /\ Settle(c)
  /\ UNCHANGED <<today, usage, strays>>

\* Refused, an error or no answer in time: releaseBudget takes the day it is now.
Fail(c) ==
  /\ caller[c].stage = "sending"
  /\ caller' = [caller EXCEPT ![c].stage = "releasing", ![c].backTo = today]
  /\ UNCHANGED <<today, usage, inFlight, billed, strays>>

\* Mutant: the slot is given back twice over.
GivenBack_Twice(n) == IF n > 1 THEN n - 2 ELSE 0

\* calls: { $gt: 0 } guards the decrement.
GivenBack(n) == IF n > 0 THEN n - 1 ELSE 0

ReleaseBudget(c) ==
  /\ caller[c].stage = "releasing"
  /\ usage' = [usage EXCEPT ![caller[c].backTo].calls = GivenBack(@)]
  /\ strays' = IF caller[c].day = caller[c].backTo THEN strays
               ELSE [strays EXCEPT ![caller[c].backTo] = @ + 1]
  /\ Settle(c)
  /\ UNCHANGED <<today, billed>>

\* An error on the way back is swallowed: the slot stays taken.
ReleaseFails(c) ==
  /\ caller[c].stage = "releasing"
  /\ Settle(c)
  /\ UNCHANGED <<today, usage, billed, strays>>

Midnight ==
  /\ today < LastDay
  /\ today' = today + 1
  /\ UNCHANGED <<usage, inFlight, caller, billed, strays>>

\* The server stops with calls in progress, which the provider may answer or not.
ServerRestarts ==
  /\ \E answered \in SUBSET {c \in Callers : caller[c].stage = "sending"} :
       billed' = [d \in Days |->
                    billed[d] + Cardinality({c \in answered : caller[c].day = d})]
  /\ caller' = [c \in Callers |-> NotCalling]
  /\ inFlight' = [k \in Keys |-> Nobody]
  /\ UNCHANGED <<today, usage, strays>>

Spend(c) ==
  \/ ClaimSlot(c) \/ ClaimMissed(c) \/ InsertRow(c) \/ RefuseInsert(c) \/ ClaimFails(c)
  \/ Answer(c) \/ Fail(c) \/ ReleaseBudget(c) \/ ReleaseFails(c)

GateNext ==
  \/ Midnight \/ ServerRestarts
  \/ \E c \in Callers : Ask(c) \/ Spend(c)

GateSpec == GateInit /\ [][GateNext]_gateVars

\* The database and the provider answer, or the request's timeout does it for them.
FairGateSpec == GateSpec /\ \A c \in Callers : WF_gateVars(Spend(c))

-----------------------------------------------------------------------------
(* Properties.                                                             *)

GateTypeOK ==
  /\ today \in Days
  /\ usage \in [Days -> [exists : BOOLEAN, calls : Nat]]
  /\ inFlight \in [Keys -> Callers \union {Nobody}]
  /\ caller \in [Callers -> Calling \union {NotCalling}]
  /\ billed \in [Days -> Nat]
  /\ strays \in [Days -> Nat]
  /\ \A d \in Days : ~usage[d].exists => usage[d].calls = 0

\* "Concurrent requests for the same plate are collapsed into one call": a call that
\* spends is the one its key's entry names, an entry names a call that still spends, and
\* whoever waits has an entry to wait for.
OneCallPerKey ==
  /\ \A c \in Callers : Spending(c) => inFlight[caller[c].key] = c
  /\ \A k \in Keys : inFlight[k] # Nobody =>
       Spending(inFlight[k]) /\ caller[inFlight[k]].key = k
  /\ \A c \in Callers : caller[c].stage = "joined" => inFlight[caller[c].key] # Nobody

\* "Two instances racing cannot both see the last call as available": however claims,
\* releases and midnight interleave, no row passes the limit.
RowWithinLimit == \A d \in Days : usage[d].calls <= Limit

\* The calls of a day that have a slot of its budget and no outcome yet.
Holding(d) == {c \in Callers : caller[c].stage \in {"sending", "releasing"} /\ caller[c].day = d}

\* "Counted in the database against a hard ceiling", so that no restart, lost answer or
\* overlap hands out a fresh budget: what a day's row does not count, of the calls
\* charged and those that may yet be, is what calls of the day before gave back to it.
CountedButForMidnight ==
  \A d \in Days : billed[d] + Cardinality(Holding(d)) <= usage[d].calls + strays[d]

\* Whoever waits for vehicle data has an answer in the end.
EveryCallerAnswered == \A c \in Callers : caller[c].stage # "idle" ~> caller[c].stage = "idle"
=============================================================================
