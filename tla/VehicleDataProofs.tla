--------------------------- MODULE VehicleDataProofs ---------------------------
(***************************************************************************)
(* The two sides of a vehicle lookup.  The gate, for any number of callers, *)
(* keys and days and any limit: no row passes the limit, a key has one      *)
(* call, and the row counts every call that is or may yet be charged, but   *)
(* for the slots given back across midnight.                                *)
(*                                                                         *)
(* The cache, for any number of requests, any TTL and any number of         *)
(* deployments: what is served was mapped by the build that serves it,      *)
(* whatever the requests held while rows were rewritten under them; and a   *)
(* request that none overlaps pays once, leaves the row whole and is told   *)
(* what is so.                                                              *)
(***************************************************************************)
EXTENDS SpendGate, VehicleCache, FiniteSetTheorems, TLAPS

-----------------------------------------------------------------------------
(* The gate.                                                                *)

GateInv == GateTypeOK /\ OneCallPerKey /\ RowWithinLimit /\ CountedButForMidnight

-----------------------------------------------------------------------------
(* Counting, for sets of callers.                                           *)

\* A part of a set of callers has no more members.
LEMMA CountsFewer ==
  ASSUME NEW S \in SUBSET Callers, NEW T \in SUBSET S
  PROVE  Cardinality(T) \in Nat /\ Cardinality(S) \in Nat /\ Cardinality(T) <= Cardinality(S)
BY CallersAssumption, FS_Subset, FS_CardinalityType

\* One caller more adds at most one.
LEMMA CountsOneMore ==
  ASSUME NEW S \in SUBSET Callers, NEW c \in Callers, NEW T \in SUBSET (S \union {c})
  PROVE  Cardinality(T) <= Cardinality(S) + 1
<1>1. IsFiniteSet(S)
  BY CallersAssumption, FS_Subset
<1>2. Cardinality(S \union {c}) <= Cardinality(S) + 1
  <2>1. Cardinality(S \union {c}) = IF c \in S THEN Cardinality(S) ELSE Cardinality(S) + 1
    BY <1>1, FS_AddElement
  <2>2. Cardinality(S) \in Nat
    BY CountsFewer
  <2> QED
    BY <2>1, <2>2
<1>3. /\ Cardinality(T) \in Nat /\ Cardinality(S \union {c}) \in Nat
      /\ Cardinality(T) <= Cardinality(S \union {c})
  BY CountsFewer
<1>4. Cardinality(S) \in Nat
  BY CountsFewer
<1> QED
  BY <1>2, <1>3, <1>4

\* A caller fewer takes at least one away.
LEMMA CountsOneLess ==
  ASSUME NEW S \in SUBSET Callers, NEW c \in S, NEW T \in SUBSET (S \ {c})
  PROVE  Cardinality(T) + 1 <= Cardinality(S)
<1>1. IsFiniteSet(S)
  BY CallersAssumption, FS_Subset
<1>2. Cardinality(S \ {c}) = Cardinality(S) - 1
  BY <1>1, FS_RemoveElement
<1>3. /\ Cardinality(T) \in Nat /\ Cardinality(S \ {c}) \in Nat
      /\ Cardinality(T) <= Cardinality(S \ {c})
  BY CountsFewer
<1>4. Cardinality(S) \in Nat
  BY CountsFewer
<1> QED
  BY <1>2, <1>3, <1>4

-----------------------------------------------------------------------------
(* The type.                                                                *)

\* A new call is a call, on a day there is.
LEMMA NewCallType ==
  ASSUME GateTypeOK, NEW k \in Keys, NEW stage \in {"claiming", "joined"}
  PROVE  NewCall(stage, k) \in Calling
BY DEF GateTypeOK, NewCall, Calling

\* Whoever takes a step of spending has a call.
LEMMA WorkerType ==
  ASSUME GateTypeOK, NEW c \in Callers, Spend(c)
  PROVE  caller[c] \in Calling /\ Spending(c)
BY DEF GateTypeOK, Spending, Spend, NotCalling, Calling, ClaimSlot, ClaimMissed, InsertRow, RefuseInsert,
       ClaimFails, Answer, Fail, ReleaseBudget, ReleaseFails

\* Settling keeps the type of the calls and of the entries.
LEMMA SettleType ==
  ASSUME GateTypeOK, NEW c \in Callers, caller[c].stage # "idle", Settle(c)
  PROVE  /\ caller' \in [Callers -> Calling \union {NotCalling}]
         /\ inFlight' \in [Keys -> Callers \union {Nobody}]
BY DEF GateTypeOK, Settle, Calling, NotCalling

\* Every step keeps the type.
LEMMA TypeStep ==
  ASSUME GateTypeOK, [GateNext]_gateVars
  PROVE  GateTypeOK'
<1>1. CASE UNCHANGED gateVars
  BY <1>1 DEF GateTypeOK, gateVars
<1>2. CASE Midnight
  BY <1>2, DaysAssumption DEF GateTypeOK, Midnight, Days
<1>3. CASE ServerRestarts
  <2>1. PICK answered \in SUBSET {c \in Callers : caller[c].stage = "sending"} :
          billed' = [d \in Days |->
                       billed[d] + Cardinality({c \in answered : caller[c].day = d})]
    BY <1>3 DEF ServerRestarts
  <2>2. \A d \in Days : Cardinality({c \in answered : caller[c].day = d}) \in Nat
    BY CountsFewer
  <2>3. billed' \in [Days -> Nat]
    BY <2>1, <2>2 DEF GateTypeOK
  <2>4. /\ caller' \in [Callers -> Calling \union {NotCalling}]
        /\ inFlight' \in [Keys -> Callers \union {Nobody}]
        /\ UNCHANGED <<today, usage, strays>>
    BY <1>3 DEF ServerRestarts
  <2> QED
    BY <2>3, <2>4 DEF GateTypeOK
<1>4. ASSUME NEW c \in Callers, Ask(c)
      PROVE  GateTypeOK'
  <2>1. PICK k \in Keys :
          /\ \/ caller' = [caller EXCEPT ![c] = NewCall("claiming", k)]
             \/ caller' = [caller EXCEPT ![c] = NewCall("joined", k)]
          /\ inFlight' = [inFlight EXCEPT ![k] = c] \/ inFlight' = inFlight
    BY <1>4 DEF Ask
  <2>2. NewCall("claiming", k) \in Calling /\ NewCall("joined", k) \in Calling
    BY NewCallType
  <2> QED
    BY <1>4, <2>1, <2>2 DEF GateTypeOK, Ask
<1>5. ASSUME NEW c \in Callers, Spend(c)
      PROVE  GateTypeOK'
  <2>1. caller[c] \in Calling
    BY <1>5, WorkerType
  <2>2. caller[c].day \in Days /\ caller[c].backTo \in Days /\ caller[c].stage # "idle"
    BY <2>1 DEF Calling
  <2>3. CASE ClaimSlot(c)
    BY <2>1, <2>2, <2>3 DEF GateTypeOK, ClaimSlot, Matches, Counted, Goto, Calling
  <2>4. CASE ClaimMissed(c)
    BY <2>1, <2>2, <2>4 DEF GateTypeOK, ClaimMissed, Goto, Calling
  <2>5. CASE InsertRow(c)
    BY <2>1, <2>2, <2>5 DEF GateTypeOK, InsertRow, Inserted, Goto, Calling
  <2>6. CASE RefuseInsert(c)
    BY <2>2, <2>6, SettleType DEF GateTypeOK, RefuseInsert
  <2>7. CASE ClaimFails(c)
    <3>a. UNCHANGED usage \/ usage' = Counted(caller[c].day) \/ usage' = Inserted(caller[c].day)
      BY <2>7 DEF ClaimFails
    <3>b. /\ Counted(caller[c].day) \in [Days -> [exists : BOOLEAN, calls : Nat]]
          /\ Inserted(caller[c].day) \in [Days -> [exists : BOOLEAN, calls : Nat]]
      BY <2>2 DEF GateTypeOK, Counted, Inserted
    <3>1. usage' \in [Days -> [exists : BOOLEAN, calls : Nat]]
      BY <3>a, <3>b DEF GateTypeOK
    <3>2. \A d \in Days : ~usage'[d].exists => usage'[d].calls = 0
      BY <2>2, <2>7 DEF GateTypeOK, ClaimFails, Matches, Counted, Inserted
    <3> QED
      BY <2>2, <2>7, <3>1, <3>2, SettleType DEF GateTypeOK, ClaimFails
  <2>8. CASE Answer(c)
    BY <2>2, <2>8, SettleType DEF GateTypeOK, Answer
  <2>9. CASE Fail(c)
    BY <2>1, <2>9 DEF GateTypeOK, Fail, Calling
  <2>10. CASE ReleaseBudget(c)
    <3>1. usage' \in [Days -> [exists : BOOLEAN, calls : Nat]]
      BY <2>2, <2>10 DEF GateTypeOK, ReleaseBudget, GivenBack
    <3>2. \A d \in Days : ~usage'[d].exists => usage'[d].calls = 0
      BY <2>2, <2>10 DEF GateTypeOK, ReleaseBudget, GivenBack
    <3>3. strays' \in [Days -> Nat]
      BY <2>2, <2>10 DEF GateTypeOK, ReleaseBudget
    <3> QED
      BY <2>2, <2>10, <3>1, <3>2, <3>3, SettleType DEF GateTypeOK, ReleaseBudget
  <2>11. CASE ReleaseFails(c)
    BY <2>2, <2>11, SettleType DEF GateTypeOK, ReleaseFails
  <2> QED
    BY <1>5, <2>3, <2>4, <2>5, <2>6, <2>7, <2>8, <2>9, <2>10, <2>11 DEF Spend
<1> QED
  BY <1>1, <1>2, <1>3, <1>4, <1>5 DEF GateNext

-----------------------------------------------------------------------------
(* The limit.                                                               *)

\* Only Counted and Inserted raise a row, each below the limit.
LEMMA LimitStep ==
  ASSUME GateTypeOK, RowWithinLimit, [GateNext]_gateVars
  PROVE  RowWithinLimit'
<1> USE DEF RowWithinLimit
<1>1. CASE usage' = usage
  BY <1>1
<1>2. ASSUME NEW d \in Days, Matches(d), usage' = Counted(d)
      PROVE  RowWithinLimit'
  BY <1>2, LimitAssumption DEF GateTypeOK, Matches, Counted
<1>3. ASSUME NEW d \in Days, usage' = Inserted(d)
      PROVE  RowWithinLimit'
  BY <1>3, LimitAssumption DEF GateTypeOK, Inserted
<1>4. ASSUME NEW c \in Callers, Spend(c)
      PROVE  RowWithinLimit'
  <2>1. caller[c] \in Calling
    BY <1>4, WorkerType
  <2>2. caller[c].day \in Days /\ caller[c].backTo \in Days
    BY <2>1 DEF Calling
  <2>3. CASE ClaimSlot(c)
    BY <1>2, <2>2, <2>3 DEF ClaimSlot
  <2>4. CASE InsertRow(c)
    BY <1>3, <2>2, <2>4 DEF InsertRow
  <2>5. CASE ClaimFails(c)
    BY <1>1, <1>2, <1>3, <2>2, <2>5 DEF ClaimFails
  <2>6. CASE ReleaseBudget(c)
    BY <2>2, <2>6, LimitAssumption DEF GateTypeOK, ReleaseBudget, GivenBack
  <2>7. CASE ClaimMissed(c) \/ RefuseInsert(c) \/ Answer(c) \/ Fail(c) \/ ReleaseFails(c)
    BY <1>1, <2>7 DEF ClaimMissed, RefuseInsert, Answer, Fail, ReleaseFails
  <2> QED
    BY <1>4, <2>3, <2>4, <2>5, <2>6, <2>7 DEF Spend
<1>5. CASE Midnight \/ ServerRestarts \/ \E c \in Callers : Ask(c)
  BY <1>1, <1>5 DEF Midnight, ServerRestarts, Ask
<1> QED
  BY <1>1, <1>4, <1>5 DEF GateNext, gateVars

-----------------------------------------------------------------------------
(* One call per key.                                                        *)

\* A call that gets one stage further is still the one its entry names.
LEMMA OnwardStep ==
  ASSUME GateTypeOK, OneCallPerKey, NEW c \in Callers, caller[c] \in Calling, Spending(c),
         Spending(c)', caller'[c].key = caller[c].key,
         \A w \in Callers \ {c} : caller'[w] = caller[w], inFlight' = inFlight
  PROVE  OneCallPerKey'
<1>1. \A w \in Callers : Spending(w)' <=> Spending(w)
  BY DEF Spending
<1>2. \A w \in Callers : Spending(w) \/ caller[w].stage = "joined" => caller'[w].key = caller[w].key
  OBVIOUS
<1>3. caller[c].stage # "joined" /\ caller'[c].stage # "joined"
  BY DEF Spending
<1> QED
  BY <1>1, <1>2, <1>3 DEF OneCallPerKey, GateTypeOK

\* A call that settles takes its own entry and its own waiters along.
LEMMA SettleStep ==
  ASSUME GateTypeOK, OneCallPerKey, NEW c \in Callers, caller[c] \in Calling, Spending(c), Settle(c)
  PROVE  OneCallPerKey'
<1>1. inFlight[caller[c].key] = c /\ caller[c].key \in Keys
  BY DEF OneCallPerKey, Calling
<1>2. /\ inFlight'[caller[c].key] = Nobody
      /\ \A k \in Keys \ {caller[c].key} : inFlight'[k] = inFlight[k]
  BY <1>1 DEF Settle, GateTypeOK
<1>3. \A w \in Callers :
        \/ caller'[w] = NotCalling
        \/ /\ caller'[w] = caller[w] /\ w # c
           /\ caller[w].stage = "joined" => caller[w].key # caller[c].key
  BY DEF Settle
<1>4. \A w \in Callers : caller[w] = NotCalling \/ caller[w].key \in Keys
  BY DEF GateTypeOK, Calling
<1>5. ASSUME NEW w \in Callers, Spending(w)'
      PROVE  inFlight'[caller'[w].key] = w
  <2>1. caller'[w] = caller[w] /\ w # c /\ Spending(w) /\ caller[w].key \in Keys
    BY <1>3, <1>4, <1>5 DEF Spending, NotCalling
  <2>2. inFlight[caller[w].key] = w
    BY <2>1 DEF OneCallPerKey
  <2> QED
    BY <1>1, <1>2, <2>1, <2>2
<1>6. ASSUME NEW k \in Keys, inFlight'[k] # Nobody
      PROVE  Spending(inFlight[k])' /\ caller'[inFlight'[k]].key = k
  <2>1. k # caller[c].key /\ inFlight'[k] = inFlight[k] /\ inFlight[k] \in Callers
    BY <1>2, <1>6 DEF GateTypeOK
  <2>2. Spending(inFlight[k]) /\ caller[inFlight[k]].key = k
    BY <1>6, <2>1 DEF OneCallPerKey
  <2>3. caller'[inFlight[k]] = caller[inFlight[k]]
    BY <2>1, <2>2 DEF Settle, Spending
  <2> QED
    BY <2>1, <2>2, <2>3 DEF Spending
<1>7. ASSUME NEW w \in Callers, caller'[w].stage = "joined"
      PROVE  inFlight'[caller'[w].key] # Nobody
  <2>1. caller'[w] = caller[w] /\ caller[w].key # caller[c].key /\ caller[w].key \in Keys
    BY <1>3, <1>4, <1>7 DEF NotCalling
  <2> QED
    BY <1>2, <1>7, <2>1 DEF OneCallPerKey
<1> QED
  BY <1>5, <1>6, <1>7 DEF OneCallPerKey

\* Every step keeps one call per key.
LEMMA OneCallStep ==
  ASSUME GateTypeOK, OneCallPerKey, [GateNext]_gateVars
  PROVE  OneCallPerKey'
<1>1. CASE UNCHANGED <<inFlight, caller>>
  BY <1>1 DEF OneCallPerKey, Spending
<1>2. CASE ServerRestarts
  BY <1>2 DEF OneCallPerKey, Spending, ServerRestarts, NotCalling
<1>3. ASSUME NEW c \in Callers, Ask(c)
      PROVE  OneCallPerKey'
  <2>1. caller[c].stage = "idle"
    BY <1>3 DEF Ask
  <2>2. ASSUME NEW k \in Keys, inFlight[k] = Nobody,
               caller' = [caller EXCEPT ![c] = NewCall("claiming", k)],
               inFlight' = [inFlight EXCEPT ![k] = c]
        PROVE  OneCallPerKey'
    <3>1. /\ caller'[c].stage = "claiming" /\ caller'[c].key = k /\ Spending(c)'
          /\ \A w \in Callers \ {c} : caller'[w] = caller[w]
          /\ inFlight'[k] = c
          /\ \A j \in Keys \ {k} : inFlight'[j] = inFlight[j]
      BY <2>2 DEF GateTypeOK, NewCall, Spending
    <3>2. \A w \in Callers : caller[w] = NotCalling \/ caller[w].key \in Keys
      BY DEF GateTypeOK, Calling
    <3>3. \A w \in Callers : Spending(w) => w # c /\ caller[w].key # k /\ caller[w].key \in Keys
      BY <2>1, <2>2, <3>2, CallersAssumption DEF OneCallPerKey, Spending, NotCalling
    <3>4. \A w \in Callers : caller[w].stage = "joined" =>
            w # c /\ caller[w].key # k /\ caller[w].key \in Keys
      BY <2>1, <2>2, <3>2 DEF OneCallPerKey, NotCalling
    <3>5. \A w \in Callers \ {c} : Spending(w)' <=> Spending(w)
      BY <3>1 DEF Spending
    <3>6. \A w \in Callers : Spending(w)' => inFlight'[caller'[w].key] = w
      BY <3>1, <3>3, <3>5 DEF OneCallPerKey
    <3>7. \A j \in Keys : inFlight'[j] # Nobody =>
            Spending(inFlight[j])' /\ caller'[inFlight'[j]].key = j
      <4>1. ASSUME NEW j \in Keys \ {k}, inFlight'[j] # Nobody
            PROVE  Spending(inFlight[j])' /\ caller'[inFlight'[j]].key = j
        <5>1. inFlight'[j] = inFlight[j] /\ inFlight[j] \in Callers
          BY <3>1, <4>1 DEF GateTypeOK
        <5>2. Spending(inFlight[j]) /\ caller[inFlight[j]].key = j
          BY <4>1, <5>1 DEF OneCallPerKey
        <5>3. caller'[inFlight[j]] = caller[inFlight[j]]
          BY <3>1, <3>3, <5>1, <5>2
        <5> QED
          BY <5>1, <5>2, <5>3 DEF Spending
      <4> QED
        BY <3>1, <4>1
    <3>8. \A w \in Callers : caller'[w].stage = "joined" => inFlight'[caller'[w].key] # Nobody
      BY <3>1, <3>4 DEF OneCallPerKey
    <3> QED
      BY <3>6, <3>7, <3>8 DEF OneCallPerKey
  <2>3. ASSUME NEW k \in Keys, inFlight[k] # Nobody,
               caller' = [caller EXCEPT ![c] = NewCall("joined", k)], inFlight' = inFlight
        PROVE  OneCallPerKey'
    <3>1. /\ caller'[c].stage = "joined" /\ caller'[c].key = k
          /\ \A w \in Callers \ {c} : caller'[w] = caller[w]
      BY <2>3 DEF GateTypeOK, NewCall
    <3>2. \A w \in Callers : Spending(w)' <=> Spending(w)
      BY <2>1, <3>1 DEF Spending
    <3>3. \A w \in Callers : Spending(w) => caller'[w] = caller[w]
      BY <2>1, <3>1 DEF Spending
    <3>4. \A w \in Callers : Spending(w)' => inFlight'[caller'[w].key] = w
      BY <2>3, <3>2, <3>3 DEF OneCallPerKey
    <3>5. \A j \in Keys : inFlight[j] # Nobody =>
            /\ inFlight[j] \in Callers /\ Spending(inFlight[j])
            /\ caller[inFlight[j]].key = j
      BY DEF OneCallPerKey, GateTypeOK
    <3>6. \A j \in Keys : inFlight'[j] # Nobody =>
            Spending(inFlight[j])' /\ caller'[inFlight[j]].key = j
      BY <2>3, <3>2, <3>3, <3>5
    <3>7. \A w \in Callers : caller'[w].stage = "joined" => inFlight'[caller'[w].key] # Nobody
      BY <2>3, <3>1 DEF OneCallPerKey
    <3> QED
      BY <2>3, <3>2, <3>3, <3>4, <3>5, <3>6, <3>7 DEF OneCallPerKey, Spending
  <2> QED
    BY <1>3, <2>2, <2>3 DEF Ask
<1>4. ASSUME NEW c \in Callers, Spend(c)
      PROVE  OneCallPerKey'
  <2>1. caller[c] \in Calling /\ Spending(c)
    BY <1>4, WorkerType
  <2>2. CASE ClaimSlot(c) \/ ClaimMissed(c) \/ InsertRow(c) \/ Fail(c)
    <3>1. /\ caller'[c].stage \in {"sending", "inserting", "releasing"}
          /\ caller'[c].key = caller[c].key
          /\ \A w \in Callers \ {c} : caller'[w] = caller[w]
          /\ inFlight' = inFlight
      BY <2>1, <2>2 DEF GateTypeOK, ClaimSlot, ClaimMissed, InsertRow, Fail, Goto, Calling
    <3>2. Spending(c)'
      BY <3>1 DEF Spending
    <3> QED
      BY <2>1, <3>1, <3>2, OnwardStep
  <2>3. CASE RefuseInsert(c) \/ ClaimFails(c) \/ Answer(c) \/ ReleaseBudget(c) \/ ReleaseFails(c)
    BY <2>1, <2>3, SettleStep
       DEF RefuseInsert, ClaimFails, Answer, ReleaseBudget, ReleaseFails
  <2> QED
    BY <1>4, <2>2, <2>3 DEF Spend
<1> QED
  BY <1>1, <1>2, <1>3, <1>4 DEF GateNext, gateVars, Midnight

-----------------------------------------------------------------------------
(* What the row counts.                                                     *)

\* Settling a call gives up its place among those that may yet be charged.
LEMMA SettleHolding ==
  ASSUME GateTypeOK, NEW c \in Callers, Settle(c), NEW d \in Days
  PROVE  Holding(d)' \subseteq Holding(d) \ {c}
BY DEF Settle, Holding, NotCalling

\* Steps that count a call before it may be charged, or none: the sum of what is charged
\* and what may be grows no faster than the row.
LEMMA CountKept ==
  ASSUME GateTypeOK, CountedButForMidnight, NEW d \in Days,
         Holding(d)' \subseteq Holding(d), billed'[d] = billed[d],
         usage'[d].calls \in Nat, usage[d].calls <= usage'[d].calls, strays'[d] = strays[d]
  PROVE  billed'[d] + Cardinality(Holding(d)') <= usage'[d].calls + strays'[d]
<1>1. Holding(d) \in SUBSET Callers
  BY DEF Holding
<1>2. /\ Cardinality(Holding(d)') \in Nat /\ Cardinality(Holding(d)) \in Nat
      /\ Cardinality(Holding(d)') <= Cardinality(Holding(d))
  BY <1>1, CountsFewer
<1>3. billed[d] \in Nat /\ strays[d] \in Nat /\ usage[d].calls \in Nat
  BY DEF GateTypeOK
<1>4. billed[d] + Cardinality(Holding(d)) <= usage[d].calls + strays[d]
  BY DEF CountedButForMidnight
<1> QED
  BY <1>2, <1>3, <1>4

LEMMA CountTaken ==
  ASSUME GateTypeOK, CountedButForMidnight, NEW d \in Days, NEW c \in Callers,
         Holding(d)' \subseteq Holding(d) \union {c}, billed'[d] = billed[d],
         usage'[d].calls = usage[d].calls + 1, strays'[d] = strays[d]
  PROVE  billed'[d] + Cardinality(Holding(d)') <= usage'[d].calls + strays'[d]
<1>1. Holding(d) \in SUBSET Callers /\ Holding(d)' \in SUBSET Callers
  BY DEF Holding
<1>2. /\ Cardinality(Holding(d)') \in Nat /\ Cardinality(Holding(d)) \in Nat
      /\ Cardinality(Holding(d)') <= Cardinality(Holding(d)) + 1
  BY <1>1, CountsFewer, CountsOneMore
<1>3. billed[d] \in Nat /\ strays[d] \in Nat /\ usage[d].calls \in Nat
  BY DEF GateTypeOK
<1>4. billed[d] + Cardinality(Holding(d)) <= usage[d].calls + strays[d]
  BY DEF CountedButForMidnight
<1> QED
  BY <1>2, <1>3, <1>4

\* A call that settles leaves room for one more charge, or one slot less.
LEMMA CountGivenUp ==
  ASSUME GateTypeOK, CountedButForMidnight, NEW d \in Days, NEW c \in Holding(d),
         Holding(d)' \subseteq Holding(d) \ {c},
         NEW b \in Nat, NEW r \in Nat,
         b + usage[d].calls <= billed[d] + r + 1
  PROVE  b + Cardinality(Holding(d)') <= r + strays[d]
<1>1. Holding(d) \in SUBSET Callers /\ Holding(d)' \in SUBSET Callers
  BY DEF Holding
<1>2. /\ Cardinality(Holding(d)') \in Nat /\ Cardinality(Holding(d)) \in Nat
      /\ Cardinality(Holding(d)') + 1 <= Cardinality(Holding(d))
  BY <1>1, CountsFewer, CountsOneLess
<1>3. billed[d] \in Nat /\ strays[d] \in Nat /\ usage[d].calls \in Nat
  BY DEF GateTypeOK
<1>4. billed[d] + Cardinality(Holding(d)) <= usage[d].calls + strays[d]
  BY DEF CountedButForMidnight
<1> QED
  BY <1>2, <1>3, <1>4

\* Every step keeps the count of every day.
LEMMA CountStep ==
  ASSUME GateTypeOK, CountedButForMidnight, [GateNext]_gateVars, NEW d \in Days
  PROVE  billed'[d] + Cardinality(Holding(d)') <= usage'[d].calls + strays'[d]
<1> DEFINE Counts == billed'[d] + Cardinality(Holding(d)') <= usage'[d].calls + strays'[d]
<1>0. /\ usage[d].calls \in Nat /\ billed[d] \in Nat /\ strays[d] \in Nat
      /\ usage'[d].calls \in Nat
  BY TypeStep DEF GateTypeOK
<1>1. CASE UNCHANGED gateVars \/ Midnight
  <2>1. Holding(d)' = Holding(d) /\ UNCHANGED <<usage, billed, strays>>
    BY <1>1 DEF gateVars, Midnight, Holding
  <2> QED
    BY <1>0, <2>1, CountKept
<1>2. CASE ServerRestarts
  <2>1. PICK answered \in SUBSET {c \in Callers : caller[c].stage = "sending"} :
          billed' = [e \in Days |->
                       billed[e] + Cardinality({c \in answered : caller[c].day = e})]
    BY <1>2 DEF ServerRestarts
  <2> DEFINE A == {c \in answered : caller[c].day = d}
  <2>2. billed'[d] = billed[d] + Cardinality(A)
    BY <2>1
  <2>3. A \subseteq Holding(d) /\ Holding(d) \in SUBSET Callers
    BY DEF Holding
  <2>4. /\ Cardinality(A) \in Nat /\ Cardinality(Holding(d)) \in Nat
        /\ Cardinality(A) <= Cardinality(Holding(d))
    BY <2>3, CountsFewer
  <2>5. Holding(d)' = {}
    BY <1>2 DEF ServerRestarts, Holding, NotCalling
  <2>6. Cardinality(Holding(d)') = 0
    BY <2>5, FS_EmptySet
  <2>7. usage' = usage /\ strays' = strays
    BY <1>2 DEF ServerRestarts
  <2>8. billed[d] + Cardinality(Holding(d)) <= usage[d].calls + strays[d]
    BY DEF CountedButForMidnight
  <2> HIDE DEF A
  <2> QED
    BY <1>0, <2>2, <2>4, <2>6, <2>7, <2>8
<1>3. ASSUME NEW c \in Callers, Ask(c)
      PROVE  Counts
  <2>1. Holding(d)' \subseteq Holding(d)
    BY <1>3 DEF GateTypeOK, Ask, NewCall, Holding
  <2>2. UNCHANGED <<usage, billed, strays>>
    BY <1>3 DEF Ask
  <2> QED
    BY <1>0, <2>1, <2>2, CountKept
<1>4. ASSUME NEW c \in Callers, Spend(c)
      PROVE  Counts
  <2>1. caller[c] \in Calling
    BY <1>4, WorkerType
  <2>2. caller[c].day \in Days /\ caller[c].backTo \in Days
    BY <2>1 DEF Calling
  <2>3. ASSUME usage' = Counted(caller[c].day) \/ (~usage[caller[c].day].exists /\ usage' = Inserted(caller[c].day))
        PROVE  usage'[d].calls = IF d = caller[c].day THEN usage[d].calls + 1 ELSE usage[d].calls
    BY <2>2, <2>3 DEF GateTypeOK, Counted, Inserted
  <2>4. CASE ClaimSlot(c) \/ InsertRow(c)
    <3>1. UNCHANGED <<billed, strays>>
      BY <2>4 DEF ClaimSlot, InsertRow
    <3>2. usage'[d].calls = IF d = caller[c].day THEN usage[d].calls + 1 ELSE usage[d].calls
      BY <2>3, <2>4 DEF ClaimSlot, InsertRow
    <3>3. Holding(d)' \subseteq IF d = caller[c].day THEN Holding(d) \union {c} ELSE Holding(d)
      BY <2>1, <2>4 DEF GateTypeOK, Calling, ClaimSlot, InsertRow, Goto, Holding
    <3>4. CASE d = caller[c].day
      BY <3>1, <3>2, <3>3, <3>4, CountTaken
    <3>5. CASE d # caller[c].day
      BY <1>0, <3>1, <3>2, <3>3, <3>5, CountKept
    <3> QED
      BY <3>4, <3>5
  <2>5. CASE ClaimMissed(c) \/ Fail(c)
    <3>1. UNCHANGED <<usage, billed, strays>>
      BY <2>5 DEF ClaimMissed, Fail
    <3>2. /\ caller'[c].day = caller[c].day
          /\ caller'[c].stage = "releasing" => caller[c].stage = "sending"
          /\ caller'[c].stage # "sending"
          /\ \A w \in Callers \ {c} : caller'[w] = caller[w]
      BY <2>1, <2>5 DEF GateTypeOK, Calling, ClaimMissed, Fail, Goto
    <3>3. Holding(d)' \subseteq Holding(d)
      BY <3>2 DEF Holding
    <3> QED
      BY <1>0, <3>1, <3>3, CountKept
  <2>6. CASE RefuseInsert(c) \/ ClaimFails(c) \/ ReleaseFails(c)
    <3>1. UNCHANGED <<billed, strays>> /\ Settle(c)
      BY <2>6 DEF RefuseInsert, ClaimFails, ReleaseFails
    <3>2. usage[d].calls <= usage'[d].calls
      BY <1>0, <2>3, <2>6 DEF RefuseInsert, ClaimFails, ReleaseFails
    <3>3. Holding(d)' \subseteq Holding(d)
      BY <3>1, SettleHolding
    <3> QED
      BY <1>0, <3>1, <3>2, <3>3, CountKept
  <2>7. CASE Answer(c)
    <3>1. UNCHANGED <<usage, strays>> /\ Settle(c)
      BY <2>7 DEF Answer
    <3>2. Holding(d)' \subseteq Holding(d) \ {c}
      BY <3>1, SettleHolding
    <3>3. billed'[d] = IF d = caller[c].day THEN billed[d] + 1 ELSE billed[d]
      BY <2>2, <2>7 DEF GateTypeOK, Answer
    <3>4. CASE d = caller[c].day
      <4>1. c \in Holding(d)
        BY <2>7, <3>4 DEF Answer, Holding
      <4>2. /\ billed'[d] \in Nat
            /\ billed'[d] + usage[d].calls <= billed[d] + usage'[d].calls + 1
        BY <1>0, <3>1, <3>3, <3>4
      <4> QED
        BY <1>0, <3>1, <3>2, <4>1, <4>2, CountGivenUp
    <3>5. CASE d # caller[c].day
      BY <1>0, <3>1, <3>2, <3>3, <3>5, CountKept
    <3> QED
      BY <3>4, <3>5
  <2>8. CASE ReleaseBudget(c)
    <3>1. billed' = billed /\ Settle(c)
      BY <2>8 DEF ReleaseBudget
    <3>2. Holding(d)' \subseteq Holding(d) \ {c}
      BY <3>1, SettleHolding
    <3>3. usage'[d].calls = IF d = caller[c].backTo THEN GivenBack(usage[d].calls) ELSE usage[d].calls
      BY <2>2, <2>8 DEF GateTypeOK, ReleaseBudget
    <3>4. GivenBack(usage[d].calls) \in Nat /\ usage[d].calls <= GivenBack(usage[d].calls) + 1
      BY <1>0 DEF GivenBack
    <3>5. strays'[d] = IF d = caller[c].backTo /\ d # caller[c].day THEN strays[d] + 1 ELSE strays[d]
      BY <2>2, <2>8 DEF GateTypeOK, ReleaseBudget
    <3>6. CASE d = caller[c].day
      <4>1. c \in Holding(d)
        BY <2>8, <3>6 DEF ReleaseBudget, Holding
      <4>2. billed'[d] + usage[d].calls <= billed[d] + usage'[d].calls + 1
        BY <1>0, <3>1, <3>3, <3>4
      <4> QED
        BY <1>0, <3>1, <3>2, <3>5, <3>6, <4>1, <4>2, CountGivenUp
    <3>7. CASE d # caller[c].day
      <4>1. Holding(d) \in SUBSET Callers /\ Holding(d)' \in SUBSET Holding(d)
        BY <3>2 DEF Holding
      <4>2. /\ Cardinality(Holding(d)') \in Nat /\ Cardinality(Holding(d)) \in Nat
            /\ Cardinality(Holding(d)') <= Cardinality(Holding(d))
        BY <4>1, CountsFewer
      <4>3. billed[d] + Cardinality(Holding(d)) <= usage[d].calls + strays[d]
        BY DEF CountedButForMidnight
      <4> QED
        BY <1>0, <3>1, <3>3, <3>4, <3>5, <3>7, <4>2, <4>3
    <3> QED
      BY <3>6, <3>7
  <2> QED
    BY <1>4, <2>4, <2>5, <2>6, <2>7, <2>8 DEF Spend
<1> QED
  BY <1>1, <1>2, <1>3, <1>4 DEF GateNext

-----------------------------------------------------------------------------
(* The theorems.                                                            *)

\* Nothing is claimed, called or counted at first.
LEMMA InitGateInv == GateInit => GateInv
<1> SUFFICES ASSUME GateInit PROVE GateInv
  OBVIOUS
<1>1. GateTypeOK
  BY DaysAssumption DEF GateInit, GateTypeOK, Days, NoUsage
<1>2. OneCallPerKey
  BY DEF GateInit, OneCallPerKey, Spending, NotCalling
<1>3. RowWithinLimit
  BY LimitAssumption DEF GateInit, RowWithinLimit, NoUsage
<1>4. \A d \in Days : Holding(d) = {}
  BY DEF GateInit, Holding, NotCalling
<1>5. CountedButForMidnight
  <2>1. \A d \in Days : billed[d] = 0 /\ usage[d].calls = 0 /\ strays[d] = 0
    BY DEF GateInit, NoUsage
  <2>2. \A d \in Days : Cardinality(Holding(d)) = 0
    BY <1>4, FS_EmptySet
  <2> QED
    BY <2>1, <2>2 DEF CountedButForMidnight
<1> QED
  BY <1>1, <1>2, <1>3, <1>5 DEF GateInv

\* Every step keeps the invariant.
LEMMA NextGateInv == GateInv /\ [GateNext]_gateVars => GateInv'
BY TypeStep, LimitStep, OneCallStep, CountStep DEF GateInv, CountedButForMidnight

\* The inductive invariant: the type and the three promises of the gate.
THEOREM GateInvHolds == GateSpec => []GateInv
BY InitGateInv, NextGateInv, PTL DEF GateSpec

\* claimBudget's conditional upsert: "two instances racing cannot both see the last call
\* as available", for any number of callers, keys, days and any limit.
THEOREM LimitHolds == GateSpec => []RowWithinLimit
<1>1. GateInv => RowWithinLimit
  BY DEF GateInv
<1> QED
  BY <1>1, GateInvHolds, PTL

\* fetchPackage: concurrent lookups of a plate are one call, whatever they end in.
THEOREM OneCallHolds == GateSpec => []OneCallPerKey
<1>1. GateInv => OneCallPerKey
  BY DEF GateInv
<1> QED
  BY <1>1, GateInvHolds, PTL

\* The count in the database survives restarts, lost answers and failed releases; only
\* releaseBudget's day can make it fall short.
THEOREM CountHolds == GateSpec => []CountedButForMidnight
<1>1. GateInv => CountedButForMidnight
  BY DEF GateInv
<1> QED
  BY <1>1, GateInvHolds, PTL

-----------------------------------------------------------------------------
(* The cache: what holds whatever overlaps.                                 *)

\* What a request may have been told by build v.
ToldBy(told, v) == told \in Told /\ (told.as = "served" => told.readBy = v)

\* What it holds is of build v, or will be; and an update has a row to update.
HeldBy(x, v, kept) ==
  /\ x \in Call
  /\ ToldBy(x.known, v)
  /\ x.stage = "tax" /\ x.cached # NoRow => x.cached.readBy = v
  /\ x.stage = "remapping" => x.cached # NoRow
  /\ x.stage \in {"remapping", "describing", "adding"} => kept

Good(x, v, kept) == (x \in Idle /\ ToldBy(x.told, v)) \/ HeldBy(x, v, kept)

\* The mapper's stamp on a row is the build that mapped it, which is not a later one.
Stamped == row # NoRow => row.readBy = row.mappingVersion /\ row.mappingVersion <= version

Inv ==
  /\ TypeOK
  /\ Stamped
  /\ \A c \in Requests : Good(call[c], version, row # NoRow)

-----------------------------------------------------------------------------
(* How a request goes on.                                                   *)

\* A request in progress stays good where the row is kept.
LEMMA GoodWhenKept ==
  ASSUME NEW x, NEW v, NEW kept \in BOOLEAN, Good(x, v, kept)
  PROVE  Good(x, v, TRUE)
BY DEF Good, HeldBy

\* Told by this build, a request is done, or looks for the identity.
LEMMA LookedUpGood ==
  ASSUME Inv, NEW c \in Requests, call[c] \in Call, NEW told, ToldBy(told, version),
         NEW vin \in BOOLEAN, NEW kept \in BOOLEAN
  PROVE  Good(LookedUp(c, told, vin), version, kept)
<1>1. CASE call[c].kind = "v62" /\ ~vin /\ ~call[c].again
  <2> DEFINE x == [stage |-> "looking", kind |-> "v62", solo |-> call[c].solo,
                   again |-> FALSE, known |-> told, cached |-> NoRow, tax |-> 0,
                   identity |-> FALSE, fetchedAt |-> 0]
  <2>1. LookedUp(c, told, vin) = x
    BY <1>1 DEF LookedUp, Asked
  <2>2. x \in Call
    BY BoundsAssumption DEF Call, ToldBy, Kinds, Bills, Time
  <2> QED
    BY <2>1, <2>2 DEF Good, HeldBy
<1>2. CASE ~(call[c].kind = "v62" /\ ~vin /\ ~call[c].again)
  BY <1>2 DEF LookedUp, Done, Good, Idle, ToldBy
<1> QED
  BY <1>1, <1>2

LEMMA RefusedGood ==
  ASSUME Inv, NEW c \in Requests, call[c] \in Call,
         NEW reason \in {"not-found", "assumed-absent", "upstream"}, NEW kept \in BOOLEAN
  PROVE  Good(Refused(c, reason), version, kept)
<1>1. ToldBy([as |-> "register"], version) /\ ToldBy([as |-> ToHttp(reason)], version)
  BY DEF ToldBy, Told, ToHttp
<1>2. CASE call[c].kind # "tax" /\ onFile # "nothing"
  BY <1>1, <1>2, LookedUpGood DEF Refused
<1>3. CASE ~(call[c].kind # "tax" /\ onFile # "nothing")
  BY <1>1, <1>3 DEF Refused, Done, Good, Idle, ToldBy
<1> QED
  BY <1>2, <1>3

\* A row read by this build is served, or refused for want of a make.
LEMMA ResolvedGood ==
  ASSUME Inv, NEW c \in Requests, call[c] \in Call, NEW r \in Row, r.readBy = version,
         NEW named \in BOOLEAN, NEW kept \in BOOLEAN
  PROVE  Good(Resolved(c, r, named), version, kept)
<1> DEFINE told == [as |-> "served", readBy |-> r.readBy, vin |-> r.vin]
<1>1. ToldBy(told, version) /\ r.vin \in BOOLEAN
  BY DEF ToldBy, Told, Row
<1>2. Good(LookedUp(c, told, r.vin), version, kept)
  BY <1>1, LookedUpGood
<1>3. Good(Refused(c, "not-found"), version, kept)
  BY RefusedGood
<1> QED
  BY <1>2, <1>3 DEF Resolved

\* A row of this build is served or asked about anew.
LEMMA DecideGood ==
  ASSUME Inv, NEW c \in Requests, HeldBy(call[c], version, TRUE),
         NEW r \in Row \union {NoRow}, r # NoRow => r.readBy = version,
         NEW named \in BOOLEAN, NEW kept \in BOOLEAN
  PROVE  Good(Decide(c, r, named), version, kept)
<1>1. CASE r # NoRow /\ Fresh(r)
  BY <1>1, ResolvedGood DEF Decide, HeldBy
<1>2. CASE ~(r # NoRow /\ Fresh(r))
  BY <1>2 DEF Decide, HeldBy, Good, Call
<1> QED
  BY <1>1, <1>2

LEMMA ToWriteGood ==
  ASSUME Inv, NEW c \in Requests, HeldBy(call[c], version, row # NoRow),
         NEW tax \in Bills, NEW identity \in BOOLEAN
  PROVE  Good(ToWrite(c, tax, identity), version, row # NoRow)
BY DEF ToWrite, HeldBy, Good, Call, Inv, TypeOK

LEMMA TaxFailedGood ==
  ASSUME Inv, NEW c \in Requests, HeldBy(call[c], version, row # NoRow),
         call[c].stage = "tax", NEW named \in BOOLEAN
  PROVE  Good(TaxFailed(c, named), version, row # NoRow)
<1>1. call[c] \in Call /\ call[c].cached \in Row \union {NoRow}
  BY DEF HeldBy, Call
<1>2. CASE call[c].cached # NoRow
  BY <1>1, <1>2, ResolvedGood DEF TaxFailed, HeldBy
<1>3. CASE call[c].cached = NoRow
  BY <1>1, <1>3, RefusedGood DEF TaxFailed
<1> QED
  BY <1>2, <1>3

LEMMA IdentityKnownGood ==
  ASSUME Inv, NEW c \in Requests, HeldBy(call[c], version, row # NoRow),
         NEW said, NEW needsListPrice \in BOOLEAN
  PROVE  Good(IdentityKnown(c, said, needsListPrice), version, row # NoRow)
<1>1. call[c] \in Call /\ call[c].tax \in Bills
  BY DEF HeldBy, Call
<1>2. Good(GivesUp(c, said), version, row # NoRow)
  BY <1>1, RefusedGood DEF GivesUp
<1> DEFINE known == said = "ok"
<1>0. known \in BOOLEAN
  OBVIOUS
<1>3. Good([call[c] EXCEPT !.stage = "valuation", !.identity = known], version, row # NoRow)
  BY <1>0 DEF HeldBy, Good, Call
<1>4. Good(ToWrite(c, call[c].tax, known), version, row # NoRow)
  BY <1>0, <1>1, ToWriteGood
<1> QED
  BY <1>2, <1>3, <1>4 DEF IdentityKnown

\* Whoever is not idle holds a call.
LEMMA ActiveHeld ==
  ASSUME Inv, NEW c \in Requests, call[c].stage # "idle"
  PROVE  HeldBy(call[c], version, row # NoRow) /\ call[c] \in Call
BY DEF Inv, Good, Idle, HeldBy
-----------------------------------------------------------------------------
(* The steps.                                                               *)

\* One request's record changes to a good one, and the row stays.
LEMMA OneStepGood ==
  ASSUME Inv, NEW c \in Requests, NEW x, Good(x, version, row # NoRow),
         call' = [call EXCEPT ![c] = x],
         UNCHANGED <<now, version, onFile, provider, row, bills, paidAt>>
  PROVE  Inv'
<1>1. \A d \in Requests : Good(call'[d], version, row # NoRow)
  BY DEF Inv, TypeOK
<1>2. x \in Call \union Idle
  BY DEF Good, HeldBy
<1> QED
  BY <1>1, <1>2 DEF Inv, TypeOK, Stamped

\* As well, and the row is written by this build.
LEMMA WriteStepGood ==
  ASSUME Inv, NEW c \in Requests, NEW x, Good(x, version, TRUE),
         call' = [call EXCEPT ![c] = x],
         row' \in Row, row'.readBy = row'.mappingVersion, row'.mappingVersion <= version,
         UNCHANGED <<now, version, onFile, provider, bills, paidAt>>
  PROVE  Inv'
<1>1. row' # NoRow
  BY NoRowAssumption
<1>2. \A d \in Requests : Good(call[d], version, TRUE)
  BY GoodWhenKept DEF Inv
<1>3. \A d \in Requests : Good(call'[d], version, TRUE)
  BY <1>2 DEF Inv, TypeOK
<1>4. x \in Call \union Idle
  BY DEF Good, HeldBy
<1>5. TypeOK' /\ Stamped'
  BY <1>4 DEF Inv, TypeOK, Stamped
<1> QED
  BY <1>1, <1>3, <1>5 DEF Inv

\* The requests that wait for a package change to good records, and the row stays.
LEMMA AnswerGood ==
  ASSUME Inv, NEW C \in SUBSET Requests, NEW next,
         \A c \in C : Good(next[c], version, row # NoRow),
         call' = [c \in Requests |-> IF c \in C THEN next[c] ELSE call[c]],
         bills' \in Bills, paidAt' \in Time,
         UNCHANGED <<now, version, onFile, provider, row>>
  PROVE  Inv'
<1>1. \A c \in Requests : Good(call'[c], version, row # NoRow)
  BY DEF Inv
<1>2. \A c \in Requests : call'[c] \in Call \union Idle
  BY <1>1 DEF Good, HeldBy
<1>3. call' \in [Requests -> Call \union Idle]
  BY <1>2
<1> QED
  BY <1>1, <1>3 DEF Inv, TypeOK, Stamped

LEMMA BeginKeeps ==
  ASSUME Inv, NEW c \in Requests, Begin(c)
  PROVE  Inv'
<1>1. PICK kind \in Kinds : call' = [d \in Requests |->
         IF d = c THEN Asked(kind, Active = {})
         ELSE IF d \in Active THEN [call[d] EXCEPT !.solo = FALSE] ELSE call[d]]
  BY DEF Begin
<1> DEFINE next == [d \in Requests |->
         IF d = c THEN Asked(kind, Active = {})
         ELSE IF d \in Active THEN [call[d] EXCEPT !.solo = FALSE] ELSE call[d]]
<1>2. Good(Asked(kind, Active = {}), version, row # NoRow)
  <2>1. ToldBy(Nothing, version)
    BY DEF ToldBy, Told, Nothing
  <2>2. (Active = {}) \in BOOLEAN
    OBVIOUS
  <2>3. \A solo \in BOOLEAN : Asked(kind, solo) \in Call
    BY <2>1, BoundsAssumption DEF Asked, Call, Bills, Time, ToldBy
  <2>4. \A solo \in BOOLEAN : Good(Asked(kind, solo), version, row # NoRow)
    BY <2>1, <2>3 DEF Asked, Good, HeldBy
  <2> QED
    BY <2>2, <2>4
<1>3. \A d \in Active : Good([call[d] EXCEPT !.solo = FALSE], version, row # NoRow)
  <2>1. SUFFICES ASSUME NEW d \in Active
                 PROVE  Good([call[d] EXCEPT !.solo = FALSE], version, row # NoRow)
    OBVIOUS
  <2>2. HeldBy(call[d], version, row # NoRow)
    BY ActiveHeld DEF Active
  <2> QED
    BY <2>2 DEF Good, HeldBy, Call
<1>4. \A d \in Requests : Good(next[d], version, row # NoRow)
  BY <1>2, <1>3 DEF Inv
<1>5. call' = [d \in Requests |-> IF d \in Requests THEN next[d] ELSE call[d]]
  BY <1>1
<1> HIDE DEF next
<1> QED
  BY <1>4, <1>5, AnswerGood DEF Begin, Inv, TypeOK

LEMMA ReadRowKeeps ==
  ASSUME Inv, NEW c \in Requests, ReadRow(c)
  PROVE  Inv'
<1>1. PICK named \in BOOLEAN : call' = [call EXCEPT ![c] =
         IF Outdated(row) THEN [call[c] EXCEPT !.stage = "remapping", !.cached = row]
         ELSE Decide(c, row, named)]
  BY DEF ReadRow
<1>2. HeldBy(call[c], version, row # NoRow) /\ HeldBy(call[c], version, TRUE)
  BY ActiveHeld DEF ReadRow, HeldBy
<1>3. row \in Row \union {NoRow}
  BY DEF Inv, TypeOK
<1>4. CASE Outdated(row)
  <2>1. Good([call[c] EXCEPT !.stage = "remapping", !.cached = row], version, row # NoRow)
    BY <1>2, <1>3, <1>4 DEF Outdated, Good, HeldBy, Call
  <2> QED
    BY <1>1, <1>4, <2>1, OneStepGood DEF ReadRow
<1>5. CASE ~Outdated(row)
  <2>1. row # NoRow => row.readBy = version
    BY <1>3, <1>5, BoundsAssumption DEF Outdated, Inv, Stamped, TypeOK, Row, Versions
  <2>2. Good(Decide(c, row, named), version, row # NoRow)
    BY <1>2, <1>3, <2>1, DecideGood
  <2> QED
    BY <1>1, <1>5, <2>2, OneStepGood DEF ReadRow
<1> QED
  BY <1>4, <1>5

LEMMA RemapKeeps ==
  ASSUME Inv, NEW c \in Requests, Remap(c)
  PROVE  Inv'
<1> DEFINE r == Remapped(call[c].cached, call[c].cached)
<1>1. HeldBy(call[c], version, row # NoRow) /\ HeldBy(call[c], version, TRUE)
  BY ActiveHeld DEF Remap, HeldBy
<1>2. row \in Row /\ call[c].cached \in Row
  BY <1>1 DEF Remap, HeldBy, Call, Inv, TypeOK
<1>3. version \in Versions /\ version <= version
  BY BoundsAssumption DEF Inv, TypeOK, Versions
<1>4. /\ r \in Row /\ r.readBy = version
      /\ Remapped(row, call[c].cached) \in Row
      /\ Remapped(row, call[c].cached).readBy = version
      /\ Remapped(row, call[c].cached).mappingVersion = version
  BY <1>2, <1>3 DEF Remapped, Row
<1>5. PICK named \in BOOLEAN : call' = [call EXCEPT ![c] = Decide(c, r, named)]
  BY DEF Remap
<1>6. Good(Decide(c, r, named), version, TRUE)
  BY <1>1, <1>4, DecideGood
<1> HIDE DEF r
<1> QED
  BY <1>3, <1>4, <1>5, <1>6, WriteStepGood DEF Remap

LEMMA WriteRowKeeps ==
  ASSUME Inv, NEW c \in Requests, WriteRow(c)
  PROVE  Inv'
<1>1. call[c] \in Call
  BY ActiveHeld DEF WriteRow
<1>2. version \in Versions /\ version <= version
  BY BoundsAssumption DEF Inv, TypeOK, Versions
<1>3. /\ Written(c) \in Row
      /\ Written(c).readBy = version /\ Written(c).mappingVersion = version
  BY <1>1, <1>2 DEF Written, Row, Call
<1>4. PICK named \in BOOLEAN : call' = [call EXCEPT ![c] = Resolved(c, Written(c), named)]
  BY DEF WriteRow
<1>5. Good(Resolved(c, Written(c), named), version, TRUE)
  BY <1>1, <1>3, ResolvedGood
<1> QED
  BY <1>2, <1>3, <1>4, <1>5, WriteStepGood DEF WriteRow

LEMMA LookForIdentityKeeps ==
  ASSUME Inv, NEW c \in Requests, LookForIdentity(c)
  PROVE  Inv'
<1>1. HeldBy(call[c], version, row # NoRow)
  BY ActiveHeld DEF LookForIdentity
<1>2. CASE row = NoRow \/ row.identity
  <2>1. Good(Done(call[c].known), version, row # NoRow)
    BY <1>1 DEF HeldBy, Done, Good, Idle, ToldBy
  <2> QED
    BY <1>2, <2>1, OneStepGood DEF LookForIdentity
<1>3. CASE ~(row = NoRow \/ row.identity)
  <2>1. Good([call[c] EXCEPT !.stage = "describing"], version, row # NoRow)
    BY <1>1, <1>3 DEF HeldBy, Good, Call
  <2> QED
    BY <1>3, <2>1, OneStepGood DEF LookForIdentity
<1> QED
  BY <1>2, <1>3

LEMMA AddIdentityKeeps ==
  ASSUME Inv, NEW c \in Requests, AddIdentity(c)
  PROVE  Inv'
<1> DEFINE x == [call[c] EXCEPT !.stage = "reading", !.again = TRUE, !.known = Nothing]
<1>1. HeldBy(call[c], version, row # NoRow)
  BY ActiveHeld DEF AddIdentity
<1>2. row \in Row /\ row # NoRow
  BY <1>1 DEF AddIdentity, HeldBy, Inv, TypeOK
<1>3. /\ Described \in Row
      /\ Described.readBy = row.readBy /\ Described.mappingVersion = row.mappingVersion
  BY <1>2 DEF Described, Row
<1>4. Described.readBy = Described.mappingVersion /\ Described.mappingVersion <= version
  BY <1>2, <1>3 DEF Inv, Stamped
<1>5. ToldBy(Nothing, version)
  BY DEF ToldBy, Told, Nothing
<1>6. Good(x, version, TRUE)
  BY <1>1, <1>5 DEF HeldBy, Good, Call, ToldBy
<1>7. call' = [call EXCEPT ![c] = x]
  BY DEF AddIdentity
<1> HIDE DEF x
<1> QED
  BY <1>3, <1>4, <1>6, <1>7, WriteStepGood DEF AddIdentity

LEMMA WriteFailsKeeps ==
  ASSUME Inv, NEW c \in Requests, WriteFails(c)
  PROVE  Inv'
<1>1. Good(Done([as |-> "error"]), version, row # NoRow)
  BY DEF Good, Done, Idle, ToldBy, Told
<1> QED
  BY <1>1, OneStepGood DEF WriteFails

LEMMA TaxAnswersKeep ==
  ASSUME Inv, TaxAnswers
  PROVE  Inv'
<1>1. \A c \in At("tax") : HeldBy(call[c], version, row # NoRow) /\ call[c].stage = "tax"
  BY ActiveHeld DEF At
<1>2. now \in Time /\ bills \in Bills /\ paidAt \in Time
  BY DEF Inv, TypeOK
<1>3. TaxPays => bills + 1 \in Bills /\ bills' \in Bills /\ paidAt' \in Time
  BY <1>2, BoundsAssumption DEF TaxPays, Bills
<1>4. At("tax") \in SUBSET Requests
  BY DEF At
<1>5. CASE TaxPrices
  <2> DEFINE next == [c \in At("tax") |-> ToWrite(c, bills + 1, FALSE)]
  <2>1. \A c \in At("tax") : Good(next[c], version, row # NoRow)
    BY <1>1, <1>3, <1>4, <1>5, ToWriteGood DEF TaxPrices
  <2>2. call' = [c \in Requests |-> IF c \in At("tax") THEN next[c] ELSE call[c]]
    BY <1>5 DEF TaxPrices, Continue
  <2> HIDE DEF next
  <2> QED
    BY <1>2, <1>3, <1>4, <1>5, <2>1, <2>2, AnswerGood DEF TaxPrices
<1>6. CASE TaxLeavesUnpriced
  <2> DEFINE next == [c \in At("tax") |->
        [call[c] EXCEPT !.stage = "identity", !.cached = NoRow, !.tax = bills + 1]]
  <2>1. \A c \in At("tax") : Good(next[c], version, row # NoRow)
    BY <1>1, <1>3, <1>6 DEF TaxLeavesUnpriced, Good, HeldBy, Call
  <2>2. call' = [c \in Requests |-> IF c \in At("tax") THEN next[c] ELSE call[c]]
    BY <1>6 DEF TaxLeavesUnpriced, Continue
  <2> HIDE DEF next
  <2> QED
    BY <1>2, <1>3, <1>4, <1>6, <2>1, <2>2, AnswerGood DEF TaxLeavesUnpriced
<1>7. CASE TaxFindsNothing
  <2> DEFINE next == [c \in At("tax") |->
        [call[c] EXCEPT !.stage = "identity", !.cached = NoRow]]
  <2>1. \A c \in At("tax") : Good(next[c], version, row # NoRow)
    BY <1>1 DEF Good, HeldBy, Call
  <2>2. call' = [c \in Requests |-> IF c \in At("tax") THEN next[c] ELSE call[c]]
    BY <1>7 DEF TaxFindsNothing, Continue
  <2> HIDE DEF next
  <2> QED
    BY <1>2, <1>4, <1>7, <2>1, <2>2, AnswerGood DEF TaxFindsNothing
<1>8. CASE TaxFails
  <2>1. PICK named \in BOOLEAN :
          call' = [c \in Requests |->
                     IF c \in At("tax") THEN TaxFailed(c, named) ELSE call[c]]
    BY <1>8 DEF TaxFails, Continue
  <2> DEFINE next == [c \in At("tax") |-> TaxFailed(c, named)]
  <2>2. \A c \in At("tax") : Good(next[c], version, row # NoRow)
    BY <1>1, <1>4, TaxFailedGood
  <2>3. call' = [c \in Requests |-> IF c \in At("tax") THEN next[c] ELSE call[c]]
    BY <2>1
  <2> HIDE DEF next
  <2> QED
    BY <1>2, <1>4, <1>8, <2>2, <2>3, AnswerGood DEF TaxFails
<1>9. CASE TaxThrows
  <2> DEFINE next == [c \in At("tax") |-> Done([as |-> "error"])]
  <2>1. \A c \in At("tax") : Good(next[c], version, row # NoRow)
    BY DEF Good, Done, Idle, ToldBy, Told
  <2>2. call' = [c \in Requests |-> IF c \in At("tax") THEN next[c] ELSE call[c]]
    BY <1>9 DEF TaxThrows, Continue
  <2> HIDE DEF next
  <2> QED
    BY <1>2, <1>4, <1>9, <2>1, <2>2, AnswerGood DEF TaxThrows
<1> QED
  BY <1>5, <1>6, <1>7, <1>8, <1>9 DEF TaxAnswers

LEMMA IdentityAnswersKeeps ==
  ASSUME Inv, IdentityAnswers
  PROVE  Inv'
<1> DEFINE C == At("identity") \union At("describing")
<1>1. PICK said \in IdentitySays, needsListPrice \in BOOLEAN :
        call' = [c \in Requests |-> IF c \in C THEN
                   IF call[c].stage = "identity" THEN IdentityKnown(c, said, needsListPrice)
                   ELSE IF said = "ok" THEN [call[c] EXCEPT !.stage = "adding"]
                   ELSE Done(call[c].known) ELSE call[c]]
  BY DEF IdentityAnswers, Continue
<1> DEFINE next == [c \in C |->
              IF call[c].stage = "identity" THEN IdentityKnown(c, said, needsListPrice)
              ELSE IF said = "ok" THEN [call[c] EXCEPT !.stage = "adding"]
              ELSE Done(call[c].known)]
<1>2. \A c \in C : Good(next[c], version, row # NoRow)
  <2>1. SUFFICES ASSUME NEW c \in C PROVE Good(next[c], version, row # NoRow)
    OBVIOUS
  <2>2. c \in Requests /\ HeldBy(call[c], version, row # NoRow)
    BY ActiveHeld DEF At
  <2>3. CASE call[c].stage = "identity"
    BY <2>2, <2>3, IdentityKnownGood
  <2>4. CASE call[c].stage # "identity"
    <3>1. call[c].stage = "describing"
      BY <2>4 DEF At
    <3>2. Good([call[c] EXCEPT !.stage = "adding"], version, row # NoRow)
      BY <2>2, <3>1 DEF HeldBy, Good, Call
    <3>3. Good(Done(call[c].known), version, row # NoRow)
      BY <2>2 DEF HeldBy, Done, Good, Idle, ToldBy
    <3> QED
      BY <2>4, <3>2, <3>3
  <2> QED
    BY <2>3, <2>4
<1>3. call' = [c \in Requests |-> IF c \in C THEN next[c] ELSE call[c]]
  BY <1>1
<1>4. C \in SUBSET Requests
  BY DEF At
<1> HIDE DEF next, C
<1> QED
  BY <1>2, <1>3, <1>4, AnswerGood DEF IdentityAnswers, Inv, TypeOK

LEMMA ValuationAnswersKeeps ==
  ASSUME Inv, ValuationAnswers
  PROVE  Inv'
<1> DEFINE next == [c \in At("valuation") |-> ToWrite(c, call[c].tax, call[c].identity)]
<1>1. \A c \in At("valuation") : Good(next[c], version, row # NoRow)
  <2>1. SUFFICES ASSUME NEW c \in At("valuation")
                 PROVE  Good(ToWrite(c, call[c].tax, call[c].identity), version, row # NoRow)
    OBVIOUS
  <2>2. c \in Requests /\ HeldBy(call[c], version, row # NoRow)
    BY ActiveHeld DEF At
  <2>3. call[c].tax \in Bills /\ call[c].identity \in BOOLEAN
    BY <2>2 DEF HeldBy, Call
  <2> QED
    BY <2>2, <2>3, ToWriteGood
<1>2. call' = [c \in Requests |-> IF c \in At("valuation") THEN next[c] ELSE call[c]]
  BY DEF ValuationAnswers, Continue
<1>3. At("valuation") \in SUBSET Requests
  BY DEF At
<1> HIDE DEF next
<1> QED
  BY <1>1, <1>2, <1>3, AnswerGood DEF ValuationAnswers, Inv, TypeOK

LEMMA RestartKeeps ==
  ASSUME Inv, Restart
  PROVE  Inv'
<1>1. version \in Versions /\ version' \in Versions /\ version <= version'
  BY BoundsAssumption DEF Restart, Inv, TypeOK, Versions
<1>2. \A v : Done(Nothing) \in Idle /\ ToldBy(Nothing, v)
  BY DEF Done, Idle, ToldBy, Told, Nothing
<1>3. \A c \in Requests : call'[c] = Done(Nothing)
  BY DEF Restart
<1>4. TypeOK'
  BY <1>1, <1>2 DEF Restart, Inv, TypeOK
<1>5. Stamped'
  <2>1. SUFFICES ASSUME row # NoRow PROVE row.mappingVersion <= version'
    BY DEF Stamped, Restart, Inv
  <2>2. row.mappingVersion \in Versions /\ row.mappingVersion <= version
    BY <2>1 DEF Inv, TypeOK, Stamped, Row
  <2> QED
    BY <1>1, <2>2, BoundsAssumption DEF Versions
<1>6. \A c \in Requests : Good(call'[c], version', row' # NoRow)
  BY <1>2, <1>3 DEF Good, Done
<1> QED
  BY <1>4, <1>5, <1>6 DEF Inv

LEMMA InvInit == Init => Inv
<1> SUFFICES ASSUME Init PROVE Inv
  OBVIOUS
<1>1. Done(Nothing) \in Idle /\ ToldBy(Nothing, version)
  BY DEF Done, Idle, ToldBy, Told, Nothing
<1>2. TypeOK
  <2>1. 0 \in Time /\ 1 \in Versions /\ 0 \in Bills
    BY BoundsAssumption DEF Time, Versions, Bills
  <2>2. call \in [Requests -> Call \union Idle]
    BY <1>1 DEF Init
  <2> QED
    BY <2>1, <2>2 DEF Init, TypeOK
<1>3. \A c \in Requests : Good(call[c], version, row # NoRow)
  BY <1>1 DEF Init, Good, Done
<1> QED
  BY <1>2, <1>3 DEF Inv, Init, Stamped

LEMMA InvStep == Inv /\ [Next]_vars => Inv'
<1> SUFFICES ASSUME Inv, [Next]_vars PROVE Inv'
  OBVIOUS
<1>1. CASE Tick
  BY <1>1, BoundsAssumption DEF Tick, Inv, TypeOK, Stamped, Time
<1>2. ASSUME NEW c \in Requests, Work(c) PROVE Inv'
  BY <1>2, ReadRowKeeps, RemapKeeps, WriteRowKeeps, LookForIdentityKeeps, AddIdentityKeeps,
     WriteFailsKeeps DEF Work
<1>3. CASE UNCHANGED vars
  BY <1>3 DEF vars, Inv, TypeOK, Stamped
<1> QED
  BY <1>1, <1>2, <1>3, RestartKeeps, TaxAnswersKeep, IdentityAnswersKeeps,
     ValuationAnswersKeeps, BeginKeeps DEF Next

-----------------------------------------------------------------------------
(* What the provider says.                                                  *)

\* The status that decides is one of those that are there.
LEMMA FirstFailedIsThere ==
  ASSUME NEW says, NEW statuses \in Seq(Reported(says)), Len(statuses) <= 3
  PROVE  FirstFailed(statuses) \in Reported(says) \union {Fine}
<1> DEFINE failures == {i \in DOMAIN statuses : Failed(statuses[i])}
           first == CHOOSE i \in failures : \A j \in failures : i <= j
<1>1. failures \subseteq 1 .. 3 /\ \A i \in failures : statuses[i] \in Reported(says)
  OBVIOUS
<1>2. ASSUME failures # {}
      PROVE  \E i \in failures : \A j \in failures : i <= j
  <2>1. CASE 1 \in failures
    BY <1>1, <2>1
  <2>2. CASE 1 \notin failures /\ 2 \in failures
    <3>1. \A j \in failures : 2 <= j
      BY <1>1, <2>2
    <3> QED
      BY <2>2, <3>1
  <2>3. CASE 1 \notin failures /\ 2 \notin failures
    <3>1. failures = {3}
      BY <1>1, <1>2, <2>3
    <3> QED
      BY <3>1
  <2> QED
    BY <2>1, <2>2, <2>3
<1>3. failures # {} => first \in failures
  BY <1>2
<1>4. FirstFailed(statuses) = IF failures = {} THEN Fine ELSE statuses[first]
  BY DEF FirstFailed
<1> HIDE DEF failures, first
<1> QED
  BY <1>1, <1>3, <1>4

\* One or two package blocks, and the envelope before them.
LEMMA Blocks ==
  ASSUME NEW R, NEW e \in R, NEW b \in UNION {[1 .. n -> R] : n \in 0 .. 2}
  PROVE  /\ b # << >> => Head(b) \in R
         /\ <<e>> \o b \in Seq(R)
         /\ Len(<<e>> \o b) <= 3
<1>1. PICK n \in 0 .. 2 : b \in [1 .. n -> R]
  OBVIOUS
<1>2. n \in Nat /\ n <= 2
  BY <1>1
<1>3. b \in Seq(R) /\ Len(b) <= 2
  BY <1>1, <1>2
<1>4. <<e>> \in Seq(R) /\ Len(<<e>>) = 1
  OBVIOUS
<1>5. <<e>> \o b \in Seq(R) /\ Len(<<e>> \o b) = Len(<<e>>) + Len(b)
  BY <1>3, <1>4
<1> QED
  BY <1>3, <1>4, <1>5

\* A provider that has the vehicle never says that there is none.
LEMMA NoSuchVehicle ==
  ASSUME NEW p \in Payloads({"anything else"})
  PROVE  ReadStatus(p) # "not-found"
<1> DEFINE R == Reported({"anything else"})
<1>1. p.envelope \in R /\ p.blocks \in UNION {[1 .. n -> R] : n \in 0 .. 2}
  BY DEF Payloads
<1>2. \A r \in R : r.message = "anything else"
  BY DEF Reported
<1>3. Fine.message = "anything else"
  BY DEF Fine
<1> HIDE DEF R
<1>4. /\ p.blocks # << >> => Head(p.blocks) \in R
      /\ <<p.envelope>> \o p.blocks \in Seq(R)
      /\ Len(<<p.envelope>> \o p.blocks) <= 3
  BY <1>1, Blocks
<1>5. FirstFailed(<<p.envelope>> \o p.blocks) \in R \union {Fine}
  BY <1>4, FirstFailedIsThere DEF R
<1>6. ReadFailure(p).failed => ReadFailure(p).status \in R \union {Fine}
  <2>1. CASE p.success = "no"
    BY <1>1, <2>1 DEF ReadFailure
  <2>2. CASE p.success = "yes"
    BY <1>4, <2>2 DEF ReadFailure
  <2>3. CASE p.success # "no" /\ p.success # "yes"
    BY <1>5, <2>3 DEF ReadFailure
  <2> QED
    BY <2>1, <2>2, <2>3
<1> QED
  BY <1>2, <1>3, <1>6 DEF ReadStatus

LEMMA AbsentWhenSaid ==
  ASSUME NEW package \in Packages, "not-found" \in package.reads
  PROVE  ~package.recorded
<1>1. PICK b \in BOOLEAN :
        package = [recorded |-> b, reads |-> {ReadStatus(p) : p \in Payloads(SaysOf(b))}]
  BY DEF Packages
<1>2. CASE b
  <2>1. SaysOf(b) = {"anything else"}
    BY <1>2 DEF SaysOf
  <2>2. \A p \in Payloads(SaysOf(b)) : ReadStatus(p) # "not-found"
    BY <2>1, NoSuchVehicle
  <2> QED
    BY <1>1, <2>2
<1> QED
  BY <1>1, <1>2

\* Each package has a register of its own.
LEMMA TwoRegisters ==
  ASSUME Inv
  PROVE  provider.tax \in Packages /\ provider.identity \in Packages
BY DEF Inv, TypeOK, Providers

-----------------------------------------------------------------------------
(* A request that nobody overlaps.                                          *)

\* A request that began alone, with nobody coming since, is the only one.
Sole == \A c, d \in Active : call[c].solo => d = c

\* What such a request x has read of row r is still so; an expired row made it ask, and
\* once it has bought the identity, the row has it.
Sees(x, r) ==
  x.solo =>
    /\ x.stage \in {"remapping", "tax"} => x.cached = r
    /\ x.stage = "tax" /\ r # NoRow => ~Fresh(r)
    /\ x.again /\ x.stage \in {"reading", "remapping", "tax"} =>
         r # NoRow /\ r.vin /\ r.identity

\* What any request has in hand: the identity is looked for once, for a V62 order that
\* was told something; without a Tax answer, Tax said that there is no such
\* vehicle; the answers are of the b paid for, and the last of them, of time p, is dated
\* no earlier.
Keeps(x, b, p) ==
  /\ x.stage \in {"looking", "describing", "adding"} => x.kind = "v62" /\ ~x.again
  /\ x.known.as \in {"nothing", "served", "register"}
  /\ x.stage = "identity" /\ x.tax = 0 => "not-found" \in provider.tax.reads
  /\ x.tax <= b
  /\ x.stage = "writing" /\ x.tax = b /\ b > 0 => x.fetchedAt >= p

\* The row with the last answer of the b paid for is dated no earlier than its time p.
Dated(r, b, p) ==
  r # NoRow => r.raw <= b /\ (r.raw = b /\ b > 0 => r.fetchedAt >= p)

AloneInv ==
  /\ Sole
  /\ paidAt <= now
  /\ Dated(row, bills, paidAt)
  /\ \A c \in Active : Sees(call[c], row) /\ Keeps(call[c], bills, paidAt)

\* What a request may be told when it ends.
EndsRight(c, told) ==
  /\ call[c].solo /\ told.as = "unavailable" => row = NoRow
  /\ call[c].kind = "tax" =>
       /\ told.as \in {"not-found", "assumed-absent"} => ~provider.tax.recorded
       /\ told.as = "not-found" => ~provider.identity.recorded
  /\ call[c].solo /\ call[c].again /\ told.as = "served" =>
       told.vin \/ call[c].stage = "writing"

\* x is how request c may go on, to row r, b answers paid for and the last of them at p.
Right(c, x, r, b, p) ==
  IF x.stage = "idle" THEN EndsRight(c, x.told)
  ELSE (x.solo <=> call[c].solo) /\ Sees(x, r) /\ Keeps(x, b, p)

LEMMA BillsType ==
  ASSUME Inv
  PROVE  bills \in Nat /\ paidAt \in Nat /\ now \in Nat
BY BoundsAssumption DEF Inv, TypeOK, Bills, Time

LEMMA LookedUpRight ==
  ASSUME Inv, NEW c \in Requests, call[c] \in Call, NEW told \in Told,
         told.as \in {"served", "register"}, EndsRight(c, told),
         NEW vin \in BOOLEAN, NEW r, NEW b \in Nat, NEW p
  PROVE  Right(c, LookedUp(c, told, vin), r, b, p)
<1>1. CASE call[c].kind = "v62" /\ ~vin /\ ~call[c].again
  <2> DEFINE x == [stage |-> "looking", kind |-> "v62", solo |-> call[c].solo,
                   again |-> FALSE, known |-> told, cached |-> NoRow, tax |-> 0,
                   identity |-> FALSE, fetchedAt |-> 0]
  <2>1. LookedUp(c, told, vin) = x
    BY <1>1 DEF LookedUp, Asked
  <2>2. /\ x.stage = "looking" /\ x.kind = "v62" /\ x.solo = call[c].solo /\ ~x.again
        /\ x.known = told /\ x.tax = 0
    OBVIOUS
  <2> HIDE DEF x
  <2>3. Right(c, x, r, b, p)
    BY <2>2 DEF Right, Sees, Keeps
  <2> QED
    BY <2>1, <2>3
<1>2. CASE ~(call[c].kind = "v62" /\ ~vin /\ ~call[c].again)
  BY <1>2 DEF LookedUp, Done, Right
<1> QED
  BY <1>1, <1>2

LEMMA RefusedRight ==
  ASSUME Inv, NEW c \in Requests, call[c] \in Call,
         NEW reason \in {"not-found", "assumed-absent", "upstream"},
         reason = "upstream" /\ call[c].solo => row = NoRow,
         reason # "upstream" /\ call[c].kind = "tax" => ~provider.tax.recorded,
         reason = "not-found" /\ call[c].kind = "tax" => ~provider.identity.recorded,
         NEW r, NEW b \in Nat, NEW p
  PROVE  Right(c, Refused(c, reason), r, b, p)
<1>1. CASE call[c].kind # "tax" /\ onFile # "nothing"
  <2>1. [as |-> "register"] \in Told /\ EndsRight(c, [as |-> "register"])
    BY DEF Told, EndsRight
  <2> QED
    BY <1>1, <2>1, LookedUpRight DEF Refused
<1>2. CASE ~(call[c].kind # "tax" /\ onFile # "nothing")
  BY <1>2 DEF Refused, Done, Right, EndsRight, ToHttp
<1> QED
  BY <1>1, <1>2

LEMMA ResolvedRight ==
  ASSUME Inv, NEW c \in Requests, call[c] \in Call, NEW q \in Row,
         call[c].solo /\ call[c].again => q.vin \/ call[c].stage = "writing",
         NEW named \in BOOLEAN, NEW r, NEW b \in Nat, NEW p
  PROVE  Right(c, Resolved(c, q, named), r, b, p)
<1> DEFINE told == [as |-> "served", readBy |-> q.readBy, vin |-> q.vin]
<1>1. told \in Told /\ q.vin \in BOOLEAN /\ EndsRight(c, told)
  BY DEF Told, Row, EndsRight
<1>2. CASE call[c].kind = "tax" \/ named
  BY <1>1, <1>2, LookedUpRight DEF Resolved
<1>3. CASE ~(call[c].kind = "tax" \/ named)
  BY <1>3, RefusedRight DEF Resolved
<1> QED
  BY <1>2, <1>3

LEMMA DecideRight ==
  ASSUME Inv, NEW c \in Requests, call[c] \in Call, Keeps(call[c], bills, paidAt),
         NEW q \in Row \union {NoRow}, NEW r, NEW named \in BOOLEAN,
         call[c].solo => q = r,
         call[c].solo /\ call[c].again => r # NoRow /\ r.vin /\ r.identity
  PROVE  Right(c, Decide(c, q, named), r, bills, paidAt)
<1>1. CASE q # NoRow /\ Fresh(q)
  BY <1>1, BillsType, ResolvedRight DEF Decide
<1>2. CASE ~(q # NoRow /\ Fresh(q))
  <2> DEFINE x == [call[c] EXCEPT !.stage = "tax", !.cached = q]
  <2>1. /\ x.stage = "tax" /\ x.cached = q /\ x.solo = call[c].solo /\ x.again = call[c].again
        /\ x.known = call[c].known /\ x.tax = call[c].tax
    BY DEF Call
  <2> HIDE DEF x
  <2>2. Sees(x, r) /\ Keeps(x, bills, paidAt)
    BY <1>2, <2>1 DEF Sees, Keeps
  <2> QED
    BY <1>2, <2>1, <2>2 DEF Decide, x, Right
<1> QED
  BY <1>1, <1>2

LEMMA ToWriteRight ==
  ASSUME Inv, NEW c \in Requests, call[c] \in Call, Keeps(call[c], bills, paidAt),
         NEW tax \in Nat, NEW identity, NEW b \in Nat, NEW p \in Nat, tax <= b, p <= now
  PROVE  Right(c, ToWrite(c, tax, identity), row, b, p)
<1> DEFINE x == ToWrite(c, tax, identity)
<1>1. /\ x.stage = "writing" /\ x.solo = call[c].solo
      /\ x.known = call[c].known /\ x.tax = tax /\ x.fetchedAt = now
  BY DEF Call, ToWrite
<1> HIDE DEF x
<1>2. Sees(x, row) /\ Keeps(x, b, p)
  BY <1>1, BillsType DEF Sees, Keeps
<1> QED
  BY <1>1, <1>2 DEF x, Right

-----------------------------------------------------------------------------
(* Its steps.                                                               *)

EndsWell == \A c \in Requests : Ends(c) => EndsRight(c, call'[c].told)

\* One request goes on, and what it does to the row nobody saw who was alone.
LEMMA OneStepAlone ==
  ASSUME Inv, AloneInv, NEW c \in Requests, call[c].stage # "idle", NEW x,
         Right(c, x, row', bills, paidAt), call' = [call EXCEPT ![c] = x],
         Dated(row', bills, paidAt), UNCHANGED <<now, provider, bills, paidAt>>
  PROVE  AloneInv' /\ EndsWell
<1>1. call'[c] = x /\ \A d \in Requests \ {c} : call'[d] = call[d]
  BY DEF Inv, TypeOK
<1>2. \A d \in Active' : d \in Active /\ (call'[d].solo <=> call[d].solo)
  BY <1>1 DEF Active, Right
<1>3. Sole'
  BY <1>2 DEF AloneInv, Sole
<1>4. ASSUME NEW d \in Active'
      PROVE  Sees(call'[d], row') /\ Keeps(call'[d], bills, paidAt)
  <2>1. CASE d = c
    BY <1>1, <1>4, <2>1 DEF Right, Active
  <2>2. CASE d # c
    <3>1. d \in Active /\ c \in Active /\ call'[d] = call[d]
      BY <1>1, <1>2, <2>2 DEF Active
    <3>2. ~call[d].solo
      BY <2>2, <3>1 DEF AloneInv, Sole
    <3> QED
      BY <3>1, <3>2 DEF AloneInv, Sees
  <2> QED
    BY <2>1, <2>2
<1>5. \A d \in Active' : Sees(call[d], row)' /\ Keeps(call[d], bills, paidAt)'
  BY <1>4 DEF Sees, Keeps, Fresh
<1>6. paidAt' <= now' /\ Dated(row, bills, paidAt)'
  BY DEF AloneInv, Dated
<1>7. EndsWell
  BY <1>1 DEF EndsWell, Ends, Right
<1> QED
  BY <1>3, <1>5, <1>6, <1>7 DEF AloneInv

\* The requests that wait for a package go on; an answer may have been paid for.
LEMMA AnswerAlone ==
  ASSUME Inv, AloneInv, NEW C \in SUBSET Active, NEW next,
         \A c \in C : Right(c, next[c], row, bills', paidAt'),
         call' = [c \in Requests |-> IF c \in C THEN next[c] ELSE call[c]],
         \/ bills' = bills /\ paidAt' = paidAt
         \/ bills' = bills + 1 /\ paidAt' = now,
         UNCHANGED <<now, provider, row>>
  PROVE  AloneInv' /\ EndsWell
<1>1. \A c \in Requests : call'[c] = IF c \in C THEN next[c] ELSE call[c]
  OBVIOUS
<1>2. \A d \in Active' : d \in Active /\ (call'[d].solo <=> call[d].solo)
  BY <1>1 DEF Active, Right
<1>3. Sole'
  BY <1>2 DEF AloneInv, Sole
<1>4. ASSUME NEW d \in Active'
      PROVE  Sees(call'[d], row) /\ Keeps(call'[d], bills', paidAt')
  <2>1. CASE d \in C
    BY <1>1, <1>4, <2>1 DEF Right, Active
  <2>2. CASE d \notin C
    <3>1. call'[d] = call[d] /\ Sees(call[d], row) /\ Keeps(call[d], bills, paidAt)
          /\ call[d] \in Call
      BY <1>1, <1>2, <2>2, ActiveHeld DEF AloneInv, Active
    <3>2. call[d].tax \in Nat
      BY <3>1, BoundsAssumption DEF Call, Bills
    <3> QED
      BY <3>1, <3>2, BillsType DEF Keeps
  <2> QED
    BY <2>1, <2>2
<1>5. \A d \in Active' : Sees(call[d], row)' /\ Keeps(call[d], bills, paidAt)'
  BY <1>4 DEF Sees, Keeps, Fresh
<1>6. paidAt' <= now'
  BY BillsType DEF AloneInv
<1>7. Dated(row, bills, paidAt)'
  <2>1. row # NoRow => row.raw \in Nat
    BY BoundsAssumption DEF Inv, TypeOK, Row, Bills
  <2> QED
    BY <2>1, BillsType DEF AloneInv, Dated
<1>8. EndsWell
  BY <1>1 DEF EndsWell, Ends, Right, Active
<1> QED
  BY <1>3, <1>5, <1>6, <1>7, <1>8 DEF AloneInv

LEMMA BeginAlone ==
  ASSUME Inv, AloneInv, NEW c \in Requests, Begin(c)
  PROVE  AloneInv' /\ EndsWell
<1>1. PICK kind \in Kinds : call' = [d \in Requests |->
         IF d = c THEN Asked(kind, Active = {})
         ELSE IF d \in Active THEN [call[d] EXCEPT !.solo = FALSE] ELSE call[d]]
  BY DEF Begin
<1> DEFINE new == Asked(kind, Active = {})
<1>2. /\ new.stage = "reading" /\ ~new.again /\ new.known = Nothing /\ new.tax = 0
      /\ new.solo => Active = {}
  BY DEF Asked
<1>3. /\ call'[c] = new
      /\ \A d \in Requests \ {c} :
           call'[d] = IF d \in Active THEN [call[d] EXCEPT !.solo = FALSE] ELSE call[d]
  BY <1>1
<1> HIDE DEF new
<1>4. ASSUME NEW d \in Active
      PROVE  LET x == [call[d] EXCEPT !.solo = FALSE]
             IN  /\ x.stage = call[d].stage /\ ~x.solo /\ Keeps(x, bills, paidAt)
  <2> DEFINE x == [call[d] EXCEPT !.solo = FALSE]
  <2>1. call[d] \in Call /\ Keeps(call[d], bills, paidAt)
    BY ActiveHeld DEF Active, AloneInv
  <2>2. /\ x.stage = call[d].stage /\ ~x.solo /\ x.kind = call[d].kind
        /\ x.again = call[d].again /\ x.known = call[d].known /\ x.tax = call[d].tax
        /\ x.fetchedAt = call[d].fetchedAt
    BY <2>1 DEF Call
  <2> HIDE DEF x
  <2>3. Keeps(x, bills, paidAt)
    BY <2>1, <2>2 DEF Keeps
  <2> QED
    BY <2>2, <2>3 DEF x
<1>5. c \notin Active /\ \A d \in Active' \ {c} : d \in Active /\ ~call'[d].solo
  BY <1>3, <1>4 DEF Begin, Active
<1>6. Sole'
  BY <1>2, <1>3, <1>5 DEF Sole
<1>7. Sees(new, row) /\ Keeps(new, bills, paidAt)
  BY <1>2, BillsType DEF Sees, Keeps, Nothing
<1>8. \A d \in Active' : Sees(call'[d], row) /\ Keeps(call'[d], bills, paidAt)
  BY <1>3, <1>4, <1>5, <1>7 DEF Active, Sees
<1>9. \A d \in Active' : Sees(call[d], row)' /\ Keeps(call[d], bills, paidAt)'
  BY <1>8 DEF Sees, Keeps, Fresh, Begin
<1>10. paidAt' <= now' /\ Dated(row, bills, paidAt)'
  BY DEF AloneInv, Dated, Begin
<1>11. EndsWell
  BY <1>2, <1>3, <1>4 DEF EndsWell, Ends, Active
<1> QED
  BY <1>6, <1>9, <1>10, <1>11 DEF AloneInv

LEMMA ReadRowAlone ==
  ASSUME Inv, AloneInv, NEW c \in Requests, ReadRow(c)
  PROVE  AloneInv' /\ EndsWell
<1>1. PICK named \in BOOLEAN : call' = [call EXCEPT ![c] =
         IF Outdated(row) THEN [call[c] EXCEPT !.stage = "remapping", !.cached = row]
         ELSE Decide(c, row, named)]
  BY DEF ReadRow
<1>2. /\ call[c] \in Call /\ call[c].stage = "reading"
      /\ Sees(call[c], row) /\ Keeps(call[c], bills, paidAt)
  BY ActiveHeld DEF ReadRow, AloneInv, Active
<1>3. Dated(row', bills, paidAt) /\ row' = row /\ UNCHANGED <<now, provider, bills, paidAt>>
  BY DEF ReadRow, AloneInv
<1>4. CASE Outdated(row)
  <2> DEFINE x == [call[c] EXCEPT !.stage = "remapping", !.cached = row]
  <2>1. /\ x.stage = "remapping" /\ x.cached = row /\ x.solo = call[c].solo
        /\ x.again = call[c].again /\ x.known = call[c].known /\ x.tax = call[c].tax
    BY <1>2 DEF Call
  <2>2. call' = [call EXCEPT ![c] = x]
    BY <1>1, <1>4
  <2> HIDE DEF x
  <2>3. Right(c, x, row, bills, paidAt)
    BY <1>2, <2>1 DEF Right, Sees, Keeps
  <2> QED
    BY <1>2, <1>3, <2>2, <2>3, OneStepAlone
<1>5. CASE ~Outdated(row)
  <2>1. row \in Row \union {NoRow}
    BY DEF Inv, TypeOK
  <2>2. call[c].solo /\ call[c].again => row # NoRow /\ row.vin /\ row.identity
    BY <1>2 DEF Sees
  <2>3. Right(c, Decide(c, row, named), row, bills, paidAt)
    BY <1>2, <2>1, <2>2, DecideRight
  <2> QED
    BY <1>1, <1>2, <1>3, <1>5, <2>3, OneStepAlone
<1> QED
  BY <1>4, <1>5

LEMMA RemapAlone ==
  ASSUME Inv, AloneInv, NEW c \in Requests, Remap(c)
  PROVE  AloneInv' /\ EndsWell /\ (call[c].solo => row'.vin = row'.identity)
<1> DEFINE q == Remapped(call[c].cached, call[c].cached)
           r == Remapped(row, call[c].cached)
<1>1. PICK named \in BOOLEAN : call' = [call EXCEPT ![c] = Decide(c, q, named)]
  BY DEF Remap
<1>2. /\ call[c] \in Call /\ call[c].stage = "remapping" /\ HeldBy(call[c], version, row # NoRow)
      /\ Sees(call[c], row) /\ Keeps(call[c], bills, paidAt)
  BY ActiveHeld DEF Remap, AloneInv, Active
<1>3. row \in Row /\ call[c].cached \in Row /\ version \in Versions
  BY <1>2 DEF HeldBy, Call, Inv, TypeOK
<1>4. /\ q \in Row /\ r \in Row /\ r.vin = call[c].cached.identity
      /\ r.identity = row.identity /\ r.raw = row.raw /\ r.fetchedAt = row.fetchedAt
  BY <1>3 DEF Remapped, Row
<1>5. row' = r /\ UNCHANGED <<now, provider, bills, paidAt>>
  BY DEF Remap
<1>6. call[c].solo => q = r
  BY <1>2 DEF Sees
<1>7. call[c].solo => call[c].cached = row
  BY <1>2 DEF Sees
<1> HIDE DEF q, r
<1>8. call[c].solo /\ call[c].again => r # NoRow /\ r.vin /\ r.identity
  BY <1>2, <1>4, <1>7, NoRowAssumption DEF Sees
<1>9. Right(c, Decide(c, q, named), r, bills, paidAt)
  BY <1>2, <1>4, <1>6, <1>8, DecideRight
<1>10. Dated(r, bills, paidAt)
  BY <1>3, <1>4, NoRowAssumption DEF AloneInv, Dated
<1>11. AloneInv' /\ EndsWell
  BY <1>1, <1>2, <1>5, <1>9, <1>10, OneStepAlone
<1> QED
  BY <1>4, <1>5, <1>7, <1>11

LEMMA WriteRowAlone ==
  ASSUME Inv, AloneInv, NEW c \in Requests, WriteRow(c)
  PROVE  AloneInv' /\ EndsWell /\ row'.vin = row'.identity
<1> DEFINE w == Written(c)
<1>1. PICK named \in BOOLEAN : call' = [call EXCEPT ![c] = Resolved(c, Written(c), named)]
  BY DEF WriteRow
<1>2. call[c] \in Call /\ call[c].stage = "writing" /\ Keeps(call[c], bills, paidAt)
  BY ActiveHeld DEF WriteRow, AloneInv, Active
<1>3. /\ w \in Row /\ w.vin = w.identity /\ w.raw = call[c].tax
      /\ w.fetchedAt = call[c].fetchedAt
  BY <1>2 DEF Written, Row, Call, Inv, TypeOK
<1>4. row' = w /\ UNCHANGED <<now, provider, bills, paidAt>>
  BY DEF WriteRow
<1>5. Dated(w, bills, paidAt)
  BY <1>2, <1>3 DEF Keeps, Dated
<1> HIDE DEF w
<1>6. Right(c, Resolved(c, w, named), w, bills, paidAt)
  BY <1>2, <1>3, BillsType, ResolvedRight
<1>7. call' = [call EXCEPT ![c] = Resolved(c, w, named)]
  BY <1>1 DEF w
<1>8. AloneInv' /\ EndsWell
  BY <1>2, <1>4, <1>5, <1>6, <1>7, OneStepAlone
<1> QED
  BY <1>3, <1>4, <1>8

\* What it was told before it looked for the identity was an answer, or the register's.
LEMMA KnownRight ==
  ASSUME Inv, NEW c \in Requests, Keeps(call[c], bills, paidAt),
         call[c].stage \in {"looking", "describing"}
  PROVE  Right(c, Done(call[c].known), row, bills, paidAt)
BY DEF Keeps, Done, Right, EndsRight

LEMMA LookForIdentityAlone ==
  ASSUME Inv, AloneInv, NEW c \in Requests, LookForIdentity(c)
  PROVE  AloneInv' /\ EndsWell
<1>1. /\ call[c] \in Call /\ call[c].stage = "looking"
      /\ Sees(call[c], row) /\ Keeps(call[c], bills, paidAt)
  BY ActiveHeld DEF LookForIdentity, AloneInv, Active
<1>2. Dated(row', bills, paidAt) /\ row' = row /\ UNCHANGED <<now, provider, bills, paidAt>>
  BY DEF LookForIdentity, AloneInv
<1>3. CASE row = NoRow \/ row.identity
  BY <1>1, <1>2, <1>3, KnownRight, OneStepAlone DEF LookForIdentity
<1>4. CASE ~(row = NoRow \/ row.identity)
  <2> DEFINE x == [call[c] EXCEPT !.stage = "describing"]
  <2>1. /\ x.stage = "describing" /\ x.kind = call[c].kind /\ x.solo = call[c].solo
        /\ x.again = call[c].again /\ x.known = call[c].known /\ x.tax = call[c].tax
    BY <1>1 DEF Call
  <2>2. call' = [call EXCEPT ![c] = x]
    BY <1>4 DEF LookForIdentity
  <2> HIDE DEF x
  <2>3. Right(c, x, row, bills, paidAt)
    BY <1>1, <2>1 DEF Right, Sees, Keeps
  <2> QED
    BY <1>1, <1>2, <2>2, <2>3, OneStepAlone
<1> QED
  BY <1>3, <1>4

LEMMA AddIdentityAlone ==
  ASSUME Inv, AloneInv, NEW c \in Requests, AddIdentity(c)
  PROVE  AloneInv' /\ EndsWell /\ row'.vin = row'.identity
<1> DEFINE x == [call[c] EXCEPT !.stage = "reading", !.again = TRUE, !.known = Nothing]
           r == Described
<1>1. /\ call[c] \in Call /\ call[c].stage = "adding" /\ Keeps(call[c], bills, paidAt)
      /\ HeldBy(call[c], version, row # NoRow)
  BY ActiveHeld DEF AddIdentity, AloneInv, Active
<1>2. /\ x.stage = "reading" /\ x.solo = call[c].solo /\ x.known = Nothing
      /\ x.tax = call[c].tax
  BY <1>1 DEF Call
<1>3. row \in Row /\ row # NoRow
  BY <1>1 DEF HeldBy, Inv, TypeOK
<1>4. r \in Row /\ r.vin /\ r.identity /\ r.vin = r.identity
      /\ r.raw = row.raw /\ r.fetchedAt = row.fetchedAt
  BY <1>3 DEF Described, Row
<1>5. row' = r /\ call' = [call EXCEPT ![c] = x] /\ UNCHANGED <<now, provider, bills, paidAt>>
  BY DEF AddIdentity
<1> HIDE DEF x, r
<1>6. Right(c, x, r, bills, paidAt)
  BY <1>1, <1>2, <1>4, NoRowAssumption DEF Right, Sees, Keeps, Nothing
<1>7. Dated(r, bills, paidAt)
  BY <1>3, <1>4 DEF AloneInv, Dated
<1>8. AloneInv' /\ EndsWell
  BY <1>1, <1>5, <1>6, <1>7, OneStepAlone
<1> QED
  BY <1>4, <1>5, <1>8

LEMMA WriteFailsAlone ==
  ASSUME Inv, AloneInv, NEW c \in Requests, WriteFails(c)
  PROVE  AloneInv' /\ EndsWell
<1>1. Right(c, Done([as |-> "error"]), row, bills, paidAt)
  BY DEF Right, Done, EndsRight
<1>2. Dated(row', bills, paidAt) /\ row' = row
  BY DEF WriteFails, AloneInv
<1> QED
  BY <1>1, <1>2, OneStepAlone DEF WriteFails

\* Tax is paid by a request that found no fresh row.
LEMMA PaidWhenExpired ==
  ASSUME Inv, AloneInv, TaxPays, Alone, bills > 0, row # NoRow, row.raw = bills
  PROVE  now >= paidAt + TTL
<1>1. PICK c \in Requests : call[c].stage = "tax"
  BY DEF TaxPays, At
<1>2. call[c].solo /\ Sees(call[c], row)
  BY <1>1 DEF Alone, Active, AloneInv
<1>3. ~(now < row.fetchedAt + TTL)
  BY <1>1, <1>2 DEF Sees, Fresh
<1>4. row.fetchedAt >= paidAt
  BY DEF AloneInv, Dated
<1>5. row.fetchedAt \in Nat
  BY BoundsAssumption DEF Inv, TypeOK, Row, Time
<1> QED
  BY <1>3, <1>4, <1>5, BillsType, TTLAssumption

LEMMA TaxAnswersAlone ==
  ASSUME Inv, AloneInv, TaxAnswers
  PROVE  AloneInv' /\ EndsWell
<1>1. \A c \in At("tax") : /\ c \in Requests /\ call[c] \in Call /\ call[c].stage = "tax"
                           /\ Sees(call[c], row) /\ Keeps(call[c], bills, paidAt)
  BY ActiveHeld DEF At, Active, AloneInv
<1>2. At("tax") \in SUBSET Active
  BY DEF At, Active
<1>3. UNCHANGED <<now, provider, row>>
  BY DEF TaxAnswers, TaxPrices, TaxLeavesUnpriced, TaxFindsNothing, TaxFails, TaxThrows
<1>4. CASE TaxPrices
  <2> DEFINE next == [c \in At("tax") |-> ToWrite(c, bills + 1, FALSE)]
  <2>1. bills' = bills + 1 /\ paidAt' = now
    BY <1>4 DEF TaxPrices, TaxPays
  <2>2. ASSUME NEW c \in At("tax")
        PROVE  Right(c, ToWrite(c, bills + 1, FALSE), row, bills', paidAt')
    <3>1. /\ bills + 1 \in Nat /\ bills' \in Nat /\ paidAt' \in Nat
          /\ bills + 1 <= bills' /\ paidAt' <= now
      BY <2>1, BillsType
    <3> QED
      BY <1>1, <3>1, ToWriteRight
  <2>3. \A c \in At("tax") : Right(c, next[c], row, bills', paidAt')
    BY <2>2
  <2>4. call' = [c \in Requests |-> IF c \in At("tax") THEN next[c] ELSE call[c]]
    BY <1>4 DEF TaxPrices, Continue
  <2> HIDE DEF next
  <2> QED
    BY <1>2, <1>3, <2>1, <2>3, <2>4, AnswerAlone
<1>5. CASE TaxLeavesUnpriced
  <2> DEFINE next == [c \in At("tax") |->
        [call[c] EXCEPT !.stage = "identity", !.cached = NoRow, !.tax = bills + 1]]
  <2>1. bills' = bills + 1 /\ paidAt' = now
    BY <1>5 DEF TaxLeavesUnpriced, TaxPays
  <2>2. ASSUME NEW c \in At("tax")
        PROVE  Right(c, next[c], row, bills', paidAt')
    <3> DEFINE x == [call[c] EXCEPT !.stage = "identity", !.cached = NoRow, !.tax = bills + 1]
    <3>1. /\ x.stage = "identity" /\ x.solo = call[c].solo
          /\ x.known = call[c].known /\ x.tax = bills + 1
      BY <1>1 DEF Call
    <3>2. next[c] = x
      OBVIOUS
    <3> HIDE DEF x, next
    <3>3. Right(c, x, row, bills', paidAt')
      BY <1>1, <2>1, <3>1, BillsType DEF Right, Sees, Keeps
    <3> QED
      BY <3>2, <3>3
  <2>3. call' = [c \in Requests |-> IF c \in At("tax") THEN next[c] ELSE call[c]]
    BY <1>5 DEF TaxLeavesUnpriced, Continue
  <2> HIDE DEF next
  <2> QED
    BY <1>2, <1>3, <2>1, <2>2, <2>3, AnswerAlone
<1>6. CASE TaxFindsNothing
  <2> DEFINE next == [c \in At("tax") |->
        [call[c] EXCEPT !.stage = "identity", !.cached = NoRow]]
  <2>1. bills' = bills /\ paidAt' = paidAt /\ "not-found" \in provider.tax.reads
    BY <1>6 DEF TaxFindsNothing
  <2>2. ASSUME NEW c \in At("tax")
        PROVE  Right(c, next[c], row, bills', paidAt')
    <3> DEFINE x == [call[c] EXCEPT !.stage = "identity", !.cached = NoRow]
    <3>1. /\ x.stage = "identity" /\ x.solo = call[c].solo
          /\ x.known = call[c].known /\ x.tax = call[c].tax
      BY <1>1 DEF Call
    <3>2. next[c] = x
      OBVIOUS
    <3> HIDE DEF x, next
    <3>3. Right(c, x, row, bills', paidAt')
      BY <1>1, <2>1, <3>1 DEF Right, Sees, Keeps
    <3> QED
      BY <3>2, <3>3
  <2>3. call' = [c \in Requests |-> IF c \in At("tax") THEN next[c] ELSE call[c]]
    BY <1>6 DEF TaxFindsNothing, Continue
  <2> HIDE DEF next
  <2> QED
    BY <1>2, <1>3, <2>1, <2>2, <2>3, AnswerAlone
<1>7. CASE TaxFails
  <2>1. PICK named \in BOOLEAN :
          call' = [c \in Requests |->
                     IF c \in At("tax") THEN TaxFailed(c, named) ELSE call[c]]
    BY <1>7 DEF TaxFails, Continue
  <2>2. bills' = bills /\ paidAt' = paidAt
    BY <1>7 DEF TaxFails
  <2>3. ASSUME NEW c \in At("tax")
        PROVE  Right(c, TaxFailed(c, named), row, bills, paidAt)
    <3>1. /\ c \in Requests /\ call[c] \in Call /\ call[c].stage = "tax"
          /\ call[c].cached \in Row \union {NoRow}
          /\ call[c].solo => call[c].cached = row
          /\ call[c].solo /\ call[c].again => row.vin
      BY <1>1 DEF Sees, Call
    <3>2. CASE call[c].cached # NoRow
      BY <3>1, <3>2, BillsType, ResolvedRight DEF TaxFailed
    <3>3. CASE call[c].cached = NoRow
      BY <3>1, <3>3, BillsType, RefusedRight DEF TaxFailed
    <3> QED
      BY <3>2, <3>3
  <2> DEFINE next == [c \in At("tax") |-> TaxFailed(c, named)]
  <2>4. \A c \in At("tax") : Right(c, next[c], row, bills', paidAt')
    BY <2>2, <2>3
  <2>5. call' = [c \in Requests |-> IF c \in At("tax") THEN next[c] ELSE call[c]]
    BY <2>1
  <2> HIDE DEF next
  <2> QED
    BY <1>2, <1>3, <2>2, <2>4, <2>5, AnswerAlone
<1>8. CASE TaxThrows
  <2> DEFINE next == [c \in At("tax") |-> Done([as |-> "error"])]
  <2>1. bills' = bills /\ paidAt' = paidAt
    BY <1>8 DEF TaxThrows
  <2>2. \A c \in At("tax") : Right(c, next[c], row, bills', paidAt')
    BY DEF Right, Done, EndsRight
  <2>3. call' = [c \in Requests |-> IF c \in At("tax") THEN next[c] ELSE call[c]]
    BY <1>8 DEF TaxThrows, Continue
  <2> HIDE DEF next
  <2> QED
    BY <1>2, <1>3, <2>1, <2>2, <2>3, AnswerAlone
<1> QED
  BY <1>4, <1>5, <1>6, <1>7, <1>8 DEF TaxAnswers

LEMMA IdentityKnownRight ==
  ASSUME Inv, AloneInv, NEW c \in Requests, call[c].stage = "identity",
         NEW said \in IdentitySays, NEW needsListPrice \in BOOLEAN
  PROVE  Right(c, IdentityKnown(c, said, needsListPrice), row, bills, paidAt)
<1>1. call[c] \in Call /\ call[c].tax \in Nat /\ Keeps(call[c], bills, paidAt)
  BY ActiveHeld, BoundsAssumption DEF AloneInv, Active, Call, Bills
<1> DEFINE known == said = "ok"
<1>2. CASE call[c].tax = 0 /\ ~known
  <2>1. ~provider.tax.recorded
    BY <1>1, <1>2, AbsentWhenSaid, TwoRegisters DEF Keeps
  <2>2. said = "not-found" => ~provider.identity.recorded
    BY AbsentWhenSaid, TwoRegisters DEF IdentitySays
  <2>3. Right(c, GivesUp(c, said), row, bills, paidAt)
    BY <1>1, <2>1, <2>2, BillsType, RefusedRight DEF GivesUp
  <2> QED
    BY <1>2, <2>3 DEF IdentityKnown
<1>3. CASE ~(call[c].tax = 0 /\ ~known) /\ needsListPrice
  <2> DEFINE x == [call[c] EXCEPT !.stage = "valuation", !.identity = known]
  <2>1. /\ x.stage = "valuation" /\ x.solo = call[c].solo
        /\ x.known = call[c].known /\ x.tax = call[c].tax
    BY <1>1 DEF Call
  <2>2. IdentityKnown(c, said, needsListPrice) = x
    BY <1>3 DEF IdentityKnown
  <2> HIDE DEF x
  <2>3. Right(c, x, row, bills, paidAt)
    BY <1>1, <2>1 DEF Right, Sees, Keeps
  <2> QED
    BY <2>2, <2>3
<1>4. CASE ~(call[c].tax = 0 /\ ~known) /\ ~needsListPrice
  <2>1. call[c].tax <= bills /\ paidAt <= now
    BY <1>1 DEF Keeps, AloneInv
  <2>2. Right(c, ToWrite(c, call[c].tax, known), row, bills, paidAt)
    BY <1>1, <2>1, BillsType, ToWriteRight
  <2> QED
    BY <1>4, <2>2 DEF IdentityKnown
<1> QED
  BY <1>2, <1>3, <1>4

LEMMA IdentityAnswersAlone ==
  ASSUME Inv, AloneInv, IdentityAnswers
  PROVE  AloneInv' /\ EndsWell
<1> DEFINE C == At("identity") \union At("describing")
<1>1. PICK said \in IdentitySays, needsListPrice \in BOOLEAN :
        call' = [c \in Requests |-> IF c \in C THEN
                   IF call[c].stage = "identity" THEN IdentityKnown(c, said, needsListPrice)
                   ELSE IF said = "ok" THEN [call[c] EXCEPT !.stage = "adding"]
                   ELSE Done(call[c].known) ELSE call[c]]
  BY DEF IdentityAnswers, Continue
<1> DEFINE next == [c \in C |->
              IF call[c].stage = "identity" THEN IdentityKnown(c, said, needsListPrice)
              ELSE IF said = "ok" THEN [call[c] EXCEPT !.stage = "adding"]
              ELSE Done(call[c].known)]
<1>2. ASSUME NEW c \in C
      PROVE  Right(c, next[c], row, bills, paidAt)
  <2>1. c \in Requests /\ call[c] \in Call /\ Keeps(call[c], bills, paidAt)
        /\ call[c].stage \in {"identity", "describing"}
    BY ActiveHeld DEF At, Active, AloneInv
  <2>2. CASE call[c].stage = "identity"
    BY <2>1, <2>2, IdentityKnownRight
  <2>3. CASE call[c].stage = "describing" /\ said = "ok"
    <3> DEFINE x == [call[c] EXCEPT !.stage = "adding"]
    <3>1. /\ x.stage = "adding" /\ x.kind = call[c].kind /\ x.solo = call[c].solo
          /\ x.again = call[c].again /\ x.known = call[c].known /\ x.tax = call[c].tax
      BY <2>1 DEF Call
    <3>2. next[c] = x
      BY <2>3
    <3> HIDE DEF x, next
    <3>3. Right(c, x, row, bills, paidAt)
      BY <2>1, <2>3, <3>1 DEF Right, Sees, Keeps
    <3> QED
      BY <3>2, <3>3
  <2>4. CASE call[c].stage = "describing" /\ said # "ok"
    BY <2>1, <2>4, KnownRight
  <2> QED
    BY <2>1, <2>2, <2>3, <2>4
<1>3. call' = [c \in Requests |-> IF c \in C THEN next[c] ELSE call[c]]
  BY <1>1
<1>4. C \in SUBSET Active
  BY DEF At, Active
<1> HIDE DEF next, C
<1>5. UNCHANGED <<now, provider, row, bills, paidAt>>
  BY DEF IdentityAnswers
<1>6. \A c \in C : Right(c, next[c], row, bills', paidAt')
  BY <1>2, <1>5
<1> QED
  BY <1>3, <1>4, <1>5, <1>6, AnswerAlone

LEMMA ValuationAnswersAlone ==
  ASSUME Inv, AloneInv, ValuationAnswers
  PROVE  AloneInv' /\ EndsWell
<1> DEFINE next == [c \in At("valuation") |-> ToWrite(c, call[c].tax, call[c].identity)]
<1>1. ASSUME NEW c \in At("valuation")
      PROVE  Right(c, ToWrite(c, call[c].tax, call[c].identity), row, bills, paidAt)
  <2>1. c \in Requests /\ call[c] \in Call /\ Keeps(call[c], bills, paidAt)
    BY ActiveHeld DEF At, Active, AloneInv
  <2>2. call[c].tax \in Nat /\ call[c].tax <= bills /\ paidAt <= now
    BY <2>1, BoundsAssumption DEF Call, Bills, Keeps, AloneInv
  <2> QED
    BY <2>1, <2>2, BillsType, ToWriteRight
<1>2. UNCHANGED <<now, provider, row, bills, paidAt>>
  BY DEF ValuationAnswers
<1>3. \A c \in At("valuation") : Right(c, next[c], row, bills', paidAt')
  BY <1>1, <1>2
<1>4. call' = [c \in Requests |-> IF c \in At("valuation") THEN next[c] ELSE call[c]]
  BY DEF ValuationAnswers, Continue
<1>5. At("valuation") \in SUBSET Active
  BY DEF At, Active
<1> HIDE DEF next
<1> QED
  BY <1>2, <1>3, <1>4, <1>5, AnswerAlone

LEMMA RestartAlone ==
  ASSUME Inv, AloneInv, Restart
  PROVE  AloneInv' /\ EndsWell
<1>1. \A c \in Requests : call'[c] = Done(Nothing)
  BY DEF Restart
<1>2. Done(Nothing).stage = "idle" /\ Done(Nothing).told.as = "nothing"
  BY DEF Done, Nothing
<1>3. Active' = {}
  BY <1>1, <1>2 DEF Active
<1>4. EndsWell
  BY <1>1, <1>2 DEF EndsWell, Ends, EndsRight
<1> QED
  BY <1>3, <1>4 DEF Restart, AloneInv, Sole, Dated

\* A row that has expired stays so.
LEMMA TickAlone ==
  ASSUME Inv, AloneInv, Tick
  PROVE  AloneInv' /\ EndsWell
<1>1. /\ now' = now + 1 /\ Active' = Active
      /\ UNCHANGED <<version, onFile, provider, row, call, bills, paidAt>>
  BY DEF Tick, Active
<1>2. row # NoRow => row.fetchedAt \in Nat
  BY BoundsAssumption DEF Inv, TypeOK, Row, Time
<1>3. row # NoRow /\ ~Fresh(row) => ~(now' < row.fetchedAt + TTL)
  BY <1>1, <1>2, BillsType, TTLAssumption DEF Fresh
<1>4. \A c \in Active : Sees(call[c], row)' /\ Keeps(call[c], bills, paidAt)'
  BY <1>1, <1>3 DEF AloneInv, Sees, Keeps, Fresh
<1>5. paidAt' <= now'
  BY <1>1, BillsType DEF AloneInv
<1>6. Sole' /\ Dated(row, bills, paidAt)'
  BY <1>1 DEF AloneInv, Sole, Dated
<1>7. EndsWell
  BY <1>1 DEF EndsWell, Ends
<1> QED
  BY <1>1, <1>4, <1>5, <1>6, <1>7 DEF AloneInv

LEMMA AloneInit == Init => AloneInv
<1> SUFFICES ASSUME Init PROVE AloneInv
  OBVIOUS
<1>1. Active = {}
  BY DEF Init, Active, Done
<1> QED
  BY <1>1 DEF Init, AloneInv, Sole, Dated

\* Every step keeps it and tells whoever it ends what is right; without an overlap the row
\* stays of one reading.
LEMMA AloneStep ==
  ASSUME Inv, AloneInv, [Next]_vars
  PROVE  AloneInv' /\ EndsWell /\ (row' # row /\ Alone => row'.vin = row'.identity)
<1>1. ASSUME NEW c \in Requests, Work(c)
      PROVE  AloneInv' /\ EndsWell /\ (row' # row /\ Alone => row'.vin = row'.identity)
  <2>1. CASE Remap(c)
    <3>1. Alone => call[c].solo
      BY <2>1 DEF Remap, Alone, Active
    <3> QED
      BY <2>1, <3>1, RemapAlone
  <2>2. CASE ReadRow(c)
    BY <2>2, ReadRowAlone DEF ReadRow
  <2>3. CASE WriteRow(c)
    BY <2>3, WriteRowAlone
  <2>4. CASE LookForIdentity(c)
    BY <2>4, LookForIdentityAlone DEF LookForIdentity
  <2>5. CASE AddIdentity(c)
    BY <2>5, AddIdentityAlone
  <2>6. CASE WriteFails(c)
    BY <2>6, WriteFailsAlone DEF WriteFails
  <2> QED
    BY <1>1, <2>1, <2>2, <2>3, <2>4, <2>5, <2>6 DEF Work
<1>2. ASSUME NEW c \in Requests, Begin(c)
      PROVE  AloneInv' /\ EndsWell /\ row' = row
  BY <1>2, BeginAlone DEF Begin
<1>3. CASE TaxAnswers
  BY <1>3, TaxAnswersAlone DEF TaxAnswers, TaxPrices, TaxLeavesUnpriced, TaxFindsNothing,
                               TaxFails, TaxThrows
<1>4. CASE IdentityAnswers
  BY <1>4, IdentityAnswersAlone DEF IdentityAnswers
<1>5. CASE ValuationAnswers
  BY <1>5, ValuationAnswersAlone DEF ValuationAnswers
<1>6. CASE Restart
  BY <1>6, RestartAlone DEF Restart
<1>7. CASE Tick
  BY <1>7, TickAlone DEF Tick
<1>8. CASE UNCHANGED vars
  <2>1. AloneInv'
    BY <1>8 DEF vars, AloneInv, Sole, Active, Sees, Keeps, Dated, Fresh
  <2>2. EndsWell
    BY <1>8 DEF vars, EndsWell, Ends
  <2> QED
    BY <1>8, <2>1, <2>2 DEF vars
<1> QED
  BY <1>1, <1>2, <1>3, <1>4, <1>5, <1>6, <1>7, <1>8 DEF Next

-----------------------------------------------------------------------------
(* The theorems.                                                            *)

\* Whatever is in progress, the row is stamped by the build that mapped it, and what
\* requests hold for serving is of the build that runs.
THEOREM InvHolds == Spec => []Inv
BY InvInit, InvStep, PTL DEF Spec

\* TypeOK, for every number of requests and every bound.
THEOREM TypeHolds == Spec => []TypeOK
<1>1. Inv => TypeOK
  BY DEF Inv
<1> QED
  BY <1>1, InvHolds, PTL

\* "The fix lands on the next request": no answer was mapped by another build than the
\* one that gives it.
THEOREM ServedByThisBuildHolds == Spec => []ServedByThisBuild
<1>1. Inv => ServedByThisBuild
  <2> SUFFICES ASSUME Inv, NEW c \in Requests, call[c].stage = "idle",
                      call[c].told.as = "served"
               PROVE  call[c].told.readBy = version
    BY DEF ServedByThisBuild
  <2>1. Good(call[c], version, row # NoRow)
    BY DEF Inv
  <2>2. ~HeldBy(call[c], version, row # NoRow)
    BY DEF HeldBy, Call
  <2> QED
    BY <2>1, <2>2 DEF Good, ToldBy
<1> QED
  BY <1>1, InvHolds, PTL

\* What is in progress and nobody overlaps has read the row as it is.
THEOREM AloneHolds == Spec => []AloneInv
<1>1. Inv /\ AloneInv /\ [Next]_vars => AloneInv'
  BY AloneStep
<1> QED
  BY <1>1, AloneInit, InvHolds, PTL DEF Spec

\* "A plate looked up twice inside the TTL is paid for once": without an overlap Tax is not
\* paid while the row holds the last answer paid for, less than a TTL ago.
THEOREM PaidOnce == Spec => PaidOnceWhenKept
<1> DEFINE Once == bills' > bills /\ bills > 0 /\ Alone /\ row # NoRow /\ row.raw = bills
                     => now >= paidAt + TTL
<1>1. ASSUME Inv, AloneInv, [Next]_vars
      PROVE  Once
  <2>1. ASSUME bills' > bills
        PROVE  TaxPays
    <3>1. bills' # bills
      BY <1>1, <2>1, BillsType
    <3> QED
      BY <1>1, <3>1 DEF Next, Tick, Restart, TaxAnswers, TaxPrices, TaxLeavesUnpriced,
           TaxFindsNothing, TaxFails, TaxThrows, IdentityAnswers, ValuationAnswers, Begin, Work, ReadRow,
           Remap, WriteRow, LookForIdentity, AddIdentity, WriteFails, vars
  <2> QED
    BY <1>1, <2>1, PaidWhenExpired
<1> HIDE DEF Once
<1>2. Inv /\ AloneInv /\ [Next]_vars => [Once]_vars
  BY <1>1
<1>3. Spec => [][Once]_vars
  BY <1>2, InvHolds, AloneHolds, PTL DEF Spec
<1> QED
  BY <1>3 DEF PaidOnceWhenKept, Once

\* Without an overlap, every write leaves the row of one reading: with an identity stored,
\* the vehicle was mapped with one.
THEOREM RowsStayWhole == Spec => RowStaysWhole
<1> DEFINE Whole == row' # row /\ Alone => row'.vin = row'.identity
<1>1. Inv /\ AloneInv /\ [Next]_vars => Whole
  BY AloneStep
<1> HIDE DEF Whole
<1>2. Inv /\ AloneInv /\ [Next]_vars => [Whole]_vars
  BY <1>1
<1>3. Spec => [][Whole]_vars
  BY <1>2, InvHolds, AloneHolds, PTL DEF Spec
<1> QED
  BY <1>3 DEF RowStaysWhole, Whole

\* Only a plate without a row gets "could not check", and a tax check is told that there
\* is no such vehicle only where Tax has none; nor has the identity package, if it said so.
THEOREM FailuresAreToldApart == Spec => FailuresToldApart
<1> DEFINE Apart == \A c \in Requests : Ends(c) =>
              /\ Alone /\ call'[c].told.as = "unavailable" => row = NoRow
              /\ call[c].kind = "tax" =>
                   /\ call'[c].told.as \in {"not-found", "assumed-absent"} =>
                        ~provider.tax.recorded
                   /\ call'[c].told.as = "not-found" => ~provider.identity.recorded
<1>1. Inv /\ AloneInv /\ [Next]_vars => Apart
  <2> SUFFICES ASSUME Inv, AloneInv, [Next]_vars, NEW c \in Requests, Ends(c)
               PROVE  /\ Alone /\ call'[c].told.as = "unavailable" => row = NoRow
                      /\ call[c].kind = "tax" =>
                           /\ call'[c].told.as \in {"not-found", "assumed-absent"} =>
                                ~provider.tax.recorded
                           /\ call'[c].told.as = "not-found" => ~provider.identity.recorded
    OBVIOUS
  <2>1. EndsRight(c, call'[c].told)
    BY AloneStep DEF EndsWell
  <2>2. Alone => call[c].solo
    BY DEF Alone, Active, Ends
  <2> QED
    BY <2>1, <2>2 DEF EndsRight
<1> HIDE DEF Apart
<1>2. Inv /\ AloneInv /\ [Next]_vars => [Apart]_vars
  BY <1>1
<1>3. Spec => [][Apart]_vars
  BY <1>2, InvHolds, AloneHolds, PTL DEF Spec
<1> QED
  BY <1>3 DEF FailuresToldApart, Apart

\* A V62 order that bought the identity is served the VIN it paid for, unless Tax answered
\* anew in between.
THEOREM BoughtIdentitiesServed == Spec => BoughtIdentityServed
<1> DEFINE Served == \A c \in Requests :
              Ends(c) /\ Alone /\ call[c].again /\ call'[c].told.as = "served"
                => call'[c].told.vin \/ call[c].stage = "writing"
<1>1. Inv /\ AloneInv /\ [Next]_vars => Served
  <2> SUFFICES ASSUME Inv, AloneInv, [Next]_vars, NEW c \in Requests, Ends(c), Alone,
                      call[c].again, call'[c].told.as = "served"
               PROVE  call'[c].told.vin \/ call[c].stage = "writing"
    OBVIOUS
  <2>1. EndsRight(c, call'[c].told)
    BY AloneStep DEF EndsWell
  <2>2. call[c].solo
    BY DEF Alone, Active, Ends
  <2> QED
    BY <2>1, <2>2 DEF EndsRight
<1> HIDE DEF Served
<1>2. Inv /\ AloneInv /\ [Next]_vars => [Served]_vars
  BY <1>1
<1>3. Spec => [][Served]_vars
  BY <1>2, InvHolds, AloneHolds, PTL DEF Spec
<1> QED
  BY <1>3 DEF BoughtIdentityServed, Served

=============================================================================
