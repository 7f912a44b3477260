------------------------ MODULE SupplierRoutingProofs ------------------------
(***************************************************************************)
(* Exclusivity of an order type and the reach of the count before a removal,*)
(* for any suppliers, types, orders, checkouts and handlers, while admins   *)
(* work one at a time.  Type correctness needs no such hypothesis.                      *)
(***************************************************************************)
EXTENDS SupplierRouting, TLAPS

OneAdmin == \A a, b \in Admins : a = b

\* An admin, a customer and a handler is each a request.
USE DEF Requests

-----------------------------------------------------------------------------
(* Requests.                                                               *)

\* What a request in progress carries, by what it does.
LEMMA RequestCarries ==
  ASSUME NEW r \in Request
  PROVE  /\ r.do = "assign" => \E s \in SupplierIds, t \in OrderTypes,
                                   step \in {"find", "pull", "add"},
                                   rest \in SUBSET OrderTypes : r = Assigning(s, t, step, rest)
         /\ r.do = "remove" => \E s \in SupplierIds : r = Removing(s)
         /\ r.do = "place" => \E h \in Holder : r = Placing(h)
         /\ r.do = "reassign" => \E id \in OrderIds, loaded \in OrderStatus, s \in SupplierIds :
                                   r = Reassigning(id, loaded, s)
         /\ r.do = "move" => \E id \in OrderIds, status \in OrderStatus : r = Moving(id, status)
  BY DEF Request, Idle, Assigning, Removing, Placing, Reassigning, Moving

\* The next turn of a handover is a request again, and only ever at its first step.
LEMMA HandOverStarts ==
  ASSUME NEW a, NEW s \in SupplierIds, NEW types \in SUBSET OrderTypes, HandOver(a, s, types)
  PROVE  \E next \in Request :
           /\ Become(a, next)
           /\ next.do \in {"idle", "assign"}
           /\ next.do = "assign" => next.step = "find"
<1>1. CASE types = {}
  BY <1>1 DEF HandOver, Request, Idle
<1>2. CASE types # {}
  <2>1. PICK t \in types : Become(a, Assigning(s, t, "find", types \ {t}))
    BY <1>2 DEF HandOver
  <2>2. Assigning(s, t, "find", types \ {t}) \in Request
    BY DEF Request
  <2> QED
    BY <2>1, <2>2 DEF Assigning
<1> QED
  BY <1>1, <1>2

\* The requests the actions write, other than the next turn of a handover.
LEMMA RequestsWritten ==
  /\ Idle \in Request
  /\ \A s \in SupplierIds : Removing(s) \in Request
  /\ \A h \in Holder : Placing(h) \in Request
  /\ \A s \in SupplierIds, t \in OrderTypes : Assigning(s, t, "find", {}) \in Request
  /\ \A id \in OrderIds, loaded \in OrderStatus, s \in SupplierIds :
       Reassigning(id, loaded, s) \in Request
  /\ \A id \in OrderIds, status \in OrderStatus : Moving(id, status) \in Request
  BY DEF Request

\* FindTarget and PullType move an assignment on to its next call.
LEMMA AssignMovesOn ==
  ASSUME NEW r \in Request, r.do = "assign", NEW step \in {"find", "pull", "add"}
  PROVE  [r EXCEPT !.step = step] \in Request /\ [r EXCEPT !.step = step].do = "assign"
<1>1. PICK s \in SupplierIds, t \in OrderTypes, old \in {"find", "pull", "add"},
           rest \in SUBSET OrderTypes : r = Assigning(s, t, old, rest)
  BY RequestCarries
<1>2. [r EXCEPT !.step = step] = Assigning(s, t, step, rest)
  BY <1>1 DEF Assigning
<1>3. Assigning(s, t, step, rest) \in Request
  BY DEF Request
<1> QED
  BY <1>2, <1>3 DEF Assigning

-----------------------------------------------------------------------------
(* Type correctness, one lemma for each collection.                         *)

\* Suppliers stay well formed.
LEMMA SuppliersTyped ==
  ASSUME TypeOK, [Next]_vars
  PROVE  suppliers' \in [SupplierIds -> Supplier \union {Absent, Removed}]
<1>0. suppliers \in [SupplierIds -> Supplier \union {Absent, Removed}]
  BY DEF TypeOK
<1>1. ASSUME NEW a \in Admins, AddType(a)
      PROVE  suppliers' \in [SupplierIds -> Supplier \union {Absent, Removed}]
  <2>1. request[a].supplier \in SupplierIds /\ request[a].type \in OrderTypes
    BY <1>1, RequestCarries DEF AddType, TypeOK, Assigning
  <2> QED
    BY <1>0, <1>1, <2>1 DEF AddType, Exists, Supplier
<1>2. ASSUME NEW a \in Admins,
             CreateSupplier(a) \/ PullType(a) \/ ReleaseOrderType(a) \/ SetStatus(a)
      PROVE  suppliers' \in [SupplierIds -> Supplier \union {Absent, Removed}]
  BY <1>0, <1>2
  DEF CreateSupplier, PullType, ReleaseOrderType, SetStatus, Holds, Exists, Without, Supplier
<1>3. ASSUME NEW a \in Admins, DeleteSupplier(a)
      PROVE  suppliers' \in [SupplierIds -> Supplier \union {Absent, Removed}]
  BY <1>0, <1>3 DEF DeleteSupplier
<1>4. CASE UNCHANGED suppliers
  BY <1>0, <1>4
<1> QED
  BY <1>1, <1>2, <1>3, <1>4
  DEF Next, vars, AssignOrderType, FindTarget, CountOpen, LoadForReassign, SaveReassign,
      Route, CreateOrder, LoadOrder, SaveOrder, SweepFind, SweepMark

\* A marked order is an order again, with the same supplier by the same hand; it is
\* reopened if it was, and if the mark opens a closed one.
LEMMA MarkedIsOrder ==
  ASSUME NEW o \in Order, NEW status \in OrderStatus
  PROVE  /\ Marked(o, status) \in Order
         /\ Marked(o, status).supplier = o.supplier
         /\ Marked(o, status).broughtBy = o.broughtBy
         /\ Marked(o, status).status = status
         /\ Marked(o, status).status \in OpenStatuses
              => o.status \in OpenStatuses \/ Marked(o, status).reopened
         /\ o.reopened => Marked(o, status).reopened
<1>1. o.reopened \in BOOLEAN
  BY DEF Order
<1>2. Marked(o, status) =
        [o EXCEPT !.status = status,
                  !.reopened = o.reopened
                    \/ (o.status \in ClosedStatuses /\ status \notin ClosedStatuses)]
  BY DEF Marked
<1>3. (o.reopened \/ (o.status \in ClosedStatuses /\ status \notin ClosedStatuses))
        \in BOOLEAN
  BY <1>1 DEF ClosedStatuses
<1> QED
  BY <1>1, <1>2, <1>3 DEF Order, OrderStatus, OpenStatuses, ClosedStatuses

\* Orders stay well formed, and a stored order stays stored.
LEMMA OrdersTyped ==
  ASSUME TypeOK, [Next]_vars
  PROVE  /\ orders' \in [OrderIds -> Order \union {Absent}]
         /\ \A id \in OrderIds : orders[id] \in Order => orders'[id] \in Order
<1> DEFINE Goal == /\ orders' \in [OrderIds -> Order \union {Absent}]
                   /\ \A id \in OrderIds : orders[id] \in Order => orders'[id] \in Order
<1>0. orders \in [OrderIds -> Order \union {Absent}]
  BY DEF TypeOK
<1>1. ASSUME NEW id \in OrderIds, NEW o \in Order, orders' = [orders EXCEPT ![id] = o]
      PROVE  Goal
  BY <1>0, <1>1
<1>2. ASSUME NEW a \in Admins, SaveReassign(a)
      PROVE  Goal
  <2>1. PICK id \in OrderIds, loaded \in OrderStatus, s \in SupplierIds :
          request[a] = Reassigning(id, loaded, s)
    BY <1>2, RequestCarries DEF SaveReassign, TypeOK
  <2>2. orders[id] \in Order
    BY <1>2, <2>1 DEF SaveReassign, Reassigning, TypeOK
  <2> DEFINE moved == [supplier  |-> s,
                       broughtBy |-> "admin",
                       reopened  |-> FALSE,
                       status    |-> IF loaded = "awaiting_supplier"
                                     THEN orders[id].status ELSE "awaiting_supplier"]
  <2>3. moved \in Order
    BY <2>2 DEF Order, OrderStatus, Holder
  <2>4. orders' = [orders EXCEPT ![id] = moved]
    BY <1>0, <1>2, <2>1 DEF SaveReassign, Reassigning
  <2> HIDE DEF moved
  <2> QED
    BY <1>1, <2>3, <2>4
<1>3. ASSUME NEW c \in Customers, CreateOrder(c)
      PROVE  Goal
  <2>1. request[c].supplier \in Holder
    BY <1>3, RequestCarries DEF CreateOrder, TypeOK, Placing
  <2>2. Routed(request[c].supplier) \in Order
    BY <2>1 DEF Routed, Order, OrderStatus, Holder
  <2> QED
    BY <1>1, <1>3, <2>2 DEF CreateOrder
<1>4. ASSUME NEW h \in Handlers, SaveOrder(h)
      PROVE  Goal
  <2>1. PICK id \in OrderIds, status \in OrderStatus : request[h] = Moving(id, status)
    BY <1>4, RequestCarries DEF SaveOrder, TypeOK
  <2>2. orders[id] \in Order
    BY <1>4, <2>1 DEF SaveOrder, Moving, TypeOK
  <2>3. Marked(orders[id], status) \in Order
    BY <2>2, MarkedIsOrder
  <2>4. orders' = [orders EXCEPT ![id] = Marked(orders[id], status)]
    BY <1>0, <1>4, <2>1 DEF SaveOrder, Moving
  <2> QED
    BY <1>1, <2>3, <2>4
<1>5. ASSUME SweepMark
      PROVE  Goal
  <2>1. PICK id \in due : orders' = [orders EXCEPT ![id] = Marked(@, "overdue")]
    BY <1>5 DEF SweepMark
  <2>2. id \in OrderIds /\ orders[id] \in Order
    BY <1>0 DEF TypeOK
  <2>3. Marked(orders[id], "overdue") \in Order
    BY <2>2, MarkedIsOrder DEF OrderStatus
  <2> QED
    BY <1>1, <2>1, <2>2, <2>3
<1>6. CASE UNCHANGED orders
  BY <1>0, <1>6
<1> QED
  BY <1>2, <1>3, <1>4, <1>5, <1>6
  DEF Next, vars, CreateSupplier, AssignOrderType, FindTarget, PullType, AddType,
      ReleaseOrderType, SetStatus, CountOpen, DeleteSupplier, LoadForReassign, Route,
      LoadOrder, SweepFind

\* A step changes one request at most, into another well-formed one; and it becomes
\* one about an order only where that is stored.
LEMMA OneRequestMoves ==
  ASSUME TypeOK, [Next]_vars
  PROVE  \/ UNCHANGED request
         \/ \E r \in Requests, next \in Request :
              /\ Become(r, next)
              /\ next.do \in {"reassign", "move"} => orders[next.order] \in Order
<1> DEFINE Goal == \E r \in Requests, next \in Request :
                     /\ Become(r, next)
                     /\ next.do \in {"reassign", "move"} => orders[next.order] \in Order
<1>0. /\ request \in [Requests -> Request]
      /\ orders \in [OrderIds -> Order \union {Absent}]
  BY DEF TypeOK
<1>1. ASSUME NEW a \in Admins, CreateSupplier(a) \/ AddType(a)
      PROVE  Goal
  <2>1. \E s \in SupplierIds, types \in SUBSET OrderTypes : HandOver(a, s, types)
    BY <1>0, <1>1, RequestCarries DEF CreateSupplier, AddType, Assigning
  <2> QED
    BY <2>1, HandOverStarts
<1>2. ASSUME NEW r \in Requests, NEW next \in Request, Become(r, next),
             next.do \notin {"reassign", "move"}
      PROVE  Goal
  BY <1>2
<1>3. ASSUME NEW a \in Admins,
             \/ FindTarget(a)     \/ PullType(a) \/ AssignOrderType(a) \/ CountOpen(a)
             \/ DeleteSupplier(a) \/ SaveReassign(a)
      PROVE  Goal
  <2>1. Idle.do \notin {"reassign", "move"}
    BY DEF Idle
  <2>2. CASE FindTarget(a)
    BY <1>0, <1>2, <2>1, <2>2, AssignMovesOn, RequestsWritten DEF FindTarget
  <2>3. CASE PullType(a)
    BY <1>0, <1>2, <2>3, AssignMovesOn DEF PullType
  <2>4. CASE AssignOrderType(a)
    BY <1>2, <2>4, RequestsWritten DEF AssignOrderType, Assigning
  <2>5. CASE CountOpen(a)
    BY <1>2, <2>5, RequestsWritten DEF CountOpen, Removing
  <2>6. CASE DeleteSupplier(a) \/ SaveReassign(a)
    BY <1>2, <2>1, <2>6, RequestsWritten DEF DeleteSupplier, SaveReassign
  <2> QED
    BY <1>3, <2>2, <2>3, <2>4, <2>5, <2>6
<1>4. ASSUME NEW a \in Admins, LoadForReassign(a)
      PROVE  Goal
  <2>1. PICK id \in OrderIds, s \in SupplierIds :
          orders[id] # Absent /\ Become(a, Reassigning(id, orders[id].status, s))
    BY <1>4 DEF LoadForReassign
  <2>2. orders[id] \in Order
    BY <1>0, <2>1
  <2>3. orders[id].status \in OrderStatus
    BY <2>2 DEF Order
  <2> QED
    BY <2>1, <2>2, <2>3, RequestsWritten DEF Reassigning
<1>5. ASSUME NEW c \in Customers, Route(c) \/ CreateOrder(c)
      PROVE  Goal
  BY <1>2, <1>5, RequestsWritten DEF Route, CreateOrder, Idle, Placing
<1>6. ASSUME NEW h \in Handlers, LoadOrder(h)
      PROVE  Goal
  <2>1. PICK id \in OrderIds : /\ orders[id] # Absent
                               /\ \E status \in Successors[orders[id].status] :
                                    Become(h, Moving(id, status))
    BY <1>6 DEF LoadOrder
  <2>2. PICK status \in Successors[orders[id].status] : Become(h, Moving(id, status))
    BY <2>1
  <2>3. orders[id] \in Order
    BY <1>0, <2>1
  <2>4. status \in OrderStatus
    BY <2>2, <2>3 DEF Successors, Order, OrderStatus
  <2> QED
    BY <2>2, <2>3, <2>4, RequestsWritten DEF Moving
<1>7. ASSUME NEW h \in Handlers, SaveOrder(h)
      PROVE  Goal
  BY <1>2, <1>7, RequestsWritten DEF SaveOrder, Idle
<1>8. CASE UNCHANGED request
  BY <1>8
<1> QED
  BY <1>1, <1>3, <1>4, <1>5, <1>6, <1>7, <1>8
  DEF Next, vars, ReleaseOrderType, SetStatus, SweepFind, SweepMark

\* Every collection is well typed in every state, and no request works on an order that
\* is not there.
THEOREM TypeHolds == Spec => []TypeOK
<1>1. Init => TypeOK
  BY DEF Init, TypeOK, Request, Idle
<1>2. ASSUME TypeOK, [Next]_vars
      PROVE  TypeOK'
  <2>0. /\ request \in [Requests -> Request]
        /\ \A id \in OrderIds : orders[id] # Absent => orders'[id] # Absent
    BY <1>2, OrdersTyped, NoOrderAssumption DEF TypeOK
  <2>1. request' \in [Requests -> Request]
    BY <1>2, OneRequestMoves DEF Become, TypeOK
  <2>2. ASSUME NEW q \in Requests, request'[q].do \in {"reassign", "move"}
        PROVE  orders'[request'[q].order] # Absent
    <3>1. PICK id \in OrderIds : request'[q].order = id
      BY <2>1, <2>2, RequestCarries DEF Reassigning, Moving
    <3>2. orders[id] # Absent
      BY <1>2, <2>0, <2>2, <3>1, OneRequestMoves, NoOrderAssumption DEF Become, TypeOK
    <3> QED
      BY <2>0, <3>1, <3>2
  <2>3. due' \in SUBSET OrderIds /\ \A id \in due' : orders'[id] # Absent
    <3>1. due' \in SUBSET OrderIds /\ \A id \in due' : orders[id] # Absent
      <4>1. CASE SweepFind
        BY <4>1 DEF SweepFind
      <4>2. CASE SweepMark
        BY <1>2, <4>2 DEF SweepMark, TypeOK
      <4>3. CASE UNCHANGED due
        BY <1>2, <4>3 DEF TypeOK
      <4> QED
        BY <1>2, <4>1, <4>2, <4>3
        DEF Next, vars, CreateSupplier, AssignOrderType, FindTarget, PullType, AddType,
            ReleaseOrderType, SetStatus, CountOpen, DeleteSupplier, LoadForReassign,
            SaveReassign, Route, CreateOrder, LoadOrder, SaveOrder
    <3> QED
      BY <2>0, <3>1
  <2> QED
    BY <1>2, <2>1, <2>2, <2>3, SuppliersTyped, OrdersTyped DEF TypeOK
<1> QED
  BY <1>1, <1>2, PTL DEF Spec

-----------------------------------------------------------------------------
(* Exclusivity.  With one admin at work, nobody else writes orderTypes       *)
(* between the pull and the add, so the add finds the type held by nobody    *)
(* else: that is the strengthening.                                          *)

PulledBeforeAdded ==
  \A a \in Admins :
    request[a].do = "assign" /\ request[a].step = "add"
      => \A s \in SupplierIds : Holds(s, request[a].type) => s = request[a].supplier

\* Nobody gains a type but by the add, and nobody new holds one but by it.
LEMMA OnlyAddGains ==
  ASSUME TypeOK, [Next]_vars, ~\E a \in Admins : AddType(a)
  PROVE  \A s \in SupplierIds, t \in OrderTypes : Holds(s, t)' => Holds(s, t)
<1>0. suppliers \in [SupplierIds -> Supplier \union {Absent, Removed}]
  BY DEF TypeOK
<1> SUFFICES ASSUME NEW s \in SupplierIds, NEW t \in OrderTypes, Holds(s, t)'
             PROVE  Holds(s, t)
  OBVIOUS
<1>1. CASE \E a \in Admins : CreateSupplier(a)
  BY <1>0, <1>1 DEF CreateSupplier, Holds, Exists
<1>2. CASE \E a \in Admins : PullType(a)
  BY <1>0, <1>2 DEF PullType, Holds, Exists, Without, Supplier
<1>3. CASE \E a \in Admins : ReleaseOrderType(a)
  BY <1>0, <1>3 DEF ReleaseOrderType, Holds, Exists, Without, Supplier
<1>4. CASE \E a \in Admins : SetStatus(a)
  BY <1>0, <1>4 DEF SetStatus, Holds, Exists, Supplier
<1>5. CASE \E a \in Admins : DeleteSupplier(a)
  BY <1>0, <1>5, RoutingAssumption DEF DeleteSupplier, Holds, Exists
<1>6. CASE UNCHANGED suppliers
  BY <1>6 DEF Holds, Exists
<1> QED
  BY <1>1, <1>2, <1>3, <1>4, <1>5, <1>6
  DEF Next, vars, AssignOrderType, FindTarget, CountOpen, LoadForReassign, SaveReassign,
      Route, CreateOrder, LoadOrder, SaveOrder, SweepFind, SweepMark

\* Only the pull brings an assignment to its add.
LEMMA AddFollowsPull ==
  ASSUME TypeOK, [Next]_vars, NEW a \in Admins,
         request'[a].do = "assign", request'[a].step = "add"
  PROVE  \/ PullType(a)
         \/ request'[a] = request[a]
<1> SUFFICES ASSUME request'[a] # request[a], ~PullType(a)
             PROVE  FALSE
  OBVIOUS
<1>0. request \in [Requests -> Request]
  BY DEF TypeOK
<1>1. ASSUME NEW b \in Admins, CreateSupplier(b) \/ AddType(b)
      PROVE  FALSE
  <2>1. \E s \in SupplierIds, types \in SUBSET OrderTypes : HandOver(b, s, types)
    BY <1>0, <1>1, RequestCarries DEF CreateSupplier, AddType, Assigning
  <2> QED
    BY <1>0, <2>1, HandOverStarts DEF Become
<1>2. ASSUME NEW b \in Admins, FindTarget(b) \/ PullType(b)
      PROVE  FALSE
  <2>1. CASE PullType(b)
    BY <1>0, <2>1 DEF PullType, Become
  <2>2. CASE FindTarget(b)
    <3>1. PICK s \in SupplierIds, t \in OrderTypes, old \in {"find", "pull", "add"},
               rest \in SUBSET OrderTypes : request[b] = Assigning(s, t, old, rest)
      BY <1>0, <2>2, RequestCarries DEF FindTarget
    <3> QED
      BY <1>0, <2>2, <3>1 DEF FindTarget, Become, Assigning, Idle
  <2> QED
    BY <1>2, <2>1, <2>2
<1>3. ASSUME NEW b \in Admins,
             \/ AssignOrderType(b) \/ CountOpen(b) \/ DeleteSupplier(b)
             \/ LoadForReassign(b) \/ SaveReassign(b)
      PROVE  FALSE
  BY <1>0, <1>3
  DEF AssignOrderType, CountOpen, DeleteSupplier, LoadForReassign, SaveReassign, Become,
      Assigning, Removing, Reassigning, Idle
<1>4. ASSUME NEW c \in Customers, Route(c) \/ CreateOrder(c)
      PROVE  FALSE
  BY <1>0, <1>4, RoutingAssumption DEF Route, CreateOrder, Become
<1>5. ASSUME NEW h \in Handlers, LoadOrder(h) \/ SaveOrder(h)
      PROVE  FALSE
  BY <1>0, <1>5, RoutingAssumption DEF LoadOrder, SaveOrder, Become
<1> QED
  BY <1>1, <1>2, <1>3, <1>4, <1>5
  DEF Next, vars, ReleaseOrderType, SetStatus, SweepFind, SweepMark

\* While one admin works at a time, no order type ever has two holders.
THEOREM ExclusiveForOneAdmin ==
  ASSUME OneAdmin
  PROVE  Spec => []OneHolderPerType
<1>1. Init => OneHolderPerType /\ PulledBeforeAdded
  BY RoutingAssumption
  DEF Init, OneHolderPerType, PulledBeforeAdded, Holds, Exists, Idle
<1>2. ASSUME TypeOK, OneHolderPerType, PulledBeforeAdded, [Next]_vars
      PROVE  OneHolderPerType' /\ PulledBeforeAdded'
  <2>1. ASSUME NEW a \in Admins, AddType(a)
        PROVE  OneHolderPerType' /\ PulledBeforeAdded'
    <3>1. PICK s \in SupplierIds, t \in OrderTypes, step \in {"find", "pull", "add"},
               rest \in SUBSET OrderTypes : request[a] = Assigning(s, t, step, rest)
      BY <1>2, <2>1, RequestCarries DEF AddType, TypeOK
    <3>2. request[a].supplier = s /\ request[a].type = t
      BY <3>1 DEF Assigning
    <3>3. \A x \in SupplierIds : Holds(x, t) => x = s
      BY <1>2, <2>1, <3>2 DEF AddType, PulledBeforeAdded
    <3>4. \A x \in SupplierIds, u \in OrderTypes :
            Holds(x, u)' => Holds(x, u) \/ (x = s /\ u = t)
      BY <1>2, <2>1, <3>2 DEF AddType, Holds, Exists, TypeOK, Supplier
    <3>5. OneHolderPerType'
      BY <1>2, <3>3, <3>4 DEF OneHolderPerType
    <3>6. PulledBeforeAdded'
      <4>1. \A b \in Admins : b = a
        BY DEF OneAdmin
      <4>2. PICK next \in Request : Become(a, next) /\ (next.do = "assign" => next.step = "find")
        BY <2>1, <3>1, HandOverStarts DEF AddType, Assigning
      <4> QED
        BY <1>2, <4>1, <4>2 DEF PulledBeforeAdded, Become, TypeOK
    <3> QED
      BY <3>5, <3>6
  <2>2. ASSUME ~\E a \in Admins : AddType(a)
        PROVE  OneHolderPerType' /\ PulledBeforeAdded'
    <3>1. OneHolderPerType'
      BY <1>2, <2>2, OnlyAddGains DEF OneHolderPerType
    <3>2. PulledBeforeAdded'
      <4> SUFFICES ASSUME NEW a \in Admins,
                          request'[a].do = "assign", request'[a].step = "add",
                          NEW s \in SupplierIds, Holds(s, request[a].type)'
                   PROVE  s = request'[a].supplier
        BY DEF PulledBeforeAdded
      <4>1. CASE PullType(a)
        <5>1. PICK to \in SupplierIds, t \in OrderTypes, step \in {"find", "pull", "add"},
                   rest \in SUBSET OrderTypes : request[a] = Assigning(to, t, step, rest)
          BY <1>2, <4>1, RequestCarries DEF PullType, TypeOK
        <5>2. request'[a].supplier = to /\ request'[a].type = t
          BY <1>2, <4>1, <5>1 DEF PullType, Become, TypeOK, Assigning
        <5>3. ASSUME s # to
              PROVE  ~Holds(s, t)'
          BY <1>2, <4>1, <5>1, <5>3
          DEF PullType, TypeOK, Holds, Exists, Without, Supplier, Assigning
        <5> QED
          BY <5>2, <5>3
      <4>2. CASE request'[a] = request[a]
        <5>1. request[a].type \in OrderTypes
          BY <1>2, <4>2, RequestCarries DEF TypeOK, Assigning
        <5>2. Holds(s, request[a].type)
          BY <1>2, <2>2, <4>2, <5>1, OnlyAddGains DEF Holds, Exists
        <5> QED
          BY <1>2, <4>2, <5>2 DEF PulledBeforeAdded
      <4> QED
        BY <1>2, <4>1, <4>2, AddFollowsPull
    <3> QED
      BY <3>1, <3>2
  <2> QED
    BY <2>1, <2>2
<1> QED
  BY <1>1, <1>2, TypeHolds, PTL DEF Spec

-----------------------------------------------------------------------------
(* Orphans.  While an admin is between the count and the deletion, the open  *)
(* orders of the supplier are the ones created or reopened since; while one  *)
(* is between loading and saving a reassignment, the target is still there.  *)

\* The two ways the count can miss an order.
Named(id) == orders[id].broughtBy = "checkout" \/ orders[id].reopened

CountStillGood ==
  \A a \in Admins : request[a].do = "remove" =>
    \A id \in OrderIds :
      Open(id) /\ orders[id].supplier = request[a].supplier => Named(id)

TargetsExist ==
  \A a \in Admins : request[a].do = "reassign" => Exists(request[a].supplier)

\* Only a deletion takes a supplier away.
LEMMA OnlyDeletionRemoves ==
  ASSUME TypeOK, [Next]_vars, ~\E a \in Admins : DeleteSupplier(a)
  PROVE  \A s \in SupplierIds : Exists(s) => Exists(s)'
<1>0. suppliers \in [SupplierIds -> Supplier \union {Absent, Removed}]
  BY DEF TypeOK
<1> SUFFICES ASSUME NEW s \in SupplierIds, Exists(s)
             PROVE  Exists(s)'
  OBVIOUS
<1>1. CASE \E a \in Admins : CreateSupplier(a)
  BY <1>0, <1>1 DEF CreateSupplier, Exists, Supplier
<1>2. CASE \E a \in Admins : PullType(a) \/ ReleaseOrderType(a) \/ SetStatus(a)
  BY <1>0, <1>2 DEF PullType, ReleaseOrderType, SetStatus, Exists, Without, Supplier
<1>3. ASSUME NEW a \in Admins, AddType(a)
      PROVE  Exists(s)'
  <2>1. request[a].type \in OrderTypes
    BY <1>3, RequestCarries DEF AddType, TypeOK, Assigning
  <2> QED
    BY <1>0, <1>3, <2>1 DEF AddType, Exists, Supplier
<1>4. CASE UNCHANGED suppliers
  BY <1>4 DEF Exists
<1> QED
  BY <1>1, <1>2, <1>3, <1>4
  DEF Next, vars, AssignOrderType, FindTarget, CountOpen, LoadForReassign, SaveReassign,
      Route, CreateOrder, LoadOrder, SaveOrder, SweepFind, SweepMark

\* Only a reassignment changes an open order's supplier or its broughtBy; and only
\* a checkout opens an order, or a write that is marked as reopening it.
LEMMA OpenOrdersKept ==
  ASSUME TypeOK, [Next]_vars, NEW id \in OrderIds, Open(id)'
  PROVE  \/ \E a \in Admins : SaveReassign(a)
         \/ Named(id)'
         \/ /\ Open(id)
            /\ orders'[id].supplier = orders[id].supplier
            /\ Named(id)' = Named(id)
<1> DEFINE Goal == \/ Named(id)'
                   \/ /\ Open(id)
                      /\ orders'[id].supplier = orders[id].supplier
                      /\ Named(id)' = Named(id)
<1>0. orders \in [OrderIds -> Order \union {Absent}]
  BY DEF TypeOK
<1>1. CASE \E c \in Customers : CreateOrder(c)
  BY <1>0, <1>1 DEF CreateOrder, Routed, Open, Named
<1>2. ASSUME NEW i \in OrderIds, orders[i] \in Order, NEW status \in OrderStatus,
             orders' = [orders EXCEPT ![i] = Marked(orders[i], status)]
      PROVE  Goal
  <2>1. CASE i = id
    <3>1. orders'[id] = Marked(orders[id], status)
      BY <1>0, <1>2, <2>1
    <3>2. CASE Marked(orders[id], status).reopened
      BY <3>1, <3>2 DEF Named
    <3>3. CASE ~Marked(orders[id], status).reopened
      <4>1. ~orders[id].reopened
        BY <1>2, <2>1, <3>3, MarkedIsOrder
      <4>2. orders[id].status \in OpenStatuses
        BY <1>2, <2>1, <3>1, <3>3, MarkedIsOrder DEF Open
      <4>3. Named(id)' = Named(id)
        BY <1>2, <2>1, <3>1, <3>3, <4>1, MarkedIsOrder DEF Named
      <4> QED
        BY <1>2, <2>1, <3>1, <4>2, <4>3, MarkedIsOrder, NoOrderAssumption DEF Open
    <3> QED
      BY <3>2, <3>3
  <2>2. CASE i # id
    BY <1>0, <1>2, <2>2 DEF Open, Named
  <2> QED
    BY <2>1, <2>2
<1>3. ASSUME NEW h \in Handlers, SaveOrder(h)
      PROVE  Goal
  <2>1. PICK i \in OrderIds, status \in OrderStatus : request[h] = Moving(i, status)
    BY <1>3, RequestCarries DEF SaveOrder, TypeOK
  <2>2. orders[i] \in Order
    BY <1>3, <2>1 DEF SaveOrder, Moving, TypeOK
  <2>3. orders' = [orders EXCEPT ![i] = Marked(orders[i], status)]
    BY <1>0, <1>3, <2>1 DEF SaveOrder, Moving
  <2> QED
    BY <1>2, <2>2, <2>3
<1>4. ASSUME SweepMark
      PROVE  Goal
  <2>1. PICK i \in due : orders' = [orders EXCEPT ![i] = Marked(@, "overdue")]
    BY <1>4 DEF SweepMark
  <2>2. i \in OrderIds /\ orders[i] \in Order
    BY <1>0 DEF TypeOK
  <2> QED
    BY <1>2, <2>1, <2>2 DEF OrderStatus
<1>5. CASE UNCHANGED orders
  BY <1>5 DEF Open, Named
<1> QED
  BY <1>1, <1>3, <1>4, <1>5
  DEF Next, vars, CreateSupplier, AssignOrderType, FindTarget, PullType, AddType,
      ReleaseOrderType, SetStatus, CountOpen, DeleteSupplier, LoadForReassign, Route,
      LoadOrder, SweepFind

\* A request to remove or to reassign that stands after a step stood before it, or has
\* just been counted or loaded.
LEMMA RequestsBegin ==
  ASSUME TypeOK, [Next]_vars, NEW a \in Admins, request'[a].do \in {"remove", "reassign"}
  PROVE  \/ request'[a] = request[a]
         \/ CountOpen(a) /\ request'[a].do = "remove"
         \/ LoadForReassign(a) /\ request'[a].do = "reassign"
<1> SUFFICES ASSUME request'[a] # request[a]
             PROVE  \/ CountOpen(a) /\ request'[a].do = "remove"
                    \/ LoadForReassign(a) /\ request'[a].do = "reassign"
  OBVIOUS
<1>0. request \in [Requests -> Request]
  BY DEF TypeOK
<1>1. ASSUME NEW b \in Admins, CreateSupplier(b) \/ AddType(b)
      PROVE  FALSE
  <2>1. \E s \in SupplierIds, types \in SUBSET OrderTypes : HandOver(b, s, types)
    BY <1>0, <1>1, RequestCarries DEF CreateSupplier, AddType, Assigning
  <2> QED
    BY <1>0, <2>1, HandOverStarts DEF Become
<1>2. ASSUME NEW b \in Admins, FindTarget(b) \/ PullType(b)
      PROVE  FALSE
  <2>1. \E next : Become(b, next) /\ next.do \in {"idle", "assign"}
    <3>1. CASE FindTarget(b)
      <4>1. [request[b] EXCEPT !.step = "pull"].do = "assign"
        BY <1>0, <3>1, AssignMovesOn DEF FindTarget
      <4>2. Become(b, [request[b] EXCEPT !.step = "pull"]) \/ Become(b, Idle)
        BY <3>1 DEF FindTarget
      <4>3. Idle.do = "idle"
        BY DEF Idle
      <4> QED
        BY <4>1, <4>2, <4>3
    <3>2. CASE PullType(b)
      BY <1>0, <3>2, AssignMovesOn DEF PullType
    <3> QED
      BY <1>2, <3>1, <3>2
  <2> QED
    BY <1>0, <2>1 DEF Become
<1>3. ASSUME NEW b \in Admins, AssignOrderType(b) \/ DeleteSupplier(b) \/ SaveReassign(b)
      PROVE  FALSE
  BY <1>0, <1>3 DEF AssignOrderType, DeleteSupplier, SaveReassign, Become, Assigning, Idle
<1>4. ASSUME NEW b \in Admins, CountOpen(b) \/ LoadForReassign(b)
      PROVE  \/ CountOpen(a) /\ request'[a].do = "remove"
             \/ LoadForReassign(a) /\ request'[a].do = "reassign"
  BY <1>0, <1>4 DEF CountOpen, LoadForReassign, Become, Removing, Reassigning
<1>5. ASSUME NEW c \in Customers, Route(c) \/ CreateOrder(c)
      PROVE  FALSE
  BY <1>0, <1>5, RoutingAssumption DEF Route, CreateOrder, Become
<1>6. ASSUME NEW h \in Handlers, LoadOrder(h) \/ SaveOrder(h)
      PROVE  FALSE
  BY <1>0, <1>6, RoutingAssumption DEF LoadOrder, SaveOrder, Become
<1> QED
  BY <1>1, <1>2, <1>3, <1>4, <1>5, <1>6
  DEF Next, vars, ReleaseOrderType, SetStatus, SweepFind, SweepMark

\* While one admin works at a time, no open order that an admin has moved is orphaned,
\* unless a write decided on before it was closed has opened it again: besides that,
\* only a checkout can slip between the count and the deletion.
THEOREM CountCoversReassignments ==
  ASSUME OneAdmin
  PROVE  Spec => []OnlyNamedRacesOrphan
<1>1. Init => OnlyNamedRacesOrphan /\ CountStillGood /\ TargetsExist
  BY DEF Init, OnlyNamedRacesOrphan, CountStillGood, TargetsExist, Orphaned, Open, Idle
<1>2. ASSUME TypeOK, OnlyNamedRacesOrphan, CountStillGood, TargetsExist, [Next]_vars
      PROVE  OnlyNamedRacesOrphan' /\ CountStillGood' /\ TargetsExist'
  <2>1. ASSUME NEW a \in Admins, SaveReassign(a)
        PROVE  OnlyNamedRacesOrphan' /\ CountStillGood' /\ TargetsExist'
    <3>1. \A b \in Admins : b = a
      BY DEF OneAdmin
    <3>2. request'[a] = Idle
      BY <1>2, <2>1 DEF SaveReassign, Become, TypeOK
    <3>3. CountStillGood' /\ TargetsExist'
      BY <3>1, <3>2 DEF CountStillGood, TargetsExist, Idle
    <3>4. PICK i \in OrderIds, loaded \in OrderStatus, s \in SupplierIds :
            request[a] = Reassigning(i, loaded, s)
      BY <1>2, <2>1, RequestCarries DEF SaveReassign, TypeOK
    <3>5. Exists(s) /\ UNCHANGED suppliers
      BY <1>2, <2>1, <3>4 DEF SaveReassign, TargetsExist, Reassigning
    <3>6. /\ orders'[i].supplier = s
          /\ \A id \in OrderIds : id # i => orders'[id] = orders[id]
      BY <1>2, <2>1, <3>4 DEF SaveReassign, Reassigning, TypeOK
    <3>7. OnlyNamedRacesOrphan'
      BY <1>2, <3>5, <3>6 DEF OnlyNamedRacesOrphan, Orphaned, Open, Exists
    <3> QED
      BY <3>3, <3>7
  <2>2. ASSUME NEW a \in Admins, DeleteSupplier(a)
        PROVE  OnlyNamedRacesOrphan' /\ CountStillGood' /\ TargetsExist'
    <3>1. \A b \in Admins : b = a
      BY DEF OneAdmin
    <3>2. request'[a] = Idle /\ UNCHANGED orders
      BY <1>2, <2>2 DEF DeleteSupplier, Become, TypeOK
    <3>3. CountStillGood' /\ TargetsExist'
      BY <3>1, <3>2 DEF CountStillGood, TargetsExist, Idle
    <3>4. \A s \in SupplierIds : s # request[a].supplier /\ Exists(s) => Exists(s)'
      BY <1>2, <2>2 DEF DeleteSupplier, Exists, TypeOK
    <3>5. OnlyNamedRacesOrphan'
      <4> SUFFICES ASSUME NEW id \in OrderIds, Orphaned(id)'
                   PROVE  Named(id)
        BY <3>2 DEF OnlyNamedRacesOrphan, Named
      <4>1. Open(id) /\ orders[id].supplier # Nobody /\ orders[id].supplier \in SupplierIds
        BY <1>2, <3>2 DEF Orphaned, Open, TypeOK, Order, Holder
      <4>2. CASE orders[id].supplier = request[a].supplier
        BY <1>2, <2>2, <4>1, <4>2 DEF CountStillGood, DeleteSupplier
      <4>3. CASE orders[id].supplier # request[a].supplier
        BY <1>2, <3>2, <3>4, <4>1, <4>3 DEF OnlyNamedRacesOrphan, Orphaned, Named
      <4> QED
        BY <4>2, <4>3
    <3> QED
      BY <3>3, <3>5
  <2>3. ASSUME ~\E a \in Admins : SaveReassign(a), ~\E a \in Admins : DeleteSupplier(a)
        PROVE  OnlyNamedRacesOrphan' /\ CountStillGood' /\ TargetsExist'
    <3>1. OnlyNamedRacesOrphan'
      <4> SUFFICES ASSUME NEW id \in OrderIds, Orphaned(id)'
                   PROVE  Named(id)'
        BY DEF OnlyNamedRacesOrphan, Named
      <4>1. CASE /\ Open(id)
                 /\ orders'[id].supplier = orders[id].supplier
                 /\ Named(id)' = Named(id)
        <5>1. orders[id].supplier # Nobody /\ orders[id].supplier \in SupplierIds
          BY <1>2, <4>1 DEF Orphaned, Open, TypeOK, Order, Holder
        <5>2. ~Exists(orders[id].supplier)
          BY <1>2, <2>3, <4>1, <5>1, OnlyDeletionRemoves DEF Orphaned, Exists
        <5> QED
          BY <1>2, <4>1, <5>1, <5>2 DEF OnlyNamedRacesOrphan, Orphaned, Named
      <4> QED
        BY <1>2, <2>3, <4>1, OpenOrdersKept DEF Orphaned
    <3>2. CountStillGood'
      <4> SUFFICES ASSUME NEW a \in Admins, request'[a].do = "remove",
                          NEW id \in OrderIds, Open(id)',
                          orders'[id].supplier = request'[a].supplier
                   PROVE  Named(id)'
        BY DEF CountStillGood
      <4>1. CASE request'[a] = request[a]
        BY <1>2, <2>3, <4>1, OpenOrdersKept DEF CountStillGood
      <4>2. CASE CountOpen(a)
        BY <1>2, <4>2 DEF CountOpen, Become, TypeOK, Removing, Open
      <4> QED
        BY <1>2, <4>1, <4>2, RequestsBegin
    <3>3. TargetsExist'
      <4> SUFFICES ASSUME NEW a \in Admins, request'[a].do = "reassign"
                   PROVE  Exists(request[a].supplier)'
        BY DEF TargetsExist
      <4>1. CASE request'[a] = request[a]
        <5>1. request[a].supplier \in SupplierIds
          BY <1>2, <4>1, RequestCarries DEF TypeOK, Reassigning
        <5> QED
          BY <1>2, <2>3, <4>1, <5>1, OnlyDeletionRemoves DEF TargetsExist, Exists
      <4>2. CASE LoadForReassign(a)
        BY <1>2, <4>2 DEF LoadForReassign, Become, TypeOK, Reassigning, Exists
      <4> QED
        BY <1>2, <4>1, <4>2, RequestsBegin
    <3> QED
      BY <3>1, <3>2, <3>3
  <2> QED
    BY <2>1, <2>2, <2>3
<1> QED
  BY <1>1, <1>2, TypeHolds, PTL DEF Spec
=============================================================================
