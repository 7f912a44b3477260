---------------------------- MODULE SupplierRouting ----------------------------
(***************************************************************************)
(* Which supplier holds which order type, where a new order lands, and what *)
(* becomes of orders when suppliers come and go.  Every rule here is about  *)
(* a collection, and is kept by several writes: handing a type over is a    *)
(* $pull from everybody and then an $addToSet, removing a supplier counts   *)
(* its open orders and then deletes it, a checkout routes and then creates. *)
(* Requests interleave between those calls.                                 *)
(*                                                                         *)
(* Of an order only its supplier and status matter here.  LoadOrder and     *)
(* SaveOrder stand for every handler that changes the status: it decides on *)
(* the copy it loaded, and its save writes the new status whatever the      *)
(* order has become.  So does the overdue sweep, which finds and then       *)
(* updates by id.                                                           *)
(***************************************************************************)
EXTENDS Naturals

CONSTANTS
  SupplierIds, OrderTypes, OrderIds,
  Admins,      \* requests of admins that can be in progress at once
  Customers,   \* checkouts that can be in progress at once
  Handlers,    \* other requests on orders that can be in progress at once
  Nobody,      \* the null supplier reference
  Absent,      \* a document not created yet
  Removed      \* a supplier document deleted

VARIABLES
  suppliers,   \* the suppliers collection
  orders,      \* the orders collection
  request,     \* what each request has found, between two of its calls
  due          \* the orders the overdue sweep has found and not yet marked

vars == <<suppliers, orders, request, due>>

Requests == Admins \union Customers \union Handlers

\* "inactive" is Holiday too: "same routing effect as Inactive, but says why".
Supplier == [status : {"active", "inactive"}, orderTypes : SUBSET OrderTypes]

ASSUME RoutingAssumption ==
  /\ Nobody \notin SupplierIds
  /\ Absent \notin Supplier /\ Removed \notin Supplier /\ Absent # Removed
  /\ Admins \intersect Customers = {}
  /\ Handlers \intersect (Admins \union Customers) = {}

Holder == SupplierIds \union {Nobody}

OrderStatus == {"unassigned", "awaiting_supplier", "overdue", "invoice_ready",
                "invoice_sent", "cancelled"}

\* broughtBy and reopened are no fields of the code but history, for the properties to
\* speak of: who gave the order its supplier, and whether a write decided on an earlier
\* state has opened it again since.
Order == [supplier : Holder, broughtBy : {"checkout", "admin"}, status : OrderStatus,
          reopened : BOOLEAN]

ASSUME NoOrderAssumption == Absent \notin Order

Exists(s) == suppliers[s] \in Supplier

Holds(s, t) == Exists(s) /\ t \in suppliers[s].orderTypes

\* Mutant: an order that has gone overdue is not counted.
OpenStatuses_OnTimeOnly == {"unassigned", "awaiting_supplier", "invoice_ready"}

OpenStatuses == {"unassigned", "awaiting_supplier", "overdue", "invoice_ready"}

ClosedStatuses == {"invoice_sent", "cancelled"}

\* The statuses a handler may write, by the one it loaded.  The last three are reached
\* where requests have overlapped: a flag or an invoice can stand on a closed order.
Successors ==
  [unassigned        |-> {},
   awaiting_supplier |-> {"invoice_ready", "invoice_sent", "cancelled"},
   overdue           |-> {"awaiting_supplier", "invoice_ready", "invoice_sent", "cancelled"},
   invoice_ready     |-> {"invoice_sent", "cancelled"},
   invoice_sent      |-> {"cancelled"},
   cancelled         |-> {"invoice_sent"}]

Open(id) == orders[id] # Absent /\ orders[id].status \in OpenStatuses

\* A write of the status alone, by id.
Marked(o, status) ==
  [o EXCEPT !.status = status,
            !.reopened = @ \/ (o.status \in ClosedStatuses /\ status \notin ClosedStatuses)]

-----------------------------------------------------------------------------
(* Requests in progress.                                                    *)

Idle == [do |-> "idle"]

\* One turn of assignOrderType; `rest' are the types create() has yet to hand over.
Assigning(s, t, step, rest) ==
  [do |-> "assign", supplier |-> s, type |-> t, step |-> step, rest |-> rest]

Removing(s) == [do |-> "remove", supplier |-> s]

Placing(h) == [do |-> "place", supplier |-> h]

Reassigning(id, loaded, s) ==
  [do |-> "reassign", order |-> id, loaded |-> loaded, supplier |-> s]

Moving(id, status) == [do |-> "move", order |-> id, status |-> status]

Request ==
  {Idle}
    \union {Assigning(s, t, step, rest) : s \in SupplierIds, t \in OrderTypes,
                                        step \in {"find", "pull", "add"},
                                        rest \in SUBSET OrderTypes}
    \union {Removing(s) : s \in SupplierIds}
    \union {Placing(h) : h \in Holder}
    \union {Reassigning(id, loaded, s) : id \in OrderIds, loaded \in OrderStatus,
                                         s \in SupplierIds}
    \union {Moving(id, status) : id \in OrderIds, status \in OrderStatus}

Become(r, next) == request' = [request EXCEPT ![r] = next]

Init ==
  /\ suppliers = [s \in SupplierIds |-> Absent]
  /\ orders    = [id \in OrderIds |-> Absent]
  /\ request   = [r \in Requests |-> Idle]
  /\ due       = {}

-----------------------------------------------------------------------------
(* Handing order types over.                                                *)

\* The next type of the list, or the end of the request.
HandOver(a, s, types) ==
  IF types = {} THEN Become(a, Idle)
  ELSE \E t \in types : Become(a, Assigning(s, t, "find", types \ {t}))

\* create(): the document carries no type; each one asked for is handed over.
CreateSupplier(a) ==
  /\ request[a] = Idle
  /\ \E s \in SupplierIds, status \in {"active", "inactive"}, types \in SUBSET OrderTypes :
       /\ suppliers[s] = Absent
       /\ suppliers' = [suppliers EXCEPT ![s] = [status |-> status, orderTypes |-> {}]]
       /\ HandOver(a, s, types)
  /\ UNCHANGED <<orders, due>>

AssignOrderType(a) ==
  /\ request[a] = Idle
  /\ \E s \in SupplierIds, t \in OrderTypes : Become(a, Assigning(s, t, "find", {}))
  /\ UNCHANGED <<suppliers, orders, due>>

\* findById: a supplier that is gone ends the request.
FindTarget(a) ==
  /\ request[a].do = "assign" /\ request[a].step = "find"
  /\ LET s == request[a].supplier
     IN  IF Exists(s) THEN Become(a, [request[a] EXCEPT !.step = "pull"]) ELSE Become(a, Idle)
  /\ UNCHANGED <<suppliers, orders, due>>

Without(doc, t) == [doc EXCEPT !.orderTypes = @ \ {t}]

\* Mutant: only the suppliers in rotation are asked to let go.
PullType_ActiveOnly(a) ==
  /\ request[a].do = "assign" /\ request[a].step = "pull"
  /\ LET t == request[a].type
     IN  suppliers' = [s \in SupplierIds |->
                         IF s # request[a].supplier /\ Holds(s, t)
                              /\ suppliers[s].status = "active"
                         THEN Without(suppliers[s], t) ELSE suppliers[s]]
  /\ Become(a, [request[a] EXCEPT !.step = "add"])
  /\ UNCHANGED <<orders, due>>

PullType(a) ==
  /\ request[a].do = "assign" /\ request[a].step = "pull"
  /\ LET t == request[a].type
     IN  suppliers' = [s \in SupplierIds |->
                         IF s # request[a].supplier /\ Holds(s, t)
                         THEN Without(suppliers[s], t) ELSE suppliers[s]]
  /\ Become(a, [request[a] EXCEPT !.step = "add"])
  /\ UNCHANGED <<orders, due>>

\* updateOne: no upsert, so a supplier deleted meanwhile is not written.
AddType(a) ==
  /\ request[a].do = "assign" /\ request[a].step = "add"
  /\ LET s == request[a].supplier
     IN  /\ suppliers' =
              IF Exists(s)
              THEN [suppliers EXCEPT ![s].orderTypes = @ \union {request[a].type}]
              ELSE suppliers
         /\ HandOver(a, s, request[a].rest)
  /\ UNCHANGED <<orders, due>>

\* findById and then a $pull, which on a supplier gone meanwhile does nothing.
ReleaseOrderType(a) ==
  /\ request[a] = Idle
  /\ \E s \in SupplierIds, t \in OrderTypes :
       /\ Holds(s, t)
       /\ suppliers' = [suppliers EXCEPT ![s] = Without(@, t)]
  /\ UNCHANGED <<orders, request, due>>

\* setStatus, and the status that update() may carry: never the order types.
SetStatus(a) ==
  /\ request[a] = Idle
  /\ \E s \in SupplierIds, status \in {"active", "inactive"} :
       /\ Exists(s)
       /\ suppliers' = [suppliers EXCEPT ![s].status = status]
  /\ UNCHANGED <<orders, request, due>>

-----------------------------------------------------------------------------
(* Removing a supplier.                                                     *)

\* The controller's countOpenForSupplier; remove() refuses any other count.
CountOpen(a) ==
  /\ request[a] = Idle
  /\ \E s \in SupplierIds :
       /\ Exists(s)
       /\ \A id \in OrderIds : Open(id) => orders[id].supplier # s
       /\ Become(a, Removing(s))
  /\ UNCHANGED <<suppliers, orders, due>>

DeleteSupplier(a) ==
  /\ request[a].do = "remove"
  /\ suppliers' = [suppliers EXCEPT ![request[a].supplier] =
                     IF Exists(request[a].supplier) THEN Removed ELSE @]
  /\ Become(a, Idle)
  /\ UNCHANGED <<orders, due>>

-----------------------------------------------------------------------------
(* Orders.                                                                  *)

Routes(t) == {s \in SupplierIds : Holds(s, t) /\ suppliers[s].status = "active"}

\* routeOrder.
Route(c) ==
  /\ request[c] = Idle
  /\ \E t \in OrderTypes, h \in Holder :
       /\ h \in Routes(t) \/ (h = Nobody /\ Routes(t) = {})
       /\ Become(c, Placing(h))
  /\ UNCHANGED <<suppliers, orders, due>>

Routed(h) ==
  [supplier |-> h, broughtBy |-> "checkout", reopened |-> FALSE,
   status |-> IF h = Nobody THEN "unassigned" ELSE "awaiting_supplier"]

\* The rest of placeOrder: the order goes to the supplier found a moment ago.
CreateOrder(c) ==
  /\ request[c].do = "place"
  /\ \E id \in OrderIds :
       /\ orders[id] = Absent
       /\ orders' = [orders EXCEPT ![id] = Routed(request[c].supplier)]
  /\ Become(c, Idle)
  /\ UNCHANGED <<suppliers, due>>

\* findScoped, findById and the checks of reassign.  An inactive target will do.
LoadForReassign(a) ==
  /\ request[a] = Idle
  /\ \E id \in OrderIds, s \in SupplierIds :
       /\ Exists(s)
       /\ orders[id] # Absent /\ orders[id].supplier # s
       /\ orders[id].status \in {"unassigned", "awaiting_supplier", "overdue"}
       /\ Become(a, Reassigning(id, orders[id].status, s))
  /\ UNCHANGED <<suppliers, orders, due>>

\* document.save(): the status is written only if the loaded one was another.
SaveReassign(a) ==
  /\ request[a].do = "reassign"
  /\ orders' = [orders EXCEPT ![request[a].order] =
       [supplier  |-> request[a].supplier,
        broughtBy |-> "admin",
        reopened  |-> FALSE,
        status    |-> IF request[a].loaded = "awaiting_supplier"
                      THEN @.status ELSE "awaiting_supplier"]]
  /\ Become(a, Idle)
  /\ UNCHANGED <<suppliers, due>>

\* The guards of a handler, passed by the copy it loaded.
LoadOrder(h) ==
  /\ request[h] = Idle
  /\ \E id \in OrderIds :
       /\ orders[id] # Absent
       /\ \E status \in Successors[orders[id].status] : Become(h, Moving(id, status))
  /\ UNCHANGED <<suppliers, orders, due>>

\* document.save().  The version check of a bank review stops some of these saves: they
\* are the requests that LoadOrder takes no further.
SaveOrder(h) ==
  /\ request[h].do = "move"
  /\ orders' = [orders EXCEPT ![request[h].order] = Marked(@, request[h].status)]
  /\ Become(h, Idle)
  /\ UNCHANGED <<suppliers, due>>

\* sweepOverdue's find: which windows have closed is not told apart here.  A sweep that
\* failed has dropped what it found; one never overlaps another.
SweepFind ==
  /\ \E found \in SUBSET {id \in OrderIds : orders[id] # Absent
                                          /\ orders[id].status = "awaiting_supplier"} :
       due' = found
  /\ due' # {}
  /\ UNCHANGED <<suppliers, orders, request>>

\* updateMany by id alone, one document at a time.
SweepMark ==
  /\ \E id \in due :
       /\ orders' = [orders EXCEPT ![id] = Marked(@, "overdue")]
       /\ due' = due \ {id}
  /\ UNCHANGED <<suppliers, request>>

Next ==
  \/ \E a \in Admins :
       \/ CreateSupplier(a) \/ AssignOrderType(a)  \/ FindTarget(a) \/ PullType(a)
       \/ AddType(a)        \/ ReleaseOrderType(a) \/ SetStatus(a)
       \/ CountOpen(a)      \/ DeleteSupplier(a)
       \/ LoadForReassign(a) \/ SaveReassign(a)
  \/ \E c \in Customers : Route(c) \/ CreateOrder(c)
  \/ \E h \in Handlers : LoadOrder(h) \/ SaveOrder(h)
  \/ SweepFind \/ SweepMark

Spec == Init /\ [][Next]_vars

-----------------------------------------------------------------------------
(* Properties.                                                             *)

TypeOK ==
  /\ suppliers \in [SupplierIds -> Supplier \union {Absent, Removed}]
  /\ orders \in [OrderIds -> Order \union {Absent}]
  /\ request \in [Requests -> Request]
  /\ due \in SUBSET OrderIds
  /\ \A r \in Requests :
       request[r].do \in {"reassign", "move"} => orders[request[r].order] # Absent
  /\ \A id \in due : orders[id] # Absent

\* "An order type belongs to exactly one supplier - if Supplier A caters 6 Months,
\* nobody else does" (holderOf): the two writes of assignOrderType keep it, as long as
\* no two admins hand types over at once.
OneHolderPerType ==
  \A t \in OrderTypes : \A s1, s2 \in SupplierIds : Holds(s1, t) /\ Holds(s2, t) => s1 = s2

Orphaned(id) == Open(id) /\ orders[id].supplier # Nobody /\ ~Exists(orders[id].supplier)

\* While one admin works at a time, the count before the deletion covers every way a
\* supplier can be left with an open order but two: a checkout that has routed and not
\* yet created, and a write that was decided on before its order was closed and opens
\* it again (the overdue sweep's, or an overlapping handler's).
OnlyNamedRacesOrphan ==
  \A id \in OrderIds :
    Orphaned(id) => orders[id].broughtBy = "checkout" \/ orders[id].reopened
=============================================================================
