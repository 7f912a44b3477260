---------------------------- MODULE OrderRequests ----------------------------
(***************************************************************************)
(* The same handlers as the server runs them.  A request loads the order    *)
(* (findScoped), decides everything on that copy, saves it, and only then   *)
(* raises and resolves the alerts, one awaited call after another; the      *)
(* overdue sweep queries, updates and announces in three calls of its own.  *)
(* Requests on one order, and the sweep, interleave at every await.         *)
(*                                                                         *)
(* document.save() is mongoose's: it writes only the paths the request       *)
(* changed, appends are atomic pushes, and the stored version is compared   *)
(* only when a whole array is replaced, which here is bankReview.flagged.   *)
(*                                                                         *)
(* One order is enough: no handler reads or writes another one.  Deadlines  *)
(* are numbered in the order the windows start, all windows being equally   *)
(* long, and `lapsed' of them have passed.                                  *)
(***************************************************************************)
EXTENDS OrderPromises, Sequences, FiniteSets

CONSTANTS
  Workers,     \* requests the server can have in progress at once
  Purchases,   \* what a customer may buy: [channel, review, v62]
  MaxWindows,  \* bound: windows started in a behaviour
  Overlap,     \* FALSE: a request or a sweep starts only when nothing is in progress
  Absent

ASSUME WindowAssumption ==
  MaxWindows \in Nat \ {0} /\ Deadlines = 1 .. MaxWindows /\ NoDeadline = 0
ASSUME AbsentAssumption == Absent \notin Order
ASSUME PurchasesAssumption ==
  Purchases \subseteq [channel : CommunicationMethod, review : {"none", "submitted"},
                       v62 : {"none", "requested"}]

VARIABLES
  order,    \* the stored document
  alerts,   \* the types of the notifications stored for it
  issued,   \* windows started so far
  lapsed,   \* windows whose deadline has passed
  stage,    \* of each worker: idle, loaded (document in hand), after (saved)
  read,     \* the document the worker loaded
  write,    \* the document the worker is about to save
  since,    \* how many windows were already stored when the worker loaded
  stale,    \* another save has bumped the version since the worker loaded
  todo,     \* the calls the worker makes after its save, in order
  sweep,    \* the sweep: idle, found or marked, and the window it found lapsed
  announced \* the windows whose lapse has been announced

vars == <<order, alerts, issued, lapsed, stage, read, write, since, stale, todo, sweep,
          announced>>

requestVars == <<stage, read, write, since, stale, todo>>

Raise(type)   == [do |-> "raise", of |-> type]
Resolve(type) == [do |-> "resolve", of |-> type]
ClearAll      == [do |-> "clear", of |-> "all"]
Email(cause)  == [do |-> "email", of |-> cause]

SweepIdle == [stage |-> "idle", window |-> 0]

Quiet == (\A w \in Workers : stage[w] = "idle") /\ sweep = SweepIdle

Init ==
  /\ order = Absent
  /\ alerts = {}
  /\ issued = 0
  /\ lapsed = 0
  /\ stage = [w \in Workers |-> "idle"]
  /\ read  = [w \in Workers |-> Absent]
  /\ write = [w \in Workers |-> Absent]
  /\ since = [w \in Workers |-> 0]
  /\ stale = [w \in Workers |-> FALSE]
  /\ todo  = [w \in Workers |-> <<>>]
  /\ sweep = SweepIdle
  /\ announced = {}

-----------------------------------------------------------------------------
(* Loading: the whole decision is made on the copy.                         *)

When(condition, step) == IF condition THEN <<step>> ELSE <<>>

MayStart(w) == stage[w] = "idle" /\ (Overlap \/ Quiet)

\* A fresh deadline is seven minutes away: the next number.
FreshDue == issued + 1

\* Windows some request has computed and not yet saved.
Pending == {write[w].dueAt : w \in {v \in Workers : /\ stage[v] = "loaded"
                                                  /\ write[v].dueAt > read[v].dueAt}}

Stored == Cardinality({k \in 1 .. issued : \A p \in Pending : k < p})

Load(w, new, steps) ==
  /\ MayStart(w)
  /\ new.dueAt <= MaxWindows
  /\ stage' = [stage EXCEPT ![w] = "loaded"]
  /\ read'  = [read EXCEPT ![w] = order]
  /\ write' = [write EXCEPT ![w] = new]
  /\ since' = [since EXCEPT ![w] = Stored]
  /\ todo'  = [todo EXCEPT ![w] = steps]
  /\ issued' = IF new.dueAt = FreshDue THEN issued + 1 ELSE issued
  /\ UNCHANGED <<order, alerts, lapsed, stale, sweep, announced>>

Exists == order # Absent

Held == Exists /\ order.supplier \in Suppliers

\* Mutant: the overdue alert is left standing.
AnnounceFlag_OnlyRaises == <<Raise("order_flagged")>>

AnnounceFlag == <<Raise("order_flagged"), Resolve("supplier_overdue")>>

UploadSteps(o) ==
  LET viaAdmin == o.communicationMethod = "whatsapp"
  IN  When(IsFlagged(o), Resolve("order_flagged"))
        \o When(o.bankReview = "submitted", Raise("bank_approved"))
        \o (IF viaAdmin THEN <<Raise("whatsapp_send_required")>> ELSE <<Email("upload")>>)

UploadInvoice(w) ==
  Held /\ CanAttachInvoice(order) /\ Load(w, AttachInvoice(order), UploadSteps(order))

FlagOrder(w) == Held /\ CanFlag(order) /\ Load(w, ApplyFlag(order), AnnounceFlag)

ApproveBank(w) ==
  /\ Held /\ AwaitsReview(order)
  /\ Load(w, Approve(order, FreshDue), <<Raise("bank_approved")>>)

RequestChangesSteps(o) ==
  <<Raise("bank_changes_requested")>> \o (IF Escalates(o) THEN AnnounceFlag ELSE <<>>)

RequestBankChanges(w) ==
  /\ Held /\ AwaitsReview(order)
  /\ Load(w, RequestChanges(order), RequestChangesSteps(order))

ResubmitBank(w) ==
  /\ Exists /\ CanResubmit(order)
  /\ Load(w, Resubmit(order, FreshDue), <<Resolve("bank_changes_requested")>>)

SendWhatsapp(w) ==
  /\ Exists /\ CanMarkSent(order)
  /\ Load(w, MarkSent(order), <<Resolve("whatsapp_send_required")>>)

ReassignOrder(w) ==
  \E target \in Suppliers :
    /\ Exists /\ CanReassign(order, target)
    /\ Load(w, Reassign(order, target, FreshDue),
            <<Resolve("supplier_overdue"), Resolve("unassigned")>>)

SendBackSteps(o) ==
  <<Resolve("order_flagged")>> \o When(SendBackRestarts(o), Resolve("supplier_overdue"))

SendOrderBack(w) ==
  /\ Exists /\ CanAnswerFlag(order)
  /\ Load(w, SendBack(order, FreshDue), SendBackSteps(order))

CompleteOrder(w) == Exists /\ CanAnswerFlag(order) /\ Load(w, Complete(order), <<ClearAll>>)

CancelOrder(w) == Exists /\ CanAnswerFlag(order) /\ Load(w, Cancel(order), <<ClearAll>>)

PrintV62(w) ==
  /\ Exists /\ CanMarkV62Printed(order)
  /\ Load(w, MarkV62Printed(order), <<Resolve("v62_submitted")>>)

-----------------------------------------------------------------------------
(* Saving.                                                                 *)

\* Mutant: the whole copy is written back.
Merged_WholeDocument(w) == write[w]

\* $set for each path whose value changed; bankReview.notes is pushed to.
Merged(w) ==
  [field \in DOMAIN order |->
     IF field = "sendBacks" /\ read[w].sendBacks # write[w].sendBacks
     THEN IF order.sendBacks < RoundCap THEN order.sendBacks + 1 ELSE RoundCap
     ELSE IF read[w][field] # write[w][field] THEN write[w][field]
     ELSE order[field]]

\* Replacing bankReview.flagged puts the loaded version in the update's filter.
ReplacesArray(w) == read[w].fieldsFlagged # write[w].fieldsFlagged

\* Mutant: no version check on the array.
VersionConflict_Never(w) == FALSE

VersionConflict(w) == stale[w] /\ ReplacesArray(w)

Done(w) ==
  /\ stage' = [stage EXCEPT ![w] = "idle"]
  /\ read'  = [read EXCEPT ![w] = Absent]
  /\ write' = [write EXCEPT ![w] = Absent]
  /\ since' = [since EXCEPT ![w] = 0]
  /\ todo'  = [todo EXCEPT ![w] = <<>>]

\* Every save appends to the timeline, and so bumps the version.
Save(w) ==
  /\ stage[w] = "loaded"
  /\ ~VersionConflict(w)
  /\ order' = Merged(w)
  /\ stage' = [stage EXCEPT ![w] = "after"]
  /\ read'  = [read EXCEPT ![w] = Absent]
  /\ write' = [write EXCEPT ![w] = Absent]
  /\ since' = [since EXCEPT ![w] = 0]
  /\ stale' = [v \in Workers |-> v # w /\ (stale[v] \/ stage[v] = "loaded")]
  /\ UNCHANGED <<alerts, issued, lapsed, todo, sweep, announced>>

\* VersionError: the request fails and nothing was written.
FailSave(w) ==
  /\ stage[w] = "loaded"
  /\ VersionConflict(w)
  /\ Done(w)
  /\ stale' = [stale EXCEPT ![w] = FALSE]
  /\ UNCHANGED <<order, alerts, issued, lapsed, sweep, announced>>

-----------------------------------------------------------------------------
(* After the save.                                                         *)

After(w, do) == stage[w] = "after" /\ todo[w] # <<>> /\ Head(todo[w]).do = do

Advance(w) ==
  /\ IF Len(todo[w]) = 1 THEN Done(w)
     ELSE /\ todo' = [todo EXCEPT ![w] = Tail(@)]
          /\ UNCHANGED <<stage, read, write, since>>
  /\ UNCHANGED <<issued, lapsed, stale, sweep, announced>>

RaiseAlert(w) ==
  /\ After(w, "raise")
  /\ alerts' = alerts \union {Head(todo[w]).of}
  /\ Advance(w)
  /\ UNCHANGED order

ResolveAlert(w) ==
  /\ After(w, "resolve")
  /\ alerts' = alerts \ {Head(todo[w]).of}
  /\ Advance(w)
  /\ UNCHANGED order

ClearAlerts(w) ==
  /\ After(w, "clear")
  /\ alerts' = {}
  /\ Advance(w)
  /\ UNCHANGED order

\* emailInvoice's own atomic update; it does not touch the version.
RecordEmail(w) ==
  /\ After(w, "email")
  /\ \E outcome \in {"sent", "failed"} : order' = [order EXCEPT !.invoiceEmail = outcome]
  /\ Advance(w)
  /\ UNCHANGED alerts

\* The update fails: emailInvoice logs that, and the order keeps no outcome.
LoseRecord(w) ==
  /\ After(w, "email")
  /\ Advance(w)
  /\ UNCHANGED <<order, alerts>>

\* Saves nothing of the document it loaded: it goes straight to the email.
ResendInvoice(w) ==
  /\ MayStart(w)
  /\ Exists /\ CanResendInvoiceEmail(order)
  /\ stage' = [stage EXCEPT ![w] = "after"]
  /\ todo'  = [todo EXCEPT ![w] = <<Email("resend")>>]
  /\ UNCHANGED <<order, alerts, issued, lapsed, read, write, since, stale, sweep, announced>>

PlacedSteps(o) ==
  When(o.supplier = Nobody, Raise("unassigned"))
    \o When(o.v62 # "none", Raise("v62_submitted"))
    \o When(o.communicationMethod = "whatsapp", Raise("whatsapp_requested"))

\* create() is one write; the alerts follow it, when there are any.
PlaceOrder(w) ==
  /\ MayStart(w)
  /\ ~Exists
  /\ \E h \in Holder, p \in Purchases :
       LET o == NewOrder(h, p.channel, p.review, p.v62, FreshDue)
       IN  /\ order' = o
           /\ issued' = IF h = Nobody THEN issued ELSE issued + 1
           /\ todo'  = [todo EXCEPT ![w] = PlacedSteps(o)]
           /\ stage' = [stage EXCEPT ![w] = IF PlacedSteps(o) = <<>> THEN "idle" ELSE "after"]
  /\ UNCHANGED <<alerts, lapsed, read, write, since, stale, sweep, announced>>

-----------------------------------------------------------------------------
(* Time and the sweep.                                                     *)

\* A request is shorter than a window: none is still unsaved that had loaded before
\* the window now lapsing was stored.
OutlastsWindow(due) == \E w \in Workers : stage[w] = "loaded" /\ since[w] < due

WindowLapses ==
  /\ lapsed < issued
  /\ ~OutlastsWindow(lapsed + 1)
  /\ lapsed' = lapsed + 1
  /\ UNCHANGED <<order, alerts, issued, requestVars, sweep, announced>>

\* One cron, and its `running' flag: a sweep starts only when none is in progress.
SweepFind ==
  /\ sweep = SweepIdle
  /\ Overlap \/ Quiet
  /\ Exists /\ SweepMatches(order) /\ order.dueAt <= lapsed
  /\ sweep' = [stage |-> "found", window |-> order.dueAt]
  /\ UNCHANGED <<order, alerts, issued, lapsed, requestVars, announced>>

\* updateMany by id alone: whatever the order has become is marked overdue.
SweepMark ==
  /\ sweep.stage = "found"
  /\ order' = MarkOverdue(order)
  /\ sweep' = [sweep EXCEPT !.stage = "marked"]
  /\ UNCHANGED <<alerts, issued, lapsed, requestVars, announced>>

SweepAnnounce ==
  /\ sweep.stage = "marked"
  /\ alerts' = OverdueAlerts(alerts)
  /\ announced' = announced \union {sweep.window}
  /\ sweep' = SweepIdle
  /\ UNCHANGED <<order, issued, lapsed, requestVars>>

Next ==
  \/ WindowLapses \/ SweepFind \/ SweepMark \/ SweepAnnounce
  \/ \E w \in Workers :
       \/ PlaceOrder(w)    \/ ResubmitBank(w)
       \/ UploadInvoice(w) \/ FlagOrder(w)     \/ ApproveBank(w) \/ RequestBankChanges(w)
       \/ SendWhatsapp(w)  \/ ReassignOrder(w) \/ SendOrderBack(w)
       \/ CompleteOrder(w) \/ CancelOrder(w)   \/ PrintV62(w)    \/ ResendInvoice(w)
       \/ Save(w)          \/ FailSave(w)
       \/ RaiseAlert(w)    \/ ResolveAlert(w)  \/ ClearAlerts(w)
       \/ RecordEmail(w)   \/ LoseRecord(w)

Spec == Init /\ [][Next]_vars

-----------------------------------------------------------------------------
(* Properties that hold whatever overlaps.                                  *)

Call == [do : {"raise", "resolve"}, of : AlertType] \union {ClearAll}
          \union {Email(cause) : cause \in {"upload", "resend"}}

TypeOK ==
  /\ order \in Order \union {Absent}
  /\ alerts \in SUBSET AlertType
  /\ issued \in 0 .. MaxWindows
  /\ lapsed \in 0 .. MaxWindows
  /\ stage \in [Workers -> {"idle", "loaded", "after"}]
  /\ read \in [Workers -> Order \union {Absent}]
  /\ write \in [Workers -> Order \union {Absent}]
  /\ since \in [Workers -> 0 .. MaxWindows]
  /\ stale \in [Workers -> BOOLEAN]
  /\ todo \in [Workers -> Seq(Call)]
  /\ sweep \in [stage : {"idle", "found", "marked"}, window : 0 .. MaxWindows]
  /\ announced \in SUBSET Deadlines

\* pushOverdue: "Sent once per order by construction": however requests overlap with
\* the sweep, one window's lapse is announced at most once.
LapseAnnouncedOnce ==
  [][sweep.stage = "marked" /\ sweep' = SweepIdle => sweep.window \notin announced]_vars

\* The version check earns its keep: no overlap makes the loop forget that a mandate
\* has gone round too often, or send one back with nothing named.
LoopSurvivesOverlap ==
  order # Absent =>
    /\ EscalationReached(order)
    /\ order.bankReview = "changes_requested" => order.fieldsFlagged

\* Nothing overlaps its way to taking an order's supplier away again: a save writes
\* the paths its request changed, never the rest of the copy it loaded.
AssignedForGood ==
  [][order # Absent /\ order.supplier # Nobody =>
       order'.supplier # Nobody /\ order'.status # "unassigned"]_order

-----------------------------------------------------------------------------
(* What the code keeps only while requests do not overlap: the run           *)
(* swept_when_closed shows it broken.                                      *)

\* order.enum.ts: invoice_sent and cancelled are "Terminal".
TerminalStays == [][order # Absent /\ Closed(order) => order'.status = order.status]_order
=============================================================================
