------------------------- MODULE OrderLifecycleProofs -------------------------
(***************************************************************************)
(* OrderLifecycle keeps its invariant for any set of orders, any suppliers, *)
(* deadlines and BANK_ROUNDS_BEFORE_FLAG, and with it every property its    *)
(* run checks but the two of liveness.                                     *)
(*                                                                         *)
(* The argument has two layers.  First, about one document: every handler   *)
(* of OrderRules keeps what OrderPromises states of an order and of its     *)
(* alerts, one lemma for each handler.  Each of these has the same four     *)
(* parts: the document is still well formed, its fields still agree, the    *)
(* alerts are well formed, and they match it.  Then, about the collection:  *)
(* Inv says of each placed order that it is Sound, and every action         *)
(* replaces one order, or in the sweep's case several, by a Sound one.      *)
(***************************************************************************)
EXTENDS OrderLifecycle, TLAPS

\* Everything promised of one stored order on its own.
OrderSound(o) ==
  /\ StatusesAgree(o)
  /\ AnswerStands(o)
  /\ DoneMeansInvoiced(o)
  /\ NeverParked(o)
  /\ FlagAwaitsInvoice(o)
  /\ WindowAwaitsInvoice(o)
  /\ InvoiceIsEarned(o)
  /\ FieldsMatchReview(o)
  /\ SentBackBySupplier(o)
  /\ EscalationReached(o)
  /\ ClockRunsOnlyReassigned(o)

\* A well-formed order whose promises hold, with the alerts that match it.
Sound(o, a) ==
  /\ o \in Order
  /\ OrderSound(o)
  /\ a \in SUBSET AlertType
  /\ AlertsMatch(o, a)

-----------------------------------------------------------------------------
(* The helpers the handlers share.                                         *)

\* restartWindow, pauseWindow, applyFlag and signOffMandate leave a well-formed order.
LEMMA HelpersKeepType ==
  ASSUME NEW o \in Order
  PROVE  /\ \A due \in Deadlines : RestartWindow(o, due) \in Order
         /\ PauseWindow(o) \in Order
         /\ ApplyFlag(o) \in Order
         /\ SignOffMandate(o) \in Order
<1>1. \A due \in Deadlines : RestartWindow(o, due) \in Order
  BY DEF RestartWindow, NotOverdue, Order, OrderStatus
<1>2. PauseWindow(o) \in Order
  BY DEF PauseWindow, Order
<1>3. ApplyFlag(o) \in Order
  BY DEF ApplyFlag, PauseWindow, NotOverdue, Order, OrderStatus, FlagState
<1>4. SignOffMandate(o) \in Order
  BY DEF SignOffMandate, Order, BankReviewStatus
<1> QED
  BY <1>1, <1>2, <1>3, <1>4

-----------------------------------------------------------------------------
(* The supplier's handlers.                                                 *)

\* attachInvoice: an upload on an order in any state the guards let through.
LEMMA AttachInvoiceKeeps ==
  ASSUME NEW o, NEW a, Sound(o, a), o.supplier \in Suppliers, CanAttachInvoice(o)
  PROVE  Sound(AttachInvoice(o), AttachInvoiceAlerts(o, a))
<1> DEFINE p == AttachInvoice(o)
           b == AttachInvoiceAlerts(o, a)
<1>1. p \in Order
  <2> DEFINE signed   == IF o.bankReview = "submitted" THEN SignOffMandate(o) ELSE o
             viaAdmin == o.communicationMethod = "whatsapp"
             stopped  == [signed EXCEPT !.invoice = o.supplier, !.dueAt = NoDeadline,
                                        !.flag = IF IsFlagged(o) THEN "invoiced" ELSE @]
  <2>1. signed \in Order
    BY HelpersKeepType DEF Sound
  <2>2. stopped \in Order
    BY <2>1 DEF Sound, Order, FlagState
  <2> HIDE DEF stopped
  <2>3. [stopped EXCEPT !.invoiceStatus = IF viaAdmin THEN "ready" ELSE "sent",
                        !.status = IF viaAdmin THEN "invoice_ready" ELSE "invoice_sent"]
          \in Order
    BY <2>2 DEF Order, InvoiceStatus, OrderStatus
  <2> QED
    BY <2>3 DEF AttachInvoice, stopped
<1>2. OrderSound(p)
  BY SupplierAssumption
  DEF Sound, AttachInvoice, SignOffMandate, CanAttachInvoice, Live, Order,
      BankReviewStatus, OrderSound, StatusesAgree, AnswerStands, DoneMeansInvoiced,
      NeverParked, FlagAwaitsInvoice, WindowAwaitsInvoice, InvoiceIsEarned,
      FieldsMatchReview, SentBackBySupplier, EscalationReached, ClockRunsOnlyReassigned,
      AwaitsInvoice, IsFlagged
<1>3. b \in SUBSET AlertType
  BY DEF Sound, AttachInvoiceAlerts, AlertType
<1>4. AlertsMatch(p, b)
  BY SupplierAssumption
  DEF Sound, AttachInvoice, SignOffMandate, CanAttachInvoice, AttachInvoiceAlerts,
      AlertsMatch, OrderSound, StatusesAgree, IsFlagged
<1> QED
  BY <1>1, <1>2, <1>3, <1>4 DEF Sound

\* flag: the supplier's hand up on an order still waiting on its invoice.
LEMMA ApplyFlagKeeps ==
  ASSUME NEW o, NEW a, Sound(o, a), o.supplier \in Suppliers, CanFlag(o)
  PROVE  Sound(ApplyFlag(o), FlagAlerts(a))
<1> DEFINE p == ApplyFlag(o)
           b == FlagAlerts(a)
<1>1. p \in Order
  BY HelpersKeepType DEF Sound
<1>2. OrderSound(p)
  BY SupplierAssumption
  DEF Sound, ApplyFlag, PauseWindow, NotOverdue, CanFlag, Live, Order, OrderStatus,
      OrderSound, StatusesAgree, AnswerStands, DoneMeansInvoiced, NeverParked,
      FlagAwaitsInvoice, WindowAwaitsInvoice, InvoiceIsEarned, FieldsMatchReview,
      SentBackBySupplier, EscalationReached, ClockRunsOnlyReassigned, AwaitsInvoice,
      IsFlagged
<1>3. b \in SUBSET AlertType
  BY DEF Sound, FlagAlerts, AlertType
<1>4. AlertsMatch(p, b)
  BY DEF Sound, ApplyFlag, PauseWindow, NotOverdue, CanFlag, Live, FlagAlerts,
         AlertsMatch, Closed, OrderSound, StatusesAgree, AnswerStands, IsFlagged
<1> QED
  BY <1>1, <1>2, <1>3, <1>4 DEF Sound

\* approve: the mandate signed off on its own, with or without a paused window.
LEMMA ApproveKeeps ==
  ASSUME NEW o, NEW a, Sound(o, a), NEW due \in Deadlines, o.supplier \in Suppliers, AwaitsReview(o)
  PROVE  Sound(Approve(o, due), ApproveAlerts(a))
<1> DEFINE p == Approve(o, due)
           b == ApproveAlerts(a)
<1>1. p \in Order
  BY HelpersKeepType DEF Sound, Approve
<1>2. OrderSound(p)
  BY SupplierAssumption
  DEF Sound, Approve, SignOffMandate, RestartWindow, AwaitsReview, Live, Order,
      OrderStatus, OrderSound, StatusesAgree, AnswerStands, DoneMeansInvoiced,
      NeverParked, FlagAwaitsInvoice, WindowAwaitsInvoice, InvoiceIsEarned,
      FieldsMatchReview, SentBackBySupplier, EscalationReached, ClockRunsOnlyReassigned,
      AwaitsInvoice, IsFlagged
<1>3. b \in SUBSET AlertType
  BY DEF Sound, ApproveAlerts, AlertType
<1>4. AlertsMatch(p, b)
  BY DEF Sound, Approve, SignOffMandate, RestartWindow, NotOverdue, AwaitsReview,
         ApproveAlerts, AlertsMatch, IsFlagged
<1> QED
  BY <1>1, <1>2, <1>3, <1>4 DEF Sound

\* requestChanges: the mandate sent back, escalated to an admin or not.
LEMMA RequestChangesKeeps ==
  ASSUME NEW o, NEW a, Sound(o, a), o.supplier \in Suppliers, AwaitsReview(o)
  PROVE  Sound(RequestChanges(o), RequestChangesAlerts(o, a))
<1> DEFINE p == RequestChanges(o)
           b == RequestChangesAlerts(o, a)
<1>1. p \in Order
  <2> DEFINE paused   == PauseWindow(o)
             reviewed == [paused EXCEPT !.bankReview = "changes_requested",
                                        !.fieldsFlagged = TRUE]
             returned == [reviewed EXCEPT
                            !.sendBacks = IF @ < RoundCap THEN @ + 1 ELSE @]
  <2>1. paused \in Order
    BY HelpersKeepType DEF Sound
  <2> HIDE DEF paused
  <2>2. reviewed \in Order
    BY <2>1 DEF Order, BankReviewStatus
  <2> HIDE DEF reviewed
  <2>3. returned \in Order
    BY <2>2, RoundsAssumption DEF Order, RoundCap
  <2>4. ApplyFlag(returned) \in Order
    BY <2>3, HelpersKeepType
  <2> QED
    BY <2>3, <2>4 DEF RequestChanges, paused, reviewed
<1>2. OrderSound(p)
  BY SupplierAssumption
  DEF Sound, RequestChanges, Escalates, PauseWindow, ApplyFlag, NotOverdue,
      AwaitsReview, Live, Order, OrderStatus, OrderSound, StatusesAgree, AnswerStands,
      DoneMeansInvoiced, NeverParked, FlagAwaitsInvoice, WindowAwaitsInvoice,
      InvoiceIsEarned, FieldsMatchReview, SentBackBySupplier, EscalationReached,
      ClockRunsOnlyReassigned, AwaitsInvoice, IsFlagged
<1>3. b \in SUBSET AlertType
  BY DEF Sound, RequestChangesAlerts, FlagAlerts, AlertType
<1>4. AlertsMatch(p, b)
  BY DEF Sound, RequestChanges, PauseWindow, ApplyFlag, NotOverdue, AwaitsReview, Live,
         RequestChangesAlerts, FlagAlerts, AlertsMatch, Closed, OrderSound,
         StatusesAgree, AnswerStands, IsFlagged
<1> QED
  BY <1>1, <1>2, <1>3, <1>4 DEF Sound

-----------------------------------------------------------------------------
(* The customer's handlers.                                                 *)

\* resubmit: the corrected mandate, whether or not a flag holds the clock.
LEMMA ResubmitKeeps ==
  ASSUME NEW o, NEW a, Sound(o, a), NEW due \in Deadlines, CanResubmit(o)
  PROVE  Sound(Resubmit(o, due), ResubmitAlerts(a))
<1> DEFINE p == Resubmit(o, due)
           b == ResubmitAlerts(a)
<1>1. p \in Order
  <2>1. [o EXCEPT !.bankReview = "submitted", !.fieldsFlagged = FALSE] \in Order
    BY DEF Sound, Order, BankReviewStatus
  <2> QED
    BY <2>1, HelpersKeepType DEF Sound, Resubmit
<1>2. OrderSound(p)
  BY DeadlineAssumption
  DEF Sound, Resubmit, RestartWindow, NotOverdue, CanResubmit, Live, Order, OrderStatus,
      OrderSound, StatusesAgree, AnswerStands, DoneMeansInvoiced, NeverParked,
      FlagAwaitsInvoice, WindowAwaitsInvoice, InvoiceIsEarned, FieldsMatchReview,
      SentBackBySupplier, EscalationReached, ClockRunsOnlyReassigned, AwaitsInvoice,
      IsFlagged
<1>3. b \in SUBSET AlertType
  BY DEF Sound, ResubmitAlerts, AlertType
<1>4. AlertsMatch(p, b)
  BY DEF Sound, Resubmit, RestartWindow, NotOverdue, ResubmitAlerts, AlertsMatch,
         IsFlagged
<1> QED
  BY <1>1, <1>2, <1>3, <1>4 DEF Sound

-----------------------------------------------------------------------------
(* The admin's handlers, and the sweep.                                     *)

\* markSent: the WhatsApp invoice delivered by hand.
LEMMA MarkSentKeeps ==
  ASSUME NEW o, NEW a, Sound(o, a), CanMarkSent(o)
  PROVE  Sound(MarkSent(o), MarkSentAlerts(a))
<1> DEFINE p == MarkSent(o)
           b == MarkSentAlerts(a)
<1>1. p \in Order
  BY DEF Sound, MarkSent, Order, OrderStatus, InvoiceStatus
<1>2. OrderSound(p)
  BY DEF Sound, MarkSent, CanMarkSent, OrderSound, StatusesAgree, AnswerStands,
         DoneMeansInvoiced, NeverParked, FlagAwaitsInvoice, WindowAwaitsInvoice,
         InvoiceIsEarned, FieldsMatchReview, SentBackBySupplier, EscalationReached,
         ClockRunsOnlyReassigned, AwaitsInvoice, IsFlagged
<1>3. b \in SUBSET AlertType
  BY DEF Sound, MarkSentAlerts, AlertType
<1>4. AlertsMatch(p, b)
  BY DEF Sound, MarkSent, CanMarkSent, MarkSentAlerts, AlertsMatch, OrderSound,
         StatusesAgree, AnswerStands, DoneMeansInvoiced, InvoiceIsEarned, IsFlagged
<1> QED
  BY <1>1, <1>2, <1>3, <1>4 DEF Sound

\* reassign: a new supplier and a new window, whoever had the order before.
LEMMA ReassignKeeps ==
  ASSUME NEW o, NEW a, Sound(o, a), NEW t \in Suppliers, NEW due \in Deadlines, CanReassign(o, t)
  PROVE  Sound(Reassign(o, t, due), ReassignAlerts(a))
<1> DEFINE p == Reassign(o, t, due)
           b == ReassignAlerts(a)
<1>1. p \in Order
  BY DEF Sound, Reassign, Order, Holder, OrderStatus
<1>2. OrderSound(p)
  BY SupplierAssumption, DeadlineAssumption
  DEF Sound, Reassign, CanReassign, Live, OrderSound, StatusesAgree, AnswerStands,
      DoneMeansInvoiced, NeverParked, FlagAwaitsInvoice, WindowAwaitsInvoice,
      InvoiceIsEarned, FieldsMatchReview, SentBackBySupplier, EscalationReached,
      ClockRunsOnlyReassigned, AwaitsInvoice, IsFlagged
<1>3. b \in SUBSET AlertType
  BY DEF Sound, ReassignAlerts, AlertType
<1>4. AlertsMatch(p, b)
  BY DEF Sound, Reassign, CanReassign, Live, ReassignAlerts, AlertsMatch, Closed,
         OrderSound, StatusesAgree, IsFlagged
<1> QED
  BY <1>1, <1>2, <1>3, <1>4 DEF Sound

\* sendBack: the flagged order returned, its window restarted or left to the customer.
LEMMA SendBackKeeps ==
  ASSUME NEW o, NEW a, Sound(o, a), NEW due \in Deadlines, CanAnswerFlag(o)
  PROVE  Sound(SendBack(o, due), SendBackAlerts(o, a))
<1> DEFINE p == SendBack(o, due)
           b == SendBackAlerts(o, a)
<1>1. p \in Order
  <2>1. [o EXCEPT !.flag = "sent_back"] \in Order
    BY DEF Sound, Order, FlagState
  <2> QED
    BY <2>1, HelpersKeepType DEF Sound, SendBack
<1>2. OrderSound(p)
  BY DeadlineAssumption
  DEF Sound, SendBack, SendBackRestarts, RestartWindow, NotOverdue, CanAnswerFlag,
      OrderSound, StatusesAgree, AnswerStands, DoneMeansInvoiced, NeverParked,
      FlagAwaitsInvoice, WindowAwaitsInvoice, InvoiceIsEarned, FieldsMatchReview,
      SentBackBySupplier, EscalationReached, ClockRunsOnlyReassigned, AwaitsInvoice,
      IsFlagged
<1>3. b \in SUBSET AlertType
  BY DEF Sound, SendBackAlerts, AlertType
<1>4. AlertsMatch(p, b)
  BY DEF Sound, SendBack, RestartWindow, NotOverdue, CanAnswerFlag, SendBackAlerts,
         AlertsMatch, Closed, IsFlagged
<1> QED
  BY <1>1, <1>2, <1>3, <1>4 DEF Sound

\* complete: the flagged order closed as done.
LEMMA CompleteKeeps ==
  ASSUME NEW o, NEW a, Sound(o, a), CanAnswerFlag(o)
  PROVE  Sound(Complete(o), {})
<1> DEFINE p == Complete(o)
           b == {}
<1>1. p \in Order
  BY SupplierAssumption, DeadlineAssumption
  DEF Sound, Complete, CanAnswerFlag, Live, IsFlagged, Order, Holder, OrderStatus,
      InvoiceStatus, BankReviewStatus, FlagState, V62State
<1>2. OrderSound(p)
  BY DEF Sound, Complete, CanAnswerFlag, OrderSound, StatusesAgree, AnswerStands,
         DoneMeansInvoiced, NeverParked, FlagAwaitsInvoice, WindowAwaitsInvoice,
         InvoiceIsEarned, FieldsMatchReview, SentBackBySupplier, EscalationReached,
         ClockRunsOnlyReassigned, AwaitsInvoice, IsFlagged
<1>3. b \in SUBSET AlertType
  OBVIOUS
<1>4. AlertsMatch(p, b)
  BY DEF Complete, AlertsMatch, Closed, IsFlagged
<1> QED
  BY <1>1, <1>2, <1>3, <1>4 DEF Sound

\* cancel: the flagged order called off.
LEMMA CancelKeeps ==
  ASSUME NEW o, NEW a, Sound(o, a), CanAnswerFlag(o)
  PROVE  Sound(Cancel(o), {})
<1> DEFINE p == Cancel(o)
           b == {}
<1>1. p \in Order
  BY DEF Sound, Cancel, Order, OrderStatus, FlagState
<1>2. OrderSound(p)
  BY DEF Sound, Cancel, CanAnswerFlag, OrderSound, StatusesAgree, AnswerStands,
         DoneMeansInvoiced, NeverParked, FlagAwaitsInvoice, WindowAwaitsInvoice,
         InvoiceIsEarned, FieldsMatchReview, SentBackBySupplier, EscalationReached,
         ClockRunsOnlyReassigned, AwaitsInvoice, IsFlagged
<1>3. b \in SUBSET AlertType
  OBVIOUS
<1>4. AlertsMatch(p, b)
  BY DEF Cancel, AlertsMatch, Closed, IsFlagged
<1> QED
  BY <1>1, <1>2, <1>3, <1>4 DEF Sound

\* markV62Printed: on any order that asked for the form, closed ones included.
LEMMA MarkV62PrintedKeeps ==
  ASSUME NEW o, NEW a, Sound(o, a), CanMarkV62Printed(o)
  PROVE  Sound(MarkV62Printed(o), MarkV62PrintedAlerts(a))
<1> DEFINE p == MarkV62Printed(o)
           b == MarkV62PrintedAlerts(a)
<1>1. p \in Order
  BY DEF Sound, MarkV62Printed, Order, V62State
<1>2. OrderSound(p)
  BY DEF Sound, MarkV62Printed, OrderSound, StatusesAgree, AnswerStands,
         DoneMeansInvoiced, NeverParked, FlagAwaitsInvoice, WindowAwaitsInvoice,
         InvoiceIsEarned, FieldsMatchReview, SentBackBySupplier, EscalationReached,
         ClockRunsOnlyReassigned, AwaitsInvoice, IsFlagged
<1>3. b \in SUBSET AlertType
  BY DEF Sound, MarkV62PrintedAlerts, AlertType
<1>4. AlertsMatch(p, b)
  BY DEF Sound, MarkV62Printed, MarkV62PrintedAlerts, AlertsMatch, Closed, IsFlagged
<1> QED
  BY <1>1, <1>2, <1>3, <1>4 DEF Sound

\* sweepOverdue: an order its query matched, while it still matches.
LEMMA MarkOverdueKeeps ==
  ASSUME NEW o, NEW a, Sound(o, a), SweepMatches(o)
  PROVE  Sound(MarkOverdue(o), OverdueAlerts(a))
<1> DEFINE p == MarkOverdue(o)
           b == OverdueAlerts(a)
<1>1. p \in Order
  BY DEF Sound, MarkOverdue, Order, OrderStatus
<1>2. OrderSound(p)
  BY DEF Sound, MarkOverdue, SweepMatches, OrderSound, StatusesAgree, AnswerStands,
         DoneMeansInvoiced, NeverParked, FlagAwaitsInvoice, WindowAwaitsInvoice,
         InvoiceIsEarned, FieldsMatchReview, SentBackBySupplier, EscalationReached,
         ClockRunsOnlyReassigned, AwaitsInvoice, IsFlagged
<1>3. b \in SUBSET AlertType
  BY DEF Sound, OverdueAlerts, AlertType
<1>4. AlertsMatch(p, b)
  BY DEF Sound, MarkOverdue, SweepMatches, OverdueAlerts, AlertsMatch, Closed, IsFlagged
<1> QED
  BY <1>1, <1>2, <1>3, <1>4 DEF Sound

\* The passing of a window: one deadline value for another.
LEMMA LapseOrRestartKeeps ==
  ASSUME NEW o, NEW a, Sound(o, a), NEW due \in Deadlines, o.dueAt # NoDeadline
  PROVE  Sound([o EXCEPT !.dueAt = due], a)
<1> DEFINE p == [o EXCEPT !.dueAt = due]
           b == a
<1>1. p \in Order
  BY DEF Sound, Order
<1>2. OrderSound(p)
  BY DeadlineAssumption
  DEF Sound, OrderSound, StatusesAgree, AnswerStands, DoneMeansInvoiced, NeverParked,
      FlagAwaitsInvoice, WindowAwaitsInvoice, InvoiceIsEarned, FieldsMatchReview,
      SentBackBySupplier, EscalationReached, ClockRunsOnlyReassigned, AwaitsInvoice,
      IsFlagged
<1>3. b \in SUBSET AlertType
  BY DEF Sound
<1>4. AlertsMatch(p, b)
  BY DEF Sound, AlertsMatch, Closed, IsFlagged
<1> QED
  BY <1>1, <1>2, <1>3, <1>4 DEF Sound

\* emailInvoice: the outcome written down, whatever became of the order.
LEMMA RecordEmailKeeps ==
  ASSUME NEW o, NEW a, Sound(o, a), NEW outcome \in {"sent", "failed"}
  PROVE  Sound([o EXCEPT !.invoiceEmail = outcome], a)
<1> DEFINE p == [o EXCEPT !.invoiceEmail = outcome]
           b == a
<1>1. p \in Order
  BY DEF Sound, Order
<1>2. OrderSound(p)
  BY DEF Sound, OrderSound, StatusesAgree, AnswerStands, DoneMeansInvoiced, NeverParked,
         FlagAwaitsInvoice, WindowAwaitsInvoice, InvoiceIsEarned, FieldsMatchReview,
         SentBackBySupplier, EscalationReached, ClockRunsOnlyReassigned, AwaitsInvoice,
         IsFlagged
<1>3. b \in SUBSET AlertType
  BY DEF Sound
<1>4. AlertsMatch(p, b)
  BY DEF Sound, AlertsMatch, Closed, IsFlagged
<1> QED
  BY <1>1, <1>2, <1>3, <1>4 DEF Sound

-----------------------------------------------------------------------------
(* placeOrder.                                                             *)

\* A new order is sound with the alerts raised for it, routed or not.
LEMMA NewOrderSound ==
  ASSUME NEW h \in Holder, NEW channel \in CommunicationMethod,
         NEW review \in {"none", "submitted"}, NEW v62 \in {"none", "requested"},
         NEW due \in Deadlines
  PROVE  LET o == NewOrder(h, channel, review, v62, due) IN Sound(o, PlacedAlerts(o))
<1> DEFINE p == NewOrder(h, channel, review, v62, due)
           b == PlacedAlerts(p)
<1>1. p \in Order
  BY RoundsAssumption
  DEF NewOrder, Order, Holder, OrderStatus, InvoiceStatus, BankReviewStatus, FlagState,
      V62State, RoundCap
<1>2. OrderSound(p)
  BY DeadlineAssumption, RoundsAssumption
  DEF NewOrder, OrderSound, StatusesAgree, AnswerStands, DoneMeansInvoiced, NeverParked,
      FlagAwaitsInvoice, WindowAwaitsInvoice, InvoiceIsEarned, FieldsMatchReview,
      SentBackBySupplier, EscalationReached, ClockRunsOnlyReassigned, AwaitsInvoice,
      IsFlagged
<1>3. b \in SUBSET AlertType
  BY DEF PlacedAlerts, AlertType
<1>4. AlertsMatch(p, b)
  BY DEF NewOrder, PlacedAlerts, AlertsMatch, IsFlagged
<1> QED
  BY <1>1, <1>2, <1>3, <1>4 DEF Sound

-----------------------------------------------------------------------------
(* The collection.                                                         *)

\* The invariant one order at a time, which is how the actions keep it.
Kept(id) ==
  IF Placed(id) THEN Sound(orders[id], alerts[id]) ELSE alerts[id] = {}

\* Inv, regrouped: the parts are stated property by property, Kept order by order.
LEMMA InvByOrder ==
  Inv <=> TypeOK /\ \A id \in OrderIds : Kept(id)
<1>1. ASSUME TypeOK
      PROVE  \A id \in OrderIds : Placed(id) =>
               orders[id] \in Order /\ alerts[id] \in SUBSET AlertType
  BY <1>1 DEF TypeOK, Placed
<1> QED
  BY <1>1
  DEF Inv, Kept, Sound, OrderSound, OrdersConsistent, NoOrderParked,
      FlagsAndWindowsAwaitInvoice, InvoicesAreEarned, ReviewLoopSound,
      ClockStoppedUnlessReassigned, AlertsTrackOrders

\* The same of the next state.
LEMMA InvByOrderNext ==
  TypeOK' /\ (\A id \in OrderIds : Kept(id)') => Inv'
<1>1. (TypeOK /\ \A id \in OrderIds : Kept(id)) => Inv
  BY InvByOrder
<1>2. (TypeOK /\ \A id \in OrderIds : Kept(id))' => Inv'
  BY <1>1, PTL
<1> QED
  BY <1>2

\* A placed order is sound, and so are "running" and "lapsed" deadlines.
LEMMA PlacedIsSound ==
  ASSUME Inv, NEW id \in OrderIds, Placed(id)
  PROVE  /\ Sound(orders[id], alerts[id])
         /\ "running" \in Deadlines /\ "lapsed" \in Deadlines
  BY InvByOrder, PhaseAssumption DEF Kept

\* A handler of one order starts no email of another.
EmailsOfOthersKept(id) ==
  /\ mailing' \in [OrderIds -> SUBSET {"upload", "resend"}]
  /\ \A i \in OrderIds \ {id} : mailing'[i] = mailing[i]

\* Storing a sound order keeps the invariant.
LEMMA StoreKeeps ==
  ASSUME Inv, NEW id \in OrderIds, NEW o, NEW a, Sound(o, a), Store(id, o, a),
         EmailsOfOthersKept(id)
  PROVE  Inv'
<1>1. o # Absent
  BY AbsentAssumption DEF Sound
<1>2. TypeOK /\ \A i \in OrderIds : Kept(i)
  BY InvByOrder
<1>3. orders' \in [OrderIds -> Order \union {Absent}] /\ alerts' \in [OrderIds -> SUBSET AlertType]
  BY <1>2 DEF Store, Sound, TypeOK
<1>4. \A i \in OrderIds : mailing'[i] # {} => orders'[i] # Absent
  BY <1>1, <1>2 DEF Store, TypeOK, Placed, EmailsOfOthersKept
<1>5. \A i \in OrderIds : Kept(i)'
  <2> SUFFICES ASSUME NEW i \in OrderIds PROVE Kept(i)'
    OBVIOUS
  <2>1. CASE i = id
    BY <1>1, <1>2, <2>1 DEF Store, Kept, Placed, TypeOK
  <2>2. CASE i # id
    BY <1>2, <2>2 DEF Store, Kept, Placed, TypeOK
  <2> QED
    BY <2>1, <2>2
<1>6. TypeOK'
  BY <1>3, <1>4 DEF TypeOK, Placed, EmailsOfOthersKept
<1> QED
  BY <1>5, <1>6, InvByOrderNext

\* What an action that leaves the emails alone knows of them afterwards.
LEMMA MailingKept ==
  ASSUME Inv, UNCHANGED mailing
  PROVE  \A id \in OrderIds : EmailsOfOthersKept(id)
  BY DEF Inv, TypeOK, EmailsOfOthersKept

-----------------------------------------------------------------------------
(* One lemma for the actions of people on one order, one for the server's.  *)

\* Every handler a customer, a supplier or an admin calls keeps the invariant.
LEMMA HandlersKeepInv ==
  ASSUME Inv, NEW id \in OrderIds,
         \/ PlaceOrder(id)    \/ ResubmitBank(id)
         \/ UploadInvoice(id) \/ FlagOrder(id)     \/ ApproveBank(id) \/ RequestBankChanges(id)
         \/ SendWhatsapp(id)  \/ ReassignOrder(id) \/ SendOrderBack(id)
         \/ CompleteOrder(id) \/ CancelOrder(id)   \/ PrintV62(id)    \/ ResendInvoice(id)
  PROVE  Inv'
<1>1. CASE PlaceOrder(id)
  <2>1. PICK h \in Holder, channel \in CommunicationMethod, review \in {"none", "submitted"},
             v62 \in {"none", "requested"} :
          LET o == NewOrder(h, channel, review, v62, "running")
          IN  Store(id, o, PlacedAlerts(o))
    BY <1>1 DEF PlaceOrder
  <2> DEFINE o == NewOrder(h, channel, review, v62, "running")
  <2>2. Sound(o, PlacedAlerts(o))
    BY NewOrderSound, PhaseAssumption
  <2> QED
    BY <1>1, <2>1, <2>2, StoreKeeps, MailingKept DEF PlaceOrder
<1>2. CASE ResubmitBank(id)
  <2>1. Sound(Resubmit(orders[id], "running"),
              ResubmitAlerts(alerts[id]))
    BY <1>2, PlacedIsSound, ResubmitKeeps DEF ResubmitBank
  <2> QED
    BY <1>2, <2>1, StoreKeeps, MailingKept DEF ResubmitBank
<1>3. CASE UploadInvoice(id)
  <2>1. Sound(AttachInvoice(orders[id]),
              AttachInvoiceAlerts(orders[id], alerts[id]))
    BY <1>3, PlacedIsSound, AttachInvoiceKeeps DEF UploadInvoice, Held
  <2>2. EmailsOfOthersKept(id)
    BY <1>3 DEF UploadInvoice, Inv, TypeOK, EmailsOfOthersKept
  <2> QED
    BY <1>3, <2>1, <2>2, StoreKeeps DEF UploadInvoice
<1>4. CASE FlagOrder(id)
  <2>1. Sound(ApplyFlag(orders[id]),
              FlagAlerts(alerts[id]))
    BY <1>4, PlacedIsSound, ApplyFlagKeeps DEF FlagOrder, Held
  <2> QED
    BY <1>4, <2>1, StoreKeeps, MailingKept DEF FlagOrder
<1>5. CASE ApproveBank(id)
  <2>1. Sound(Approve(orders[id], "running"),
              ApproveAlerts(alerts[id]))
    BY <1>5, PlacedIsSound, ApproveKeeps DEF ApproveBank, Held
  <2> QED
    BY <1>5, <2>1, StoreKeeps, MailingKept DEF ApproveBank
<1>6. CASE RequestBankChanges(id)
  <2>1. Sound(RequestChanges(orders[id]),
              RequestChangesAlerts(orders[id], alerts[id]))
    BY <1>6, PlacedIsSound, RequestChangesKeeps DEF RequestBankChanges, Held
  <2> QED
    BY <1>6, <2>1, StoreKeeps, MailingKept DEF RequestBankChanges
<1>7. CASE SendWhatsapp(id)
  <2>1. Sound(MarkSent(orders[id]),
              MarkSentAlerts(alerts[id]))
    BY <1>7, PlacedIsSound, MarkSentKeeps DEF SendWhatsapp
  <2> QED
    BY <1>7, <2>1, StoreKeeps, MailingKept DEF SendWhatsapp
<1>8. CASE ReassignOrder(id)
  <2>1. PICK target \in Suppliers :
          /\ CanReassign(orders[id], target)
          /\ Store(id, Reassign(orders[id], target, "running"), ReassignAlerts(alerts[id]))
    BY <1>8 DEF ReassignOrder
  <2>2. Sound(Reassign(orders[id], target, "running"), ReassignAlerts(alerts[id]))
    BY <1>8, <2>1, PlacedIsSound, ReassignKeeps DEF ReassignOrder
  <2> QED
    BY <1>8, <2>1, <2>2, StoreKeeps, MailingKept DEF ReassignOrder
<1>9. CASE SendOrderBack(id)
  <2>1. Sound(SendBack(orders[id], "running"),
              SendBackAlerts(orders[id], alerts[id]))
    BY <1>9, PlacedIsSound, SendBackKeeps DEF SendOrderBack
  <2> QED
    BY <1>9, <2>1, StoreKeeps, MailingKept DEF SendOrderBack
<1>10. CASE CompleteOrder(id)
  <2>1. Sound(Complete(orders[id]),
              {})
    BY <1>10, PlacedIsSound, CompleteKeeps DEF CompleteOrder
  <2> QED
    BY <1>10, <2>1, StoreKeeps, MailingKept DEF CompleteOrder
<1>11. CASE CancelOrder(id)
  <2>1. Sound(Cancel(orders[id]),
              {})
    BY <1>11, PlacedIsSound, CancelKeeps DEF CancelOrder
  <2> QED
    BY <1>11, <2>1, StoreKeeps, MailingKept DEF CancelOrder
<1>12. CASE PrintV62(id)
  <2>1. Sound(MarkV62Printed(orders[id]),
              MarkV62PrintedAlerts(alerts[id]))
    BY <1>12, PlacedIsSound, MarkV62PrintedKeeps DEF PrintV62
  <2> QED
    BY <1>12, <2>1, StoreKeeps, MailingKept DEF PrintV62
<1>13. CASE ResendInvoice(id)
  <2>1. TypeOK'
    BY <1>13 DEF ResendInvoice, Inv, TypeOK, Placed
  <2>2. \A i \in OrderIds : Kept(i)'
    BY <1>13, InvByOrder DEF ResendInvoice, Kept, Placed
  <2> QED
    BY <2>1, <2>2, InvByOrderNext
<1> QED
  BY <1>1, <1>2, <1>3, <1>4, <1>5, <1>6, <1>7, <1>8, <1>9, <1>10, <1>11, <1>12, <1>13

\* What the server does on its own keeps the invariant: the outcome of an email, or its
\* loss, the passing of a window, and the sweep over every order that is due.
LEMMA ServerKeepsInv ==
  ASSUME Inv,
         SweepOverdue
           \/ \E id \in OrderIds : RecordEmail(id) \/ LoseRecord(id) \/ WindowLapses(id)
  PROVE  Inv'
<1>0. TypeOK /\ \A i \in OrderIds : Kept(i)
  BY InvByOrder
<1>1. ASSUME NEW id \in OrderIds, RecordEmail(id)
      PROVE  Inv'
  <2>1. PICK call \in mailing[id], outcome \in {"sent", "failed"} :
          /\ orders'  = [orders EXCEPT ![id].invoiceEmail = outcome]
          /\ mailing' = [mailing EXCEPT ![id] = @ \ {call}]
          /\ UNCHANGED alerts
    BY <1>1 DEF RecordEmail
  <2> DEFINE o == [orders[id] EXCEPT !.invoiceEmail = outcome]
  <2>2. Placed(id)
    BY <1>0, <2>1 DEF TypeOK
  <2>3. Sound(o, alerts[id])
    BY <2>2, PlacedIsSound, RecordEmailKeeps
  <2>4. Store(id, o, alerts[id])
    BY <1>0, <2>1 DEF Store, TypeOK
  <2>5. EmailsOfOthersKept(id)
    BY <1>0, <2>1 DEF TypeOK, EmailsOfOthersKept
  <2> QED
    BY <2>3, <2>4, <2>5, StoreKeeps
<1>2. ASSUME NEW id \in OrderIds, WindowLapses(id)
      PROVE  Inv'
  <2> DEFINE o == [orders[id] EXCEPT !.dueAt = "lapsed"]
  <2>1. Sound(o, alerts[id])
    BY <1>2, PlacedIsSound, LapseOrRestartKeeps, DeadlineAssumption DEF WindowLapses
  <2>2. Store(id, o, alerts[id])
    BY <1>0, <1>2 DEF WindowLapses, Store, TypeOK
  <2> QED
    BY <1>2, <2>1, <2>2, StoreKeeps, MailingKept DEF WindowLapses
<1>3. ASSUME NEW id \in OrderIds, LoseRecord(id)
      PROVE  Inv'
  <2>1. PICK call \in mailing[id] :
          mailing' = [mailing EXCEPT ![id] = @ \ {call}] /\ UNCHANGED <<orders, alerts>>
    BY <1>3 DEF LoseRecord
  <2>2. TypeOK'
    BY <1>0, <2>1 DEF TypeOK, Placed
  <2>3. \A i \in OrderIds : Kept(i)'
    BY <1>0, <2>1 DEF Kept, Placed
  <2> QED
    BY <2>2, <2>3, InvByOrderNext
<1>4. ASSUME SweepOverdue
      PROVE  Inv'
  <2>1. ASSUME NEW id \in OrderIds, Due(id)
        PROVE  Sound(MarkOverdue(orders[id]), OverdueAlerts(alerts[id]))
    BY <2>1, PlacedIsSound, MarkOverdueKeeps DEF Due
  <2>2. \A id \in OrderIds : Due(id) =>
          /\ MarkOverdue(orders[id]) \in Order /\ MarkOverdue(orders[id]) # Absent
          /\ OverdueAlerts(alerts[id]) \in SUBSET AlertType
    BY <2>1, AbsentAssumption DEF Sound
  <2>3. TypeOK'
    BY <1>0, <1>4, <2>2 DEF SweepOverdue, TypeOK, Placed
  <2>4. \A id \in OrderIds : Kept(id)'
    <3> SUFFICES ASSUME NEW id \in OrderIds PROVE Kept(id)'
      OBVIOUS
    <3>1. CASE Due(id)
      BY <1>4, <2>1, <2>2, <3>1 DEF SweepOverdue, Kept, Placed
    <3>2. CASE ~Due(id)
      BY <1>0, <1>4, <3>2 DEF SweepOverdue, Kept, Placed
    <3> QED
      BY <3>1, <3>2
  <2> QED
    BY <2>3, <2>4, InvByOrderNext
<1> QED
  BY <1>1, <1>2, <1>3, <1>4

\* Every state of every behaviour satisfies the invariant.
THEOREM InvHolds == Spec => []Inv
<1>1. Init => Inv
  BY InvByOrder DEF Init, TypeOK, Kept, Placed
<1>2. Inv /\ [Next]_vars => Inv'
  <2> SUFFICES ASSUME Inv, [Next]_vars
               PROVE  Inv'
    OBVIOUS
  <2>1. CASE UNCHANGED vars
    <3>1. TypeOK'
      BY <2>1 DEF vars, Inv, TypeOK, Placed
    <3>2. \A id \in OrderIds : Kept(id)'
      BY <2>1, InvByOrder DEF vars, Kept, Placed
    <3> QED
      BY <3>1, <3>2, InvByOrderNext
  <2>2. CASE Next
    BY <2>2, HandlersKeepInv, ServerKeepsInv DEF Next, Handled
  <2> QED
    BY <2>1, <2>2
<1> QED
  BY <1>1, <1>2, PTL DEF Spec

\* The documents and alerts stay well formed, and no email is under way for an order
\* that was never placed.
THEOREM TypeHolds == Spec => []TypeOK
  BY InvHolds, PTL DEF Inv

\* status, invoiceStatus, supplier, flag and communicationMethod, which nine handlers
\* write by hand, never contradict one another.
THEOREM ConsistentHolds == Spec => []OrdersConsistent
  BY InvHolds, PTL DEF Inv

\* However an order got there, while it waits for its invoice it has a window, a flag or
\* a mandate to correct: no sequence of handlers parks it where nothing brings it up.
THEOREM NothingParked == Spec => []NoOrderParked
  BY InvHolds, PTL DEF Inv

\* "flagged" means still waiting for an invoice, and so does a window.
THEOREM FlagsAndWindowsHold == Spec => []FlagsAndWindowsAwaitInvoice
  BY InvHolds, PTL DEF Inv

\* No upload, reassignment or review leaves an invoice on an unsigned mandate, or one
\* raised by another supplier than the holder.
THEOREM InvoicesAreEarnedHolds == Spec => []InvoicesAreEarned
  BY InvHolds, PTL DEF Inv

\* For any BANK_ROUNDS_BEFORE_FLAG: a loop past it was shown to an admin, a mandate with
\* the customer names what to fix, and only an order with a supplier is sent back.
THEOREM ReviewLoopHolds == Spec => []ReviewLoopSound
  BY InvHolds, PTL DEF Inv

\* Where a clock runs on a flagged order or on the customer's turn, the order was
\* reassigned: pauseWindow has no other way round it.
THEOREM ClockHolds == Spec => []ClockStoppedUnlessReassigned
  BY InvHolds, PTL DEF Inv

\* What anybody has to act on is on a list, and each list but the overdue one is current.
THEOREM AlertsHold == Spec => []AlertsTrackOrders
  BY InvHolds, PTL DEF Inv

-----------------------------------------------------------------------------
(* Closed orders.                                                          *)

\* Every guard but the V62's refuses a closed order, and no window runs on it.
LEMMA ClosedIsShut ==
  ASSUME NEW o, NEW a, Sound(o, a), Closed(o)
  PROVE  /\ ~CanAttachInvoice(o) /\ ~CanFlag(o) /\ ~AwaitsReview(o) /\ ~CanResubmit(o)
         /\ ~CanMarkSent(o) /\ ~CanAnswerFlag(o) /\ ~SweepMatches(o)
         /\ \A target \in Suppliers : ~CanReassign(o, target)
         /\ o.dueAt = NoDeadline
  BY DEF Sound, OrderSound, Closed, StatusesAgree, FlagAwaitsInvoice, WindowAwaitsInvoice,
         AwaitsInvoice, CanAttachInvoice, CanFlag, AwaitsReview, CanResubmit, CanMarkSent,
         CanAnswerFlag, CanReassign, SweepMatches, IsFlagged, Live

\* p is o but for its V62 and the outcome of its email.
OnlyPaperwork(o, p) == p = [o EXCEPT !.v62 = p.v62, !.invoiceEmail = p.invoiceEmail]

\* Leaving an order alone, printing its V62 and recording an email are paperwork.
LEMMA Paperwork ==
  ASSUME NEW o \in Order
  PROVE  /\ OnlyPaperwork(o, o)
         /\ OnlyPaperwork(o, MarkV62Printed(o))
         /\ \A outcome : OnlyPaperwork(o, [o EXCEPT !.invoiceEmail = outcome])
<1>1. OnlyPaperwork(o, o)
  BY DEF OnlyPaperwork, Order
<1>2. OnlyPaperwork(o, MarkV62Printed(o))
  BY DEF OnlyPaperwork, MarkV62Printed, Order
<1>3. ASSUME NEW outcome
      PROVE  OnlyPaperwork(o, [o EXCEPT !.invoiceEmail = outcome])
  BY DEF OnlyPaperwork, Order
<1> QED
  BY <1>1, <1>2, <1>3

\* invoice_sent and cancelled are terminal: no handler, sweep or lapse moves a closed
\* order, whatever the requests made on it.
THEOREM ClosedStaysClosed == Spec => ClosedIsTerminal
<1>1. Inv /\ [Next]_vars =>
        [\A id \in OrderIds : Placed(id) /\ Closed(orders[id]) =>
           OnlyPaperwork(orders[id], orders'[id])]_orders
  <2> SUFFICES ASSUME Inv, Next, NEW id \in OrderIds, Placed(id), Closed(orders[id])
               PROVE  OnlyPaperwork(orders[id], orders'[id])
    BY DEF vars
  <2>1. /\ Sound(orders[id], alerts[id])
        /\ orders[id] \in Order
        /\ orders \in [OrderIds -> Order \union {Absent}]
    BY PlacedIsSound DEF Sound, Inv, TypeOK
  <2>2. CASE orders'[id] = orders[id]
    BY <2>1, <2>2, Paperwork
  <2>3. CASE PrintV62(id)
    BY <2>1, <2>3, Paperwork DEF PrintV62, Store
  <2>4. CASE RecordEmail(id)
    BY <2>1, <2>4, Paperwork DEF RecordEmail
  <2>5. CASE SweepOverdue
    BY <2>1, <2>5, <2>2, ClosedIsShut DEF SweepOverdue, Due
  <2>6. ASSUME NEW i \in OrderIds,
               \/ PlaceOrder(i)    \/ ResubmitBank(i)
               \/ UploadInvoice(i) \/ FlagOrder(i)     \/ ApproveBank(i) \/ RequestBankChanges(i)
               \/ SendWhatsapp(i)  \/ ReassignOrder(i) \/ SendOrderBack(i)
               \/ CompleteOrder(i) \/ CancelOrder(i)   \/ ResendInvoice(i)
               \/ WindowLapses(i)
        PROVE  orders'[id] = orders[id]
    <3>1. CASE i = id
      <4>1. ~WindowLapses(id)
        BY <2>1, ClosedIsShut, DeadlineAssumption, PhaseAssumption DEF WindowLapses
      <4>2. ~PlaceOrder(id)
        BY DEF PlaceOrder
      <4>3. CASE ResendInvoice(id)
        BY <4>3 DEF ResendInvoice
      <4> QED
        BY <2>1, <2>6, <3>1, <4>1, <4>2, <4>3, ClosedIsShut
        DEF ResubmitBank, UploadInvoice, FlagOrder, ApproveBank, RequestBankChanges,
            SendWhatsapp, ReassignOrder, SendOrderBack, CompleteOrder, CancelOrder
    <3>2. CASE i # id
      BY <2>1, <2>6, <3>2
      DEF PlaceOrder, ResubmitBank, UploadInvoice, FlagOrder, ApproveBank,
          RequestBankChanges, SendWhatsapp, ReassignOrder, SendOrderBack, CompleteOrder,
          CancelOrder, ResendInvoice, WindowLapses, Store
    <3> QED
      BY <3>1, <3>2
  <2>7. ASSUME NEW i \in OrderIds, i # id, PrintV62(i) \/ RecordEmail(i)
        PROVE  orders'[id] = orders[id]
    BY <2>1, <2>7 DEF PrintV62, RecordEmail, Store
  <2>8. ASSUME NEW i \in OrderIds, LoseRecord(i)
        PROVE  orders'[id] = orders[id]
    BY <2>8 DEF LoseRecord
  <2> QED
    BY <2>2, <2>3, <2>4, <2>5, <2>6, <2>7, <2>8 DEF Next, Handled
<1> QED
  BY <1>1, InvHolds, PTL DEF Spec, ClosedIsTerminal, OnlyPaperwork
=============================================================================
