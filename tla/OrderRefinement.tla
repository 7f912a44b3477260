---------------------------- MODULE OrderRefinement ----------------------------
(***************************************************************************)
(* While nothing overlaps, the steps of a request add up to the one step    *)
(* OrderLifecycle takes for it.  A request takes effect when it is saved:   *)
(* from then on the alerts it still owes are counted as settled, and its    *)
(* email as on its way.  The sweep takes effect when it marks the order.    *)
(***************************************************************************)
EXTENDS OrderRequests

\* A call raises or resolves one alert, or clears them all.
About(call, t) == call.do = "clear" \/ (call.do \in {"raise", "resolve"} /\ call.of = t)

\* What the calls come to, each alert as the last call about it leaves it.
Settled(a, calls) ==
  {t \in AlertType :
     LET about == {i \in DOMAIN calls : About(calls[i], t)}
     IN  IF about = {} THEN t \in a
         ELSE \E i \in about : calls[i].do = "raise" /\ \A j \in about : j <= i}

Owed == {w \in Workers : stage[w] = "after"}

SettledAlerts ==
  LET swept == IF sweep.stage = "marked" THEN OverdueAlerts(alerts) ELSE alerts
  IN  IF Owed = {} THEN swept ELSE Settled(swept, todo[CHOOSE w \in Owed : TRUE])

\* A deadline is only ever ahead or behind.
PhaseAt(o, last) ==
  [o EXCEPT !.dueAt = IF @ = NoDeadline THEN "no_window"
                      ELSE IF @ <= last THEN "lapsed" ELSE "running"]

EmailsOwed ==
  {cause \in {"upload", "resend"} :
     \E w \in Owed : \E i \in DOMAIN todo[w] : todo[w][i] = Email(cause)}

OneStep ==
  INSTANCE OrderLifecycle
    WITH OrderIds   <- {"the_order"},
         Deadlines  <- {"running", "lapsed"},
         NoDeadline <- "no_window",
         orders     <- [id \in {"the_order"} |->
                          IF order = Absent THEN Absent ELSE PhaseAt(order, lapsed)],
         alerts     <- [id \in {"the_order"} |-> SettledAlerts],
         mailing    <- [id \in {"the_order"} |-> EmailsOwed]

ASSUME PhasedAssumption == Absent \notin OneStep!Order

\* Run one at a time, the requests implement the one-step lifecycle.
ImplementsLifecycle == OneStep!Spec
=============================================================================
