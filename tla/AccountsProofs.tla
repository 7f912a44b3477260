---------------------------- MODULE AccountsProofs ----------------------------
(***************************************************************************)
(* For any accounts, addresses, phones and any number of requests at once:   *)
(* one good token per sign-in, one account per address, a free order per     *)
(* invitee, an admin's password marked, a phone handed over.                *)
(***************************************************************************)
EXTENDS Accounts, FiniteSetTheorems, TLAPS

\* A request's record is told by its kind and stage.
LEMMA Kinds ==
  /\ \A r \in Creating : /\ r.kind = "create" /\ r.stage = "create" /\ r.email \in Emails
                         /\ r.role \in Roles /\ r.inviter \in Ids \union {None}
  /\ \A r \in Granting : /\ r.kind = "create" /\ r.stage = "grant" /\ r.email \in Emails
                         /\ r.user \in Ids /\ r.inviter \in Ids \union {None}
  /\ \A r \in Updating : /\ r.kind = "profile" /\ r.user \in Ids /\ r.email \in Emails
  /\ \A r \in Signing : /\ r.kind = "issue" /\ r.stage = "issue" /\ r.user \in Ids
                        /\ r.signIn \in Nat /\ r.since \in Nat
  /\ \A r \in Changing : r.kind = "change" /\ r.user \in Ids /\ r.mustChange \in BOOLEAN
  /\ \A r \in Resetting : /\ r.kind = "reset" /\ r.stage = "save" /\ r.user \in Ids
                          /\ r.mustChange \in BOOLEAN
  /\ \A r \in Registering : /\ r.kind = "device" /\ r.stage = "push" /\ r.user \in Ids
                            /\ r.phone \in Phones /\ r.alone \in BOOLEAN
  /\ Idle.kind = "idle"
<1>1. \A r \in Creating : /\ r.kind = "create" /\ r.stage = "create" /\ r.email \in Emails
                         /\ r.role \in Roles /\ r.inviter \in Ids \union {None}
  BY DEF Creating
<1>2. \A r \in Granting : /\ r.kind = "create" /\ r.stage = "grant" /\ r.email \in Emails
                         /\ r.user \in Ids /\ r.inviter \in Ids \union {None}
  BY DEF Granting
<1>3. \A r \in Updating : /\ r.kind = "profile" /\ r.user \in Ids /\ r.email \in Emails
  BY DEF Updating
<1>4. \A r \in Signing : /\ r.kind = "issue" /\ r.stage = "issue" /\ r.user \in Ids
                        /\ r.signIn \in Nat /\ r.since \in Nat
  BY DEF Signing
<1>5. \A r \in Changing : r.kind = "change" /\ r.user \in Ids /\ r.mustChange \in BOOLEAN
  BY DEF Changing
<1>6. \A r \in Resetting : /\ r.kind = "reset" /\ r.stage = "save" /\ r.user \in Ids
                          /\ r.mustChange \in BOOLEAN
  BY DEF Resetting
<1>7. \A r \in Registering : /\ r.kind = "device" /\ r.stage = "push" /\ r.user \in Ids
                            /\ r.phone \in Phones /\ r.alone \in BOOLEAN
  BY DEF Registering
<1> QED
  BY <1>1, <1>2, <1>3, <1>4, <1>5, <1>6, <1>7 DEF Idle

LEMMA ByKind ==
  ASSUME NEW r \in Requests
  PROVE  /\ r.kind = "create" /\ r.stage = "create" => r \in Creating
         /\ r.kind = "create" /\ r.stage = "grant" => r \in Granting
         /\ r.kind = "profile" => r \in Updating
         /\ r.kind = "issue" => r \in Signing
         /\ r.kind = "change" => r \in Changing
         /\ r.kind = "reset" => r \in Resetting
         /\ r.kind = "device" => r \in Registering
BY Kinds DEF Requests

LEMMA Stages ==
  ASSUME TypeOK, NEW c \in Callers
  PROVE  /\ At(c, "create", "create") => request[c] \in Creating
         /\ At(c, "create", "grant") => request[c] \in Granting
         /\ request[c].kind = "profile" => request[c] \in Updating
         /\ request[c].kind = "issue" => request[c] \in Signing
         /\ request[c].kind = "change" => request[c] \in Changing
         /\ request[c].kind = "reset" => request[c] \in Resetting
         /\ request[c].kind = "device" => request[c] \in Registering
<1>1. request[c] \in Requests
  BY DEF TypeOK
<1> QED
  BY <1>1, ByKind DEF At

LEMMA ExistingType ==
  ASSUME TypeOK
  PROVE  /\ Existing \subseteq Ids
         /\ \A a \in Existing : account[a] \in Accounts
         /\ \A a \in Ids \ Existing : account[a] = NoAccount
<1>1. \A r \in Accounts : r.exists
  BY DEF Accounts
<1>2. ~NoAccount.exists
  BY DEF NoAccount
<1> QED
  BY <1>1, <1>2 DEF TypeOK, Existing

LEMMA NewAccount ==
  ASSUME NEW e \in Emails, NEW r \in Roles, NEW i \in Ids \union {None}
  PROVE  Account(e, r, i) \in Accounts
BY DEF Account, Accounts, Roles

\* What writing one account or one request changes.
LEMMA Writes ==
  ASSUME TypeOK
  PROVE  /\ \A a \in Ids, r \in Accounts : Sets(a, r) =>
              account' \in [Ids -> Accounts \union {NoAccount}]
         /\ \A c \in Callers, r \in Requests : Becomes(c, r) =>
              request' \in [Callers -> Requests]
BY DEF TypeOK, Sets, Becomes

LEMMA SignOutType ==
  ASSUME TypeOK, NEW a \in Ids, SignOut(a)
  PROVE  live' \subseteq live /\ signOuts' \in [Ids -> Nat]
BY DEF TypeOK, SignOut

LEMMA InitType == Init => TypeOK
<1> SUFFICES ASSUME Init
             PROVE  TypeOK
  OBVIOUS
<1>1. PICK a \in Ids, e \in Emails, b \in Ids \union {None}, f \in Emails :
        /\ b # a /\ f # e
        /\ account = [i \in Ids |-> CASE i = a -> Account(e, "supplier", None)
                                      [] i = b -> Account(f, "customer", None)
                                      [] OTHER -> NoAccount]
  BY DEF Init
<1>2. Account(e, "supplier", None) \in Accounts /\ Account(f, "customer", None) \in Accounts
  BY NewAccount DEF Roles
<1>3. account \in [Ids -> Accounts \union {NoAccount}]
  BY <1>1, <1>2
<1>4. Idle \in Requests
  BY DEF Requests
<1> QED
  BY <1>3, <1>4 DEF Init, TypeOK

LEMMA NextType == TypeOK /\ [Next]_vars => TypeOK'
<1> SUFFICES ASSUME TypeOK, [Next]_vars
             PROVE  TypeOK'
  OBVIOUS
<1>0. Idle \in Requests
  BY DEF Requests
<1>1. ASSUME NEW c \in Callers, CreateCheck(c) PROVE TypeOK'
  <2>1. PICK email \in Emails, role \in Roles, inviter \in Ids \union {None} :
          Becomes(c, [kind |-> "create", stage |-> "create", email |-> email, role |-> role,
                      user |-> None, inviter |-> inviter])
    BY <1>1, ExistingType DEF CreateCheck
  <2>2. [kind |-> "create", stage |-> "create", email |-> email, role |-> role,
         user |-> None, inviter |-> inviter] \in Creating
    BY DEF Creating
  <2>3. request' \in [Callers -> Requests]
    BY <2>1, <2>2, Writes DEF Requests
  <2> QED
    BY <1>1, <2>3 DEF CreateCheck, Begin, TypeOK
<1>2. ASSUME NEW c \in Callers, Create(c) PROVE TypeOK'
  <2>1. request[c].email \in Emails /\ request[c].role \in Roles
        /\ request[c].inviter \in Ids \union {None}
    BY <1>2, Stages, Kinds DEF Create, CodeTaken
  <2>2. CASE Ends(c) /\ UNCHANGED account
    BY <1>0, <1>2, <2>2, Writes DEF Create, CodeTaken, Ends, TypeOK
  <2>3. CASE Created(c)
    <3>1. PICK a \in Ids :
            /\ Sets(a, Account(request[c].email, request[c].role, request[c].inviter))
            /\ IF request[c].role = "supplier" THEN Ends(c)
               ELSE Becomes(c, [request[c] EXCEPT !.stage = "grant", !.user = a])
      BY <2>3 DEF Created
    <3>2. account' \in [Ids -> Accounts \union {NoAccount}]
      BY <2>1, <3>1, NewAccount, Writes
    <3>3. request[c].role # "supplier" =>
            [request[c] EXCEPT !.stage = "grant", !.user = a] \in Granting
      <4>1. request[c] \in Creating
        BY <1>2, Stages DEF Create, CodeTaken
      <4> QED
        BY <4>1 DEF Creating, Granting
    <3>4. request' \in [Callers -> Requests]
      BY <1>0, <3>1, <3>3, Writes DEF Ends, Requests
    <3> QED
      BY <1>2, <3>2, <3>4 DEF Create, CodeTaken, TypeOK
  <2> QED
    BY <1>2, <2>2, <2>3 DEF Create, CodeTaken
<1>3. ASSUME NEW c \in Callers, Grant(c) PROVE TypeOK'
  <2> DEFINE r == [kind |-> "issue", stage |-> "issue", user |-> request[c].user,
                   signIn |-> signIns + 1, since |-> signOuts[request[c].user]]
  <2>1. request[c].user \in Ids /\ request[c].inviter \in Ids \union {None}
    BY <1>3, Stages, Kinds DEF Grant
  <2>2. r \in Signing
    BY <2>1 DEF TypeOK, Signing
  <2>3. request' \in [Callers -> Requests]
    BY <1>3, <2>2, Writes DEF Grant, Requests
  <2>4. account' \in [Ids -> Accounts \union {NoAccount}]
    <3>1. CASE request[c].inviter = None
      BY <1>3, <3>1 DEF Grant, TypeOK
    <3>2. CASE request[c].inviter # None
      <4>1. account' = [account EXCEPT ![request[c].inviter] =
                          [account[request[c].inviter] EXCEPT !.freeOrders = @ + 1]]
        BY <1>3, <3>2 DEF Grant, Rewarded, Sets
      <4>2. ASSUME NEW q \in Accounts
            PROVE  [q EXCEPT !.freeOrders = @ + 1] \in Accounts
        <5>1. q.freeOrders \in Nat /\ q.freeOrders + 1 \in Nat
          BY DEF Accounts
        <5>2. ASSUME NEW n \in Nat PROVE [q EXCEPT !.freeOrders = n] \in Accounts
          BY DEF Accounts
        <5> QED
          BY <5>1, <5>2
      <4>3. account[request[c].inviter] = NoAccount =>
              [account[request[c].inviter] EXCEPT !.freeOrders = @ + 1] = NoAccount
        BY DEF NoAccount
      <4> QED
        BY <2>1, <3>2, <4>1, <4>2, <4>3 DEF TypeOK
    <3> QED
      BY <3>1, <3>2
  <2> QED
    BY <1>3, <2>3, <2>4 DEF Grant, TypeOK
<1>4. ASSUME NEW c \in Callers, ProfileCheck(c) PROVE TypeOK'
  <2>1. PICK a \in Ids, email \in Emails :
          Becomes(c, [kind |-> "profile", stage |-> "update", user |-> a, email |-> email])
    BY <1>4, ExistingType DEF ProfileCheck
  <2>2. [kind |-> "profile", stage |-> "update", user |-> a, email |-> email] \in Updating
    BY DEF Updating
  <2>3. request' \in [Callers -> Requests]
    BY <2>1, <2>2, Writes DEF Requests
  <2> QED
    BY <1>4, <2>3 DEF ProfileCheck, Begin, TypeOK
<1>5. ASSUME NEW c \in Callers, ProfileUpdate(c) PROVE TypeOK'
  <2>1. request[c].user \in Ids /\ request[c].email \in Emails
    BY <1>5, Stages, Kinds DEF ProfileUpdate, At
  <2>2. request' \in [Callers -> Requests]
    BY <1>0, <1>5, Writes DEF ProfileUpdate, Ends
  <2>3. account' \in [Ids -> Accounts \union {NoAccount}]
    <3>1. account[request[c].user] \in Accounts =>
            [account[request[c].user] EXCEPT !.email = request[c].email] \in Accounts
      BY <2>1 DEF Accounts
    <3>2. account[request[c].user] = NoAccount =>
            [account[request[c].user] EXCEPT !.email = request[c].email] = NoAccount
      BY DEF NoAccount
    <3> QED
      BY <1>5, <2>1, <3>1, <3>2 DEF ProfileUpdate, Sets, TypeOK
  <2> QED
    BY <1>5, <2>2, <2>3 DEF ProfileUpdate, TypeOK
<1>6. ASSUME NEW c \in Callers, LoginCheck(c) PROVE TypeOK'
  <2>1. PICK a \in Ids : Becomes(c, [kind |-> "issue", stage |-> "issue", user |-> a,
                                     signIn |-> signIns + 1, since |-> signOuts[a]])
    BY <1>6, ExistingType DEF LoginCheck
  <2>2. [kind |-> "issue", stage |-> "issue", user |-> a,
         signIn |-> signIns + 1, since |-> signOuts[a]] \in Signing
    BY DEF TypeOK, Signing
  <2>3. request' \in [Callers -> Requests]
    BY <2>1, <2>2, Writes DEF Requests
  <2> QED
    BY <1>6, <2>3 DEF LoginCheck, Begin, TypeOK
<1>7. ASSUME NEW c \in Callers, Rotate(c) PROVE TypeOK'
  <2>1. PICK t \in live :
          /\ live' = live \ {t}
          /\ Becomes(c, [kind |-> "issue", stage |-> "issue", user |-> t.user,
                         signIn |-> t.signIn, since |-> signOuts[t.user]])
    BY <1>7 DEF Rotate, Without
  <2>2. t.user \in Ids /\ t.signIn \in Nat
    BY DEF TypeOK
  <2>3. [kind |-> "issue", stage |-> "issue", user |-> t.user,
         signIn |-> t.signIn, since |-> signOuts[t.user]] \in Signing
    BY <2>2 DEF TypeOK, Signing
  <2>4. request' \in [Callers -> Requests]
    BY <2>1, <2>3, Writes DEF Requests
  <2> QED
    BY <1>7, <2>1, <2>4 DEF Rotate, Begin, TypeOK
<1>8. ASSUME NEW c \in Callers, Issue(c) PROVE TypeOK'
  <2>1. request[c].user \in Ids /\ request[c].signIn \in Nat /\ request[c].since \in Nat
    BY <1>8, Stages, Kinds DEF Issue, At
  <2>2. request' \in [Callers -> Requests]
    BY <1>0, <1>8, Writes DEF Issue, Ends
  <2> QED
    BY <1>8, <2>1, <2>2 DEF Issue, TypeOK
<1>9. ASSUME NEW c \in Callers, LogoutEverywhere(c) PROVE TypeOK'
  BY <1>9, ExistingType DEF LogoutEverywhere, SignOut, Begin, TypeOK
<1>10. ASSUME NEW c \in Callers, ChangeRead(c) PROVE TypeOK'
  <2>1. PICK a \in Existing :
          /\ Becomes(c, [kind |-> "change", stage |-> "save", user |-> a,
                         mustChange |-> account[a].mustChange])
          /\ raced' = Overlapped(a, "reset")
    BY <1>10 DEF ChangeRead
  <2>2. a \in Ids /\ account[a].mustChange \in BOOLEAN
    BY ExistingType DEF Accounts
  <2>3. [kind |-> "change", stage |-> "save", user |-> a,
         mustChange |-> account[a].mustChange] \in Changing
    BY <2>2 DEF Changing
  <2>4. request' \in [Callers -> Requests]
    BY <2>1, <2>3, Writes DEF Requests
  <2>5. raced' \subseteq Ids
    BY <2>1, <2>2 DEF Overlapped, TypeOK
  <2> QED
    BY <1>10, <2>4, <2>5 DEF ChangeRead, Begin, TypeOK
<1>11. ASSUME NEW c \in Callers, ChangeSave(c) PROVE TypeOK'
  <2>1. request[c].user \in Ids /\ request[c].mustChange \in BOOLEAN
    BY <1>11, Stages, Kinds DEF ChangeSave, At
  <2>2. [request[c] EXCEPT !.stage = "sign out"] \in Changing
    <3>1. request[c] \in Changing
      BY <1>11, Stages DEF ChangeSave, At
    <3> QED
      BY <3>1 DEF Changing
  <2>3. request' \in [Callers -> Requests]
    BY <1>11, <2>2, Writes DEF ChangeSave, GoesOn, Requests
  <2>4. account' \in [Ids -> Accounts \union {NoAccount}]
    <3> DEFINE old == account[request[c].user]
               new == [old EXCEPT !.setBy = "holder",
                                  !.mustChange = IF request[c].mustChange THEN FALSE ELSE @]
    <3>1. old \in Accounts => new \in Accounts
      BY <2>1 DEF Accounts
    <3>2. old = NoAccount => new = NoAccount
      BY DEF NoAccount
    <3>3. account' = [account EXCEPT ![request[c].user] = new]
      BY <1>11 DEF ChangeSave, Sets
    <3>4. old \in Accounts \union {NoAccount}
      BY <2>1 DEF TypeOK
    <3> HIDE DEF new, old
    <3> QED
      BY <2>1, <3>1, <3>2, <3>3, <3>4 DEF TypeOK
  <2> QED
    BY <1>11, <2>3, <2>4 DEF ChangeSave, TypeOK
<1>12. ASSUME NEW c \in Callers, ChangeSignsOut(c) PROVE TypeOK'
  <2>1. request' \in [Callers -> Requests] /\ request[c].user \in Ids
    BY <1>0, <1>12, Writes, Stages, Kinds DEF ChangeSignsOut, Ends, At
  <2>2. live' \subseteq live /\ signOuts' \in [Ids -> Nat]
    BY <1>12, <2>1, SignOutType DEF ChangeSignsOut
  <2> QED
    BY <1>12, <2>1, <2>2 DEF ChangeSignsOut, TypeOK
<1>13. ASSUME NEW c \in Callers, ResetRead(c) PROVE TypeOK'
  <2>1. PICK a \in Existing :
          /\ Becomes(c, [kind |-> "reset", stage |-> "save", user |-> a,
                         mustChange |-> account[a].mustChange])
          /\ raced' = Overlapped(a, "change")
    BY <1>13 DEF ResetRead
  <2>2. a \in Ids /\ account[a].mustChange \in BOOLEAN
    BY ExistingType DEF Accounts
  <2>3. [kind |-> "reset", stage |-> "save", user |-> a,
         mustChange |-> account[a].mustChange] \in Resetting
    BY <2>2 DEF Resetting
  <2>4. request' \in [Callers -> Requests]
    BY <2>1, <2>3, Writes DEF Requests
  <2>5. raced' \subseteq Ids
    BY <2>1, <2>2 DEF Overlapped, TypeOK
  <2> QED
    BY <1>13, <2>4, <2>5 DEF ResetRead, Begin, TypeOK
<1>14. ASSUME NEW c \in Callers, ResetSave(c) PROVE TypeOK'
  <2>1. request[c].user \in Ids /\ request[c].mustChange \in BOOLEAN
    BY <1>14, Stages, Kinds DEF ResetSave, At
  <2>2. request' \in [Callers -> Requests]
    BY <1>0, <1>14, Writes DEF ResetSave, Ends
  <2>3. account' \in [Ids -> Accounts \union {NoAccount}]
    <3> DEFINE old == account[request[c].user]
               new == Reset(old, request[c].mustChange)
    <3>1. old \in Accounts => new \in Accounts
      BY <2>1 DEF Accounts, Reset
    <3>2. old = NoAccount => new = NoAccount
      BY DEF NoAccount, Reset
    <3>3. account' = [account EXCEPT ![request[c].user] = new]
      BY <1>14 DEF ResetSave, Sets
    <3>4. old \in Accounts \union {NoAccount}
      BY <2>1 DEF TypeOK
    <3> HIDE DEF new, old
    <3> QED
      BY <2>1, <3>1, <3>2, <3>3, <3>4 DEF TypeOK
  <2> QED
    BY <1>14, <2>2, <2>3 DEF ResetSave, TypeOK
<1>15. ASSUME NEW c \in Callers, DevicePull(c) PROVE TypeOK'
  <2>1. PICK a \in Ids, p \in Phones :
          /\ holders' = [holders EXCEPT ![p] = {}]
          /\ request' = [d \in Callers |->
               IF d = c THEN [kind |-> "device", stage |-> "push", user |-> a, phone |-> p,
                              alone |-> ~\E o \in Callers : OnPhone(o, p)]
               ELSE IF OnPhone(d, p) THEN [request[d] EXCEPT !.alone = FALSE]
               ELSE request[d]]
    BY <1>15, ExistingType DEF DevicePull, TakenOff
  <2>2. \A b \in BOOLEAN : [kind |-> "device", stage |-> "push", user |-> a, phone |-> p,
                            alone |-> b] \in Registering
    BY DEF Registering
  <2>3. \A d \in Callers : OnPhone(d, p) => [request[d] EXCEPT !.alone = FALSE] \in Registering
    <3>1. \A r \in Registering : [r EXCEPT !.alone = FALSE] \in Registering
      BY DEF Registering
    <3> QED
      BY <3>1, Stages DEF OnPhone
  <2>4. request' \in [Callers -> Requests]
    <3>1. (~\E o \in Callers : OnPhone(o, p)) \in BOOLEAN
      OBVIOUS
    <3> QED
      BY <2>1, <2>2, <2>3, <3>1 DEF TypeOK, Requests
  <2> QED
    BY <1>15, <2>1, <2>4 DEF DevicePull, Begin, TypeOK
<1>16. ASSUME NEW c \in Callers, DevicePush(c) PROVE TypeOK'
  <2>1. request' \in [Callers -> Requests] /\ request[c].user \in Ids
        /\ request[c].phone \in Phones
    BY <1>0, <1>16, Writes, Stages, Kinds DEF DevicePush, Ends, At
  <2> QED
    BY <1>16, <2>1 DEF DevicePush, TypeOK
<1>17. ASSUME SessionEnds \/ ForgetDevice \/ Crash PROVE TypeOK'
  BY <1>0, <1>17 DEF SessionEnds, ForgetDevice, Crash, TypeOK
<1>18. CASE UNCHANGED vars
  BY <1>18 DEF vars, TypeOK
<1> QED
  BY <1>1, <1>2, <1>3, <1>4, <1>5, <1>6, <1>7, <1>8, <1>9, <1>10, <1>11, <1>12, <1>13, <1>14,
     <1>15, <1>16, <1>17, <1>18 DEF Next, Step

-----------------------------------------------------------------------------
(* What a step makes of the requests.                                      *)

Only(c) == \A d \in Callers \ {c} : request'[d] = request[d]

LEMMA Becoming ==
  ASSUME TypeOK, NEW c \in Callers, NEW r, Becomes(c, r)
  PROVE  request'[c] = r /\ Only(c)
BY DEF TypeOK, Becomes, Only

LEMMA StepMakes ==
  ASSUME TypeOK, NEW c \in Callers
  PROVE  /\ CreateCheck(c) => Only(c) /\ request'[c].kind = "create"
         /\ Create(c) => Only(c) /\ request'[c].kind \in {"idle", "create"}
         /\ Grant(c) \/ LoginCheck(c) \/ Rotate(c) => Only(c) /\ request'[c].kind = "issue"
         /\ ProfileCheck(c) => Only(c) /\ request'[c].kind = "profile"
         /\ ProfileUpdate(c) \/ Issue(c) \/ ChangeSignsOut(c) \/ ResetSave(c) \/ DevicePush(c) =>
              Only(c) /\ request'[c].kind = "idle"
         /\ ChangeRead(c) => Only(c) /\ request'[c].kind = "change"
         /\ ChangeSave(c) =>
              Only(c) /\ request'[c].kind = "change" /\ request'[c].stage = "sign out"
                /\ request'[c].user = request[c].user
         /\ ResetRead(c) => Only(c) /\ request'[c].kind = "reset"
<1>1. CreateCheck(c) => Only(c) /\ request'[c].kind = "create"
  <2>1. ASSUME NEW e, NEW r, NEW i,
               Becomes(c, [kind |-> "create", stage |-> "create", email |-> e, role |-> r,
                           user |-> None, inviter |-> i])
        PROVE  Only(c) /\ request'[c].kind = "create"
    BY <2>1, Becoming
  <2> QED
    BY <2>1 DEF CreateCheck
<1>2. Create(c) => Only(c) /\ request'[c].kind \in {"idle", "create"}
  <2>1. Ends(c) => Only(c) /\ request'[c].kind = "idle"
    BY Becoming, Kinds DEF Ends
  <2>2. ASSUME Create(c), NEW a, Becomes(c, [request[c] EXCEPT !.stage = "grant", !.user = a])
        PROVE  Only(c) /\ request'[c].kind = "create"
    <3>1. request[c] \in Creating
      BY <2>2, Stages DEF Create, CodeTaken
    <3>2. [request[c] EXCEPT !.stage = "grant", !.user = a].kind = "create"
      BY <3>1 DEF Creating
    <3> QED
      BY <2>2, <3>2, Becoming
  <2> QED
    BY <2>1, <2>2 DEF Create, CodeTaken, Created
<1>3. Grant(c) \/ LoginCheck(c) \/ Rotate(c) => Only(c) /\ request'[c].kind = "issue"
  <2>1. ASSUME NEW u, NEW n, NEW s,
               Becomes(c, [kind |-> "issue", stage |-> "issue", user |-> u, signIn |-> n,
                           since |-> s])
        PROVE  Only(c) /\ request'[c].kind = "issue"
    BY <2>1, Becoming
  <2> QED
    BY <2>1 DEF Grant, LoginCheck, Rotate
<1>4. ProfileCheck(c) => Only(c) /\ request'[c].kind = "profile"
  <2>1. ASSUME NEW u, NEW e,
               Becomes(c, [kind |-> "profile", stage |-> "update", user |-> u, email |-> e])
        PROVE  Only(c) /\ request'[c].kind = "profile"
    BY <2>1, Becoming
  <2> QED
    BY <2>1 DEF ProfileCheck
<1>5. ProfileUpdate(c) \/ Issue(c) \/ ChangeSignsOut(c) \/ ResetSave(c) \/ DevicePush(c) =>
        Only(c) /\ request'[c].kind = "idle"
  <2>1. Ends(c) => Only(c) /\ request'[c].kind = "idle"
    BY Becoming, Kinds DEF Ends
  <2> QED
    BY <2>1 DEF ProfileUpdate, Issue, ChangeSignsOut, ResetSave, DevicePush
<1>6. ASSUME NEW k, NEW u, NEW m,
             Becomes(c, [kind |-> k, stage |-> "save", user |-> u, mustChange |-> m])
      PROVE  Only(c) /\ request'[c].kind = k
  BY <1>6, Becoming
<1>7. ChangeRead(c) => Only(c) /\ request'[c].kind = "change"
  BY <1>6 DEF ChangeRead
<1>8. ResetRead(c) => Only(c) /\ request'[c].kind = "reset"
  BY <1>6 DEF ResetRead
<1>9. ASSUME ChangeSave(c)
      PROVE  Only(c) /\ request'[c].kind = "change" /\ request'[c].stage = "sign out"
               /\ request'[c].user = request[c].user
  <2>1. request[c] \in Changing
    BY <1>9, Stages DEF ChangeSave, At
  <2> DEFINE s == [request[c] EXCEPT !.stage = "sign out"]
  <2>2. s.kind = "change" /\ s.stage = "sign out" /\ s.user = request[c].user
    BY <2>1 DEF Changing
  <2>3. Becomes(c, s)
    BY <1>9 DEF ChangeSave, GoesOn
  <2> HIDE DEF s
  <2>4. request'[c] = s /\ Only(c)
    BY <2>3, Becoming
  <2> QED
    BY <2>2, <2>4
<1> QED
  BY <1>1, <1>2, <1>3, <1>4, <1>5, <1>7, <1>8, <1>9

\* A registration of a phone is told of the others in progress, and they of it.
LEMMA PullMakes ==
  ASSUME TypeOK, NEW c \in Callers, DevicePull(c)
  PROVE  \E p \in Phones :
           /\ holders' = [holders EXCEPT ![p] = {}]
           /\ request'[c].kind = "device" /\ request'[c].phone = p
           /\ request'[c].alone => \A o \in Callers : ~OnPhone(o, p)
           /\ \A d \in Callers \ {c} :
                IF OnPhone(d, p)
                THEN request'[d].kind = "device" /\ request'[d].phone = p /\ ~request'[d].alone
                ELSE request'[d] = request[d]
<1>1. PICK a \in Existing, p \in Phones :
        /\ holders' = [holders EXCEPT ![p] = TakenOff(p)]
        /\ request' = [d \in Callers |->
             IF d = c THEN [kind |-> "device", stage |-> "push", user |-> a, phone |-> p,
                            alone |-> ~\E o \in Callers : OnPhone(o, p)]
             ELSE IF OnPhone(d, p) THEN [request[d] EXCEPT !.alone = FALSE]
             ELSE request[d]]
  BY DEF DevicePull
<1>2. ASSUME NEW d \in Callers, OnPhone(d, p)
      PROVE  LET r == [request[d] EXCEPT !.alone = FALSE]
             IN  r.kind = "device" /\ r.phone = p /\ ~r.alone
  <2>1. request[d] \in Registering /\ request[d].phone = p
    BY <1>2, Stages DEF OnPhone
  <2> QED
    BY <2>1 DEF Registering
<1>3. request'[c] = [kind |-> "device", stage |-> "push", user |-> a, phone |-> p,
                     alone |-> ~\E o \in Callers : OnPhone(o, p)]
  BY <1>1
<1>4. \A d \in Callers \ {c} :
        request'[d] = IF OnPhone(d, p) THEN [request[d] EXCEPT !.alone = FALSE] ELSE request[d]
  BY <1>1
<1>5. \A d \in Callers \ {c} :
        IF OnPhone(d, p)
        THEN request'[d].kind = "device" /\ request'[d].phone = p /\ ~request'[d].alone
        ELSE request'[d] = request[d]
  BY <1>2, <1>4
<1> QED
  BY <1>1, <1>3, <1>5 DEF TakenOff

-----------------------------------------------------------------------------
(* One good token per sign-in.                                             *)

\* Sign-ins are numbered, so that the next one's number is nobody's.
SessionInv ==
  /\ OneTokenPerSignIn
  /\ \A t \in live : t.signIn <= signIns
  /\ \A c \in Callers : Issuing(c) => request[c].signIn <= signIns

\* A step that signs nobody in.
LEMMA NobodySignedIn ==
  ASSUME SessionInv, live' \subseteq live, signIns' = signIns,
         \A d \in Callers : request'[d].kind = "issue" => request'[d] = request[d]
  PROVE  SessionInv'
<1>1. \A d \in Callers : Issuing(d)' => Issuing(d) /\ request'[d] = request[d]
  BY DEF Issuing
<1> QED
  BY <1>1 DEF SessionInv, OneTokenPerSignIn

\* A step that begins a sign-in with the next number.
LEMMA SignedIn ==
  ASSUME TypeOK, SessionInv, NEW c \in Callers, NEW r, Becomes(c, r), r.kind = "issue",
         r.signIn = signIns + 1, signIns' = signIns + 1, live' = live
  PROVE  SessionInv'
<1>1. request'[c] = r /\ \A d \in Callers \ {c} : request'[d] = request[d]
  BY Becoming DEF Only
<1>2. \A d \in Callers \ {c} : Issuing(d)' => Issuing(d) /\ request[d].signIn <= signIns
                                               /\ request[d].signIn \in Nat
  BY <1>1, Stages, Kinds DEF Issuing, SessionInv
<1>3. \A t \in live : t.signIn <= signIns /\ t.signIn \in Nat
  BY DEF SessionInv, TypeOK
<1>4. signIns \in Nat
  BY DEF TypeOK
<1>5. \A d \in Callers : Issuing(d)' => request'[d].signIn <= signIns'
  BY <1>1, <1>2, <1>4
<1>6. \A t \in live' : t.signIn <= signIns'
  BY <1>3, <1>4
<1>7. \A d \in Callers : Issuing(d)' =>
        /\ \A t \in live' : t.signIn # request'[d].signIn
        /\ \A e \in Callers : Issuing(e)' /\ request'[e].signIn = request'[d].signIn => e = d
  <2>1. \A t \in live' : t.signIn # request'[c].signIn
    BY <1>1, <1>3, <1>4
  <2>2. \A e \in Callers \ {c} : Issuing(e)' => request'[e].signIn # request'[c].signIn
    BY <1>1, <1>2, <1>4
  <2> QED
    BY <1>1, <1>2, <2>1, <2>2 DEF SessionInv, OneTokenPerSignIn
<1> QED
  BY <1>5, <1>6, <1>7 DEF SessionInv, OneTokenPerSignIn

\* The token is taken, and its sign-in goes on with the request.
LEMMA RotateSession ==
  ASSUME TypeOK, SessionInv, NEW c \in Callers, Rotate(c)
  PROVE  SessionInv'
<1>1. PICK t \in live :
        /\ live' = live \ {t}
        /\ Becomes(c, [kind |-> "issue", stage |-> "issue", user |-> t.user,
                       signIn |-> t.signIn, since |-> signOuts[t.user]])
  BY DEF Rotate, Without
<1>2. /\ request'[c].signIn = t.signIn
      /\ \A d \in Callers \ {c} : request'[d] = request[d]
  BY <1>1, Becoming DEF Only
<1>3. request[c] = Idle /\ signIns' = signIns
  BY DEF Rotate, Begin
<1>4. \A d \in Callers \ {c} : Issuing(d)' => Issuing(d)
  BY <1>2 DEF Issuing
<1> QED
  BY <1>1, <1>2, <1>3, <1>4 DEF SessionInv, OneTokenPerSignIn

LEMMA IssueSession ==
  ASSUME TypeOK, SessionInv, NEW c \in Callers, Issue(c)
  PROVE  SessionInv'
<1> DEFINE n == [user |-> request[c].user, signIn |-> request[c].signIn,
                 since |-> request[c].since, id |-> begun]
<1>1. live' = live \union {n} /\ n.signIn = request[c].signIn /\ signIns' = signIns
  BY DEF Issue
<1>2. Issuing(c)
  BY DEF Issue, At, Issuing
<1>3. request'[c] = Idle /\ \A d \in Callers \ {c} : request'[d] = request[d]
  BY Becoming DEF Issue, Ends, Only
<1>4. ~Issuing(c)' /\ \A d \in Callers \ {c} : Issuing(d)' <=> Issuing(d)
  BY <1>3 DEF Issuing, Idle
<1> HIDE DEF n
<1> QED
  BY <1>1, <1>2, <1>3, <1>4 DEF SessionInv, OneTokenPerSignIn

LEMMA NextSession == TypeOK /\ SessionInv /\ [Next]_vars => SessionInv'
<1> SUFFICES ASSUME TypeOK, SessionInv, [Next]_vars
             PROVE  SessionInv'
  OBVIOUS
<1>1. ASSUME NEW c \in Callers, Grant(c) PROVE SessionInv'
  BY <1>1, SignedIn DEF Grant
<1>2. ASSUME NEW c \in Callers, LoginCheck(c) PROVE SessionInv'
  <2>1. PICK a \in Existing :
          Becomes(c, [kind |-> "issue", stage |-> "issue", user |-> a, signIn |-> signIns + 1,
                      since |-> signOuts[a]])
    BY <1>2 DEF LoginCheck
  <2> QED
    BY <1>2, <2>1, SignedIn DEF LoginCheck
<1>3. ASSUME NEW c \in Callers, Rotate(c) \/ Issue(c) PROVE SessionInv'
  BY <1>3, RotateSession, IssueSession
<1>4. ASSUME NEW c \in Callers,
             \/ CreateCheck(c) \/ Create(c) \/ ProfileCheck(c) \/ ProfileUpdate(c)
             \/ ChangeRead(c) \/ ChangeSave(c) \/ ChangeSignsOut(c)
             \/ ResetRead(c) \/ ResetSave(c) \/ DevicePush(c) \/ LogoutEverywhere(c)
      PROVE  SessionInv'
  <2>1. live' \subseteq live /\ signIns' = signIns
    BY <1>4 DEF CreateCheck, Create, CodeTaken, ProfileCheck, ProfileUpdate, ChangeRead, ChangeSave,
                ChangeSignsOut, ResetRead, ResetSave, DevicePush, LogoutEverywhere, SignOut
  <2>2. LogoutEverywhere(c) => request' = request
    BY DEF LogoutEverywhere
  <2>3. \A d \in Callers : request'[d].kind = "issue" => request'[d] = request[d]
    BY <1>4, <2>2, StepMakes DEF Only
  <2> QED
    BY <2>1, <2>3, NobodySignedIn
<1>5. ASSUME NEW c \in Callers, DevicePull(c) PROVE SessionInv'
  <2>1. \A d \in Callers : request'[d].kind = "issue" => request'[d] = request[d]
    BY <1>5, PullMakes
  <2> QED
    BY <1>5, <2>1, NobodySignedIn DEF DevicePull
<1>6. ASSUME SessionEnds \/ ForgetDevice \/ Crash PROVE SessionInv'
  BY <1>6, NobodySignedIn DEF SessionEnds, ForgetDevice, Crash, Idle
<1>7. CASE UNCHANGED vars
  BY <1>7, NobodySignedIn DEF vars
<1> QED
  BY <1>1, <1>2, <1>3, <1>4, <1>5, <1>6, <1>7 DEF Next, Step

-----------------------------------------------------------------------------
(* A phone is handed over.                                                 *)

\* A registration still alone found nobody else's in progress, and nobody has come since.
PhoneInv ==
  \A c \in Callers : request[c].kind = "device" /\ request[c].alone =>
    /\ holders[request[c].phone] = {}
    /\ \A d \in Callers \ {c} :
         request[d].kind = "device" => request[d].phone # request[c].phone

\* A step that registers nothing.
LEMMA NothingRegistered ==
  ASSUME PhoneInv, \A p \in Phones : holders'[p] \in {holders[p], {}}, TypeOK,
         \A d \in Callers : request'[d].kind = "device" => request'[d] = request[d]
  PROVE  PhoneInv'
<1>1. \A d \in Callers : request'[d].kind = "device" =>
        request[d].kind = "device" /\ request[d].phone \in Phones
  BY Stages, Kinds
<1> QED
  BY <1>1 DEF PhoneInv

LEMMA PullPhone ==
  ASSUME TypeOK, PhoneInv, NEW c \in Callers, DevicePull(c)
  PROVE  PhoneInv'
<1>1. PICK p \in Phones :
        /\ holders' = [holders EXCEPT ![p] = {}]
        /\ request'[c].kind = "device" /\ request'[c].phone = p
        /\ request'[c].alone => \A o \in Callers : ~OnPhone(o, p)
        /\ \A d \in Callers \ {c} :
             IF OnPhone(d, p)
             THEN request'[d].kind = "device" /\ request'[d].phone = p /\ ~request'[d].alone
             ELSE request'[d] = request[d]
  BY PullMakes
<1>2. \A d \in Callers \ {c} : request'[d].kind = "device" =>
        request[d].kind = "device" /\ request'[d].phone = request[d].phone
  BY <1>1 DEF OnPhone
<1>3. \A q \in Phones : holders[q] = {} => holders'[q] = {}
  BY <1>1 DEF TypeOK
<1>4. holders'[p] = {}
  BY <1>1 DEF TypeOK
<1>5. request'[c].alone =>
        \A d \in Callers \ {c} : request'[d].kind = "device" => request'[d].phone # p
  BY <1>1, <1>2 DEF OnPhone
<1>6. ASSUME NEW d \in Callers \ {c}, request'[d].kind = "device", request'[d].alone
      PROVE  /\ holders'[request'[d].phone] = {}
             /\ \A e \in Callers \ {d} :
                  request'[e].kind = "device" => request'[e].phone # request'[d].phone
  <2>1. request'[d] = request[d] /\ ~OnPhone(d, p)
    BY <1>1, <1>6
  <2>2. request[d].phone \in Phones /\ request[d].phone # p
    BY <1>6, <2>1, Stages, Kinds DEF OnPhone
  <2>3. request'[c].phone # request[d].phone
    BY <1>1, <2>2
  <2>4. holders[request[d].phone] = {}
        /\ \A e \in Callers \ {d} :
             request[e].kind = "device" => request[e].phone # request[d].phone
    BY <1>6, <2>1 DEF PhoneInv
  <2>5. \A e \in Callers \ {d, c} :
          request'[e].kind = "device" => request'[e].phone # request[d].phone
    BY <1>2, <2>2, <2>4
  <2> QED
    BY <1>3, <2>1, <2>2, <2>3, <2>4, <2>5
<1>7. request'[c].alone => holders'[request'[c].phone] = {}
        /\ \A d \in Callers \ {c} :
             request'[d].kind = "device" => request'[d].phone # request'[c].phone
  BY <1>1, <1>4, <1>5
<1> QED
  BY <1>6, <1>7 DEF PhoneInv

\* The phone is filed under the account, and any other registration of it was not alone.
LEMMA PushPhone ==
  ASSUME TypeOK, PhoneInv, NEW c \in Callers, DevicePush(c)
  PROVE  /\ PhoneInv'
         /\ request[c].alone => holders'[request[c].phone] = {request[c].user}
<1>1. request[c].kind = "device" /\ request[c].phone \in Phones
  BY Stages, Kinds DEF DevicePush, At
<1>2. holders' = [holders EXCEPT ![request[c].phone] = @ \union {request[c].user}]
  BY DEF DevicePush
<1>3. request'[c].kind = "idle" /\ \A d \in Callers \ {c} : request'[d] = request[d]
  BY StepMakes DEF Only
<1>5. ASSUME NEW d \in Callers \ {c}, request[d].kind = "device", request[d].alone
      PROVE  holders'[request[d].phone] = {}
  <2>1. request[d].phone \in Phones
    BY <1>5, Stages, Kinds
  <2>2. request[d].phone # request[c].phone /\ holders[request[d].phone] = {}
    BY <1>1, <1>5 DEF PhoneInv
  <2> QED
    BY <1>2, <2>1, <2>2 DEF TypeOK
<1>7. ASSUME NEW d \in Callers, request'[d].kind = "device", request'[d].alone
      PROVE  /\ holders'[request'[d].phone] = {}
             /\ \A e \in Callers \ {d} :
                  request'[e].kind = "device" => request'[e].phone # request'[d].phone
  <2>1. d # c /\ request'[d] = request[d]
    BY <1>3, <1>7
  <2>2. request[d].phone \in Phones
    BY <1>7, <2>1, Stages, Kinds
  <2> QED
    BY <1>3, <1>5, <1>7, <2>1, <2>2 DEF PhoneInv
<1>8. request[c].alone => holders'[request[c].phone] = {request[c].user}
  BY <1>1, <1>2 DEF PhoneInv, TypeOK
<1> QED
  BY <1>7, <1>8 DEF PhoneInv

LEMMA NextPhone == TypeOK /\ PhoneInv /\ [Next]_vars => PhoneInv'
<1> SUFFICES ASSUME TypeOK, PhoneInv, [Next]_vars
             PROVE  PhoneInv'
  OBVIOUS
<1>1. ASSUME NEW c \in Callers, DevicePull(c) \/ DevicePush(c) PROVE PhoneInv'
  BY <1>1, PullPhone, PushPhone
<1>2. ASSUME NEW c \in Callers,
             \/ CreateCheck(c) \/ Create(c) \/ Grant(c) \/ ProfileCheck(c) \/ ProfileUpdate(c)
             \/ LoginCheck(c) \/ Rotate(c) \/ Issue(c) \/ LogoutEverywhere(c)
             \/ ChangeRead(c) \/ ChangeSave(c) \/ ChangeSignsOut(c)
             \/ ResetRead(c) \/ ResetSave(c)
      PROVE  PhoneInv'
  <2>1. holders' = holders
    BY <1>2 DEF CreateCheck, Create, CodeTaken, Grant, ProfileCheck, ProfileUpdate, LoginCheck, Rotate,
                Issue, LogoutEverywhere, ChangeRead, ChangeSave, ChangeSignsOut, ResetRead,
                ResetSave
  <2>2. LogoutEverywhere(c) => request' = request
    BY DEF LogoutEverywhere
  <2>3. \A d \in Callers : request'[d].kind = "device" => request'[d] = request[d]
    BY <1>2, <2>2, StepMakes DEF Only
  <2> QED
    BY <2>1, <2>3, NothingRegistered
<1>3. CASE SessionEnds \/ Crash
  BY <1>3, NothingRegistered DEF SessionEnds, Crash, Idle
<1>4. CASE ForgetDevice
  BY <1>4, NothingRegistered DEF ForgetDevice, TypeOK
<1>5. CASE UNCHANGED vars
  BY <1>5, NothingRegistered DEF vars
<1> QED
  BY <1>1, <1>2, <1>3, <1>4, <1>5 DEF Next, Step

-----------------------------------------------------------------------------
(* What writing one account does to it.                                    *)

LEMMA Setting ==
  ASSUME TypeOK, NEW a \in Ids, NEW r, Sets(a, r)
  PROVE  account'[a] = r /\ \A b \in Ids \ {a} : account'[b] = account[b]
BY DEF TypeOK, Sets

\* The accounts that there are keep their address, and their password's marks.
KeepsAddresses ==
  \A a \in Ids : account'[a].exists =>
    account[a].exists /\ account'[a].email = account[a].email

KeepsMarks ==
  \A a \in Ids : account[a].exists =>
    /\ account'[a].exists
    /\ account'[a].mustChange = account[a].mustChange
    /\ account'[a].setBy = account[a].setBy

\* The accounts are the ones there were, with the inviters and the rewards they had.
KeepsRewards ==
  \A a \in Ids :
    /\ account'[a].exists <=> account[a].exists
    /\ account[a].exists => /\ account'[a].freeOrders = account[a].freeOrders
                             /\ account'[a].referredBy = account[a].referredBy

LEMMA Granted ==
  ASSUME TypeOK, NEW c \in Callers, Grant(c)
  PROVE  KeepsAddresses /\ KeepsMarks /\ \A a \in Ids : account'[a].exists => account[a].exists
<1>1. CASE request[c].inviter = None
  BY <1>1 DEF Grant, KeepsAddresses, KeepsMarks
<1>2. CASE request[c].inviter # None
  <2> DEFINE i == request[c].inviter
             r == [account[i] EXCEPT !.freeOrders = @ + 1]
  <2>1. i \in Ids
    BY <1>2, Stages, Kinds DEF Grant
  <2>2. Sets(i, r)
    BY <1>2 DEF Grant, Rewarded
  <2>3. account[i] \in Accounts \union {NoAccount}
    BY <2>1 DEF TypeOK
  <2>4. account[i] \in Accounts =>
          /\ r.exists /\ account[i].exists /\ r.email = account[i].email
          /\ r.mustChange = account[i].mustChange /\ r.setBy = account[i].setBy
    BY DEF Accounts
  <2>5. account[i] = NoAccount => ~r.exists /\ ~account[i].exists
    BY DEF NoAccount
  <2> HIDE DEF i, r
  <2>6. account'[i] = r /\ \A b \in Ids \ {i} : account'[b] = account[b]
    BY <2>1, <2>2, Setting
  <2> QED
    BY <2>3, <2>4, <2>5, <2>6 DEF KeepsAddresses, KeepsMarks
<1> QED
  BY <1>1, <1>2

LEMMA Changed ==
  ASSUME TypeOK, NEW c \in Callers, ChangeSave(c)
  PROVE  LET a == request[c].user IN
         /\ KeepsAddresses /\ KeepsRewards
         /\ a \in Ids
         /\ account[a].exists =>
              /\ account'[a].exists /\ account'[a].setBy = "holder"
              /\ ~account[a].mustChange \/ request[c].mustChange => ~account'[a].mustChange
         /\ \A b \in Ids \ {a} : account'[b] = account[b]
<1> DEFINE a == request[c].user
           r == [account[a] EXCEPT !.setBy = "holder",
                                   !.mustChange = IF request[c].mustChange THEN FALSE ELSE @]
<1>1. a \in Ids
  BY Stages, Kinds DEF ChangeSave, At
<1>2. Sets(a, r)
  BY DEF ChangeSave
<1>3. account[a] \in Accounts \union {NoAccount}
  BY <1>1 DEF TypeOK
<1>4. account[a] \in Accounts =>
        /\ r.exists /\ account[a].exists /\ r.email = account[a].email /\ r.setBy = "holder"
        /\ r.mustChange = IF request[c].mustChange THEN FALSE ELSE account[a].mustChange
        /\ r.freeOrders = account[a].freeOrders /\ r.referredBy = account[a].referredBy
  BY DEF Accounts
<1>5. account[a] = NoAccount => ~r.exists /\ ~account[a].exists
  BY DEF NoAccount
<1> HIDE DEF r
<1>6. account'[a] = r /\ \A b \in Ids \ {a} : account'[b] = account[b]
  BY <1>1, <1>2, Setting
<1> QED
  BY <1>1, <1>3, <1>4, <1>5, <1>6 DEF KeepsAddresses, KeepsRewards

LEMMA WasReset ==
  ASSUME TypeOK, NEW c \in Callers, ResetSave(c)
  PROVE  LET a == request[c].user IN
         /\ KeepsAddresses /\ KeepsRewards
         /\ a \in Ids
         /\ account[a].exists =>
              /\ account'[a].exists /\ account'[a].setBy = "admin"
              /\ account[a].mustChange \/ ~request[c].mustChange => account'[a].mustChange
         /\ \A b \in Ids \ {a} : account'[b] = account[b]
<1> DEFINE a == request[c].user
           r == Reset(account[a], request[c].mustChange)
<1>1. a \in Ids
  BY Stages, Kinds DEF ResetSave, At
<1>2. Sets(a, r)
  BY DEF ResetSave
<1>3. account[a] \in Accounts \union {NoAccount}
  BY <1>1 DEF TypeOK
<1>4. account[a] \in Accounts =>
        /\ r.exists /\ account[a].exists /\ r.email = account[a].email /\ r.setBy = "admin"
        /\ r.mustChange = IF request[c].mustChange THEN account[a].mustChange ELSE TRUE
        /\ r.freeOrders = account[a].freeOrders /\ r.referredBy = account[a].referredBy
  BY DEF Accounts, Reset
<1>5. account[a] = NoAccount => ~r.exists /\ ~account[a].exists
  BY DEF NoAccount, Reset
<1> HIDE DEF r
<1>6. account'[a] = r /\ \A b \in Ids \ {a} : account'[b] = account[b]
  BY <1>1, <1>2, Setting
<1> QED
  BY <1>1, <1>3, <1>4, <1>5, <1>6 DEF KeepsAddresses, KeepsRewards

LEMMA Moved ==
  ASSUME TypeOK, NEW c \in Callers, ProfileUpdate(c)
  PROVE  /\ KeepsMarks /\ KeepsRewards
         /\ \A a \in Ids : account'[a].exists => account[a].exists
         /\ \/ account' = account
            \/ LET a == request[c].user IN
               /\ \A b \in Existing \ {a} : account[b].email # request[c].email
               /\ account'[a].exists => account'[a].email = request[c].email
               /\ \A b \in Ids \ {a} : account'[b] = account[b]
<1>1. CASE account' = account
  BY <1>1 DEF KeepsMarks, KeepsRewards
<1>2. CASE account' # account
  <2> DEFINE a == request[c].user
             r == [account[a] EXCEPT !.email = request[c].email]
  <2>1. a \in Ids
    BY Stages, Kinds DEF ProfileUpdate, At
  <2>2. Sets(a, r) /\ \A b \in Existing \ {a} : account[b].email # request[c].email
    BY <1>2 DEF ProfileUpdate
  <2>3. account[a] \in Accounts \union {NoAccount}
    BY <2>1 DEF TypeOK
  <2>4. account[a] \in Accounts =>
          /\ r.exists /\ account[a].exists /\ r.email = request[c].email
          /\ r.mustChange = account[a].mustChange /\ r.setBy = account[a].setBy
          /\ r.freeOrders = account[a].freeOrders /\ r.referredBy = account[a].referredBy
    BY DEF Accounts
  <2>5. account[a] = NoAccount => ~r.exists /\ ~account[a].exists
    BY DEF NoAccount
  <2> HIDE DEF r
  <2>6. account'[a] = r /\ \A b \in Ids \ {a} : account'[b] = account[b]
    BY <2>1, <2>2, Setting
  <2> QED
    BY <2>2, <2>3, <2>4, <2>5, <2>6 DEF KeepsMarks, KeepsRewards
<1> QED
  BY <1>1, <1>2

\* A new account has an address that was free, and a password marked as it should be.
LEMMA Opened ==
  ASSUME TypeOK, NEW c \in Callers, Create(c)
  PROVE  \/ account' = account
         \/ \E a \in Ids \ Existing :
              /\ account'[a].exists
              /\ \A b \in Existing : account[b].email # account'[a].email
              /\ account'[a].mustChange \in BOOLEAN
              /\ account'[a].mustChange <=> account'[a].setBy = "admin"
              /\ \A b \in Ids \ {a} : account'[b] = account[b]
<1>1. CASE account' = account
  BY <1>1
<1>2. CASE account' # account
  <2> DEFINE r == Account(request[c].email, request[c].role, request[c].inviter)
  <2>1. PICK a \in Ids \ Existing : Sets(a, r)
    BY <1>2 DEF Create, CodeTaken, Created
  <2>2. ~Taken(request[c].email)
    BY <1>2 DEF Create, CodeTaken
  <2>3. r.exists /\ r.email = request[c].email /\ r.mustChange \in BOOLEAN
        /\ (r.mustChange <=> r.setBy = "admin")
    BY DEF Account
  <2> HIDE DEF r
  <2>4. account'[a] = r /\ \A b \in Ids \ {a} : account'[b] = account[b]
    BY <2>1, Setting
  <2> QED
    BY <2>2, <2>3, <2>4 DEF Taken
<1> QED
  BY <1>1, <1>2

-----------------------------------------------------------------------------
(* One account per address.                                                *)

LEMMA NextAddresses == TypeOK /\ OneAccountPerEmail /\ [Next]_vars => OneAccountPerEmail'
<1> SUFFICES ASSUME TypeOK, OneAccountPerEmail, [Next]_vars
             PROVE  OneAccountPerEmail'
  OBVIOUS
<1>1. KeepsAddresses => OneAccountPerEmail'
  BY DEF KeepsAddresses, OneAccountPerEmail, Existing
<1>2. account' = account => OneAccountPerEmail'
  BY <1>1 DEF KeepsAddresses
<1>3. ASSUME NEW c \in Callers, Grant(c) \/ ChangeSave(c) \/ ResetSave(c)
      PROVE  OneAccountPerEmail'
  BY <1>1, <1>3, Granted, Changed, WasReset
<1>4. ASSUME NEW c \in Callers, Create(c) PROVE OneAccountPerEmail'
  BY <1>2, <1>4, Opened DEF OneAccountPerEmail, Existing
<1>5. ASSUME NEW c \in Callers, ProfileUpdate(c) PROVE OneAccountPerEmail'
  BY <1>2, <1>5, Moved DEF OneAccountPerEmail, Existing
<1>6. ASSUME NEW c \in Callers,
             \/ CreateCheck(c) \/ ProfileCheck(c) \/ LoginCheck(c) \/ Rotate(c) \/ Issue(c)
             \/ LogoutEverywhere(c) \/ ChangeRead(c) \/ ChangeSignsOut(c) \/ ResetRead(c)
             \/ DevicePull(c) \/ DevicePush(c)
      PROVE  OneAccountPerEmail'
  BY <1>2, <1>6 DEF CreateCheck, ProfileCheck, LoginCheck, Rotate, Issue, LogoutEverywhere,
                    ChangeRead, ChangeSignsOut, ResetRead, DevicePull, DevicePush
<1>7. CASE SessionEnds \/ ForgetDevice \/ Crash \/ UNCHANGED vars
  BY <1>2, <1>7 DEF SessionEnds, ForgetDevice, Crash, vars
<1> QED
  BY <1>3, <1>4, <1>5, <1>6, <1>7 DEF Next, Step

-----------------------------------------------------------------------------
(* An admin's password is marked.                                          *)

\* Away from races a change and a reset do not overlap, and what each has read of the
\* mark is still so when its save leaves the mark as it finds it.
MarkInv ==
  /\ AdminPasswordsAreMarked
  /\ \A d \in Callers : request[d].kind \in {"change", "reset"} => request[d].user \in Existing
  /\ \A d, e \in Callers : request[d].kind = "change" /\ request[e].kind = "reset"
                             /\ request[d].user = request[e].user => request[d].user \in raced
  /\ \A d \in Callers : request[d].user \notin raced =>
       /\ request[d].kind = "change" /\ ~request[d].mustChange =>
            ~account[request[d].user].mustChange
       /\ request[d].kind = "reset" /\ request[d].mustChange =>
            account[request[d].user].mustChange

\* The new accounts' passwords are marked, the others' are not touched.
MarksKept ==
  /\ KeepsMarks
  /\ \A a \in Ids : account'[a].exists /\ ~account[a].exists =>
       (account'[a].mustChange <=> account'[a].setBy = "admin")

LEMMA PasswordsKept ==
  ASSUME TypeOK, MarkInv, MarksKept, raced' = raced,
         \A d \in Callers : request'[d].kind \in {"change", "reset"} => request'[d] = request[d]
  PROVE  MarkInv'
<1>1. AdminPasswordsAreMarked'
  BY DEF MarkInv, AdminPasswordsAreMarked, MarksKept, KeepsMarks, Existing
<1>2. \A d \in Callers : request'[d].kind \in {"change", "reset"} =>
        /\ request[d].user \in Ids /\ account[request[d].user].exists
        /\ request'[d] = request[d]
        /\ account'[request[d].user].exists
        /\ account'[request[d].user].mustChange = account[request[d].user].mustChange
  BY DEF MarkInv, MarksKept, KeepsMarks, Existing
<1>3. \A d \in Callers : request'[d].kind \in {"change", "reset"} => request'[d].user \in Existing'
  BY <1>2 DEF Existing
<1>4. \A d, e \in Callers : request'[d].kind = "change" /\ request'[e].kind = "reset"
        /\ request'[d].user = request'[e].user => request'[d].user \in raced'
  BY <1>2 DEF MarkInv
<1>5. \A d \in Callers : request'[d].user \notin raced' =>
       /\ request'[d].kind = "change" /\ ~request'[d].mustChange =>
            ~account'[request'[d].user].mustChange
       /\ request'[d].kind = "reset" /\ request'[d].mustChange =>
            account'[request'[d].user].mustChange
  BY <1>2 DEF MarkInv
<1> QED
  BY <1>1, <1>3, <1>4, <1>5 DEF MarkInv

\* A change that starts while no reset is in progress, or the other way about, is no race.
LEMMA ReadMark ==
  ASSUME TypeOK, MarkInv, NEW c \in Callers, NEW k, NEW other, NEW a \in Existing,
         {k, other} = {"change", "reset"}, k # other,
         Becomes(c, [kind |-> k, stage |-> "save", user |-> a,
                     mustChange |-> account[a].mustChange]),
         raced' = Overlapped(a, other), account' = account, request[c] = Idle
  PROVE  MarkInv'
<1>1. /\ request'[c].kind = k /\ request'[c].user = a
      /\ request'[c].mustChange = account[a].mustChange
      /\ \A d \in Callers \ {c} : request'[d] = request[d]
  <2> DEFINE r == [kind |-> k, stage |-> "save", user |-> a, mustChange |-> account[a].mustChange]
  <2>1. r.kind = k /\ r.user = a /\ r.mustChange = account[a].mustChange
    OBVIOUS
  <2> HIDE DEF r
  <2> QED
    BY <2>1, Becoming DEF Only, r
<1>2. raced \subseteq raced'
      /\ \A d \in Callers : request[d].kind = other /\ request[d].user = a => a \in raced'
  BY DEF Overlapped
<1>3. AdminPasswordsAreMarked' /\ Existing' = Existing
  BY <1>2 DEF MarkInv, AdminPasswordsAreMarked, Existing
<1>4. \A d \in Callers : request'[d].kind \in {"change", "reset"} => request'[d].user \in Existing'
  BY <1>1, <1>3 DEF MarkInv
<1>5. \A d, e \in Callers : request'[d].kind = "change" /\ request'[e].kind = "reset"
        /\ request'[d].user = request'[e].user => request'[d].user \in raced'
  BY <1>1, <1>2 DEF MarkInv
<1>6. \A d \in Callers : request'[d].user \notin raced' =>
       /\ request'[d].kind = "change" /\ ~request'[d].mustChange =>
            ~account'[request'[d].user].mustChange
       /\ request'[d].kind = "reset" /\ request'[d].mustChange =>
            account'[request'[d].user].mustChange
  BY <1>1, <1>2 DEF MarkInv
<1> QED
  BY <1>3, <1>4, <1>5, <1>6 DEF MarkInv

LEMMA ChangeMark ==
  ASSUME TypeOK, MarkInv, NEW c \in Callers, ChangeSave(c)
  PROVE  MarkInv'
<1> DEFINE a == request[c].user
<1>1. a \in Ids /\ account[a].exists
  BY DEF MarkInv, ChangeSave, At, Existing
<1>2. /\ request[c].kind = "change" /\ request'[c].kind = "change" /\ request'[c].user = a
      /\ \A d \in Callers \ {c} : request'[d] = request[d]
  BY StepMakes DEF Only, ChangeSave, At
<1>3. raced' = raced
  BY DEF ChangeSave
<1>4. account'[a].exists /\ account'[a].setBy = "holder"
      /\ \A b \in Ids \ {a} : account'[b] = account[b]
  BY <1>1, Changed
<1>5. a \notin raced => ~account'[a].mustChange
                        /\ \A d \in Callers : request[d].kind = "reset" => request[d].user # a
  BY <1>1, <1>2, Changed DEF MarkInv
<1>6. AdminPasswordsAreMarked'
  BY <1>1, <1>3, <1>4, <1>5 DEF MarkInv, AdminPasswordsAreMarked, Existing
<1>7. \A d \in Callers : request'[d].kind \in {"change", "reset"} =>
        /\ request'[d].kind = request[d].kind /\ request'[d].user = request[d].user
        /\ request[d].user \in Ids /\ account[request[d].user].exists
  BY <1>2 DEF MarkInv, Existing
<1>8. \A d \in Callers : request'[d].kind \in {"change", "reset"} => request'[d].user \in Existing'
  BY <1>1, <1>4, <1>7 DEF Existing
<1>9. \A d, e \in Callers : request'[d].kind = "change" /\ request'[e].kind = "reset"
        /\ request'[d].user = request'[e].user => request'[d].user \in raced'
  BY <1>3, <1>7 DEF MarkInv
<1>10. ASSUME NEW d \in Callers, request'[d].user \notin raced
       PROVE  /\ request'[d].kind = "change" /\ ~request'[d].mustChange =>
                   ~account'[request'[d].user].mustChange
              /\ request'[d].kind = "reset" /\ request'[d].mustChange =>
                   account'[request'[d].user].mustChange
  <2>1. CASE request'[d].user = a
    BY <1>5, <1>7, <1>10, <2>1
  <2>2. CASE request'[d].user # a
    <3>1. d # c /\ request'[d] = request[d]
      BY <1>2, <2>2
    <3> QED
      BY <1>4, <1>7, <1>10, <2>2, <3>1 DEF MarkInv
  <2> QED
    BY <2>1, <2>2
<1> QED
  BY <1>3, <1>6, <1>8, <1>9, <1>10 DEF MarkInv

LEMMA ResetMark ==
  ASSUME TypeOK, MarkInv, NEW c \in Callers, ResetSave(c)
  PROVE  MarkInv'
<1> DEFINE a == request[c].user
<1>1. a \in Ids /\ account[a].exists
  BY DEF MarkInv, ResetSave, At, Existing
<1>2. /\ request[c].kind = "reset" /\ request'[c].kind = "idle"
      /\ \A d \in Callers \ {c} : request'[d] = request[d]
  BY StepMakes DEF Only, ResetSave, At
<1>3. raced' = raced
  BY DEF ResetSave
<1>4. account'[a].exists /\ account'[a].setBy = "admin"
      /\ \A b \in Ids \ {a} : account'[b] = account[b]
  BY <1>1, WasReset
<1>5. a \notin raced => account'[a].mustChange
                        /\ \A d \in Callers : request[d].kind = "change" => request[d].user # a
  BY <1>1, <1>2, WasReset DEF MarkInv
<1>6. AdminPasswordsAreMarked'
  BY <1>1, <1>3, <1>4, <1>5 DEF MarkInv, AdminPasswordsAreMarked, Existing
<1>7. \A d \in Callers : request'[d].kind \in {"change", "reset"} =>
        /\ request'[d] = request[d]
        /\ request[d].user \in Ids /\ account[request[d].user].exists
  BY <1>2 DEF MarkInv, Existing
<1>8. \A d \in Callers : request'[d].kind \in {"change", "reset"} => request'[d].user \in Existing'
  BY <1>1, <1>4, <1>7 DEF Existing
<1>9. \A d, e \in Callers : request'[d].kind = "change" /\ request'[e].kind = "reset"
        /\ request'[d].user = request'[e].user => request'[d].user \in raced'
  BY <1>3, <1>7 DEF MarkInv
<1>10. \A d \in Callers : request'[d].user \notin raced =>
         /\ request'[d].kind = "change" /\ ~request'[d].mustChange =>
              ~account'[request'[d].user].mustChange
         /\ request'[d].kind = "reset" /\ request'[d].mustChange =>
              account'[request'[d].user].mustChange
  BY <1>4, <1>5, <1>7 DEF MarkInv
<1> QED
  BY <1>3, <1>6, <1>8, <1>9, <1>10 DEF MarkInv

LEMMA NextMark == TypeOK /\ MarkInv /\ [Next]_vars => MarkInv'
<1> SUFFICES ASSUME TypeOK, MarkInv, [Next]_vars
             PROVE  MarkInv'
  OBVIOUS
<1>1. ASSUME NEW c \in Callers, ChangeSave(c) \/ ResetSave(c) PROVE MarkInv'
  BY <1>1, ChangeMark, ResetMark
<1>2. ASSUME NEW c \in Callers, ChangeRead(c) PROVE MarkInv'
  BY <1>2, ReadMark DEF ChangeRead, Begin
<1>3. ASSUME NEW c \in Callers, ResetRead(c) PROVE MarkInv'
  BY <1>3, ReadMark DEF ResetRead, Begin
<1>4. account' = account => MarksKept
  BY DEF MarksKept, KeepsMarks
<1>5. ASSUME NEW c \in Callers, Create(c) \/ Grant(c) \/ ProfileUpdate(c) PROVE MarkInv'
  <2>1. MarksKept
    <3>1. CASE Create(c)
      BY <1>4, <3>1, Opened DEF MarksKept, KeepsMarks, Existing
    <3>2. CASE Grant(c) \/ ProfileUpdate(c)
      BY <3>2, Granted, Moved DEF MarksKept
    <3> QED
      BY <1>5, <3>1, <3>2
  <2>2. \A d \in Callers : request'[d].kind \in {"change", "reset"} => request'[d] = request[d]
    BY <1>5, StepMakes DEF Only
  <2>3. raced' = raced
    BY <1>5 DEF Create, CodeTaken, Grant, ProfileUpdate
  <2> QED
    BY <2>1, <2>2, <2>3, PasswordsKept
<1>6. ASSUME NEW c \in Callers,
             \/ CreateCheck(c) \/ ProfileCheck(c) \/ LoginCheck(c) \/ Rotate(c) \/ Issue(c)
             \/ LogoutEverywhere(c) \/ ChangeSignsOut(c) \/ DevicePush(c)
      PROVE  MarkInv'
  <2>1. account' = account /\ raced' = raced
    BY <1>6 DEF CreateCheck, ProfileCheck, LoginCheck, Rotate, Issue, LogoutEverywhere,
                ChangeSignsOut, DevicePush
  <2>2. LogoutEverywhere(c) => request' = request
    BY DEF LogoutEverywhere
  <2>3. \A d \in Callers : request'[d].kind \in {"change", "reset"} => request'[d] = request[d]
    BY <1>6, <2>2, StepMakes DEF Only
  <2> QED
    BY <1>4, <2>1, <2>3, PasswordsKept
<1>7. ASSUME NEW c \in Callers, DevicePull(c) PROVE MarkInv'
  <2>1. account' = account /\ raced' = raced
    BY <1>7 DEF DevicePull
  <2>2. \A d \in Callers : request'[d].kind \in {"change", "reset"} => request'[d] = request[d]
    BY <1>7, PullMakes
  <2> QED
    BY <1>4, <2>1, <2>2, PasswordsKept
<1>8. CASE SessionEnds \/ ForgetDevice \/ Crash \/ UNCHANGED vars
  BY <1>4, <1>8, PasswordsKept DEF SessionEnds, ForgetDevice, Crash, vars, Idle
<1> QED
  BY <1>1, <1>2, <1>3, <1>5, <1>6, <1>7, <1>8 DEF Next, Step

-----------------------------------------------------------------------------
(* A free order for each invitee.                                          *)

\* Who invited an account, or the customer of a registration, has an account; nobody
\* invites a supplier.  As many invitees and registrations in progress as there are, they
\* are finitely many.
InvitersExist ==
  /\ \A i \in Existing : account[i].referredBy \in Existing \union {None}
  /\ \A c \in Callers : request[c].kind = "create" =>
       /\ request[c].inviter \in Existing \union {None}
       /\ request[c].stage = "create" /\ request[c].role = "supplier" =>
            request[c].inviter = None

FinitelyMany == \A a \in Existing : IsFiniteSet(Invitees(a)) /\ IsFiniteSet(OwedFor(a))

RewardInv == RewardsMatchInvitees /\ InvitersExist /\ FinitelyMany

\* Whose reward a caller's registration owes.
Owes(c, a) == At(c, "create", "grant") /\ request[c].inviter = a

\* A step that grants nothing, after which the registrations of the others stand.
LEMMA NothingEarned ==
  ASSUME TypeOK, RewardInv, KeepsRewards, crashes' = crashes, InvitersExist',
         \A d \in Callers, a \in Ids : Owes(d, a)' <=> Owes(d, a)
  PROVE  RewardInv'
<1>1. Existing' = Existing
  BY DEF KeepsRewards, Existing
<1>2. \A a \in Existing : OwedFor(a)' = OwedFor(a) /\ Invitees(a)' = Invitees(a)
  BY <1>1 DEF OwedFor, Owes, At, Invitees, KeepsRewards, Existing
<1>3. \A a \in Existing : account'[a].freeOrders = account[a].freeOrders
  BY DEF KeepsRewards, Existing
<1>4. RewardsMatchInvitees'
  BY <1>1, <1>2, <1>3 DEF RewardInv, RewardsMatchInvitees
<1>5. FinitelyMany'
  BY <1>1, <1>2 DEF RewardInv, FinitelyMany
<1> QED
  BY <1>4, <1>5 DEF RewardInv

\* Requests of other kinds owe nobody anything.
LEMMA NoRegistration ==
  ASSUME TypeOK, RewardInv, KeepsRewards, crashes' = crashes,
         \A d \in Callers : \/ request'[d] = request[d]
                            \/ request[d].kind # "create" /\ request'[d].kind # "create"
  PROVE  RewardInv'
<1>1. Existing' = Existing
  BY DEF KeepsRewards, Existing
<1>2. InvitersExist'
  BY <1>1 DEF RewardInv, InvitersExist, KeepsRewards, Existing
<1>3. \A d \in Callers, a \in Ids : Owes(d, a)' <=> Owes(d, a)
  BY DEF Owes, At
<1> QED
  BY <1>2, <1>3, NothingEarned

LEMMA CheckReward ==
  ASSUME TypeOK, RewardInv, NEW c \in Callers, CreateCheck(c)
  PROVE  RewardInv'
<1>1. PICK email \in Emails, role \in Roles, inviter \in Existing \union {None} :
        /\ role = "supplier" => inviter = None
        /\ Becomes(c, [kind |-> "create", stage |-> "create", email |-> email, role |-> role,
                       user |-> None, inviter |-> inviter])
  BY DEF CreateCheck
<1>2. /\ request'[c].kind = "create" /\ request'[c].stage = "create"
      /\ request'[c].role = role /\ request'[c].inviter = inviter
      /\ \A d \in Callers \ {c} : request'[d] = request[d]
  BY <1>1, Becoming DEF Only
<1>3. request[c].kind # "create" /\ account' = account /\ crashes' = crashes
  BY DEF CreateCheck, Begin, Idle
<1>4. KeepsRewards /\ Existing' = Existing
  BY <1>3 DEF KeepsRewards, Existing
<1>5. InvitersExist'
  BY <1>1, <1>2, <1>3, <1>4 DEF RewardInv, InvitersExist
<1>6. \A d \in Callers, a \in Ids : Owes(d, a)' <=> Owes(d, a)
  BY <1>2, <1>3 DEF Owes, At
<1> QED
  BY <1>3, <1>4, <1>5, <1>6, NothingEarned

\* An invitee more, and a reward more that is owed.
LEMMA CreateReward ==
  ASSUME TypeOK, RewardInv, NEW c \in Callers, Create(c)
  PROVE  RewardInv'
<1>1. At(c, "create", "create") /\ crashes' = crashes /\ request[c] \in Creating
  BY Stages DEF Create
<1>2. CASE CodeTaken(c)
  <2>1. request'[c].kind = "idle" /\ Only(c) /\ account' = account
    BY <1>2, Becoming, Kinds DEF CodeTaken, Ends
  <2>2. KeepsRewards /\ Existing' = Existing
    BY <2>1 DEF KeepsRewards, Existing
  <2>3. InvitersExist'
    BY <2>1, <2>2 DEF RewardInv, InvitersExist, Only
  <2>4. \A d \in Callers, a \in Ids : Owes(d, a)' <=> Owes(d, a)
    BY <1>1, <2>1 DEF Owes, At, Only
  <2> QED
    BY <1>1, <2>2, <2>3, <2>4, NothingEarned
<1>3. CASE Created(c)
  <2> DEFINE i == request[c].inviter
  <2>1. PICK n \in Ids \ Existing :
          /\ Sets(n, Account(request[c].email, request[c].role, i))
          /\ IF request[c].role = "supplier" THEN Ends(c)
             ELSE Becomes(c, [request[c] EXCEPT !.stage = "grant", !.user = n])
    BY <1>3 DEF Created
  <2>2. account'[n] = Account(request[c].email, request[c].role, i)
        /\ \A b \in Ids \ {n} : account'[b] = account[b]
    BY <2>1, Setting
  <2>3. account'[n].exists /\ account'[n].freeOrders = 0 /\ account'[n].referredBy = i
    BY <2>2 DEF Account
  <2>4. Existing' = Existing \union {n}
    BY <2>1, <2>2, <2>3 DEF Existing
  <2>5. /\ i \in Existing \union {None}
        /\ request[c].role = "supplier" => i = None
    BY <1>1 DEF RewardInv, InvitersExist, At
  <2>6. /\ Only(c)
        /\ IF request[c].role = "supplier" THEN request'[c].kind = "idle"
           ELSE /\ request'[c].kind = "create" /\ request'[c].stage = "grant"
                /\ request'[c].inviter = i
    <3>1. CASE request[c].role = "supplier"
      BY <2>1, <3>1, Becoming, Kinds DEF Ends
    <3>2. CASE request[c].role # "supplier"
      <4> DEFINE g == [request[c] EXCEPT !.stage = "grant", !.user = n]
      <4>1. g.kind = "create" /\ g.stage = "grant" /\ g.inviter = i
        BY <1>1 DEF Creating
      <4>2. Becomes(c, g)
        BY <2>1, <3>2
      <4> HIDE DEF g
      <4>3. request'[c] = g /\ Only(c)
        BY <4>2, Becoming
      <4> QED
        BY <3>2, <4>1, <4>3
    <3> QED
      BY <3>1, <3>2
  <2>7. /\ n # None /\ n # i /\ Existing \subseteq Ids
        /\ \A b \in Existing : account[b].referredBy # n
        /\ \A d \in Callers : request[d].kind = "create" => request[d].inviter # n
    BY <2>1, <2>5, NoneAssumption DEF RewardInv, InvitersExist, Existing
  <2>8. ASSUME NEW a \in Existing
        PROVE  /\ account'[a] = account[a]
               /\ IF a = i
                  THEN /\ Invitees(a)' = Invitees(a) \union {n} /\ n \notin Invitees(a)
                       /\ OwedFor(a)' = OwedFor(a) \union {c} /\ c \notin OwedFor(a)
                  ELSE Invitees(a)' = Invitees(a) /\ OwedFor(a)' = OwedFor(a)
    <3>1. a \in Ids /\ a # n /\ a # None
      BY <2>1, NoneAssumption DEF Existing
    <3>2. \A b \in Existing : account'[b] = account[b]
      BY <2>1, <2>2 DEF Existing
    <3>3. IF a = i THEN Invitees(a)' = Invitees(a) \union {n} ELSE Invitees(a)' = Invitees(a)
      BY <2>3, <2>4, <3>2 DEF Invitees
    <3>4. n \notin Invitees(a)
      BY <2>1 DEF Invitees
    <3>5. c \notin OwedFor(a)
      BY <1>1 DEF OwedFor, At
    <3>6. CASE a = i
      <4>1. request'[c].kind = "create" /\ request'[c].stage = "grant" /\ request'[c].inviter = a
        BY <2>5, <2>6, <3>1, <3>6
      <4>2. OwedFor(a)' = OwedFor(a) \union {c}
        BY <2>6, <4>1 DEF OwedFor, At, Only
      <4> QED
        BY <3>1, <3>2, <3>3, <3>4, <3>5, <3>6, <4>2
    <3>7. CASE a # i
      <4>1. ~(/\ request'[c].kind = "create" /\ request'[c].stage = "grant"
              /\ request'[c].inviter = a)
        BY <2>6, <3>7
      <4>2. OwedFor(a)' = OwedFor(a)
        BY <1>1, <2>6, <4>1 DEF OwedFor, At, Only
      <4> QED
        BY <3>1, <3>2, <3>3, <3>7, <4>2
    <3> QED
      BY <3>6, <3>7
  <2>9. Invitees(n)' = {} /\ OwedFor(n)' = {}
    <3>1. Invitees(n)' = {}
      BY <2>1, <2>2, <2>3, <2>4, <2>7 DEF Invitees, Existing
    <3>2. \A d \in Callers : ~Owes(d, n)'
      BY <2>6, <2>7 DEF Owes, At, Only
    <3> QED
      BY <3>1, <3>2 DEF OwedFor, Owes
  <2>10. InvitersExist'
    <3>1. \A b \in Existing' : account'[b].referredBy \in Existing' \union {None}
      BY <2>3, <2>4, <2>5, <2>8 DEF RewardInv, InvitersExist
    <3>2. \A d \in Callers : request'[d].kind = "create" =>
            /\ request'[d].inviter \in Existing' \union {None}
            /\ request'[d].stage = "create" /\ request'[d].role = "supplier" =>
                 request'[d].inviter = None
      BY <2>4, <2>5, <2>6 DEF RewardInv, InvitersExist, Only
    <3> QED
      BY <3>1, <3>2 DEF InvitersExist
  <2>11. ASSUME NEW a \in Existing
         PROVE  /\ IsFiniteSet(Invitees(a)') /\ IsFiniteSet(OwedFor(a)')
                /\ Cardinality(Invitees(a)) \in Nat /\ Cardinality(OwedFor(a)) \in Nat
                /\ \/ /\ Cardinality(Invitees(a)') = Cardinality(Invitees(a)) + 1
                      /\ Cardinality(OwedFor(a)') = Cardinality(OwedFor(a)) + 1
                   \/ /\ Cardinality(Invitees(a)') = Cardinality(Invitees(a))
                      /\ Cardinality(OwedFor(a)') = Cardinality(OwedFor(a))
    <3>1. IsFiniteSet(Invitees(a)) /\ IsFiniteSet(OwedFor(a))
      BY DEF RewardInv, FinitelyMany
    <3>2. Cardinality(Invitees(a)) \in Nat /\ Cardinality(OwedFor(a)) \in Nat
      BY <3>1, FS_CardinalityType
    <3>3. CASE a = i
      BY <2>8, <3>1, <3>2, <3>3, FS_AddElement
    <3>4. CASE a # i
      BY <2>8, <3>1, <3>2, <3>4
    <3> QED
      BY <3>3, <3>4
  <2>12. IsFiniteSet({}) /\ Cardinality({}) = 0
    BY FS_EmptySet
  <2>13. FinitelyMany'
    BY <2>4, <2>9, <2>11, <2>12 DEF FinitelyMany
  <2>14. ASSUME NEW a \in Existing
         PROVE  LET earned == account'[a].freeOrders + Cardinality(OwedFor(a)')
                IN  IF crashes' = 0 THEN earned = Cardinality(Invitees(a)')
                                    ELSE earned <= Cardinality(Invitees(a)')
    <3>1. account'[a].freeOrders = account[a].freeOrders /\ account[a].freeOrders \in Nat
      BY <2>8, ExistingType DEF Accounts
    <3>2. LET earned == account[a].freeOrders + Cardinality(OwedFor(a))
          IN  IF crashes = 0 THEN earned = Cardinality(Invitees(a))
                             ELSE earned <= Cardinality(Invitees(a))
      BY DEF RewardInv, RewardsMatchInvitees
    <3> QED
      BY <1>1, <2>11, <3>1, <3>2
  <2>15. RewardsMatchInvitees'
    BY <2>3, <2>4, <2>9, <2>12, <2>14 DEF RewardsMatchInvitees
  <2> QED
    BY <2>10, <2>13, <2>15 DEF RewardInv
<1> QED
  BY <1>2, <1>3 DEF Create

\* A reward that was owed is granted.
LEMMA GrantReward ==
  ASSUME TypeOK, RewardInv, NEW c \in Callers, Grant(c)
  PROVE  RewardInv'
<1> DEFINE i == request[c].inviter
<1>1. At(c, "create", "grant") /\ crashes' = crashes /\ i \in Existing \union {None}
  BY DEF Grant, At, RewardInv, InvitersExist
<1>2. request'[c].kind = "issue" /\ \A d \in Callers \ {c} : request'[d] = request[d]
  BY StepMakes DEF Only
<1>3. /\ \A a \in Existing : a \in Ids /\ a # None
      /\ \A a \in Ids : account'[a].exists <=> account[a].exists
      /\ \A a \in Existing : /\ account'[a].referredBy = account[a].referredBy
                             /\ account[a].freeOrders \in Nat
                             /\ account'[a].freeOrders = IF a = i THEN account[a].freeOrders + 1
                                                         ELSE account[a].freeOrders
  <2>1. \A a \in Existing : a \in Ids /\ a # None /\ account[a].freeOrders \in Nat
    BY ExistingType, NoneAssumption DEF Accounts
  <2>2. CASE i = None
    BY <2>1, <2>2 DEF Grant
  <2>3. CASE i # None
    <3> DEFINE r == [account[i] EXCEPT !.freeOrders = @ + 1]
    <3>1. i \in Existing /\ account[i] \in Accounts
      BY <1>1, <2>3, ExistingType
    <3>2. Sets(i, r)
      BY <2>3 DEF Grant, Rewarded
    <3>3. /\ r.exists /\ r.referredBy = account[i].referredBy
          /\ r.freeOrders = account[i].freeOrders + 1
      BY <3>1 DEF Accounts
    <3> HIDE DEF r, i
    <3>4. account'[i] = r /\ \A b \in Ids \ {i} : account'[b] = account[b]
      BY <2>1, <3>1, <3>2, Setting
    <3> QED
      BY <2>1, <3>1, <3>3, <3>4 DEF Existing
  <2> QED
    BY <2>2, <2>3
<1>4. Existing' = Existing
  BY <1>3 DEF Existing
<1>5. InvitersExist'
  BY <1>2, <1>3, <1>4 DEF RewardInv, InvitersExist
<1>6. ASSUME NEW a \in Existing
      PROVE  /\ Invitees(a)' = Invitees(a) /\ OwedFor(a)' = OwedFor(a) \ {c}
             /\ c \in OwedFor(a) <=> a = i
  BY <1>1, <1>2, <1>3, <1>4 DEF Invitees, OwedFor, At
<1>7. ASSUME NEW a \in Existing
      PROVE  /\ IsFiniteSet(OwedFor(a)') /\ Cardinality(OwedFor(a)) \in Nat
             /\ Cardinality(OwedFor(a)') = IF a = i THEN Cardinality(OwedFor(a)) - 1
                                           ELSE Cardinality(OwedFor(a))
             /\ Cardinality(Invitees(a)) \in Nat
  BY <1>6, FS_RemoveElement, FS_CardinalityType DEF RewardInv, FinitelyMany
<1>8. FinitelyMany'
  BY <1>4, <1>6, <1>7 DEF RewardInv, FinitelyMany
<1>9. ASSUME NEW a \in Existing
      PROVE  LET earned == account'[a].freeOrders + Cardinality(OwedFor(a)')
             IN  IF crashes' = 0 THEN earned = Cardinality(Invitees(a)')
                                 ELSE earned <= Cardinality(Invitees(a)')
  <2>1. LET earned == account[a].freeOrders + Cardinality(OwedFor(a))
        IN  IF crashes = 0 THEN earned = Cardinality(Invitees(a))
                           ELSE earned <= Cardinality(Invitees(a))
    BY DEF RewardInv, RewardsMatchInvitees
  <2> QED
    BY <1>1, <1>3, <1>6, <1>7, <2>1
<1>10. RewardsMatchInvitees'
  BY <1>4, <1>9 DEF RewardsMatchInvitees
<1> QED
  BY <1>5, <1>8, <1>10 DEF RewardInv

\* A crash loses the rewards that were owed, and there has been one then.
LEMMA CrashReward ==
  ASSUME TypeOK, RewardInv, Crash
  PROVE  RewardInv'
<1>1. /\ account' = account /\ crashes \in Nat /\ crashes' = crashes + 1
      /\ \A c \in Callers : request'[c].kind = "idle"
  BY DEF Crash, TypeOK, Idle
<1>2. Existing' = Existing /\ \A a \in Existing : Invitees(a)' = Invitees(a)
  BY <1>1 DEF Existing, Invitees
<1>3. \A a \in Existing : OwedFor(a)' = {}
  BY <1>1 DEF OwedFor, At
<1>4. IsFiniteSet({}) /\ Cardinality({}) = 0
  BY FS_EmptySet
<1>5. InvitersExist' /\ FinitelyMany'
  BY <1>1, <1>2, <1>3, <1>4 DEF RewardInv, InvitersExist, FinitelyMany
<1>6. ASSUME NEW a \in Existing
      PROVE  account[a].freeOrders + 0 <= Cardinality(Invitees(a))
  <2>1. /\ Cardinality(Invitees(a)) \in Nat /\ Cardinality(OwedFor(a)) \in Nat
        /\ account[a].freeOrders \in Nat
    BY FS_CardinalityType, ExistingType DEF RewardInv, FinitelyMany, Accounts
  <2>2. LET earned == account[a].freeOrders + Cardinality(OwedFor(a))
        IN  IF crashes = 0 THEN earned = Cardinality(Invitees(a))
                           ELSE earned <= Cardinality(Invitees(a))
    BY DEF RewardInv, RewardsMatchInvitees
  <2> QED
    BY <2>1, <2>2
<1>7. RewardsMatchInvitees'
  BY <1>1, <1>2, <1>3, <1>4, <1>6 DEF RewardsMatchInvitees
<1> QED
  BY <1>5, <1>7 DEF RewardInv

LEMMA NextReward == TypeOK /\ RewardInv /\ [Next]_vars => RewardInv'
<1> SUFFICES ASSUME TypeOK, RewardInv, [Next]_vars
             PROVE  RewardInv'
  OBVIOUS
<1>1. ASSUME NEW c \in Callers, CreateCheck(c) \/ Create(c) \/ Grant(c) PROVE RewardInv'
  BY <1>1, CheckReward, CreateReward, GrantReward
<1>2. account' = account => KeepsRewards
  BY DEF KeepsRewards
<1>3. ASSUME NEW c \in Callers, ProfileUpdate(c) \/ ChangeSave(c) \/ ResetSave(c)
      PROVE  RewardInv'
  <2>1. KeepsRewards
    BY <1>3, Moved, Changed, WasReset
  <2>2. /\ request[c].kind # "create" /\ request'[c].kind # "create" /\ Only(c)
    BY <1>3, StepMakes DEF ProfileUpdate, ChangeSave, ResetSave, At
  <2>3. crashes' = crashes
    BY <1>3 DEF ProfileUpdate, ChangeSave, ResetSave
  <2> QED
    BY <2>1, <2>2, <2>3, NoRegistration DEF Only
<1>4. ASSUME NEW c \in Callers,
             \/ ProfileCheck(c) \/ LoginCheck(c) \/ Rotate(c) \/ Issue(c) \/ ChangeRead(c)
             \/ ChangeSignsOut(c) \/ ResetRead(c) \/ DevicePush(c)
      PROVE  RewardInv'
  <2>1. account' = account /\ crashes' = crashes
    BY <1>4 DEF ProfileCheck, LoginCheck, Rotate, Issue, ChangeRead, ChangeSignsOut, ResetRead,
                DevicePush
  <2>2. request[c].kind # "create"
    <3>1. Begin(c) => request[c].kind = "idle"
      BY DEF Begin, Idle
    <3>2. CASE Issue(c) \/ ChangeSignsOut(c) \/ DevicePush(c)
      BY <3>2 DEF Issue, ChangeSignsOut, DevicePush, At
    <3>3. CASE ~(Issue(c) \/ ChangeSignsOut(c) \/ DevicePush(c))
      BY <1>4, <3>1, <3>3 DEF ProfileCheck, LoginCheck, Rotate, ChangeRead, ResetRead
    <3> QED
      BY <3>2, <3>3
  <2>3. request'[c].kind # "create" /\ Only(c)
    BY <1>4, StepMakes
  <2> QED
    BY <1>2, <2>1, <2>2, <2>3, NoRegistration DEF Only
<1>5. ASSUME NEW c \in Callers, LogoutEverywhere(c) PROVE RewardInv'
  BY <1>2, <1>5, NoRegistration DEF LogoutEverywhere
<1>6. ASSUME NEW c \in Callers, DevicePull(c) PROVE RewardInv'
  <2>1. \A d \in Callers : \/ request'[d] = request[d]
                           \/ request[d].kind # "create" /\ request'[d].kind # "create"
    <3>1. request[c].kind = "idle"
      BY <1>6 DEF DevicePull, Begin, Idle
    <3> QED
      BY <1>6, <3>1, PullMakes DEF OnPhone
  <2> QED
    BY <1>2, <1>6, <2>1, NoRegistration DEF DevicePull
<1>7. CASE SessionEnds \/ ForgetDevice \/ UNCHANGED vars
  BY <1>2, <1>7, NoRegistration DEF SessionEnds, ForgetDevice, vars
<1>8. CASE Crash
  BY <1>8, CrashReward
<1> QED
  BY <1>1, <1>3, <1>4, <1>5, <1>6, <1>7, <1>8 DEF Next, Step

-----------------------------------------------------------------------------
(* The theorems.                                                           *)

Inv == TypeOK /\ SessionInv /\ PhoneInv /\ OneAccountPerEmail /\ MarkInv /\ RewardInv

LEMMA InitInv == Init => Inv
<1> SUFFICES ASSUME Init
             PROVE  Inv
  OBVIOUS
<1>1. live = {} /\ raced = {} /\ \A c \in Callers : request[c].kind = "idle"
  BY DEF Init, Idle
<1>2. SessionInv /\ PhoneInv
  BY <1>1 DEF SessionInv, OneTokenPerSignIn, Issuing, PhoneInv
<1>3. PICK a \in Ids, e \in Emails, b \in Ids \union {None}, f \in Emails :
        /\ b # a /\ f # e
        /\ account = [i \in Ids |-> CASE i = a -> Account(e, "supplier", None)
                                      [] i = b -> Account(f, "customer", None)
                                      [] OTHER -> NoAccount]
  BY DEF Init
<1>4. /\ Account(e, "supplier", None).email = e /\ Account(f, "customer", None).email = f
      /\ Account(e, "supplier", None).mustChange
      /\ Account(e, "supplier", None).setBy = "admin"
      /\ ~Account(f, "customer", None).mustChange
      /\ Account(f, "customer", None).setBy = "holder"
      /\ ~NoAccount.exists
  BY DEF Account, NoAccount
<1>5. \A i \in Existing : \/ i = a /\ account[i] = Account(e, "supplier", None)
                          \/ i = b /\ account[i] = Account(f, "customer", None)
  BY <1>3, <1>4 DEF Existing
<1>6. OneAccountPerEmail /\ AdminPasswordsAreMarked
  BY <1>3, <1>4, <1>5 DEF OneAccountPerEmail, AdminPasswordsAreMarked
<1>7. \A i \in Existing : account[i].referredBy = None /\ account[i].freeOrders = 0
  BY <1>5 DEF Account
<1>8. InvitersExist
  BY <1>1, <1>7 DEF InvitersExist
<1>9. \A i \in Existing : Invitees(i) = {} /\ OwedFor(i) = {}
  BY <1>1, <1>7, NoneAssumption DEF Invitees, OwedFor, At, Existing
<1>10. IsFiniteSet({}) /\ Cardinality({}) = 0
  BY FS_EmptySet
<1>11. FinitelyMany
  BY <1>9, <1>10 DEF FinitelyMany
<1>12. ASSUME NEW i \in Existing
       PROVE  account[i].freeOrders + Cardinality(OwedFor(i)) = Cardinality(Invitees(i))
  BY <1>7, <1>9, <1>10
<1>13. crashes = 0
  BY DEF Init
<1>14. RewardsMatchInvitees
  BY <1>12, <1>13 DEF RewardsMatchInvitees
<1> QED
  BY <1>1, <1>2, <1>6, <1>8, <1>11, <1>14, InitType DEF Inv, MarkInv, RewardInv

LEMMA NextInv == Inv /\ [Next]_vars => Inv'
BY NextType, NextSession, NextPhone, NextAddresses, NextMark, NextReward DEF Inv

\* The type, and the invariants that tokens and addresses rest on, hold in every state.
THEOREM SpecInv == Spec => []Inv
<1>1. Init => Inv
  BY InitInv
<1>2. Inv /\ [Next]_vars => Inv'
  BY NextInv
<1> QED
  BY <1>1, <1>2, PTL DEF Spec

\* The collections and the requests hold what their types say.
THEOREM TypeCorrect == Spec => []TypeOK
<1>1. Inv => TypeOK
  BY DEF Inv
<1> QED
  BY <1>1, SpecInv, PTL

\* No sign-in ever has two good refresh tokens, nor one beside another on its way.
THEOREM TokensAreUsedOnce == Spec => []OneTokenPerSignIn
<1>1. Inv => OneTokenPerSignIn
  BY DEF Inv, SessionInv
<1> QED
  BY <1>1, SpecInv, PTL

\* However registrations, new sign-ins and changes of address interleave, an address
\* belongs to one account.
THEOREM AddressesAreUnique == Spec => []OneAccountPerEmail
<1>1. Inv => OneAccountPerEmail
  BY DEF Inv
<1> QED
  BY <1>1, SpecInv, PTL

\* An inviter has a free order for every invitee whose registration is through, and no
\* other; after a crash, never more than that.
THEOREM RewardsAreEarned == Spec => []RewardsMatchInvitees
<1>1. Inv => RewardsMatchInvitees
  BY DEF Inv, RewardInv
<1> QED
  BY <1>1, SpecInv, PTL

\* Where no change and reset overlapped, mustChangePassword marks the admin's passwords
\* and no others.
THEOREM MarksAreRight == Spec => []AdminPasswordsAreMarked
<1>1. Inv => AdminPasswordsAreMarked
  BY DEF Inv, MarkInv
<1> QED
  BY <1>1, SpecInv, PTL

\* A registration that nobody overlapped leaves the phone with its account alone.
THEOREM PhonesChangeHands == Spec => PhoneIsHandedOver
<1> DEFINE Handed == \A c \in Callers :
                       At(c, "device", "push") /\ request[c].alone /\ DevicePush(c) =>
                         holders'[request[c].phone] = {request[c].user}
<1>1. Inv /\ [Next]_vars => [Handed]_vars
  <2>1. Inv => Handed
    BY PushPhone DEF Inv
  <2> QED
    BY <2>1
<1> HIDE DEF Handed
<1>2. Spec => [][Handed]_vars
  BY <1>1, SpecInv, PTL DEF Spec
<1> QED
  BY <1>2 DEF PhoneIsHandedOver, Handed
===============================================================================
