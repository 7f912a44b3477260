------------------------------- MODULE Accounts -------------------------------
(***************************************************************************)
(* Accounts, sign-ins and the phones they are told on (AuthService,         *)
(* UsersService and the supplier sign-ins that an admin makes).  Each       *)
(* request runs in steps between which others run: a find before a create,  *)
(* a read before a save, a token deleted before its successor is stored.    *)
(* MongoDB makes one write atomic and nothing more; unique indexes refuse a *)
(* second account of an email address.  The process may stop between any    *)
(* two steps.                                                              *)
(*                                                                         *)
(* A password is who chose it.  Callers without the right one are refused   *)
(* and change nothing, so the callers here have it.                         *)
(***************************************************************************)
EXTENDS Naturals, FiniteSets

CONSTANTS
  Ids,         \* account ids
  Emails,
  Phones,      \* installs of the app: device tokens
  Callers,     \* requests that may be in progress at once
  None,        \* nobody
  MaxRequests, \* bound on the requests made
  MaxCrashes   \* bound on the restarts

ASSUME NoneAssumption == None \notin Ids
ASSUME BoundsAssumption == MaxRequests \in Nat /\ MaxCrashes \in Nat

VARIABLES
  account,  \* the users collection
  live,     \* the sessions collection: refresh tokens that are good
  signIns,  \* how many sign-ins there have been
  signOuts, \* how often all of an account's sessions were deleted
  holders,  \* the accounts a phone's token is filed under
  request,  \* the progress of each request
  raced,    \* accounts of which a change and a reset of the password overlapped
  begun,    \* requests so far
  crashes   \* restarts so far

vars == <<account, live, signIns, signOuts, holders, request, raced, begun, crashes>>

Idle == [kind |-> "idle"]
NoAccount == [exists |-> FALSE]

Roles == {"customer", "supplier"}

\* A customer chooses a password; a supplier's sign-in gets one from the admin who opens it.
Account(email, role, referredBy) ==
  [exists |-> TRUE, email |-> email, role |-> role, referredBy |-> referredBy, freeOrders |-> 0,
   setBy |-> IF role = "supplier" THEN "admin" ELSE "holder",
   mustChange |-> role = "supplier"]

Existing == {a \in Ids : account[a].exists}
Taken(email) == \E a \in Existing : account[a].email = email

\* An admin has opened a supplier's sign-in, a customer may have signed up, and nobody is
\* signed in.
Init ==
  /\ \E a \in Ids, e \in Emails, b \in Ids \union {None}, f \in Emails :
       /\ b # a /\ f # e
       /\ account = [i \in Ids |-> CASE i = a -> Account(e, "supplier", None)
                                     [] i = b -> Account(f, "customer", None)
                                     [] OTHER -> NoAccount]
  /\ live = {}
  /\ signIns = 0
  /\ signOuts = [a \in Ids |-> 0]
  /\ holders = [p \in Phones |-> {}]
  /\ request = [c \in Callers |-> Idle]
  /\ raced = {}
  /\ begun = 0
  /\ crashes = 0

-----------------------------------------------------------------------------
(* How a request goes on.                                                  *)

Begin(c) == request[c] = Idle /\ begun < MaxRequests /\ begun' = begun + 1

At(c, kind, stage) == request[c].kind = kind /\ request[c].stage = stage

Becomes(c, r) == request' = [request EXCEPT ![c] = r]

GoesOn(c, stage) == Becomes(c, [request[c] EXCEPT !.stage = stage])

Ends(c) == Becomes(c, Idle)

Sets(a, record) == account' = [account EXCEPT ![a] = record]

-----------------------------------------------------------------------------
(* Opening an account.                                                     *)

\* register, or an admin's createUser: exists(email), and whose referral code it came with.
CreateCheck(c) ==
  /\ Begin(c)
  /\ \E email \in Emails, role \in Roles,
       inviter \in {a \in Existing : account[a].role = "customer"} \union {None} :
       /\ ~Taken(email)
       /\ role = "supplier" => inviter = None
       /\ Becomes(c, [kind |-> "create", stage |-> "create", email |-> email, role |-> role,
                      user |-> None, inviter |-> inviter])
  /\ UNCHANGED <<account, live, signIns, signOuts, holders, raced, crashes>>

Created(c) ==
  \E a \in Ids \ Existing :
    /\ Sets(a, Account(request[c].email, request[c].role, request[c].inviter))
    /\ IF request[c].role = "supplier" THEN Ends(c)
       ELSE Becomes(c, [request[c] EXCEPT !.stage = "grant", !.user = a])

\* Mutant: the collection has no unique index.
Create_NoIndex(c) ==
  /\ At(c, "create", "create")
  /\ Created(c)
  /\ UNCHANGED <<live, signIns, signOuts, holders, raced, begun, crashes>>

\* mintReferralCode looks before it leaps too, and its last resort not even that: the
\* unique index may refuse a code, and the account with it.
CodeTaken(c) == Ends(c) /\ UNCHANGED account

\* The unique index on the email address decides, and the one on referral codes.
Create(c) ==
  /\ At(c, "create", "create")
  /\ \/ CodeTaken(c)
     \/ ~Taken(request[c].email) /\ Created(c)
  /\ UNCHANGED <<live, signIns, signOuts, holders, raced, begun, crashes>>

\* Mutant: the reward is for having a code, and lands on the invitee.
Rewarded_Invitee(c) == request[c].user

Rewarded(c) == request[c].inviter

\* grantFreeOrder, an atomic increment; then the new customer is signed in.
Grant(c) ==
  /\ At(c, "create", "grant")
  /\ IF request[c].inviter = None THEN UNCHANGED account
     ELSE Sets(Rewarded(c), [account[Rewarded(c)] EXCEPT !.freeOrders = @ + 1])
  /\ Becomes(c, [kind |-> "issue", stage |-> "issue", user |-> request[c].user,
                 signIn |-> signIns + 1, since |-> signOuts[request[c].user]])
  /\ signIns' = signIns + 1
  /\ UNCHANGED <<live, signOuts, holders, raced, begun, crashes>>

\* updateProfile with another email address: taken by anybody else?
ProfileCheck(c) ==
  /\ Begin(c)
  /\ \E a \in Existing, email \in Emails :
       /\ ~\E b \in Existing \ {a} : account[b].email = email
       /\ Becomes(c, [kind |-> "profile", stage |-> "update", user |-> a, email |-> email])
  /\ UNCHANGED <<account, live, signIns, signOuts, holders, raced, crashes>>

ProfileUpdate(c) ==
  /\ At(c, "profile", "update")
  /\ LET a == request[c].user IN
     IF \E b \in Existing \ {a} : account[b].email = request[c].email
     THEN UNCHANGED account
     ELSE Sets(a, [account[a] EXCEPT !.email = request[c].email])
  /\ Ends(c)
  /\ UNCHANGED <<live, signIns, signOuts, holders, raced, begun, crashes>>

-----------------------------------------------------------------------------
(* Sessions.                                                               *)

\* login: the password is compared with the hash that was read.
LoginCheck(c) ==
  /\ Begin(c)
  /\ \E a \in Existing :
       Becomes(c, [kind |-> "issue", stage |-> "issue", user |-> a, signIn |-> signIns + 1,
                   since |-> signOuts[a]])
  /\ signIns' = signIns + 1
  /\ UNCHANGED <<account, live, signOuts, holders, raced, crashes>>

\* Mutant: the presented token stays good until it expires.
Without_Kept(t) == live

Without(t) == live \ {t}

\* refresh: findOneAndDelete of the presented token.  Any other token is refused.
Rotate(c) ==
  /\ Begin(c)
  /\ \E t \in live :
       /\ live' = Without(t)
       /\ Becomes(c, [kind |-> "issue", stage |-> "issue", user |-> t.user,
                      signIn |-> t.signIn, since |-> signOuts[t.user]])
  /\ UNCHANGED <<account, signIns, signOuts, holders, raced, crashes>>

\* issue: the new session is stored.
Issue(c) ==
  /\ At(c, "issue", "issue")
  /\ live' = live \union {[user |-> request[c].user, signIn |-> request[c].signIn,
                           since |-> request[c].since, id |-> begun]}
  /\ Ends(c)
  /\ UNCHANGED <<account, signIns, signOuts, holders, raced, begun, crashes>>

\* logout, or the TTL index.
SessionEnds ==
  /\ \E t \in live : live' = live \ {t}
  /\ UNCHANGED <<account, signIns, signOuts, holders, request, raced, begun, crashes>>

SignOut(a) ==
  /\ live' = {t \in live : t.user # a}
  /\ signOuts' = [signOuts EXCEPT ![a] = @ + 1]

LogoutEverywhere(c) ==
  /\ Begin(c)
  /\ \E a \in Existing : SignOut(a)
  /\ UNCHANGED <<account, signIns, holders, request, raced, crashes>>

-----------------------------------------------------------------------------
(* Passwords.  Mongoose saves the paths that were changed: mustChange only  *)
(* where it differs from what was read.                                    *)

Overlapped(a, other) ==
  IF \E d \in Callers : request[d].kind = other /\ request[d].user = a
  THEN raced \union {a} ELSE raced

ChangeRead(c) ==
  /\ Begin(c)
  /\ \E a \in Existing :
       /\ Becomes(c, [kind |-> "change", stage |-> "save", user |-> a,
                      mustChange |-> account[a].mustChange])
       /\ raced' = Overlapped(a, "reset")
  /\ UNCHANGED <<account, live, signIns, signOuts, holders, crashes>>

ChangeSave(c) ==
  /\ At(c, "change", "save")
  /\ LET a == request[c].user IN
     Sets(a, [account[a] EXCEPT !.setBy = "holder",
                                !.mustChange = IF request[c].mustChange THEN FALSE ELSE @])
  /\ GoesOn(c, "sign out")
  /\ UNCHANGED <<live, signIns, signOuts, holders, raced, begun, crashes>>

\* "Every other device is signed out."
ChangeSignsOut(c) ==
  /\ At(c, "change", "sign out")
  /\ SignOut(request[c].user)
  /\ Ends(c)
  /\ UNCHANGED <<account, signIns, holders, raced, begun, crashes>>

\* resetUserPassword, of a supplier's sign-in: setPassword.
ResetRead(c) ==
  /\ Begin(c)
  /\ \E a \in {s \in Existing : account[s].role = "supplier"} :
       /\ Becomes(c, [kind |-> "reset", stage |-> "save", user |-> a,
                      mustChange |-> account[a].mustChange])
       /\ raced' = Overlapped(a, "change")
  /\ UNCHANGED <<account, live, signIns, signOuts, holders, crashes>>

\* Mutant: the flag is left as the holder had it.
Reset_Unmarked(record, readMustChange) == [record EXCEPT !.setBy = "admin"]

Reset(record, readMustChange) ==
  [record EXCEPT !.setBy = "admin", !.mustChange = IF readMustChange THEN @ ELSE TRUE]

ResetSave(c) ==
  /\ At(c, "reset", "save")
  /\ Sets(request[c].user, Reset(account[request[c].user], request[c].mustChange))
  /\ Ends(c)
  /\ UNCHANGED <<live, signIns, signOuts, holders, raced, begun, crashes>>

-----------------------------------------------------------------------------
(* Phones.                                                                 *)

OnPhone(d, p) == request[d].kind = "device" /\ request[d].phone = p

\* Mutant: updateOne.
TakenOff_One(p) ==
  IF holders[p] = {} THEN {} ELSE holders[p] \ {CHOOSE a \in holders[p] : TRUE}

\* updateMany: taken off whoever holds it.
TakenOff(p) == {}

\* registerDevice; "alone" while no other registration of the phone is in progress.
DevicePull(c) ==
  /\ Begin(c)
  /\ \E a \in Existing, p \in Phones :
       /\ holders' = [holders EXCEPT ![p] = TakenOff(p)]
       /\ request' = [d \in Callers |->
            IF d = c THEN [kind |-> "device", stage |-> "push", user |-> a, phone |-> p,
                           alone |-> ~\E o \in Callers : OnPhone(o, p)]
            ELSE IF OnPhone(d, p) THEN [request[d] EXCEPT !.alone = FALSE]
            ELSE request[d]]
  /\ UNCHANGED <<account, live, signIns, signOuts, raced, crashes>>

DevicePush(c) ==
  /\ At(c, "device", "push")
  /\ holders' = [holders EXCEPT ![request[c].phone] = @ \union {request[c].user}]
  /\ Ends(c)
  /\ UNCHANGED <<account, live, signIns, signOuts, raced, begun, crashes>>

\* forgetDevices: a phone that signs out, or that Firebase reports as gone.
ForgetDevice ==
  /\ \E p \in Phones : holders[p] # {} /\ holders' = [holders EXCEPT ![p] = {}]
  /\ UNCHANGED <<account, live, signIns, signOuts, request, raced, begun, crashes>>

-----------------------------------------------------------------------------

\* The process stops; what it had not written is lost.
Crash ==
  /\ crashes < MaxCrashes
  /\ \E c \in Callers : request[c] # Idle
  /\ crashes' = crashes + 1
  /\ request' = [c \in Callers |-> Idle]
  /\ UNCHANGED <<account, live, signIns, signOuts, holders, raced, begun>>

Step(c) ==
  \/ CreateCheck(c) \/ Create(c) \/ Grant(c)
  \/ ProfileCheck(c) \/ ProfileUpdate(c)
  \/ LoginCheck(c) \/ Rotate(c) \/ Issue(c) \/ LogoutEverywhere(c)
  \/ ChangeRead(c) \/ ChangeSave(c) \/ ChangeSignsOut(c) \/ ResetRead(c) \/ ResetSave(c)
  \/ DevicePull(c) \/ DevicePush(c)

Next == (\E c \in Callers : Step(c)) \/ SessionEnds \/ ForgetDevice \/ Crash

Spec == Init /\ [][Next]_vars

-----------------------------------------------------------------------------
(* Properties.                                                             *)

Accounts == [exists : {TRUE}, email : Emails, role : Roles,
             referredBy : Ids \union {None}, freeOrders : Nat, setBy : {"admin", "holder"},
             mustChange : BOOLEAN]

Creating == [kind : {"create"}, stage : {"create"}, email : Emails, role : Roles,
             user : {None}, inviter : Ids \union {None}]
Granting == [kind : {"create"}, stage : {"grant"}, email : Emails, role : Roles,
             user : Ids, inviter : Ids \union {None}]
Updating == [kind : {"profile"}, stage : {"update"}, user : Ids, email : Emails]
Signing == [kind : {"issue"}, stage : {"issue"}, user : Ids, signIn : Nat, since : Nat]
Changing == [kind : {"change"}, stage : {"save", "sign out"}, user : Ids, mustChange : BOOLEAN]
Resetting == [kind : {"reset"}, stage : {"save"}, user : Ids, mustChange : BOOLEAN]
Registering == [kind : {"device"}, stage : {"push"}, user : Ids, phone : Phones,
                alone : BOOLEAN]

Requests == {Idle} \union Creating \union Granting \union Updating \union Signing
              \union Changing \union Resetting \union Registering

TypeOK ==
  /\ account \in [Ids -> Accounts \union {NoAccount}]
  /\ live \subseteq [user : Ids, signIn : Nat, since : Nat, id : Nat]
  /\ signIns \in Nat
  /\ signOuts \in [Ids -> Nat]
  /\ holders \in [Phones -> SUBSET Ids]
  /\ request \in [Callers -> Requests]
  /\ raced \subseteq Ids
  /\ begun \in Nat
  /\ crashes \in Nat

\* Registrations, an admin's new sign-ins and changes of address all look before they
\* write; two that look together do not end with the same address.
OneAccountPerEmail ==
  \A a, b \in Existing : account[a].email = account[b].email => a = b

Invitees(a) == {i \in Existing : account[i].referredBy = a}
OwedFor(a) == {c \in Callers : At(c, "create", "grant") /\ request[c].inviter = a}

\* "The reward lands when the invitee signs up": one free order per invitee who has an
\* account, once the registration is through; only a crash before it can cost one, and
\* a registration that is refused earns none.
RewardsMatchInvitees ==
  \A a \in Existing :
    LET earned == account[a].freeOrders + Cardinality(OwedFor(a))
    IN  IF crashes = 0 THEN earned = Cardinality(Invitees(a))
                       ELSE earned <= Cardinality(Invitees(a))

Issuing(c) == request[c].kind = "issue"

\* "A stolen token is usable once at most": however often tokens are presented and
\* requests overlap, one sign-in never has two good tokens, nor one and another on its way.
OneTokenPerSignIn ==
  /\ \A s, t \in live : s.signIn = t.signIn => s = t
  /\ \A c \in Callers : Issuing(c) =>
       /\ \A t \in live : t.signIn # request[c].signIn
       /\ \A d \in Callers : Issuing(d) /\ request[d].signIn = request[c].signIn => d = c

\* mustChangePassword is "true while the account is still on a password somebody else
\* chose", and only then: a sign-in is never asked to replace the holder's own password,
\* nor left on the admin's, unless a change and a reset both read it before either saved.
AdminPasswordsAreMarked ==
  \A a \in Existing \ raced : account[a].mustChange <=> account[a].setBy = "admin"

\* "Whoever signed in last owns it": a registration that no other of the phone overlapped
\* leaves the phone with its account alone, whatever earlier ones that did overlap had left.
PhoneIsHandedOver ==
  [][\A c \in Callers :
       At(c, "device", "push") /\ request[c].alone /\ DevicePush(c) =>
         holders'[request[c].phone] = {request[c].user}]_vars

\* "Every other device is signed out - a password change is usually a response to
\* something": no session is left that was asked for before the account's last sign-out.
EveryOtherDeviceSignedOut ==
  \A t \in live : t.since = signOuts[t.user]
=============================================================================
