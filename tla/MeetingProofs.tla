---------------------------- MODULE MeetingProofs ----------------------------
(***************************************************************************)
(* Theorems of a meeting: of GuestAccess, Breakouts and MeetingLinks, the  *)
(* three parts of MCMeeting, for any number of whoever takes part in them, *)
(* and of MediaCluster, the nodes its media is on. Init, Next, Spec and    *)
(* TypeOK are those of MediaCluster.                                       *)
(***************************************************************************)
EXTENDS GuestAccess, Breakouts, MeetingLinks, MediaCluster, FiniteSetTheorems, TLAPS

-----------------------------------------------------------------------------
(***************************************************************************)
(* Theorems of GuestAccess, for any number of invites, addresses, channels *)
(* and redemptions at a time.                                              *)
(*                                                                         *)
(* GuestInv says what the transactions rely on: two that are open never    *)
(* insert the same grant, what an open one inserts is not there yet, and   *)
(* the one that has counted a use holds the row of an invite with a use    *)
(* left.                                                                   *)
(***************************************************************************)

Redeem == [pc : {"idle"}]
      \cup [pc : {"channels", "user"}, invite : Invites, email : Emails]
      \cup [pc : {"begin", "granted", "counted", "session"}, invite : Invites,
            email : Emails, created : BOOLEAN]

Offer  == [max : Nat \ {0}, only : Emails \cup {Anyone}, channels : SUBSET Channels]
Invite == [status : {"none", "active", "revoked"}, uses : Nat,
           expired : BOOLEAN, offer : Offer]

GuestTypeOK ==
    /\ invites \in [Invites -> Invite]
    /\ grants \in [Invites -> SUBSET Emails]
    /\ redeem \in [Slots -> Redeem]

\* The use count is the number of grants.
Counted == \A i \in Invites :
    /\ IsFiniteSet(grants[i]) /\ invites[i].uses = Cardinality(grants[i])
    /\ invites[i].uses <= invites[i].offer.max
    /\ invites[i].status = "none" => grants[i] = {}

\* What an open transaction inserts is new, and no other inserts it.
Inserted == \A s \in Slots : InTx(s) =>
    /\ redeem[s].email \notin grants[redeem[s].invite]
    /\ \A t \in Slots \ {s} :
          InTx(t) => redeem[t].invite # redeem[s].invite \/ redeem[t].email # redeem[s].email

\* A counted use is one the invite, locked and active, still has.
Held == \A s \in Slots : redeem[s].pc = "counted" =>
    /\ invites[redeem[s].invite].status = "active"
    /\ invites[redeem[s].invite].uses < invites[redeem[s].invite].offer.max
    /\ \A t \in Slots \ {s} :
          redeem[t].pc = "counted" => redeem[t].invite # redeem[s].invite

\* A session is created after the commit.
Granted ==
    /\ \A s \in Slots : redeem[s].pc = "session" => redeem[s].email \in grants[redeem[s].invite]
    /\ \A e \in admitted : \E i \in Invites : e \in grants[i]

GuestInv == GuestTypeOK /\ Counted /\ Inserted /\ Held /\ Granted

----------------------------------------------------------------------------
LEMMA GuestInitInv == GuestInit => GuestInv
PROOF
  <1>. SUFFICES ASSUME GuestInit PROVE GuestInv
    OBVIOUS
  <1>1. GuestTypeOK
    BY DEF GuestInit, GuestTypeOK, Invite, Offer, NoInvite, NoRedeem, Redeem
  <1>2. Counted
    BY FS_EmptySet DEF GuestInit, Counted, NoInvite
  <1>3. Inserted /\ Held /\ Granted
    BY DEF GuestInit, Inserted, InTx, Held, Granted, NoRedeem
  <1>. QED
    BY <1>1, <1>2, <1>3 DEF GuestInv
----------------------------------------------------------------------------
(* A step of a redemption outside its transaction, or one that rolls back. *)
LEMMA OutsideTx ==
  ASSUME GuestInv, NEW s \in Slots, NEW x \in Redeem,
         x.pc \notin {"granted", "counted", "session"},
         redeem' = [redeem EXCEPT ![s] = x], UNCHANGED <<invites, grants, admitted>>
  PROVE  GuestInv'
PROOF
  <1>. \A t \in Slots : redeem'[t] = IF t = s THEN x ELSE redeem[t]
    BY DEF GuestInv, GuestTypeOK
  <1>1. GuestTypeOK' /\ Counted'
    BY DEF GuestInv, GuestTypeOK, Counted
  <1>2. Inserted'
    BY DEF GuestInv, Inserted, InTx
  <1>3. Held' /\ Granted'
    BY DEF GuestInv, Held, Granted
  <1>. QED
    BY <1>1, <1>2, <1>3 DEF GuestInv

LEMMA StopInv ==
  ASSUME GuestInv, NEW s \in Slots, Quit(s), UNCHANGED <<invites, grants, admitted>>
  PROVE  GuestInv'
PROOF
  <1>1. NoRedeem \in Redeem /\ NoRedeem.pc = "idle"
    BY DEF NoRedeem, Redeem
  <1>. QED
    BY <1>1, OutsideTx DEF Quit

LEMMA OutsideInv ==
  ASSUME GuestInv, NEW s \in Slots,
         \/ \E i \in Invites, e \in Emails : RedeemInvite(s, i, e)
         \/ ValidateRedeemChannels(s) \/ FindUser(s) \/ RedeemFails(s)
  PROVE  GuestInv'
PROOF
  <1>. redeem[s] \in Redeem
    BY DEF GuestInv, GuestTypeOK
  <1>1. CASE \E i \in Invites, e \in Emails : RedeemInvite(s, i, e)
    <2> PICK i \in Invites, e \in Emails : RedeemInvite(s, i, e)
      BY <1>1
    <2>. DEFINE x == [pc |-> "channels", invite |-> i, email |-> e]
    <2>1. x \in Redeem /\ x.pc = "channels"
      BY DEF Redeem
    <2>. QED
      BY <2>1, OutsideTx DEF RedeemInvite
  <1>2. CASE ValidateRedeemChannels(s)
    <2>1. CASE Quit(s)
      BY <1>2, <2>1, StopInv DEF ValidateRedeemChannels
    <2>2. CASE Advance(s, "user")
      <3>. DEFINE x == [redeem[s] EXCEPT !.pc = "user"]
      <3>1. x \in Redeem /\ x.pc = "user"
        BY <1>2 DEF Redeem, ValidateRedeemChannels
      <3>2. redeem' = [redeem EXCEPT ![s] = x]
        BY <2>2 DEF Advance
      <3>. QED
        BY <1>2, <3>1, <3>2, OutsideTx DEF ValidateRedeemChannels
    <2>. QED
      BY <1>2, <2>1, <2>2 DEF ValidateRedeemChannels
  <1>3. CASE FindUser(s)
    <2>1. CASE Quit(s)
      BY <1>3, <2>1, StopInv DEF FindUser
    <2>2. CASE ~Quit(s)
      <3>. DEFINE x == [pc |-> "begin", invite |-> redeem[s].invite,
                        email |-> redeem[s].email,
                        created |-> redeem[s].email \notin accounts]
      <3>1. x \in Redeem /\ x.pc = "begin"
        BY <1>3 DEF Redeem, FindUser
      <3>2. redeem' = [redeem EXCEPT ![s] = x]
        BY <1>3, <2>2 DEF FindUser
      <3>. QED
        BY <1>3, <3>1, <3>2, OutsideTx DEF FindUser
    <2>. QED
      BY <2>1, <2>2
  <1>4. CASE RedeemFails(s)
    BY <1>4, StopInv DEF RedeemFails
  <1>. QED
    BY <1>1, <1>2, <1>3, <1>4

(* The unique indexes: the INSERT waited for, or saw, the same grant.      *)
LEMMA InsertGrantInv ==
  ASSUME GuestInv, NEW s \in Slots, InsertGrant(s)
  PROVE  GuestInv'
PROOF
  <1>1. CASE Quit(s)
    BY <1>1, StopInv DEF InsertGrant
  <1>2. CASE /\ Advance(s, "granted")
             /\ redeem[s].email \notin grants[redeem[s].invite]
    <2>. redeem[s] \in Redeem /\ redeem[s].pc = "begin"
      BY DEF GuestInv, GuestTypeOK, InsertGrant
    <2>. DEFINE x == [redeem[s] EXCEPT !.pc = "granted"]
    <2>1. /\ x \in Redeem /\ x.pc = "granted"
          /\ x.invite = redeem[s].invite /\ x.email = redeem[s].email
      BY DEF Redeem
    <2>2. redeem' = [redeem EXCEPT ![s] = x] /\ UNCHANGED <<invites, grants, admitted>>
      BY <1>2 DEF Advance, InsertGrant
    <2>3. \A t \in Slots : redeem'[t] = IF t = s THEN x ELSE redeem[t]
      BY <2>2 DEF GuestInv, GuestTypeOK
    <2>4. GuestTypeOK' /\ Counted'
      BY <2>1, <2>2, <2>3 DEF GuestInv, GuestTypeOK, Counted
    <2>5. \A t \in Slots \ {s} :
             InTx(t) => redeem[t].invite # x.invite \/ redeem[t].email # x.email
      BY <2>1 DEF InsertGrant, Conflicts
    <2>6. Inserted'
      BY <1>2, <2>1, <2>2, <2>3, <2>5 DEF GuestInv, Inserted, InTx
    <2>7. Held' /\ Granted'
      BY <2>1, <2>2, <2>3 DEF GuestInv, Held, Granted
    <2>. QED
      BY <2>4, <2>6, <2>7 DEF GuestInv
  <1>. QED
    BY <1>1, <1>2 DEF InsertGrant

(* The row lock: what the UPDATE found stays true until the commit.        *)
LEMMA IncrementInv ==
  ASSUME GuestInv, NEW s \in Slots, IncrementUseCount(s)
  PROVE  GuestInv'
PROOF
  <1>1. CASE Quit(s)
    BY <1>1, StopInv DEF IncrementUseCount
  <1>2. CASE Advance(s, "counted") /\ Countable(invites[redeem[s].invite])
    <2>. redeem[s] \in Redeem /\ redeem[s].pc = "granted"
      BY DEF GuestInv, GuestTypeOK, IncrementUseCount
    <2>. DEFINE x == [redeem[s] EXCEPT !.pc = "counted"]
    <2>1. /\ x \in Redeem /\ x.pc = "counted"
          /\ x.invite = redeem[s].invite /\ x.email = redeem[s].email
      BY DEF Redeem
    <2>2. redeem' = [redeem EXCEPT ![s] = x] /\ UNCHANGED <<invites, grants, admitted>>
      BY <1>2 DEF Advance, IncrementUseCount
    <2>3. \A t \in Slots : redeem'[t] = IF t = s THEN x ELSE redeem[t]
      BY <2>2 DEF GuestInv, GuestTypeOK
    <2>4. GuestTypeOK' /\ Counted'
      BY <2>1, <2>2, <2>3 DEF GuestInv, GuestTypeOK, Counted
    <2>5. Inserted'
      BY <2>1, <2>2, <2>3 DEF GuestInv, Inserted, InTx
    <2>6. \A t \in Slots : redeem[t].pc = "counted" => redeem[t].invite # x.invite
      BY <2>1 DEF IncrementUseCount, Locked
    <2>7. Held'
      BY <1>2, <2>1, <2>2, <2>3, <2>6 DEF GuestInv, Held, Countable
    <2>8. Granted'
      BY <2>1, <2>2, <2>3 DEF GuestInv, Granted
    <2>. QED
      BY <2>4, <2>5, <2>7, <2>8 DEF GuestInv
  <1>. QED
    BY <1>1, <1>2 DEF IncrementUseCount

LEMMA CommitInv ==
  ASSUME GuestInv, NEW s \in Slots, Commit(s)
  PROVE  GuestInv'
PROOF
  <1>. DEFINE i == redeem[s].invite
              e == redeem[s].email
  <1>1. /\ redeem[s] \in Redeem /\ redeem[s].pc = "counted" /\ i \in Invites /\ e \in Emails
    BY DEF GuestInv, GuestTypeOK, Commit, Redeem
  <1>2. /\ \A j \in Invites : grants'[j] = IF j = i THEN grants[i] \cup {e} ELSE grants[j]
        /\ \A j \in Invites : /\ invites'[j].uses = IF j = i THEN invites[i].uses + 1
                                                    ELSE invites[j].uses
                              /\ invites'[j].offer = invites[j].offer
                              /\ invites'[j].status = invites[j].status
        /\ admitted' = admitted
    BY <1>1 DEF GuestInv, GuestTypeOK, Invite, Commit
  <1>3. PICK x \in Redeem : /\ redeem' = [redeem EXCEPT ![s] = x]
                        /\ \/ x.pc = "idle"
                           \/ x.pc = "session" /\ x.invite = i /\ x.email = e
    <2>1. CASE Quit(s)
      <3>1. NoRedeem \in Redeem /\ NoRedeem.pc = "idle"
        BY DEF NoRedeem, Redeem
      <3>. QED
        BY <2>1, <3>1 DEF Quit
    <2>2. CASE Advance(s, "session")
      <3>. DEFINE y == [redeem[s] EXCEPT !.pc = "session"]
      <3>1. y \in Redeem /\ y.pc = "session" /\ y.invite = i /\ y.email = e
        BY <1>1 DEF Redeem
      <3>2. redeem' = [redeem EXCEPT ![s] = y]
        BY <2>2 DEF Advance
      <3>. QED
        BY <3>1, <3>2
    <2>. QED
      BY <2>1, <2>2 DEF Commit
  <1>4. \A t \in Slots : redeem'[t] = IF t = s THEN x ELSE redeem[t]
    BY <1>3 DEF GuestInv, GuestTypeOK
  <1>5. GuestTypeOK'
    <2>1. [invites[i] EXCEPT !.uses = @ + 1] \in Invite
      BY <1>1 DEF GuestInv, GuestTypeOK, Invite
    <2>2. invites' \in [Invites -> Invite]
      BY <1>1, <2>1 DEF GuestInv, GuestTypeOK, Commit
    <2>3. grants' \in [Invites -> SUBSET Emails]
      BY <1>1 DEF GuestInv, GuestTypeOK, Commit
    <2>. QED
      BY <1>3, <2>2, <2>3 DEF GuestInv, GuestTypeOK
  <1>6. /\ e \notin grants[i]
        /\ \A t \in Slots \ {s} : InTx(t) => redeem[t].invite # i \/ redeem[t].email # e
    BY <1>1 DEF GuestInv, Inserted, InTx
  <1>7. /\ invites[i].status = "active" /\ invites[i].uses < invites[i].offer.max
        /\ \A t \in Slots \ {s} : redeem[t].pc = "counted" => redeem[t].invite # i
    BY <1>1 DEF GuestInv, Held
  <1>8. Counted'
    <2>1. IsFiniteSet(grants[i] \cup {e})
          /\ Cardinality(grants[i] \cup {e}) = Cardinality(grants[i]) + 1
      BY <1>1, <1>6, FS_AddElement DEF GuestInv, Counted
    <2>2. /\ IsFiniteSet(grants'[i]) /\ invites'[i].uses = Cardinality(grants'[i])
          /\ invites'[i].uses <= invites'[i].offer.max
      <3>1. invites[i].uses \in Nat /\ invites[i].offer.max \in Nat
        BY <1>1 DEF GuestInv, GuestTypeOK, Invite, Offer
      <3>. QED
        BY <1>1, <1>2, <1>7, <2>1, <3>1 DEF GuestInv, Counted
    <2>. QED
      BY <1>1, <1>2, <1>7, <2>2 DEF GuestInv, Counted
  <1>9. Inserted'
    <2>. SUFFICES ASSUME NEW t \in Slots, InTx(t)'
                  PROVE  /\ redeem'[t].email \notin grants'[redeem'[t].invite]
                         /\ \A u \in Slots \ {t} : InTx(u)' =>
                               redeem'[u].invite # redeem'[t].invite \/ redeem'[u].email # redeem'[t].email
      BY DEF Inserted
    <2>1. t # s /\ redeem'[t] = redeem[t] /\ InTx(t) /\ redeem[t] \in Redeem
      BY <1>3, <1>4 DEF InTx, GuestInv, GuestTypeOK
    <2>2. redeem[t].invite \in Invites
      BY <2>1 DEF InTx, Redeem
    <2>3. \A u \in Slots : InTx(u)' => redeem'[u] = redeem[u] /\ InTx(u)
      BY <1>3, <1>4 DEF InTx
    <2>. QED
      BY <1>2, <1>6, <2>1, <2>2, <2>3 DEF GuestInv, Inserted
  <1>10. Held'
    <2>. SUFFICES ASSUME NEW t \in Slots, redeem'[t].pc = "counted"
                  PROVE  /\ invites'[redeem'[t].invite].status = "active"
                         /\ invites'[redeem'[t].invite].uses < invites'[redeem'[t].invite].offer.max
                         /\ \A u \in Slots \ {t} :
                               redeem'[u].pc = "counted" => redeem'[u].invite # redeem'[t].invite
      BY DEF Held
    <2>1. t # s /\ redeem'[t] = redeem[t] /\ redeem[t] \in Redeem
      BY <1>3, <1>4 DEF GuestInv, GuestTypeOK
    <2>2. redeem[t].invite \in Invites \ {i}
      BY <1>7, <2>1 DEF Redeem
    <2>3. \A u \in Slots : redeem'[u].pc = "counted" => redeem'[u] = redeem[u]
      BY <1>3, <1>4
    <2>. QED
      BY <1>2, <2>1, <2>2, <2>3 DEF GuestInv, Held
  <1>11. Granted'
    <2>1. \A j \in Invites : grants[j] \subseteq grants'[j]
      BY <1>1, <1>2
    <2>2. ASSUME NEW t \in Slots, redeem'[t].pc = "session"
          PROVE  redeem'[t].email \in grants'[redeem'[t].invite]
      <3>1. CASE t = s
        BY <1>1, <1>2, <1>3, <1>4, <2>2, <3>1
      <3>2. CASE t # s
        <4>1. redeem'[t] = redeem[t] /\ redeem[t] \in Redeem
          BY <1>4, <3>2 DEF GuestInv, GuestTypeOK
        <4>2. redeem[t].invite \in Invites
          BY <2>2, <4>1 DEF Redeem
        <4>. QED
          BY <2>1, <2>2, <4>1, <4>2 DEF GuestInv, Granted
      <3>. QED
        BY <3>1, <3>2
    <2>3. \A f \in admitted' : \E j \in Invites : f \in grants'[j]
      BY <1>2, <2>1 DEF GuestInv, Granted
    <2>. QED
      BY <2>2, <2>3 DEF Granted
  <1>. QED
    BY <1>5, <1>8, <1>9, <1>10, <1>11 DEF GuestInv

LEMMA CreateSessionInv ==
  ASSUME GuestInv, NEW s \in Slots, CreateSession(s)
  PROVE  GuestInv'
PROOF
  <1>1. redeem[s] \in Redeem /\ redeem[s].pc = "session" /\ redeem[s].invite \in Invites
    BY DEF GuestInv, GuestTypeOK, CreateSession, Redeem
  <1>2. NoRedeem \in Redeem /\ NoRedeem.pc = "idle"
    BY DEF NoRedeem, Redeem
  <1>3. \A t \in Slots : redeem'[t] = IF t = s THEN NoRedeem ELSE redeem[t]
    BY DEF GuestInv, GuestTypeOK, CreateSession, Quit
  <1>4. GuestTypeOK' /\ Counted'
    BY <1>2, <1>3 DEF GuestInv, GuestTypeOK, Counted, CreateSession, Quit
  <1>5. Inserted'
    BY <1>2, <1>3 DEF GuestInv, Inserted, InTx, CreateSession
  <1>6. Held'
    BY <1>2, <1>3 DEF GuestInv, Held, CreateSession
  <1>7. Granted'
    BY <1>1, <1>2, <1>3 DEF GuestInv, Granted, CreateSession
  <1>. QED
    BY <1>4, <1>5, <1>6, <1>7 DEF GuestInv

(* Writes of the invite's row by others leave a counted invite active.     *)
LEMMA InviteRowInv ==
  ASSUME GuestInv, NEW i \in Invites,
         \/ \E offer \in Offers : CreateInvite(i, offer)
         \/ RevokeInvite(i) \/ InviteExpires(i)
  PROVE  GuestInv'
PROOF
  <1>1. UNCHANGED <<grants, admitted, redeem>>
    BY DEF CreateInvite, RevokeInvite, InviteExpires
  <1>2. PICK x \in Invite :
             /\ invites' = [invites EXCEPT ![i] = x] /\ x.uses = invites[i].uses
             /\ x.uses <= x.offer.max /\ (x.status = "none" => grants[i] = {})
             /\ InviteExpires(i) => x.status = invites[i].status /\ x.offer = invites[i].offer
    <2>. invites[i] \in Invite /\ invites[i].uses <= invites[i].offer.max
      BY DEF GuestInv, GuestTypeOK, Counted
    <2>1. CASE \E offer \in Offers : CreateInvite(i, offer)
      <3>. PICK offer \in Offers : CreateInvite(i, offer)
        BY <2>1
      <3>. DEFINE x == [invites[i] EXCEPT !.status = "active", !.offer = offer]
      <3>1. offer \in Offer /\ 0 <= offer.max
        BY GuestAssumption DEF Offer
      <3>2. x \in Invite /\ invites' = [invites EXCEPT ![i] = x]
        BY <3>1 DEF Invite, CreateInvite
      <3>3. invites[i].uses = 0 /\ invites[i].status = "none"
        BY DEF CreateInvite, NoInvite
      <3>4. ~InviteExpires(i)
        BY <3>3 DEF InviteExpires
      <3>5. x.uses = 0 /\ x.offer = offer /\ x.status = "active"
        BY <3>3 DEF Invite
      <3>. QED
        BY <3>1, <3>2, <3>3, <3>4, <3>5
    <2>2. CASE RevokeInvite(i)
      <3>. DEFINE x == [invites[i] EXCEPT !.status = "revoked"]
      <3>1. /\ x \in Invite /\ x.uses = invites[i].uses /\ x.offer = invites[i].offer
            /\ x.status = "revoked" /\ x.expired = invites[i].expired
        BY DEF Invite
      <3>2. invites' = [invites EXCEPT ![i] = x]
        BY <2>2 DEF RevokeInvite
      <3>3. ~InviteExpires(i)
        <4>1. invites'[i].expired = invites[i].expired
          BY <3>1, <3>2 DEF GuestInv, GuestTypeOK
        <4>2. InviteExpires(i) => invites'[i].expired = TRUE /\ ~invites[i].expired
          BY DEF InviteExpires, GuestInv, GuestTypeOK, Invite
        <4>. QED
          BY <4>1, <4>2
      <3>. QED
        BY <3>1, <3>2, <3>3
    <2>3. CASE InviteExpires(i)
      <3>. DEFINE x == [invites[i] EXCEPT !.expired = TRUE]
      <3>1. /\ x \in Invite /\ x.uses = invites[i].uses /\ x.offer = invites[i].offer
            /\ x.status = invites[i].status
        BY DEF Invite
      <3>2. invites' = [invites EXCEPT ![i] = x] /\ invites[i].status # "none"
        BY <2>3 DEF InviteExpires
      <3>. QED
        BY <3>1, <3>2
    <2>. QED
      BY <2>1, <2>2, <2>3
  <1>3. /\ \A j \in Invites : invites'[j] = IF j = i THEN x ELSE invites[j]
        /\ GuestTypeOK'
    BY <1>1, <1>2 DEF GuestInv, GuestTypeOK
  <1>5. Counted'
    BY <1>1, <1>2, <1>3 DEF GuestInv, Counted
  <1>6. Inserted' /\ Granted'
    BY <1>1 DEF GuestInv, Inserted, InTx, Granted
  <1>7. ASSUME NEW s \in Slots, redeem[s].pc = "counted"
        PROVE  invites'[redeem[s].invite].status = "active"
               /\ invites'[redeem[s].invite].uses < invites'[redeem[s].invite].offer.max
    <2>1. CASE redeem[s].invite # i
      <3>1. redeem[s].invite \in Invites
        BY <1>7 DEF GuestInv, GuestTypeOK, Redeem
      <3>. QED
        BY <1>3, <1>7, <2>1, <3>1 DEF GuestInv, Held
    <2>2. CASE redeem[s].invite = i
      <3>1. invites[i].status = "active" /\ invites[i].uses < invites[i].offer.max
        BY <1>7, <2>2 DEF GuestInv, Held
      <3>2. InviteExpires(i)
        BY <1>7, <2>2, <3>1 DEF CreateInvite, NoInvite, RevokeInvite, Locked
      <3>. QED
        BY <1>2, <1>3, <2>2, <3>1, <3>2
    <2>. QED
      BY <2>1, <2>2
  <1>8. Held'
    BY <1>1, <1>7 DEF GuestInv, Held
  <1>. QED
    BY <1>3, <1>5, <1>6, <1>8 DEF GuestInv

LEMMA GuestStepInv == GuestInv /\ [GuestNext]_guestVars => GuestInv'
PROOF
  <1>. SUFFICES ASSUME GuestInv, [GuestNext]_guestVars PROVE GuestInv'
    OBVIOUS
  <1>1. ASSUME NEW i \in Invites,
               \/ \E offer \in Offers : CreateInvite(i, offer)
               \/ RevokeInvite(i) \/ InviteExpires(i)
        PROVE  GuestInv'
    BY <1>1, InviteRowInv
  <1>2. ASSUME NEW s \in Slots,
               \/ \E i \in Invites, e \in Emails : RedeemInvite(s, i, e)
               \/ ValidateRedeemChannels(s) \/ FindUser(s) \/ RedeemFails(s)
        PROVE  GuestInv'
    BY <1>2, OutsideInv
  <1>3. ASSUME NEW s \in Slots, InsertGrant(s) PROVE GuestInv'
    BY <1>3, InsertGrantInv
  <1>4. ASSUME NEW s \in Slots, IncrementUseCount(s) PROVE GuestInv'
    BY <1>4, IncrementInv
  <1>5. ASSUME NEW s \in Slots, Commit(s) PROVE GuestInv'
    BY <1>5, CommitInv
  <1>6. ASSUME NEW s \in Slots, CreateSession(s) PROVE GuestInv'
    BY <1>6, CreateSessionInv
  <1>7. ASSUME \/ \E c \in Channels : Archive(c)
               \/ UNCHANGED guestVars
        PROVE  GuestInv'
    <2>1. UNCHANGED <<invites, grants, admitted, redeem>>
      BY <1>7 DEF Archive, guestVars
    <2>. QED
      BY <2>1 DEF GuestInv, GuestTypeOK, Counted, Inserted, InTx, Held, Granted
  <1>. QED
    BY <1>1, <1>2, <1>3, <1>4, <1>5, <1>6, <1>7 DEF GuestNext

LEMMA GuestInvAlways == GuestSpec => []GuestInv
PROOF
  BY GuestInitInv, GuestStepInv, PTL DEF GuestSpec

----------------------------------------------------------------------------
(* Whatever redeems, fails or loses an answer together, an invite is used  *)
(* once per grant and never beyond max_uses (IncrementUseCount).           *)
THEOREM UsesAreGrantsAlways == GuestSpec => []UsesAreGrants
PROOF
  <1>1. GuestInv => UsesAreGrants
    BY DEF GuestInv, Counted, UsesAreGrants
  <1>. QED
    BY <1>1, GuestInvAlways, PTL

(* RedeemInvite issues a session only to an address with a grant.          *)
THEOREM AdmittedIsGrantedAlways == GuestSpec => []AdmittedIsGranted
PROOF
  <1>1. GuestInv => AdmittedIsGranted
    BY DEF GuestInv, Granted, AdmittedIsGranted
  <1>. QED
    BY <1>1, GuestInvAlways, PTL

(* No step gives an address access to a channel except the commit of a     *)
(* redemption whose invite is active: RevokeInvite is final.               *)
THEOREM AccessNeedsActiveInviteAlways == GuestSpec => AccessNeedsActiveInvite
PROOF
  <1>1. ASSUME GuestInv, [GuestNext]_guestVars, NEW e \in Emails, NEW c \in Channels,
               HasChannelAccess(e, c)'
        PROVE  \/ HasChannelAccess(e, c)
               \/ \E i \in Invites : /\ invites[i].status = "active" /\ Allows(i, c)
                                     /\ e \in grants'[i] \ grants[i]
    <2>1. PICK i \in Invites : /\ e \in grants'[i] /\ ~invites'[i].expired
                               /\ Allows(i, c)'
      BY <1>1 DEF HasChannelAccess
    <2>2. CASE \E s \in Slots : Commit(s)
      <3> PICK s \in Slots : Commit(s)
        BY <2>2
      <3>1. redeem[s] \in Redeem /\ redeem[s].pc = "counted" /\ redeem[s].invite \in Invites
        BY <1>1 DEF Commit, GuestInv, GuestTypeOK, Redeem
      <3>2. invites[redeem[s].invite].status = "active"
        BY <1>1, <3>1 DEF GuestInv, Held
      <3>3. /\ invites'[i].offer = invites[i].offer
            /\ invites'[i].expired = invites[i].expired
            /\ i # redeem[s].invite => grants'[i] = grants[i]
        BY <1>1, <3>1 DEF Commit, GuestInv, GuestTypeOK, Invite
      <3>. QED
        BY <2>1, <3>1, <3>2, <3>3 DEF HasChannelAccess, Allows
    <2>3. CASE \E j \in Invites, offer \in Offers : CreateInvite(j, offer)
      <3> PICK j \in Invites, offer \in Offers : CreateInvite(j, offer)
        BY <2>3
      <3>1. grants' = grants /\ grants[j] = {}
        BY <1>1 DEF CreateInvite, NoInvite, GuestInv, Counted
      <3>2. invites'[i] = invites[i]
        BY <1>1, <2>1, <3>1 DEF CreateInvite, GuestInv, GuestTypeOK
      <3>. QED
        BY <2>1, <3>1, <3>2 DEF HasChannelAccess, Allows
    <2>4. CASE \E j \in Invites : RevokeInvite(j) \/ InviteExpires(j)
      <3>1. grants' = grants /\ invites'[i].offer = invites[i].offer
        BY <1>1, <2>4 DEF RevokeInvite, InviteExpires, GuestInv, GuestTypeOK, Invite
      <3>2. ~invites[i].expired
        BY <1>1, <2>1, <2>4 DEF RevokeInvite, InviteExpires, GuestInv, GuestTypeOK, Invite
      <3>. QED
        BY <2>1, <3>1, <3>2 DEF HasChannelAccess, Allows
    <2>5. CASE UNCHANGED <<invites, grants>>
      BY <2>1, <2>5 DEF HasChannelAccess, Allows
    <2>. QED
      BY <1>1, <2>2, <2>3, <2>4, <2>5
         DEF GuestNext, guestVars, RedeemInvite, ValidateRedeemChannels, FindUser,
             InsertGrant, IncrementUseCount, CreateSession, RedeemFails, Archive
  <1>2. GuestInv /\ [GuestNext]_guestVars =>
          [\A e \in Emails, c \in Channels :
              HasChannelAccess(e, c)' =>
                  \/ HasChannelAccess(e, c)
                  \/ \E i \in Invites : /\ invites[i].status = "active" /\ Allows(i, c)
                                        /\ e \in grants'[i] \ grants[i]]_guestVars
    BY <1>1
  <1>. QED
    BY <1>2, GuestInvAlways, PTL DEF GuestSpec, AccessNeedsActiveInvite

-----------------------------------------------------------------------------
(***************************************************************************)
(* Theorems of Breakouts, for any number of members, rooms and requests at *)
(* a time.                                                                 *)
(*                                                                         *)
(* BreakoutInv follows a room from the moment a request has emptied it     *)
(* with nobody on the way in: as long as no join begins, nobody's row      *)
(* names it, and once it is closed no join can begin.                      *)
(***************************************************************************)

Kinds == {"none", "create", "move", "close", "closeAll", "end"}
Steps == {"idle", "insert", "sfu", "self", "assign", "empty", "list"}
Task == [kind : Kinds, at : Steps, who : Attendees \cup {Main},
         room : Breakout \cup {Main}, todo : SUBSET Breakout, left : SUBSET Breakout]
Row == [on : BOOLEAN, room : Breakout \cup {Main}]

BreakoutTypeOK ==
    /\ row \in [Attendees -> Row]
    /\ rooms \in [Breakout -> {"none", "active", "closed"}]
    /\ task \in [Desks -> Task]
    /\ quiet \subseteq Breakout

Deserted(r) == In(r) = {} /\ ~Entering(r)

\* What a request has emptied, until somebody joins.
EmptiedStays == \A d \in Desks : \A r \in task[d].left : Deserted(r)

\* What it has closed, for good.
QuietStays == \A r \in quiet : rooms[r] = "closed" /\ Deserted(r)

BreakoutInv == BreakoutTypeOK /\ EmptiedStays /\ QuietStays

----------------------------------------------------------------------------
LEMMA BreakoutInitInv == BreakoutInit => BreakoutInv
PROOF
  <1>. SUFFICES ASSUME BreakoutInit PROVE BreakoutInv
    OBVIOUS
  <1>1. BreakoutTypeOK
    BY DEF BreakoutInit, BreakoutTypeOK, NoTask, Task, Kinds, Steps, Row
  <1>2. EmptiedStays /\ QuietStays
    BY DEF BreakoutInit, EmptiedStays, QuietStays, NoTask
  <1>. QED
    BY <1>1, <1>2 DEF BreakoutInv

(* What may be written into a row is Main or the room of a join.           *)
LEMMA DesertedStays ==
  ASSUME NEW r \in Breakout, Deserted(r),
         \A a \in Attendees : row'[a].room = r =>
            row[a].room = r \/ Entering(r),
         \A e \in Desks : task'[e].kind = "move" /\ task'[e].room = r =>
            task[e].kind = "move" /\ task[e].room = r
  PROVE  Deserted(r)'
PROOF
  <1>. QED
    BY DEF Deserted, In, Entering

(* A step of one request that is neither the begin of a join nor a change  *)
(* of what has been emptied.                                               *)
LEMMA StepInv ==
  ASSUME BreakoutInv, NEW d \in Desks, NEW x \in Task,
         x.left \subseteq task[d].left,
         x.kind = "move" => \/ x.room = Main
                            \/ task[d].kind = "move" /\ task[d].room = x.room,
         task' = [task EXCEPT ![d] = x],
         row' \in [Attendees -> Row],
         \A a \in Attendees : \/ row'[a].room \in {row[a].room, Main}
                              \/ task[d].kind = "move" /\ row'[a].room = task[d].room,
         rooms' \in [Breakout -> {"none", "active", "closed"}],
         \A r \in Breakout : rooms[r] = "closed" => rooms'[r] = "closed",
         quiet' = quiet
  PROVE  BreakoutInv'
PROOF
  <1>. USE BreakoutAssumption
  <1>. /\ \A e \in Desks : task'[e] = IF e = d THEN x ELSE task[e]
      /\ \A e \in Desks : task[e] \in Task
      /\ quiet \subseteq Breakout
    BY DEF BreakoutInv, BreakoutTypeOK
  <1>1. BreakoutTypeOK'
    BY DEF BreakoutInv, BreakoutTypeOK
  <1>2. ASSUME NEW r \in Breakout, Deserted(r) PROVE Deserted(r)'
    <2>1. \A a \in Attendees : row'[a].room = r => row[a].room = r \/ Entering(r)
      BY DEF Entering
    <2>2. \A e \in Desks : task'[e].kind = "move" /\ task'[e].room = r =>
             task[e].kind = "move" /\ task[e].room = r
      OBVIOUS
    <2>. QED
      BY <1>2, <2>1, <2>2, DesertedStays
  <1>3. EmptiedStays'
    <2>. SUFFICES ASSUME NEW e \in Desks, NEW r \in task'[e].left PROVE Deserted(r)'
      BY DEF EmptiedStays
    <2>1. r \in task[e].left /\ r \in Breakout
      BY DEF Task
    <2>. QED
      BY <1>2, <2>1 DEF BreakoutInv, EmptiedStays
  <1>4. QuietStays'
    BY <1>2 DEF BreakoutInv, QuietStays
  <1>. QED
    BY <1>1, <1>3, <1>4 DEF BreakoutInv

----------------------------------------------------------------------------
LEMMA BreakoutStepInv == BreakoutInv /\ [BreakoutNext]_breakoutVars => BreakoutInv'
PROOF
  <1>. SUFFICES ASSUME BreakoutInv, [BreakoutNext]_breakoutVars PROVE BreakoutInv'
    OBVIOUS
  <1>. USE BreakoutAssumption
  <1>. NoTask \in Task /\ NoTask.left = {} /\ NoTask.kind = "none"
    BY DEF NoTask, Task, Kinds, Steps
  <1>. /\ row \in [Attendees -> Row] /\ task \in [Desks -> Task] /\ quiet \subseteq Breakout
      /\ rooms \in [Breakout -> {"none", "active", "closed"}]
    BY DEF BreakoutInv, BreakoutTypeOK
  <1>. \A d \in Desks : task[d] \in Task
    OBVIOUS
  <1>1. ASSUME NEW d \in Desks, TaskFails(d) \/ OpenRoom(d) PROVE BreakoutInv'
    <2>1. task' = [task EXCEPT ![d] = NoTask] /\ UNCHANGED <<row, rooms, quiet>>
      BY <1>1 DEF TaskFails, OpenRoom, Leave
    <2>. QED
      BY <2>1, StepInv
  <1>2. ASSUME NEW d \in Desks, NEW r \in Breakout, CreateBreakoutRoom(d, r) PROVE BreakoutInv'
    <2>. DEFINE x == [NoTask EXCEPT !.kind = "create", !.at = "insert", !.room = r]
    <2>1. x \in Task /\ x.left = {} /\ x.kind = "create"
      BY DEF NoTask, Task, Kinds, Steps
    <2>2. task' = [task EXCEPT ![d] = x] /\ UNCHANGED <<row, rooms, quiet>>
      BY <1>2 DEF CreateBreakoutRoom, Take
    <2>. HIDE DEF x
    <2>. QED
      BY <2>1, <2>2, StepInv
  <1>3. ASSUME NEW d \in Desks, InsertRoom(d) PROVE BreakoutInv'
    <2>. DEFINE x == [task[d] EXCEPT !.at = "sfu"]
    <2>1. x \in Task /\ x.left = task[d].left /\ x.kind = task[d].kind /\ x.room = task[d].room
      BY DEF Task, Steps
    <2>2. task' = [task EXCEPT ![d] = x] /\ UNCHANGED <<row, quiet>>
      BY <1>3 DEF InsertRoom, Turn
    <2>3. /\ rooms' \in [Breakout -> {"none", "active", "closed"}]
          /\ \A r \in Breakout : rooms[r] = "closed" => rooms'[r] = "closed"
      BY <1>3 DEF InsertRoom
    <2>. HIDE DEF x
    <2>. QED
      BY <2>1, <2>2, <2>3, StepInv
  <1>4. ASSUME NEW d \in Desks, NEW a \in Attendees, NEW r \in Breakout,
               JoinBreakoutRoom(d, a, r)
        PROVE  BreakoutInv'
    <2>. DEFINE x == [NoTask EXCEPT !.kind = "move", !.at = "self", !.who = a, !.room = r]
    <2>1. x \in Task /\ x.left = {} /\ x.kind = "move" /\ x.room = r
      BY DEF NoTask, Task, Kinds, Steps
    <2>2. /\ task' = [e \in Desks |-> IF e = d THEN x
                                     ELSE [task[e] EXCEPT !.left = @ \ {r}]]
          /\ UNCHANGED <<row, rooms, quiet>> /\ rooms[r] = "active"
      BY <1>4 DEF JoinBreakoutRoom, Joinable
    <2>. HIDE DEF x
    <2>3. ASSUME NEW e \in Desks
          PROVE  /\ task'[e] \in Task
                 /\ task'[e].left \subseteq task[e].left \ {r}
                 /\ task'[e].kind = "move" /\ task'[e].room # r =>
                       task[e].kind = "move" /\ task[e].room = task'[e].room
      BY <2>1, <2>2 DEF Task
    <2>4. BreakoutTypeOK'
      BY <2>2, <2>3 DEF BreakoutTypeOK
    <2>5. ASSUME NEW q \in Breakout, q # r, Deserted(q) PROVE Deserted(q)'
      BY <2>2, <2>3, <2>5, DesertedStays
    <2>6. EmptiedStays'
      <3>. SUFFICES ASSUME NEW e \in Desks, NEW q \in task'[e].left PROVE Deserted(q)'
        BY DEF EmptiedStays
      <3>1. q \in task[e].left /\ q \in Breakout /\ q # r
        BY <2>3 DEF Task
      <3>. QED
        BY <2>5, <3>1 DEF BreakoutInv, EmptiedStays
    <2>7. QuietStays'
      BY <2>2, <2>5 DEF BreakoutInv, QuietStays
    <2>. QED
      BY <2>4, <2>6, <2>7 DEF BreakoutInv
  <1>5. ASSUME NEW d \in Desks, Participant(d) PROVE BreakoutInv'
    <2>. DEFINE x == [task[d] EXCEPT !.at = "assign"]
    <2>1. x \in Task /\ x.left = task[d].left /\ x.kind = task[d].kind /\ x.room = task[d].room
      BY DEF Task, Steps
    <2>2. /\ task' = [task EXCEPT ![d] = x] \/ task' = [task EXCEPT ![d] = NoTask]
          /\ UNCHANGED <<row, rooms, quiet>>
      BY <1>5 DEF Participant, Turn, Leave
    <2>. HIDE DEF x
    <2>. QED
      BY <2>1, <2>2, StepInv
  <1>6. ASSUME NEW d \in Desks, NEW a \in Attendees, ReturnToMainRoom(d, a) PROVE BreakoutInv'
    <2>. DEFINE x == [NoTask EXCEPT !.kind = "move", !.at = "assign", !.who = a]
    <2>1. x \in Task /\ x.left = {} /\ x.room = Main
      BY DEF NoTask, Task, Kinds, Steps
    <2>2. task' = [task EXCEPT ![d] = x] /\ UNCHANGED <<row, rooms, quiet>>
      BY <1>6 DEF ReturnToMainRoom, Take
    <2>. HIDE DEF x
    <2>. QED
      BY <2>1, <2>2, StepInv
  <1>7. ASSUME NEW d \in Desks, Assign(d) PROVE BreakoutInv'
    <2>1. task' = [task EXCEPT ![d] = NoTask] /\ UNCHANGED <<rooms, quiet>>
      BY <1>7 DEF Assign, Leave
    <2>2. /\ row' \in [Attendees -> Row]
          /\ \A a \in Attendees : row'[a].room \in {row[a].room, task[d].room}
      <3>. task[d].room \in Breakout \cup {Main}
        BY DEF Task
      <3>1. CASE row' = row
        BY <3>1
      <3>2. CASE row' = [row EXCEPT ![task[d].who].room = task[d].room]
        BY <3>2 DEF Row
      <3>. QED
        BY <1>7, <3>1, <3>2 DEF Assign
    <2>3. task[d].kind = "move"
      BY <1>7 DEF Assign, Doing
    <2>. QED
      BY <2>1, <2>2, <2>3, StepInv
  <1>8. ASSUME NEW d \in Desks,
               CloseAllBreakoutRooms(d) \/ EndCallCommits(d) \/ ListRooms(d)
                 \/ \E r \in Breakout : CloseBreakoutRoom(d, r)
        PROVE  BreakoutInv'
    <2>1. PICK x \in Task : /\ x.left \subseteq task[d].left /\ x.kind # "move"
                            /\ task' = [task EXCEPT ![d] = x]
      <3>1. CASE CloseAllBreakoutRooms(d)
        <4>. DEFINE x == [NoTask EXCEPT !.kind = "closeAll", !.at = "empty", !.todo = Active]
        <4>1. x \in Task /\ x.left = {} /\ x.kind = "closeAll"
          BY DEF NoTask, Task, Kinds, Steps, Active
        <4>. QED
          BY <3>1, <4>1 DEF CloseAllBreakoutRooms, Take
      <3>2. CASE EndCallCommits(d)
        <4>. DEFINE x == [NoTask EXCEPT !.kind = "end", !.at = "list"]
        <4>1. x \in Task /\ x.left = {} /\ x.kind = "end"
          BY DEF NoTask, Task, Kinds, Steps
        <4>. QED
          BY <3>2, <4>1 DEF EndCallCommits, Take
      <3>3. CASE ListRooms(d)
        <4>. DEFINE x == [task[d] EXCEPT !.at = "empty", !.todo = Active]
        <4>1. x \in Task /\ x.left = task[d].left /\ x.kind = "end"
          BY <3>3 DEF Task, Steps, Active, ListRooms, Doing
        <4>. QED
          BY <3>3, <4>1 DEF ListRooms, Take
      <3>4. CASE \E r \in Breakout : CloseBreakoutRoom(d, r)
        <4>. PICK r \in Breakout : CloseBreakoutRoom(d, r)
          BY <3>4
        <4>. DEFINE x == [NoTask EXCEPT !.kind = "close", !.at = "empty",
                                        !.room = r, !.todo = {r}]
        <4>1. x \in Task /\ x.left = {} /\ x.kind = "close"
          BY DEF NoTask, Task, Kinds, Steps
        <4>. QED
          BY <4>1 DEF CloseBreakoutRoom, Take
      <3>. QED
        BY <1>8, <3>1, <3>2, <3>3, <3>4
    <2>2. UNCHANGED <<row, rooms, quiet>>
      BY <1>8 DEF CloseAllBreakoutRooms, EndCallCommits, ListRooms, CloseBreakoutRoom
    <2>. QED
      BY <2>1, <2>2, StepInv
  <1>9. ASSUME NEW d \in Desks, NEW r \in Breakout, EmptyRoom(d, r) PROVE BreakoutInv'
    <2>. DEFINE x == [task[d] EXCEPT !.todo = @ \ {r}]
                y == [task[d] EXCEPT !.todo = @ \ {r},
                         !.left = IF Entering(r) THEN @ ELSE @ \cup {r}]
    <2>1. /\ x \in Task /\ y \in Task
          /\ x.left = task[d].left /\ x.kind = task[d].kind /\ x.room = task[d].room
          /\ y.kind = task[d].kind /\ y.room = task[d].room
          /\ y.left = IF Entering(r) THEN task[d].left ELSE task[d].left \cup {r}
      BY DEF Task
    <2>2. UNCHANGED <<rooms, quiet>>
      BY <1>9 DEF EmptyRoom
    <2>3. CASE row' = row /\ task' = [task EXCEPT ![d] = x]
      <3>. HIDE DEF x
      <3>. QED
        BY <2>1, <2>2, <2>3, StepInv
    <2>4. CASE /\ row' = [a \in Attendees |->
                            IF a \in In(r) THEN [row[a] EXCEPT !.room = Main] ELSE row[a]]
               /\ task' = [task EXCEPT ![d] = y]
      <3>. HIDE DEF x, y
      <3>1. \A a \in Attendees : /\ row'[a] \in Row
                                /\ row'[a].room # r
                                /\ row'[a].room \in {row[a].room, Main}
        BY <2>4 DEF In, Row
      <3>2. \A e \in Desks : task'[e] = IF e = d THEN y ELSE task[e]
        BY <2>4
      <3>3. BreakoutTypeOK'
        BY <2>1, <2>2, <2>4, <3>1 DEF BreakoutTypeOK
      <3>4. ASSUME NEW q \in Breakout, Deserted(q) PROVE Deserted(q)'
        BY <2>1, <3>1, <3>2, <3>4, DesertedStays
      <3>5. ~Entering(r) => Deserted(r)'
        BY <2>1, <3>1, <3>2 DEF Deserted, In, Entering
      <3>6. EmptiedStays'
        <4>. SUFFICES ASSUME NEW e \in Desks, NEW q \in task'[e].left PROVE Deserted(q)'
          BY DEF EmptiedStays
        <4>1. q \in Breakout /\ (q \in task[e].left \/ (q = r /\ ~Entering(r)))
          BY <2>1, <3>2 DEF Task
        <4>. QED
          BY <3>4, <3>5, <4>1 DEF BreakoutInv, EmptiedStays
      <3>7. QuietStays'
        BY <2>2, <3>4 DEF BreakoutInv, QuietStays
      <3>. QED
        BY <3>3, <3>6, <3>7 DEF BreakoutInv
    <2>. QED
      BY <1>9, <2>3, <2>4 DEF EmptyRoom, Take
  <1>10. ASSUME NEW d \in Desks, CloseRows(d) PROVE BreakoutInv'
    <2>. DEFINE gone == IF task[d].kind = "close" THEN {task[d].room} \cap Active ELSE Active
    <2>1. /\ rooms' = [r \in Breakout |-> IF r \in gone THEN "closed" ELSE rooms[r]]
          /\ quiet' = quiet \cup (gone \cap task[d].left)
          /\ task' = [task EXCEPT ![d] = NoTask] /\ row' = row
      BY <1>10 DEF CloseRows, Leave
    <2>2. gone \subseteq Breakout
      BY DEF Active
    <2>. HIDE DEF gone
    <2>3. \A e \in Desks : task'[e] = IF e = d THEN NoTask ELSE task[e]
      BY <2>1
    <2>4. BreakoutTypeOK'
      BY <2>1, <2>2 DEF BreakoutTypeOK
    <2>5. ASSUME NEW q \in Breakout, Deserted(q) PROVE Deserted(q)'
      BY <2>1, <2>3, <2>5, DesertedStays
    <2>6. EmptiedStays'
      BY <2>3, <2>5 DEF BreakoutInv, EmptiedStays, Task
    <2>7. QuietStays'
      BY <2>1, <2>2, <2>5 DEF BreakoutInv, EmptiedStays, QuietStays
    <2>. QED
      BY <2>4, <2>6, <2>7 DEF BreakoutInv
  <1>11. ASSUME NEW a \in Attendees, Rejoin(a) PROVE BreakoutInv'
    <2>1. row' = [row EXCEPT ![a].on = ~@] /\ UNCHANGED <<rooms, task, quiet>>
      BY <1>11 DEF Rejoin
    <2>2. row' \in [Attendees -> Row] /\ \A b \in Attendees : row'[b].room = row[b].room
      BY <2>1 DEF Row
    <2>3. BreakoutTypeOK'
      BY <2>1, <2>2 DEF BreakoutTypeOK
    <2>4. ASSUME NEW q \in Breakout, Deserted(q) PROVE Deserted(q)'
      BY <2>1, <2>2, <2>4, DesertedStays
    <2>5. EmptiedStays' /\ QuietStays'
      BY <2>1, <2>4 DEF BreakoutInv, EmptiedStays, QuietStays, Task
    <2>. QED
      BY <2>3, <2>5 DEF BreakoutInv
  <1>12. CASE UNCHANGED breakoutVars
    BY <1>12 DEF breakoutVars, BreakoutInv, BreakoutTypeOK, EmptiedStays, QuietStays,
                 Deserted, In, Entering
  <1>. QED
    BY <1>1, <1>2, <1>3, <1>4, <1>5, <1>6, <1>7, <1>8, <1>9, <1>10, <1>11, <1>12
       DEF BreakoutNext

(* Whatever closes, joins, returns, leaves, fails and ends together, a     *)
(* room that CloseBreakoutRoom or CloseAllBreakoutRooms emptied and closed *)
(* with nobody on the way in is nobody's room from then on.                *)
THEOREM ClosedRoomIsLeftAlways == BreakoutSpec => []ClosedRoomIsLeft
PROOF
  <1>1. BreakoutInv => ClosedRoomIsLeft
    BY DEF BreakoutInv, QuietStays, ClosedRoomIsLeft, Deserted
  <1>. QED
    BY <1>1, BreakoutInitInv, BreakoutStepInv, PTL DEF BreakoutSpec

-----------------------------------------------------------------------------
(***************************************************************************)
(* Theorems of MeetingLinks, for any number of links and guests and any    *)
(* limits.                                                                 *)
(*                                                                         *)
(* The two checks are made on what was read, so the bounds do not hold by  *)
(* themselves: LinkInv counts, with the uses of a link, the joins that may *)
(* still use it, and with the guests in a seat those about to sit down.    *)
(* At the moment a check passes there are at most AtOnce of either; later  *)
(* each of them only moves from the one side of the sum to the other.      *)
(***************************************************************************)

Join == [pc : {"new"}]
   \cup [pc : {"check", "failed"}, link : Links, usable : BOOLEAN]
   \cup [pc : {"seat", "insert", "ring", "count", "answered", "failed"}, link : Links,
         rings : BOOLEAN, as : {"waiting", "connected"}]

LinkTypeOK ==
    /\ links \in [Links -> [made : BOOLEAN, uses : Nat, revoked : BOOLEAN, expired : BOOLEAN]]
    /\ meeting \in {"ringing", "active", "ended"}
    /\ doors \in [locked : BOOLEAN, waiting : BOOLEAN]
    /\ seats \in [MeetingGuests -> {"none", "waiting", "connected", "disconnected"}]
    /\ joining \in [MeetingGuests -> Join]
    /\ admissions \subseteq MeetingGuests

FewJoin == IsFiniteSet(InProgress) /\ Cardinality(InProgress) <= AtOnce

\* Joins that may still count a use of l, and those that have.
Pending(l) ==
    {g \in MeetingGuests : /\ joining[g].pc \in {"check", "seat", "insert", "ring", "count"}
                           /\ joining[g].link = l
                           /\ joining[g].pc = "check" => joining[g].usable}
Answered(l) == {g \in MeetingGuests : joining[g].pc = "answered" /\ joining[g].link = l}

UsesCounted == \A l \in Links :
    /\ links[l].uses + Cardinality(Pending(l)) < LinkMax + AtOnce
    /\ IsFiniteSet(Answered(l)) /\ Cardinality(Answered(l)) <= links[l].uses

\* Guests whose INSERT has counted, and will take a seat in the call.
Seating == {g \in MeetingGuests : joining[g].pc = "insert" /\ joining[g].as = "connected"}
Seated == Connected \ admissions

SeatsCounted ==
    /\ IsFiniteSet(Connected)
    /\ Cardinality(Seated) + Cardinality(Seating) < SeatCap + AtOnce

LinkInv == LinkTypeOK /\ FewJoin /\ UsesCounted /\ SeatsCounted

-----------------------------------------------------------------------------
LEMMA OneMore ==
  ASSUME NEW S, IsFiniteSet(S), NEW x, NEW T, T \subseteq S \cup {x}
  PROVE  /\ IsFiniteSet(T) /\ Cardinality(T) \in Nat /\ Cardinality(S) \in Nat
         /\ Cardinality(T) <= Cardinality(S) + 1
PROOF
  <1>1. Cardinality(S) \in Nat
    BY FS_CardinalityType
  <1>2. /\ IsFiniteSet(S \cup {x})
        /\ Cardinality(S \cup {x}) <= Cardinality(S) + 1
    BY <1>1, FS_AddElement
  <1>3. T \in SUBSET (S \cup {x})
    OBVIOUS
  <1>4. IsFiniteSet(T) /\ Cardinality(T) <= Cardinality(S \cup {x})
    BY <1>2, <1>3, FS_Subset
  <1>5. Cardinality(T) \in Nat /\ Cardinality(S \cup {x}) \in Nat
    BY <1>2, <1>4, FS_CardinalityType
  <1>. QED
    BY <1>2, <1>1, <1>4, <1>5

LEMMA OneLess ==
  ASSUME NEW S, IsFiniteSet(S), NEW x \in S, NEW T, T \subseteq S \ {x}
  PROVE  /\ IsFiniteSet(T) /\ Cardinality(T) \in Nat /\ Cardinality(S) \in Nat
         /\ Cardinality(T) + 1 <= Cardinality(S)
PROOF
  <1>1. /\ IsFiniteSet(S \ {x}) /\ Cardinality(S) \in Nat
        /\ Cardinality(S \ {x}) = Cardinality(S) - 1
    BY FS_RemoveElement, FS_CardinalityType
  <1>2. T \in SUBSET (S \ {x})
    OBVIOUS
  <1>3. IsFiniteSet(T) /\ Cardinality(T) <= Cardinality(S \ {x})
    BY <1>1, <1>2, FS_Subset
  <1>4. Cardinality(T) \in Nat
    BY <1>3, FS_CardinalityType
  <1>. QED
    BY <1>1, <1>3, <1>4

LEMMA NoMore ==
  ASSUME NEW S, IsFiniteSet(S), NEW T, T \subseteq S
  PROVE  /\ IsFiniteSet(T) /\ Cardinality(T) \in Nat /\ Cardinality(S) \in Nat
         /\ Cardinality(T) <= Cardinality(S)
PROOF
  <1>1. T \in SUBSET S
    OBVIOUS
  <1>. QED
    BY <1>1, FS_Subset, FS_CardinalityType

-----------------------------------------------------------------------------
LEMMA LinkInitInv == LinkInit => LinkInv
PROOF
  <1>. SUFFICES ASSUME LinkInit PROVE LinkInv
    OBVIOUS
  <1>. USE LinkAssumption
  <1>1. LinkTypeOK
    BY DEF LinkInit, LinkTypeOK, Join, NoJoin
  <1>2. /\ InProgress = {} /\ Connected = {} /\ Seating = {} /\ Seated = {}
        /\ \A l \in Links : Pending(l) = {} /\ Answered(l) = {} /\ links[l].uses = 0
    BY DEF LinkInit, NoJoin, InProgress, Connected, Seating, Seated, Pending, Answered
  <1>3. IsFiniteSet({}) /\ Cardinality({}) = 0
    BY FS_EmptySet
  <1>4. FewJoin /\ SeatsCounted
    BY <1>2, <1>3 DEF FewJoin, SeatsCounted
  <1>5. UsesCounted
    <2>1. ASSUME NEW l \in Links
          PROVE  /\ links[l].uses = 0 /\ Cardinality(Pending(l)) = 0
                 /\ IsFiniteSet(Answered(l)) /\ Cardinality(Answered(l)) = 0
      BY <1>2, <1>3
    <2>. QED
      BY <2>1 DEF UsesCounted
  <1>. QED
    BY <1>1, <1>4, <1>5 DEF LinkInv

(* A join that goes on, or ends, and counts nothing.                       *)
LEMMA JoinStepInv ==
  ASSUME LinkInv, NEW g \in MeetingGuests, NEW x \in Join,
         joining' = [joining EXCEPT ![g] = x], g \in InProgress,
         x.pc = "failed" \/ x.link = joining[g].link,
         x.pc \notin {"new", "check", "answered"},
         x.pc # "failed" => g \in Pending(x.link),
         x.pc = "insert" => SeatFree,
         UNCHANGED <<seats, admissions>>,
         links' = links, meeting' \in {"ringing", "active", "ended"}, doors' = doors
  PROVE  LinkInv'
PROOF
  <1>. USE LinkAssumption
  <1>1. \A h \in MeetingGuests : joining'[h] = IF h = g THEN x ELSE joining[h]
    BY DEF LinkInv, LinkTypeOK
  <1>2. LinkTypeOK'
    BY DEF LinkInv, LinkTypeOK
  <1>3. FewJoin'
    <2>1. InProgress' \subseteq InProgress
      BY <1>1 DEF InProgress
    <2>. QED
      BY <2>1, NoMore DEF LinkInv, FewJoin
  <1>4. UsesCounted'
    <2>. SUFFICES ASSUME NEW l \in Links
                  PROVE  /\ links[l].uses + Cardinality(Pending(l)') < LinkMax + AtOnce
                         /\ IsFiniteSet(Answered(l)') /\ Cardinality(Answered(l)') <= links[l].uses
      BY DEF UsesCounted
    <2>1. Pending(l) \subseteq InProgress /\ Pending(l)' \subseteq Pending(l)
      BY <1>1 DEF Pending, InProgress
    <2>2. IsFiniteSet(Pending(l))
      BY <2>1, NoMore DEF LinkInv, FewJoin
    <2>3. Cardinality(Pending(l)') <= Cardinality(Pending(l))
          /\ Cardinality(Pending(l)') \in Nat /\ Cardinality(Pending(l)) \in Nat
      BY <2>1, <2>2, NoMore
    <2>4. Answered(l)' = Answered(l)
      BY <1>1 DEF Answered, InProgress
    <2>5. links[l].uses \in Nat
      BY DEF LinkInv, LinkTypeOK
    <2>. QED
      BY <2>3, <2>4, <2>5 DEF LinkInv, UsesCounted
  <1>5. SeatsCounted'
    <2>1. Connected' = Connected /\ Seated' = Seated
      BY DEF Connected, Seated
    <2>2. IsFiniteSet(Seated) /\ Cardinality(Seated) <= Cardinality(Connected)
          /\ Cardinality(Seated) \in Nat /\ Cardinality(Connected) \in Nat
      BY NoMore DEF Seated, LinkInv, SeatsCounted
    <2>3. Seating \subseteq InProgress /\ Seating' \subseteq InProgress'
      BY DEF Seating, InProgress
    <2>4. /\ IsFiniteSet(Seating) /\ Cardinality(Seating') \in Nat
          /\ Cardinality(Seating') <= AtOnce
      BY <1>3, <2>3, NoMore DEF LinkInv, FewJoin
    <2>5. CASE x.pc = "insert"
      BY <2>1, <2>2, <2>4, <2>5 DEF SeatsCounted, LinkInv, SeatFree
    <2>6. CASE x.pc # "insert"
      <3>1. Seating' \subseteq Seating
        BY <1>1, <2>6 DEF Seating
      <3>2. Cardinality(Seating') <= Cardinality(Seating) /\ Cardinality(Seating) \in Nat
        BY <2>4, <3>1, NoMore
      <3>. QED
        BY <2>1, <2>2, <2>4, <3>2 DEF SeatsCounted, LinkInv
    <2>. QED
      BY <2>5, <2>6
  <1>. QED
    BY <1>2, <1>3, <1>4, <1>5 DEF LinkInv

-----------------------------------------------------------------------------
LEMMA GetInviteLinkInv ==
  ASSUME LinkInv, NEW g \in MeetingGuests, NEW k \in Links, GetInviteLink(g, k)
  PROVE  LinkInv'
PROOF
  <1>. USE LinkAssumption
  <1>. DEFINE x == [pc |-> "check", link |-> k,
                    usable |-> ~links[k].revoked /\ links[k].uses < LinkMax]
  <1>1. /\ x \in Join /\ x.pc = "check" /\ x.link = k
        /\ x.usable => links[k].uses < LinkMax
    BY DEF Join
  <1>2. /\ joining' = [joining EXCEPT ![g] = x] /\ joining[g].pc = "new"
        /\ Cardinality(InProgress) < AtOnce
        /\ UNCHANGED <<links, meeting, doors, seats, admissions>>
    BY DEF GetInviteLink, NoJoin
  <1>. HIDE DEF x
  <1>3. \A h \in MeetingGuests : joining'[h] = IF h = g THEN x ELSE joining[h]
    BY <1>2 DEF LinkInv, LinkTypeOK
  <1>4. LinkTypeOK'
    BY <1>1, <1>2 DEF LinkInv, LinkTypeOK
  <1>5. FewJoin'
    <2>1. InProgress' \subseteq InProgress \cup {g} /\ IsFiniteSet(InProgress)
      BY <1>3 DEF InProgress, LinkInv, FewJoin
    <2>. QED
      BY <1>2, <2>1, OneMore DEF FewJoin
  <1>6. ASSUME NEW l \in Links
        PROVE  /\ links[l].uses + Cardinality(Pending(l)') < LinkMax + AtOnce
               /\ Answered(l)' = Answered(l)
    <2>1. Answered(l)' = Answered(l)
      BY <1>1, <1>2, <1>3 DEF Answered
    <2>2. links[l].uses \in Nat
      BY DEF LinkInv, LinkTypeOK
    <2>3. CASE l = k /\ x.usable
      <3>1. Pending(l)' \subseteq InProgress'
        BY DEF Pending, InProgress
      <3>2. Cardinality(Pending(l)') <= AtOnce /\ Cardinality(Pending(l)') \in Nat
        BY <1>5, <3>1, NoMore DEF FewJoin
      <3>. QED
        BY <1>1, <2>1, <2>2, <2>3, <3>2
    <2>4. CASE ~(l = k /\ x.usable)
      <3>1. Pending(l)' \subseteq Pending(l) /\ Pending(l) \subseteq InProgress
        BY <1>1, <1>3, <2>4 DEF Pending, InProgress
      <3>2. IsFiniteSet(Pending(l))
        BY <3>1, NoMore DEF LinkInv, FewJoin
      <3>3. /\ Cardinality(Pending(l)') <= Cardinality(Pending(l))
            /\ Cardinality(Pending(l)') \in Nat /\ Cardinality(Pending(l)) \in Nat
        BY <3>1, <3>2, NoMore
      <3>. QED
        BY <2>1, <2>2, <3>3 DEF LinkInv, UsesCounted
    <2>. QED
      BY <2>3, <2>4
  <1>7. UsesCounted'
    BY <1>2, <1>6 DEF LinkInv, UsesCounted
  <1>8. SeatsCounted'
    <2>1. Connected' = Connected /\ Seated' = Seated /\ Seating' = Seating
      BY <1>1, <1>2, <1>3 DEF Connected, Seated, Seating
    <2>. QED
      BY <2>1 DEF LinkInv, SeatsCounted
  <1>. QED
    BY <1>4, <1>5, <1>7, <1>8 DEF LinkInv

LEMMA AddParticipantInv ==
  ASSUME LinkInv, NEW g \in MeetingGuests, AddParticipant(g)
  PROVE  LinkInv'
PROOF
  <1>. USE LinkAssumption
  <1>. DEFINE x == [joining[g] EXCEPT !.pc = "ring"]
  <1>1. joining[g] \in Join /\ joining[g].pc = "insert"
    BY DEF AddParticipant, LinkInv, LinkTypeOK
  <1>2. /\ x \in Join /\ x.pc = "ring" /\ x.link = joining[g].link
        /\ joining[g].as \in {"waiting", "connected"}
    BY <1>1 DEF Join
  <1>3. /\ joining' = [joining EXCEPT ![g] = x] /\ seats' = [seats EXCEPT ![g] = joining[g].as]
        /\ UNCHANGED <<links, meeting, doors, admissions>>
    BY DEF AddParticipant, Goto
  <1>. HIDE DEF x
  <1>4. \A h \in MeetingGuests : /\ joining'[h] = IF h = g THEN x ELSE joining[h]
                                /\ seats'[h] = IF h = g THEN joining[g].as ELSE seats[h]
    BY <1>3 DEF LinkInv, LinkTypeOK
  <1>5. LinkTypeOK'
    BY <1>2, <1>3 DEF LinkInv, LinkTypeOK
  <1>6. InProgress' = InProgress
    BY <1>1, <1>2, <1>4 DEF InProgress
  <1>7. \A l \in Links : Pending(l)' = Pending(l) /\ Answered(l)' = Answered(l)
    BY <1>1, <1>2, <1>4 DEF Pending, Answered
  <1>8. FewJoin' /\ UsesCounted'
    BY <1>3, <1>6, <1>7 DEF LinkInv, FewJoin, UsesCounted
  <1>9. SeatsCounted'
    <2>1. Seating \subseteq InProgress /\ Connected' \subseteq Connected \cup {g}
      BY <1>4 DEF Seating, InProgress, Connected
    <2>2. IsFiniteSet(Seating) /\ IsFiniteSet(Connected) /\ IsFiniteSet(Connected')
      BY <2>1, NoMore, OneMore DEF LinkInv, FewJoin, SeatsCounted
    <2>3. IsFiniteSet(Seated)
      BY <2>2, NoMore DEF Seated
    <2>4. CASE joining[g].as = "connected"
      <3>1. /\ g \in Seating /\ Seating' \subseteq Seating \ {g}
            /\ Seated' \subseteq Seated \cup {g}
        BY <1>1, <1>2, <1>3, <1>4, <2>4 DEF Seating, Seated, Connected
      <3>2. /\ Cardinality(Seating') + 1 <= Cardinality(Seating)
            /\ Cardinality(Seating') \in Nat /\ Cardinality(Seating) \in Nat
        BY <2>2, <3>1, OneLess
      <3>3. /\ Cardinality(Seated') <= Cardinality(Seated) + 1
            /\ Cardinality(Seated') \in Nat /\ Cardinality(Seated) \in Nat
        BY <2>3, <3>1, OneMore
      <3>. QED
        BY <2>2, <3>2, <3>3 DEF LinkInv, SeatsCounted
    <2>5. CASE joining[g].as # "connected"
      <3>1. Seating' \subseteq Seating /\ Seated' \subseteq Seated
        BY <1>1, <1>2, <1>3, <1>4, <2>5 DEF Seating, Seated, Connected
      <3>2. /\ Cardinality(Seating') <= Cardinality(Seating)
            /\ Cardinality(Seating') \in Nat /\ Cardinality(Seating) \in Nat
        BY <2>2, <3>1, NoMore
      <3>3. /\ Cardinality(Seated') <= Cardinality(Seated)
            /\ Cardinality(Seated') \in Nat /\ Cardinality(Seated) \in Nat
        BY <2>3, <3>1, NoMore
      <3>. QED
        BY <2>2, <3>2, <3>3 DEF LinkInv, SeatsCounted
    <2>. QED
      BY <2>4, <2>5
  <1>. QED
    BY <1>5, <1>8, <1>9 DEF LinkInv

LEMMA IncrementInviteUseCountInv ==
  ASSUME LinkInv, NEW g \in MeetingGuests, IncrementInviteUseCount(g)
  PROVE  LinkInv'
PROOF
  <1>. USE LinkAssumption
  <1>. DEFINE x == [joining[g] EXCEPT !.pc = "answered"]
              k == joining[g].link
  <1>1. joining[g] \in Join /\ joining[g].pc = "count"
    BY DEF IncrementInviteUseCount, LinkInv, LinkTypeOK
  <1>2. x \in Join /\ x.pc = "answered" /\ x.link = k /\ k \in Links
    BY <1>1 DEF Join
  <1>3. /\ joining' = [joining EXCEPT ![g] = x] /\ links' = [links EXCEPT ![k].uses = @ + 1]
        /\ UNCHANGED <<meeting, doors, seats, admissions>>
    BY DEF IncrementInviteUseCount, Goto
  <1>. HIDE DEF x
  <1>4. /\ \A h \in MeetingGuests : joining'[h] = IF h = g THEN x ELSE joining[h]
        /\ \A l \in Links : /\ links'[l].uses = IF l = k THEN links[l].uses + 1 ELSE links[l].uses
                            /\ links[l].uses \in Nat
    BY <1>3 DEF LinkInv, LinkTypeOK
  <1>5. LinkTypeOK'
    BY <1>2, <1>3 DEF LinkInv, LinkTypeOK
  <1>6. FewJoin'
    <2>1. InProgress' \subseteq InProgress
      BY <1>2, <1>4 DEF InProgress
    <2>. QED
      BY <2>1, NoMore DEF LinkInv, FewJoin
  <1>7. ASSUME NEW l \in Links
        PROVE  /\ links'[l].uses + Cardinality(Pending(l)') < LinkMax + AtOnce
               /\ IsFiniteSet(Answered(l)') /\ Cardinality(Answered(l)') <= links'[l].uses
    <2>1. Pending(l) \subseteq InProgress
      BY DEF Pending, InProgress
    <2>2. IsFiniteSet(Pending(l))
      BY <2>1, NoMore DEF LinkInv, FewJoin
    <2>3. CASE l = k
      <3>1. /\ g \in Pending(l) /\ Pending(l)' \subseteq Pending(l) \ {g}
            /\ Answered(l)' \subseteq Answered(l) \cup {g}
        BY <1>1, <1>2, <1>4, <2>3 DEF Pending, Answered
      <3>2. /\ Cardinality(Pending(l)') + 1 <= Cardinality(Pending(l))
            /\ Cardinality(Pending(l)') \in Nat /\ Cardinality(Pending(l)) \in Nat
        BY <2>2, <3>1, OneLess
      <3>3. /\ IsFiniteSet(Answered(l)') /\ Cardinality(Answered(l)') <= Cardinality(Answered(l)) + 1
            /\ Cardinality(Answered(l)') \in Nat /\ Cardinality(Answered(l)) \in Nat
        BY <3>1, OneMore DEF LinkInv, UsesCounted
      <3>. QED
        BY <1>4, <2>3, <3>2, <3>3 DEF LinkInv, UsesCounted
    <2>4. CASE l # k
      <3>1. Pending(l)' = Pending(l) /\ Answered(l)' = Answered(l)
        BY <1>2, <1>4, <2>4 DEF Pending, Answered
      <3>. QED
        BY <1>4, <2>4, <3>1 DEF LinkInv, UsesCounted
    <2>. QED
      BY <2>3, <2>4
  <1>8. UsesCounted'
    BY <1>7 DEF UsesCounted
  <1>9. SeatsCounted'
    <2>1. Connected' = Connected /\ Seated' = Seated /\ Seating' = Seating
      BY <1>1, <1>2, <1>3, <1>4 DEF Connected, Seated, Seating
    <2>. QED
      BY <2>1 DEF LinkInv, SeatsCounted
  <1>. QED
    BY <1>5, <1>6, <1>8, <1>9 DEF LinkInv

(* A guest let in is in admissions; one who leaves frees a seat.           *)
LEMMA SeatStepInv ==
  ASSUME LinkInv, NEW g \in MeetingGuests, AdmitGuest(g) \/ GuestLeaves(g)
  PROVE  LinkInv'
PROOF
  <1>. USE LinkAssumption
  <1>1. UNCHANGED <<links, doors, joining>>
    BY DEF AdmitGuest, GuestLeaves
  <1>2. LinkTypeOK'
    BY <1>1 DEF AdmitGuest, GuestLeaves, LinkInv, LinkTypeOK
  <1>3. FewJoin' /\ UsesCounted'
    BY <1>1 DEF LinkInv, FewJoin, UsesCounted, InProgress, Pending, Answered
  <1>4. SeatsCounted'
    <2>1. Seating' = Seating /\ Seating \subseteq InProgress
      BY <1>1 DEF Seating, InProgress
    <2>2. Cardinality(Seating) \in Nat
      BY <2>1, NoMore DEF LinkInv, FewJoin
    <2>3. Connected' \subseteq Connected \cup {g} /\ Seated' \subseteq Seated
      <3>1. CASE AdmitGuest(g)
        BY <3>1 DEF AdmitGuest, Connected, Seated, LinkInv, LinkTypeOK
      <3>2. CASE GuestLeaves(g)
        BY <3>2 DEF GuestLeaves, Connected, Seated, LinkInv, LinkTypeOK
      <3>. QED
        BY <3>1, <3>2
    <2>4. IsFiniteSet(Connected') /\ IsFiniteSet(Seated)
      BY <2>3, OneMore, NoMore DEF LinkInv, SeatsCounted, Seated
    <2>5. /\ Cardinality(Seated') <= Cardinality(Seated)
          /\ Cardinality(Seated') \in Nat /\ Cardinality(Seated) \in Nat
      BY <2>3, <2>4, NoMore
    <2>. QED
      BY <2>1, <2>2, <2>4, <2>5 DEF LinkInv, SeatsCounted
  <1>. QED
    BY <1>2, <1>3, <1>4 DEF LinkInv

(* What hosts and the clock do to links, doors and call counts nothing.    *)
LEMMA HostStepInv ==
  ASSUME LinkInv,
         \/ ChangeDoors \/ EndMeeting
         \/ \E l \in Links : CreateInviteLink(l) \/ RevokeInviteLink(l) \/ LinkExpires(l)
  PROVE  LinkInv'
PROOF
  <1>1. UNCHANGED <<seats, joining, admissions>>
    BY DEF ChangeDoors, EndMeeting, CreateInviteLink, RevokeInviteLink, LinkExpires
  <1>2. LinkTypeOK' /\ \A l \in Links : links'[l].uses = links[l].uses
    <2>1. CASE ChangeDoors \/ EndMeeting
      BY <1>1, <2>1 DEF ChangeDoors, EndMeeting, LinkInv, LinkTypeOK
    <2>2. ASSUME NEW l \in Links, CreateInviteLink(l) \/ RevokeInviteLink(l) \/ LinkExpires(l)
          PROVE  LinkTypeOK' /\ \A k \in Links : links'[k].uses = links[k].uses
      <3>1. /\ UNCHANGED <<meeting, doors>>
            /\ \/ links' = [links EXCEPT ![l].made = TRUE]
               \/ links' = [links EXCEPT ![l].revoked = TRUE]
               \/ links' = [links EXCEPT ![l].expired = TRUE]
        BY <2>2 DEF CreateInviteLink, RevokeInviteLink, LinkExpires
      <3>2. links' \in [Links -> [made : BOOLEAN, uses : Nat,
                                  revoked : BOOLEAN, expired : BOOLEAN]]
            /\ \A k \in Links : links'[k].uses = links[k].uses
        <4>. links \in [Links -> [made : BOOLEAN, uses : Nat,
                                  revoked : BOOLEAN, expired : BOOLEAN]]
          BY DEF LinkInv, LinkTypeOK
        <4>1. CASE links' = [links EXCEPT ![l].made = TRUE]
          BY <4>1
        <4>2. CASE links' = [links EXCEPT ![l].revoked = TRUE]
          BY <4>2
        <4>3. CASE links' = [links EXCEPT ![l].expired = TRUE]
          BY <4>3
        <4>. QED
          BY <3>1, <4>1, <4>2, <4>3
      <3>. QED
        BY <1>1, <3>1, <3>2 DEF LinkInv, LinkTypeOK
    <2>. QED
      BY <2>1, <2>2
  <1>3. FewJoin' /\ SeatsCounted'
    BY <1>1 DEF LinkInv, FewJoin, InProgress, SeatsCounted, Connected, Seated, Seating
  <1>4. UsesCounted'
    BY <1>1, <1>2 DEF LinkInv, UsesCounted, Pending, Answered
  <1>. QED
    BY <1>2, <1>3, <1>4 DEF LinkInv

LEMMA LinkStepInv == LinkInv /\ [LinkNext]_linkVars => LinkInv'
PROOF
  <1>. SUFFICES ASSUME LinkInv, [LinkNext]_linkVars PROVE LinkInv'
    OBVIOUS
  <1>. \A g \in MeetingGuests : joining[g] \in Join
    BY DEF LinkInv, LinkTypeOK
  <1>. meeting \in {"ringing", "active", "ended"}
    BY DEF LinkInv, LinkTypeOK
  <1>1. ASSUME NEW g \in MeetingGuests, CheckInvite(g) PROVE LinkInv'
    <2>1. joining[g].pc = "check" /\ UNCHANGED <<links, meeting, doors, seats, admissions>>
      BY <1>1 DEF CheckInvite
    <2>2. g \in InProgress /\ joining[g].link \in Links
      BY <2>1 DEF InProgress, Join
    <2>3. CASE joining' = [joining EXCEPT ![g].pc = "failed"]
      <3>. DEFINE x == [joining[g] EXCEPT !.pc = "failed"]
      <3>1. x \in Join /\ x.pc = "failed"
        BY <2>1 DEF Join
      <3>. HIDE DEF x
      <3>2. joining' = [joining EXCEPT ![g] = x]
        BY <2>3 DEF x
      <3>. QED
        BY <2>1, <2>2, <3>1, <3>2, JoinStepInv
    <2>4. CASE /\ InviteActive(joining[g])
               /\ joining' = [joining EXCEPT ![g] =
                     [pc |-> "seat", link |-> @.link, rings |-> meeting = "ringing",
                      as |-> IF doors.waiting THEN "waiting" ELSE "connected"]]
      <3>. DEFINE x == [pc |-> "seat", link |-> joining[g].link, rings |-> meeting = "ringing",
                        as |-> IF doors.waiting THEN "waiting" ELSE "connected"]
      <3>1. x \in Join /\ x.pc = "seat" /\ x.link = joining[g].link
        BY <2>2 DEF Join
      <3>2. joining' = [joining EXCEPT ![g] = x]
        BY <2>4
      <3>. HIDE DEF x
      <3>3. g \in Pending(x.link)
        BY <2>1, <2>4, <3>1 DEF Pending, InviteActive
      <3>. QED
        BY <2>1, <2>2, <3>1, <3>2, <3>3, JoinStepInv
    <2>. QED
      BY <1>1, <2>3, <2>4 DEF CheckInvite, Goto
  <1>2. ASSUME NEW g \in MeetingGuests, NEW at \in {"insert", "count", "failed"},
               at = "insert" => joining[g].pc = "seat" /\ SeatFree,
               at = "count" => joining[g].pc = "ring",
               g \in InProgress, Goto(g, at),
               UNCHANGED <<links, doors, seats, admissions>>,
               meeting' \in {"ringing", "active", "ended"}
        PROVE  LinkInv'
    <2>. DEFINE x == [joining[g] EXCEPT !.pc = at]
    <2>1. /\ x \in Join /\ x.pc = at /\ joining[g].link \in Links
          /\ x.link = joining[g].link
      BY <1>2 DEF Join, InProgress
    <2>2. joining' = [joining EXCEPT ![g] = x]
      BY <1>2 DEF Goto
    <2>. HIDE DEF x
    <2>3. x.pc # "failed" => g \in Pending(x.link)
      BY <1>2, <2>1 DEF Pending
    <2>. QED
      BY <1>2, <2>1, <2>2, <2>3, JoinStepInv
  <1>3. ASSUME NEW g \in MeetingGuests, CountSeats(g) PROVE LinkInv'
    <2>1. g \in InProgress
      BY <1>3 DEF CountSeats, InProgress
    <2>. QED
      BY <1>2, <1>3, <2>1 DEF CountSeats
  <1>4. ASSUME NEW g \in MeetingGuests, ActivateCall(g) PROVE LinkInv'
    <2>1. g \in InProgress
      BY <1>4 DEF ActivateCall, InProgress
    <2>. QED
      BY <1>2, <1>4, <2>1 DEF ActivateCall
  <1>5. ASSUME NEW g \in MeetingGuests, JoinFails(g) PROVE LinkInv'
    BY <1>2, <1>5 DEF JoinFails
  <1>6. CASE UNCHANGED linkVars
    BY <1>6 DEF linkVars, LinkInv, LinkTypeOK, FewJoin, UsesCounted, SeatsCounted,
                InProgress, Pending, Answered, Connected, Seated, Seating
  <1>. QED
    BY <1>1, <1>3, <1>4, <1>5, <1>6, GetInviteLinkInv, AddParticipantInv,
       IncrementInviteUseCountInv, SeatStepInv, HostStepInv DEF LinkNext

(* A join (Service.Join) checks max_uses on the row it read, and a later   *)
(* statement, IncrementInviteUseCount, counts: a link is counted once for  *)
(* each token given, and passes max_uses by less than the joins that are   *)
(* in progress at a time.                                                  *)
THEOREM LinkUsesAlways == LinkSpec => []LinkUses
PROOF
  <1>1. LinkInv => LinkUses
    <2>. SUFFICES ASSUME LinkInv, NEW l \in Links
                  PROVE  /\ links[l].uses < LinkMax + AtOnce
                         /\ Cardinality(Answered(l)) <= links[l].uses
      BY DEF LinkUses, Answered
    <2>1. Pending(l) \subseteq InProgress
      BY DEF Pending, InProgress
    <2>2. Cardinality(Pending(l)) \in Nat
      BY <2>1, NoMore DEF LinkInv, FewJoin
    <2>3. links[l].uses \in Nat
      BY DEF LinkInv, LinkTypeOK
    <2>. QED
      BY <2>2, <2>3, LinkAssumption DEF LinkInv, UsesCounted
  <1>. QED
    BY <1>1, LinkInitInv, LinkStepInv, PTL DEF LinkSpec

(* AddParticipantIfCapacity counts and inserts in one statement whose      *)
(* snapshot misses the insertions under way: the guests who were not let   *)
(* in from the waiting room pass the cap by less than the joins in         *)
(* progress at a time.                                                     *)
THEOREM SeatsBoundedAlways == LinkSpec => []SeatsBounded
PROOF
  <1>1. LinkInv => SeatsBounded
    <2>. SUFFICES ASSUME LinkInv PROVE Cardinality(Seated) < SeatCap + AtOnce
      BY DEF SeatsBounded, Seated
    <2>1. Seating \subseteq InProgress /\ Seated \subseteq Connected
      BY DEF Seating, InProgress, Seated
    <2>2. Cardinality(Seating) \in Nat /\ Cardinality(Seated) \in Nat
      BY <2>1, NoMore DEF LinkInv, FewJoin, SeatsCounted
    <2>. QED
      BY <2>2, LinkAssumption DEF LinkInv, SeatsCounted
  <1>. QED
    BY <1>1, LinkInitInv, LinkStepInv, PTL DEF LinkSpec

-----------------------------------------------------------------------------
(***************************************************************************)
(* Theorems of MediaCluster, for any number of nodes and participants and  *)
(* any situation.                                                          *)
(*                                                                         *)
(* A request carries the placement it read or wrote through several calls  *)
(* of the stores.  Fits says what it stands for at each of them, and       *)
(* RelayFits what a node may have left of edges it read.  Both hold as     *)
(* long as the placement is not moved; the shapes hold whatever happens.   *)
(***************************************************************************)

(* The steps a request has still to make after EnsurePlacement.            *)
OfferSteps == {<<"serve", "list", "serve", "peer">>, <<"serve", "peer">>}
Served     == {<<"list", "serve", "peer">>, <<"peer">>}
EdgeSteps  == {<<"list", "edges">>, <<"edges">>}
TokenSteps == {<<"list", "token">>, <<"token">>}
AfterEnsure == {<< >>, <<"room">>} \cup TokenSteps \cup EdgeSteps \cup OfferSteps
Thens == AfterEnsure \cup Served
Ensuring == {"list", "get", "upsert", "delete", "wait", "insert"}

Views == UNION {[S -> Nat] : S \in SUBSET Nodes}

Request == [node : Nodes \cup {None},
            at : Ensuring \cup {"idle", "room", "token", "edges", "serve", "peer", "close"},
            then : Thens, view : Views, stale : SUBSET Nodes,
            placed : Nodes \cup {None}, found : BOOLEAN, snap : SUBSET Nodes]

(* The request of a participant, and what they have spent and hold.        *)
RequestIs(r) ==
    /\ r \in Request
    /\ r.at = "idle" <=> r.node = None
    /\ r.node \in Here \cup {None}
    /\ r.at \in Ensuring => r.then \in AfterEnsure
    /\ r.at = "serve" => r.then \in Served
    /\ r.at \notin Ensuring \cup {"serve"} => r.then = << >>
    /\ r.at \in {"upsert", "delete", "wait", "insert", "token"} => r.placed # None

RequestShape ==
    /\ req \in [Users -> Request] /\ \A u \in Users : RequestIs(req[u])
    /\ spent \in [Users -> Nat] /\ \A u \in Users : spent[u] <= here.requests[u]
    /\ token \in [Users -> Nodes \cup {None}]

StoreShape ==
    /\ here \in Situations
    /\ members \subseteq Nodes /\ heard \in [Nodes -> Nat \cup {None}]
    /\ busy \in [Nodes -> Nat]
    /\ call \in {"none", "active", "ended"}
    /\ placement \in Nodes \cup {None} /\ edges \subseteq Nodes

NodeShape ==
    /\ room \subseteq Nodes
    /\ peers \in [Nodes -> SUBSET Users]
    /\ own \in [Nodes -> SUBSET Presenters]
    /\ relayed \in [Nodes -> SUBSET Presenters]
    /\ sinks \in [Nodes -> SUBSET (Presenters \X Nodes)]
    /\ attached \in [Nodes -> SUBSET Nodes] /\ keys \in [Nodes -> SUBSET Nodes]
    /\ sync \in [Nodes -> [at : {"idle", "edges", "apply"}, want : SUBSET Nodes]]
    /\ \A n \in Nodes :
          /\ sinks[n] \subseteq (own[n] \cup relayed[n]) \X Nodes
          /\ n \notin room => /\ peers[n] = {} /\ own[n] = {} /\ relayed[n] = {}
                              /\ attached[n] = {}
    /\ wire \subseteq Presenters \X Nodes \X Nodes

ClusterShape == RequestShape /\ StoreShape /\ NodeShape

(* What a request r of u in hand says of the placement p; a presenter's    *)
(* token.                                                                  *)
FitsAs(u, r, p) ==
    /\ r.at = "upsert" /\ r.found => r.placed = p
    /\ r.at \in {"delete", "wait", "insert", "token"} => r.placed = p
    /\ r.at = "edges" \/ r.then \in EdgeSteps => u \notin Presenters
    /\ u \in Presenters =>
          (r.at = "peer" \/ r.then \in OfferSteps \cup Served => p # None /\ r.node = p)

Fits(u) ==
    /\ FitsAs(u, req[u], placement)
    /\ u \in Presenters /\ token[u] # None => token[u] = placement

RequestsFitPlacement == \A u \in Users : Fits(u)

(* The edges of a call lead away from its node, and only that node acts on *)
(* them.                                                                   *)
Leads(n, S) == S # {} => n = placement /\ n \notin S
RelayFits ==
    /\ edges # {} => placement # None /\ placement \notin edges
    /\ \A n \in Nodes :
          /\ sync[n].at = "edges" => n = placement
          /\ Leads(n, sync[n].want) /\ Leads(n, keys[n]) /\ Leads(n, attached[n])

Relays == RelayFits /\ OnlyPlacementRelays /\ PresentersMeet

ClusterInv == ClusterShape /\ RequestsFitPlacement /\ Relays

-----------------------------------------------------------------------------
(* The choice of nodes.                                                    *)

(* The order of the snapshots is total, so that of n nodes one has each    *)
(* rank below n.                                                           *)
LEMMA RankIs ==
    ASSUME NEW S, S \subseteq Nodes, NEW view, \A n \in S : view[n] \in Nat,
           NEW k \in Nat, k < Cardinality(S)
    PROVE  \E m \in S : Rank(view, S, m) = k
<1> DEFINE low(n) == {m \in S : Before(view, m, n)}
           ranks == 0 .. Cardinality(S) - 1
<1>0. IsFiniteSet(S) /\ S \subseteq Nat /\ Cardinality(S) \in Nat
  BY ClusterAssumption, FS_Subset, FS_CardinalityType
<1>1. \A n \in S : Rank(view, S, n) \in ranks
  <2> SUFFICES ASSUME NEW n \in S PROVE Rank(view, S, n) \in ranks
      OBVIOUS
  <2>1. low(n) \subseteq S /\ n \notin low(n)
    BY <1>0 DEF Before
  <2>2. IsFiniteSet(low(n)) /\ Cardinality(low(n)) \in Nat /\ Cardinality(low(n)) <= Cardinality(S)
    BY <1>0, <2>1, FS_Subset, FS_CardinalityType
  <2>3. Cardinality(low(n)) # Cardinality(S)
    BY <1>0, <2>1, FS_Subset
  <2> QED
    BY <1>0, <2>2, <2>3 DEF Rank
<1>2. \A m, n \in S : m # n => Rank(view, S, m) # Rank(view, S, n)
  <2>1. ASSUME NEW m \in S, NEW n \in S, Before(view, m, n)
        PROVE  Rank(view, S, m) # Rank(view, S, n)
    <3>a. \A z \in S : Before(view, z, m) => Before(view, z, n)
      <4>1. view[m] \in Nat /\ view[n] \in Nat /\ m \in Nat /\ n \in Nat
        BY <1>0
      <4> SUFFICES ASSUME NEW z \in S, Before(view, z, m) PROVE Before(view, z, n)
          OBVIOUS
      <4>2. view[z] \in Nat /\ z \in Nat
        BY <1>0
      <4> QED
        BY <2>1, <4>1, <4>2 DEF Before
    <3>b. ~Before(view, m, m)
      BY <1>0 DEF Before
    <3>1. low(m) \subseteq low(n) /\ m \in low(n) /\ m \notin low(m)
      BY <2>1, <3>a, <3>b
    <3>2. IsFiniteSet(low(n))
      BY <1>0, FS_Subset
    <3>3. Cardinality(low(m)) # Cardinality(low(n))
      BY <3>1, <3>2, FS_Subset
    <3> QED
      BY <3>3 DEF Rank
  <2>2. \A m, n \in S : m # n => Before(view, m, n) \/ Before(view, n, m)
    BY <1>0 DEF Before
  <2> QED
    BY <2>1, <2>2
<1>3. SUFFICES ASSUME \A m \in S : Rank(view, S, m) # k PROVE FALSE
  OBVIOUS
<1> DEFINE f == [n \in S |-> Rank(view, S, n)]
<1>4. f \in [S -> ranks \ {k}]
  BY <1>1, <1>3
<1> DEFINE c == Cardinality(S) - 1
<1>5. IsFiniteSet(0 .. c) /\ Cardinality(0 .. c) = Cardinality(S) /\ k \in 0 .. c
  <2>1. c \in Int
    BY <1>0
  <2>2. /\ IsFiniteSet(0 .. c)
        /\ Cardinality(0 .. c) = IF 0 > c THEN 0 ELSE c - 0 + 1
    <3> HIDE DEF c
    <3> QED
      BY <2>1, FS_Interval
  <2> QED
    BY <1>0, <2>2
<1>6. IsFiniteSet(ranks \ {k}) /\ Cardinality(ranks \ {k}) < Cardinality(S)
  <2>1. /\ IsFiniteSet(ranks \ {k})
        /\ Cardinality(ranks \ {k}) = Cardinality(ranks) - 1
    <3> HIDE DEF ranks
    <3>1. ranks = 0 .. c
      BY DEF ranks
    <3> HIDE DEF c
    <3> QED
      BY <1>5, <3>1, FS_RemoveElement
  <2> QED
    BY <1>0, <1>5, <2>1
<1>7. \E m, n \in S : m # n /\ f[m] = f[n]
  <2> DEFINE T == ranks \ {k}
  <2>1. f \in [S -> T] /\ IsFiniteSet(T) /\ Cardinality(T) < Cardinality(S)
    BY <1>4, <1>6
  <2> HIDE DEF f, T
  <2> QED
    BY <1>0, <2>1, FS_PigeonHole
<1> QED
  BY <1>2, <1>7

(* What ListNodes answers.                                                 *)
ViewIs(view) == DOMAIN view \subseteq Nodes /\ \A n \in DOMAIN view : view[n] \in Nat

LEMMA ViewsAre ==
    /\ << >> \in Views
    /\ \A view \in Views : ViewIs(view)
  BY DEF Views, ViewIs

(* selectNode picks one of the candidates, if there is any.                *)
LEMMA SelectedIs ==
    ASSUME NEW view, ViewIs(view), NEW n, Candidates(view, n) # {}
    PROVE  Selected(view, n) \in Nodes
<1> DEFINE S == Candidates(view, n)
<1>1. S \subseteq DOMAIN view
  BY DEF Candidates, Available, InRegion
<1>2. S \subseteq Nodes /\ \A m \in S : view[m] \in Nat
  BY <1>1 DEF ViewIs
<1>3. IsFiniteSet(S) /\ Cardinality(S) \in Nat /\ Cardinality(S) # 0
  BY <1>2, ClusterAssumption, FS_Subset, FS_CardinalityType, FS_EmptySet
<1>4. Hash % Cardinality(S) \in Nat /\ Hash % Cardinality(S) < Cardinality(S)
  BY <1>3, ClusterAssumption
<1>5. \E m \in S : Rank(view, S, m) = Hash % Cardinality(S)
  <2> HIDE DEF S
  <2> QED
    BY <1>2, <1>4, RankIs
<1>6. Selected(view, n) \in S
  BY <1>5 DEF Selected
<1> QED
  BY <1>2, <1>6

(* buildRelayEdges never leads back to the source.                         *)
LEMMA RelayEdgesAre ==
    ASSUME NEW view, NEW n
    PROVE  RelayEdges(view, n) \subseteq DOMAIN view \ {n}
  BY DEF RelayEdges, RelayNodes, Lowest, Available

-----------------------------------------------------------------------------
(* The requests.                                                           *)

LEMMA IdleIs ==
    RequestIs(Idle) /\ Idle.at = "idle" /\ Idle.then = << >> /\ Idle.node = None
  BY ViewsAre DEF Idle, RequestIs, Request, Thens, AfterEnsure, Ensuring

(* What is left of the steps, one by one.                                  *)
LEMMA StepsAre ==
    /\ Head(<<"room">>) = "room" /\ Tail(<<"room">>) = << >>
    /\ Head(<<"close">>) = "close" /\ Tail(<<"close">>) = << >>
    /\ Head(<<"token">>) = "token" /\ Tail(<<"token">>) = << >>
    /\ Head(<<"edges">>) = "edges" /\ Tail(<<"edges">>) = << >>
    /\ Head(<<"peer">>) = "peer" /\ Tail(<<"peer">>) = << >>
    /\ Head(<<"list", "room">>) = "list" /\ Tail(<<"list", "room">>) = <<"room">>
    /\ Head(<<"list", "token">>) = "list" /\ Tail(<<"list", "token">>) = <<"token">>
    /\ Head(<<"list", "edges">>) = "list" /\ Tail(<<"list", "edges">>) = <<"edges">>
    /\ Head(<<"serve", "peer">>) = "serve" /\ Tail(<<"serve", "peer">>) = <<"peer">>
    /\ Head(<<"list", "serve", "peer">>) = "list"
    /\ Tail(<<"list", "serve", "peer">>) = <<"serve", "peer">>
    /\ Head(<<"serve", "list", "serve", "peer">>) = "serve"
    /\ Tail(<<"serve", "list", "serve", "peer">>) = <<"list", "serve", "peer">>
    /\ Head(<<"list", "serve", "list", "serve", "peer">>) = "list"
    /\ Tail(<<"list", "serve", "list", "serve", "peer">>) = <<"serve", "list", "serve", "peer">>
    /\ Head(<<"list", "list", "token">>) = "list"
    /\ Tail(<<"list", "list", "token">>) = <<"list", "token">>
    /\ Head(<<"list", "list", "edges">>) = "list"
    /\ Tail(<<"list", "list", "edges">>) = <<"list", "edges">>
<1>1. Head(<<"room">>) = "room" /\ Tail(<<"room">>) = << >>
  OBVIOUS
<1>2. Head(<<"close">>) = "close" /\ Tail(<<"close">>) = << >>
  OBVIOUS
<1>3. Head(<<"token">>) = "token" /\ Tail(<<"token">>) = << >>
  OBVIOUS
<1>4. Head(<<"edges">>) = "edges" /\ Tail(<<"edges">>) = << >>
  OBVIOUS
<1>5. Head(<<"peer">>) = "peer" /\ Tail(<<"peer">>) = << >>
  OBVIOUS
<1>6. Head(<<"list", "room">>) = "list" /\ Tail(<<"list", "room">>) = <<"room">>
  OBVIOUS
<1>7. Head(<<"list", "token">>) = "list" /\ Tail(<<"list", "token">>) = <<"token">>
  OBVIOUS
<1>8. Head(<<"list", "edges">>) = "list" /\ Tail(<<"list", "edges">>) = <<"edges">>
  OBVIOUS
<1>9. Head(<<"serve", "peer">>) = "serve" /\ Tail(<<"serve", "peer">>) = <<"peer">>
  OBVIOUS
<1>10. Head(<<"list", "serve", "peer">>) = "list"
  OBVIOUS
<1>11. Tail(<<"list", "serve", "peer">>) = <<"serve", "peer">>
  OBVIOUS
<1>12. Head(<<"serve", "list", "serve", "peer">>) = "serve"
  OBVIOUS
<1>13. Tail(<<"serve", "list", "serve", "peer">>) = <<"list", "serve", "peer">>
  OBVIOUS
<1>14. Head(<<"list", "serve", "list", "serve", "peer">>) = "list"
  OBVIOUS
<1>15. Tail(<<"list", "serve", "list", "serve", "peer">>) = <<"serve", "list", "serve", "peer">>
  OBVIOUS
<1>16. Head(<<"list", "list", "token">>) = "list"
  OBVIOUS
<1>17. Tail(<<"list", "list", "token">>) = <<"list", "token">>
  OBVIOUS
<1>18. Head(<<"list", "list", "edges">>) = "list"
  OBVIOUS
<1>19. Tail(<<"list", "list", "edges">>) = <<"list", "edges">>
  OBVIOUS
<1> QED
  BY <1>1, <1>2, <1>3, <1>4, <1>5, <1>6, <1>7, <1>8, <1>9, <1>10,
     <1>11, <1>12, <1>13, <1>14, <1>15, <1>16, <1>17, <1>18, <1>19

(* Where a request goes when a step of it is done.                         *)
LEMMA ProceedIs ==
    ASSUME NEW r \in Request, r.then # << >>
    PROVE  /\ Proceed(r) \in Request
           /\ Proceed(r).at = Head(r.then) /\ Proceed(r).then = Tail(r.then)
           /\ Proceed(r).node = r.node /\ Proceed(r).placed = r.placed
           /\ Proceed(r).stale = r.stale
<1>1. Tail(r.then) \in Thens /\ Head(r.then) \in {"list", "room", "token", "edges", "serve", "peer"}
  BY StepsAre DEF Request, Thens, AfterEnsure, TokenSteps, EdgeSteps, OfferSteps, Served
<1> QED
  BY <1>1, ViewsAre DEF Proceed, Request, Ensuring

LEMMA StepsDiffer ==
    /\ << >> \notin {<<"room">>} \cup TokenSteps \cup EdgeSteps \cup OfferSteps \cup Served
    /\ <<"room">> \notin TokenSteps \cup EdgeSteps \cup OfferSteps \cup Served
    /\ TokenSteps \cap (EdgeSteps \cup OfferSteps \cup Served) = {}
    /\ EdgeSteps \cap (OfferSteps \cup Served) = {}
    /\ OfferSteps \cap Served = {}
<1>1. /\ << >> \notin {<<"room">>} \cup TokenSteps \cup EdgeSteps
      /\ << >> \notin OfferSteps \cup Served
  BY DEF TokenSteps, EdgeSteps, OfferSteps, Served
<1>2. <<"room">> \notin TokenSteps \cup EdgeSteps
  BY DEF TokenSteps, EdgeSteps
<1>3. <<"room">> \notin OfferSteps \cup Served
  BY DEF OfferSteps, Served
<1>4. TokenSteps \cap EdgeSteps = {}
  BY DEF TokenSteps, EdgeSteps
<1>5. TokenSteps \cap OfferSteps = {} /\ TokenSteps \cap Served = {}
  BY DEF TokenSteps, OfferSteps, Served
<1>6. EdgeSteps \cap OfferSteps = {} /\ EdgeSteps \cap Served = {}
  BY DEF EdgeSteps, OfferSteps, Served
<1>7. OfferSteps \cap Served = {}
  BY DEF OfferSteps, Served
<1> QED
  BY <1>1, <1>2, <1>3, <1>4, <1>5, <1>6, <1>7

(* What follows, by the family of the steps.                               *)
LEMMA TokenNext ==
    ASSUME NEW t \in TokenSteps
    PROVE  \/ Head(t) = "list" /\ Tail(t) \in TokenSteps
           \/ t = <<"token">> /\ Head(t) = "token" /\ Tail(t) = << >>
  BY StepsAre DEF TokenSteps

LEMMA EdgeNext ==
    ASSUME NEW t \in EdgeSteps
    PROVE  \/ Head(t) = "list" /\ Tail(t) \in EdgeSteps
           \/ Head(t) = "edges" /\ Tail(t) = << >>
  BY StepsAre DEF EdgeSteps

LEMMA OfferNext ==
    ASSUME NEW t \in OfferSteps
    PROVE  Head(t) = "serve" /\ Tail(t) \in Served
  BY StepsAre DEF OfferSteps, Served

LEMMA ServedNext ==
    ASSUME NEW t \in Served
    PROVE  \/ Head(t) = "list" /\ Tail(t) \in OfferSteps
           \/ Head(t) = "peer" /\ Tail(t) = << >>
  BY StepsAre DEF OfferSteps, Served

LEMMA ProceedFits ==
    ASSUME NEW r, RequestIs(r), r.at \in Ensuring \cup {"serve"},
           r.then = <<"token">> => r.placed # None
    PROVE  /\ RequestIs(Proceed(r))
           /\ \A u, p : FitsAs(u, r, p) /\ (r.then = <<"token">> => r.placed = p)
                           => FitsAs(u, Proceed(r), p)
<1>1. CASE r.then = << >>
  <2>1. Proceed(r) = Idle
    BY <1>1 DEF Proceed
  <2> QED
    BY <2>1, IdleIs, StepsDiffer DEF FitsAs
<1>2. CASE r.then # << >>
  <2> DEFINE q == Proceed(r)
  <2>1. q \in Request /\ q.at = Head(r.then) /\ q.then = Tail(r.then)
        /\ q.node = r.node /\ q.placed = r.placed
    BY <1>2, ProceedIs DEF RequestIs
  <2>2. r.node # None
    BY DEF RequestIs, Ensuring
  <2> HIDE DEF q
  <2>3. CASE r.then = <<"room">>
    BY <2>1, <2>2, <2>3, StepsAre, StepsDiffer DEF RequestIs, FitsAs, Ensuring, q
  <2>4. CASE r.then \in TokenSteps
    BY <2>1, <2>2, <2>4, TokenNext, StepsDiffer
       DEF RequestIs, FitsAs, AfterEnsure, Ensuring, q
  <2>5. CASE r.then \in EdgeSteps
    BY <2>1, <2>2, <2>5, EdgeNext, StepsDiffer
       DEF RequestIs, FitsAs, AfterEnsure, Ensuring, q
  <2>6. CASE r.then \in OfferSteps \cup Served
    BY <2>1, <2>2, <2>6, OfferNext, ServedNext, StepsDiffer
       DEF RequestIs, FitsAs, AfterEnsure, Ensuring, q
  <2>7. r.then \in Thens
    BY DEF RequestIs, Request
  <2> QED
    BY <1>2, <2>3, <2>4, <2>5, <2>6, <2>7 DEF Thens, AfterEnsure
<1> QED
  BY <1>1, <1>2

(* Only StartCall goes on to the room.                                     *)
LEMMA OnlyRoomPlan ==
    ASSUME NEW t \in AfterEnsure, NEW i \in DOMAIN t, t[i] = "room"
    PROVE  t = <<"room">>
<1>1. i \in DOMAIN t /\ t[i] = "room"
  OBVIOUS
<1>2. t # << >>
  BY <1>1
<1>3. t # <<"token">> /\ t # <<"edges">>
  BY <1>1
<1>4. t # <<"list", "token">>
  BY <1>1
<1>5. t # <<"list", "edges">>
  BY <1>1
<1>6. t # <<"serve", "peer">>
  BY <1>1
<1>7. t # <<"serve", "list", "serve", "peer">>
  BY <1>1
<1> QED
  BY <1>2, <1>3, <1>4, <1>5, <1>6, <1>7 DEF AfterEnsure, TokenSteps, EdgeSteps, OfferSteps

(* An error ends the request, or StartCall goes on without a placement.    *)
LEMMA NotEnsuredFits ==
    ASSUME NEW r, RequestIs(r), r.at \in Ensuring
    PROVE  RequestIs(NotEnsured(r)) /\ \A u, p : FitsAs(u, NotEnsured(r), p)
<1>1. CASE NotEnsured(r) = Idle
  BY <1>1, IdleIs, StepsDiffer DEF FitsAs
<1>2. CASE "room" \in {r.then[i] : i \in DOMAIN r.then}
  <2>0. r.then \in AfterEnsure
    BY DEF RequestIs
  <2>a. PICK i \in DOMAIN r.then : r.then[i] = "room"
    BY <1>2
  <2>1. r.then = <<"room">>
    <3> DEFINE t == r.then
    <3>1. t \in AfterEnsure /\ i \in DOMAIN t /\ t[i] = "room"
      BY <2>0, <2>a
    <3> HIDE DEF t
    <3>2. t = <<"room">>
      BY <3>1, OnlyRoomPlan
    <3> QED
      BY <3>2 DEF t
  <2>2. /\ Proceed(r) \in Request /\ Proceed(r).at = "room" /\ Proceed(r).then = << >>
        /\ Proceed(r).node = r.node
    BY <2>1, ProceedIs, StepsAre, StepsDiffer DEF RequestIs
  <2>3. NotEnsured(r) = [Proceed(r) EXCEPT !.placed = None]
    BY <1>2 DEF NotEnsured
  <2>4. /\ NotEnsured(r) \in Request /\ NotEnsured(r).at = "room"
        /\ NotEnsured(r).then = << >> /\ NotEnsured(r).node \in Here
    BY <2>2, <2>3 DEF Request, RequestIs, Ensuring
  <2>5. NotEnsured(r).node # None
    BY <2>2, <2>3 DEF Request, RequestIs, Ensuring
  <2> QED
    BY <2>4, <2>5, StepsDiffer DEF RequestIs, FitsAs, Ensuring
<1> QED
  BY <1>1, <1>2 DEF NotEnsured

LEMMA EnsureFailsFits ==
    ASSUME NEW r, RequestIs(r), r.at \in {"upsert", "delete", "wait", "insert"}
    PROVE  /\ RequestIs(EnsureFails(r))
           /\ \A u, p : FitsAs(u, r, p) => FitsAs(u, EnsureFails(r), p)
<1>1. CASE r.found
  <2>1. RequestIs(Proceed(r))
    BY ProceedFits DEF RequestIs, Ensuring
  <2>2. \A u, p : FitsAs(u, r, p) => r.placed = p
    BY <1>1 DEF FitsAs
  <2> QED
    BY <1>1, <2>1, <2>2, ProceedFits DEF EnsureFails, RequestIs, Ensuring
<1>2. CASE ~r.found
  BY <1>2, NotEnsuredFits DEF EnsureFails, Ensuring
<1> QED
  BY <1>1, <1>2

(* A request begins.                                                       *)
LEMMA BeginIs ==
    ASSUME NEW n \in Here, n \in Nodes, NEW steps, NEW u, NEW p,
           \/ steps \in {<<"list", "room">>, <<"list", "list", "token">>, <<"close">>}
           \/ steps = <<"list", "list", "edges">> /\ u \notin Presenters
           \/ steps = <<"list", "serve", "list", "serve", "peer">>
              /\ (u \in Presenters => n = p)
    PROVE  LET r == Proceed([Idle EXCEPT !.node = n, !.then = steps])
           IN  RequestIs(r) /\ FitsAs(u, r, p)
<1> DEFINE q == [Idle EXCEPT !.node = n, !.then = steps]
           r == Proceed(q)
<1>0. n # None
  BY ClusterAssumption
<1>1. q.then = steps /\ q.node = n /\ q.at = "idle" /\ q.stale = {} /\ q.placed = None
  BY DEF Idle
<1>2. steps # << >>
  OBVIOUS
<1>3. r = [node |-> n, at |-> Head(steps), then |-> Tail(steps), view |-> << >>,
           stale |-> {}, placed |-> None, found |-> FALSE, snap |-> {}]
  BY <1>1, <1>2 DEF Proceed, Idle
<1> DEFINE first == Head(steps)
           rest == Tail(steps)
<1>4. /\ first \in {"list", "close"} /\ rest \in AfterEnsure
      /\ first = "close" => rest = << >>
      /\ rest \in EdgeSteps => u \notin Presenters
      /\ rest \in OfferSteps => (u \in Presenters => n = p)
  <2>1. CASE steps = <<"list", "room">> \/ steps = <<"close">>
    BY <2>1, StepsAre, StepsDiffer DEF AfterEnsure
  <2>2. CASE steps = <<"list", "list", "token">>
    <3>1. first = "list" /\ rest \in TokenSteps
      BY <2>2, StepsAre DEF TokenSteps
    <3> QED
      BY <3>1, StepsDiffer DEF AfterEnsure
  <2>3. CASE steps = <<"list", "list", "edges">> /\ u \notin Presenters
    <3>1. first = "list" /\ rest \in EdgeSteps
      BY <2>3, StepsAre DEF EdgeSteps
    <3> QED
      BY <2>3, <3>1, StepsDiffer DEF AfterEnsure
  <2>4. CASE steps = <<"list", "serve", "list", "serve", "peer">> /\ (u \in Presenters => n = p)
    <3>1. first = "list" /\ rest \in OfferSteps
      BY <2>4, StepsAre DEF OfferSteps
    <3> QED
      BY <2>4, <3>1, StepsDiffer DEF AfterEnsure
  <2> QED
    BY <2>1, <2>2, <2>3, <2>4
<1> HIDE DEF first, rest
<1>5. /\ r.node = n /\ r.at = first /\ r.then = rest /\ r.placed = None
      /\ r = [node |-> n, at |-> first, then |-> rest, view |-> << >>,
              stale |-> {}, placed |-> None, found |-> FALSE, snap |-> {}]
  BY <1>3 DEF first, rest
<1> HIDE DEF r
<1>6. r \in Request
  BY <1>4, <1>5, ViewsAre DEF Request, Thens, Ensuring
<1>7. n = p => p # None
  BY <1>0
<1>8. rest \notin Served
  BY <1>4, StepsDiffer DEF AfterEnsure
<1>9. RequestIs(r)
  BY <1>0, <1>4, <1>5, <1>6 DEF RequestIs, Ensuring
<1>10. FitsAs(u, r, p)
  BY <1>4, <1>5, <1>7, <1>8 DEF FitsAs
<1> QED
  BY <1>9, <1>10 DEF r

-----------------------------------------------------------------------------
(* What the steps do to the requests.                                      *)

Placed == placement' = placement \/ placement = None

(* A request is not misled by the first placement.                         *)
LEMMA FitsLater ==
    ASSUME RequestShape, NEW u \in Users, Fits(u), Placed,
           req'[u] = req[u], token'[u] = token[u]
    PROVE  Fits(u)'
<1>1. RequestIs(req[u])
  BY DEF RequestShape
<1>2. CASE placement' = placement
  BY <1>2 DEF Fits, FitsAs
<1>3. CASE placement = None
  <2>1. /\ req[u].at \notin {"delete", "wait", "insert", "token"}
        /\ ~(req[u].at = "upsert" /\ req[u].found)
    BY <1>1, <1>3 DEF RequestIs, Fits, FitsAs
  <2>2. u \in Presenters => /\ token[u] = None /\ req[u].at # "peer"
                            /\ req[u].then \notin OfferSteps \cup Served
    BY <1>3 DEF Fits, FitsAs
  <2> QED
    BY <1>3, <2>1, <2>2 DEF Fits, FitsAs
<1> QED
  BY <1>2, <1>3 DEF Placed

(* One request moves.                                                      *)
LEMMA Moves ==
    ASSUME RequestShape, NEW u \in Users, NEW r, RequestIs(r),
           req' = [req EXCEPT ![u] = r], UNCHANGED <<spent, token, here>>
    PROVE  /\ RequestShape'
           /\ RequestsFitPlacement /\ Placed /\ FitsAs(u, r, placement') => RequestsFitPlacement'
<1>1. /\ req'[u] = r /\ \A v \in Users \ {u} : req'[v] = req[v]
      /\ req' \in [Users -> Request]
  BY DEF RequestShape, RequestIs
<1>2. RequestShape'
  <2>1. \A v \in Users : RequestIs(req'[v])
    BY <1>1 DEF RequestShape
  <2>2. \A v \in Users : RequestIs(req[v])'
    BY <2>1 DEF RequestIs, Here
  <2> QED
    BY <1>1, <2>2 DEF RequestShape
<1>3. ASSUME RequestsFitPlacement, Placed, FitsAs(u, r, placement') PROVE RequestsFitPlacement'
  <2> SUFFICES ASSUME NEW v \in Users PROVE Fits(v)'
      BY DEF RequestsFitPlacement
  <2>1. CASE v # u
    BY <1>1, <1>3, <2>1, FitsLater DEF RequestsFitPlacement
  <2>2. CASE v = u
    <3>1. u \in Presenters /\ token[u] # None => token[u] = placement'
      <4>1. Fits(u)
        BY <1>3 DEF RequestsFitPlacement
      <4> QED
        BY <1>3, <4>1 DEF Placed, Fits
    <3> QED
      BY <1>1, <1>3, <2>2, <3>1 DEF Fits
  <2> QED
    BY <2>1, <2>2
<1> QED
  BY <1>2, <1>3

(* What it keeps, for a step that leaves the placement alone.              *)
Keeps == RequestShape' /\ (RequestsFitPlacement => RequestsFitPlacement')

LEMMA MoveKeeps ==
    ASSUME RequestShape, NEW u \in Users, NEW r, RequestIs(r),
           req' = [req EXCEPT ![u] = r], UNCHANGED <<spent, token, here, placement>>,
           FitsAs(u, req[u], placement) => FitsAs(u, r, placement)
    PROVE  Keeps
<1>1. RequestsFitPlacement => FitsAs(u, req[u], placement)
  BY DEF RequestsFitPlacement, Fits
<1> QED
  BY <1>1, Moves DEF Keeps, Placed

LEMMA NodesHere ==
    ASSUME StoreShape
    PROVE  /\ Here \subseteq Nodes /\ here.requests \in [Users -> Nat]
           /\ \A n \in Here : busy[n] \in Nat /\ Rooms(n) \in Nat
<1>1. here \in Situations
  BY DEF StoreShape
<1>2. DOMAIN here.region \subseteq Nodes /\ here.requests \in [Users -> Nat]
  BY <1>1, ClusterAssumption
<1>4. \A n \in Here : busy[n] \in Nat
  BY <1>2 DEF Here, StoreShape
<1>5. ASSUME NEW n \in Here PROVE Rooms(n) \in Nat
  <2> DEFINE ours == room \cap {n}
  <2>1. IsFiniteSet({n}) /\ ours \subseteq {n}
    BY FS_Singleton
  <2>2. Cardinality(ours) \in Nat
    <3> HIDE DEF ours
    <3> QED
      BY <2>1, FS_Subset, FS_CardinalityType
  <2>3. Rooms(n) = busy[n] + Cardinality(ours)
    BY DEF Rooms
  <2> HIDE DEF ours
  <2> QED
    BY <1>4, <2>2, <2>3
<1> QED
  BY <1>2, <1>4, <1>5 DEF Here

LEMMA ListNodesKeeps ==
    ASSUME ClusterShape, NEW u \in Users, ListNodes(u)
    PROVE  Keeps
<1> DEFINE n == req[u].node
           live == {m \in members : heard[m] # None}
           view == IF live = {} THEN [m \in {n} |-> Rooms(n)] ELSE [m \in live |-> heard[m]]
           r == [req[u] EXCEPT !.at = "get", !.view = view, !.stale = members \ live]
<1>1. /\ req[u].at = "list" /\ req' = [req EXCEPT ![u] = r]
      /\ UNCHANGED <<spent, token, here, placement>>
  BY DEF ListNodes, At, Goes, OnlyRequest, rows
<1>2. view \in Views
  <2>0. n \in Here
    BY <1>1 DEF ClusterShape, RequestShape, RequestIs
  <2>1. n \in Nodes /\ Rooms(n) \in Nat
    BY <2>0, NodesHere DEF ClusterShape
  <2>2. live \subseteq Nodes /\ \A m \in live : heard[m] \in Nat
    BY DEF ClusterShape, StoreShape
  <2>3. CASE live = {}
    <3>1. view \in [{n} -> Nat] /\ {n} \in SUBSET Nodes
      BY <2>1, <2>3
    <3> QED
      BY <3>1 DEF Views
  <2>4. CASE live # {}
    <3>1. view \in [live -> Nat]
      BY <2>2, <2>4
    <3> HIDE DEF view, live
    <3> QED
      BY <2>2, <3>1 DEF Views
  <2> QED
    BY <2>3, <2>4
<1>3. members \ live \subseteq Nodes
  BY DEF ClusterShape, StoreShape
<1>4. RequestIs(req[u]) /\ req[u] \in Request
  BY DEF ClusterShape, RequestShape, RequestIs
<1> HIDE DEF view, live
<1>5. /\ r \in Request /\ r.at = "get" /\ r.node = req[u].node /\ r.then = req[u].then
      /\ r.placed = req[u].placed
  BY <1>2, <1>3, <1>4 DEF Request, Ensuring
<1> HIDE DEF r
<1>6. RequestIs(r)
  BY <1>1, <1>4, <1>5 DEF RequestIs, Ensuring
<1>7. FitsAs(u, req[u], placement) => FitsAs(u, r, placement)
  BY <1>1, <1>5 DEF FitsAs
<1> QED
  BY <1>1, <1>6, <1>7, MoveKeeps DEF ClusterShape

LEMMA PruneMembersKeeps ==
    ASSUME ClusterShape, NEW u \in Users, PruneMembers(u)
    PROVE  Keeps
<1> DEFINE r == [req[u] EXCEPT !.stale = {}]
<1>1. RequestIs(req[u]) /\ req[u] \in Request
  BY DEF ClusterShape, RequestShape, RequestIs
<1>2. req' = [req EXCEPT ![u] = r] /\ UNCHANGED <<spent, token, here, placement>>
  BY DEF PruneMembers, rows, ClusterShape, RequestShape
<1>3. RequestIs(r)
  BY <1>1 DEF RequestIs, Request
<1>4. FitsAs(u, req[u], placement) => FitsAs(u, r, placement)
  BY <1>1 DEF FitsAs, Request
<1> QED
  BY <1>2, <1>3, <1>4, MoveKeeps DEF ClusterShape

(* No row, or none that could be read.                                     *)
LEMMA SelectKeeps ==
    ASSUME ClusterShape, NEW u \in Users, At(u, "get"), Select(u),
           UNCHANGED <<spent, token, here, placement>>
    PROVE  Keeps
<1> DEFINE q == [req[u] EXCEPT !.at = "upsert", !.found = FALSE,
                               !.placed = Selected(req[u].view, req[u].node)]
<1>1. RequestIs(req[u]) /\ req[u] \in Request /\ req[u].at = "get"
  BY DEF ClusterShape, RequestShape, RequestIs, At
<1>2. CASE Candidates(req[u].view, req[u].node) = {}
  <2>1. req' = [req EXCEPT ![u] = NotEnsured(req[u])]
    BY <1>2 DEF Select, Goes
  <2>2. RequestIs(NotEnsured(req[u])) /\ FitsAs(u, NotEnsured(req[u]), placement)
    BY <1>1, NotEnsuredFits DEF Ensuring
  <2> QED
    BY <2>1, <2>2, MoveKeeps DEF ClusterShape
<1>3. CASE Candidates(req[u].view, req[u].node) # {}
  <2>1. req' = [req EXCEPT ![u] = q]
    BY <1>3 DEF Select, Goes
  <2>2. ViewIs(req[u].view)
    BY <1>1, ViewsAre DEF Request
  <2>3. Selected(req[u].view, req[u].node) \in Nodes
    BY <1>3, <2>2, SelectedIs
  <2>4. /\ q \in Request /\ q.at = "upsert" /\ ~q.found /\ q.placed # None
        /\ q.node = req[u].node /\ q.then = req[u].then
    BY <1>1, <2>3, ClusterAssumption DEF Request, Ensuring
  <2> HIDE DEF q
  <2>5. RequestIs(q)
    BY <1>1, <2>4 DEF RequestIs, Ensuring
  <2>6. FitsAs(u, req[u], placement) => FitsAs(u, q, placement)
    BY <1>1, <2>4 DEF FitsAs
  <2> QED
    BY <2>1, <2>5, <2>6, MoveKeeps DEF ClusterShape
<1> QED
  BY <1>2, <1>3

LEMMA GetPlacementKeeps ==
    ASSUME ClusterShape, NEW u \in Users, GetPlacement(u) \/ GetPlacementFails(u)
    PROVE  Keeps
<1> DEFINE q == [req[u] EXCEPT !.at = "upsert", !.found = TRUE, !.placed = placement]
<1>1. /\ RequestIs(req[u]) /\ req[u] \in Request /\ req[u].at = "get"
      /\ UNCHANGED <<spent, token, here, placement>>
  BY DEF ClusterShape, RequestShape, RequestIs, At, GetPlacement, GetPlacementFails,
         OnlyRequest, rows
<1>2. CASE Select(u)
  BY <1>1, <1>2, SelectKeeps DEF At
<1>3. CASE placement # None /\ req' = [req EXCEPT ![u] = q]
  <2>1. /\ q \in Request /\ q.at = "upsert" /\ q.placed = placement
        /\ q.node = req[u].node /\ q.then = req[u].then
    BY <1>1 DEF Request, Ensuring, ClusterShape, StoreShape
  <2> HIDE DEF q
  <2>2. RequestIs(q)
    BY <1>1, <1>3, <2>1 DEF RequestIs, Ensuring
  <2>3. FitsAs(u, req[u], placement) => FitsAs(u, q, placement)
    BY <1>1, <2>1 DEF FitsAs
  <2> QED
    BY <1>1, <1>3, <2>2, <2>3, MoveKeeps DEF ClusterShape
<1> QED
  BY <1>2, <1>3 DEF GetPlacement, GetPlacementFails, Goes

LEMMA UpsertPlacementKeeps ==
    ASSUME ClusterShape, NEW u \in Users, UpsertPlacement(u)
    PROVE  /\ RequestShape' /\ placement' \in Nodes
           /\ RequestsFitPlacement /\ Placed => RequestsFitPlacement'
<1> DEFINE r == [req[u] EXCEPT !.at = "delete"]
<1>1. /\ RequestIs(req[u]) /\ req[u] \in Request /\ req[u].at = "upsert"
      /\ req' = [req EXCEPT ![u] = r] /\ UNCHANGED <<spent, token, here>>
      /\ placement' = req[u].placed
  BY DEF ClusterShape, RequestShape, RequestIs, At, UpsertPlacement, Step, Goes
<1>2. /\ r \in Request /\ r.at = "delete" /\ r.placed = req[u].placed
      /\ r.node = req[u].node /\ r.then = req[u].then
  BY <1>1 DEF Request, Ensuring
<1> HIDE DEF r
<1>3. RequestIs(r)
  BY <1>1, <1>2 DEF RequestIs, Ensuring
<1>4. placement' \in Nodes
  BY <1>1 DEF RequestIs, Request
<1>5. ASSUME RequestsFitPlacement, Placed PROVE FitsAs(u, r, placement')
  <2>1. FitsAs(u, req[u], placement)
    BY <1>5 DEF RequestsFitPlacement, Fits
  <2> QED
    BY <1>1, <1>2, <1>5, <2>1 DEF FitsAs, Placed
<1> QED
  BY <1>1, <1>3, <1>4, <1>5, Moves DEF ClusterShape

LEMMA DeleteEdgesKeeps ==
    ASSUME ClusterShape, NEW u \in Users, DeleteEdges(u) \/ WaitLock(u)
    PROVE  Keeps
<1>1. /\ RequestIs(req[u]) /\ req[u] \in Request /\ req[u].at \in {"delete", "wait"}
      /\ UNCHANGED <<spent, token, here, placement>> /\ edges \subseteq Nodes
  BY DEF ClusterShape, RequestShape, StoreShape, RequestIs, At, DeleteEdges, WaitLock,
         OnlyRequest, rows
<1>2. ASSUME NEW s \in SUBSET Nodes, NEW l \in {"wait", "insert"},
             req' = [req EXCEPT ![u] = [req[u] EXCEPT !.snap = s, !.at = l]]
      PROVE  Keeps
  <2> DEFINE r == [req[u] EXCEPT !.snap = s, !.at = l]
  <2>1. /\ r \in Request /\ r.at = l /\ r.placed = req[u].placed
        /\ r.node = req[u].node /\ r.then = req[u].then
    BY <1>1 DEF Request, Ensuring
  <2>2. req' = [req EXCEPT ![u] = r]
    BY <1>2
  <2> HIDE DEF r
  <2>3. RequestIs(r)
    BY <1>1, <2>1 DEF RequestIs, Ensuring
  <2>4. FitsAs(u, req[u], placement) => FitsAs(u, r, placement)
    BY <1>1, <2>1 DEF FitsAs
  <2> QED
    BY <1>1, <2>2, <2>3, <2>4, MoveKeeps DEF ClusterShape
<1>3. CASE DeleteEdges(u)
  BY <1>1, <1>2, <1>3 DEF DeleteEdges, Goes
<1>4. CASE WaitLock(u)
  <2>1. [req[u] EXCEPT !.at = "insert"] = [req[u] EXCEPT !.snap = req[u].snap, !.at = "insert"]
        /\ req[u].snap \in SUBSET Nodes
    BY <1>1 DEF Request
  <2> QED
    BY <1>2, <1>4, <2>1 DEF WaitLock, Step, Goes
<1> QED
  BY <1>3, <1>4

LEMMA InsertEdgesKeeps ==
    ASSUME ClusterShape, NEW u \in Users, InsertEdges(u)
    PROVE  Keeps
<1>1. /\ RequestIs(req[u]) /\ req[u].at = "insert" /\ req \in [Users -> Request]
      /\ UNCHANGED <<spent, token, here, placement>>
  BY DEF ClusterShape, RequestShape, RequestIs, At, InsertEdges
<1>2. CASE req' = [req EXCEPT ![u] = EnsureFails(req[u])]
  BY <1>1, <1>2, EnsureFailsFits, MoveKeeps DEF ClusterShape
<1>3. CASE req' = [v \in Users |-> IF v = u THEN Proceed(req[u])
                                   ELSE [req[v] EXCEPT !.snap = @ \ req[u].snap]]
  <2> DEFINE s(v) == [req[v] EXCEPT !.snap = @ \ req[u].snap]
  <2>1. /\ RequestIs(Proceed(req[u]))
        /\ FitsAs(u, req[u], placement) => FitsAs(u, Proceed(req[u]), placement)
    <3>1. FitsAs(u, req[u], placement) => req[u].placed = placement
      BY <1>1 DEF FitsAs
    <3> QED
      BY <1>1, <3>1, ProceedFits DEF RequestIs, Ensuring
  <2>2. ASSUME NEW v \in Users
        PROVE  /\ RequestIs(s(v))
               /\ FitsAs(v, req[v], placement) => FitsAs(v, s(v), placement)
    <3>1. RequestIs(req[v]) /\ req[v] \in Request
      BY <1>1 DEF ClusterShape, RequestShape
    <3>2. /\ s(v) \in Request /\ s(v).at = req[v].at /\ s(v).placed = req[v].placed
          /\ s(v).node = req[v].node /\ s(v).then = req[v].then /\ s(v).found = req[v].found
      BY <3>1 DEF Request
    <3> HIDE DEF s
    <3>3. RequestIs(s(v))
      BY <3>1, <3>2 DEF RequestIs
    <3>4. FitsAs(v, req[v], placement) => FitsAs(v, s(v), placement)
      BY <3>2 DEF FitsAs
    <3> QED
      BY <3>3, <3>4
  <2>3. req' = [v \in Users |-> IF v = u THEN Proceed(req[u]) ELSE s(v)]
    BY <1>3
  <2> HIDE DEF s
  <2>4. \A v \in Users : /\ RequestIs(req'[v])
                         /\ FitsAs(v, req[v], placement) => FitsAs(v, req'[v], placement)
    BY <2>1, <2>2, <2>3
  <2>5. RequestShape'
    <3>1. \A v \in Users : RequestIs(req[v])'
      BY <1>1, <2>4 DEF RequestIs, Here
    <3>2. req' \in [Users -> Request]
      BY <2>3, <2>4 DEF RequestIs
    <3> QED
      BY <1>1, <3>1, <3>2 DEF ClusterShape, RequestShape
  <2>6. RequestsFitPlacement => RequestsFitPlacement'
    BY <1>1, <2>4 DEF RequestsFitPlacement, Fits
  <2> QED
    BY <2>5, <2>6 DEF Keeps
<1> QED
  BY <1>2, <1>3 DEF InsertEdges, Goes

LEMMA StoreFailsKeeps ==
    ASSUME ClusterShape, NEW u \in Users, StoreFails(u)
    PROVE  Keeps
<1>1. /\ RequestIs(req[u]) /\ UNCHANGED <<spent, token, here, placement>>
  BY DEF ClusterShape, RequestShape, StoreFails, OnlyRequest, rows
<1>2. CASE req[u].at = "list" /\ req' = [req EXCEPT ![u] = NotEnsured(req[u])]
  BY <1>1, <1>2, NotEnsuredFits, MoveKeeps DEF ClusterShape, Ensuring
<1>3. CASE /\ req[u].at \in {"upsert", "delete", "wait", "insert"}
           /\ req' = [req EXCEPT ![u] = EnsureFails(req[u])]
  BY <1>1, <1>3, EnsureFailsFits, MoveKeeps DEF ClusterShape
<1>4. CASE req' = [req EXCEPT ![u] = Idle]
  <2>1. RequestIs(Idle) /\ FitsAs(u, Idle, placement)
    BY IdleIs, StepsDiffer DEF FitsAs
  <2> QED
    BY <1>1, <1>4, <2>1, MoveKeeps DEF ClusterShape
<1> QED
  BY <1>2, <1>3, <1>4 DEF StoreFails, At, Goes

(* The answers: a room, a token, a peer.                                   *)
EndsWith(u) == CreateRoom(u) \/ AddPeer(u) \/ CloseRoom(u)

LEMMA EndsKeeps ==
    ASSUME ClusterShape, NEW u \in Users, EndsWith(u)
    PROVE  Keeps
<1>1. req' = [req EXCEPT ![u] = Idle] /\ UNCHANGED <<spent, token, here, placement>>
  BY DEF EndsWith, CreateRoom, AddPeer, CloseRoom, Goes, rows
<1>2. RequestIs(Idle) /\ FitsAs(u, Idle, placement)
  BY IdleIs, StepsDiffer DEF FitsAs
<1> QED
  BY <1>1, <1>2, MoveKeeps DEF ClusterShape

LEMMA AnswerTokenKeeps ==
    ASSUME ClusterShape, NEW u \in Users, AnswerToken(u)
    PROVE  Keeps
<1>1. /\ RequestIs(req[u]) /\ req[u] \in Request /\ req \in [Users -> Request]
      /\ req' = [req EXCEPT ![u] = Idle] /\ UNCHANGED <<spent, here, placement>>
      /\ edges \subseteq Nodes /\ token \in [Users -> Nodes \cup {None}]
  BY DEF ClusterShape, RequestShape, StoreShape, RequestIs, AnswerToken, Goes, rows
<1>2. PICK n : /\ token' = [token EXCEPT ![u] = n]
               /\ n \in IF req[u].at = "token" \/ edges = {} THEN {req[u].placed}
                        ELSE Pool(req[u].node)
  BY DEF AnswerToken, At
<1>3. n \in Nodes \cup {None}
  <2>1. CASE req[u].at = "token" \/ edges = {}
    BY <1>1, <1>2, <2>1 DEF Request
  <2>2. CASE ~(req[u].at = "token" \/ edges = {})
    BY <1>1, <1>2, <2>2 DEF Pool, InRegion
  <2> QED
    BY <2>1, <2>2
<1>4. \A v \in Users : /\ req'[v] = IF v = u THEN Idle ELSE req[v]
                       /\ token'[v] = IF v = u THEN n ELSE token[v]
  BY <1>1, <1>2
<1>5. RequestShape'
  <2>1. \A v \in Users : RequestIs(req'[v])
    BY <1>4, IdleIs DEF ClusterShape, RequestShape
  <2>2. \A v \in Users : RequestIs(req[v])'
    BY <1>1, <2>1 DEF RequestIs, Here
  <2>3. req' \in [Users -> Request] /\ token' \in [Users -> Nodes \cup {None}]
    BY <1>1, <1>2, <1>3, IdleIs DEF RequestIs
  <2> QED
    BY <1>1, <2>2, <2>3 DEF ClusterShape, RequestShape
<1>6. ASSUME RequestsFitPlacement PROVE RequestsFitPlacement'
  <2> SUFFICES ASSUME NEW v \in Users PROVE Fits(v)'
      BY DEF RequestsFitPlacement
  <2>0. Fits(v)
    BY <1>6 DEF RequestsFitPlacement
  <2>1. CASE v # u
    BY <1>1, <1>4, <2>0, <2>1 DEF Fits
  <2>2. CASE v = u
    <3>1. FitsAs(u, Idle, placement)
      BY IdleIs, StepsDiffer DEF FitsAs
    <3>2. u \in Presenters => req[u].at = "token"
      BY <2>0, <2>2 DEF Fits, FitsAs, AnswerToken, At
    <3>3. u \in Presenters => n = placement
      BY <1>2, <2>0, <2>2, <3>2 DEF Fits, FitsAs
    <3> QED
      BY <1>1, <1>4, <2>2, <3>1, <3>3 DEF Fits
  <2> QED
    BY <2>1, <2>2
<1> QED
  BY <1>5, <1>6 DEF Keeps

LEMMA CanServeNodeKeeps ==
    ASSUME ClusterShape, NEW u \in Users, CanServeNode(u)
    PROVE  Keeps
<1> DEFINE again == [Idle EXCEPT !.node = req[u].node, !.at = "list"]
<1>1. /\ RequestIs(req[u]) /\ req[u] \in Request /\ req[u].at = "serve"
      /\ UNCHANGED <<spent, token, here, placement>>
      /\ req[u].then \in Served
  BY DEF ClusterShape, RequestShape, RequestIs, At, CanServeNode, OnlyRequest, rows
<1>2. CASE req' = [req EXCEPT ![u] = Proceed(req[u])]
  <2>1. req[u].then # <<"token">>
    BY <1>1, StepsDiffer DEF TokenSteps
  <2>2. /\ RequestIs(Proceed(req[u]))
        /\ FitsAs(u, req[u], placement) => FitsAs(u, Proceed(req[u]), placement)
    BY <1>1, <2>1, ProceedFits
  <2> QED
    BY <1>1, <1>2, <2>2, MoveKeeps DEF ClusterShape
<1>3. CASE req' = [req EXCEPT ![u] = again]
  <2>1. again.at = "list" /\ again.then = << >> /\ again.node = req[u].node
    BY DEF Idle
  <2>2. again \in Request
    BY <1>1, IdleIs DEF RequestIs, Request, Ensuring
  <2> HIDE DEF again
  <2>3. RequestIs(again)
    BY <1>1, <2>1, <2>2 DEF RequestIs, AfterEnsure, Ensuring
  <2>4. FitsAs(u, again, placement)
    BY <2>1, StepsDiffer DEF FitsAs
  <2> QED
    BY <1>1, <1>3, <2>3, <2>4, MoveKeeps DEF ClusterShape
<1> QED
  BY <1>2, <1>3 DEF CanServeNode, Goes

(* A request reaches a node; an offer comes with the token it was sent.    *)
BeginsAt(u, n) ==
    \/ StartCall(u, n) \/ IssueMediaJoinToken(u, n) \/ HandleMediaOffer(u, n) \/ EndCall(u, n)

LEMMA BeginKeeps ==
    ASSUME ClusterShape, NEW u \in Users, NEW n \in Here, BeginsAt(u, n)
    PROVE  Keeps
<1>0. n \in Nodes /\ n # None /\ here.requests \in [Users -> Nat]
  BY NodesHere, ClusterAssumption DEF ClusterShape
<1>1. PICK steps :
        /\ Begin(u, n, steps) /\ UNCHANGED <<token, here, placement>>
        /\ \/ steps \in {<<"list", "room">>, <<"list", "list", "token">>, <<"close">>}
           \/ steps = <<"list", "list", "edges">> /\ u \notin Presenters
           \/ steps = <<"list", "serve", "list", "serve", "peer">> /\ token[u] = n
  <2>1. CASE StartCall(u, n)
    BY <2>1 DEF StartCall
  <2>2. CASE IssueMediaJoinToken(u, n)
    BY <2>2 DEF IssueMediaJoinToken, rows
  <2>3. CASE HandleMediaOffer(u, n)
    BY <2>3 DEF HandleMediaOffer, rows
  <2>4. CASE EndCall(u, n)
    BY <2>4 DEF EndCall
  <2> QED
    BY <2>1, <2>2, <2>3, <2>4 DEF BeginsAt
<1> DEFINE r == Proceed([Idle EXCEPT !.node = n, !.then = steps])
<1>2. RequestIs(r)
  BY <1>0, <1>1, BeginIs
<1>3. ASSUME u \in Presenters /\ token[u] = n => n = placement
      PROVE  FitsAs(u, r, placement)
  BY <1>0, <1>1, <1>3, BeginIs
<1>4. /\ req' = [req EXCEPT ![u] = r] /\ spent' = [spent EXCEPT ![u] = @ + 1]
      /\ spent[u] < here.requests[u]
  BY <1>1 DEF Begin, Goes
<1> HIDE DEF r
<1>5. RequestShape'
  <2>1. \A v \in Users : RequestIs(req'[v])
    BY <1>2, <1>4 DEF ClusterShape, RequestShape
  <2>2. \A v \in Users : RequestIs(req[v])'
    BY <1>1, <2>1 DEF RequestIs, Here
  <2>3. req' \in [Users -> Request]
    BY <1>2, <1>4 DEF ClusterShape, RequestShape, RequestIs
  <2>4. spent' \in [Users -> Nat] /\ \A v \in Users : spent'[v] <= here.requests[v]
    BY <1>0, <1>4 DEF ClusterShape, RequestShape
  <2> QED
    BY <1>1, <2>2, <2>3, <2>4 DEF ClusterShape, RequestShape
<1>6. ASSUME RequestsFitPlacement PROVE RequestsFitPlacement'
  <2> SUFFICES ASSUME NEW v \in Users PROVE Fits(v)'
      BY DEF RequestsFitPlacement
  <2>0. Fits(v) /\ Fits(u)
    BY <1>6 DEF RequestsFitPlacement
  <2>1. CASE v # u
    <3>1. req'[v] = req[v]
      BY <1>4, <2>1 DEF ClusterShape, RequestShape
    <3> QED
      BY <1>1, <2>0, <3>1 DEF Fits
  <2>2. CASE v = u
    <3>1. FitsAs(u, r, placement)
      BY <1>0, <1>3, <2>0 DEF Fits
    <3>2. req'[u] = r
      BY <1>4 DEF ClusterShape, RequestShape
    <3> QED
      BY <1>1, <2>0, <2>2, <3>1, <3>2 DEF Fits
  <2> QED
    BY <2>1, <2>2
<1> QED
  BY <1>5, <1>6 DEF Keeps

(* A node that ends takes its requests along.                              *)
LEMMA CrashKeeps ==
    ASSUME ClusterShape, NEW n, Crash(n)
    PROVE  Keeps
<1>1. /\ req' = [u \in Users |-> IF req[u].node = n THEN Idle ELSE req[u]]
      /\ UNCHANGED <<spent, token, here, placement>>
  BY DEF Crash, rows
<1>2. \A u \in Users : RequestIs(req'[u])
  BY <1>1, IdleIs DEF ClusterShape, RequestShape
<1>3. RequestShape'
  <2>1. \A u \in Users : RequestIs(req[u])'
    BY <1>1, <1>2 DEF RequestIs, Here
  <2>2. req' \in [Users -> Request]
    BY <1>1, <1>2 DEF RequestIs
  <2> QED
    BY <1>1, <2>1, <2>2 DEF ClusterShape, RequestShape
<1>4. \A u \in Users : FitsAs(u, Idle, placement)
  BY IdleIs, StepsDiffer DEF FitsAs
<1>5. RequestsFitPlacement => RequestsFitPlacement'
  BY <1>1, <1>4 DEF RequestsFitPlacement, Fits
<1> QED
  BY <1>3, <1>5 DEF Keeps

-----------------------------------------------------------------------------
(* What the steps do to the stores and the nodes.                          *)

NodesRest == UNCHANGED <<sfu, relay>>
LEMMA NodesRestKeep ==
    ASSUME NodeShape, NodesRest
    PROVE  /\ NodeShape'
           /\ Relays /\ UNCHANGED <<edges, placement>> => Relays'
  BY DEF NodesRest, sfu, relay, tracks, NodeShape, Relays, RelayFits, Leads,
         OnlyPlacementRelays, PresentersMeet

(* The first placement: no node has acted on one.                          *)
LEMMA FirstPlacement ==
    ASSUME NodeShape, Relays, NodesRest, edges' = edges, Placed, placement' \in Nodes
    PROVE  Relays'
<1>1. CASE placement' = placement
  BY <1>1, NodesRestKeep
<1>2. CASE placement = None
  <2>1. \A n \in Nodes : n # placement
    BY <1>2, ClusterAssumption
  <2>2. edges = {}
    BY <1>2 DEF Relays, RelayFits
  <2>3. \A n \in Nodes : /\ sync[n].at # "edges" /\ sync[n].want = {} /\ keys[n] = {}
                         /\ attached[n] = {} /\ sinks[n] = {} /\ peers[n] \cap Presenters = {}
    BY <2>1 DEF Relays, RelayFits, Leads, OnlyPlacementRelays, PresentersMeet
  <2> QED
    BY <2>2, <2>3 DEF NodesRest, sfu, relay, tracks, Relays, RelayFits, Leads,
                      OnlyPlacementRelays, PresentersMeet
<1> QED
  BY <1>1, <1>2 DEF Placed

(* The edges of a call lead away from its node.                            *)
LEMMA InsertEdgesRelays ==
    ASSUME ClusterShape, NEW u \in Users, InsertEdges(u)
    PROVE  /\ edges' \subseteq Nodes
           /\ RequestsFitPlacement /\ Relays => Relays'
<1> DEFINE new == RelayEdges(req[u].view, req[u].placed)
<1>1. /\ req[u] \in Request /\ RequestIs(req[u]) /\ req[u].at = "insert"
      /\ NodesRest /\ placement' = placement
      /\ edges' = edges \/ edges' = (edges \ req[u].snap) \cup new
  BY DEF ClusterShape, RequestShape, InsertEdges, At, NodesRest
<1>2. new \subseteq DOMAIN req[u].view \ {req[u].placed}
  BY RelayEdgesAre
<1>3. DOMAIN req[u].view \subseteq Nodes
  BY <1>1, ViewsAre DEF Request, ViewIs
<1> HIDE DEF new
<1>4. edges' \subseteq Nodes
  BY <1>1, <1>2, <1>3 DEF ClusterShape, StoreShape
<1>5. ASSUME RequestsFitPlacement, Relays PROVE Relays'
  <2>1. req[u].placed = placement /\ placement # None
    BY <1>1, <1>5 DEF RequestsFitPlacement, Fits, FitsAs, RequestIs
  <2>2. edges' # {} => placement' # None /\ placement' \notin edges'
    BY <1>1, <1>2, <1>5, <2>1 DEF Relays, RelayFits
  <2> QED
    BY <1>1, <1>5, <2>2
       DEF NodesRest, sfu, relay, tracks, Relays, RelayFits, Leads,
           OnlyPlacementRelays, PresentersMeet
<1> QED
  BY <1>4, <1>5

(* What a step on the nodes keeps, if requests and stores rest.            *)
NodeKeeps ==
    /\ NodeShape'
    /\ RequestsFitPlacement /\ Relays => Relays'

LEMMA CreateRoomNodes ==
    ASSUME ClusterShape, NEW u \in Users, CreateRoom(u)
    PROVE  NodeKeeps
<1>1. /\ room' = room \/ room' = room \cup {req[u].node}
      /\ req[u].node \in Nodes
      /\ UNCHANGED <<peers, own, relayed, sinks, attached, keys, sync, wire, edges, placement>>
  <2>1. req[u].node \in Nodes
    BY DEF ClusterShape, RequestShape, RequestIs, Request, CreateRoom, At, Ensuring
  <2> QED
    BY <2>1 DEF CreateRoom, rows, tracks, relay
<1>2. NodeShape'
  BY <1>1 DEF ClusterShape, NodeShape
<1>3. Relays => Relays'
  BY <1>1 DEF Relays, RelayFits, Leads, OnlyPlacementRelays, PresentersMeet
<1> QED
  BY <1>2, <1>3 DEF NodeKeeps

(* A presenter is let in only at the node of the call.                     *)
LEMMA AddPeerNodes ==
    ASSUME ClusterShape, NEW u \in Users, AddPeer(u)
    PROVE  NodeKeeps
<1> DEFINE n == req[u].node
<1>1. /\ n \in Nodes /\ req[u].at = "peer"
      /\ UNCHANGED <<relayed, attached, keys, sync, wire, edges, placement>>
  <2>1. n \in Nodes
    BY DEF ClusterShape, RequestShape, RequestIs, Request, AddPeer, At, Ensuring
  <2> QED
    BY <2>1 DEF AddPeer, At, rows, relay
<1>2. CASE UNCHANGED <<room, peers, own, sinks>>
  <2>1. NodesRest
    BY <1>1, <1>2 DEF NodesRest, sfu, tracks, relay
  <2> QED
    BY <1>1, <2>1, NodesRestKeep DEF ClusterShape, NodeKeeps
<1>3. ASSUME NEW added \in SUBSET {u},
             room' = room \cup {n},
             peers' = [peers EXCEPT ![n] = (@ \ {u}) \cup added],
             own' = [own EXCEPT ![n] = @ \ {u}],
             sinks' = [sinks EXCEPT ![n] = IF u \in own[n] THEN Without(@, u) ELSE @]
      PROVE  NodeKeeps
  <2>0. NodeShape /\ req[u].node = n
    BY DEF ClusterShape
  <2> HIDE DEF n
  <2>1. /\ \A m \in Nodes : /\ peers'[m] = IF m = n THEN (peers[n] \ {u}) \cup added ELSE peers[m]
                            /\ own'[m] = IF m = n THEN own[n] \ {u} ELSE own[m]
                            /\ sinks'[m] = IF m = n /\ u \in own[n] THEN Without(sinks[n], u)
                                           ELSE sinks[m]
    BY <1>1, <1>3, <2>0 DEF NodeShape
  <2>2. /\ peers' \in [Nodes -> SUBSET Users] /\ own' \in [Nodes -> SUBSET Presenters]
        /\ sinks' \in [Nodes -> SUBSET (Presenters \X Nodes)]
    BY <1>1, <1>3, <2>0 DEF NodeShape, Without
  <2>3. NodeShape'
    <3>1. ASSUME NEW m \in Nodes, NEW x \in sinks'[m]
          PROVE  x \in (own'[m] \cup relayed'[m]) \X Nodes
      <4>1. x \in sinks[m] /\ (m = n /\ u \in own[n] => x[1] # u)
        BY <2>1, <3>1 DEF Without
      <4>2. x \in (own[m] \cup relayed[m]) \X Nodes
        BY <2>0, <4>1 DEF NodeShape
      <4>3. x[1] \in own'[m] \cup relayed'[m]
        BY <1>1, <2>1, <4>1, <4>2
      <4> QED
        BY <4>2, <4>3
    <3> QED
      BY <1>1, <1>3, <2>0, <2>1, <2>2, <3>1 DEF NodeShape
  <2>4. ASSUME RequestsFitPlacement, Relays PROVE Relays'
    <3>1. u \in Presenters => n = placement
      <4>1. FitsAs(u, req[u], placement)
        BY <2>4 DEF RequestsFitPlacement, Fits
      <4> QED
        BY <1>1, <2>0, <4>1 DEF FitsAs
    <3>2. PresentersMeet'
      BY <1>1, <2>1, <2>4, <3>1 DEF Relays, PresentersMeet
    <3>3. OnlyPlacementRelays'
      <4>1. \A m \in Nodes : sinks'[m] \subseteq sinks[m]
        BY <2>1 DEF Without
      <4> QED
        BY <1>1, <2>4, <4>1 DEF Relays, OnlyPlacementRelays
    <3>4. RelayFits'
      BY <1>1, <2>4 DEF Relays, RelayFits, Leads
    <3> QED
      BY <3>2, <3>3, <3>4 DEF Relays
  <2> QED
    BY <2>3, <2>4 DEF NodeKeeps
<1> QED
  BY <1>2, <1>3 DEF AddPeer

(* A room that is closed has nothing.                                      *)
LEMMA CloseRoomNodes ==
    ASSUME ClusterShape, NEW n, CloseRoomOf({n}), UNCHANGED <<wire, edges, placement>>,
           \/ UNCHANGED <<keys, sync>>
           \/ keys' = [keys EXCEPT ![n] = {}] /\ sync' = [sync EXCEPT ![n] = Synced]
    PROVE  NodeKeeps
<1>0. NodeShape
  BY DEF ClusterShape
<1>1. /\ \A m \in Nodes : /\ peers'[m] = IF m = n THEN {} ELSE peers[m]
                          /\ own'[m] = IF m = n THEN {} ELSE own[m]
                          /\ relayed'[m] = IF m = n THEN {} ELSE relayed[m]
                          /\ sinks'[m] = IF m = n THEN {} ELSE sinks[m]
                          /\ attached'[m] = IF m = n THEN {} ELSE attached[m]
                          /\ keys'[m] \in {keys[m], {}} /\ sync'[m] \in {sync[m], Synced}
  BY <1>0 DEF CloseRoomOf, Emptied, NodeShape
<1>2. /\ peers' \in [Nodes -> SUBSET Users]
      /\ own' \in [Nodes -> SUBSET Presenters]
      /\ relayed' \in [Nodes -> SUBSET Presenters]
      /\ sinks' \in [Nodes -> SUBSET (Presenters \X Nodes)]
      /\ attached' \in [Nodes -> SUBSET Nodes] /\ room' = room \ {n}
  BY <1>0 DEF CloseRoomOf, Emptied, NodeShape
<1>3. /\ keys' \in [Nodes -> SUBSET Nodes]
      /\ sync' \in [Nodes -> [at : {"idle", "edges", "apply"}, want : SUBSET Nodes]]
  <2>1. Synced \in [at : {"idle", "edges", "apply"}, want : SUBSET Nodes]
    BY DEF Synced
  <2>2. CASE UNCHANGED <<keys, sync>>
    BY <1>0, <2>2 DEF NodeShape
  <2>3. CASE keys' = [keys EXCEPT ![n] = {}] /\ sync' = [sync EXCEPT ![n] = Synced]
    <3>1. {} \in SUBSET Nodes
      OBVIOUS
    <3> QED
      BY <1>0, <2>1, <2>3, <3>1 DEF NodeShape
  <2> QED
    BY <2>2, <2>3
<1>4. NodeShape'
  BY <1>0, <1>1, <1>2, <1>3 DEF NodeShape
<1>5. ASSUME Relays PROVE Relays'
  BY <1>1, <1>5 DEF Relays, RelayFits, Leads, OnlyPlacementRelays, PresentersMeet, Synced
<1> QED
  BY <1>4, <1>5 DEF NodeKeeps

(* A track appears, or its presenter goes.                                 *)
LEMMA TrackNodes ==
    ASSUME ClusterShape, NEW u \in Users, NEW n \in Here, Publish(u, n) \/ Disconnect(u, n)
    PROVE  NodeKeeps
<1>0. NodeShape /\ n \in Nodes /\ u \in peers[n]
  BY NodesHere DEF ClusterShape, Publish, Disconnect
<1>1. UNCHANGED <<room, attached, keys, sync, wire, edges, placement>>
  BY DEF Publish, Disconnect, rows, relay
<1>2. n \in room
  BY <1>0 DEF NodeShape
<1>3. CASE Publish(u, n)
  <2>1. /\ u \in Presenters /\ peers' = peers
        /\ \A m \in Nodes :
              /\ own'[m] = IF m = n THEN own[n] \cup {u} ELSE own[m]
              /\ relayed'[m] = IF m = n THEN relayed[n] \ {u} ELSE relayed[m]
              /\ sinks'[m] = IF m = n THEN Without(sinks[n], u) \cup {u} \X attached[n]
                             ELSE sinks[m]
    BY <1>0, <1>3 DEF Publish, NodeShape
  <2>2. /\ own' \in [Nodes -> SUBSET Presenters]
        /\ relayed' \in [Nodes -> SUBSET Presenters]
    BY <1>0, <1>3 DEF Publish, NodeShape
  <2>3. ASSUME NEW m \in Nodes, NEW x \in sinks'[m]
        PROVE  /\ x \in (own'[m] \cup relayed'[m]) \X Nodes
               /\ x \in sinks[m] \/ (x[1] = u /\ x[2] \in attached[m] /\ m = n)
    <3>1. CASE x \in sinks[m] /\ (m = n => x[1] # u)
      <4>1. x \in (own[m] \cup relayed[m]) \X Nodes
        BY <1>0, <3>1 DEF NodeShape
      <4>2. x[1] \in own'[m] \cup relayed'[m]
        BY <2>1, <3>1, <4>1
      <4> QED
        BY <3>1, <4>1, <4>2
    <3>2. CASE m = n /\ x \in {u} \X attached[n]
      <4>1. attached[n] \subseteq Nodes
        BY <1>0 DEF NodeShape
      <4> QED
        BY <2>1, <3>2, <4>1
    <3> QED
      BY <2>1, <2>3, <3>1, <3>2 DEF Without
  <2>4. sinks' \in [Nodes -> SUBSET (Presenters \X Nodes)]
    <3>1. \A m \in Nodes : sinks'[m] \subseteq Presenters \X Nodes
      BY <2>2, <2>3
    <3>2. sinks' = [m \in Nodes |-> sinks'[m]]
      BY <1>0, <1>3 DEF Publish, NodeShape
    <3> QED
      BY <3>1, <3>2
  <2>5. NodeShape'
    <3>1. \A m \in Nodes : sinks'[m] \subseteq (own'[m] \cup relayed'[m]) \X Nodes
      BY <2>3
    <3>2. \A m \in Nodes : m \notin room' => /\ peers'[m] = {} /\ own'[m] = {} /\ relayed'[m] = {}
                                             /\ attached'[m] = {}
      BY <1>0, <1>1, <1>2, <2>1 DEF NodeShape
    <3> QED
      BY <1>0, <1>1, <2>1, <2>2, <2>4, <3>1, <3>2 DEF NodeShape
  <2>6. ASSUME Relays PROVE Relays'
    <3>1. OnlyPlacementRelays'
      <4> SUFFICES ASSUME NEW m \in Nodes, NEW x \in sinks'[m] PROVE m = placement /\ x[2] # m
          BY <1>1 DEF OnlyPlacementRelays
      <4>1. CASE x \in sinks[m]
        BY <2>6, <4>1 DEF Relays, OnlyPlacementRelays
      <4>2. CASE x[2] \in attached[m]
        BY <2>6, <4>2 DEF Relays, RelayFits, Leads
      <4> QED
        BY <2>3, <4>1, <4>2
    <3> QED
      BY <1>1, <2>1, <2>6, <3>1 DEF Relays, RelayFits, Leads, PresentersMeet
  <2> QED
    BY <2>5, <2>6 DEF NodeKeeps
<1>4. CASE Disconnect(u, n)
  <2>1. /\ relayed' = relayed
        /\ \A m \in Nodes :
              /\ peers'[m] = IF m = n THEN peers[n] \ {u} ELSE peers[m]
              /\ own'[m] = IF m = n THEN own[n] \ {u} ELSE own[m]
              /\ sinks'[m] = IF m = n /\ u \in own[n] THEN Without(sinks[n], u) ELSE sinks[m]
    BY <1>0, <1>4 DEF Disconnect, NodeShape
  <2>2. /\ own' \in [Nodes -> SUBSET Presenters] /\ peers' \in [Nodes -> SUBSET Users]
        /\ sinks' \in [Nodes -> SUBSET (Presenters \X Nodes)]
    BY <1>0, <1>4 DEF Disconnect, NodeShape, Without
  <2>3. ASSUME NEW m \in Nodes, NEW x \in sinks'[m]
        PROVE  x \in sinks[m] /\ x \in (own'[m] \cup relayed'[m]) \X Nodes
    <3>1. x \in sinks[m] /\ (m = n /\ u \in own[n] => x[1] # u)
      BY <2>1, <2>3 DEF Without
    <3>2. x \in (own[m] \cup relayed[m]) \X Nodes
      BY <1>0, <3>1 DEF NodeShape
    <3>3. x[1] \in own'[m] \cup relayed'[m]
      BY <2>1, <3>1, <3>2
    <3> QED
      BY <3>1, <3>2, <3>3
  <2>4. NodeShape'
    <3>1. \A m \in Nodes : sinks'[m] \subseteq (own'[m] \cup relayed'[m]) \X Nodes
      BY <2>3
    <3>2. \A m \in Nodes : m \notin room' => /\ peers'[m] = {} /\ own'[m] = {} /\ relayed'[m] = {}
                                             /\ attached'[m] = {}
      BY <1>0, <1>1, <1>2, <2>1 DEF NodeShape
    <3> QED
      BY <1>0, <1>1, <2>1, <2>2, <3>1, <3>2 DEF NodeShape
  <2>5. ASSUME Relays PROVE Relays'
    BY <1>1, <2>1, <2>3, <2>5
       DEF Relays, RelayFits, Leads, OnlyPlacementRelays, PresentersMeet
  <2> QED
    BY <2>4, <2>5 DEF NodeKeeps
<1> QED
  BY <1>3, <1>4

(* A round of the relay fabric reads edges only at the node of the call.   *)
LEMMA SyncMoves ==
    ASSUME NodeShape, NEW n \in Nodes, NEW at \in {"edges", "apply"}, NEW want \in SUBSET Nodes,
           sync' = [sync EXCEPT ![n] = [at |-> at, want |-> want]],
           UNCHANGED <<sfu, keys, wire, edges, placement>>,
           at = "edges" => n = placement,
           Relays => Leads(n, want)
    PROVE  NodeKeeps
<1> DEFINE next == [at |-> at, want |-> want]
<1>1. UNCHANGED <<room, peers, own, relayed, sinks, attached, keys, wire, edges, placement>>
  BY DEF sfu, tracks
<1>2. next \in [at : {"idle", "edges", "apply"}, want : SUBSET Nodes]
      /\ next.at = at /\ next.want = want
  OBVIOUS
<1>3. sync' = [sync EXCEPT ![n] = next]
  OBVIOUS
<1> HIDE DEF next
<1>4. \A m \in Nodes : sync'[m] = IF m = n THEN next ELSE sync[m]
  BY <1>3 DEF NodeShape
<1>5. NodeShape'
  <2>1. sync' \in [Nodes -> [at : {"idle", "edges", "apply"}, want : SUBSET Nodes]]
    BY <1>2, <1>3 DEF NodeShape
  <2> QED
    BY <1>1, <2>1 DEF NodeShape
<1>6. ASSUME Relays PROVE Relays'
  <2>1. ASSUME NEW m \in Nodes
        PROVE  (sync'[m].at = "edges" => m = placement) /\ Leads(m, sync'[m].want)
    BY <1>2, <1>4, <1>6 DEF Relays, RelayFits
  <2>2. RelayFits'
    BY <1>1, <1>6, <2>1 DEF Relays, RelayFits, Leads
  <2> QED
    BY <1>1, <1>6, <2>2 DEF Relays, OnlyPlacementRelays, PresentersMeet
<1> QED
  BY <1>5, <1>6 DEF NodeKeeps

LEMMA SyncNodes ==
    ASSUME ClusterShape, NEW n \in Here,
           ReadPlacement(n) \/ ReadEdges(n) \/ RelayReadFails(n)
    PROVE  NodeKeeps
<1>0. NodeShape /\ n \in Nodes /\ edges \in SUBSET Nodes /\ {} \in SUBSET Nodes
  BY NodesHere DEF ClusterShape, StoreShape
<1>1. Relays => Leads(n, {})
  BY DEF Leads
<1>2. CASE ReadPlacement(n)
  <2>1. UNCHANGED <<sfu, keys, wire, edges, placement>>
    BY <1>2 DEF ReadPlacement, rows
  <2>2. CASE n \in room /\ placement = n
    <3>1. sync' = [sync EXCEPT ![n] = [at |-> "edges", want |-> {}]]
      BY <1>2, <2>2 DEF ReadPlacement
    <3> QED
      BY <1>0, <1>1, <2>1, <2>2, <3>1, SyncMoves
  <2>3. CASE ~(n \in room /\ placement = n)
    <3>1. sync' = [sync EXCEPT ![n] = [at |-> "apply", want |-> {}]]
      BY <1>2, <2>3 DEF ReadPlacement
    <3> QED
      BY <1>0, <1>1, <2>1, <3>1, SyncMoves
  <2> QED
    BY <2>2, <2>3
<1>3. CASE ReadEdges(n)
  <2>1. /\ UNCHANGED <<sfu, keys, wire, edges, placement>>
        /\ sync' = [sync EXCEPT ![n] = [at |-> "apply", want |-> edges]]
        /\ sync[n].at = "edges"
    BY <1>3 DEF ReadEdges, rows
  <2>2. Relays => Leads(n, edges)
    BY <1>0, <2>1 DEF Relays, RelayFits, Leads
  <2> QED
    BY <1>0, <2>1, <2>2, SyncMoves
<1>4. CASE RelayReadFails(n)
  <2>1. /\ UNCHANGED <<sfu, keys, wire, edges, placement>>
        /\ sync' = [sync EXCEPT ![n] = [at |-> "apply", want |-> {}]]
    BY <1>4 DEF RelayReadFails, rows
  <2> QED
    BY <1>0, <1>1, <2>1, SyncMoves
<1> QED
  BY <1>2, <1>3, <1>4

(* The observers of a room are brought in line with the edges it read.     *)
LEMMA ReconcileNodes ==
    ASSUME ClusterShape, NEW n \in Here, ReconcileObservers(n)
    PROVE  NodeKeeps
<1> DEFINE want == sync[n].want
           new == IF n \in room THEN want \ keys[n] ELSE {}
           gone == keys[n] \ want
           added == (own[n] \cup relayed[n]) \X new
<1>0. /\ NodeShape /\ n \in Nodes /\ want \subseteq Nodes /\ new \subseteq want
      /\ n \notin room => new = {}
  BY NodesHere DEF ClusterShape, NodeShape
<1>1. /\ keys' = [keys EXCEPT ![n] = (@ \ gone) \cup new]
      /\ attached' = [attached EXCEPT ![n] = (@ \ gone) \cup new]
      /\ sinks' = [sinks EXCEPT ![n] = @ \cup added]
      /\ sync' = [sync EXCEPT ![n] = Synced]
      /\ UNCHANGED <<room, peers, own, relayed, wire, edges, placement>>
  BY DEF ReconcileObservers, rows
<1> HIDE DEF want, new, gone, added
<1>2. \A m \in Nodes :
         /\ keys'[m] = IF m = n THEN (keys[n] \ gone) \cup new ELSE keys[m]
         /\ attached'[m] = IF m = n THEN (attached[n] \ gone) \cup new ELSE attached[m]
         /\ sinks'[m] = IF m = n THEN sinks[n] \cup added ELSE sinks[m]
         /\ sync'[m] = IF m = n THEN Synced ELSE sync[m]
  BY <1>0, <1>1 DEF NodeShape
<1>3. ASSUME NEW m \in Nodes, NEW x \in sinks'[m]
      PROVE  /\ x \in (own[m] \cup relayed[m]) \X Nodes
             /\ x \in sinks[m] \/ (m = n /\ x[2] \in new)
  <2>1. CASE x \in sinks[m]
    BY <1>0, <2>1 DEF NodeShape
  <2>2. CASE m = n /\ x \in added
    BY <1>0, <2>2 DEF added
  <2> QED
    BY <1>2, <1>3, <2>1, <2>2
<1>4. NodeShape'
  <2>1. Synced \in [at : {"idle", "edges", "apply"}, want : SUBSET Nodes]
    BY DEF Synced
  <2>2. sync' \in [Nodes -> [at : {"idle", "edges", "apply"}, want : SUBSET Nodes]]
    BY <1>0, <1>1, <2>1 DEF NodeShape
  <2>3. attached' \in [Nodes -> SUBSET Nodes] /\ keys' \in [Nodes -> SUBSET Nodes]
    BY <1>0, <1>1 DEF NodeShape
  <2>4. sinks' \in [Nodes -> SUBSET (Presenters \X Nodes)]
    <3>1. ASSUME NEW m \in Nodes PROVE sinks'[m] \in SUBSET (Presenters \X Nodes)
      <4>1. own[m] \subseteq Presenters /\ relayed[m] \subseteq Presenters
        BY <1>0 DEF NodeShape
      <4> QED
        BY <1>3, <4>1
    <3>2. sinks' = [m \in Nodes |-> sinks'[m]]
      BY <1>0, <1>1 DEF NodeShape
    <3> QED
      BY <3>1, <3>2
  <2>5. \A m \in Nodes : sinks'[m] \subseteq (own'[m] \cup relayed'[m]) \X Nodes
    BY <1>1, <1>3
  <2>6. \A m \in Nodes : m \notin room' => /\ peers'[m] = {} /\ own'[m] = {} /\ relayed'[m] = {}
                                           /\ attached'[m] = {}
    BY <1>0, <1>1, <1>2 DEF NodeShape
  <2> QED
    BY <1>0, <1>1, <2>2, <2>3, <2>4, <2>5, <2>6 DEF NodeShape
<1>5. ASSUME Relays PROVE Relays'
  <2>1. want # {} => n = placement /\ n \notin want
    BY <1>0, <1>5 DEF Relays, RelayFits, Leads, want
  <2>2. RelayFits'
    <3>1. \A m \in Nodes : sync'[m].at = "edges" => m = placement
      BY <1>2, <1>5 DEF Relays, RelayFits, Synced
    <3>2. \A m \in Nodes : Leads(m, sync'[m].want)
      BY <1>2, <1>5 DEF Relays, RelayFits, Synced, Leads
    <3>3. \A m \in Nodes : Leads(m, keys'[m]) /\ Leads(m, attached'[m])
      BY <1>0, <1>2, <1>5, <2>1 DEF Relays, RelayFits, Leads
    <3> QED
      BY <1>1, <1>5, <3>1, <3>2, <3>3 DEF Relays, RelayFits, Leads
  <2>3. OnlyPlacementRelays'
    <3> SUFFICES ASSUME NEW m \in Nodes, NEW x \in sinks'[m] PROVE m = placement /\ x[2] # m
        BY <1>1 DEF OnlyPlacementRelays
    <3> QED
      BY <1>0, <1>3, <1>5, <2>1 DEF Relays, OnlyPlacementRelays
  <2> QED
    BY <1>1, <1>5, <2>2, <2>3 DEF Relays, PresentersMeet
<1> QED
  BY <1>4, <1>5 DEF NodeKeeps

LEMMA SendPacketNodes ==
    ASSUME ClusterShape, NEW u \in Users, NEW n \in Here, SendPacket(u, n)
    PROVE  NodeKeeps
<1> DEFINE sent == {<<u, n, x[2]>> : x \in {y \in sinks[n] : y[1] = u}}
<1>0. NodeShape /\ n \in Nodes /\ u \in Presenters
  BY NodesHere DEF ClusterShape, NodeShape, SendPacket
<1>1. /\ wire' = wire \cup sent
      /\ UNCHANGED <<sfu, keys, sync, edges, placement>>
  BY DEF SendPacket, rows
<1>2. \A x \in sinks[n] : x[2] \in Nodes
  BY <1>0 DEF NodeShape
<1>3. sent \subseteq Presenters \X Nodes \X Nodes
  BY <1>0, <1>2
<1> HIDE DEF sent
<1>4. NodeShape'
  BY <1>0, <1>1, <1>3 DEF NodeShape, sfu, tracks
<1>5. Relays => Relays'
  BY <1>1 DEF Relays, RelayFits, Leads, OnlyPlacementRelays, PresentersMeet, sfu, tracks
<1> QED
  BY <1>4, <1>5 DEF NodeKeeps

(* A relayed track has a sink for each observer of the room: none, unless  *)
(* this is the node of the call.                                           *)
LEMMA RelayPacketNodes ==
    ASSUME ClusterShape, NEW u \in Presenters, NEW n \in Here, NEW m \in Here,
           HandleRelayPacket(u, n, m)
    PROVE  NodeKeeps
<1>0. NodeShape /\ n \in Nodes /\ m \in Nodes
  BY NodesHere DEF ClusterShape
<1>1. UNCHANGED <<peers, own, attached, keys, sync, edges, placement>>
  BY DEF HandleRelayPacket, rows
<1>2. CASE wire' = wire \ {<<u, n, m>>} /\ UNCHANGED <<room, relayed, sinks>>
  <2>1. NodeShape'
    BY <1>0, <1>1, <1>2 DEF NodeShape
  <2>2. Relays => Relays'
    BY <1>1, <1>2 DEF Relays, RelayFits, Leads, OnlyPlacementRelays, PresentersMeet
  <2> QED
    BY <2>1, <2>2 DEF NodeKeeps
<1>3. ASSUME NEW fresh \in BOOLEAN,
             room' = room \cup {m},
             relayed' = [relayed EXCEPT ![m] = IF fresh THEN @ \cup {u} ELSE @],
             sinks' = [sinks EXCEPT ![m] = IF fresh THEN @ \cup {u} \X attached[m] ELSE @],
             wire' = (wire \ {<<u, n, m>>})
                        \cup {<<u, m, x[2]>> : x \in {y \in sinks'[m] : y[1] = u}}
      PROVE  NodeKeeps
  <2> DEFINE sent == {<<u, m, x[2]>> : x \in {y \in sinks'[m] : y[1] = u}}
             added == {u} \X attached[m]
  <2>1. \A l \in Nodes :
           /\ relayed'[l] = IF l = m /\ fresh THEN relayed[m] \cup {u} ELSE relayed[l]
           /\ sinks'[l] = IF l = m /\ fresh THEN sinks[m] \cup added ELSE sinks[l]
    BY <1>0, <1>3 DEF NodeShape
  <2>2. relayed' \in [Nodes -> SUBSET Presenters]
    BY <1>0, <1>3 DEF NodeShape
  <2>3. ASSUME NEW l \in Nodes, NEW x \in sinks'[l]
        PROVE  /\ x \in (own'[l] \cup relayed'[l]) \X Nodes
               /\ x \in sinks[l] \/ x[2] \in attached[l]
    <3>1. CASE x \in sinks[l]
      BY <1>0, <1>1, <2>1, <3>1 DEF NodeShape
    <3>2. CASE l = m /\ fresh /\ x \in added
      <4>1. attached[m] \subseteq Nodes
        BY <1>0 DEF NodeShape
      <4> QED
        BY <2>1, <3>2, <4>1
    <3> QED
      BY <2>1, <2>3, <3>1, <3>2
  <2> HIDE DEF added
  <2>4. sinks' \in [Nodes -> SUBSET (Presenters \X Nodes)]
    <3>1. ASSUME NEW l \in Nodes PROVE sinks'[l] \in SUBSET (Presenters \X Nodes)
      <4>1. own'[l] \subseteq Presenters /\ relayed'[l] \subseteq Presenters
        BY <1>0, <1>1, <2>2 DEF NodeShape
      <4> QED
        BY <2>3, <4>1
    <3>2. sinks' = [l \in Nodes |-> sinks'[l]]
      BY <1>0, <1>3 DEF NodeShape
    <3> QED
      BY <3>1, <3>2
  <2>5. sent \subseteq Presenters \X Nodes \X Nodes
    BY <1>0, <2>4
  <2> HIDE DEF sent
  <2>6. wire' \subseteq Presenters \X Nodes \X Nodes
    <3>1. wire' = (wire \ {<<u, n, m>>}) \cup sent
      BY <1>3 DEF sent
    <3> QED
      BY <1>0, <2>5, <3>1 DEF NodeShape
  <2>7. NodeShape'
    <3>1. \A l \in Nodes : sinks'[l] \subseteq (own'[l] \cup relayed'[l]) \X Nodes
      BY <2>3
    <3>2. \A l \in Nodes : l \notin room' => /\ peers'[l] = {} /\ own'[l] = {} /\ relayed'[l] = {}
                                             /\ attached'[l] = {}
      BY <1>0, <1>1, <1>3, <2>1 DEF NodeShape
    <3> QED
      BY <1>0, <1>1, <1>3, <2>2, <2>4, <2>6, <3>1, <3>2 DEF NodeShape
  <2>8. ASSUME Relays PROVE Relays'
    <3>1. OnlyPlacementRelays'
      <4> SUFFICES ASSUME NEW l \in Nodes, NEW x \in sinks'[l] PROVE l = placement /\ x[2] # l
          BY <1>1 DEF OnlyPlacementRelays
      <4>1. CASE x \in sinks[l]
        BY <2>8, <4>1 DEF Relays, OnlyPlacementRelays
      <4>2. CASE x[2] \in attached[l]
        BY <2>8, <4>2 DEF Relays, RelayFits, Leads
      <4> QED
        BY <2>3, <4>1, <4>2
    <3> QED
      BY <1>1, <2>8, <3>1 DEF Relays, RelayFits, Leads, PresentersMeet
  <2> QED
    BY <2>7, <2>8 DEF NodeKeeps
<1> QED
  <2> DEFINE takes == n # m /\ placement # None /\ CanCreate(m)
             fresh == u \notin own[m] \cup relayed[m]
  <2>1. CASE ~takes
    BY <1>2, <2>1 DEF HandleRelayPacket
  <2>2. CASE takes
    <3>1. fresh \in BOOLEAN
      OBVIOUS
    <3>2. /\ room' = room \cup {m}
          /\ relayed' = [relayed EXCEPT ![m] = IF fresh THEN @ \cup {u} ELSE @]
          /\ sinks' = [sinks EXCEPT ![m] = IF fresh THEN @ \cup {u} \X attached[m] ELSE @]
          /\ wire' = (wire \ {<<u, n, m>>})
                        \cup {<<u, m, x[2]>> : x \in {y \in sinks'[m] : y[1] = u}}
      BY <2>2 DEF HandleRelayPacket
    <3> HIDE DEF fresh
    <3> QED
      BY <1>3, <3>1, <3>2
  <2> QED
    BY <2>1, <2>2

-----------------------------------------------------------------------------
(* The steps of the specification.                                         *)

StoresRest == UNCHANGED <<registry, rows, here>>

(* A step keeps the shapes, and the rest unless it moves the placement.    *)
StepKeeps ==
    /\ ClusterShape'
    /\ RequestsFitPlacement /\ Relays /\ Placed => RequestsFitPlacement' /\ Relays'

LEMMA StoresRestKeep ==
    ASSUME StoreShape, StoresRest
    PROVE  StoreShape' /\ Placed
  BY DEF StoresRest, registry, rows, StoreShape, Placed

LEMMA ClientsRestKeep ==
    ASSUME RequestShape, UNCHANGED <<clients, here, placement>>
    PROVE  Keeps
  BY DEF clients, RequestShape, RequestIs, Here, Keeps, RequestsFitPlacement, Fits, FitsAs

LEMMA HeartbeatStep ==
    ASSUME ClusterShape, NEW n \in Here, Heartbeat(n) \/ KeyExpires(n) \/ Crash(n)
    PROVE  StepKeeps
<1>0. n \in Nodes /\ Rooms(n) \in Nat /\ StoreShape /\ RequestShape /\ NodeShape
  BY NodesHere DEF ClusterShape
<1>1. CASE Heartbeat(n) \/ KeyExpires(n)
  <2>1. UNCHANGED <<rows, clients, sfu, relay, here>>
    BY <1>1 DEF Heartbeat, KeyExpires
  <2>2. StoreShape'
    <3>1. /\ members' \subseteq Nodes /\ heard' \in [Nodes -> Nat \cup {None}]
          /\ busy' \in [Nodes -> Nat]
      BY <1>0, <1>1 DEF Heartbeat, KeyExpires, StoreShape
    <3> QED
      BY <1>0, <2>1, <3>1 DEF rows, StoreShape
  <2>3. Keeps
    BY <1>0, <2>1, ClientsRestKeep DEF rows
  <2>4. NodeShape' /\ (Relays => Relays')
    BY <1>0, <2>1, NodesRestKeep DEF rows, NodesRest
  <2> QED
    BY <2>2, <2>3, <2>4 DEF StepKeeps, Keeps, ClusterShape
<1>2. CASE Crash(n)
  <2>1. StoreShape'
    BY <1>0, <1>2 DEF Crash, rows, StoreShape
  <2>2. NodeKeeps
    BY <1>2, CloseRoomNodes DEF Crash, rows
  <2> QED
    BY <1>2, <2>1, <2>2, CrashKeeps DEF StepKeeps, Keeps, NodeKeeps, ClusterShape
<1> QED
  BY <1>1, <1>2

LEMMA OthersStep ==
    ASSUME ClusterShape, NEW n \in Here, OpenOther(n) \/ CloseOther(n)
    PROVE  StepKeeps
<1>0. n \in Nodes /\ busy[n] \in Nat /\ StoreShape /\ RequestShape /\ NodeShape
  BY NodesHere DEF ClusterShape
<1>1. UNCHANGED <<members, heard, rows, clients, sfu, relay, here>>
  BY DEF OpenOther, CloseOther
<1>2. busy' \in [Nodes -> Nat]
  <2>1. CASE OpenOther(n)
    BY <1>0, <2>1 DEF OpenOther, StoreShape
  <2>2. CASE CloseOther(n)
    <3>1. busy[n] - 1 \in Nat /\ busy' = [busy EXCEPT ![n] = busy[n] - 1]
      BY <1>0, <2>2 DEF CloseOther
    <3> QED
      BY <1>0, <3>1 DEF StoreShape
  <2> QED
    BY <2>1, <2>2
<1>3. StoreShape'
  BY <1>0, <1>1, <1>2 DEF rows, StoreShape
<1>4. Keeps
  BY <1>0, <1>1, ClientsRestKeep DEF rows
<1>5. NodeShape' /\ (Relays => Relays')
  BY <1>0, <1>1, NodesRestKeep DEF rows, NodesRest
<1> QED
  BY <1>3, <1>4, <1>5 DEF StepKeeps, Keeps, ClusterShape

LEMMA BeginStep ==
    ASSUME ClusterShape, NEW u \in Users, NEW n \in Here, BeginsAt(u, n)
    PROVE  StepKeeps
<1>1. UNCHANGED <<registry, placement, edges, sfu, relay, here>>
  BY DEF BeginsAt, StartCall, IssueMediaJoinToken, HandleMediaOffer, EndCall, rows
<1>2. call' \in {"none", "active", "ended"}
  BY DEF BeginsAt, StartCall, IssueMediaJoinToken, HandleMediaOffer, EndCall, rows,
         ClusterShape, StoreShape
<1>3. StoreShape'
  BY <1>1, <1>2 DEF registry, ClusterShape, StoreShape
<1>4. NodeShape' /\ (Relays => Relays')
  BY <1>1, NodesRestKeep DEF ClusterShape, NodesRest
<1> QED
  BY <1>3, <1>4, BeginKeeps DEF StepKeeps, Keeps, ClusterShape

LEMMA NodeStep ==
    ASSUME ClusterShape, NodeKeeps, UNCHANGED clients, StoresRest
    PROVE  StepKeeps
<1>1. StoreShape'
  BY StoresRestKeep DEF ClusterShape
<1>2. Keeps
  BY ClientsRestKeep DEF ClusterShape, StoresRest, rows
<1> QED
  BY <1>1, <1>2 DEF StepKeeps, Keeps, NodeKeeps, ClusterShape

LEMMA EnsureStep ==
    ASSUME ClusterShape, NEW u \in Users, Ensure(u)
    PROVE  StepKeeps
<1>0. NodeShape /\ StoreShape /\ RequestShape
  BY DEF ClusterShape
<1>1. ASSUME Keeps, OnlyRequest PROVE StepKeeps
  <2>1. StoreShape'
    BY <1>0, <1>1, StoresRestKeep DEF OnlyRequest, StoresRest
  <2>2. NodeShape' /\ (Relays => Relays')
    BY <1>0, <1>1, NodesRestKeep DEF OnlyRequest, NodesRest, rows
  <2> QED
    BY <1>1, <2>1, <2>2 DEF StepKeeps, Keeps, ClusterShape
<1>2. CASE ListNodes(u)
  BY <1>1, <1>2, ListNodesKeeps DEF ListNodes
<1>3. CASE PruneMembers(u)
  <2>1. UNCHANGED <<heard, busy, rows, sfu, relay, here>> /\ members' \subseteq members
    BY <1>3 DEF PruneMembers
  <2>2. StoreShape'
    BY <1>0, <2>1 DEF rows, StoreShape
  <2>3. NodeShape' /\ (Relays => Relays')
    BY <1>0, <2>1, NodesRestKeep DEF NodesRest, rows
  <2> QED
    BY <1>3, <2>2, <2>3, PruneMembersKeeps DEF StepKeeps, Keeps, ClusterShape
<1>4. CASE GetPlacement(u) \/ GetPlacementFails(u)
  BY <1>1, <1>4, GetPlacementKeeps DEF GetPlacement, GetPlacementFails
<1>5. CASE UpsertPlacement(u)
  <2>1. UNCHANGED <<registry, call, edges, sfu, relay, here>>
    BY <1>5 DEF UpsertPlacement
  <2>2. StoreShape'
    BY <1>0, <1>5, <2>1, UpsertPlacementKeeps DEF registry, StoreShape
  <2>3. NodeShape' /\ (Relays /\ Placed => Relays')
    BY <1>0, <1>5, <2>1, NodesRestKeep, FirstPlacement, UpsertPlacementKeeps DEF NodesRest
  <2> QED
    BY <1>5, <2>2, <2>3, UpsertPlacementKeeps DEF StepKeeps, ClusterShape
<1>6. CASE DeleteEdges(u) \/ WaitLock(u)
  BY <1>1, <1>6, DeleteEdgesKeeps DEF DeleteEdges, WaitLock
<1>7. CASE InsertEdges(u)
  <2>1. UNCHANGED <<registry, call, placement, sfu, relay, here>>
    BY <1>7 DEF InsertEdges
  <2>2. StoreShape'
    BY <1>0, <1>7, <2>1, InsertEdgesRelays DEF registry, StoreShape
  <2>3. NodeShape'
    BY <1>0, <2>1, NodesRestKeep DEF NodesRest
  <2> QED
    BY <1>7, <2>2, <2>3, InsertEdgesKeeps, InsertEdgesRelays DEF StepKeeps, Keeps, ClusterShape
<1>8. CASE StoreFails(u)
  BY <1>1, <1>8, StoreFailsKeeps DEF StoreFails
<1> QED
  BY <1>2, <1>3, <1>4, <1>5, <1>6, <1>7, <1>8 DEF Ensure

LEMMA AnswerStep ==
    ASSUME ClusterShape, NEW u \in Users, Answer(u)
    PROVE  StepKeeps
<1>0. NodeShape /\ StoreShape /\ RequestShape
  BY DEF ClusterShape
<1>1. StoreShape'
  BY <1>0, StoresRestKeep
     DEF Answer, CreateRoom, AnswerToken, CanServeNode, AddPeer, CloseRoom, OnlyRequest,
         StoresRest
<1>2. NodeKeeps
  <2>1. CASE AnswerToken(u) \/ CanServeNode(u)
    <3>1. NodesRest /\ UNCHANGED <<edges, placement>>
      BY <2>1 DEF AnswerToken, CanServeNode, OnlyRequest, NodesRest, rows
    <3> QED
      BY <1>0, <3>1, NodesRestKeep DEF NodeKeeps
  <2>2. CASE CreateRoom(u)
    BY <2>2, CreateRoomNodes
  <2>3. CASE AddPeer(u)
    BY <2>3, AddPeerNodes
  <2>4. CASE CloseRoom(u)
    BY <2>4, CloseRoomNodes DEF CloseRoom, relay, rows
  <2> QED
    BY <2>1, <2>2, <2>3, <2>4 DEF Answer
<1>3. Keeps
  BY EndsKeeps, AnswerTokenKeeps, CanServeNodeKeeps DEF Answer, EndsWith
<1> QED
  BY <1>1, <1>2, <1>3 DEF StepKeeps, Keeps, NodeKeeps, ClusterShape

LEMMA ClusterStep ==
    ASSUME ClusterShape, [Next]_vars
    PROVE  StepKeeps
<1>1. CASE UNCHANGED vars
  <2>1. StoresRest /\ UNCHANGED clients /\ NodesRest
    BY <1>1 DEF vars, StoresRest, NodesRest
  <2>2. NodeKeeps
    BY <2>1, NodesRestKeep DEF NodeKeeps, ClusterShape, StoresRest, rows
  <2> QED
    BY <2>1, <2>2, NodeStep
<1>2. ASSUME NEW n \in Here, Heartbeat(n) \/ KeyExpires(n) \/ Crash(n) PROVE StepKeeps
  BY <1>2, HeartbeatStep
<1>8. ASSUME NEW n \in Here, OpenOther(n) \/ CloseOther(n) PROVE StepKeeps
  BY <1>8, OthersStep
<1>3. ASSUME NEW u \in Users, NEW n \in Here, BeginsAt(u, n) PROVE StepKeeps
  BY <1>3, BeginStep
<1>4. ASSUME NEW u \in Users, NEW n \in Here,
             Publish(u, n) \/ Disconnect(u, n) \/ SendPacket(u, n)
      PROVE  StepKeeps
  <2>1. UNCHANGED clients /\ StoresRest
    BY <1>4 DEF Publish, Disconnect, SendPacket, StoresRest
  <2>2. NodeKeeps
    BY <1>4, TrackNodes, SendPacketNodes
  <2> QED
    BY <2>1, <2>2, NodeStep
<1>5. ASSUME NEW u \in Users, Ensure(u) \/ Answer(u) PROVE StepKeeps
  BY <1>5, EnsureStep, AnswerStep
<1>6. ASSUME NEW n \in Here, Reconcile(n) \/ RelayReadFails(n) PROVE StepKeeps
  <2>1. UNCHANGED clients /\ StoresRest
    BY <1>6 DEF Reconcile, ReadPlacement, ReadEdges, ReconcileObservers, RelayReadFails,
                StoresRest
  <2>2. NodeKeeps
    BY <1>6, SyncNodes, ReconcileNodes DEF Reconcile
  <2> QED
    BY <2>1, <2>2, NodeStep
<1>7. ASSUME NEW u \in Presenters, NEW n \in Here, NEW m \in Here, HandleRelayPacket(u, n, m)
      PROVE  StepKeeps
  <2>1. UNCHANGED clients /\ StoresRest
    BY <1>7 DEF HandleRelayPacket, StoresRest
  <2>2. NodeKeeps
    BY <1>7, RelayPacketNodes
  <2> QED
    BY <2>1, <2>2, NodeStep
<1> QED
  BY <1>1, <1>2, <1>3, <1>4, <1>5, <1>6, <1>7, <1>8 DEF Next, BeginsAt

LEMMA ClusterInit ==
    ASSUME Init
    PROVE  ClusterShape /\ RequestsFitPlacement /\ Relays
<1>1. /\ here \in Situations /\ Here \subseteq Nodes /\ here.busy \in [Here -> Nat]
      /\ here.placed \in Here \cup {None} /\ here.requests \in [Users -> Nat]
  BY ClusterAssumption DEF Init, Here
<1>2. StoreShape
  BY <1>1 DEF Init, StoreShape
<1>3. RequestShape
  <2>1. \A u \in Users : req[u] = Idle
    BY DEF Init
  <2>2. \A u \in Users : RequestIs(req[u])
    BY <2>1, IdleIs
  <2>3. req \in [Users -> Request]
    BY IdleIs DEF Init, RequestIs
  <2>4. spent \in [Users -> Nat] /\ \A u \in Users : spent[u] <= here.requests[u]
    BY <1>1 DEF Init
  <2> QED
    BY <2>2, <2>3, <2>4 DEF Init, RequestShape
<1>4. NodeShape
  <2>1. Synced \in [at : {"idle", "edges", "apply"}, want : SUBSET Nodes]
    BY DEF Synced
  <2> QED
    BY <2>1 DEF Init, NodeShape
<1>5. RequestsFitPlacement
  BY IdleIs, StepsDiffer DEF Init, RequestsFitPlacement, Fits, FitsAs
<1>6. Relays
  BY DEF Init, Relays, RelayFits, Leads, Synced, OnlyPlacementRelays, PresentersMeet
<1> QED
  BY <1>2, <1>3, <1>4, <1>5, <1>6 DEF ClusterShape

LEMMA ClusterTypes ==
    ASSUME ClusterShape
    PROVE  TypeOK
<1>1. \A u \in Users : spent[u] \in 0 .. here.requests[u]
  BY NodesHere DEF ClusterShape, RequestShape
<1>2. ASSUME NEW u \in Users
      PROVE  /\ req[u].at \in {"idle", "list", "get", "upsert", "delete", "wait",
                               "insert", "room", "token", "edges", "serve",
                               "peer", "close"}
             /\ req[u].at = "idle" <=> req[u].node = None
             /\ req[u].placed \in Nodes \cup {None}
             /\ req[u].snap \subseteq Nodes
  BY DEF ClusterShape, RequestShape, RequestIs, Request, Ensuring
<1> QED
  BY <1>1, <1>2 DEF ClusterShape, RequestShape, StoreShape, NodeShape, TypeOK

(* The state variables have their types, and a node without the room of    *)
(* the call has nobody and no track in it: Manager and Room of the SFU, as *)
(* closeRoom and a restart leave them.                                     *)
THEOREM ClusterTypeCorrect == Spec => []TypeOK
<1>1. Init => ClusterShape
  BY ClusterInit
<1>2. ClusterShape /\ [Next]_vars => ClusterShape'
  BY ClusterStep DEF StepKeeps
<1>3. ClusterShape => TypeOK
  BY ClusterTypes
<1> QED
  BY <1>1, <1>2, <1>3, PTL DEF Spec

LEMMA ClusterInvariant == Spec /\ PlacementKept => []ClusterInv
<1>1. Init => ClusterInv
  BY ClusterInit DEF ClusterInv
<1>2. ClusterInv /\ [Next]_vars /\ [placement # None => placement' = placement]_placement
         => ClusterInv'
  BY ClusterStep DEF ClusterInv, StepKeeps, Placed
<1> QED
  BY <1>1, <1>2, PTL DEF Spec, PlacementKept

(* As long as a call stays where it is placed, only that node relays its   *)
(* media, and to other nodes: reconcileRelayObservers attaches observers   *)
(* only where GetPlacement named its node, and ReplaceRelayEdges only ever *)
(* wrote edges that lead away from it.                                     *)
THEOREM OnlyPlacementRelaysAlways == Spec /\ PlacementKept => []OnlyPlacementRelays
<1>1. ClusterInv => OnlyPlacementRelays
  BY DEF ClusterInv, Relays
<1> QED
  BY <1>1, ClusterInvariant, PTL

(* As long as a call stays where it is placed, its presenters meet in one  *)
(* room: IssueMediaJoinToken names them the placement, and whatever        *)
(* CanServeNode answered an offer with, it is let in only there.           *)
THEOREM PresentersMeetAlways == Spec /\ PlacementKept => []PresentersMeet
<1>1. ClusterInv => PresentersMeet
  BY DEF ClusterInv, Relays
<1> QED
  BY <1>1, ClusterInvariant, PTL

-----------------------------------------------------------------------------
(* What moves a placement.                                                 *)

(* Only GetPlacement sends a request on to the upsert.                     *)
LEMMA ProceedsElsewhere ==
    ASSUME NEW r, RequestIs(r)
    PROVE  /\ Proceed(r).at # "upsert" /\ NotEnsured(r).at # "upsert"
           /\ EnsureFails(r).at # "upsert"
<1>1. Proceed(r) \in Request /\ Proceed(r).at # "upsert"
  <2>1. CASE r.then = << >>
    BY <2>1, IdleIs DEF Proceed, RequestIs
  <2>2. CASE r.then # << >>
    <3>1. Head(r.then) \in {"list", "room", "token", "edges", "serve", "peer"}
      BY <2>2, StepsAre
         DEF RequestIs, Request, Thens, AfterEnsure, TokenSteps, EdgeSteps, OfferSteps, Served
    <3> QED
      BY <2>2, <3>1, ProceedIs DEF RequestIs
  <2> QED
    BY <2>1, <2>2
<1> DEFINE q == [Proceed(r) EXCEPT !.placed = None]
<1>2. q.at # "upsert"
  BY <1>1 DEF Request
<1>3. NotEnsured(r).at # "upsert"
  BY <1>2, IdleIs DEF NotEnsured
<1> QED
  BY <1>1, <1>3 DEF EnsureFails

LEMMA BeginsWith ==
    ASSUME NEW n, NEW steps, steps # << >>
    PROVE  Proceed([Idle EXCEPT !.node = n, !.then = steps]).at = Head(steps)
<1> DEFINE q == [Idle EXCEPT !.node = n, !.then = steps]
<1>1. q.then = steps
  BY DEF Idle
<1>2. Proceed(q) = [node |-> n, at |-> Head(steps), then |-> Tail(steps), view |-> << >>,
                    stale |-> {}, placed |-> None, found |-> FALSE, snap |-> {}]
  BY <1>1 DEF Proceed, Idle
<1> HIDE DEF q
<1>3. Proceed(q).at = Head(steps)
  BY <1>2
<1> QED
  BY <1>3 DEF q

LEMMA BeginsElsewhere ==
    ASSUME NEW n, NEW steps,
           steps \in {<<"list", "room">>, <<"list", "list", "token">>, <<"list", "list", "edges">>,
                      <<"list", "serve", "list", "serve", "peer">>, <<"close">>}
    PROVE  Proceed([Idle EXCEPT !.node = n, !.then = steps]).at # "upsert"
<1>1. steps # << >>
  OBVIOUS
<1>2. Head(steps) \in {"list", "close"}
  BY StepsAre
<1> QED
  BY <1>1, <1>2, BeginsWith

LEMMA AgreedStep ==
    ASSUME ClusterShape, Agreed, [Next]_vars, \A u \in Users : ~GetPlacementFails(u)
    PROVE  Agreed' /\ placement' = placement
<1>0. RequestShape
  BY DEF ClusterShape
<1>1. ASSUME placement' = placement,
             \A v \in Users : req'[v].at = "upsert" => req'[v].placed = placement
      PROVE  Agreed' /\ placement' = placement
  BY <1>1 DEF Agreed, At
<1>2. ASSUME NEW u \in Users, NEW r, req' = [req EXCEPT ![u] = r],
             placement' = placement, r.at = "upsert" => r.placed = placement
      PROVE  Agreed' /\ placement' = placement
  <2>1. \A v \in Users : req'[v] = IF v = u THEN r ELSE req[v]
    BY <1>0, <1>2 DEF RequestShape
  <2> QED
    BY <1>1, <1>2, <2>1 DEF Agreed, At
<1>3. ASSUME UNCHANGED <<req, placement>> PROVE Agreed' /\ placement' = placement
  BY <1>3 DEF Agreed, At
<1>4. ASSUME NEW n \in Here, Heartbeat(n) \/ KeyExpires(n) \/ Crash(n)
      PROVE  Agreed' /\ placement' = placement
  <2>1. CASE Heartbeat(n) \/ KeyExpires(n)
    BY <1>3, <2>1 DEF Heartbeat, KeyExpires, rows, clients
  <2>2. CASE Crash(n)
    <3>1. /\ placement' = placement
          /\ req' = [u \in Users |-> IF req[u].node = n THEN Idle ELSE req[u]]
      BY <2>2 DEF Crash, rows
    <3> QED
      BY <1>1, <3>1, IdleIs DEF Agreed, At
  <2> QED
    BY <1>4, <2>1, <2>2
<1>12. ASSUME NEW n \in Here, OpenOther(n) \/ CloseOther(n)
       PROVE  Agreed' /\ placement' = placement
  BY <1>3, <1>12 DEF OpenOther, CloseOther, rows, clients
<1>5. ASSUME NEW u \in Users, NEW n \in Here, BeginsAt(u, n)
      PROVE  Agreed' /\ placement' = placement
  <2>1. PICK steps :
           /\ Begin(u, n, steps) /\ placement' = placement
           /\ steps \in {<<"list", "room">>, <<"list", "list", "token">>,
                         <<"list", "list", "edges">>,
                         <<"list", "serve", "list", "serve", "peer">>, <<"close">>}
    <3>1. CASE StartCall(u, n)
      BY <3>1 DEF StartCall
    <3>2. CASE IssueMediaJoinToken(u, n)
      BY <3>2 DEF IssueMediaJoinToken, rows
    <3>3. CASE HandleMediaOffer(u, n)
      BY <3>3 DEF HandleMediaOffer, rows
    <3>4. CASE EndCall(u, n)
      BY <3>4 DEF EndCall
    <3> QED
      BY <1>5, <3>1, <3>2, <3>3, <3>4 DEF BeginsAt
  <2> DEFINE r == Proceed([Idle EXCEPT !.node = n, !.then = steps])
  <2>2. r.at # "upsert" /\ req' = [req EXCEPT ![u] = r]
    BY <2>1, BeginsElsewhere DEF Begin, Goes
  <2> HIDE DEF r
  <2> QED
    BY <1>2, <2>1, <2>2
<1>6. ASSUME NEW u \in Users, Ensure(u) PROVE Agreed' /\ placement' = placement
  <2>0. RequestIs(req[u]) /\ req[u] \in Request
    BY <1>0 DEF RequestShape, RequestIs
  <2>1. CASE ListNodes(u)
    <3>1. PICK r : req' = [req EXCEPT ![u] = r] /\ r.at = "get"
      <4> DEFINE r(view, s) == [req[u] EXCEPT !.at = "get", !.view = view, !.stale = s]
      <4>1. \A view, s : r(view, s).at = "get"
        BY <2>0 DEF Request
      <4>2. \E view, s : req' = [req EXCEPT ![u] = r(view, s)]
        BY <2>1 DEF ListNodes, Goes
      <4> QED
        BY <4>1, <4>2
    <3> QED
      BY <1>2, <2>1, <3>1 DEF ListNodes, OnlyRequest, rows
  <2>2. CASE PruneMembers(u)
    <3> DEFINE r == [req[u] EXCEPT !.stale = {}]
    <3>1. req' = [req EXCEPT ![u] = r] /\ placement' = placement
      BY <1>0, <2>2 DEF PruneMembers, rows, RequestShape
    <3>2. r.at = "upsert" => r.placed = placement
      BY <2>0 DEF Request, Agreed, At
    <3> QED
      BY <1>2, <3>1, <3>2
  <2>3. CASE GetPlacement(u)
    <3> DEFINE r == [req[u] EXCEPT !.at = "upsert", !.found = TRUE, !.placed = placement]
    <3>1. req' = [req EXCEPT ![u] = r] /\ placement' = placement
      BY <2>3 DEF GetPlacement, Goes, OnlyRequest, rows, Agreed
    <3>2. r.placed = placement
      BY <2>0 DEF Request
    <3> QED
      BY <1>2, <3>1, <3>2
  <2>4. CASE GetPlacementFails(u)
    BY <2>4
  <2>5. CASE UpsertPlacement(u)
    <3> DEFINE r == [req[u] EXCEPT !.at = "delete"]
    <3>1. req' = [req EXCEPT ![u] = r] /\ placement' = placement
      BY <2>5 DEF UpsertPlacement, Step, Goes, Agreed, At
    <3>2. r.at # "upsert"
      BY <2>0 DEF Request
    <3> QED
      BY <1>2, <3>1, <3>2
  <2>6. CASE DeleteEdges(u) \/ WaitLock(u)
    <3> DEFINE l == IF DeleteEdges(u) /\ edges \cap LockedBut(u) # {} THEN "wait" ELSE "insert"
               s == IF DeleteEdges(u) THEN edges ELSE req[u].snap
               r == [req[u] EXCEPT !.snap = s, !.at = l]
    <3>1. placement' = placement
      BY <2>6 DEF DeleteEdges, WaitLock, OnlyRequest, rows
    <3>2. req' = [req EXCEPT ![u] = r]
      <4>1. CASE DeleteEdges(u)
        BY <4>1 DEF DeleteEdges, Goes
      <4>2. CASE WaitLock(u) /\ ~DeleteEdges(u)
        <5>1. req' = [req EXCEPT ![u] = [req[u] EXCEPT !.at = "insert"]]
          BY <4>2 DEF WaitLock, Step, Goes
        <5>2. [req[u] EXCEPT !.at = "insert"] = r
          BY <2>0, <4>2 DEF Request
        <5> QED
          BY <5>1, <5>2
      <4> QED
        BY <2>6, <4>1, <4>2
    <3>3. r.at = l /\ l # "upsert"
      BY <2>0 DEF Request
    <3> QED
      BY <1>2, <3>1, <3>2, <3>3
  <2>7. CASE InsertEdges(u)
    <3>1. placement' = placement
      BY <2>7 DEF InsertEdges
    <3>2. CASE req' = [req EXCEPT ![u] = EnsureFails(req[u])]
      BY <1>2, <2>0, <3>1, <3>2, ProceedsElsewhere
    <3>3. CASE req' = [v \in Users |-> IF v = u THEN Proceed(req[u])
                                       ELSE [req[v] EXCEPT !.snap = @ \ req[u].snap]]
      <4> DEFINE s(v) == [req[v] EXCEPT !.snap = @ \ req[u].snap]
      <4>1. \A v \in Users : s(v).at = req[v].at /\ s(v).placed = req[v].placed
        BY <1>0 DEF RequestShape, Request
      <4>2. \A v \in Users : req'[v] = IF v = u THEN Proceed(req[u]) ELSE s(v)
        BY <3>3
      <4> HIDE DEF s
      <4> QED
        BY <1>1, <2>0, <3>1, <4>1, <4>2, ProceedsElsewhere DEF Agreed, At
    <3> QED
      BY <2>7, <3>2, <3>3 DEF InsertEdges, Goes
  <2>8. CASE StoreFails(u)
    <3>1. placement' = placement
      BY <2>8 DEF StoreFails, OnlyRequest, rows
    <3>2. PICK r \in {NotEnsured(req[u]), EnsureFails(req[u]), Idle} : req' = [req EXCEPT ![u] = r]
      BY <2>8 DEF StoreFails, Goes
    <3> QED
      BY <1>2, <2>0, <3>1, <3>2, ProceedsElsewhere, IdleIs
  <2> QED
    BY <1>6, <2>1, <2>2, <2>3, <2>4, <2>5, <2>6, <2>7, <2>8 DEF Ensure
<1>7. ASSUME NEW u \in Users, Answer(u) PROVE Agreed' /\ placement' = placement
  <2>0. RequestIs(req[u])
    BY <1>0 DEF RequestShape
  <2>1. placement' = placement
    BY <1>7 DEF Answer, CreateRoom, AnswerToken, CanServeNode, AddPeer, CloseRoom, OnlyRequest, rows
  <2> DEFINE again == [Idle EXCEPT !.node = req[u].node, !.at = "list"]
  <2>2. again.at = "list"
    BY DEF Idle
  <2>3. PICK r \in {Proceed(req[u]), again, Idle} : req' = [req EXCEPT ![u] = r]
    BY <1>7 DEF Answer, CreateRoom, AnswerToken, CanServeNode, AddPeer, CloseRoom, Goes
  <2> HIDE DEF again
  <2> QED
    BY <1>2, <2>0, <2>1, <2>2, <2>3, ProceedsElsewhere, IdleIs
<1>8. ASSUME NEW u \in Users, NEW n \in Here,
             Publish(u, n) \/ Disconnect(u, n) \/ SendPacket(u, n)
      PROVE  Agreed' /\ placement' = placement
  BY <1>3, <1>8 DEF Publish, Disconnect, SendPacket, rows, clients
<1>9. ASSUME NEW n \in Here, Reconcile(n) \/ RelayReadFails(n)
      PROVE  Agreed' /\ placement' = placement
  BY <1>3, <1>9 DEF Reconcile, ReadPlacement, ReadEdges, ReconcileObservers, RelayReadFails,
                    rows, clients
<1>10. ASSUME NEW u \in Presenters, NEW n \in Here, NEW m \in Here, HandleRelayPacket(u, n, m)
       PROVE  Agreed' /\ placement' = placement
  BY <1>3, <1>10 DEF HandleRelayPacket, rows, clients
<1>11. CASE UNCHANGED vars
  BY <1>3, <1>11 DEF vars, rows, clients
<1> QED
  BY <1>4, <1>5, <1>6, <1>7, <1>8, <1>9, <1>10, <1>11, <1>12
     DEF Next, BeginsAt

(* However the load of the nodes changes, and at whichever node requests   *)
(* arrive, a placement that no request is about to overwrite is kept, as   *)
(* EnsurePlacement writes back what it found.  Only a read whose error     *)
(* passes for "no row" can select another node.                            *)
THEOREM StaysPlacedAlways == Spec => StaysPlaced
<1>1. Init => ClusterShape
  BY ClusterInit
<1>2. ClusterShape /\ [Next]_vars => ClusterShape'
  BY ClusterStep DEF StepKeeps
<1>3. ClusterShape /\ [Next]_vars
         => [Agreed => (Agreed' /\ placement' = placement)
                          \/ \E u \in Users : GetPlacementFails(u)]_vars
  BY AgreedStep
<1> QED
  BY <1>1, <1>2, <1>3, PTL DEF Spec, StaysPlaced

(* A placed call whose row can be read, so, stays where it is.             *)
PlacedAndRead == \A s \in Situations : s.placed # None /\ "read" \notin s.events

LEMMA PlacementStays ==
    ASSUME PlacedAndRead
    PROVE  Spec => PlacementKept
<1>1. Init => ClusterShape /\ Agreed
  <2>1. ASSUME Init PROVE Agreed
    BY <2>1, IdleIs DEF Init, PlacedAndRead, Agreed, At
  <2> QED
    BY <2>1, ClusterInit
<1>2. ClusterShape /\ Agreed /\ [Next]_vars
         => ClusterShape' /\ Agreed' /\ placement' = placement
  <2>1. ASSUME ClusterShape PROVE \A u \in Users : ~GetPlacementFails(u)
    BY <2>1 DEF PlacedAndRead, ClusterShape, StoreShape, GetPlacementFails
  <2> QED
    BY <2>1, ClusterStep, AgreedStep DEF StepKeeps
<1>3. ClusterShape /\ Agreed /\ [Next]_vars
         => [placement # None => placement' = placement]_placement
  BY <1>2
<1> QED
  BY <1>1, <1>2, <1>3, PTL DEF Spec, PlacementKept

(* And it has one room for its presenters, and one node that relays,       *)
(* whatever else fails.                                                    *)
THEOREM PlacedCallsMeet ==
    ASSUME PlacedAndRead
    PROVE  Spec => [](OnlyPlacementRelays /\ PresentersMeet)
  BY PlacementStays, OnlyPlacementRelaysAlways, PresentersMeetAlways, PTL
=============================================================================
