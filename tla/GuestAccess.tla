---------------------------- MODULE GuestAccess ----------------------------
(***************************************************************************)
(* Guests of a workspace: invites, and the accounts and access grants that *)
(* redeeming one creates (src/internal/service/guest/service.go).          *)
(*                                                                         *)
(* A redemption reads the invite, its channels and the account, each in a  *)
(* statement of its own, and then writes account, grant and use count in   *)
(* one READ COMMITTED transaction.  The unique indexes on the address and  *)
(* on (invite, user) make an INSERT wait for the open transaction that     *)
(* holds the same key; the UPDATE of the use count keeps the invite's row  *)
(* locked until the transaction is over.                                   *)
(*                                                                         *)
(* An account is its address.  A grant copies the channels and the expiry  *)
(* of its invite, so it is the pair of invite and address.  Roles of       *)
(* members, who create, list and revoke, are left out.                     *)
(***************************************************************************)
EXTENDS Integers, FiniteSets

CONSTANTS
    Invites,
    Emails,
    Members,    \* addresses whose account is a member of the workspace
    Known,      \* addresses that have an account, members or not
    Channels,   \* channels an invite may name
    Offers,     \* what invites are created with: uses, address and channels
    Anyone,     \* no address restriction
    Slots       \* redemptions in progress at a time

ASSUME GuestAssumption ==
    /\ Members \subseteq Known /\ Known \subseteq Emails
    /\ Anyone \notin Emails
    /\ Offers \subseteq [max : Nat \ {0}, only : Emails \cup {Anyone},
                         channels : SUBSET Channels]

VARIABLES
    invites,    \* guest_invites
    grants,     \* guest_access_grants: per invite, the addresses
    accounts,   \* users
    archived,   \* channels archived so far
    admitted,   \* addresses that were given a session
    redeem      \* the redemptions in progress

guestVars == <<invites, grants, accounts, archived, admitted, redeem>>

NoInvite == [status |-> "none", uses |-> 0, expired |-> FALSE,
             offer |-> [max |-> 1, only |-> Anyone, channels |-> {}]]
NoRedeem == [pc |-> "idle"]

GuestInit ==
    /\ invites = [i \in Invites |-> NoInvite]
    /\ grants = [i \in Invites |-> {}]
    /\ accounts = Known
    /\ archived = {}
    /\ admitted = {}
    /\ redeem = [s \in Slots |-> NoRedeem]

\* Open transactions, and those that hold an invite's row lock.
InTx(s)  == redeem[s].pc \in {"granted", "counted"}
Locked(i) == \E s \in Slots : redeem[s].pc = "counted" /\ redeem[s].invite = i

\* GuestInvite.IsValid
IsValid(inv) ==
    /\ inv.status = "active" /\ ~inv.expired
    /\ inv.uses < inv.offer.max

Advance(s, at) == redeem' = [redeem EXCEPT ![s].pc = at]
Quit(s)     == redeem' = [redeem EXCEPT ![s] = NoRedeem]

----------------------------------------------------------------------------
CreateInvite(i, offer) ==
    /\ invites[i] = NoInvite
    /\ offer.channels \cap archived = {}
    /\ invites' = [invites EXCEPT ![i].status = "active", ![i].offer = offer]
    /\ UNCHANGED <<grants, accounts, archived, admitted, redeem>>

\* Whatever the status; waits for the transaction that counts a use.
RevokeInvite(i) ==
    /\ invites[i].status # "none" /\ ~Locked(i)
    /\ invites' = [invites EXCEPT ![i].status = "revoked"]
    /\ UNCHANGED <<grants, accounts, archived, admitted, redeem>>

RedeemInvite(s, i, e) ==
    /\ redeem[s] = NoRedeem
    /\ IsValid(invites[i])
    /\ invites[i].offer.only \in {Anyone, e}
    /\ redeem' = [redeem EXCEPT ![s] = [pc |-> "channels", invite |-> i, email |-> e]]
    /\ UNCHANGED <<invites, grants, accounts, archived, admitted>>

ValidateRedeemChannels(s) ==
    /\ redeem[s].pc = "channels"
    /\ IF invites[redeem[s].invite].offer.channels \cap archived = {}
         THEN Advance(s, "user") ELSE Quit(s)
    /\ UNCHANGED <<invites, grants, accounts, archived, admitted>>

\* A member is refused; an address without an account gets one.
FindUser(s) ==
    /\ redeem[s].pc = "user"
    /\ IF redeem[s].email \in accounts \cap Members THEN Quit(s)
         ELSE redeem' = [redeem EXCEPT ![s] =
                 [pc |-> "begin", invite |-> @.invite, email |-> @.email,
                  created |-> @.email \notin accounts]]
    /\ UNCHANGED <<invites, grants, accounts, archived, admitted>>

\* Another open transaction has inserted the same address or grant.
Conflicts(s, t) ==
    /\ InTx(t) /\ redeem[t].email = redeem[s].email
    /\ redeem[t].invite = redeem[s].invite \/ (redeem[t].created /\ redeem[s].created)

InsertGrant(s) ==
    /\ redeem[s].pc = "begin"
    /\ \A t \in Slots \ {s} : ~Conflicts(s, t)
    /\ IF \/ redeem[s].email \in grants[redeem[s].invite]
          \/ redeem[s].created /\ redeem[s].email \in accounts
         THEN Quit(s) ELSE Advance(s, "granted")
    /\ UNCHANGED <<invites, grants, accounts, archived, admitted>>

\* Mutation: the statement names the invite by id only.
CountableById(inv) == inv.uses < inv.offer.max

\* Mutation: the use count is increased without a bound.
CountableAlways(inv) == inv.status = "active"

\* The condition of the UPDATE in IncrementUseCount.
Countable(inv) == inv.status = "active" /\ inv.uses < inv.offer.max

IncrementUseCount(s) ==
    /\ redeem[s].pc = "granted"
    /\ ~Locked(redeem[s].invite)
    /\ IF Countable(invites[redeem[s].invite]) THEN Advance(s, "counted") ELSE Quit(s)
    /\ UNCHANGED <<invites, grants, accounts, archived, admitted>>

\* The answer of the commit may be lost: the guest is then told of an error.
Commit(s) ==
    /\ redeem[s].pc = "counted"
    /\ accounts' = accounts \cup {redeem[s].email}
    /\ grants' = [grants EXCEPT ![redeem[s].invite] = @ \cup {redeem[s].email}]
    /\ invites' = [invites EXCEPT ![redeem[s].invite].uses = @ + 1]
    /\ Advance(s, "session") \/ Quit(s)
    /\ UNCHANGED <<archived, admitted>>

CreateSession(s) ==
    /\ redeem[s].pc = "session"
    /\ admitted' = admitted \cup {redeem[s].email}
    /\ Quit(s)
    /\ UNCHANGED <<invites, grants, accounts, archived>>

\* A statement fails or the server dies: an open transaction rolls back.
RedeemFails(s) ==
    /\ redeem[s] # NoRedeem
    /\ Quit(s)
    /\ UNCHANGED <<invites, grants, accounts, archived, admitted>>

InviteExpires(i) ==
    /\ invites[i].status # "none" /\ ~invites[i].expired
    /\ invites' = [invites EXCEPT ![i].expired = TRUE]
    /\ UNCHANGED <<grants, accounts, archived, admitted, redeem>>

Archive(c) ==
    /\ c \notin archived
    /\ archived' = archived \cup {c}
    /\ UNCHANGED <<invites, grants, accounts, admitted, redeem>>

GuestNext ==
    \/ \E i \in Invites :
          \/ RevokeInvite(i) \/ InviteExpires(i)
          \/ \E offer \in Offers : CreateInvite(i, offer)
          \/ \E s \in Slots, e \in Emails : RedeemInvite(s, i, e)
    \/ \E s \in Slots :
          \/ ValidateRedeemChannels(s) \/ FindUser(s) \/ InsertGrant(s)
          \/ IncrementUseCount(s) \/ Commit(s) \/ CreateSession(s) \/ RedeemFails(s)
    \/ \E c \in Channels : Archive(c)

GuestSpec == GuestInit /\ [][GuestNext]_guestVars

----------------------------------------------------------------------------
(* Checker.HasChannelAccess: a grant outlives the revocation of its invite *)
(* but not its expiry; one without channels gives access to all.           *)
Allows(i, c) == invites[i].offer.channels = {} \/ c \in invites[i].offer.channels

HasChannelAccess(e, c) ==
    \E i \in Invites : e \in grants[i] /\ ~invites[i].expired /\ Allows(i, c)

----------------------------------------------------------------------------
(* The transaction of RedeemInvite: an invite is used once per grant and   *)
(* never beyond max_uses, however many redeem it together, fail between    *)
(* two statements or lose the answer of a commit.                          *)
UsesAreGrants ==
    \A i \in Invites :
        /\ invites[i].uses = Cardinality(grants[i])
        /\ invites[i].uses <= invites[i].offer.max

(* An address gains access to a channel only by an invite that is active   *)
(* at that moment: once RevokeInvite has answered nobody gets in by it, not *)
(* even a redemption that found it valid before.                           *)
AccessNeedsActiveInvite ==
    [][\A e \in Emails, c \in Channels :
          HasChannelAccess(e, c)' =>
              \/ HasChannelAccess(e, c)
              \/ \E i \in Invites : /\ invites[i].status = "active" /\ Allows(i, c)
                                    /\ e \in grants'[i] \ grants[i]]_guestVars

(* A guest is given a session only with a committed grant behind it.       *)
AdmittedIsGranted ==
    \A e \in admitted : \E i \in Invites : e \in grants[i]
=============================================================================
