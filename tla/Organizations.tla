--------------------------- MODULE Organizations ---------------------------
(***************************************************************************)
(* Organizations, their members and the accounts of these: creation,       *)
(* invitation, suspension, activation and deletion (ManageOrganizations,   *)
(* Agent/agent.ts, Agent/ManageClient.ts).                                 *)
(*                                                                         *)
(* An organization is a name and a user an e-mail: both are unique keys,   *)
(* and so is the user of a membership. Handlers read first and write       *)
(* later, in a transaction that is rolled back when a key is taken; a      *)
(* transaction about an organization locks its row first, so each is one   *)
(* action. An invitation has no transaction: one action per statement, and *)
(* it may stop between two.                                                *)
(***************************************************************************)
EXTENDS Naturals

CONSTANTS
    Requests,  \* HTTP requests that may be in flight together
    Orgs,      \* names of lenders and developers
    Users      \* e-mail addresses

None == "none"

ASSUME NoneIsNothing == None \notin Orgs /\ None \notin Users

OrganizationStatus == {"Active", "Inactive", "Suspended", "Deleted"}
UserStatus == {"Pending", "Active", "Banned", "Suspended", "Deleted"}
OfOrganization == {"suspend", "activate", "delete"}
OfUser == {"disable", "enable", "login", "mfa"}
Factors == {"none", "set", "verified"}
OfInvitation == {"invite", "user", "membership", "profile"}
Ops == {"idle", "create", "employ"} \cup OfOrganization \cup OfUser \cup OfInvitation

VARIABLES
    org,      \* status of each organization
    owner,    \* owner_user_id
    profile,  \* organizations with a lender's or developer's profile
    account,  \* status of each user
    member,   \* the organization of which each user has the membership
    factor,   \* of each user: no authenticator, one, or a verified e-mail
    op,       \* what each request is about to write
    target,   \* the organization it is about
    whose     \* the user it is about

tables == <<org, owner, profile, account, member, factor>>
calls  == <<op, target, whose>>
vars   == <<tables, calls>>

Init ==
    /\ org = [o \in Orgs |-> "absent"]
    /\ owner = [o \in Orgs |-> None]
    /\ profile = {}
    /\ account = [u \in Users |-> "absent"]
    /\ member = [u \in Users |-> None]
    /\ factor = [u \in Users |-> "none"]
    /\ op = [r \in Requests |-> "idle"]
    /\ target = [r \in Requests |-> None]
    /\ whose = [r \in Requests |-> None]

Reads(r, kind, o, u) ==
    /\ op[r] = "idle"
    /\ op' = [op EXCEPT ![r] = kind]
    /\ target' = [target EXCEPT ![r] = o]
    /\ whose' = [whose EXCEPT ![r] = u]
    /\ UNCHANGED tables

Ends(r) ==
    /\ op' = [op EXCEPT ![r] = "idle"]
    /\ target' = [target EXCEPT ![r] = None]
    /\ whose' = [whose EXCEPT ![r] = None]

Goes(r, next) ==
    /\ op' = [op EXCEPT ![r] = next]
    /\ UNCHANGED <<target, whose>>

Members(o) == {u \in Users : member[u] = o}

\* All members of the organization get the status, whatever theirs is.
Mark(o, status) ==
    account' = [u \in Users |-> IF u \in Members(o) THEN status ELSE account[u]]

\* A key is taken, a statement fails or the server stops: nothing is
\* written any more, and what a transaction wrote is undone.
Fail(r) ==
    /\ op[r] # "idle"
    /\ Ends(r)
    /\ UNCHANGED tables

-----------------------------------------------------------------------------
(* Creation.                                                               *)

\* createLender, createDeveloper.
ReadForCreate(r, o, u) ==
    /\ o \notin profile
    /\ account[u] = "absent"
    /\ Reads(r, "create", o, u)

\* Mutant: an owner who has an account by now is taken as it is.
CommitCreateForAnyone(r) ==
    LET o == target[r]
        u == whose[r]
    IN  /\ op[r] = "create"
        /\ org[o] = "absent"
        /\ \E status \in {"Active", "Inactive"} : org' = [org EXCEPT ![o] = status]
        /\ owner' = [owner EXCEPT ![o] = u]
        /\ profile' = profile \cup {o}
        /\ account' = [account EXCEPT ![u] = "Pending"]
        /\ member' = [member EXCEPT ![u] = o]
        /\ UNCHANGED factor
        /\ Ends(r)

CommitCreate(r) ==
    LET o == target[r]
        u == whose[r]
    IN  /\ op[r] = "create"
        /\ org[o] = "absent"
        /\ account[u] = "absent"
        /\ \E status \in {"Active", "Inactive"} : org' = [org EXCEPT ![o] = status]
        /\ owner' = [owner EXCEPT ![o] = u]
        /\ profile' = profile \cup {o}
        /\ account' = [account EXCEPT ![u] = "Pending"]
        /\ member' = [member EXCEPT ![u] = o]
        /\ UNCHANGED factor
        /\ Ends(r)

\* createEmployee (and createHSFSubAdmin, createHSFAdmin for the platform's
\* own organization), by a member. The status of the organization, which
\* may be deleted, is not looked at.
ReadForEmployee(r, o, u) ==
    /\ Members(o) # {}
    /\ account[u] = "absent"
    /\ Reads(r, "employ", o, u)

CommitEmployee(r) ==
    /\ op[r] = "employ"
    /\ account[whose[r]] = "absent"
    /\ account' = [account EXCEPT ![whose[r]] = "Pending"]
    /\ member' = [member EXCEPT ![whose[r]] = target[r]]
    /\ Ends(r)
    /\ UNCHANGED <<org, owner, profile, factor>>

-----------------------------------------------------------------------------
(* Invitations by an agent: inviteLender, inviteDevelopers.                *)

ReadForInvitation(r, o, u) ==
    /\ account[u] = "absent"
    /\ Reads(r, "invite", o, u)

\* Mutant: an active organization of that name is taken as it is.
InviteOrganizationAgain(r) ==
    /\ op[r] = "invite"
    /\ org[target[r]] \in {"absent", "Active"}
    /\ org' = [org EXCEPT ![target[r]] = "Active"]
    /\ Goes(r, "user")
    /\ UNCHANGED <<owner, profile, account, member, factor>>

InviteOrganization(r) ==
    /\ op[r] = "invite"
    /\ org[target[r]] = "absent"
    /\ org' = [org EXCEPT ![target[r]] = "Active"]
    /\ Goes(r, "user")
    /\ UNCHANGED <<owner, profile, account, member, factor>>

\* Only a developer gets the membership.
InviteUser(r) ==
    /\ op[r] = "user"
    /\ account[whose[r]] = "absent"
    /\ account' = [account EXCEPT ![whose[r]] = "Pending"]
    /\ \E next \in {"membership", "profile"} : Goes(r, next)
    /\ UNCHANGED <<org, owner, profile, member, factor>>

InviteMember(r) ==
    /\ op[r] = "membership"
    /\ member' = [member EXCEPT ![whose[r]] = target[r]]
    /\ Goes(r, "profile")
    /\ UNCHANGED <<org, owner, profile, account, factor>>

InviteProfile(r) ==
    /\ op[r] = "profile"
    /\ profile' = profile \cup {target[r]}
    /\ Ends(r)
    /\ UNCHANGED <<org, owner, account, member, factor>>

-----------------------------------------------------------------------------
(* The status of an organization and of its members.                       *)

ReadForSuspend(r, o) ==
    /\ org[o] \in {"Active", "Inactive"}
    /\ Reads(r, "suspend", o, None)

\* Mutant: the organization gets the status of a user.
CommitSuspendBanning(r) ==
    /\ op[r] = "suspend"
    /\ org' = [org EXCEPT ![target[r]] = "Banned"]
    /\ Mark(target[r], "Suspended")
    /\ Ends(r)
    /\ UNCHANGED <<owner, profile, member, factor>>

CommitSuspend(r) ==
    /\ op[r] = "suspend"
    /\ org' = [org EXCEPT ![target[r]] = "Suspended"]
    /\ Mark(target[r], "Suspended")
    /\ Ends(r)
    /\ UNCHANGED <<owner, profile, member, factor>>

\* Mutant: a deleted organization may be activated.
ReadForActivateAny(r, o) ==
    /\ org[o] \in {"Inactive", "Suspended", "Deleted"}
    /\ Reads(r, "activate", o, None)

ReadForActivate(r, o) ==
    /\ org[o] \in {"Inactive", "Suspended"}
    /\ Reads(r, "activate", o, None)

\* The members of an activated organization are marked as deleted.
CommitActivate(r) ==
    /\ op[r] = "activate"
    /\ org' = [org EXCEPT ![target[r]] = "Active"]
    /\ Mark(target[r], "Deleted")
    /\ Ends(r)
    /\ UNCHANGED <<owner, profile, member, factor>>

ReadForDelete(r, o) ==
    /\ org[o] \in {"Active", "Inactive", "Suspended"}
    /\ Reads(r, "delete", o, None)

CommitDelete(r) ==
    /\ op[r] = "delete"
    /\ org' = [org EXCEPT ![target[r]] = "Deleted"]
    /\ Mark(target[r], "Deleted")
    /\ Ends(r)
    /\ UNCHANGED <<owner, profile, member, factor>>

\* disableUser, enableUser, a login, which makes a pending user active, and
\* verifyMfa with an authenticator, which does so for every user whose e-mail
\* is not verified, whatever the status.
ReadForUser(r, kind, u) ==
    /\ \/ kind = "disable" /\ account[u] \in {"Pending", "Active"}
       \/ kind = "enable" /\ account[u] \in {"Banned", "Suspended"}
       \/ kind = "login" /\ account[u] = "Pending"
       \/ kind = "mfa" /\ factor[u] = "set"
    /\ Reads(r, kind, None, u)

CommitUser(r) ==
    /\ op[r] \in OfUser
    /\ \E status \in IF op[r] = "disable" THEN {"Banned", "Suspended"} ELSE {"Active"} :
          account' = [account EXCEPT ![whose[r]] = status]
    /\ factor' = IF op[r] = "mfa" THEN [factor EXCEPT ![whose[r]] = "verified"]
                 ELSE factor
    /\ Ends(r)
    /\ UNCHANGED <<org, owner, profile, member>>

\* Who has logged in may set up an authenticator (enable2fa).
SetUpFactor(u) ==
    /\ account[u] = "Active"
    /\ factor[u] = "none"
    /\ factor' = [factor EXCEPT ![u] = "set"]
    /\ UNCHANGED <<org, owner, profile, account, member, calls>>

\* acceptInvitation verifies the e-mail.
AcceptInvitation(u) ==
    /\ account[u] # "absent"
    /\ factor' = [factor EXCEPT ![u] = "verified"]
    /\ UNCHANGED <<org, owner, profile, account, member, calls>>

-----------------------------------------------------------------------------
Create(r) ==
    \/ \E o \in Orgs, u \in Users :
          ReadForCreate(r, o, u) \/ ReadForEmployee(r, o, u) \/ ReadForInvitation(r, o, u)
    \/ CommitCreate(r) \/ CommitEmployee(r)
    \/ InviteOrganization(r) \/ InviteUser(r) \/ InviteMember(r) \/ InviteProfile(r)

Manage(r) ==
    \/ \E o \in Orgs : ReadForSuspend(r, o) \/ ReadForActivate(r, o) \/ ReadForDelete(r, o)
    \/ CommitSuspend(r) \/ CommitActivate(r) \/ CommitDelete(r)
    \/ \E kind \in OfUser, u \in Users : ReadForUser(r, kind, u)
    \/ CommitUser(r)

Next ==
    \/ \E r \in Requests : Create(r) \/ Manage(r) \/ Fail(r)
    \/ \E u \in Users : SetUpFactor(u) \/ AcceptInvitation(u)

Spec == Init /\ [][Next]_vars

-----------------------------------------------------------------------------
(* Properties                                                              *)

\* Types.
TypeOK ==
    /\ org \in [Orgs -> OrganizationStatus \cup {"absent"}]
    /\ owner \in [Orgs -> Users \cup {None}]
    /\ profile \subseteq Orgs
    /\ account \in [Users -> UserStatus \cup {"absent"}]
    /\ member \in [Users -> Orgs \cup {None}]
    /\ factor \in [Users -> Factors]
    /\ op \in [Requests -> Ops]
    /\ target \in [Requests -> Orgs \cup {None}]
    /\ whose \in [Requests -> Users \cup {None}]

\* Creations and invitations cross on names and e-mails that were free when
\* they were read, and stop half-way. Still an organization that has an
\* owner is whole: it has its profile, and the owner an account and the
\* membership of it and of no other (createLender, createDeveloper); and no
\* profile or membership is of an organization or a user that is not there.
OwnersAreMembers ==
    /\ \A o \in Orgs : owner[o] # None =>
          /\ o \in profile
          /\ account[owner[o]] # "absent"
          /\ member[owner[o]] = o
    /\ \A o \in profile : org[o] # "absent"
    /\ \A u \in Users : member[u] # None =>
          org[member[u]] # "absent" /\ account[u] # "absent"

\* An organization whose invitation stopped before its profile never gets
\* one: its name is taken for every later invitation and creation, although
\* these look for the profile or for nothing at all (inviteLender,
\* inviteDevelopers, createLender, createDeveloper).
Inviting(o) ==
    \E r \in Requests : op[r] \in OfInvitation \ {"invite"} /\ target[r] = o

Lost(o) == org[o] # "absent" /\ o \notin profile /\ ~Inviting(o)

LostStays == \A o \in Orgs : Lost(o) => Lost(o)'

LostInvitationIsFinal == [][LostStays]_vars

\* Requests about the organization or the user that have read and not written.
InFlight(o, u) ==
    \E r \in Requests :
        \/ op[r] \in OfOrganization /\ target[r] = o
        \/ op[r] \in OfUser /\ whose[r] = u

\* A deleted member of a deleted organization, with no such request. Exempt is
\* a member with an authenticator whose e-mail was never verified.
Gone(o, u) ==
    /\ org[o] = "Deleted"
    /\ member[u] = o /\ account[u] = "Deleted"
    /\ factor[u] # "set"
    /\ ~InFlight(o, u)

\* Once the requests that read before the deletion are done, it is for good:
\* no activation, suspension, login or second factor that could undo it even
\* begins, whatever others write meanwhile; nor does an employment or an
\* invitation move the member elsewhere (deleteOrganization,
\* activateOrganization, disableUser, enableUser, login, verifyMfa).
DeletedStays == \A o \in Orgs, u \in Users : Gone(o, u) => Gone(o, u)'

DeletedIsFinal == [][DeletedStays]_vars

=============================================================================
