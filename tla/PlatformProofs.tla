--------------------------- MODULE PlatformProofs ---------------------------
(***************************************************************************)
(* Proofs about the organizations, for any requests, names and e-mails,    *)
(* and about one account, for any requests, codes and threshold.           *)
(*                                                                         *)
(* Of the organizations, Carried says what is true of a request in flight: *)
(* what it is about exists, and the member an invitation is about to make  *)
(* owns nothing, since its account was made after every organization that  *)
(* has an owner. Of the account, LockCount counts the attempts together    *)
(* with the failed logins that will still insert one.                      *)
(***************************************************************************)
EXTENDS PlatformMC, FiniteSetTheorems, TLAPS

Creating == {"create", "employ"} \cup OfInvitation
Started  == OfInvitation \ {"invite"}

Carried ==
    \A r \in Requests :
        /\ op[r] \in Creating \cup OfOrganization => target[r] \in Orgs
        /\ op[r] \in Creating \cup OfUser => whose[r] \in Users
        /\ op[r] \in {"employ"} \cup Started => org[target[r]] # "absent"
        /\ op[r] = "membership" =>
              account[whose[r]] # "absent" /\ \A o \in Orgs : owner[o] # whose[r]

IInv == TypeOK /\ Carried /\ OwnersAreMembers

\* What is there stays there, and who becomes an owner had no account.
Grows ==
    /\ \A o \in Orgs : org[o] # "absent" => org'[o] # "absent"
    /\ \A u \in Users : account[u] # "absent" => account'[u] # "absent"
    /\ \A o \in Orgs, u \in Users :
          owner'[o] = u /\ account[u] # "absent" => owner[o] = u

-----------------------------------------------------------------------------
LEMMA InitHolds == Init => IInv
<1> SUFFICES ASSUME Init PROVE IInv
  OBVIOUS
<1>1. TypeOK
  BY DEF Init, TypeOK, Ops, Factors
<1>2. Carried
  BY DEF Init, Carried, Creating, Started, OfInvitation, OfOrganization, OfUser
<1>3. OwnersAreMembers
  BY DEF Init, OwnersAreMembers
<1> QED
  BY <1>1, <1>2, <1>3 DEF IInv

\* The requests other than r are as they were after a step of r.
LEMMA OthersKept ==
    ASSUME TypeOK, NEW r \in Requests, NEW q \in Requests, q # r,
           \/ \E kind, o, u : Reads(r, kind, o, u)
           \/ Ends(r)
           \/ \E next : Goes(r, next)
    PROVE  op'[q] = op[q] /\ target'[q] = target[q] /\ whose'[q] = whose[q]
BY DEF TypeOK, Reads, Ends, Goes

\* A request that has read holds the invariant, if what it read is there.
LEMMA ReadStep ==
    ASSUME IInv, NEW r \in Requests,
           NEW kind \in {"create", "employ", "invite"} \cup OfOrganization \cup OfUser,
           NEW o \in Orgs \cup {None}, NEW u \in Users \cup {None},
           Reads(r, kind, o, u),
           kind \in Creating \cup OfOrganization => o \in Orgs,
           kind \in Creating \cup OfUser => u \in Users,
           kind = "employ" => org[o] # "absent"
    PROVE  IInv'
<1>1. TypeOK'
  BY DEF IInv, TypeOK, Reads, tables, Ops, OfInvitation
<1>2. /\ op'[r] = kind /\ target'[r] = o /\ whose'[r] = u
      /\ UNCHANGED tables
  BY DEF IInv, TypeOK, Reads
<1>3. Carried'
  <2> SUFFICES ASSUME NEW q \in Requests
               PROVE  /\ op'[q] \in Creating \cup OfOrganization => target'[q] \in Orgs
                      /\ op'[q] \in Creating \cup OfUser => whose'[q] \in Users
                      /\ op'[q] \in {"employ"} \cup Started => org'[target'[q]] # "absent"
                      /\ op'[q] = "membership" =>
                            /\ account'[whose'[q]] # "absent"
                            /\ \A p \in Orgs : owner'[p] # whose'[q]
    BY DEF Carried
  <2>1. CASE q = r
    BY <1>2, <2>1 DEF tables, Started, OfInvitation, OfOrganization, OfUser
  <2>2. CASE q # r
    <3>1. op'[q] = op[q] /\ target'[q] = target[q] /\ whose'[q] = whose[q]
      BY <2>2, OthersKept DEF IInv
    <3> QED
      BY <1>2, <3>1 DEF IInv, Carried, tables
  <2> QED
    BY <2>1, <2>2
<1>4. OwnersAreMembers'
  BY <1>2 DEF IInv, OwnersAreMembers, tables
<1> QED
  BY <1>1, <1>3, <1>4 DEF IInv

\* The end of a request leaves Carried to the others.
LEMMA CarriedKept ==
    ASSUME IInv, NEW r \in Requests, Ends(r), Grows
    PROVE  Carried'
<1>1. op'[r] = "idle"
  BY DEF IInv, TypeOK, Ends
<1>2. \A q \in Requests \ {r} :
         op'[q] = op[q] /\ target'[q] = target[q] /\ whose'[q] = whose[q]
  BY OthersKept DEF IInv
<1> SUFFICES ASSUME NEW q \in Requests \ {r}
             PROVE  /\ op'[q] \in Creating \cup OfOrganization => target'[q] \in Orgs
                    /\ op'[q] \in Creating \cup OfUser => whose'[q] \in Users
                    /\ op'[q] \in {"employ"} \cup Started => org'[target'[q]] # "absent"
                    /\ op'[q] = "membership" =>
                          /\ account'[whose'[q]] # "absent"
                          /\ \A p \in Orgs : owner'[p] # whose'[q]
  BY <1>1 DEF Carried, Creating, Started, OfInvitation, OfOrganization, OfUser
<1>3. op'[q] \in {"employ"} \cup Started => org'[target'[q]] # "absent"
  BY <1>2 DEF IInv, Carried, Grows, Creating, Started
<1>4. op'[q] = "membership" =>
         account'[whose'[q]] # "absent" /\ \A p \in Orgs : owner'[p] # whose'[q]
  BY <1>2 DEF IInv, Carried, Grows, Creating, OfInvitation
<1> QED
  BY <1>2, <1>3, <1>4 DEF IInv, Carried

\* An invitation that goes on to its next statement keeps Carried.
LEMMA CarriedOn ==
    ASSUME IInv, NEW r \in Requests, NEW next \in Started, Goes(r, next), Grows,
           op[r] \in OfInvitation, org'[target[r]] # "absent",
           next = "membership" =>
              account'[whose[r]] # "absent" /\ \A o \in Orgs : owner'[o] # whose[r]
    PROVE  Carried'
<1>1. op'[r] = next /\ UNCHANGED <<target, whose>>
  BY DEF IInv, TypeOK, Goes
<1>2. \A q \in Requests \ {r} : op'[q] = op[q]
  BY OthersKept DEF IInv
<1>3. target[r] \in Orgs /\ whose[r] \in Users
  BY DEF IInv, Carried, Creating
<1> SUFFICES ASSUME NEW q \in Requests
             PROVE  /\ op'[q] \in Creating \cup OfOrganization => target'[q] \in Orgs
                    /\ op'[q] \in Creating \cup OfUser => whose'[q] \in Users
                    /\ op'[q] \in {"employ"} \cup Started => org'[target'[q]] # "absent"
                    /\ op'[q] = "membership" =>
                          /\ account'[whose'[q]] # "absent"
                          /\ \A p \in Orgs : owner'[p] # whose'[q]
  BY DEF Carried
<1>4. CASE q = r
  BY <1>1, <1>3, <1>4 DEF Started, OfInvitation, OfOrganization, OfUser
<1>5. CASE q # r
  <2>1. op'[q] \in {"employ"} \cup Started => org'[target'[q]] # "absent"
    BY <1>1, <1>2, <1>5 DEF IInv, Carried, Grows, Creating, Started
  <2>2. op'[q] = "membership" =>
           account'[whose'[q]] # "absent" /\ \A p \in Orgs : owner'[p] # whose'[q]
    BY <1>1, <1>2, <1>5 DEF IInv, Carried, Grows, Creating, OfInvitation
  <2> QED
    BY <1>1, <1>2, <1>5, <2>1, <2>2 DEF IInv, Carried
<1> QED
  BY <1>4, <1>5

\* Marking members leaves every account and every owner there.
LEMMA MarkGrows ==
    ASSUME TypeOK, NEW o \in Orgs, NEW status \in UserStatus, Mark(o, status),
           UNCHANGED owner, \A p \in Orgs : org[p] # "absent" => org'[p] # "absent"
    PROVE  Grows /\ account' \in [Users -> UserStatus \cup {"absent"}]
<1>1. status # "absent"
  BY DEF UserStatus
<1> QED
  BY <1>1 DEF TypeOK, Mark, Grows

LEMMA OwnersKept ==
    ASSUME IInv, Grows, UNCHANGED <<owner, profile, member>>
    PROVE  OwnersAreMembers'
BY DEF IInv, TypeOK, OwnersAreMembers, Grows

-----------------------------------------------------------------------------
(* Creation and invitation.                                                *)

LEMMA CommitCreateStep ==
    ASSUME IInv, NEW r \in Requests, CommitCreate(r)
    PROVE  IInv'
<1> DEFINE o == target[r]
           u == whose[r]
<1>1. /\ o \in Orgs /\ org[o] = "absent"
      /\ u \in Users /\ account[u] = "absent"
  BY DEF IInv, Carried, Creating, CommitCreate
<1>2. PICK status \in {"Active", "Inactive"} : org' = [org EXCEPT ![o] = status]
  BY DEF CommitCreate
<1>3. /\ owner' = [owner EXCEPT ![o] = u]
      /\ profile' = profile \cup {o}
      /\ account' = [account EXCEPT ![u] = "Pending"]
      /\ member' = [member EXCEPT ![u] = o]
      /\ Ends(r)
  BY DEF CommitCreate
<1>4. TypeOK'
  BY <1>1, <1>2, <1>3 DEF CommitCreate, IInv, TypeOK, Ends, OrganizationStatus, UserStatus, Ops
<1>5. Grows
  BY <1>1, <1>2, <1>3 DEF IInv, TypeOK, Grows
<1>6. Carried'
  BY <1>3, <1>5, CarriedKept
<1>7. OwnersAreMembers'
  <2>1. \A p \in Orgs : owner'[p] # None =>
           /\ p \in profile'
           /\ account'[owner'[p]] # "absent"
           /\ member'[owner'[p]] = p
    BY <1>1, <1>3 DEF IInv, TypeOK, OwnersAreMembers
  <2>2. \A p \in profile' : org'[p] # "absent"
    BY <1>1, <1>2, <1>3 DEF IInv, TypeOK, OwnersAreMembers
  <2>3. \A w \in Users : member'[w] # None =>
           org'[member'[w]] # "absent" /\ account'[w] # "absent"
    BY <1>1, <1>2, <1>3 DEF IInv, TypeOK, OwnersAreMembers
  <2> QED
    BY <2>1, <2>2, <2>3 DEF OwnersAreMembers
<1> QED
  BY <1>4, <1>6, <1>7 DEF IInv

LEMMA CommitEmployeeStep ==
    ASSUME IInv, NEW r \in Requests, CommitEmployee(r)
    PROVE  IInv'
<1>1. /\ target[r] \in Orgs /\ org[target[r]] # "absent"
      /\ whose[r] \in Users /\ account[whose[r]] = "absent"
  BY DEF IInv, Carried, Creating, CommitEmployee
<1>2. /\ account' = [account EXCEPT ![whose[r]] = "Pending"]
      /\ member' = [member EXCEPT ![whose[r]] = target[r]]
      /\ UNCHANGED <<org, owner, profile, factor>>
      /\ Ends(r)
  BY DEF CommitEmployee
<1>3. TypeOK'
  BY <1>1, <1>2 DEF IInv, TypeOK, Ends, UserStatus, Ops
<1>4. Grows
  BY <1>1, <1>2 DEF IInv, TypeOK, Grows
<1>5. Carried'
  BY <1>2, <1>4, CarriedKept
<1>6. OwnersAreMembers'
  BY <1>1, <1>2 DEF IInv, TypeOK, OwnersAreMembers
<1> QED
  BY <1>3, <1>5, <1>6 DEF IInv

LEMMA InviteOrganizationStep ==
    ASSUME IInv, NEW r \in Requests, InviteOrganization(r)
    PROVE  IInv'
<1>1. target[r] \in Orgs /\ org[target[r]] = "absent"
  BY DEF IInv, Carried, Creating, OfInvitation, InviteOrganization
<1>2. /\ org' = [org EXCEPT ![target[r]] = "Active"]
      /\ UNCHANGED <<owner, profile, account, member, factor>>
      /\ Goes(r, "user")
  BY DEF InviteOrganization
<1>3. TypeOK'
  BY <1>1, <1>2 DEF IInv, TypeOK, Goes, OrganizationStatus, Ops, OfInvitation
<1>4. Grows /\ org'[target[r]] # "absent"
  BY <1>1, <1>2 DEF IInv, TypeOK, Grows
<1>5. Carried'
  BY <1>2, <1>4, CarriedOn DEF InviteOrganization, Started, OfInvitation
<1>6. OwnersAreMembers'
  BY <1>2, <1>4, OwnersKept
<1> QED
  BY <1>3, <1>5, <1>6 DEF IInv

\* The account is new: no organization is owned by it.
LEMMA InviteUserStep ==
    ASSUME IInv, NEW r \in Requests, InviteUser(r)
    PROVE  IInv'
<1>1. /\ target[r] \in Orgs /\ org[target[r]] # "absent"
      /\ whose[r] \in Users /\ account[whose[r]] = "absent"
  BY DEF IInv, Carried, Creating, Started, OfInvitation, InviteUser
<1>2. PICK next \in {"membership", "profile"} : Goes(r, next)
  BY DEF InviteUser
<1>3. /\ account' = [account EXCEPT ![whose[r]] = "Pending"]
      /\ UNCHANGED <<org, owner, profile, member, factor>>
  BY DEF InviteUser
<1>4. TypeOK'
  BY <1>1, <1>2, <1>3 DEF IInv, TypeOK, Goes, UserStatus, Ops, OfInvitation
<1>5. Grows /\ account'[whose[r]] # "absent"
  BY <1>1, <1>3 DEF IInv, TypeOK, Grows
<1>6. \A o \in Orgs : owner'[o] # whose[r]
  <2>1. None # whose[r]
    BY <1>1, NoneIsNothing
  <2> QED
    BY <1>1, <1>3, <2>1 DEF IInv, OwnersAreMembers
<1>7. Carried'
  BY <1>1, <1>2, <1>3, <1>5, <1>6, CarriedOn DEF InviteUser, Started, OfInvitation
<1>8. OwnersAreMembers'
  BY <1>3, <1>5, OwnersKept
<1> QED
  BY <1>4, <1>7, <1>8 DEF IInv

LEMMA InviteMemberStep ==
    ASSUME IInv, NEW r \in Requests, InviteMember(r)
    PROVE  IInv'
<1>1. /\ target[r] \in Orgs /\ org[target[r]] # "absent"
      /\ whose[r] \in Users /\ account[whose[r]] # "absent"
      /\ \A o \in Orgs : owner[o] # whose[r]
  BY DEF IInv, Carried, Creating, Started, OfInvitation, InviteMember
<1>2. /\ member' = [member EXCEPT ![whose[r]] = target[r]]
      /\ UNCHANGED <<org, owner, profile, account, factor>>
      /\ Goes(r, "profile")
  BY DEF InviteMember
<1>3. TypeOK'
  BY <1>1, <1>2 DEF IInv, TypeOK, Goes, Ops, OfInvitation
<1>4. Grows
  BY <1>2 DEF Grows
<1>5. Carried'
  BY <1>1, <1>2, <1>4, CarriedOn DEF InviteMember, Started, OfInvitation
<1>6. OwnersAreMembers'
  BY <1>1, <1>2 DEF IInv, TypeOK, OwnersAreMembers
<1> QED
  BY <1>3, <1>5, <1>6 DEF IInv

LEMMA InviteProfileStep ==
    ASSUME IInv, NEW r \in Requests, InviteProfile(r)
    PROVE  IInv'
<1>1. target[r] \in Orgs /\ org[target[r]] # "absent"
  BY DEF IInv, Carried, Creating, Started, OfInvitation, InviteProfile
<1>2. /\ profile' = profile \cup {target[r]}
      /\ UNCHANGED <<org, owner, account, member, factor>>
      /\ Ends(r)
  BY DEF InviteProfile
<1>3. TypeOK'
  BY <1>1, <1>2 DEF IInv, TypeOK, Ends, Ops
<1>4. Grows
  BY <1>2 DEF Grows
<1>5. Carried'
  BY <1>2, <1>4, CarriedKept
<1>6. OwnersAreMembers'
  BY <1>1, <1>2 DEF IInv, OwnersAreMembers
<1> QED
  BY <1>3, <1>5, <1>6 DEF IInv

-----------------------------------------------------------------------------
(* The status of an organization, of its members and of a user.            *)

LEMMA CommitSuspendStep ==
    ASSUME IInv, NEW r \in Requests, CommitSuspend(r)
    PROVE  IInv'
<1>1. target[r] \in Orgs
  BY DEF IInv, Carried, OfOrganization, CommitSuspend
<1>2. /\ org' = [org EXCEPT ![target[r]] = "Suspended"]
      /\ Mark(target[r], "Suspended")
      /\ UNCHANGED <<owner, profile, member, factor>>
      /\ Ends(r)
  BY DEF CommitSuspend
<1>3. Grows /\ account' \in [Users -> UserStatus \cup {"absent"}]
  BY <1>1, <1>2, MarkGrows DEF IInv, TypeOK, UserStatus
<1>4. TypeOK'
  BY <1>2, <1>3 DEF IInv, TypeOK, Ends, OrganizationStatus, Ops
<1>5. Carried' /\ OwnersAreMembers'
  BY <1>2, <1>3, CarriedKept, OwnersKept
<1> QED
  BY <1>4, <1>5 DEF IInv

LEMMA CommitActivateStep ==
    ASSUME IInv, NEW r \in Requests, CommitActivate(r)
    PROVE  IInv'
<1>1. target[r] \in Orgs
  BY DEF IInv, Carried, OfOrganization, CommitActivate
<1>2. /\ org' = [org EXCEPT ![target[r]] = "Active"]
      /\ Mark(target[r], "Deleted")
      /\ UNCHANGED <<owner, profile, member, factor>>
      /\ Ends(r)
  BY DEF CommitActivate
<1>3. Grows /\ account' \in [Users -> UserStatus \cup {"absent"}]
  BY <1>1, <1>2, MarkGrows DEF IInv, TypeOK, UserStatus
<1>4. TypeOK'
  BY <1>2, <1>3 DEF IInv, TypeOK, Ends, OrganizationStatus, Ops
<1>5. Carried' /\ OwnersAreMembers'
  BY <1>2, <1>3, CarriedKept, OwnersKept
<1> QED
  BY <1>4, <1>5 DEF IInv

LEMMA CommitDeleteStep ==
    ASSUME IInv, NEW r \in Requests, CommitDelete(r)
    PROVE  IInv'
<1>1. target[r] \in Orgs
  BY DEF IInv, Carried, OfOrganization, CommitDelete
<1>2. /\ org' = [org EXCEPT ![target[r]] = "Deleted"]
      /\ Mark(target[r], "Deleted")
      /\ UNCHANGED <<owner, profile, member, factor>>
      /\ Ends(r)
  BY DEF CommitDelete
<1>3. Grows /\ account' \in [Users -> UserStatus \cup {"absent"}]
  BY <1>1, <1>2, MarkGrows DEF IInv, TypeOK, UserStatus
<1>4. TypeOK'
  BY <1>2, <1>3 DEF IInv, TypeOK, Ends, OrganizationStatus, Ops
<1>5. Carried' /\ OwnersAreMembers'
  BY <1>2, <1>3, CarriedKept, OwnersKept
<1> QED
  BY <1>4, <1>5 DEF IInv

LEMMA CommitUserStep ==
    ASSUME IInv, NEW r \in Requests, CommitUser(r)
    PROVE  IInv'
<1>1. whose[r] \in Users
  BY DEF IInv, Carried, CommitUser
<1>2. PICK status \in {"Banned", "Suspended", "Active"} :
         account' = [account EXCEPT ![whose[r]] = status]
  BY DEF CommitUser
<1>3. UNCHANGED <<org, owner, profile, member>> /\ Ends(r)
  BY DEF CommitUser
<1>4. TypeOK'
  <2>1. factor' \in [Users -> Factors]
    BY DEF CommitUser, IInv, TypeOK, Factors
  <2> QED
    BY <1>2, <1>3, <2>1 DEF IInv, TypeOK, Ends, UserStatus, Ops
<1>5. Grows
  BY <1>2, <1>3 DEF IInv, TypeOK, Grows
<1>6. Carried' /\ OwnersAreMembers'
  BY <1>3, <1>5, CarriedKept, OwnersKept
<1> QED
  BY <1>4, <1>6 DEF IInv

LEMMA FactorStep ==
    ASSUME IInv, NEW u \in Users, SetUpFactor(u) \/ AcceptInvitation(u)
    PROVE  IInv' /\ UNCHANGED <<org, owner, profile, account, member, calls>>
<1>1. UNCHANGED <<org, owner, profile, account, member, calls>>
  BY DEF SetUpFactor, AcceptInvitation
<1>2. TypeOK'
  BY <1>1 DEF SetUpFactor, AcceptInvitation, Factors, calls, IInv, TypeOK
<1>3. Carried' /\ OwnersAreMembers'
  BY <1>1 DEF IInv, Carried, OwnersAreMembers, calls
<1> QED
  BY <1>1, <1>2, <1>3 DEF IInv

LEMMA FailStep ==
    ASSUME IInv, NEW r \in Requests, Fail(r)
    PROVE  IInv'
<1>1. UNCHANGED tables /\ Ends(r)
  BY DEF Fail
<1>2. TypeOK'
  BY <1>1 DEF IInv, TypeOK, Ends, tables, Ops
<1>3. Grows
  BY <1>1 DEF Grows, tables
<1>4. Carried' /\ OwnersAreMembers'
  BY <1>1, <1>3, CarriedKept, OwnersKept DEF tables
<1> QED
  BY <1>2, <1>4 DEF IInv

-----------------------------------------------------------------------------
LEMMA Inductive == IInv /\ [Next]_vars => IInv'
<1> SUFFICES ASSUME IInv, [Next]_vars PROVE IInv'
  OBVIOUS
<1>1. CASE UNCHANGED vars
  BY <1>1 DEF IInv, TypeOK, Carried, OwnersAreMembers, vars, tables, calls
<1>2. ASSUME NEW r \in Requests, Create(r)
      PROVE  IInv'
  <2>1. ASSUME NEW o \in Orgs, NEW u \in Users, ReadForCreate(r, o, u)
        PROVE  IInv'
    BY <2>1, ReadStep DEF ReadForCreate, OfOrganization, OfUser
  <2>2. ASSUME NEW o \in Orgs, NEW u \in Users, ReadForEmployee(r, o, u)
        PROVE  IInv'
    <3>1. org[o] # "absent"
      <4>1. PICK w \in Users : member[w] = o
        BY <2>2 DEF ReadForEmployee, Members
      <4> QED
        BY <4>1, NoneIsNothing DEF IInv, OwnersAreMembers
    <3> QED
      BY <2>2, <3>1, ReadStep DEF ReadForEmployee, OfOrganization, OfUser
  <2>3. ASSUME NEW o \in Orgs, NEW u \in Users, ReadForInvitation(r, o, u)
        PROVE  IInv'
    BY <2>3, ReadStep DEF ReadForInvitation, OfOrganization, OfUser
  <2>4. CASE CommitCreate(r)
    BY <2>4, CommitCreateStep
  <2>5. CASE CommitEmployee(r)
    BY <2>5, CommitEmployeeStep
  <2>6. CASE InviteOrganization(r)
    BY <2>6, InviteOrganizationStep
  <2>7. CASE InviteUser(r)
    BY <2>7, InviteUserStep
  <2>8. CASE InviteMember(r)
    BY <2>8, InviteMemberStep
  <2>9. CASE InviteProfile(r)
    BY <2>9, InviteProfileStep
  <2> QED
    BY <1>2, <2>1, <2>2, <2>3, <2>4, <2>5, <2>6, <2>7, <2>8, <2>9 DEF Create
<1>3. ASSUME NEW r \in Requests, Manage(r)
      PROVE  IInv'
  <2>1. ASSUME NEW o \in Orgs,
               ReadForSuspend(r, o) \/ ReadForActivate(r, o) \/ ReadForDelete(r, o)
        PROVE  IInv'
    <3>1. PICK kind \in OfOrganization : Reads(r, kind, o, None)
      BY <2>1 DEF ReadForSuspend, ReadForActivate, ReadForDelete, OfOrganization
    <3>2. kind \notin Creating \cup OfUser
      BY DEF Creating, OfInvitation, OfOrganization, OfUser
    <3> QED
      BY <3>1, <3>2, ReadStep DEF Creating
  <2>2. ASSUME NEW kind \in OfUser, NEW u \in Users, ReadForUser(r, kind, u)
        PROVE  IInv'
    <3>1. kind \notin Creating \cup OfOrganization
      BY DEF Creating, OfInvitation, OfOrganization, OfUser
    <3> QED
      BY <2>2, <3>1, ReadStep DEF ReadForUser, Creating
  <2>3. CASE CommitSuspend(r)
    BY <2>3, CommitSuspendStep
  <2>4. CASE CommitActivate(r)
    BY <2>4, CommitActivateStep
  <2>5. CASE CommitDelete(r)
    BY <2>5, CommitDeleteStep
  <2>6. CASE CommitUser(r)
    BY <2>6, CommitUserStep
  <2> QED
    BY <1>3, <2>1, <2>2, <2>3, <2>4, <2>5, <2>6 DEF Manage
<1> QED
  BY <1>1, <1>2, <1>3, FailStep, FactorStep DEF Next

LEMMA Invariant == Spec => []IInv
BY InitHolds, Inductive, PTL DEF Spec

\* Type correctness, for any requests, organizations and users.
THEOREM TypeCorrect == Spec => []TypeOK
<1>1. IInv => TypeOK
  BY DEF IInv
<1> QED
  BY <1>1, Invariant, PTL

\* An organization with an owner is whole, and no membership or profile
\* dangles, however creations and invitations cross and stop.
THEOREM OwnersBelong == Spec => []OwnersAreMembers
<1>1. IInv => OwnersAreMembers
  BY DEF IInv
<1> QED
  BY <1>1, Invariant, PTL

-----------------------------------------------------------------------------
(* What is final.                                                          *)

\* A step of r that takes no name, gives o no profile and begins no
\* invitation of o leaves a lost organization lost.
LEMMA StaysLost ==
    ASSUME IInv, NEW r \in Requests, NEW o \in Orgs, Lost(o),
           org'[o] # "absent",
           o \in profile' => o \in profile,
           \A q \in Requests \ {r} : op'[q] = op[q] /\ target'[q] = target[q],
           op'[r] \in Started => (op[r] \in Started /\ target'[r] = target[r])
    PROVE  Lost(o)'
<1>1. ASSUME NEW q \in Requests, op'[q] \in Started, target'[q] = o
      PROVE  FALSE
  <2>1. op[q] \in Started /\ target[q] = o
    BY <1>1
  <2> QED
    BY <2>1 DEF Lost, Inviting, Started
<1> QED
  BY <1>1 DEF Lost, Inviting, Started

LEMMA LostStep == IInv /\ [Next]_vars => LostStays
<1> SUFFICES ASSUME IInv, [Next]_vars, NEW o \in Orgs, Lost(o) PROVE Lost(o)'
  BY DEF LostStays
<1>1. org[o] # "absent" /\ o \notin profile
      /\ \A q \in Requests : op[q] \in Started => target[q] # o
  BY DEF Lost, Inviting, Started
<1>2. CASE UNCHANGED vars
  BY <1>2 DEF vars, tables, calls, Lost, Inviting
<1>3. ASSUME NEW r \in Requests, UNCHANGED tables,
             \/ Ends(r)
             \/ \E kind \in {"create", "employ", "invite"} \cup OfOrganization \cup OfUser :
                \E p, u : Reads(r, kind, p, u)
      PROVE  Lost(o)'
  <2>1. op'[r] \notin Started
    BY <1>3 DEF IInv, TypeOK, Ends, Reads, Started, OfInvitation, OfOrganization, OfUser
  <2>2. \A q \in Requests \ {r} : op'[q] = op[q] /\ target'[q] = target[q]
    BY <1>3, OthersKept DEF IInv
  <2> QED
    BY <1>1, <1>3, <2>1, <2>2, StaysLost DEF tables
<1>4. ASSUME NEW r \in Requests, Create(r)
      PROVE  Lost(o)'
  <2>1. ASSUME NEW p \in Orgs, NEW u \in Users,
               ReadForCreate(r, p, u) \/ ReadForEmployee(r, p, u) \/ ReadForInvitation(r, p, u)
        PROVE  Lost(o)'
    <3>1. UNCHANGED tables
      BY <2>1 DEF ReadForCreate, ReadForEmployee, ReadForInvitation, Reads
    <3>2. PICK kind \in {"create", "employ", "invite"} : Reads(r, kind, p, u)
      BY <2>1 DEF ReadForCreate, ReadForEmployee, ReadForInvitation
    <3> QED
      BY <1>3, <3>1, <3>2
  <2>2. CASE CommitCreate(r)
    <3>1. Ends(r) /\ profile' = profile \cup {target[r]} /\ org[target[r]] = "absent"
      BY <2>2 DEF CommitCreate
    <3>2. org'[o] = org[o]
      BY <1>1, <2>2 DEF CommitCreate, IInv, TypeOK
    <3>3. op'[r] \notin Started
      BY <3>1 DEF IInv, TypeOK, Ends, Started, OfInvitation
    <3> QED
      BY <1>1, <3>1, <3>2, <3>3, OthersKept, StaysLost DEF IInv
  <2>3. CASE CommitEmployee(r)
    <3>1. Ends(r) /\ UNCHANGED <<org, profile>>
      BY <2>3 DEF CommitEmployee
    <3>2. op'[r] \notin Started
      BY <3>1 DEF IInv, TypeOK, Ends, Started, OfInvitation
    <3> QED
      BY <1>1, <3>1, <3>2, OthersKept, StaysLost DEF IInv
  <2>4. CASE InviteOrganization(r)
    <3>1. target[r] # o /\ Goes(r, "user") /\ UNCHANGED profile
      BY <1>1, <2>4 DEF InviteOrganization
    <3>2. org'[o] = org[o]
      BY <2>4, <3>1 DEF InviteOrganization, IInv, TypeOK
    <3>3. \A q \in Requests : target'[q] = o /\ op'[q] \in Started => op[q] \in Started
      BY <3>1, OthersKept DEF IInv, Goes
    <3> QED
      BY <1>1, <3>1, <3>2, <3>3 DEF Lost, Inviting, Started, Goes
  <2>5. CASE InviteUser(r) \/ InviteMember(r)
    <3>1. /\ op[r] \in Started
          /\ \E next : Goes(r, next)
          /\ UNCHANGED <<org, profile, target>>
      BY <2>5 DEF InviteUser, InviteMember, Goes, Started, OfInvitation
    <3> QED
      BY <1>1, <3>1, OthersKept, StaysLost DEF IInv
  <2>6. CASE InviteProfile(r)
    <3>1. Ends(r) /\ UNCHANGED org /\ target[r] # o /\ profile' = profile \cup {target[r]}
      BY <1>1, <2>6 DEF InviteProfile, Started, OfInvitation
    <3>2. op'[r] \notin Started
      BY <3>1 DEF IInv, TypeOK, Ends, Started, OfInvitation
    <3> QED
      BY <1>1, <3>1, <3>2, OthersKept, StaysLost DEF IInv
  <2> QED
    BY <1>4, <2>1, <2>2, <2>3, <2>4, <2>5, <2>6 DEF Create
<1>5. ASSUME NEW r \in Requests, Manage(r)
      PROVE  Lost(o)'
  <2>1. ASSUME NEW p \in Orgs,
               ReadForSuspend(r, p) \/ ReadForActivate(r, p) \/ ReadForDelete(r, p)
        PROVE  Lost(o)'
    <3>1. PICK kind \in OfOrganization : Reads(r, kind, p, None)
      BY <2>1 DEF ReadForSuspend, ReadForActivate, ReadForDelete, OfOrganization
    <3> QED
      BY <1>3, <3>1 DEF Reads
  <2>2. ASSUME NEW kind \in OfUser, NEW u \in Users, ReadForUser(r, kind, u)
        PROVE  Lost(o)'
    <3>1. Reads(r, kind, None, u)
      BY <2>2 DEF ReadForUser
    <3> QED
      BY <1>3, <3>1 DEF Reads
  <2>3. CASE CommitSuspend(r) \/ CommitActivate(r) \/ CommitDelete(r) \/ CommitUser(r)
    <3>1. Ends(r) /\ UNCHANGED profile
      BY <2>3 DEF CommitSuspend, CommitActivate, CommitDelete, CommitUser
    <3>2. org'[o] # "absent"
      BY <1>1, <2>3 DEF CommitSuspend, CommitActivate, CommitDelete, CommitUser, IInv, TypeOK
    <3>3. op'[r] \notin Started
      BY <3>1 DEF IInv, TypeOK, Ends, Started, OfInvitation
    <3> QED
      BY <1>1, <3>1, <3>2, <3>3, OthersKept, StaysLost DEF IInv
  <2> QED
    BY <1>5, <2>1, <2>2, <2>3 DEF Manage
<1>6. ASSUME NEW r \in Requests, Fail(r)
      PROVE  Lost(o)'
  BY <1>3, <1>6 DEF Fail
<1>7. ASSUME NEW u \in Users, SetUpFactor(u) \/ AcceptInvitation(u)
      PROVE  Lost(o)'
  BY <1>7, FactorStep DEF Lost, Inviting, calls
<1> QED
  BY <1>2, <1>4, <1>5, <1>6, <1>7 DEF Next

\* Who is about to get a membership has none, and no other request is about
\* to give one.
OwnMembership ==
    \A r \in Requests : op[r] = "membership" =>
        /\ member[whose[r]] = None
        /\ \A q \in Requests \ {r} : op[q] = "membership" => whose[q] # whose[r]

LEMMA OwnMembershipInit == Init => OwnMembership
BY DEF Init, OwnMembership

\* A request that gets a membership, or gives it, has the user for itself.
LEMMA OwnMembershipKept ==
    ASSUME IInv, OwnMembership, NEW r \in Requests,
           \/ \E kind, o, u : Reads(r, kind, o, u)
           \/ Ends(r)
           \/ \E next : Goes(r, next),
           \/ member' = member /\ op'[r] # "membership"
           \/ /\ member' = member /\ whose'[r] = whose[r]
              /\ member[whose[r]] = None
              /\ \A q \in Requests \ {r} : op[q] = "membership" => whose[q] # whose[r]
           \/ /\ op'[r] # "membership"
              /\ \A q \in Requests \ {r} : op[q] = "membership" =>
                    member'[whose[q]] = member[whose[q]]
    PROVE  OwnMembership'
<1>1. \A q \in Requests \ {r} :
          op'[q] = op[q] /\ target'[q] = target[q] /\ whose'[q] = whose[q]
  BY OthersKept DEF IInv
<1> QED
  BY <1>1 DEF OwnMembership

LEMMA OwnMembershipStep == IInv /\ OwnMembership /\ [Next]_vars => OwnMembership'
<1> SUFFICES ASSUME IInv, OwnMembership, [Next]_vars PROVE OwnMembership'
  OBVIOUS
<1>1. \A q \in Requests : op[q] = "membership" =>
          whose[q] \in Users /\ account[whose[q]] # "absent"
  BY DEF IInv, Carried, Creating, OfInvitation
<1>2. ASSUME NEW r \in Requests, member' = member, op'[r] # "membership",
             \/ \E kind, o, u : Reads(r, kind, o, u)
             \/ Ends(r)
             \/ \E next : Goes(r, next)
      PROVE  OwnMembership'
  BY <1>2, OwnMembershipKept
<1>3. ASSUME NEW r \in Requests, Ends(r)
      PROVE  op'[r] # "membership"
  BY <1>3 DEF IInv, TypeOK, Ends
<1>4. ASSUME NEW r \in Requests, NEW kind, NEW o, NEW u, Reads(r, kind, o, u)
      PROVE  op'[r] = kind /\ member' = member
  BY <1>4 DEF IInv, TypeOK, Reads, tables
<1>5. ASSUME NEW r \in Requests, NEW next, Goes(r, next)
      PROVE  op'[r] = next /\ whose' = whose
  BY <1>5 DEF IInv, TypeOK, Goes
<1>6. ASSUME NEW r \in Requests, Create(r)
      PROVE  OwnMembership'
  <2>1. ASSUME NEW o \in Orgs, NEW u \in Users,
               ReadForCreate(r, o, u) \/ ReadForEmployee(r, o, u) \/ ReadForInvitation(r, o, u)
        PROVE  OwnMembership'
    BY <1>2, <1>4, <2>1 DEF ReadForCreate, ReadForEmployee, ReadForInvitation
  <2>2. CASE CommitCreate(r) \/ CommitEmployee(r)
    <3>1. /\ Ends(r) /\ account[whose[r]] = "absent"
          /\ \E o : member' = [member EXCEPT ![whose[r]] = o]
      BY <2>2 DEF CommitCreate, CommitEmployee
    <3>2. \A q \in Requests : op[q] = "membership" =>
              member'[whose[q]] = member[whose[q]]
      BY <1>1, <3>1 DEF IInv, TypeOK
    <3> QED
      BY <1>3, <3>1, <3>2, OwnMembershipKept
  <2>3. CASE InviteOrganization(r)
    BY <1>2, <1>5, <2>3 DEF InviteOrganization
  <2>4. CASE InviteUser(r)
    <3>1. /\ account[whose[r]] = "absent" /\ member' = member
          /\ \E next : Goes(r, next)
      BY <2>4 DEF InviteUser
    <3>2. whose[r] \in Users
      BY <2>4 DEF InviteUser, IInv, Carried, Creating, OfInvitation
    <3>3. member[whose[r]] = None
      BY <3>1, <3>2 DEF IInv, TypeOK, OwnersAreMembers
    <3>4. \A q \in Requests \ {r} : op[q] = "membership" => whose[q] # whose[r]
      BY <1>1, <3>1
    <3> QED
      BY <1>5, <3>1, <3>3, <3>4, OwnMembershipKept
  <2>5. CASE InviteMember(r)
    <3>1. /\ op[r] = "membership" /\ Goes(r, "profile")
          /\ member' = [member EXCEPT ![whose[r]] = target[r]]
      BY <2>5 DEF InviteMember
    <3>2. \A q \in Requests \ {r} : op[q] = "membership" =>
              member'[whose[q]] = member[whose[q]]
      BY <1>1, <3>1 DEF OwnMembership, IInv, TypeOK
    <3> QED
      BY <1>5, <3>1, <3>2, OwnMembershipKept
  <2>6. CASE InviteProfile(r)
    BY <1>2, <1>3, <2>6 DEF InviteProfile
  <2> QED
    BY <1>6, <2>1, <2>2, <2>3, <2>4, <2>5, <2>6 DEF Create
<1>7. ASSUME NEW r \in Requests, Manage(r)
      PROVE  OwnMembership'
  <2>1. ASSUME NEW o \in Orgs,
               ReadForSuspend(r, o) \/ ReadForActivate(r, o) \/ ReadForDelete(r, o)
        PROVE  OwnMembership'
    BY <1>2, <1>4, <2>1 DEF ReadForSuspend, ReadForActivate, ReadForDelete
  <2>2. ASSUME NEW kind \in OfUser, NEW u \in Users, ReadForUser(r, kind, u)
        PROVE  OwnMembership'
    <3>1. Reads(r, kind, None, u) /\ kind # "membership"
      BY <2>2 DEF ReadForUser, OfUser
    <3> QED
      BY <1>2, <1>4, <3>1
  <2>3. CASE CommitSuspend(r) \/ CommitActivate(r) \/ CommitDelete(r) \/ CommitUser(r)
    <3>1. Ends(r) /\ member' = member
      BY <2>3 DEF CommitSuspend, CommitActivate, CommitDelete, CommitUser
    <3> QED
      BY <1>2, <1>3, <3>1
  <2> QED
    BY <1>7, <2>1, <2>2, <2>3 DEF Manage
<1>8. ASSUME NEW r \in Requests, Fail(r)
      PROVE  OwnMembership'
  BY <1>2, <1>3, <1>8 DEF Fail, tables
<1>9. CASE \/ UNCHANGED vars
           \/ \E u \in Users : SetUpFactor(u) \/ AcceptInvitation(u)
  <2>1. UNCHANGED <<op, whose, member>>
    BY <1>9 DEF vars, tables, calls, SetUpFactor, AcceptInvitation
  <2> QED
    BY <2>1 DEF OwnMembership
<1> QED
  BY <1>6, <1>7, <1>8, <1>9 DEF Next

\* A request that takes no part in the organization or the user leaves them.
LEMMA GoneKept ==
    ASSUME IInv, NEW o \in Orgs, NEW u \in Users, Gone(o, u), NEW r \in Requests,
           \/ \E kind, p, w : Reads(r, kind, p, w)
           \/ Ends(r)
           \/ \E next : Goes(r, next),
           op'[r] \in OfOrganization => target'[r] # o,
           op'[r] \in OfUser => whose'[r] # u,
           org'[o] = org[o], account'[u] = account[u],
           member'[u] = member[u], factor'[u] = factor[u]
    PROVE  Gone(o, u)'
<1>1. \A q \in Requests \ {r} :
          op'[q] = op[q] /\ target'[q] = target[q] /\ whose'[q] = whose[q]
  BY OthersKept DEF IInv
<1> QED
  BY <1>1 DEF Gone, InFlight

LEMMA DeletedStep == IInv /\ OwnMembership /\ [Next]_vars => DeletedStays
<1> SUFFICES ASSUME IInv, OwnMembership, [Next]_vars, NEW o \in Orgs, NEW u \in Users,
                    Gone(o, u)
             PROVE  Gone(o, u)'
  BY DEF DeletedStays
<1>1. /\ org[o] = "Deleted" /\ account[u] = "Deleted"
      /\ member[u] = o /\ o # None /\ factor[u] # "set"
      /\ \A q \in Requests : op[q] \in OfOrganization => target[q] # o
      /\ \A q \in Requests : op[q] \in OfUser => whose[q] # u
  BY NoneIsNothing DEF Gone, InFlight
<1>2. ASSUME NEW r \in Requests, Ends(r)
      PROVE  op'[r] = "idle" /\ op'[r] \notin OfOrganization \cup OfUser
  BY <1>2 DEF IInv, TypeOK, Ends, OfOrganization, OfUser
<1>3. ASSUME NEW r \in Requests, NEW next, Goes(r, next)
      PROVE  op'[r] = next
  BY <1>3 DEF IInv, TypeOK, Goes
<1>4. ASSUME NEW r \in Requests, NEW kind, NEW p, NEW w, Reads(r, kind, p, w)
      PROVE  /\ op'[r] = kind /\ target'[r] = p /\ whose'[r] = w
             /\ UNCHANGED <<org, account, member, factor>>
  BY <1>4 DEF IInv, TypeOK, Reads, tables
<1>5. ASSUME NEW r \in Requests, Create(r)
      PROVE  Gone(o, u)'
  <2>1. ASSUME NEW p \in Orgs, NEW w \in Users,
               ReadForCreate(r, p, w) \/ ReadForEmployee(r, p, w) \/ ReadForInvitation(r, p, w)
        PROVE  Gone(o, u)'
    <3>1. PICK kind \in {"create", "employ", "invite"} : Reads(r, kind, p, w)
      BY <2>1 DEF ReadForCreate, ReadForEmployee, ReadForInvitation
    <3>2. kind \notin OfOrganization \cup OfUser
      BY <3>1 DEF OfOrganization, OfUser
    <3> QED
      BY <1>4, <3>1, <3>2, GoneKept
  <2>2. CASE CommitCreate(r) \/ CommitEmployee(r)
    <3>1. /\ Ends(r) /\ account[whose[r]] = "absent" /\ factor' = factor
          /\ account' = [account EXCEPT ![whose[r]] = "Pending"]
          /\ member' = [member EXCEPT ![whose[r]] = target[r]]
          /\ \/ org' = org
             \/ /\ org[target[r]] = "absent"
                /\ \E status : org' = [org EXCEPT ![target[r]] = status]
      BY <2>2 DEF CommitCreate, CommitEmployee
    <3>2. whose[r] # u /\ org'[o] = org[o]
      BY <1>1, <3>1 DEF IInv, TypeOK
    <3>3. account'[u] = account[u] /\ member'[u] = member[u]
      BY <3>1, <3>2 DEF IInv, TypeOK
    <3> QED
      BY <1>2, <3>1, <3>2, <3>3, GoneKept
  <2>3. CASE InviteOrganization(r)
    <3>1. /\ Goes(r, "user") /\ org'[o] = org[o]
          /\ UNCHANGED <<account, member, factor>>
      BY <1>1, <2>3 DEF InviteOrganization, IInv, TypeOK
    <3> QED
      BY <1>3, <3>1, GoneKept DEF OfOrganization, OfUser
  <2>4. CASE InviteUser(r)
    <3>1. PICK next \in {"membership", "profile"} : Goes(r, next)
      BY <2>4 DEF InviteUser
    <3>2. account'[u] = account[u] /\ UNCHANGED <<org, member, factor>>
      BY <1>1, <2>4 DEF InviteUser, IInv, TypeOK
    <3> QED
      BY <1>3, <3>1, <3>2, GoneKept DEF OfOrganization, OfUser
  <2>5. CASE InviteMember(r)
    <3>1. /\ Goes(r, "profile") /\ UNCHANGED <<org, account, factor>>
          /\ member' = [member EXCEPT ![whose[r]] = target[r]]
          /\ member[whose[r]] = None
      BY <2>5 DEF InviteMember, OwnMembership
    <3>2. member'[u] = member[u]
      BY <1>1, <3>1 DEF IInv, TypeOK
    <3> QED
      BY <1>3, <3>1, <3>2, GoneKept DEF OfOrganization, OfUser
  <2>6. CASE InviteProfile(r)
    <3>1. Ends(r) /\ UNCHANGED <<org, account, member, factor>>
      BY <2>6 DEF InviteProfile
    <3> QED
      BY <1>2, <3>1, GoneKept
  <2> QED
    BY <1>5, <2>1, <2>2, <2>3, <2>4, <2>5, <2>6 DEF Create
<1>6. ASSUME NEW r \in Requests, Manage(r)
      PROVE  Gone(o, u)'
  <2>1. ASSUME NEW p \in Orgs,
               ReadForSuspend(r, p) \/ ReadForActivate(r, p) \/ ReadForDelete(r, p)
        PROVE  Gone(o, u)'
    <3>1. PICK kind \in OfOrganization : Reads(r, kind, p, None)
      BY <2>1 DEF ReadForSuspend, ReadForActivate, ReadForDelete, OfOrganization
    <3>2. p # o
      BY <1>1, <2>1 DEF ReadForSuspend, ReadForActivate, ReadForDelete
    <3>3. kind \notin OfUser
      BY <3>1 DEF OfOrganization, OfUser
    <3> QED
      BY <1>4, <3>1, <3>2, <3>3, GoneKept
  <2>2. ASSUME NEW kind \in OfUser, NEW w \in Users, ReadForUser(r, kind, w)
        PROVE  Gone(o, u)'
    <3>1. Reads(r, kind, None, w) /\ w # u /\ kind \notin OfOrganization
      BY <1>1, <2>2 DEF ReadForUser, OfUser, OfOrganization
    <3> QED
      BY <1>4, <3>1, GoneKept
  <2>3. CASE CommitSuspend(r) \/ CommitActivate(r) \/ CommitDelete(r)
    <3>1. /\ Ends(r) /\ target[r] # o /\ UNCHANGED <<member, factor>>
          /\ \E status : Mark(target[r], status)
          /\ \E status : org' = [org EXCEPT ![target[r]] = status]
      BY <1>1, <2>3 DEF CommitSuspend, CommitActivate, CommitDelete, OfOrganization
    <3>2. account'[u] = account[u]
      BY <1>1, <3>1 DEF IInv, TypeOK, Mark, Members
    <3>3. org'[o] = org[o]
      BY <3>1 DEF IInv, TypeOK
    <3> QED
      BY <1>2, <3>1, <3>2, <3>3, GoneKept
  <2>4. CASE CommitUser(r)
    <3>1. /\ Ends(r) /\ whose[r] # u /\ UNCHANGED <<org, member>>
          /\ \E status : account' = [account EXCEPT ![whose[r]] = status]
          /\ \/ factor' = factor
             \/ factor' = [factor EXCEPT ![whose[r]] = "verified"]
      BY <1>1, <2>4 DEF CommitUser
    <3>2. account'[u] = account[u] /\ factor'[u] = factor[u]
      BY <3>1 DEF IInv, TypeOK
    <3> QED
      BY <1>2, <3>1, <3>2, GoneKept
  <2> QED
    BY <1>6, <2>1, <2>2, <2>3, <2>4 DEF Manage
<1>7. ASSUME NEW r \in Requests, Fail(r)
      PROVE  Gone(o, u)'
  <2>1. Ends(r) /\ UNCHANGED <<org, account, member, factor>>
    BY <1>7 DEF Fail, tables
  <2> QED
    BY <1>2, <2>1, GoneKept
<1>8. ASSUME NEW w \in Users, SetUpFactor(w) \/ AcceptInvitation(w)
      PROVE  Gone(o, u)'
  <2>1. UNCHANGED <<org, account, member, op, target, whose>>
    BY <1>8 DEF SetUpFactor, AcceptInvitation, calls
  <2>2. factor'[u] # "set"
    BY <1>1, <1>8 DEF SetUpFactor, AcceptInvitation, IInv, TypeOK
  <2> QED
    BY <2>1, <2>2 DEF Gone, InFlight
<1>9. CASE UNCHANGED vars
  BY <1>9 DEF vars, tables, calls, Gone, InFlight
<1> QED
  BY <1>5, <1>6, <1>7, <1>8, <1>9 DEF Next

\* The name of an organization whose invitation stopped is lost for good.
THEOREM LostNameStays == Spec => LostInvitationIsFinal
BY Invariant, LostStep, PTL DEF Spec, LostInvitationIsFinal

\* What was deleted comes back only by a request that read it before, or by
\* a second factor of a user whose e-mail was never verified: once none of
\* these is left, none ever begins.
THEOREM DeletionStays == Spec => DeletedIsFinal
<1>1. Spec => []OwnMembership
  BY Invariant, OwnMembershipInit, OwnMembershipStep, PTL DEF Spec
<1> QED
  BY <1>1, Invariant, DeletedStep, PTL DEF Spec, DeletedIsFinal

-----------------------------------------------------------------------------
(* The account.                                                            *)

\* Sets that differ in one element at most.
LEMMA CountMoves ==
    ASSUME NEW A, IsFiniteSet(A), NEW S \in SUBSET A, NEW T \in SUBSET A, NEW x \in A,
           S \ {x} = T \ {x}
    PROVE  /\ Cardinality(S) \in Nat /\ Cardinality(T) \in Nat
           /\ Cardinality(T) = Cardinality(S) - (IF x \in S THEN 1 ELSE 0)
                                              + (IF x \in T THEN 1 ELSE 0)
<1> DEFINE U == S \ {x}
<1>1. U \in SUBSET A /\ IsFiniteSet(U) /\ Cardinality(U) \in Nat
  BY FS_Subset, FS_CardinalityType
<1>2. IsFiniteSet(U \cup {x}) /\ Cardinality(U \cup {x}) = Cardinality(U) + 1
  BY <1>1, FS_AddElement
<1>3. /\ x \in S => S = U \cup {x}
      /\ x \notin S => S = U
      /\ x \in T => T = U \cup {x}
      /\ x \notin T => T = U
  OBVIOUS
<1>4. /\ x \in S => Cardinality(S) = Cardinality(U) + 1
      /\ x \notin S => Cardinality(S) = Cardinality(U)
      /\ x \in T => Cardinality(T) = Cardinality(U) + 1
      /\ x \notin T => Cardinality(T) = Cardinality(U)
  BY <1>2, <1>3, Zenon
<1> HIDE DEF U
<1> QED
  BY <1>1, <1>4

\* The requests in flight, as a number.
Crossing == Cardinality(Requests)

\* What the bound allows for the locks that were lost.
Missed == Crossing * lost

LEMMA SameCardinality == \A S : Account!Cardinality(S) = Cardinality(S)
BY DEF Account!Cardinality, Cardinality

LEMMA SameFinite == \A S : Account!IsFiniteSet(S) = IsFiniteSet(S)
BY DEF Account!IsFiniteSet, IsFiniteSet

LEMMA FiniteRequests == IsFiniteSet(Requests) /\ Crossing \in Nat \ {0}
<1>1. Account!IsFiniteSet(Requests) /\ Requests # {}
  BY AccountAssumptions DEF Account!RequestsAssumption
<1>2. IsFiniteSet(Requests)
  BY <1>1, SameFinite
<1> QED
  BY <1>1, <1>2, FS_CardinalityType, FS_EmptySet DEF Crossing

\* Sets of requests, and two of them that are disjoint or included.
LEMMA RequestSets ==
    \A S \in SUBSET Requests :
        /\ IsFiniteSet(S) /\ Cardinality(S) \in Nat
        /\ Cardinality(S) <= Crossing
        /\ \A T \in SUBSET Requests :
              /\ S \subseteq T => Cardinality(S) <= Cardinality(T)
              /\ S \cap T = {} => Cardinality(S) + Cardinality(T) <= Crossing
<1> SUFFICES ASSUME NEW S \in SUBSET Requests
             PROVE  /\ IsFiniteSet(S) /\ Cardinality(S) \in Nat
                    /\ Cardinality(S) <= Crossing
                    /\ \A T \in SUBSET Requests :
                          /\ S \subseteq T => Cardinality(S) <= Cardinality(T)
                          /\ S \cap T = {} => Cardinality(S) + Cardinality(T) <= Crossing
  OBVIOUS
<1>1. IsFiniteSet(Requests)
  BY FiniteRequests
<1>2. IsFiniteSet(S) /\ Cardinality(S) \in Nat /\ Cardinality(S) <= Crossing
  BY <1>1, FS_Subset, FS_CardinalityType DEF Crossing
<1>3. ASSUME NEW T \in SUBSET Requests, S \subseteq T
      PROVE  Cardinality(S) <= Cardinality(T)
  BY <1>1, <1>3, FS_Subset
<1>4. ASSUME NEW T \in SUBSET Requests, S \cap T = {}
      PROVE  Cardinality(S) + Cardinality(T) <= Crossing
  <2>1. IsFiniteSet(T) /\ Cardinality(T) \in Nat
    BY <1>1, FS_Subset, FS_CardinalityType
  <2>2. Cardinality(S \cup T) = Cardinality(S) + Cardinality(T) - Cardinality(S \cap T)
    BY <1>2, <2>1, FS_Union
  <2>3. Cardinality(S \cap T) = 0
    BY <1>4, FS_EmptySet
  <2>4. Cardinality(S \cup T) <= Crossing
    BY <1>1, FS_Subset DEF Crossing
  <2> QED
    BY <1>2, <2>1, <2>2, <2>3, <2>4
<1> QED
  BY <1>2, <1>3, <1>4

\* Failed logins under way: all of them, those that will not set the lock,
\* and those about to set it.
Failing == {r \in Requests : at[r] \in {"count", "fail"}}
Small   == {r \in Requests : at[r] = "fail" /\ counted[r] <= Threshold}
Locking == {r \in Requests : at[r] = "lock"}

\* Every attempt that was not counted against the threshold is of a request
\* that counted before it: once the threshold is passed, each inserts one
\* and then sets the lock, or loses it.
LockCount ==
    /\ ~locked => failures + Cardinality(Small)
                     <= Threshold + Crossing - 1 + Missed + Cardinality(Locking)
    /\ locked  => failures + Cardinality(Failing)
                     <= Threshold + Crossing - 1 + Missed + Crossing

\* A request about to write the keys of a token.
Writing(r) == at[r] \in {"identify", "token"}

\* It has made the token, which nobody else is about to write and which never
\* was the token of the user; an attempt counts itself.
AtTheKeys ==
    /\ resetToken \in made \cup {None}
    /\ \A r \in Requests :
          /\ Writing(r) => token[r] \in made \ (retired \cup {resetToken})
          /\ at[r] = "fail" => counted[r] >= 1
    /\ \A q, r \in Requests :
          Writing(q) /\ Writing(r) /\ token[q] = token[r] => q = r

AccountInv ==
    Account!TypeOK /\ AtTheKeys /\ Account!NoTokenComesBack /\ LockCount

LEMMA Constants == Threshold \in Nat /\ MaxFailures \in Nat /\ MaxLost \in Nat
BY AccountAssumptions DEF Account!BoundsAssumption

LEMMA MissedIs ==
    ASSUME Account!TypeOK
    PROVE  /\ Missed \in Nat
           /\ lost' = lost => Missed' = Missed
           /\ lost' = lost + 1 => Missed' = Missed + Crossing
<1>1. lost \in Nat /\ Crossing \in Nat
  BY Constants, FiniteRequests DEF Account!TypeOK
<1>2. Crossing * lost \in Nat /\ Crossing * (lost + 1) = Crossing * lost + Crossing
  BY <1>1
<1>3. Missed' = Crossing * lost'
  BY DEF Missed, Crossing
<1> QED
  BY <1>2, <1>3 DEF Missed

\* The counts of a state, and how they compare.
LEMMA Counts ==
    /\ Cardinality(Small) \in Nat /\ Cardinality(Failing) \in Nat
    /\ Cardinality(Locking) \in Nat
    /\ Cardinality(Small) <= Cardinality(Failing)
    /\ Cardinality(Failing) + Cardinality(Locking) <= Crossing
<1>1. /\ Small \in SUBSET Requests /\ Failing \in SUBSET Requests
      /\ Locking \in SUBSET Requests
      /\ Small \subseteq Failing /\ Failing \cap Locking = {}
  BY DEF Small, Failing, Locking
<1> QED
  BY <1>1, RequestSets

LEMMA AccountInit == Account!Init => AccountInv
<1> SUFFICES ASSUME Account!Init PROVE AccountInv
  OBVIOUS
<1> USE DEF Account!Init
<1>1. Account!TypeOK
  <2>1. {locked, stranger, registered, forced} \subseteq BOOLEAN
    OBVIOUS
  <2> QED
    BY <2>1, Constants DEF Account!TypeOK, Account!Ops, Account!Kinds
<1>2. AtTheKeys /\ Account!NoTokenComesBack
  <2>1. \A r \in Requests : at[r] = "idle"
    OBVIOUS
  <2>2. resetToken = Account!None /\ retired = {}
    OBVIOUS
  <2> QED
    BY <2>1, <2>2 DEF AtTheKeys, Writing, Account!NoTokenComesBack, None, Account!None
<1>3. Small = {} /\ Failing = {}
  BY DEF Small, Failing
<1>4. Cardinality(Small) = 0 /\ Cardinality(Failing) = 0
  BY <1>3, FS_EmptySet, Zenon
<1>5. LockCount
  BY <1>1, <1>4, Counts, MissedIs, Constants, FiniteRequests DEF LockCount
<1> QED
  BY <1>1, <1>2, <1>5 DEF AccountInv

\* The key of the user is written: what it held is retired.
LEMMA RetiredStep ==
    ASSUME AccountInv, NEW r \in Requests, Account!SetToken(r) \/ Account!ClearToken(r)
    PROVE  /\ resetToken' \in made \cup {Account!None}
           /\ resetToken' \in Tokens \cup {Account!None}
           /\ resetToken' \in {resetToken, token[r], Account!None}
           /\ resetToken' = token[r] => Account!SetToken(r) \/ token[r] = Account!None
           /\ retired' \subseteq retired \cup {resetToken}
           /\ retired' \subseteq made /\ made' = made
           /\ resetToken' \notin retired'
<1>1. /\ resetToken \in made \cup {Account!None} /\ made \subseteq Tokens
      /\ retired \subseteq made /\ resetToken \notin retired
      /\ Account!None \notin Tokens
  BY AccountAssumptions
     DEF AccountInv, AtTheKeys, Account!TypeOK, Account!NoTokenComesBack,
         Account!NoneAssumption, None, Account!None
<1>2. /\ made' = made
      /\ retired' = IF resetToken' = resetToken THEN retired
                    ELSE retired \cup ({resetToken} \ {Account!None})
  BY DEF Account!SetToken, Account!ClearToken, Account!Retire
<1>3. CASE Account!SetToken(r)
  <2>1. token[r] \in made \ (retired \cup {resetToken})
    BY <1>3 DEF AccountInv, AtTheKeys, Writing, Account!SetToken
  <2>2. resetToken' \in {resetToken, token[r]}
    BY <1>3 DEF Account!SetToken
  <2> QED
    BY <1>1, <1>2, <1>3, <2>1, <2>2
<1>4. CASE Account!ClearToken(r)
  <2>1. resetToken' = Account!None
    BY <1>4 DEF Account!ClearToken
  <2> QED
    BY <1>1, <1>2, <2>1
<1> QED
  BY <1>3, <1>4

\* Nobody else writes the token that is made.
LEMMA NewToken ==
    ASSUME AccountInv, NEW r \in Requests, NEW t \in Tokens \ made,
           at' = [at EXCEPT ![r] = "identify"], token' = [token EXCEPT ![r] = t],
           made' = made \cup {t}, UNCHANGED <<resetToken, retired>>,
           counted' = counted
    PROVE  AtTheKeys' /\ Account!NoTokenComesBack'
<1>1. /\ \A q \in Requests \ {r} : at'[q] = at[q] /\ token'[q] = token[q]
      /\ at'[r] = "identify" /\ token'[r] = t
  BY DEF AccountInv, Account!TypeOK
<1>2. \A q \in Requests : Writing(q) => token[q] # t
  BY DEF AccountInv, AtTheKeys
<1>3. t \notin retired \cup {resetToken}
  BY AccountAssumptions
     DEF AccountInv, AtTheKeys, Account!TypeOK, Account!NoneAssumption, None, Account!None
<1>4. \A q \in Requests :
         Writing(q)' => token'[q] \in made' \ (retired' \cup {resetToken'})
  BY <1>1, <1>3 DEF AccountInv, AtTheKeys, Writing
<1>5. \A q, p \in Requests :
         Writing(q)' /\ Writing(p)' /\ token'[q] = token'[p] => q = p
  BY <1>1, <1>2 DEF AccountInv, AtTheKeys, Writing
<1>6. \A q \in Requests : at'[q] = "fail" => counted'[q] >= 1
  BY <1>1 DEF AccountInv, AtTheKeys
<1>7. resetToken' \in made' \cup {None}
  BY DEF AccountInv, AtTheKeys
<1> QED
  BY <1>4, <1>5, <1>6, <1>7 DEF AtTheKeys, AccountInv, Account!NoTokenComesBack

\* The key is written by a request that goes on to write no token.
LEMMA KeyWritten ==
    ASSUME AccountInv, NEW r \in Requests, Account!SetToken(r) \/ Account!ClearToken(r)
    PROVE  AtTheKeys' /\ Account!NoTokenComesBack'
<1>1. /\ \A q \in Requests \ {r} :
            at'[q] = at[q] /\ token'[q] = token[q] /\ counted'[q] = counted[q]
      /\ at'[r] \in {"idle", "spend"}
  BY DEF AccountInv, Account!TypeOK, Account!SetToken, Account!ClearToken,
         Account!Ends, Account!To
<1>2. ASSUME NEW q \in Requests, Writing(q)'
      PROVE  q # r /\ Writing(q) /\ token'[q] = token[q]
  BY <1>1, <1>2 DEF Writing
<1>3. ASSUME NEW q \in Requests, Writing(q)'
      PROVE  token'[q] \in made' \ (retired' \cup {resetToken'})
  <2>1. /\ token[q] \in made \ (retired \cup {resetToken})
        /\ token[q] # Account!None
    BY <1>2, <1>3, AccountAssumptions
       DEF AccountInv, AtTheKeys, Account!TypeOK, Account!NoneAssumption
  <2>2. Account!SetToken(r) => token[q] # token[r]
    BY <1>2, <1>3 DEF AccountInv, AtTheKeys, Account!SetToken, Writing
  <2> QED
    BY <1>2, <1>3, <2>1, <2>2, RetiredStep
<1>4. \A q, p \in Requests :
         Writing(q)' /\ Writing(p)' /\ token'[q] = token'[p] => q = p
  BY <1>2 DEF AccountInv, AtTheKeys
<1>5. \A q \in Requests : at'[q] = "fail" => counted'[q] >= 1
  BY <1>1 DEF AccountInv, AtTheKeys
<1> QED
  BY <1>3, <1>4, <1>5, RetiredStep
     DEF AtTheKeys, Account!NoTokenComesBack, None, Account!None

\* Types.
LEMMA LoginTypes ==
    ASSUME AccountInv, NEW r \in Requests, Account!Login(r)
    PROVE  Account!TypeOK'
<1> USE Constants DEF AccountInv, Account!TypeOK, Account!Ops, Account!To, Account!Starts,
        Account!Ends, Account!keys, Account!user, Account!login
<1>1. CASE Account!StartLogin(r)
  BY <1>1 DEF Account!StartLogin
<1>2. CASE Account!CountFailures(r)
  BY <1>2 DEF Account!CountFailures
<1>3. CASE Account!InsertFailure(r)
  BY <1>3 DEF Account!InsertFailure
<1>4. CASE Account!SetLock(r)
  BY <1>4 DEF Account!SetLock
<1>5. CASE Account!LoseLock(r)
  BY <1>5 DEF Account!LoseLock
<1>6. CASE \E t \in Tokens : Account!PassForced(r, t)
  BY <1>6 DEF Account!PassForced
<1>7. CASE Account!Pass(r)
  BY <1>7 DEF Account!Pass
<1>8. CASE Account!DeleteLock(r)
  <2>1. (lost < MaxLost /\ lost' = lost + 1) \/ lost' = lost
    BY <1>8, Zenon DEF Account!DeleteLock
  <2>2. lost' \in 0 .. MaxLost
    BY <2>1
  <2>3. locked' = FALSE /\ UNCHANGED <<stranger, registered, forced>>
    BY <1>8 DEF Account!DeleteLock
  <2>4. {locked, stranger, registered, forced}' \subseteq BOOLEAN
    BY <2>3
  <2> QED
    BY <1>8, <2>2, <2>4 DEF Account!DeleteLock
<1> QED
  BY <1>1, <1>2, <1>3, <1>4, <1>5, <1>6, <1>7, <1>8 DEF Account!Login

LEMMA TokenTypes ==
    ASSUME AccountInv, NEW r \in Requests, Account!Verify(r) \/ Account!Redeem(r)
    PROVE  Account!TypeOK'
<1> USE Constants DEF AccountInv, Account!TypeOK, Account!Ops, Account!Kinds, Account!To,
        Account!Starts, Account!Ends, Account!keys, Account!user, Account!login
<1>1. CASE \E c \in Codes, t \in Tokens : Account!VerifyEmail(r, c, t)
  BY <1>1 DEF Account!VerifyEmail
<1>2. CASE \E c \in Codes, t \in Tokens : Account!VerifyReset(r, c, t)
  BY <1>2 DEF Account!VerifyReset
<1>3. CASE Account!Identify(r)
  <2>1. token[r] \in made
    BY <1>3 DEF Account!Identify, AtTheKeys, Writing
  <2> QED
    BY <1>3, <2>1 DEF Account!Identify
<1>4. CASE Account!SetToken(r)
  <2>1. /\ resetToken' \in Tokens \cup {Account!None}
        /\ retired' \subseteq made' /\ made' = made
    BY <1>4, RetiredStep
  <2>2. UNCHANGED <<failures, locked, stranger, lost, registered, forced, code, verified,
                    named, made>>
    BY <1>4 DEF Account!SetToken
  <2>3. /\ at' \in [Requests -> Account!Ops]
        /\ counted' \in [Requests -> 0 .. MaxFailures + 1]
        /\ slip' \in [Requests -> Codes \cup {Account!None}]
        /\ token' \in [Requests -> Tokens \cup {Account!None}]
    BY <1>4 DEF Account!SetToken
  <2> QED
    BY <2>1, <2>2, <2>3
<1>5. CASE Account!SpendCode(r)
  <2>1. code' \in [Codes -> Account!Kinds]
    BY <1>5 DEF Account!SpendCode
  <2> QED
    BY <1>5, <2>1 DEF Account!SpendCode
<1>6. CASE \E t \in Tokens : Account!StartReset(r, t)
  BY <1>6 DEF Account!StartReset
<1>7. CASE \E t \in Tokens : Account!StartRegister(r, t)
  BY <1>7 DEF Account!StartRegister
<1>8. CASE Account!ChangePassword(r) \/ Account!Register(r)
  BY <1>8 DEF Account!ChangePassword, Account!Register
<1>9. CASE Account!ClearToken(r)
  <2>1. /\ resetToken' \in Tokens \cup {Account!None}
        /\ retired' \subseteq made' /\ made' = made
    BY <1>9, RetiredStep
  <2> QED
    BY <1>9, <2>1 DEF Account!ClearToken
<1>10. CASE Account!ForgetToken(r)
  BY <1>10 DEF Account!ForgetToken
<1> QED
  BY <1>1, <1>2, <1>3, <1>4, <1>5, <1>6, <1>7, <1>8, <1>9, <1>10
     DEF Account!Verify, Account!Redeem

LEMMA TypeStep == AccountInv /\ [Account!Next]_(Account!vars) => Account!TypeOK'
<1> SUFFICES ASSUME AccountInv, [Account!Next]_(Account!vars) PROVE Account!TypeOK'
  OBVIOUS
<1> USE Constants DEF AccountInv, Account!TypeOK, Account!Ops, Account!Kinds, Account!Ends,
        Account!To, Account!keys, Account!user, Account!login, Account!call
<1>1. CASE \E r \in Requests : Account!Login(r) \/ Account!Verify(r) \/ Account!Redeem(r)
  BY <1>1, LoginTypes, TokenTypes
<1>2. CASE \E r \in Requests : Account!Fail(r)
  BY <1>2 DEF Account!Fail
<1>3. CASE \E c \in Codes : Account!SendVerification(c) \/ Account!SendReset(c)
  BY <1>3 DEF Account!SendVerification, Account!SendReset
<1>4. CASE Account!VerifyMfa \/ Account!LeaveWindow
  BY <1>4 DEF Account!VerifyMfa, Account!LeaveWindow
<1>5. CASE Account!Expire
  <2>1. failures' \in 0 .. failures /\ failures' \in 0 .. MaxFailures
    BY <1>5 DEF Account!Expire
  <2>2. locked' = FALSE /\ UNCHANGED <<stranger, registered, forced>>
    BY <1>5 DEF Account!Expire
  <2>3. {locked, stranger, registered, forced}' \subseteq BOOLEAN
    BY <2>2
  <2> QED
    BY <1>5, <2>1, <2>3 DEF Account!Expire
<1>6. CASE Account!ForceReset
  BY <1>6 DEF Account!ForceReset
<1>7. CASE UNCHANGED Account!vars
  BY <1>7 DEF Account!vars
<1> QED
  BY <1>1, <1>2, <1>3, <1>4, <1>5, <1>6, <1>7 DEF Account!Next

\* Tokens and counts.
LEMMA LoginKeys ==
    ASSUME AccountInv, NEW r \in Requests, Account!Login(r)
    PROVE  AtTheKeys' /\ Account!NoTokenComesBack'
<1> USE DEF AccountInv, Account!TypeOK, AtTheKeys, Account!NoTokenComesBack, Writing, Account!To,
        Account!Starts, Account!Ends, Account!keys, Account!user, Account!login
<1>1. CASE Account!StartLogin(r)
  BY <1>1 DEF Account!StartLogin
<1>2. CASE Account!CountFailures(r)
  BY <1>2, Constants DEF Account!CountFailures
<1>3. CASE Account!InsertFailure(r)
  BY <1>3 DEF Account!InsertFailure
<1>4. CASE Account!SetLock(r)
  BY <1>4 DEF Account!SetLock
<1>5. CASE Account!LoseLock(r)
  BY <1>5 DEF Account!LoseLock
<1>6. CASE \E t \in Tokens : Account!PassForced(r, t)
  <2> HIDE DEF AccountInv, Account!TypeOK, AtTheKeys, Account!NoTokenComesBack, Writing
  <2> QED
    BY <1>6, NewToken DEF Account!PassForced
<1>7. CASE Account!Pass(r)
  BY <1>7 DEF Account!Pass
<1>8. CASE Account!DeleteLock(r)
  BY <1>8 DEF Account!DeleteLock
<1> QED
  BY <1>1, <1>2, <1>3, <1>4, <1>5, <1>6, <1>7, <1>8 DEF Account!Login

LEMMA TokenKeys ==
    ASSUME AccountInv, NEW r \in Requests, Account!Verify(r) \/ Account!Redeem(r)
    PROVE  AtTheKeys' /\ Account!NoTokenComesBack'
<1> USE DEF AccountInv, Account!TypeOK, AtTheKeys, Account!NoTokenComesBack, Writing, Account!To,
        Account!Starts, Account!Ends, Account!keys, Account!user, Account!login
<1>1. CASE \E c \in Codes, t \in Tokens : Account!VerifyEmail(r, c, t)
  BY <1>1 DEF Account!VerifyEmail
<1>2. CASE \E c \in Codes, t \in Tokens : Account!VerifyReset(r, c, t)
  <2> HIDE DEF AccountInv, Account!TypeOK, AtTheKeys, Account!NoTokenComesBack, Writing
  <2> QED
    BY <1>2, NewToken DEF Account!VerifyReset
<1>3. CASE Account!Identify(r)
  BY <1>3 DEF Account!Identify
<1>4. CASE Account!SetToken(r) \/ Account!ClearToken(r)
  <2> HIDE DEF AccountInv, Account!TypeOK, AtTheKeys, Account!NoTokenComesBack, Writing
  <2> QED
    BY <1>4, KeyWritten
<1>5. CASE Account!SpendCode(r)
  BY <1>5 DEF Account!SpendCode
<1>6. CASE \E t \in Tokens : Account!StartReset(r, t) \/ Account!StartRegister(r, t)
  BY <1>6 DEF Account!StartReset, Account!StartRegister
<1>7. CASE Account!ChangePassword(r) \/ Account!Register(r)
  BY <1>7 DEF Account!ChangePassword, Account!Register
<1>8. CASE Account!ForgetToken(r)
  BY <1>8 DEF Account!ForgetToken
<1> QED
  BY <1>1, <1>2, <1>3, <1>4, <1>5, <1>6, <1>7, <1>8 DEF Account!Verify, Account!Redeem

LEMMA KeysStep ==
    AccountInv /\ [Account!Next]_(Account!vars) => AtTheKeys' /\ Account!NoTokenComesBack'
<1> SUFFICES ASSUME AccountInv, [Account!Next]_(Account!vars)
             PROVE  AtTheKeys' /\ Account!NoTokenComesBack'
  OBVIOUS
<1> USE DEF AccountInv, Account!TypeOK, AtTheKeys, Account!NoTokenComesBack, Writing, Account!Ends,
        Account!To, Account!keys, Account!user, Account!login, Account!call
<1>1. CASE \E r \in Requests : Account!Login(r) \/ Account!Verify(r) \/ Account!Redeem(r)
  BY <1>1, LoginKeys, TokenKeys
<1>2. CASE \E r \in Requests : Account!Fail(r)
  BY <1>2 DEF Account!Fail
<1>3. CASE \E c \in Codes : Account!SendVerification(c) \/ Account!SendReset(c)
  BY <1>3 DEF Account!SendVerification, Account!SendReset
<1>4. CASE Account!VerifyMfa \/ Account!LeaveWindow \/ Account!Expire \/ Account!ForceReset
  BY <1>4 DEF Account!VerifyMfa, Account!LeaveWindow, Account!Expire, Account!ForceReset
<1>5. CASE UNCHANGED Account!vars
  BY <1>5 DEF Account!vars
<1> QED
  BY <1>1, <1>2, <1>3, <1>4, <1>5 DEF Account!Next

\* A step that adds no attempt, nor a request that will not set the lock.
LEMMA NothingCounted ==
    ASSUME AccountInv, failures' \in 0 .. failures, UNCHANGED <<locked, lost>>,
           ~locked => Small' \subseteq Small,
           locked => Failing' \subseteq Failing,
           Locking' = Locking
    PROVE  LockCount'
<1>1. Small \in SUBSET Requests /\ Failing \in SUBSET Requests
  BY DEF Small, Failing
<1>2. ~locked => Cardinality(Small') <= Cardinality(Small) /\ Cardinality(Small') \in Nat
  BY <1>1, RequestSets
<1>3. locked => Cardinality(Failing') <= Cardinality(Failing) /\ Cardinality(Failing') \in Nat
  BY <1>1, RequestSets
<1>4. Cardinality(Locking') = Cardinality(Locking)
  OBVIOUS
<1>5. failures \in Nat /\ Missed \in Nat /\ Missed' = Missed /\ Crossing' = Crossing
  BY MissedIs, Constants DEF AccountInv, Account!TypeOK, Crossing
<1> QED
  BY <1>2, <1>3, <1>4, <1>5, Counts, Constants, FiniteRequests DEF AccountInv, LockCount

\* A request's move between places that are not of a failed login.
LEMMA Elsewhere ==
    ASSUME AccountInv, NEW r \in Requests, NEW next,
           at[r] \notin {"count", "fail", "lock"}, next \notin {"count", "fail", "lock"},
           Account!To(r, next),
           counted' = counted \/ counted' = [counted EXCEPT ![r] = 0],
           UNCHANGED <<failures, locked, lost>>
    PROVE  LockCount'
<1>1. Small' = Small /\ Failing' = Failing /\ Locking' = Locking
  BY DEF AccountInv, Account!TypeOK, Account!To, Small, Failing, Locking
<1>2. failures' \in 0 .. failures
  BY Constants DEF AccountInv, Account!TypeOK
<1> QED
  BY <1>1, <1>2, NothingCounted

\* A failed login before its attempt is inserted. What it counts is at most
\* the threshold only if there is room for one attempt of every request.
LEMMA CountStep ==
    ASSUME AccountInv, NEW r \in Requests, Account!CountFailures(r)
    PROVE  LockCount'
<1> USE DEF Account!CountFailures, Account!To, Account!login
<1>1. /\ at[r] = "count"
      /\ \A q \in Requests : at'[q] = IF q = r THEN "fail" ELSE at[q]
      /\ \A q \in Requests : counted'[q] = IF q = r THEN failures + 1 ELSE counted[q]
      /\ failures \in Nat
      /\ UNCHANGED <<failures, locked, lost>>
  BY Constants DEF AccountInv, Account!TypeOK
<1>2. Failing' = Failing /\ Locking' = Locking
  BY <1>1 DEF Failing, Locking
<1>3. CASE failures + 1 > Threshold
  <2>1. Small' = Small
    BY <1>1, <1>3, Constants DEF Small
  <2>2. failures' \in 0 .. failures
    BY <1>1
  <2> QED
    BY <1>1, <1>2, <2>1, <2>2, NothingCounted
<1>4. CASE ~(failures + 1 > Threshold)
  <2>1. Small' \in SUBSET Requests
    BY DEF Small
  <2>2. Cardinality(Small') \in Nat /\ Cardinality(Small') <= Crossing
    BY <2>1, RequestSets
  <2>3. Cardinality(Failing') = Cardinality(Failing)
        /\ Cardinality(Locking') = Cardinality(Locking)
    BY <1>2
  <2>4. Missed \in Nat /\ Missed' = Missed /\ Crossing' = Crossing
    BY <1>1, MissedIs DEF AccountInv, Crossing
  <2>5. locked' => failures' + Cardinality(Failing')
                     <= Threshold + Crossing' - 1 + Missed' + Crossing'
    BY <1>1, <2>3, <2>4 DEF AccountInv, LockCount
  <2>6. failures' + Cardinality(Small')
          <= Threshold + Crossing' - 1 + Missed' + Cardinality(Locking')
    BY <1>1, <1>4, <2>2, <2>3, <2>4, Counts, Constants, FiniteRequests
  <2> QED
    BY <2>5, <2>6 DEF LockCount
<1> QED
  BY <1>3, <1>4

\* The attempt is inserted by a request that leaves the failed logins, or
\* goes to set the lock.
LEMMA InsertStep ==
    ASSUME AccountInv, NEW r \in Requests, Account!InsertFailure(r)
    PROVE  LockCount'
<1> DEFINE next == IF counted[r] > Threshold THEN "lock" ELSE "idle"
           large == counted[r] > Threshold
<1>1. /\ at[r] = "fail" /\ counted[r] \in Nat
      /\ failures \in Nat /\ failures' = failures + 1
      /\ UNCHANGED <<locked, lost>>
  BY Constants DEF AccountInv, Account!TypeOK, Account!InsertFailure
<1>2. /\ large => \A q \in Requests : at'[q] = IF q = r THEN "lock" ELSE at[q]
      /\ ~large => \A q \in Requests : at'[q] = IF q = r THEN "idle" ELSE at[q]
      /\ \A q \in Requests : q # r => counted'[q] = counted[q]
  BY DEF AccountInv, Account!TypeOK, Account!InsertFailure, Account!To, Account!Ends
<1> HIDE DEF large
<1>3. /\ Small \in SUBSET Requests /\ Small' \in SUBSET Requests
      /\ Failing \in SUBSET Requests /\ Failing' \in SUBSET Requests
      /\ Locking \in SUBSET Requests /\ Locking' \in SUBSET Requests
  BY DEF Small, Failing, Locking
<1>4. /\ Small \ {r} = Small' \ {r} /\ Failing \ {r} = Failing' \ {r}
      /\ Locking \ {r} = Locking' \ {r}
  BY <1>2 DEF Small, Failing, Locking
<1>5. /\ r \notin Small' /\ r \in Failing /\ r \notin Failing' /\ r \notin Locking
      /\ large => r \notin Small /\ r \in Locking'
      /\ ~large => r \in Small /\ r \notin Locking'
  BY <1>1, <1>2, Constants DEF Small, Failing, Locking, large
<1>6. Cardinality(Failing) \in Nat /\ Cardinality(Failing') = Cardinality(Failing) - 1
  BY <1>3, <1>4, <1>5, FiniteRequests, CountMoves
<1>7. large => /\ Cardinality(Small') = Cardinality(Small)
               /\ Cardinality(Locking') = Cardinality(Locking) + 1
  BY <1>3, <1>4, <1>5, FiniteRequests, CountMoves
<1>8. ~large => /\ Cardinality(Small') = Cardinality(Small) - 1
                /\ Cardinality(Locking') = Cardinality(Locking)
  BY <1>3, <1>4, <1>5, FiniteRequests, CountMoves
<1>9. Missed \in Nat /\ Missed' = Missed /\ Crossing' = Crossing
  BY <1>1, MissedIs DEF AccountInv, Crossing
<1>10. ~locked' => failures' + Cardinality(Small')
                     <= Threshold + Crossing' - 1 + Missed' + Cardinality(Locking')
  BY <1>1, <1>7, <1>8, <1>9, Counts, Constants, FiniteRequests DEF AccountInv, LockCount
<1>11. locked' => failures' + Cardinality(Failing')
                     <= Threshold + Crossing' - 1 + Missed' + Crossing'
  BY <1>1, <1>6, <1>9, Counts, Constants, FiniteRequests DEF AccountInv, LockCount
<1> QED
  BY <1>10, <1>11 DEF LockCount

\* The lock is set or lost by a request that leaves the failed logins: the
\* requests that are still in them may insert one attempt each.
LEMMA LockingStep ==
    ASSUME AccountInv, NEW r \in Requests, Account!SetLock(r) \/ Account!LoseLock(r)
    PROVE  LockCount'
<1> USE DEF Account!SetLock, Account!LoseLock, Account!Ends, Account!To
<1>1. /\ at[r] = "lock" /\ failures \in Nat /\ failures' = failures
      /\ \A q \in Requests : at'[q] = IF q = r THEN "idle" ELSE at[q]
      /\ \A q \in Requests : q # r => counted'[q] = counted[q]
  BY Constants DEF AccountInv, Account!TypeOK
<1>2. Small' = Small /\ Failing' = Failing
  BY <1>1 DEF Small, Failing
<1>3. /\ Locking \in SUBSET Requests /\ Locking' \in SUBSET Requests
      /\ Locking \ {r} = Locking' \ {r} /\ r \in Locking /\ r \notin Locking'
  BY <1>1 DEF Locking
<1>4. Cardinality(Locking') = Cardinality(Locking) - 1
  BY <1>3, FiniteRequests, CountMoves
<1>5. /\ Cardinality(Small') = Cardinality(Small)
      /\ Cardinality(Failing') = Cardinality(Failing)
  BY <1>2
<1>6. Missed \in Nat /\ Crossing' = Crossing
  BY MissedIs DEF AccountInv, Crossing
<1>7. CASE Account!SetLock(r)
  <2>1. locked' = TRUE /\ lost' = lost /\ Missed' = Missed
    BY <1>7, MissedIs DEF AccountInv
  <2>2. failures' + Cardinality(Failing')
          <= Threshold + Crossing' - 1 + Missed' + Crossing'
    BY <1>1, <1>4, <1>5, <1>6, <2>1, Counts, Constants, FiniteRequests
       DEF AccountInv, LockCount
  <2> QED
    BY <2>1, <2>2 DEF LockCount
<1>8. CASE Account!LoseLock(r)
  <2>1. locked' = locked /\ Missed' = Missed + Crossing
    BY <1>8, MissedIs DEF AccountInv
  <2>2. ~locked' => failures' + Cardinality(Small')
                      <= Threshold + Crossing' - 1 + Missed' + Cardinality(Locking')
    BY <1>1, <1>4, <1>5, <1>6, <2>1, Counts, Constants, FiniteRequests
       DEF AccountInv, LockCount
  <2>3. locked' => failures' + Cardinality(Failing')
                      <= Threshold + Crossing' - 1 + Missed' + Crossing'
    BY <1>1, <1>4, <1>5, <1>6, <2>1, Counts, Constants, FiniteRequests
       DEF AccountInv, LockCount
  <2> QED
    BY <2>2, <2>3 DEF LockCount
<1> QED
  BY <1>7, <1>8

\* An older success deletes the lock: the failed logins under way may insert
\* one attempt each, as many as the bound allows for a lost lock.
LEMMA UnlockStep ==
    ASSUME AccountInv, NEW r \in Requests, Account!DeleteLock(r)
    PROVE  LockCount'
<1> USE DEF Account!DeleteLock, Account!Ends, Account!To
<1>1. /\ at[r] = "unlock" /\ failures \in Nat /\ failures' = failures
      /\ counted' = [counted EXCEPT ![r] = 0] /\ Account!To(r, "idle")
  BY Constants DEF AccountInv, Account!TypeOK
<1>2. CASE ~locked
  <2>1. locked' = FALSE /\ lost' = lost
    BY <1>2, Zenon
  <2>2. UNCHANGED <<failures, locked, lost>>
    BY <1>1, <1>2, <2>1 DEF AccountInv, Account!TypeOK
  <2> QED
    BY <1>1, <2>2, Elsewhere
<1>3. CASE locked
  <2>1. locked' = FALSE /\ lost' = lost + 1
    BY <1>3, Zenon
  <2>2. Small' = Small /\ Locking' = Locking
    BY <1>1 DEF AccountInv, Account!TypeOK, Small, Locking
  <2>3. /\ Cardinality(Small') = Cardinality(Small)
        /\ Cardinality(Locking') = Cardinality(Locking)
    BY <2>2
  <2>4. Missed \in Nat /\ Missed' = Missed + Crossing /\ Crossing' = Crossing
    BY <2>1, MissedIs DEF AccountInv, Crossing
  <2>5. failures' + Cardinality(Small')
          <= Threshold + Crossing' - 1 + Missed' + Cardinality(Locking')
    BY <1>1, <1>3, <2>3, <2>4, Counts, Constants, FiniteRequests DEF AccountInv, LockCount
  <2> QED
    BY <2>1, <2>5 DEF LockCount
<1> QED
  BY <1>2, <1>3

\* No attempt counts any more: a request whose count is at most the
\* threshold counted itself, so the threshold is not zero.
LEMMA SuccessStep ==
    ASSUME AccountInv, failures' = 0, UNCHANGED <<locked, lost>>,
           Small' = Small, Failing' = Failing, Locking' = Locking
    PROVE  LockCount'
<1>1. /\ Cardinality(Small') = Cardinality(Small)
      /\ Cardinality(Failing') = Cardinality(Failing)
      /\ Cardinality(Locking') = Cardinality(Locking)
  OBVIOUS
<1>2. Missed \in Nat /\ Missed' = Missed /\ Crossing' = Crossing
  BY MissedIs DEF AccountInv, Crossing
<1>3. Small = {} \/ Threshold >= 1
  BY Constants DEF AccountInv, Account!TypeOK, AtTheKeys, Small
<1>4. Small = {} => Cardinality(Small) = 0
  BY FS_EmptySet
<1>5. Cardinality(Small) <= Threshold + Crossing - 1
  BY <1>3, <1>4, Counts, Constants, FiniteRequests
<1> QED
  BY <1>1, <1>2, <1>5, Counts, Constants, FiniteRequests DEF AccountInv, LockCount

\* The lock expires after the last failed login of its time.
LEMMA ExpireStep == ASSUME AccountInv, Account!Expire PROVE LockCount'
<1>0. failures' \in Nat /\ lost' = lost
  BY Constants DEF Account!Expire, AccountInv, Account!TypeOK
<1>1. /\ locked' = FALSE /\ at' = at /\ counted' = counted
      /\ failures' < Account!Cardinality(Requests)
  BY Constants DEF Account!Expire, Account!call, AccountInv, Account!TypeOK
<1>2. failures' < Crossing
  BY <1>1, SameCardinality, Zenon DEF Crossing
<1>3. Small' = {} /\ Locking' = {}
  BY <1>1 DEF Account!Expire, Account!Quiet, Small, Locking
<1>4. /\ Cardinality(Small') \in Nat /\ Cardinality(Small') <= 0
      /\ Cardinality(Locking') \in Nat
  <2>1. \A S : S = {} => Cardinality(S) \in Nat /\ Cardinality(S) <= 0
    BY FS_EmptySet
  <2> QED
    BY <1>3, <2>1, Zenon
<1>5. Missed \in Nat /\ Missed' = Missed /\ Crossing' = Crossing
  BY <1>0, MissedIs DEF AccountInv, Crossing
<1>6. failures' <= Threshold + Crossing - 1 + Missed
  BY <1>0, <1>2, <1>5, Constants, FiniteRequests
<1>7. failures' + Cardinality(Small')
        <= Threshold + Crossing' - 1 + Missed' + Cardinality(Locking')
  BY <1>0, <1>4, <1>5, <1>6, Constants, FiniteRequests
<1> QED
  BY <1>1, <1>7 DEF LockCount


\* The steps that leave the account's attempts and failed logins alone.
LEMMA IdleStep ==
    ASSUME AccountInv, UNCHANGED <<failures, locked, lost, at, counted>>
    PROVE  LockCount'
<1>1. failures' \in 0 .. failures
  BY Constants DEF AccountInv, Account!TypeOK
<1>2. Small' = Small /\ Failing' = Failing /\ Locking' = Locking
  BY DEF Small, Failing, Locking
<1> QED
  BY <1>1, <1>2, NothingCounted

LEMMA LoginLock ==
    ASSUME AccountInv, NEW r \in Requests, Account!Login(r)
    PROVE  LockCount'
<1>1. CASE Account!StartLogin(r)
  <2>1. CASE at' = [at EXCEPT ![r] = "count"]
    <3>1. /\ ~locked /\ at[r] = "idle"
          /\ UNCHANGED <<failures, locked, lost, counted>>
      BY <1>1 DEF Account!StartLogin, Account!Starts, Account!login
    <3>2. Small' \subseteq Small /\ Locking' = Locking
      BY <2>1, <3>1 DEF AccountInv, Account!TypeOK, Small, Locking
    <3>3. failures' \in 0 .. failures
      BY <3>1, Constants DEF AccountInv, Account!TypeOK
    <3> QED
      BY <3>1, <3>2, <3>3, NothingCounted
  <2>2. ASSUME NEW next \in {"force", "pass"}, at' = [at EXCEPT ![r] = next]
        PROVE  LockCount'
    <3>1. at[r] = "idle" /\ UNCHANGED <<failures, locked, lost, counted>>
      BY <1>1 DEF Account!StartLogin, Account!Starts, Account!login
    <3> QED
      BY <2>2, <3>1, Elsewhere DEF Account!To
  <2> QED
    BY <1>1, <2>1, <2>2 DEF Account!StartLogin, Account!Starts, Account!To
<1>2. CASE Account!CountFailures(r)
  BY <1>2, CountStep
<1>3. CASE Account!InsertFailure(r)
  BY <1>3, InsertStep
<1>4. CASE Account!SetLock(r) \/ Account!LoseLock(r)
  BY <1>4, LockingStep
<1>5. CASE \E t \in Tokens : Account!PassForced(r, t)
  BY <1>5, Elsewhere DEF Account!PassForced, Account!login
<1>6. CASE Account!Pass(r)
  <2>1. /\ failures' = 0 /\ UNCHANGED <<locked, lost, counted>>
        /\ at[r] = "pass" /\ at' = [at EXCEPT ![r] = "unlock"]
    BY <1>6 DEF Account!Pass, Account!To
  <2>2. Small' = Small /\ Failing' = Failing /\ Locking' = Locking
    BY <2>1 DEF AccountInv, Account!TypeOK, Small, Failing, Locking
  <2> QED
    BY <2>1, <2>2, SuccessStep
<1>7. CASE Account!DeleteLock(r)
  BY <1>7, UnlockStep
<1> QED
  BY <1>1, <1>2, <1>3, <1>4, <1>5, <1>6, <1>7 DEF Account!Login

LEMMA TokenLock ==
    ASSUME AccountInv, NEW r \in Requests, Account!Verify(r) \/ Account!Redeem(r)
    PROVE  LockCount'
<1> USE Elsewhere DEF Account!Starts, Account!Ends, Account!login
<1>1. CASE \E c \in Codes, t \in Tokens : Account!VerifyEmail(r, c, t)
  BY <1>1 DEF Account!VerifyEmail
<1>2. CASE \E c \in Codes, t \in Tokens : Account!VerifyReset(r, c, t)
  BY <1>2 DEF Account!VerifyReset
<1>3. CASE Account!Identify(r)
  BY <1>3 DEF Account!Identify
<1>4. CASE Account!SetToken(r)
  BY <1>4 DEF Account!SetToken
<1>5. CASE Account!SpendCode(r)
  BY <1>5 DEF Account!SpendCode
<1>6. CASE \E t \in Tokens : Account!StartReset(r, t) \/ Account!StartRegister(r, t)
  BY <1>6 DEF Account!StartReset, Account!StartRegister
<1>7. CASE Account!ChangePassword(r) \/ Account!Register(r)
  BY <1>7 DEF Account!ChangePassword, Account!Register
<1>8. CASE Account!ClearToken(r) \/ Account!ForgetToken(r)
  BY <1>8 DEF Account!ClearToken, Account!ForgetToken
<1> QED
  BY <1>1, <1>2, <1>3, <1>4, <1>5, <1>6, <1>7, <1>8 DEF Account!Verify, Account!Redeem

LEMMA LockStep == AccountInv /\ [Account!Next]_(Account!vars) => LockCount'
<1> SUFFICES ASSUME AccountInv, [Account!Next]_(Account!vars) PROVE LockCount'
  OBVIOUS
<1>1. CASE \E r \in Requests : Account!Login(r) \/ Account!Verify(r) \/ Account!Redeem(r)
  BY <1>1, LoginLock, TokenLock
<1>2. ASSUME NEW r \in Requests, Account!Fail(r) PROVE LockCount'
  <2>1. /\ at[r] \notin {"idle", "lock"} /\ at' = [at EXCEPT ![r] = "idle"]
        /\ counted' = [counted EXCEPT ![r] = 0]
        /\ UNCHANGED <<failures, locked, lost>>
    BY <1>2 DEF Account!Fail, Account!Ends, Account!To, Account!login
  <2>2. /\ Small' \subseteq Small /\ Failing' \subseteq Failing
        /\ Locking' = Locking
    BY <2>1 DEF AccountInv, Account!TypeOK, Small, Failing, Locking
  <2>3. failures' \in 0 .. failures
    BY <2>1, Constants DEF AccountInv, Account!TypeOK
  <2> QED
    BY <2>1, <2>2, <2>3, NothingCounted
<1>3. CASE \/ \E c \in Codes : Account!SendVerification(c) \/ Account!SendReset(c)
           \/ Account!ForceReset \/ UNCHANGED Account!vars
  BY <1>3, IdleStep
     DEF Account!SendVerification, Account!SendReset, Account!ForceReset, Account!login,
         Account!call, Account!vars
<1>4. ASSUME UNCHANGED Account!call
      PROVE  Small' = Small /\ Failing' = Failing /\ Locking' = Locking
  BY <1>4 DEF Account!call, Small, Failing, Locking
<1>5. CASE Account!VerifyMfa
  BY <1>4, <1>5, SuccessStep DEF Account!VerifyMfa
<1>6. CASE Account!LeaveWindow
  <2>1. failures' \in 0 .. failures
    BY <1>6, Constants DEF Account!LeaveWindow, AccountInv, Account!TypeOK
  <2> QED
    BY <1>4, <1>6, <2>1, NothingCounted DEF Account!LeaveWindow
<1>7. CASE Account!Expire
  BY <1>7, ExpireStep
<1> QED
  BY <1>1, <1>2, <1>3, <1>5, <1>6, <1>7 DEF Account!Next

LEMMA AccountStep == AccountInv /\ [Account!Next]_(Account!vars) => AccountInv'
BY TypeStep, KeysStep, LockStep DEF AccountInv

-----------------------------------------------------------------------------
(* The platform: a behaviour of the organizations or of the account.       *)

PlatformInv ==
    /\ part \in {"organization", "account"}
    /\ IInv
    /\ part = "account" => AccountInv

LEMMA PlatformInit == MCInit => PlatformInv
BY InitHolds, AccountInit DEF MCInit, PlatformInv

LEMMA PlatformStep == PlatformInv /\ [MCNext]_MCvars => PlatformInv'
<1> SUFFICES ASSUME PlatformInv, [MCNext]_MCvars PROVE PlatformInv'
  OBVIOUS
<1>1. part' = part
  BY DEF MCNext, MCvars
<1>2. IInv'
  BY Inductive DEF PlatformInv, MCNext, MCvars
<1>3. part = "account" => [Account!Next]_(Account!vars)
  BY DEF MCNext, MCvars, Account!vars, accounts, Account!login, Account!user,
         Account!keys, Account!call
<1> QED
  BY <1>1, <1>2, <1>3, AccountStep DEF PlatformInv

\* With no failed login under way, nobody is about to insert or to lock.
LEMMA LockHolds == AccountInv => Account!LockBound
<1> SUFFICES ASSUME AccountInv, Account!Quiet, ~locked
             PROVE  failures <= Threshold + Crossing - 1 + Missed
  BY SameCardinality DEF Account!LockBound, Crossing, Missed
<1>1. Small = {} /\ Locking = {}
  BY DEF Account!Quiet, Small, Locking
<1>2. Cardinality(Small) = 0 /\ Cardinality(Locking) = 0
  BY <1>1, FS_EmptySet, Zenon
<1>3. failures \in Nat /\ Missed \in Nat
  BY MissedIs, Constants DEF AccountInv, Account!TypeOK
<1> QED
  BY <1>2, <1>3, Constants, FiniteRequests DEF AccountInv, LockCount

LEMMA PlatformInvariant == MCSpec => []PlatformInv
BY PlatformInit, PlatformStep, PTL DEF MCSpec

\* Types, of the organizations and of the account.
THEOREM PartsTypeCorrect == MCSpec => []PartTypeOK
<1>1. PlatformInv => PartTypeOK
  BY DEF PlatformInv, IInv, AccountInv, PartTypeOK
<1> QED
  BY <1>1, PlatformInvariant, PTL

\* However logins cross, and whatever locks are lost or deleted by an older
\* success: an account that is not locked, with no failed login under way,
\* has failed at most as often as the threshold and the requests allow.
THEOREM FailuresAreBounded == MCSpec => []LockBound
<1>1. PlatformInv => LockBound
  BY LockHolds DEF PlatformInv, LockBound
<1> QED
  BY <1>1, PlatformInvariant, PTL

\* A token that was the user's and is no more never is again, however the
\* writes of the one key cross and whatever keys are lost.
THEOREM NoTokenReturns == MCSpec => []NoTokenComesBack
<1>1. PlatformInv => NoTokenComesBack
  BY DEF PlatformInv, AccountInv, NoTokenComesBack
<1> QED
  BY <1>1, PlatformInvariant, PTL

=============================================================================
