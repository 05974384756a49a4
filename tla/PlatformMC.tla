----------------------------- MODULE PlatformMC -----------------------------
(***************************************************************************)
(* Model-checking instance of the organizations (Organizations, with its   *)
(* own variables) and of one account (Accounts). Neither reads what the    *)
(* other writes (a login's effect on the status of its user is in          *)
(* Organizations), so a behaviour takes one of the two: the organizations  *)
(* stay as they began, or the variables of the account are unused.         *)
(***************************************************************************)
EXTENDS Organizations, TLC

CONSTANTS Codes, Tokens, Threshold, MaxFailures, MaxLost

VARIABLES
    part,
    failures, locked, stranger, lost, registered, forced,
    code, verified, named, resetToken, made, retired, at, counted, slip, token

Account == INSTANCE Accounts WITH op <- at

ASSUME AccountAssumptions ==
    Account!NoneAssumption /\ Account!BoundsAssumption /\ Account!RequestsAssumption

accounts == <<failures, locked, stranger, lost, registered, forced,
              code, verified, named, resetToken, made, retired, at, counted, slip, token>>
MCvars   == <<part, vars, accounts>>

Unused == "unused"

NoAccount ==
    /\ failures = Unused /\ locked = Unused /\ stranger = Unused
    /\ lost = Unused /\ registered = Unused /\ forced = Unused
    /\ code = Unused /\ verified = Unused /\ named = Unused
    /\ resetToken = Unused /\ made = Unused /\ retired = Unused
    /\ at = Unused /\ counted = Unused /\ slip = Unused /\ token = Unused

MCInit ==
    /\ Init
    /\ \/ part = "organization" /\ NoAccount
       \/ part = "account" /\ Account!Init

\* Bound: authenticators and verified e-mails, for one user at a time and as
\* long as one name is left.
OneFactor ==
    \A u \in Users : factor'[u] # "none" =>
        /\ \A w \in Users \ {u} : factor'[w] = "none"
        /\ \E o \in Orgs : org'[o] = "absent"

MCNext ==
    /\ UNCHANGED part
    /\ \/ part = "organization" /\ Next /\ OneFactor /\ UNCHANGED accounts
       \/ part = "account" /\ Account!Next /\ UNCHANGED vars

MCSpec == MCInit /\ [][MCNext]_MCvars

\* Names, e-mails, codes and requests are all alike.
Symmetry ==
    Permutations(Requests) \cup Permutations(Codes) \cup Permutations(Tokens)
        \cup Permutations(Orgs) \cup Permutations(Users)

\* Types, of the organizations and of the account.
PartTypeOK == TypeOK /\ (part = "account" => Account!TypeOK)

\* The properties of the account are those of its module, stated there.
LockBound        == part = "account" => Account!LockBound
NoTokenComesBack == part = "account" => Account!NoTokenComesBack

=============================================================================
