------------------------------ MODULE Accounts ------------------------------
(***************************************************************************)
(* One account: its login attempts and its lock, its one-time codes and    *)
(* the tokens they are exchanged for (Auth.ts).                            *)
(*                                                                         *)
(* The attempts are rows; the lock, the codes and the tokens are keys of   *)
(* the cache. No handler here has a transaction: every statement is a      *)
(* step, and another request may come in between. A login fails when the   *)
(* account may not use the endpoint, or when no user has the identifier:   *)
(* those attempts are counted and locked in the same way, by identifier.   *)
(* The lock expires; the life of a token, given in milliseconds to a cache *)
(* that takes seconds, is over a month: no other expiry is a step.         *)
(* The client of the cache catches its errors: a key may not be set and    *)
(* the handler goes on as if it were.                                      *)
(***************************************************************************)
EXTENDS Naturals, FiniteSets

CONSTANTS
    Requests,    \* HTTP requests that may be in flight together
    Codes,       \* bound: one-time codes sent
    Tokens,      \* bound: tokens made
    Threshold,   \* TRIAL_THRESHOLD
    MaxFailures, \* bound: failed attempts inside the window
    MaxLost      \* bound: locks that were lost

None == "none"

NoneAssumption     == None \notin Codes /\ None \notin Tokens
BoundsAssumption   == Threshold \in Nat /\ MaxFailures \in Nat /\ MaxLost \in Nat
RequestsAssumption == IsFiniteSet(Requests) /\ Requests # {}

Kinds == {"unsent", "verification", "reset", "spent"}
Ops   == {"idle", "count", "fail", "lock", "pass", "force", "unlock",
          "identify", "token", "spend", "reset", "clear", "register", "forget"}

VARIABLES
    failures,    \* failed attempts in the window, after the last success
    locked,      \* the key LOGIN_ATTEMPT_LOCK
    stranger,    \* the attempts are on an identifier that no user has
    lost,        \* locks not set, or deleted by an older success
    registered,  \* the user exists
    forced,      \* force_password_reset and is_default_password
    code,        \* the kind of each one-time code
    verified,    \* tokens under CONTINUE_REGISTRATION
    named,       \* tokens whose hash is a key that names the user
    resetToken,  \* the token under PASSWORD_RESET_KEY of the user
    made,        \* history: tokens that were made
    retired,     \* history: tokens that were the resetToken and are no more
    op,          \* where each request is
    counted,     \* the failed attempts it counted
    slip,        \* the code it was given
    token        \* the token it was given or has made

login == <<failures, locked, stranger, lost>>
user  == <<registered, forced>>
keys  == <<code, verified, named, resetToken, made, retired>>
call  == <<op, counted, slip, token>>
vars  == <<login, user, keys, call>>

Init ==
    /\ failures = 0
    /\ locked = FALSE
    /\ stranger \in BOOLEAN
    /\ lost = 0
    /\ registered = ~stranger
    /\ forced \in BOOLEAN
    /\ forced => registered
    /\ code = [c \in Codes |-> "unsent"]
    /\ verified = {}
    /\ named = {}
    /\ resetToken = None
    /\ made = {}
    /\ retired = {}
    /\ op = [r \in Requests |-> "idle"]
    /\ counted = [r \in Requests |-> 0]
    /\ slip = [r \in Requests |-> None]
    /\ token = [r \in Requests |-> None]

To(r, next) == op' = [op EXCEPT ![r] = next]

Starts(r, next, c, t) ==
    /\ op[r] = "idle"
    /\ To(r, next)
    /\ slip' = [slip EXCEPT ![r] = c]
    /\ token' = [token EXCEPT ![r] = t]
    /\ UNCHANGED counted

Ends(r) ==
    /\ To(r, "idle")
    /\ counted' = [counted EXCEPT ![r] = 0]
    /\ slip' = [slip EXCEPT ![r] = None]
    /\ token' = [token EXCEPT ![r] = None]

\* No failed login is under way.
Quiet == \A r \in Requests : op[r] \notin {"count", "fail", "lock"}

-----------------------------------------------------------------------------
(* Login.                                                                  *)

\* A locked account is refused; the others fail or pass, later. Once the
\* stranger has registered the attempts are counted by another id.
StartLogin(r) ==
    /\ ~locked
    /\ stranger = ~registered
    /\ \E next \in IF stranger THEN {"count"}
                   ELSE {"count", IF forced THEN "force" ELSE "pass"} :
          Starts(r, next, None, None)
    /\ UNCHANGED <<login, user, keys>>

CountFailures(r) ==
    /\ op[r] = "count"
    /\ counted' = [counted EXCEPT ![r] = failures + 1]
    /\ To(r, "fail")
    /\ UNCHANGED <<login, user, keys, slip, token>>

\* Mutant: the attempt itself is left out of the comparison.
InsertFailureUncounted(r) ==
    /\ op[r] = "fail"
    /\ failures < MaxFailures
    /\ failures' = failures + 1
    /\ IF counted[r] > Threshold + 1
       THEN To(r, "lock") /\ UNCHANGED <<counted, slip, token>>
       ELSE Ends(r)
    /\ UNCHANGED <<locked, stranger, lost, user, keys>>

InsertFailure(r) ==
    /\ op[r] = "fail"
    /\ failures < MaxFailures
    /\ failures' = failures + 1
    /\ IF counted[r] > Threshold
       THEN To(r, "lock") /\ UNCHANGED <<counted, slip, token>>
       ELSE Ends(r)
    /\ UNCHANGED <<locked, stranger, lost, user, keys>>

SetLock(r) ==
    /\ op[r] = "lock"
    /\ locked' = TRUE
    /\ Ends(r)
    /\ UNCHANGED <<failures, stranger, lost, user, keys>>

\* The cache fails and its client says nothing, or the server stops.
LoseLock(r) ==
    /\ op[r] = "lock"
    /\ lost < MaxLost
    /\ lost' = lost + 1
    /\ Ends(r)
    /\ UNCHANGED <<failures, locked, stranger, user, keys>>

\* A default password must be changed first: the login makes the token.
PassForced(r, t) ==
    /\ op[r] = "force"
    /\ t \notin made
    /\ made' = made \cup {t}
    /\ token' = [token EXCEPT ![r] = t]
    /\ To(r, "identify")
    /\ UNCHANGED <<login, user, code, verified, named, resetToken, retired,
                   counted, slip>>

\* A successful attempt: what failed before no longer counts.
Pass(r) ==
    /\ op[r] = "pass"
    /\ failures' = 0
    /\ To(r, "unlock")
    /\ UNCHANGED <<locked, stranger, lost, user, keys, counted, slip, token>>

\* verifyMfa: with a second factor the attempt is successful when that is
\* verified, at any later time, and the lock stays.
VerifyMfa ==
    /\ ~stranger
    /\ failures' = 0
    /\ UNCHANGED <<locked, stranger, lost, user, keys, call>>

DeleteLock(r) ==
    /\ op[r] = "unlock"
    /\ locked => lost < MaxLost
    /\ locked' = FALSE
    /\ lost' = IF locked THEN lost + 1 ELSE lost
    /\ Ends(r)
    /\ UNCHANGED <<failures, stranger, user, keys>>

\* The window of the attempts is as long as the life of the lock.
LeaveWindow ==
    /\ failures > 0
    /\ failures' = failures - 1
    /\ UNCHANGED <<locked, stranger, lost, user, keys, call>>

\* With the lock goes what failed before it was set; later attempts are of
\* requests that were in flight then, and none takes the ten minutes of it.
Expire ==
    /\ locked
    /\ Quiet
    /\ locked' = FALSE
    /\ failures' \in {n \in 0 .. failures : n < Cardinality(Requests)}
    /\ UNCHANGED <<stranger, lost, user, keys, call>>

-----------------------------------------------------------------------------
(* Codes and tokens.                                                       *)

\* checkRegisterEmail.
SendVerification(c) ==
    /\ ~registered
    /\ code[c] = "unsent"
    /\ code' = [code EXCEPT ![c] = "verification"]
    /\ UNCHANGED <<login, user, verified, named, resetToken, made, retired, call>>

\* requestPasswordReset.
SendReset(c) ==
    /\ registered
    /\ code[c] = "unsent"
    /\ code' = [code EXCEPT ![c] = "reset"]
    /\ UNCHANGED <<login, user, verified, named, resetToken, made, retired, call>>

\* verifyAccount, for a code of the registration.
VerifyEmail(r, c, t) ==
    /\ code[c] = "verification"
    /\ t \notin made
    /\ Starts(r, "spend", c, t)
    /\ made' = made \cup {t}
    /\ verified' \in {verified, verified \cup {t}}
    /\ UNCHANGED <<login, user, code, named, resetToken, retired>>

\* verifyAccount, for a code of a reset.
VerifyReset(r, c, t) ==
    /\ code[c] = "reset"
    /\ t \notin made
    /\ Starts(r, "identify", c, t)
    /\ made' = made \cup {t}
    /\ UNCHANGED <<login, user, code, verified, named, resetToken, retired>>

\* The two keys of the token, in this order.
Identify(r) ==
    /\ op[r] = "identify"
    /\ named' \in {named, named \cup {token[r]}}
    /\ To(r, "token")
    /\ UNCHANGED <<login, user, code, verified, resetToken, made, retired,
                   counted, slip, token>>

Retire ==
    retired' = IF resetToken' = resetToken THEN retired
               ELSE retired \cup ({resetToken} \ {None})

\* Mutant: a write of the key that was lost is tried again, later.
SetTokenRetried(r) ==
    /\ op[r] = "token"
    /\ resetToken' = token[r]
    /\ Retire
    /\ \/ Ends(r)
       \/ UNCHANGED call
    /\ UNCHANGED <<login, user, code, verified, named, made>>

SetToken(r) ==
    /\ op[r] = "token"
    /\ resetToken' \in {resetToken, token[r]}
    /\ Retire
    /\ IF slip[r] = None THEN Ends(r)
       ELSE To(r, "spend") /\ UNCHANGED <<counted, slip, token>>
    /\ UNCHANGED <<login, user, code, verified, named, made>>

SpendCode(r) ==
    /\ op[r] = "spend"
    /\ code' = [code EXCEPT ![slip[r]] = "spent"]
    /\ Ends(r)
    /\ UNCHANGED <<login, user, verified, named, resetToken, made, retired>>

\* resetPassword, which looks at both keys.
StartReset(r, t) ==
    /\ t \in named
    /\ resetToken = t
    /\ Starts(r, "reset", None, t)
    /\ UNCHANGED <<login, user, keys>>

ChangePassword(r) ==
    /\ op[r] = "reset"
    /\ forced' = FALSE
    /\ To(r, "clear")
    /\ UNCHANGED <<login, registered, keys, counted, slip, token>>

\* Whatever token the key holds by then.
ClearToken(r) ==
    /\ op[r] = "clear"
    /\ resetToken' = None
    /\ Retire
    /\ Ends(r)
    /\ UNCHANGED <<login, user, code, verified, named, made>>

\* register: the e-mail is unique, the token is deleted afterwards.
StartRegister(r, t) ==
    /\ t \in verified
    /\ Starts(r, "register", None, t)
    /\ UNCHANGED <<login, user, keys>>

Register(r) ==
    /\ op[r] = "register"
    /\ ~registered
    /\ registered' = TRUE
    /\ To(r, "forget")
    /\ UNCHANGED <<login, forced, keys, counted, slip, token>>

ForgetToken(r) ==
    /\ op[r] = "forget"
    /\ verified' = verified \ {token[r]}
    /\ Ends(r)
    /\ UNCHANGED <<login, user, code, named, resetToken, made, retired>>

\* resetOrgMemberPassword and hsfResetOrgMemberPassword (organizations): the
\* second gives a new password without asking for another.
ForceReset ==
    /\ registered
    /\ forced' \in BOOLEAN
    /\ UNCHANGED <<login, registered, keys, call>>

\* A statement fails, or the server stops. With a second factor a login
\* that passes ends here: the code is sent (VerifyMfa).
Fail(r) ==
    /\ op[r] \notin {"idle", "lock"}
    /\ Ends(r)
    /\ UNCHANGED <<login, user, keys>>

-----------------------------------------------------------------------------
Login(r) ==
    \/ StartLogin(r) \/ CountFailures(r) \/ InsertFailure(r)
    \/ SetLock(r) \/ LoseLock(r)
    \/ \E t \in Tokens : PassForced(r, t)
    \/ Pass(r) \/ DeleteLock(r)

Verify(r) ==
    \/ \E c \in Codes, t \in Tokens : VerifyEmail(r, c, t) \/ VerifyReset(r, c, t)
    \/ Identify(r) \/ SetToken(r) \/ SpendCode(r)

Redeem(r) ==
    \/ \E t \in Tokens : StartReset(r, t) \/ StartRegister(r, t)
    \/ ChangePassword(r) \/ ClearToken(r) \/ Register(r) \/ ForgetToken(r)

Next ==
    \/ \E r \in Requests : Login(r) \/ Verify(r) \/ Redeem(r) \/ Fail(r)
    \/ \E c \in Codes : SendVerification(c) \/ SendReset(c)
    \/ VerifyMfa \/ LeaveWindow \/ Expire \/ ForceReset

Spec == Init /\ [][Next]_vars

-----------------------------------------------------------------------------
(* Properties                                                              *)

\* Types.
TypeOK ==
    /\ failures \in 0 .. MaxFailures
    /\ lost \in 0 .. MaxLost
    /\ {locked, stranger, registered, forced} \subseteq BOOLEAN
    /\ code \in [Codes -> Kinds]
    /\ verified \subseteq made /\ named \subseteq made /\ made \subseteq Tokens
    /\ retired \subseteq made
    /\ resetToken \in Tokens \cup {None}
    /\ op \in [Requests -> Ops]
    /\ counted \in [Requests -> 0 .. MaxFailures + 1]
    /\ slip \in [Requests -> Codes \cup {None}]
    /\ token \in [Requests -> Tokens \cup {None}]

\* Failed logins that cross count the same attempts, the count is of before
\* the insertion, a lock may not be set, and a success in flight deletes the
\* lock set after it. Still, with no failed login under way, an account that
\* is not locked has failed at most as often as the threshold allows, one
\* time less than there are requests, and once per request for each lock
\* lost: what was missed is made up for by the next attempt (Auth.login).
LockBound ==
    LET crossing == Cardinality(Requests)
    IN  (Quiet /\ ~locked) => failures <= Threshold + crossing - 1 + crossing * lost

\* A token that was cleared by a reset of the password, or replaced by a
\* newer one, can never reset it again, in whatever order verified codes,
\* forced logins and resets write, replace and clear the one key of the user,
\* and fail or lose a key in between (verifyAccount, login, resetPassword).
NoTokenComesBack == resetToken \notin retired

=============================================================================
