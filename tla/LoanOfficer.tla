---------------------------- MODULE LoanOfficer ----------------------------
(***************************************************************************)
(* The loan officer of a mortgage application                              *)
(* (application.ts: setApplicationLoanOfficer, over user_assignments).     *)
(*                                                                         *)
(* The handler reads the application, opens a transaction, reads all       *)
(* assignments of the application, and then ends the assignment it saw as  *)
(* current and begins that of the officer it was given, the officer's old  *)
(* row if the list has one. Nothing locks what it read.                    *)
(***************************************************************************)
EXTENDS FiniteSets

CONSTANTS
    Officers,     \* loan officers of the lender
    Assignments,  \* bound: rows of user_assignments
    Requests      \* HTTP requests that may be in flight together

Nobody == "nobody"

NobodyAssumption == Nobody \notin Officers /\ Nobody \notin Assignments

VARIABLES
    officer,   \* user_id of each assignment, Nobody when there is no row
    active,    \* the assignments without unassigned_at
    current,   \* application.current_loan_officer_assignment_id
    op,        \* where each request is
    wanted,    \* the officer it was given, Nobody to set none
    seen,      \* the current assignment it read
    list,      \* the assignments it read
    crossed    \* history: two requests were in flight together

rows == <<officer, active, current>>
vars == <<rows, op, wanted, seen, list, crossed>>

Rows == {a \in Assignments : officer[a] # Nobody}

Init ==
    /\ officer = [a \in Assignments |-> Nobody]
    /\ active = {}
    /\ current = Nobody
    /\ op = [r \in Requests |-> "idle"]
    /\ wanted = [r \in Requests |-> Nobody]
    /\ seen = [r \in Requests |-> Nobody]
    /\ list = [r \in Requests |-> {}]
    /\ crossed = FALSE

ReadApplication(r, o) ==
    /\ op[r] = "idle"
    /\ op' = [op EXCEPT ![r] = "list"]
    /\ wanted' = [wanted EXCEPT ![r] = o]
    /\ seen' = [seen EXCEPT ![r] = current]
    /\ crossed' = (crossed \/ \E s \in Requests : op[s] # "idle")
    /\ UNCHANGED <<rows, list>>

ReadAssignments(r) ==
    /\ op[r] = "list"
    /\ op' = [op EXCEPT ![r] = "write"]
    /\ list' = [list EXCEPT ![r] = Rows]
    /\ UNCHANGED <<rows, wanted, seen, crossed>>

\* The officer's row among those listed: the officer may have several.
Existing(r) == {a \in list[r] : officer[a] = wanted[r]}

Ended(r) == active \ (list[r] \cap {seen[r]})

Ends(r) ==
    /\ op' = [op EXCEPT ![r] = "idle"]
    /\ wanted' = [wanted EXCEPT ![r] = Nobody]
    /\ seen' = [seen EXCEPT ![r] = Nobody]
    /\ list' = [list EXCEPT ![r] = {}]
    /\ UNCHANGED crossed

\* Mutant: the assignment seen as current is ended after the other begins.
CommitAgainEndLast(r, a) ==
    /\ op[r] = "write"
    /\ a \in Existing(r)
    /\ active' = (active \cup {a}) \ {seen[r]}
    /\ current' = a
    /\ Ends(r)
    /\ UNCHANGED officer

\* The officer had the application before.
CommitAgain(r, a) ==
    /\ op[r] = "write"
    /\ a \in Existing(r)
    /\ active' = Ended(r) \cup {a}
    /\ current' = a
    /\ Ends(r)
    /\ UNCHANGED officer

CommitNew(r, a) ==
    /\ op[r] = "write"
    /\ wanted[r] # Nobody
    /\ Existing(r) = {}
    /\ a \notin Rows
    /\ officer' = [officer EXCEPT ![a] = wanted[r]]
    /\ active' = Ended(r) \cup {a}
    /\ current' = a
    /\ Ends(r)

\* No officer was given.
CommitNone(r) ==
    /\ op[r] = "write"
    /\ wanted[r] = Nobody
    /\ active' = Ended(r)
    /\ current' = Nobody
    /\ Ends(r)
    /\ UNCHANGED officer

\* A statement fails: the transaction is rolled back.
Abort(r) ==
    /\ op[r] # "idle"
    /\ Ends(r)
    /\ UNCHANGED rows

Next ==
    \E r \in Requests :
        \/ \E o \in Officers \cup {Nobody} : ReadApplication(r, o)
        \/ ReadAssignments(r)
        \/ \E a \in Assignments : CommitAgain(r, a) \/ CommitNew(r, a)
        \/ CommitNone(r)
        \/ Abort(r)

Spec == Init /\ [][Next]_vars

-----------------------------------------------------------------------------
(* Properties                                                              *)

\* Types.
TypeOK ==
    /\ officer \in [Assignments -> Officers \cup {Nobody}]
    /\ active \subseteq Rows
    /\ current \in Assignments \cup {Nobody}
    /\ op \in [Requests -> {"idle", "list", "write"}]
    /\ wanted \in [Requests -> Officers \cup {Nobody}]
    /\ seen \in [Requests -> Assignments \cup {Nobody}]
    /\ list \in [Requests -> SUBSET Rows]
    /\ crossed \in BOOLEAN

\* The current assignment is in force, even after requests that ended and
\* began assignments from stale lists, and as long as requests come one at a
\* time it is the only one, and no officer has two rows.
OneOfficer ==
    /\ current # Nobody => current \in active
    /\ ~crossed => /\ active = {current} \ {Nobody}
                   /\ \A a, b \in Rows : officer[a] = officer[b] => a = b

=============================================================================
