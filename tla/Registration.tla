---------------------------- MODULE Registration ----------------------------
(***************************************************************************)
(* POST /register.  RegisterController asks the database twice and creates *)
(* the user last; requests run side by side, so that two may both have     *)
(* been told that a name is free.  Mongo's unique indexes decide then.     *)
(*                                                                         *)
(* The account of a request is the request that made it.                   *)
(***************************************************************************)
EXTENDS FiniteSets

CONSTANTS Requests, Usernames, Emails

VARIABLES form,     \* form[q]: the username and email of the RegisterDto
          step,     \* step[q]: where the handler of request q is
          status,   \* status[q]: the HTTP status it was answered with
          users     \* the collection: requests whose user was stored

vars == <<form, step, status, users>>

Form == [username : Usernames, email : Emails]
Steps == {"sent", "existsByUsername", "existsByEmail", "create", "answered"}
Statuses == {"none", "201", "409", "500"}

Init ==
  /\ form \in [Requests -> Form]
  /\ step = [q \in Requests |-> "sent"]
  /\ status = [q \in Requests |-> "none"]
  /\ users = {}

go(q, s) == step' = [step EXCEPT ![q] = s]
answer(q, s) == go(q, "answered") /\ status' = [status EXCEPT ![q] = s]

usernameExists(q) == \E p \in users : form[p].username = form[q].username
emailExists(q) == \E p \in users : form[p].email = form[q].email

mutantUsernameOnly(q) == ~usernameExists(q)
\* The unique indexes of the schema.
indexAdmits(q) == ~usernameExists(q) /\ ~emailExists(q)

-----------------------------------------------------------------------------
Register(q) ==
  /\ step[q] = "sent"
  /\ go(q, "existsByUsername")
  /\ UNCHANGED <<form, status, users>>

ExistsByUsername(q) ==
  /\ step[q] = "existsByUsername"
  /\ IF usernameExists(q) THEN answer(q, "409")
                          ELSE go(q, "existsByEmail") /\ UNCHANGED status
  /\ UNCHANGED <<form, users>>

ExistsByEmail(q) ==
  /\ step[q] = "existsByEmail"
  /\ IF emailExists(q) THEN answer(q, "409") ELSE go(q, "create") /\ UNCHANGED status
  /\ UNCHANGED <<form, users>>

\* The password is hashed and then the document inserted, or refused by an index.
Create(q) ==
  /\ step[q] = "create"
  /\ IF indexAdmits(q) THEN answer(q, "201") /\ users' = users \cup {q}
                       ELSE answer(q, "500") /\ UNCHANGED users
  /\ UNCHANGED form

\* The database does not answer; what it was asked to insert may be stored all the same.
Fails(q) ==
  /\ step[q] \in Steps \ {"sent", "answered"}
  /\ answer(q, "500")
  /\ \/ UNCHANGED users
     \/ step[q] = "create" /\ indexAdmits(q) /\ users' = users \cup {q}
  /\ UNCHANGED form

Next == \E q \in Requests : \/ Register(q) \/ ExistsByUsername(q) \/ ExistsByEmail(q)
                            \/ Create(q) \/ Fails(q)

Spec == Init /\ [][Next]_vars

-----------------------------------------------------------------------------
TypeOK ==
  /\ form \in [Requests -> Form] /\ step \in [Requests -> Steps]
  /\ status \in [Requests -> Statuses] /\ users \subseteq Requests

\* Whatever registrations run side by side or break off, no two accounts share a
\* username or an email, and the answers are true: 201 has its account, and 409 names
\* an account that is another's.
AccountsAreUnique ==
  /\ \A p, q \in users : p # q => /\ form[p].username # form[q].username
                                  /\ form[p].email # form[q].email
  /\ \A q \in Requests :
       /\ status[q] = "201" => q \in users
       /\ status[q] = "409" => q \notin users /\ (usernameExists(q) \/ emailExists(q))

\* A request that is not answered yet has stored nothing: only it adds its account, so
\* that a 409 stays true.
PendingStoredNothing ==
  \A q \in Requests : step[q] # "answered" => q \notin users /\ status[q] = "none"

IInv == TypeOK /\ AccountsAreUnique /\ PendingStoredNothing
=============================================================================
