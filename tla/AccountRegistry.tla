-------------------------- MODULE AccountRegistry --------------------------
(***************************************************************************)
(* What registration promises its clients, as one atomic object: a request *)
(* creates at most one account, whole, and only while nobody holds its     *)
(* e-mail or its username; a client is told "created" only at that moment, *)
(* and "conflict" only while somebody holds one of the two.                *)
(*                                                                         *)
(* A client that is told "error", or nothing, learns nothing: its account  *)
(* may exist, or may still appear.  Registration.tla implements this, with *)
(* logins and deletions around it (RegistryImplemented of                  *)
(* AuthServiceProofs.tla).                                                 *)
(***************************************************************************)
CONSTANTS
  Requests,        \* requests; also the user ids of their accounts
  Commands,        \* what clients ask for
  AccountFor(_, _),\* the account request r creates for command c
  Names(_, _)      \* Names(a, c): account a answers to an identifier in c

VARIABLES
  accounts,        \* the accounts that exist
  command,         \* what each client asked for
  response         \* what each client was told

vars == <<accounts, command, response>>

Init ==
  /\ accounts = {}
  /\ \A r \in Requests : response[r] = "none"

\* An account holds its user id, its e-mail and its username alone.
Taken(a) ==
  \E b \in accounts : \/ a.userId = b.userId
                      \/ a.email = b.email
                      \/ a.username = b.username

Tell(r, status) == response' = [response EXCEPT ![r] = status]

Ask(r, c) ==
  /\ response[r] = "none"
  /\ command' = [command EXCEPT ![r] = c]
  /\ UNCHANGED response \/ Tell(r, "invalid")
  /\ UNCHANGED accounts

\* The account appears; its client hears of it now, or has heard of an error or
\* been left without an answer before.
Grant(r) ==
  /\ command[r] \in Commands
  /\ ~ Taken(AccountFor(r, command[r]))
  /\ accounts' = accounts \cup {AccountFor(r, command[r])}
  /\ \/ response[r] = "none" /\ Tell(r, "created")
     \/ response[r] \in {"error", "lost"} /\ UNCHANGED response
  /\ UNCHANGED command

Conflict(r) ==
  /\ command[r] \in Commands /\ response[r] = "none"
  /\ \E a \in accounts : Names(a, command[r])
  /\ Tell(r, "conflict")
  /\ UNCHANGED <<accounts, command>>

Fail(r) ==
  /\ response[r] = "none" /\ Tell(r, "error")
  /\ UNCHANGED <<accounts, command>>

\* An account may be removed; whoever asks afterwards may have its names.
Remove(a) ==
  /\ accounts' = accounts \ {a}
  /\ UNCHANGED <<command, response>>

Lose(R) ==
  /\ \A r \in R : response[r] = "none"
  /\ response' = [r \in Requests |-> IF r \in R THEN "lost" ELSE response[r]]
  /\ UNCHANGED <<accounts, command>>

Next ==
  \/ \E R \in SUBSET Requests : Lose(R)
  \/ \E a \in accounts : Remove(a)
  \/ \E r \in Requests :
       \/ \E c \in Commands : Ask(r, c)
       \/ Grant(r) \/ Conflict(r) \/ Fail(r)

Spec == Init /\ [][Next]_vars
=============================================================================
