--------------------------- MODULE AuditableTable ---------------------------
(***************************************************************************)
(* AuditableTableService: the statements that fill in the audit columns of *)
(* users and auth_credentials, with the request context from which they    *)
(* take the current user.                                                  *)
(*                                                                         *)
(* A context is one asynchronous call chain of a process.  The CLS         *)
(* middleware gives each request a store of its own, the guards            *)
(* authenticate it, and ClsUserInterceptor copies request.user.sub into    *)
(* the store.  A job runs outside of any request and has no store.  Routes *)
(* that need no token, all of today's, leave request.user undefined.       *)
(*                                                                         *)
(* The service builds a statement synchronously and awaits its result; the *)
(* server carries it out later, in any order with those of others.  Under  *)
(* READ COMMITTED a statement that waits for another writer of the row     *)
(* tests its WHERE again on what that one left, so it takes effect at once.*)
(*                                                                         *)
(* The columns of names are modelled, and of deleted_at whether it is      *)
(* NULL.  The times themselves are left out: created_at is the time of an  *)
(* event for a row of users and the server's for one of auth_credentials,  *)
(* updated_at the server's or the process's, and nothing relates them.     *)
(***************************************************************************)
EXTENDS Integers

CONSTANTS
  Contexts,      \* requests and jobs under way at a time
  Users,         \* subjects of access tokens
  Ids,           \* primary keys of the table
  MaxFaults      \* bound on lost statements and results

Nobody  == "null"      \* no current user; NULL in the columns
Unset   == "unset"     \* a store without CLS_USER_ID
NoStore == "no store"
Absent  == [createdBy |-> "none"]

ASSUME AuditableTableAssumption ==
  /\ Users \cap {Nobody, Unset, NoStore} = {}
  /\ MaxFaults \in Nat

VARIABLES
  row,           \* the table, by primary key
  pc,            \* where a context stands
  user,          \* request.user.sub
  store,         \* CLS_USER_ID in the store of a context
  sent,          \* statements the server has not carried out yet
  wait,          \* the statement a context awaits
  faults,        \* how many statements or results were lost
  writers        \* history: for whom a row was created, changed and deleted

context == <<pc, user, store>>
vars == <<row, context, sent, wait, faults, writers>>

Names     == Users \cup {Nobody}
Row       == [createdBy : Names, updatedBy : Names, deletedBy : Names,
              deleted : BOOLEAN]
\* for is history: whom the context that sent the statement works for.  nr tells
\* a statement from one its context sends after the result of the first was lost.
Statement == [context : Contexts, op : {"insert", "update", "softDelete", "delete"},
              id : Ids, by : Names, for : Names, nr : 0 .. MaxFaults]
None      == [op |-> "none"]

NewRow(name) == [createdBy |-> name, updatedBy |-> name, deletedBy |-> Nobody,
                 deleted |-> FALSE]
-----------------------------------------------------------------------------
Init ==
  /\ row    = [i \in Ids |-> Absent]
  /\ pc     = [c \in Contexts |-> "idle"]
  /\ user   = [c \in Contexts |-> Nobody]
  /\ store  = [c \in Contexts |-> NoStore]
  /\ sent   = {}
  /\ wait   = [c \in Contexts |-> None]
  /\ faults = 0
  /\ writers = [i \in Ids |-> Absent]

database == <<row, sent, wait, faults, writers>>

\* A request arrives: the middleware opens a store, and the guards of the
\* route find out whose token it carries, if they ask for one.
Mount(c) ==
  /\ pc[c] = "idle"
  /\ pc' = [pc EXCEPT ![c] = "guards"]
  /\ store' = [store EXCEPT ![c] = Unset]
  /\ \E u \in Names : user' = [user EXCEPT ![c] = u]
  /\ UNCHANGED database

\* mutant: one current user in a field of the service, not one per request
StoreForAll(c) == store' = [k \in Contexts |-> IF store[k] = NoStore THEN NoStore
                                                ELSE user[c]]

SetUserId(c) == store' = [store EXCEPT ![c] = user[c]]

\* ClsUserInterceptor.intercept; the handler of the route runs next.
Intercept(c) ==
  /\ pc[c] = "guards"
  /\ pc' = [pc EXCEPT ![c] = "handler"]
  /\ IF user[c] # Nobody THEN SetUserId(c) ELSE UNCHANGED store
  /\ UNCHANGED <<user, database>>

\* Work outside of a request.
StartJob(c) ==
  /\ pc[c] = "idle"
  /\ pc' = [pc EXCEPT ![c] = "handler"]
  /\ UNCHANGED <<user, store, database>>

\* The request or the job is over.
Leave(c) ==
  /\ pc[c] = "handler" /\ wait[c] = None
  /\ pc' = [pc EXCEPT ![c] = "idle"]
  /\ user' = [user EXCEPT ![c] = Nobody]
  /\ store' = [store EXCEPT ![c] = NoStore]
  /\ UNCHANGED database
-----------------------------------------------------------------------------
\* isActive() and get() of the store.
CurrentUserId(c) ==
  IF store[c] \notin {NoStore, Unset} THEN store[c] ELSE Nobody

\* The current user is read before the await.
Send(c, op, i) ==
  LET s == [context |-> c, op |-> op, id |-> i, by |-> CurrentUserId(c),
            for |-> user[c], nr |-> faults] IN
  /\ pc[c] = "handler" /\ wait[c] = None
  /\ sent' = sent \cup {s}
  /\ wait' = [wait EXCEPT ![c] = s]
  /\ UNCHANGED <<row, context, faults, writers>>

Insert(c, i)         == Send(c, "insert", i)
Update(c, i)         == Send(c, "update", i)
SoftDelete(c, i)     == Send(c, "softDelete", i)
DeleteByUserId(c, i) == Send(c, "delete", i)

\* isNull(table.deletedAt), as a WHERE finds it in row i.
NotDeleted(i) == row[i] # Absent /\ ~ row[i].deleted

\* The primary key is taken by deleted rows as well.
Inserts(s) == s.op = "insert" /\ row[s.id] = Absent

\* The WHERE of updateLastLogin.
Updates(s) == s.op = "update" /\ NotDeleted(s.id)

\* mutant: softDelete takes the WHERE of its caller as it is
SoftDeletesAny(s) == s.op = "softDelete" /\ row[s.id] # Absent

SoftDeletes(s) == s.op = "softDelete" /\ NotDeleted(s.id)

\* The WHERE of deleteByUserId takes deleted rows as well.
Deletes(s) == s.op = "delete" /\ row[s.id] # Absent

HasEffect(s) == Inserts(s) \/ Updates(s) \/ SoftDeletes(s) \/ Deletes(s)

RowAfter(s) ==
  CASE s.op = "insert"     -> NewRow(s.by)
    [] s.op = "update"     -> [row[s.id] EXCEPT !.updatedBy = s.by]
    [] s.op = "softDelete" -> [row[s.id] EXCEPT !.updatedBy = s.by, !.deletedBy = s.by,
                                                !.deleted = TRUE]
    [] s.op = "delete"     -> Absent

\* A row that was deleted once has no other writers, until it is removed.
WritersAfter(s) ==
  CASE s.op = "insert" -> NewRow(s.for)
    [] s.op = "delete" -> Absent
    [] s.op \in {"update", "softDelete"} /\ writers[s.id].deleted -> writers[s.id]
    [] s.op = "update" /\ ~ writers[s.id].deleted ->
         [writers[s.id] EXCEPT !.updatedBy = s.for]
    [] s.op = "softDelete" /\ ~ writers[s.id].deleted ->
         [writers[s.id] EXCEPT !.updatedBy = s.for, !.deletedBy = s.for,
                               !.deleted = TRUE]

\* The statement leaves the connection; whoever awaits it gets its result.
Finish(s) ==
  /\ sent' = sent \ {s}
  /\ wait' = [c \in Contexts |-> IF wait[c] = s THEN None ELSE wait[c]]

\* The server carries a statement out.
Execute(s) ==
  /\ HasEffect(s)
  /\ row' = [row EXCEPT ![s.id] = RowAfter(s)]
  /\ writers' = [writers EXCEPT ![s.id] = WritersAfter(s)]
  /\ Finish(s)
  /\ UNCHANGED <<context, faults>>

\* It violates a constraint or matches no row.
WithoutEffect(s) ==
  /\ ~ HasEffect(s)
  /\ Finish(s)
  /\ UNCHANGED <<row, context, faults, writers>>

Fault == faults < MaxFaults /\ faults' = faults + 1

\* It is lost on its way.
StatementLost(s) ==
  /\ Finish(s) /\ Fault
  /\ UNCHANGED <<row, context, writers>>

\* The connection breaks: the call throws, the statement may still be
\* carried out.
ResultLost(c) ==
  /\ wait[c] # None
  /\ wait' = [wait EXCEPT ![c] = None]
  /\ Fault
  /\ UNCHANGED <<row, context, sent, writers>>

-----------------------------------------------------------------------------
Next ==
  \/ \E c \in Contexts :
       \/ Mount(c) \/ Intercept(c) \/ StartJob(c) \/ Leave(c)
       \/ \E i \in Ids :
            Insert(c, i) \/ Update(c, i) \/ SoftDelete(c, i) \/ DeleteByUserId(c, i)
       \/ ResultLost(c)
  \/ \E s \in sent : Execute(s) \/ WithoutEffect(s) \/ StatementLost(s)

Spec == Init /\ [][Next]_vars
-----------------------------------------------------------------------------
\* The variables hold what the code keeps in them.
TypeOK ==
  /\ row \in [Ids -> Row \cup {Absent}]
  /\ pc \in [Contexts -> {"idle", "guards", "handler"}]
  /\ user \in [Contexts -> Names]
  /\ store \in [Contexts -> Users \cup {Unset, NoStore}]
  /\ sent \subseteq Statement
  /\ wait \in [Contexts -> Statement \cup {None}]
  /\ faults \in 0 .. MaxFaults
  /\ writers \in [Ids -> Row \cup {Absent}]

\* The audit columns name the users on whose behalf the row was created, last
\* changed and first deleted, however requests interleave and in whatever order
\* their statements arrive; NULL stands for nobody, never for somebody whose
\* context was lost, and no late update or second deletion puts its user into a
\* deleted row (auditable-table.service.ts:28-30, 67-82,
\* cls-user.interceptor.ts:15-24, auth-credentials.repository.ts:59-68).
AuditNamesWriters == \A i \in Ids : row[i] = writers[i]
=============================================================================
