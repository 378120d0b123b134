------------------------ MODULE AuditableTableProofs ------------------------
(***************************************************************************)
(* Safety of AuditableTable for any number of contexts, users and rows.    *)
(*                                                                         *)
(* The columns are written long after the context was asked, so the        *)
(* invariant follows the name from the store of the context (StoreIsUser)  *)
(* over the statement on its way (IsFromSender) to the row.                *)
(***************************************************************************)
EXTENDS AuditableTable, TLAPS

\* The store of a context names its user, once the interceptor has run.
StoreIsUser(c) ==
  /\ pc[c] = "idle" => store[c] = NoStore /\ user[c] = Nobody
  /\ pc[c] = "guards" => store[c] = Unset
  /\ pc[c] = "handler" => CurrentUserId(c) = user[c]

\* A statement carries its sender's user.
IsFromSender(s) == s.by = s.for

IInv ==
  /\ TypeOK
  /\ \A c \in Contexts : StoreIsUser(c)
  /\ \A s \in sent : IsFromSender(s)
  /\ AuditNamesWriters
-----------------------------------------------------------------------------
\* A missing row is told apart from every row.
LEMMA AbsentIsNoRow == Absent \notin Row
<1>1. SUFFICES ASSUME Absent \in Row PROVE FALSE
  OBVIOUS
<1>2. "deleted" \in DOMAIN Absent
  BY <1>1 DEF Row
<1> QED
  BY <1>2 DEF Absent

\* The empty table satisfies the invariant.
THEOREM InitCorrect == Init => IInv
<1> SUFFICES ASSUME Init PROVE IInv
  OBVIOUS
<1>1. TypeOK
  BY AuditableTableAssumption DEF Init, TypeOK, Names
<1>2. \A c \in Contexts : StoreIsUser(c)
  BY DEF Init, StoreIsUser
<1>3. AuditNamesWriters
  BY DEF Init, AuditNamesWriters
<1> QED
  BY <1>1, <1>2, <1>3 DEF Init, IInv

\* A step that leaves the table and its statements alone has only contexts to keep.
LEMMA ContextStep ==
  ASSUME IInv, UNCHANGED database, pc' \in [Contexts -> {"idle", "guards", "handler"}],
         user' \in [Contexts -> Names], store' \in [Contexts -> Users \cup {Unset, NoStore}],
         \A c \in Contexts : StoreIsUser(c)'
  PROVE  IInv'
<1> USE DEF database
<1>1. TypeOK'
  BY DEF IInv, TypeOK
<1>2. \A s \in sent' : IsFromSender(s)'
  BY DEF IInv, IsFromSender
<1>3. AuditNamesWriters'
  BY DEF IInv, AuditNamesWriters
<1> QED
  BY <1>1, <1>2, <1>3 DEF IInv

\* Requests and jobs that begin, are authenticated and end keep the invariant.
LEMMA ContextsCorrect ==
  ASSUME IInv, NEW c \in Contexts, Mount(c) \/ Intercept(c) \/ StartJob(c) \/ Leave(c)
  PROVE  IInv'
<1> USE DEF IInv, TypeOK, Names
<1>1. CASE Mount(c)
  <2>1. \A k \in Contexts : StoreIsUser(k)'
    BY <1>1 DEF Mount, StoreIsUser, CurrentUserId
  <2> QED
    BY <1>1, <2>1, ContextStep DEF Mount
<1>2. CASE Intercept(c)
  <2>1. \A k \in Contexts : StoreIsUser(k)'
    <3> SUFFICES ASSUME NEW k \in Contexts PROVE StoreIsUser(k)'
      OBVIOUS
    <3>1. CASE k # c
      BY <1>2, <3>1 DEF Intercept, SetUserId, StoreIsUser, CurrentUserId
    <3>2. CASE k = c /\ user[c] = Nobody
      BY <1>2, <3>2 DEF Intercept, StoreIsUser, CurrentUserId
    <3>3. CASE k = c /\ user[c] # Nobody
      <4>1. store'[c] = user[c] /\ user'[c] = user[c] /\ pc'[c] = "handler" /\ user[c] \in Users
        BY <1>2, <3>3 DEF Intercept, SetUserId
      <4>2. user[c] \notin {Unset, NoStore}
        BY <4>1, AuditableTableAssumption
      <4> QED
        BY <3>3, <4>1, <4>2 DEF StoreIsUser, CurrentUserId
    <3> QED
      BY <3>1, <3>2, <3>3
  <2> QED
    BY <1>2, <2>1, ContextStep DEF Intercept, SetUserId
<1>3. CASE StartJob(c)
  <2>1. \A k \in Contexts : StoreIsUser(k)'
    BY <1>3 DEF StartJob, StoreIsUser, CurrentUserId
  <2> QED
    BY <1>3, <2>1, ContextStep DEF StartJob
<1>4. CASE Leave(c)
  <2>1. \A k \in Contexts : StoreIsUser(k)'
    BY <1>4 DEF Leave, StoreIsUser, CurrentUserId
  <2> QED
    BY <1>4, <2>1, ContextStep DEF Leave
<1> QED
  BY <1>1, <1>2, <1>3, <1>4

\* Sending keeps the invariant: the statement is built from the context as it
\* is now.
LEMMA SendCorrect ==
  ASSUME IInv, NEW c \in Contexts, NEW i \in Ids,
         Insert(c, i) \/ Update(c, i) \/ SoftDelete(c, i) \/ DeleteByUserId(c, i)
  PROVE  IInv'
<1>1. PICK op \in {"insert", "update", "softDelete", "delete"} : Send(c, op, i)
  BY DEF Insert, Update, SoftDelete, DeleteByUserId
<1>2. pc[c] = "handler"
  BY <1>1 DEF Send
<1>3. CurrentUserId(c) = user[c] /\ user[c] \in Names /\ faults \in 0 .. MaxFaults
  BY <1>2 DEF IInv, TypeOK, StoreIsUser
<1>4. PICK s \in Statement :
        s = [context |-> c, op |-> op, id |-> i, by |-> CurrentUserId(c),
             for |-> user[c], nr |-> faults]
  BY <1>1, <1>3 DEF Statement
<1>5. /\ sent' = sent \cup {s} /\ wait' = [wait EXCEPT ![c] = s]
      /\ UNCHANGED <<row, pc, user, store, faults, writers>>
      /\ s.by = s.for
  BY <1>1, <1>3, <1>4 DEF Send, context
<1>6. TypeOK'
  BY <1>4, <1>5 DEF IInv, TypeOK
<1>7. \A k \in Contexts : StoreIsUser(k)'
  BY <1>5 DEF IInv, StoreIsUser, CurrentUserId
<1>8. \A t \in sent' : IsFromSender(t)'
  BY <1>5 DEF IInv, IsFromSender
<1>9. AuditNamesWriters'
  BY <1>5 DEF IInv, AuditNamesWriters
<1> QED
  BY <1>6, <1>7, <1>8, <1>9 DEF IInv

\* What a statement leaves in its row is what its sender's user accounts for: the
\* WHERE of the statement and the history part at the same statements.
LEMMA RowAfterCorrect ==
  ASSUME IInv, NEW s \in sent, HasEffect(s)
  PROVE  /\ s \in Statement
         /\ RowAfter(s) \in Row \cup {Absent}
         /\ RowAfter(s) = WritersAfter(s)
<1>1. s \in Statement /\ s.by = s.for
  BY DEF IInv, TypeOK, IsFromSender
<1>2. s.by \in Names /\ s.id \in Ids /\ Nobody \in Names
  BY <1>1 DEF Statement, Names
<1>3. row[s.id] = writers[s.id] /\ row[s.id] \in Row \cup {Absent}
  BY <1>2 DEF IInv, TypeOK, AuditNamesWriters
<1>4. CASE Inserts(s)
  <2>1. s.op = "insert"
    BY <1>4 DEF Inserts
  <2> QED
    BY <1>1, <1>2, <2>1 DEF RowAfter, WritersAfter, NewRow, Row
<1>5. CASE Deletes(s)
  <2>1. s.op = "delete"
    BY <1>5 DEF Deletes
  <2> QED
    BY <1>1, <2>1 DEF RowAfter, WritersAfter
<1>6. CASE Updates(s) \/ SoftDeletes(s)
  <2>1. /\ s.op \in {"update", "softDelete"}
        /\ row[s.id] \in Row /\ ~ row[s.id].deleted /\ ~ writers[s.id].deleted
    BY <1>3, <1>6 DEF Updates, SoftDeletes, NotDeleted
  <2>2. CASE s.op = "update"
    <3>1. RowAfter(s) = [row[s.id] EXCEPT !.updatedBy = s.by]
      BY <2>2 DEF RowAfter
    <3>2. WritersAfter(s) = [writers[s.id] EXCEPT !.updatedBy = s.for]
      BY <2>1, <2>2 DEF WritersAfter
    <3> QED
      BY <1>1, <1>2, <1>3, <2>1, <3>1, <3>2 DEF Row
  <2>3. CASE s.op = "softDelete"
    <3>1. RowAfter(s) = [row[s.id] EXCEPT !.updatedBy = s.by, !.deletedBy = s.by,
                                          !.deleted = TRUE]
      BY <2>3 DEF RowAfter
    <3>2. WritersAfter(s) = [writers[s.id] EXCEPT !.updatedBy = s.for, !.deletedBy = s.for,
                                                  !.deleted = TRUE]
      BY <2>1, <2>3 DEF WritersAfter
    <3> QED
      BY <1>1, <1>2, <1>3, <2>1, <3>1, <3>2 DEF Row
  <2> QED
    BY <2>1, <2>2, <2>3
<1> QED
  BY <1>1, <1>4, <1>5, <1>6 DEF HasEffect

\* Statements that are done leave the others as they were.
LEMMA FinishCorrect ==
  ASSUME TypeOK, NEW s \in sent, Finish(s)
  PROVE  sent' \subseteq sent /\ wait' \in [Contexts -> Statement \cup {None}]
  BY DEF Finish, TypeOK

\* Carrying a statement out keeps the invariant.
LEMMA ExecuteCorrect ==
  ASSUME IInv, NEW s \in sent, Execute(s)
  PROVE  IInv'
<1>1. /\ HasEffect(s)
      /\ row' = [row EXCEPT ![s.id] = RowAfter(s)]
      /\ writers' = [writers EXCEPT ![s.id] = WritersAfter(s)]
      /\ UNCHANGED <<pc, user, store, faults>>
      /\ sent' \subseteq sent /\ wait' \in [Contexts -> Statement \cup {None}]
  BY FinishCorrect DEF Execute, context, IInv
<1> DEFINE r == RowAfter(s)
           w == WritersAfter(s)
<1>2. s.id \in Ids /\ r \in Row \cup {Absent} /\ r = w
  BY <1>1, RowAfterCorrect DEF Statement
<1> HIDE DEF r, w
<1>3. /\ row'[s.id] = r /\ writers'[s.id] = w
      /\ \A i \in Ids \ {s.id} : row'[i] = row[i] /\ writers'[i] = writers[i]
  BY <1>1, <1>2 DEF IInv, TypeOK, r, w
<1>4. TypeOK'
  <2>1. /\ row' \in [Ids -> Row \cup {Absent}]
        /\ writers' \in [Ids -> Row \cup {Absent}]
    BY <1>1, <1>2 DEF IInv, TypeOK, r, w
  <2> QED
    BY <1>1, <2>1 DEF IInv, TypeOK
<1>5. \A c \in Contexts : StoreIsUser(c)'
  BY <1>1 DEF IInv, StoreIsUser, CurrentUserId
<1>6. \A t \in sent' : IsFromSender(t)'
  BY <1>1 DEF IInv, IsFromSender
<1>7. AuditNamesWriters'
  BY <1>2, <1>3 DEF IInv, AuditNamesWriters
<1> QED
  BY <1>4, <1>5, <1>6, <1>7 DEF IInv

\* Losing statements and results keeps the invariant.
LEMMA WorldCorrect ==
  ASSUME IInv,
         \/ \E s \in sent : WithoutEffect(s) \/ StatementLost(s)
         \/ \E c \in Contexts : ResultLost(c)
  PROVE  IInv'
<1>1. /\ UNCHANGED <<row, pc, user, store, writers>>
      /\ sent' \subseteq sent /\ wait' \in [Contexts -> Statement \cup {None}]
      /\ faults' \in 0 .. MaxFaults
  <2>1. CASE \E s \in sent : WithoutEffect(s) \/ StatementLost(s)
    BY <2>1, FinishCorrect, AuditableTableAssumption
    DEF WithoutEffect, StatementLost, Fault, context, IInv, TypeOK
  <2>2. CASE \E c \in Contexts : ResultLost(c)
    BY <2>2, AuditableTableAssumption DEF ResultLost, Fault, context, IInv, TypeOK
  <2> QED
    BY <2>1, <2>2
<1>2. TypeOK'
  BY <1>1 DEF IInv, TypeOK
<1>3. \A c \in Contexts : StoreIsUser(c)'
  BY <1>1 DEF IInv, StoreIsUser, CurrentUserId
<1>4. (\A s \in sent' : IsFromSender(s)') /\ AuditNamesWriters'
  BY <1>1 DEF IInv, IsFromSender, AuditNamesWriters
<1> QED
  BY <1>2, <1>3, <1>4 DEF IInv

\* Every step keeps the invariant.
THEOREM NextCorrect == IInv /\ [Next]_vars => IInv'
<1> SUFFICES ASSUME IInv, [Next]_vars PROVE IInv'
  OBVIOUS
<1>1. ASSUME NEW c \in Contexts, Mount(c) \/ Intercept(c) \/ StartJob(c) \/ Leave(c)
      PROVE  IInv'
  BY <1>1, ContextsCorrect
<1>2. ASSUME NEW c \in Contexts, NEW i \in Ids,
             Insert(c, i) \/ Update(c, i) \/ SoftDelete(c, i) \/ DeleteByUserId(c, i)
      PROVE  IInv'
  BY <1>2, SendCorrect
<1>3. ASSUME NEW s \in sent, Execute(s)
      PROVE  IInv'
  BY <1>3, ExecuteCorrect
<1>4. CASE \/ \E s \in sent : WithoutEffect(s) \/ StatementLost(s)
           \/ \E c \in Contexts : ResultLost(c)
  BY <1>4, WorldCorrect
<1>5. CASE UNCHANGED vars
  <2>1. UNCHANGED database /\ UNCHANGED <<pc, user, store>>
    BY <1>5 DEF vars, database, context
  <2>2. \A c \in Contexts : StoreIsUser(c)'
    BY <2>1 DEF IInv, StoreIsUser, CurrentUserId
  <2> QED
    BY <2>1, <2>2, ContextStep DEF IInv, TypeOK
<1> QED
  BY <1>1, <1>2, <1>3, <1>4, <1>5 DEF Next

\* The inductive invariant holds in every behaviour.
THEOREM Invariance == Spec => []IInv
  BY InitCorrect, NextCorrect, PTL DEF Spec

\* The variables always hold what the code keeps in them.
THEOREM TypeCorrect == Spec => []TypeOK
<1>1. IInv => TypeOK
  BY DEF IInv
<1> QED
  BY <1>1, Invariance, PTL

\* The audit columns always name those on whose behalf a row was created, last
\* changed and first deleted (auditable-table.service.ts:28-30, 67-82,
\* cls-user.interceptor.ts:15-24).
THEOREM WritersCorrect == Spec => []AuditNamesWriters
<1>1. IInv => AuditNamesWriters
  BY DEF IInv
<1> QED
  BY <1>1, Invariance, PTL
=============================================================================
