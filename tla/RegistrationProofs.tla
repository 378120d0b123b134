------------------------- MODULE RegistrationProofs -------------------------
(***************************************************************************)
(* Proofs about Registration for any number of requests, commands, texts   *)
(* and faults.  The invariant IInv ties each row of the three tables to    *)
(* the request that wrote it (Traced), says how far a request must have    *)
(* come (Staged), and what a request may still do when an account it       *)
(* duplicates was complete at its arrival (LateBlocked).                   *)
(***************************************************************************)
EXTENDS Registration, TLAPS

\* A row of a table was written by the request with its user id, and the
\* credentials of a request come after its event.
Traced ==
  /\ \A e \in domain_events :
       e = UserOf(e.userId) /\ pc[e.userId] \in {"project", "store", "done"}
  /\ \A u \in users : EventOf(u.userId) /\ u = UserOf(u.userId)
  /\ \A c \in auth_credentials :
       /\ c = CredentialOf(c.userId)
       /\ EventOf(c.userId) /\ pc[c.userId] = "done"
       /\ c.username \in UsernameRegex /\ c.email \in EmailRegex

\* Where a request stands, and what that says of its answer and its rows.
StageOf(r) ==
    /\ pc[r] = "new" => response[r] = "none"
    /\ pc[r] # "done" => response[r] \in {"none", "error", "lost"}
    /\ pc[r] \in {"checkEmail", "checkUsername"} => response[r] = "none"
    /\ pc[r] \notin {"new", "done"} => ValidDto(command[r])
    /\ pc[r] \in {"project", "store"} => EventOf(r) /\ ValidForUser(command[r])
    /\ EventOf(r) => ValidDto(command[r]) /\ ValidForUser(command[r])
    /\ r \in published => EventOf(r)
    /\ response[r] = "created" => CredentialOf(r) \in auth_credentials
    /\ response[r] \in {"invalid", "conflict", "created"} => pc[r] = "done"
    /\ response[r] \in {"invalid", "conflict"} => ~ EventOf(r)
Staged == \A r \in Requests : StageOf(r)

\* UNIQUE and PRIMARY KEY of auth_credentials.
KeysUnique == \A c, d \in auth_credentials : Clash(c, d) => c = d

\* A request that duplicates an account which was complete at its arrival is
\* caught by the pre-check of the key they share.
LateBlocked ==
  \A r \in Requests : \A q \in before[r] :
    /\ pc[r] # "new" /\ response[q] = "created"
    /\ Normal(command[r].email) = Normal(command[q].email) =>
         pc[r] \in {"checkEmail", "done"} /\ ~ EventOf(r)
    /\ command[r].username = command[q].username =>
         pc[r] \in {"checkEmail", "checkUsername", "done"} /\ ~ EventOf(r)

NewHasNoPast == \A r \in Requests : pc[r] = "new" => before[r] = {}

IInv ==
  TypeOK /\ Traced /\ Staged /\ KeysUnique /\ LateBlocked /\ NewHasNoPast
-----------------------------------------------------------------------------
\* The texts of a request that has arrived.
LEMMA CommandFacts ==
  ASSUME TypeOK, NEW r \in Requests, pc[r] # "new"
  PROVE  /\ command[r] \in Commands
         /\ command[r].email \in Texts
         /\ command[r].username \in Texts
         /\ command[r].password \in Passwords
BY CommandsAssumption DEF TypeOK, Command

\* The two contexts and the lookup normalise a valid e-mail alike.
LEMMA EmailAgrees ==
  ASSUME NEW c \in Commands, ValidDto(c)
  PROVE  /\ Normal(c.email) = Lower[c.email]
         /\ StoredEmail(c.email) = Lower[c.email]
         /\ Lower[c.email] \in Texts
BY CommandsAssumption, TextsAssumption DEF ValidDto, Normal, StoredEmail, Command

\* The row of a request that has arrived is a row of the read model,
LEMMA UserIsUser ==
  ASSUME TypeOK, NEW r \in Requests, pc[r] # "new"
  PROVE  UserOf(r) \in User /\ UserOf(r).userId = r
<1>1. Normal(command[r].email) \in Texts
  BY CommandFacts, TextsAssumption DEF Normal
<1> QED BY <1>1, CommandFacts DEF UserOf, User

\* ... and its credentials are a row of auth_credentials.
LEMMA CredentialIsCredential ==
  ASSUME TypeOK, NEW r \in Requests, pc[r] # "new"
  PROVE  CredentialOf(r) \in Credential /\ CredentialOf(r).userId = r
<1>1. StoredEmail(command[r].email) \in Texts
  BY CommandFacts, TextsAssumption DEF StoredEmail
<1> QED BY <1>1, CommandFacts DEF CredentialOf, Credential
-----------------------------------------------------------------------------
\* The initial state has the types,
LEMMA TypeInit == Init => TypeOK
BY CommandsAssumption DEF Init, TypeOK, Steps, Responses

\* ... and every step keeps them.
LEMMA TypeStep == TypeOK /\ [Next]_vars => TypeOK'
<1> SUFFICES ASSUME TypeOK, [Next]_vars PROVE TypeOK'
  OBVIOUS
<1> USE DEF Steps, Responses, tables, Fault
<1>1. CASE UNCHANGED vars
  BY <1>1 DEF vars, TypeOK
<1>2. CASE Crash
  BY <1>2, CommandsAssumption DEF Crash, TypeOK
<1>3. ASSUME NEW r \in Requests, NEW c \in Commands, Register(r, c)
      PROVE  TypeOK'
  BY <1>3 DEF Register, GoTo, Answer, TypeOK
<1>4. ASSUME NEW r \in Requests,
             \/ CheckEmail(r) \/ CheckUsername(r) \/ RejectUser(r)
             \/ StatementFails(r) \/ ConnectionLost(r) \/ WriteLost(r)
      PROVE  TypeOK'
  BY <1>4, CommandsAssumption
     DEF CheckEmail, CheckUsername, RejectUser, StatementFails, ConnectionLost, WriteLost,
         GoTo, Answer, TypeOK
<1>5. ASSUME NEW r \in Requests, AppendEvent(r)
      PROVE  TypeOK'
  <2>1. UserOf(r) \in User
    BY <1>5, UserIsUser DEF AppendEvent
  <2> QED BY <1>5, <2>1, CommandsAssumption
          DEF AppendEvent, GoTo, Answer, TypeOK
<1>6. ASSUME NEW r \in Requests, ProjectUser(r) \/ ProjectionFails(r)
      PROVE  TypeOK'
  <2>1. UserOf(r) \in User
    BY <1>6, UserIsUser DEF ProjectUser, ProjectionFails
  <2> QED BY <1>6, <2>1, CommandsAssumption
          DEF ProjectUser, ProjectionFails, InsertUser, Publish, GoTo, TypeOK
<1>7. ASSUME NEW r \in Requests, StoreCredentials(r)
      PROVE  TypeOK'
  <2>1. CredentialOf(r) \in Credential
    BY <1>7, CredentialIsCredential DEF StoreCredentials
  <2> QED BY <1>7, <2>1, CommandsAssumption
          DEF StoreCredentials, StoreFailed, Answer, TypeOK
<1> QED BY <1>1, <1>2, <1>3, <1>4, <1>5, <1>6, <1>7 DEF Next, Handle

\* The variables keep their types.
THEOREM TypeCorrect == Spec => []TypeOK
BY TypeInit, TypeStep, PTL DEF Spec
-----------------------------------------------------------------------------
\* Rows and commands that do not change keep what Traced says of them.
LEMMA SameRows ==
  ASSUME UNCHANGED <<command, tables>>
  PROVE  /\ \A r : UserOf(r)' = UserOf(r) /\ CredentialOf(r)' = CredentialOf(r)
         /\ \A r : EventOf(r)' = EventOf(r)
         /\ KeysUnique => KeysUnique'
BY DEF tables, UserOf, CredentialOf, EventOf, KeysUnique, Clash, Normal,
       StoredEmail

\* A request that is answered, or that a lost connection or a crash leaves with
\* a write on its way, and that writes nothing now.
Ends(r) ==
  \/ pc'[r] = pc[r] /\ response'[r] = response[r]
  \/ /\ pc[r] \notin {"new", "done"} /\ pc'[r] = "done"
     /\ \/ response'[r] \in {"error", "lost"}
        \/ response'[r] = "conflict" /\ pc[r] \in {"checkEmail", "checkUsername"}
  \/ /\ pc[r] \in {"append", "project", "store"} /\ pc'[r] = pc[r]
     /\ response'[r] \in {"error", "lost"}

\* Steps that end requests and write nothing keep the invariant.
LEMMA EndsStep ==
  ASSUME IInv, TypeOK', UNCHANGED <<command, tables, published, before>>,
         \A r \in Requests : Ends(r)
  PROVE  IInv'
<1> USE DEF IInv
<1>1. /\ \A r : UserOf(r)' = UserOf(r) /\ CredentialOf(r)' = CredentialOf(r)
      /\ \A r : EventOf(r)' = EventOf(r)
      /\ KeysUnique'
  BY SameRows
<1>2. \A r \in Requests : pc[r] \in {"project", "store", "done"} =>
                           pc'[r] \in {"project", "store", "done"}
  BY DEF Ends
<1>3. \A r \in Requests : pc[r] = "done" => pc'[r] = "done"
  BY DEF Ends
<1>4. Traced'
  <2>1. /\ \A e \in domain_events : e.userId \in Requests
        /\ \A c \in auth_credentials : c.userId \in Requests
    BY DEF TypeOK, User, Credential
  <2> QED BY <1>1, <1>2, <1>3, <2>1 DEF Traced, tables
<1>5. Staged'
  <2> SUFFICES ASSUME NEW r \in Requests PROVE StageOf(r)'
    BY DEF Staged
  <2>1. /\ command'[r] = command[r] /\ published' = published
        /\ auth_credentials' = auth_credentials
        /\ UserOf(r)' = UserOf(r) /\ CredentialOf(r)' = CredentialOf(r)
        /\ EventOf(r)' = EventOf(r)
    BY <1>1 DEF tables
  <2>2. ValidDto(command[r])' = ValidDto(command[r]) /\
        ValidForUser(command[r])' = ValidForUser(command[r])
    BY <2>1 DEF ValidDto, ValidForUser, Normal
  <2>3. pc[r] \in {"checkEmail", "checkUsername"} => ~ EventOf(r)
    BY DEF Traced, EventOf
  <2>4. StageOf(r)
    BY DEF Staged
  <2> QED BY <2>1, <2>2, <2>3, <2>4 DEF StageOf, Ends
<1>6. LateBlocked'
  BY <1>1 DEF LateBlocked, Ends, Staged, StageOf, TypeOK, Normal
<1>7. NewHasNoPast'
  BY DEF NewHasNoPast, Ends
<1> QED BY <1>1, <1>4, <1>5, <1>6, <1>7

\* A crash is such a step for every request in flight,
LEMMA CrashStep == ASSUME IInv, TypeOK', Crash PROVE IInv'
<1>1. UNCHANGED <<command, tables, published, before>>
  BY DEF Crash
<1>2. ASSUME NEW r \in Requests PROVE Ends(r)
  <2>1. CASE r \in InFlight
    BY <2>1 DEF Crash, InFlight, Ends, IInv, TypeOK, Steps
  <2>2. CASE r \notin InFlight
    BY <2>2 DEF Crash, Ends
  <2> QED BY <2>1, <2>2
<1> QED BY <1>1, <1>2, EndsStep

\* a lost connection is one for its request,
LEMMA ConnectionStep ==
  ASSUME IInv, TypeOK', NEW r \in Requests, ConnectionLost(r)
  PROVE  IInv'
<1>1. UNCHANGED <<command, tables, published, before>>
  BY DEF ConnectionLost
<1>2. \A q \in Requests : Ends(q)
  BY DEF ConnectionLost, Ends, IInv, TypeOK
<1> QED BY <1>1, <1>2, EndsStep

\* ... and so are refusals, failures and lost writes.
LEMMA EndStep ==
  ASSUME IInv, TypeOK', NEW r \in Requests,
         \/ RejectUser(r) \/ StatementFails(r) \/ WriteLost(r)
         \/ CheckEmail(r) /\ Found(command[r].email) # {}
         \/ CheckUsername(r) /\ Found(command[r].username) # {}
  PROVE  IInv'
<1>1. /\ UNCHANGED <<command, tables, published, before>>
      /\ pc[r] \notin {"new", "done"}
      /\ pc' = [pc EXCEPT ![r] = "done"]
      /\ \E status : /\ response' = [response EXCEPT ![r] = status]
                     /\ \/ status \in {"error", "lost"}
                        \/ status = "conflict" /\ pc[r] \in {"checkEmail", "checkUsername"}
  BY DEF RejectUser, StatementFails, WriteLost, CheckEmail, CheckUsername,
         Answer, Alive, IInv, Staged, StageOf
<1>2. \A q \in Requests : Ends(q)
  BY <1>1 DEF Ends, IInv, TypeOK
<1> QED BY <1>1, <1>2, EndsStep

\* An account that was complete when r arrived is found by the lookups of r.
LEMMA LateFound ==
  ASSUME IInv, NEW r \in Requests, NEW q \in before[r], ValidDto(command[r])
  PROVE  /\ Normal(command[r].email) = Normal(command[q].email) =>
              Found(command[r].email) # {}
         /\ command[r].username = command[q].username =>
              Found(command[r].username) # {}
<1> USE DEF IInv
<1>1. q \in Requests /\ pc[r] # "new" /\ response[q] = "created"
  BY DEF TypeOK, LateBlocked
<1>2. pc[q] = "done" /\ CredentialOf(q) \in auth_credentials
  BY <1>1 DEF Staged, StageOf
<1>3. ValidDto(command[q])
  BY <1>1, <1>2, CredentialIsCredential DEF Staged, StageOf, Traced
<1>4. /\ CredentialOf(q).email = Normal(command[q].email)
      /\ CredentialOf(q).username = command[q].username
  BY <1>1, <1>2, <1>3, CommandFacts, EmailAgrees DEF CredentialOf
<1>5. Lower[command[r].email] = Normal(command[r].email)
  BY <1>1, CommandFacts, EmailAgrees
<1> QED BY <1>2, <1>4, <1>5 DEF Found, Matches

\* The two pre-checks pass.
LEMMA PassStep ==
  ASSUME IInv, TypeOK', NEW r \in Requests,
         \/ CheckEmail(r) /\ Found(command[r].email) = {}
         \/ CheckUsername(r) /\ Found(command[r].username) = {}
  PROVE  IInv'
<1> USE DEF IInv
<1>1. /\ UNCHANGED <<command, tables, published, before, response>>
      /\ \/ /\ pc[r] = "checkEmail" /\ Found(command[r].email) = {}
            /\ pc' = [pc EXCEPT ![r] = "checkUsername"]
         \/ /\ pc[r] = "checkUsername" /\ Found(command[r].username) = {}
            /\ pc' = [pc EXCEPT ![r] = "append"]
  BY DEF CheckEmail, CheckUsername, GoTo, Alive, Staged, StageOf
<1>2. /\ \A q : UserOf(q)' = UserOf(q) /\ CredentialOf(q)' = CredentialOf(q)
      /\ \A q : EventOf(q)' = EventOf(q)
      /\ KeysUnique'
  BY <1>1, SameRows
<1>3. ValidDto(command[r]) /\ response[r] = "none"
  BY <1>1 DEF Staged, StageOf
<1>4. Traced'
  <2>1. /\ \A e \in domain_events : e.userId \in Requests
        /\ \A c \in auth_credentials : c.userId \in Requests
    BY DEF TypeOK, User, Credential
  <2> QED BY <1>1, <1>2, <2>1 DEF Traced, TypeOK, tables
<1>5. Staged'
  <2> SUFFICES ASSUME NEW q \in Requests PROVE StageOf(q)'
    BY DEF Staged
  <2>1. /\ ValidDto(command[q])' = ValidDto(command[q])
        /\ ValidForUser(command[q])' = ValidForUser(command[q])
    BY <1>1 DEF ValidDto, ValidForUser, Normal
  <2>2. StageOf(q)
    BY DEF Staged
  <2> QED BY <1>1, <1>2, <1>3, <2>1, <2>2 DEF StageOf, TypeOK, tables
<1>6. LateBlocked'
  <2> SUFFICES ASSUME NEW o \in Requests, NEW q \in before[o]
               PROVE
        /\ pc'[o] # "new" /\ response[q] = "created"
        /\ Normal(command[o].email) = Normal(command[q].email) =>
             pc'[o] \in {"checkEmail", "done"} /\ ~ EventOf(o)
        /\ command[o].username = command[q].username =>
             pc'[o] \in {"checkEmail", "checkUsername", "done"} /\ ~ EventOf(o)
    BY <1>1, <1>2 DEF LateBlocked, Normal
  <2>1. CASE o # r
    BY <1>1, <2>1 DEF LateBlocked, TypeOK
  <2>2. CASE o = r
    BY <1>1, <1>3, <2>2, LateFound, ZenonT(40) DEF LateBlocked, TypeOK
  <2> QED BY <2>1, <2>2
<1>7. NewHasNoPast'
  BY <1>1 DEF NewHasNoPast, TypeOK
<1> QED BY <1>2, <1>4, <1>5, <1>6, <1>7

\* A request arrives: no row of any table is its own yet.
LEMMA RegisterStep ==
  ASSUME IInv, TypeOK', NEW r \in Requests, NEW c \in Commands, Register(r, c)
  PROVE  IInv'
<1> USE DEF IInv
<1>1. /\ UNCHANGED <<tables, published>>
      /\ pc[r] = "new" /\ response[r] = "none"
      /\ command' = [command EXCEPT ![r] = c]
      /\ before' = [before EXCEPT ![r] = {q \in Requests : response[q] = "created"}]
      /\ \/ /\ ValidDto(c)
            /\ pc' = [pc EXCEPT ![r] = "checkEmail"] /\ UNCHANGED response
         \/ /\ pc' = [pc EXCEPT ![r] = "done"]
            /\ response' = [response EXCEPT ![r] = "invalid"]
  BY DEF Register, GoTo, Answer, Alive, Staged, StageOf
<1>2. /\ command'[r] = c
      /\ \A q \in Requests \ {r} :
           /\ command'[q] = command[q] /\ pc'[q] = pc[q]
           /\ response'[q] = response[q] /\ before'[q] = before[q]
  BY <1>1 DEF TypeOK
<1>3. \A q \in Requests \ {r} :
        UserOf(q)' = UserOf(q) /\ CredentialOf(q)' = CredentialOf(q)
  BY <1>2 DEF UserOf, CredentialOf, Normal, StoredEmail
<1>4. \A q : EventOf(q)' = EventOf(q)
  BY <1>1 DEF EventOf, tables
<1>5. ~ EventOf(r)
  BY <1>1 DEF EventOf, Traced
<1>6. Traced'
  <2>1. /\ \A e \in domain_events : e.userId \in Requests \ {r}
        /\ \A u \in users : u.userId \in Requests \ {r}
        /\ \A d \in auth_credentials : d.userId \in Requests \ {r}
    BY <1>1, <1>5 DEF Traced, TypeOK, User, Credential
  <2> QED BY <1>1, <1>2, <1>3, <1>4, <2>1 DEF Traced, tables
<1>7. Staged'
  <2> SUFFICES ASSUME NEW q \in Requests PROVE StageOf(q)'
    BY DEF Staged
  <2>1. StageOf(q)
    BY DEF Staged
  <2>2. CASE q = r
    <3>1. \/ pc'[r] = "checkEmail" /\ response'[r] = "none" /\ ValidDto(c)
          \/ pc'[r] = "done" /\ response'[r] = "invalid"
      BY <1>1 DEF TypeOK
    <3>2. r \notin published
      BY <1>5, <2>1, <2>2 DEF StageOf
    <3>3. ValidDto(command[r])' = ValidDto(c)
      BY <1>2 DEF ValidDto
    <3> QED BY <1>1, <1>4, <1>5, <2>2, <3>1, <3>2, <3>3 DEF StageOf
  <2>3. CASE q # r
    <3>1. /\ ValidDto(command[q])' = ValidDto(command[q])
          /\ ValidForUser(command[q])' = ValidForUser(command[q])
      BY <1>2, <2>3 DEF ValidDto, ValidForUser, Normal
    <3> QED BY <1>1, <1>2, <1>3, <1>4, <2>1, <2>3, <3>1 DEF StageOf, tables
  <2> QED BY <2>2, <2>3
<1>8. LateBlocked'
  <2> SUFFICES ASSUME NEW o \in Requests, NEW q \in before'[o]
               PROVE
        /\ pc'[o] # "new" /\ response'[q] = "created"
        /\ Normal(command'[o].email) = Normal(command'[q].email) =>
             pc'[o] \in {"checkEmail", "done"} /\ ~ EventOf(o)
        /\ command'[o].username = command'[q].username =>
             pc'[o] \in {"checkEmail", "checkUsername", "done"} /\ ~ EventOf(o)
    BY <1>4 DEF LateBlocked, Normal
  <2>1. CASE o # r
    <3>1. q \in before[o] /\ q \in Requests /\ q # r
      <4>1. before[o] \in SUBSET Requests
        BY DEF TypeOK
      <4>2. response[q] = "created"
        BY <1>2, <2>1, <4>1 DEF LateBlocked
      <4> QED BY <1>1, <1>2, <2>1, <4>1, <4>2
    <3> QED BY <1>2, <2>1, <3>1 DEF LateBlocked
  <2>2. CASE o = r
    <3>1. q \in Requests /\ response[q] = "created" /\ q # r
      BY <1>1, <2>2 DEF TypeOK
    <3>2. pc'[r] \in {"checkEmail", "done"}
      BY <1>1 DEF TypeOK
    <3> QED BY <1>2, <1>5, <2>2, <3>1, <3>2
  <2> QED BY <2>1, <2>2
<1>9. NewHasNoPast'
  BY <1>1 DEF NewHasNoPast, TypeOK
<1>10. KeysUnique'
  BY <1>1 DEF KeysUnique, Clash, tables
<1> QED BY <1>6, <1>7, <1>8, <1>9, <1>10

\* The event of r is stored; r goes on, has been told of an error, or has crashed.
LEMMA AppendStep ==
  ASSUME IInv, TypeOK', NEW r \in Requests,
         AppendEvent(r)
  PROVE  IInv'
<1> USE DEF IInv
<1>1. /\ UNCHANGED <<command, users, auth_credentials, published, before>>
      /\ pc[r] = "append" /\ ValidForUser(command[r])
      /\ domain_events' = domain_events \cup {UserOf(r)}
      /\ \/ pc' = [pc EXCEPT ![r] = "project"] /\ response' = response
         \/ pc' = [pc EXCEPT ![r] = "done"] /\ response' = response
            /\ response[r] \in {"error", "lost"}
  BY DEF AppendEvent, GoTo, Answer, Alive, Staged, StageOf
<1>2. /\ UserOf(r) \in User /\ UserOf(r).userId = r
      /\ ValidDto(command[r])
  BY <1>1, UserIsUser DEF Staged, StageOf
<1>3. \A q : UserOf(q)' = UserOf(q) /\ CredentialOf(q)' = CredentialOf(q)
  BY <1>1 DEF UserOf, CredentialOf, Normal, StoredEmail
<1>4. /\ EventOf(r)'
      /\ \A q : q # r => EventOf(q)' = EventOf(q)
      /\ \A q : EventOf(q) => EventOf(q)'
  BY <1>1, <1>2 DEF EventOf
<1>5. ~ EventOf(r)
  BY <1>1 DEF EventOf, Traced
<1>6. Traced'
  <2>1. /\ \A e \in domain_events' : e.userId \in Requests
        /\ \A c \in auth_credentials : c.userId \in Requests
    BY DEF TypeOK, User, Credential
  <2>2. ASSUME NEW e \in domain_events'
        PROVE  e = UserOf(e.userId) /\ pc'[e.userId] \in {"project", "store", "done"}
    <3>1. CASE e = UserOf(r)
      BY <1>1, <1>2, <3>1 DEF TypeOK
    <3>2. CASE e # UserOf(r)
      BY <1>1, <2>1, <3>2 DEF Traced, TypeOK
    <3> QED BY <3>1, <3>2
  <2>3. ASSUME NEW c \in auth_credentials PROVE pc'[c.userId] = "done"
    BY <1>1, <2>1 DEF Traced, TypeOK
  <2> QED BY <1>1, <1>3, <1>4, <2>2, <2>3 DEF Traced
<1>7. Staged'
  <2> SUFFICES ASSUME NEW q \in Requests PROVE StageOf(q)'
    BY DEF Staged
  <2>1. /\ ValidDto(command[q])' = ValidDto(command[q])
        /\ ValidForUser(command[q])' = ValidForUser(command[q])
    BY <1>1 DEF ValidDto, ValidForUser, Normal
  <2>2. StageOf(q)
    BY DEF Staged
  <2>3. CASE q = r
    <3>1. \/ pc'[r] = "project" /\ response'[r] = response[r]
          \/ pc'[r] = "done" /\ response'[r] \in {"lost", "error"}
      BY <1>1 DEF TypeOK
    <3>2. response[r] \in {"none", "error", "lost"}
      BY <1>1, <2>2, <2>3 DEF StageOf
    <3> QED BY <1>1, <1>2, <1>4, <2>1, <2>3, <3>1, <3>2 DEF StageOf
  <2>4. CASE q # r
    <3>1. pc'[q] = pc[q] /\ response'[q] = response[q]
      BY <1>1, <2>4 DEF TypeOK
    <3> QED BY <1>1, <1>3, <1>4, <2>1, <2>2, <2>4, <3>1 DEF StageOf
  <2> QED BY <2>3, <2>4
<1>8. LateBlocked'
  <2> SUFFICES ASSUME NEW o \in Requests, NEW q \in before[o]
               PROVE
        /\ pc'[o] # "new" /\ response'[q] = "created"
        /\ Normal(command[o].email) = Normal(command[q].email) =>
             pc'[o] \in {"checkEmail", "done"} /\ ~ EventOf(o)'
        /\ command[o].username = command[q].username =>
             pc'[o] \in {"checkEmail", "checkUsername", "done"} /\ ~ EventOf(o)'
    BY <1>1 DEF LateBlocked, Normal
  <2>1. response'[q] = "created"
    <3>1. response[q] = "created" /\ q \in Requests
      BY DEF LateBlocked, TypeOK
    <3>2. q # r
      BY <1>1, <3>1 DEF Staged, StageOf
    <3> QED BY <1>1, <3>1, <3>2 DEF TypeOK
  <2>2. CASE o # r
    BY <1>1, <1>4, <2>1, <2>2 DEF LateBlocked, TypeOK
  <2>3. CASE o = r
    BY <1>1, <2>1, <2>3 DEF LateBlocked, TypeOK
  <2> QED BY <2>2, <2>3
<1>9. NewHasNoPast'
  BY <1>1 DEF NewHasNoPast, TypeOK
<1>10. KeysUnique'
  BY <1>1 DEF KeysUnique, Clash
<1> QED BY <1>6, <1>7, <1>8, <1>9, <1>10

\* The projection of r has been tried and its event is published.
LEMMA ProjectStep ==
  ASSUME IInv, TypeOK', NEW r \in Requests,
         ProjectUser(r) \/ ProjectionFails(r)
  PROVE  IInv'
<1> USE DEF IInv
<1>1. /\ UNCHANGED <<command, domain_events, auth_credentials, before, response>>
      /\ pc[r] = "project"
      /\ users' \in {users, users \cup {UserOf(r)}}
      /\ published' \in {published, published \cup {r}}
      /\ \/ pc' = [pc EXCEPT ![r] = "store"]
         \/ pc' = [pc EXCEPT ![r] = "done"] /\ response[r] \in {"error", "lost"}
  BY DEF ProjectUser, ProjectionFails, InsertUser, Publish, GoTo, Alive, Staged,
         StageOf
<1>2. /\ UserOf(r).userId = r /\ ValidDto(command[r])
      /\ ValidForUser(command[r]) /\ EventOf(r)
  BY <1>1, UserIsUser DEF Staged, StageOf
<1>3. /\ \A q : UserOf(q)' = UserOf(q) /\ CredentialOf(q)' = CredentialOf(q)
      /\ \A q : EventOf(q)' = EventOf(q)
  BY <1>1 DEF UserOf, CredentialOf, Normal, StoredEmail, EventOf
<1>4. pc'[r] \in {"store", "done"} /\ \A q \in Requests \ {r} : pc'[q] = pc[q]
  BY <1>1 DEF TypeOK
<1>5. Traced'
  <2>1. /\ \A e \in domain_events : e.userId \in Requests
        /\ \A c \in auth_credentials : c.userId \in Requests
    BY DEF TypeOK, User, Credential
  <2>2. ASSUME NEW u \in users' PROVE EventOf(u.userId) /\ u = UserOf(u.userId)
    BY <1>1, <1>2 DEF Traced
  <2>3. \A c \in auth_credentials : pc'[c.userId] = "done"
    BY <1>1, <1>4, <2>1 DEF Traced
  <2>4. \A e \in domain_events : pc'[e.userId] \in {"project", "store", "done"}
    BY <1>4, <2>1 DEF Traced
  <2> QED BY <1>1, <1>3, <2>2, <2>3, <2>4 DEF Traced
<1>6. Staged'
  <2> SUFFICES ASSUME NEW q \in Requests PROVE StageOf(q)'
    BY DEF Staged
  <2>1. /\ ValidDto(command[q])' = ValidDto(command[q])
        /\ ValidForUser(command[q])' = ValidForUser(command[q])
    BY <1>1 DEF ValidDto, ValidForUser, Normal
  <2>2. StageOf(q)
    BY DEF Staged
  <2>3. CASE q = r
    <3>1. response[r] \in {"none", "error", "lost"} /\ (pc'[r] = "done" => response[r] # "none")
      BY <1>1, <2>2, <2>3 DEF StageOf, TypeOK
    <3> QED BY <1>1, <1>2, <1>3, <1>4, <2>1, <2>3, <3>1 DEF StageOf
  <2>4. CASE q # r
    BY <1>1, <1>3, <1>4, <2>1, <2>2, <2>4 DEF StageOf
  <2> QED BY <2>3, <2>4
<1>7. LateBlocked'
  <2> SUFFICES ASSUME NEW o \in Requests, NEW q \in before[o]
               PROVE
        /\ pc'[o] # "new" /\ response[q] = "created"
        /\ Normal(command[o].email) = Normal(command[q].email) =>
             pc'[o] \in {"checkEmail", "done"} /\ ~ EventOf(o)
        /\ command[o].username = command[q].username =>
             pc'[o] \in {"checkEmail", "checkUsername", "done"} /\ ~ EventOf(o)
    BY <1>1, <1>3 DEF LateBlocked, Normal
  <2>1. CASE o # r
    BY <1>4, <2>1 DEF LateBlocked
  <2>2. CASE o = r
    BY <1>1, <1>2, <1>4, <2>2 DEF LateBlocked
  <2> QED BY <2>1, <2>2
<1>8. NewHasNoPast'
  BY <1>1 DEF NewHasNoPast, TypeOK
<1>9. KeysUnique'
  BY <1>1 DEF KeysUnique, Clash
<1> QED BY <1>5, <1>6, <1>7, <1>8, <1>9

\* The credentials of r are stored.
LEMMA StoreStep ==
  ASSUME IInv, TypeOK', NEW r \in Requests, pc[r] = "store",
         UNCHANGED <<command, domain_events, users, published, before>>,
         ~ \E row \in auth_credentials : Clash(row, CredentialOf(r)),
         auth_credentials' = auth_credentials \cup {CredentialOf(r)},
         pc' = [pc EXCEPT ![r] = "done"],
         NEW status \in {"created", "error", "lost"},
         response' = [response EXCEPT ![r] = status]
  PROVE  IInv'
<1> USE DEF IInv
<1>1. /\ CredentialOf(r).userId = r /\ ValidDto(command[r])
      /\ ValidForUser(command[r]) /\ EventOf(r)
  BY CredentialIsCredential DEF Staged, StageOf
<1>2. /\ \A q : UserOf(q)' = UserOf(q) /\ CredentialOf(q)' = CredentialOf(q)
      /\ \A q : EventOf(q)' = EventOf(q)
  BY DEF UserOf, CredentialOf, Normal, StoredEmail, EventOf
<1>3. /\ pc'[r] = "done" /\ response'[r] = status
      /\ \A q \in Requests \ {r} : pc'[q] = pc[q] /\ response'[q] = response[q]
  BY DEF TypeOK
<1>4. CredentialOf(r).username \in UsernameRegex /\ CredentialOf(r).email \in EmailRegex
  BY <1>1, CommandFacts, EmailAgrees DEF ValidForUser, CredentialOf
<1>5. Traced'
  <2>1. /\ \A e \in domain_events : e.userId \in Requests
        /\ \A c \in auth_credentials : c.userId \in Requests
    BY DEF TypeOK, User, Credential
  <2>2. \A c \in auth_credentials' : pc'[c.userId] = "done"
    BY <1>1, <1>3, <2>1 DEF Traced
  <2>3. \A e \in domain_events : pc'[e.userId] \in {"project", "store", "done"}
    BY <1>3, <2>1 DEF Traced
  <2> QED BY <1>1, <1>2, <1>4, <2>2, <2>3 DEF Traced
<1>6. Staged'
  <2> SUFFICES ASSUME NEW q \in Requests PROVE StageOf(q)'
    BY DEF Staged
  <2>1. /\ ValidDto(command[q])' = ValidDto(command[q])
        /\ ValidForUser(command[q])' = ValidForUser(command[q])
    BY DEF ValidDto, ValidForUser, Normal
  <2>2. StageOf(q)
    BY DEF Staged
  <2>3. CASE q = r
    BY <1>1, <1>2, <1>3, <2>1, <2>2, <2>3 DEF StageOf
  <2>4. CASE q # r
    BY <1>2, <1>3, <2>1, <2>2, <2>4 DEF StageOf
  <2> QED BY <2>3, <2>4
<1>7. LateBlocked'
  <2> SUFFICES ASSUME NEW o \in Requests, NEW q \in before[o]
               PROVE
        /\ pc'[o] # "new" /\ response'[q] = "created"
        /\ Normal(command[o].email) = Normal(command[q].email) =>
             pc'[o] \in {"checkEmail", "done"} /\ ~ EventOf(o)
        /\ command[o].username = command[q].username =>
             pc'[o] \in {"checkEmail", "checkUsername", "done"} /\ ~ EventOf(o)
    BY <1>2 DEF LateBlocked, Normal
  <2>1. response'[q] = "created"
    <3>1. response[q] = "created" /\ q \in Requests
      BY DEF LateBlocked, TypeOK
    <3>2. q # r
      BY <3>1 DEF Staged, StageOf
    <3> QED BY <1>3, <3>1, <3>2
  <2>2. CASE o # r
    BY <1>3, <2>1, <2>2 DEF LateBlocked
  <2>3. CASE o = r
    BY <1>1, <1>3, <2>1, <2>3 DEF LateBlocked
  <2> QED BY <2>2, <2>3
<1>8. NewHasNoPast'
  BY DEF NewHasNoPast, TypeOK
<1>9. KeysUnique'
  BY DEF KeysUnique, Clash
<1> QED BY <1>5, <1>6, <1>7, <1>8, <1>9

\* ... or refused by a unique constraint, or stored when its client has already
\* been told of an error.
LEMMA StoreCases ==
  ASSUME IInv, TypeOK', NEW r \in Requests,
         StoreCredentials(r)
  PROVE  IInv'
<1>1. CASE \E row \in auth_credentials : Clash(row, CredentialOf(r))
  <2>1. /\ UNCHANGED <<command, tables, published, before>>
        /\ pc[r] = "store" /\ pc' = [pc EXCEPT ![r] = "done"]
        /\ response' = [response EXCEPT ![r] = IF Alive(r) THEN "error" ELSE @]
    BY <1>1 DEF StoreCredentials, Answer, StoreFailed, tables
  <2>2. \A q \in Requests : Ends(q)
    BY <2>1 DEF Ends, Alive, IInv, TypeOK, Staged, StageOf
  <2> QED BY <2>1, <2>2, EndsStep
<1>2. CASE ~ \E row \in auth_credentials : Clash(row, CredentialOf(r))
  <2>1. PICK status \in {"created", "error", "lost"} :
          /\ UNCHANGED <<command, domain_events, users, published, before>>
          /\ pc[r] = "store" /\ pc' = [pc EXCEPT ![r] = "done"]
          /\ auth_credentials' = auth_credentials \cup {CredentialOf(r)}
          /\ response' = [response EXCEPT ![r] = status]
    <3>1. pc[r] = "store" /\ response[r] \in {"none", "error", "lost"}
      BY DEF StoreCredentials, IInv, Staged, StageOf
    <3> QED BY <1>2, <3>1 DEF StoreCredentials, Answer, Alive
  <2> QED BY <1>2, <2>1, StoreStep
<1> QED BY <1>1, <1>2
-----------------------------------------------------------------------------
\* The initial state satisfies the invariant,
LEMMA InvInit == Init => IInv
BY TypeInit DEF Init, IInv, Traced, Staged, StageOf, EventOf, KeysUnique,
                LateBlocked, NewHasNoPast

\* ... and every step keeps it.
LEMMA InvStep == IInv /\ [Next]_vars => IInv'
<1> SUFFICES ASSUME IInv, [Next]_vars PROVE IInv'
  OBVIOUS
<1>1. TypeOK'
  BY TypeStep DEF IInv
<1>2. CASE UNCHANGED vars
  BY <1>1, <1>2, EndsStep DEF vars, Ends
<1>3. CASE Crash
  BY <1>1, <1>3, CrashStep
<1>4. ASSUME NEW r \in Requests, NEW c \in Commands, Register(r, c) PROVE IInv'
  BY <1>1, <1>4, RegisterStep
<1>5. ASSUME NEW r \in Requests, Handle(r) PROVE IInv'
  BY <1>1, <1>5, PassStep, EndStep, AppendStep, ProjectStep, StoreCases
     DEF Handle
<1>6. ASSUME NEW r \in Requests,
             \/ StatementFails(r) \/ ConnectionLost(r)
             \/ ProjectionFails(r) \/ WriteLost(r)
      PROVE  IInv'
  BY <1>1, <1>6, EndStep, ConnectionStep, ProjectStep
<1> QED BY <1>2, <1>3, <1>4, <1>5, <1>6 DEF Next

\* Every reachable state satisfies the inductive invariant.
THEOREM Invariance == Spec => []IInv
BY InvInit, InvStep, PTL DEF Spec
-----------------------------------------------------------------------------
\* The stored credentials of a request tell what its event tells.
LEMMA BackedFromInv == IInv => CredentialsAreBacked
<1> SUFFICES ASSUME IInv, NEW c \in auth_credentials
             PROVE  \E e \in domain_events :
               e.userId = c.userId /\ e.email = c.email /\ e.username = c.username
  BY DEF CredentialsAreBacked
<1>1. c.userId \in Requests /\ c = CredentialOf(c.userId) /\ pc[c.userId] = "done"
  BY DEF IInv, TypeOK, Traced, Credential
<1>2. PICK e \in domain_events : e.userId = c.userId
  BY DEF IInv, Traced, EventOf
<1>3. e = UserOf(c.userId)
  BY <1>2 DEF IInv, Traced
<1>4. ValidDto(command[c.userId])
  BY <1>1, <1>2 DEF IInv, Staged, StageOf, EventOf
<1>5. /\ Normal(command[c.userId].email) = StoredEmail(command[c.userId].email)
  BY <1>1, <1>4, CommandFacts, EmailAgrees DEF IInv
<1> QED BY <1>1, <1>2, <1>3, <1>5 DEF UserOf, CredentialOf

\* Two rows an identifier matches are one row: both match by the same key, and
\* keys are unique, or one e-mail would be a username in lower case.
LEMMA UnambiguousFromInv == IInv => IdentifierUnambiguous
<1> SUFFICES ASSUME IInv, NEW t \in Texts, NEW c \in Found(t), NEW d \in Found(t)
             PROVE  c = d
  BY DEF IdentifierUnambiguous
<1>1. /\ c \in auth_credentials /\ Matches(c, t)
      /\ d \in auth_credentials /\ Matches(d, t)
  BY DEF Found
<1>2. /\ c.email \in EmailRegex /\ c.username \in UsernameRegex
      /\ d.email \in EmailRegex /\ d.username \in UsernameRegex
  BY <1>1 DEF IInv, Traced
<1>3. t \in UsernameRegex => Lower[t] \notin EmailRegex
  BY TextsAssumption
<1>4. Clash(c, d)
  BY <1>1, <1>2, <1>3 DEF Matches, Clash
<1> QED BY <1>1, <1>4 DEF IInv, KeysUnique

\* A credential and a projected row each point back to an event.
LEMMA NoTraceFromInv == IInv => RejectedLeavesNoTrace
<1> SUFFICES ASSUME IInv, NEW r \in Requests, response[r] \in {"invalid", "conflict"}
             PROVE  /\ ~ EventOf(r) /\ ~ HasCredential(r) /\ r \notin published
                    /\ \A u \in users : u.userId # r
  BY DEF RejectedLeavesNoTrace
<1>1. ~ EventOf(r) /\ r \notin published
  BY DEF IInv, Staged, StageOf
<1> QED BY <1>1 DEF IInv, Traced, HasCredential

\* The credentials of a created account are found, and nothing else is.
LEMMA LogInFromInv == IInv => CreatedCanLogIn
<1> SUFFICES ASSUME IInv, NEW r \in Requests, response[r] = "created"
             PROVE  /\ EventOf(r)
                    /\ Found(command[r].email) = {CredentialOf(r)}
                    /\ Found(command[r].username) = {CredentialOf(r)}
  BY DEF CreatedCanLogIn
<1>1. pc[r] = "done" /\ CredentialOf(r) \in auth_credentials
  BY DEF IInv, Staged, StageOf
<1>2. command[r] \in Commands /\ command[r].email \in Texts
      /\ command[r].username \in Texts /\ CredentialOf(r).userId = r
  BY <1>1, CommandFacts, CredentialIsCredential DEF IInv
<1>3. EventOf(r)
  BY <1>1, <1>2 DEF IInv, Traced
<1>4. StoredEmail(command[r].email) = Lower[command[r].email]
  BY <1>2, <1>3, EmailAgrees DEF IInv, Staged, StageOf
<1>5. /\ CredentialOf(r) \in Found(command[r].email)
      /\ CredentialOf(r) \in Found(command[r].username)
  BY <1>1, <1>4 DEF Found, Matches, CredentialOf
<1> QED BY <1>2, <1>3, <1>5, UnambiguousFromInv DEF IdentifierUnambiguous

\* Credentials belong to a user the event store knows, with the same e-mail
\* and username (register.handler.ts:72-86).
THEOREM BackedCorrect == Spec => []CredentialsAreBacked
BY Invariance, BackedFromInv, PTL

\* A login identifier names at most one account
\* (auth-credentials.repository.ts:30-39).
THEOREM UnambiguousCorrect == Spec => []IdentifierUnambiguous
BY Invariance, UnambiguousFromInv, PTL

\* A request answered 400 or 409 left nothing in any table
\* (register.handler.ts:47-66).
THEOREM NoTraceCorrect == Spec => []RejectedLeavesNoTrace
BY Invariance, NoTraceFromInv, PTL

\* A request answered 201 has an account both of its identifiers lead to
\* (register.handler.ts:77-97).
THEOREM LogInCorrect == Spec => []CreatedCanLogIn
BY Invariance, LogInFromInv, PTL

\* A duplicate of an account that was complete when it arrived never reaches
\* the event store (register.handler.ts:47-66).
THEOREM LateDuplicateCorrect == Spec => []LateDuplicateNotWritten
<1>1. IInv => LateDuplicateNotWritten
  BY DEF IInv, LateBlocked, LateDuplicateNotWritten, SameKey
<1> QED BY <1>1, Invariance, PTL
-----------------------------------------------------------------------------
(***************************************************************************)
(* Why a registration is refused, and what it leaves behind.  Without a    *)
(* fault no request is left without an answer, or told of an error too     *)
(* early, and every credential was acknowledged (NothingLost); a refusal has a holder of one of its keys   *)
(* (HasReason), and so has an event without credentials, because its       *)
(* request was refused by the last insert (OrphanTold).                    *)
(***************************************************************************)

\* r is not answered before it is done.
Unlost(r) == response[r] # "lost" /\ (response[r] = "error" => pc[r] = "done")

NothingLost ==
  faults = 0 => /\ \A r \in Requests : Unlost(r)
                /\ \A c \in auth_credentials : response[c.userId] = "created"

Refused(r) == response[r] = "conflict" \/ (response[r] = "error" /\ faults = 0)

HasReason(r) == Refused(r) /\ ValidForUser(command[r]) => Holders(r) # {}

OrphanTold(r) ==
  pc[r] = "done" /\ EventOf(r) /\ ~ HasCredential(r) => response[r] \in {"error", "lost"}

OutcomeInv ==
  /\ NothingLost
  /\ \A r \in Requests : HasReason(r) /\ OrphanTold(r)
  /\ ProjectionComplete

\* Credentials and their holders are there for good, and faults are counted.
LEMMA OthersKeepOutcome ==
  ASSUME IInv, OutcomeInv, [Next]_vars, NEW r \in Requests,
         pc'[r] = pc[r], response'[r] = response[r], command'[r] = command[r],
         EventOf(r)' = EventOf(r)
  PROVE  HasReason(r)' /\ OrphanTold(r)'
<1>1. auth_credentials \subseteq auth_credentials' /\ (faults' = 0 => faults = 0)
  <2> USE DEF Fault, tables
  <2>1. faults \in Nat
    BY CommandsAssumption DEF IInv, TypeOK
  <2>2. CASE UNCHANGED vars
    BY <2>2 DEF vars
  <2>3. CASE Crash
    BY <2>1, <2>3 DEF Crash
  <2>4. ASSUME NEW q \in Requests, NEW c \in Commands, Register(q, c)
        PROVE  auth_credentials \subseteq auth_credentials' /\ (faults' = 0 => faults = 0)
    BY <2>4 DEF Register
  <2>5. ASSUME NEW q \in Requests, Handle(q)
        PROVE  auth_credentials \subseteq auth_credentials' /\ (faults' = 0 => faults = 0)
    BY <2>5 DEF Handle, CheckEmail, CheckUsername, RejectUser, AppendEvent,
                ProjectUser, StoreCredentials
  <2>6. ASSUME NEW q \in Requests,
               \/ StatementFails(q) \/ ConnectionLost(q)
               \/ ProjectionFails(q) \/ WriteLost(q)
        PROVE  auth_credentials \subseteq auth_credentials' /\ (faults' = 0 => faults = 0)
    BY <2>1, <2>6 DEF StatementFails, ConnectionLost, ProjectionFails, WriteLost
  <2> QED BY <2>2, <2>3, <2>4, <2>5, <2>6 DEF Next
<1>2. ValidForUser(command[r])' = ValidForUser(command[r])
  BY DEF ValidForUser, Normal
<1>3. Holders(r) \subseteq Holders(r)'
  BY <1>1 DEF Holders, Normal
<1>4. HasCredential(r) => HasCredential(r)'
  BY <1>1 DEF HasCredential
<1> QED BY <1>1, <1>2, <1>3, <1>4 DEF OutcomeInv, HasReason, OrphanTold, Refused

\* A row the lookups of r find is the account of another request, by a key r
\* asks for: an e-mail is no username, whatever its case.
LEMMA FoundIsHolder ==
  ASSUME IInv, NEW r \in Requests, pc[r] # "new", pc[r] # "done",
         ValidForUser(command[r]),
         Found(command[r].email) # {} \/ Found(command[r].username) # {}
  PROVE  Holders(r) # {}
<1>1. command[r] \in Commands /\ command[r].email \in Texts
      /\ command[r].username \in Texts /\ ValidDto(command[r])
  BY CommandFacts DEF IInv, Staged, StageOf
<1>2. Lower[command[r].email] = Normal(command[r].email)
  BY <1>1, EmailAgrees
<1>3. PICK c \in auth_credentials :
        Matches(c, command[r].email) \/ Matches(c, command[r].username)
  BY DEF Found
<1>4. /\ c.username \in UsernameRegex /\ c.email \in EmailRegex
      /\ c.userId # r
  BY <1>3 DEF IInv, Traced
<1>5. c.username # command[r].email /\ c.email # Lower[command[r].username]
  BY <1>1, <1>2, <1>4, TextsAssumption DEF ValidForUser
<1>6. c.email = Normal(command[r].email) \/ c.username = command[r].username
  BY <1>2, <1>3, <1>5 DEF Matches
<1> QED BY <1>3, <1>4, <1>6 DEF Holders

\* A row the insert of r collides with is one, too.
LEMMA ClashIsHolder ==
  ASSUME IInv, NEW r \in Requests, pc[r] = "store",
         \E row \in auth_credentials : Clash(row, CredentialOf(r))
  PROVE  Holders(r) # {}
<1>1. PICK row \in auth_credentials : Clash(row, CredentialOf(r))
  OBVIOUS
<1>2. row.userId # r
  BY <1>1 DEF IInv, Traced
<1>3. CredentialOf(r).email = Normal(command[r].email)
      /\ CredentialOf(r).username = command[r].username /\ CredentialOf(r).userId = r
  <2>1. ValidDto(command[r]) /\ command[r] \in Commands
    BY CommandFacts DEF IInv, Staged, StageOf
  <2> QED BY <2>1, EmailAgrees DEF CredentialOf
<1> QED BY <1>1, <1>2, <1>3 DEF Clash, Holders

\* NothingLost is kept: who is not answered, or answered without the
\* credentials, has met a fault.
LEMMA NothingLostStep ==
  ASSUME IInv, OutcomeInv, [Next]_vars
  PROVE  NothingLost'
<1> USE DEF Fault, tables
<1>1. faults \in Nat
  BY CommandsAssumption DEF IInv, TypeOK
<1> SUFFICES ASSUME faults' = 0
             PROVE  /\ \A r \in Requests : Unlost(r)'
                    /\ \A c \in auth_credentials' : response'[c.userId] = "created"
  BY DEF NothingLost
<1>2. \A c \in auth_credentials : c.userId \in Requests /\ pc[c.userId] = "done"
  BY DEF IInv, TypeOK, Traced, Credential
<1>3. response \in [Requests -> Responses] /\ pc \in [Requests -> Steps]
  BY DEF IInv, TypeOK
<1>4. ASSUME faults = 0, NEW q \in Requests, pc[q] # "done"
      PROVE  response[q] = "none"
  BY <1>4 DEF IInv, Staged, StageOf, OutcomeInv, NothingLost, Unlost
<1>5. CASE UNCHANGED vars
  BY <1>5 DEF vars, OutcomeInv, NothingLost, Unlost
<1>6. CASE Crash
  BY <1>1, <1>6 DEF Crash
<1>7. ASSUME NEW q \in Requests, NEW c \in Commands, Register(q, c)
      PROVE  /\ \A r \in Requests : Unlost(r)'
             /\ \A d \in auth_credentials' : response'[d.userId] = "created"
  BY <1>2, <1>3, <1>4, <1>7 DEF Register, GoTo, Answer, OutcomeInv, NothingLost, Unlost
<1>8. ASSUME NEW q \in Requests,
             \/ CheckEmail(q) \/ CheckUsername(q) \/ RejectUser(q)
             \/ AppendEvent(q) \/ ProjectUser(q)
      PROVE  /\ \A r \in Requests : Unlost(r)'
             /\ \A d \in auth_credentials' : response'[d.userId] = "created"
  <2>1. /\ faults = 0 /\ pc[q] # "done" /\ auth_credentials' = auth_credentials
        /\ response'[q] \in {"none", "conflict", "error"}
        /\ response'[q] = "error" => pc'[q] = "done"
        /\ \A r \in Requests \ {q} : pc'[r] = pc[r] /\ response'[r] = response[r]
    BY <1>3, <1>4, <1>8
       DEF CheckEmail, CheckUsername, RejectUser, AppendEvent, ProjectUser, GoTo, Answer
  <2> QED BY <1>2, <2>1 DEF OutcomeInv, NothingLost, Unlost
<1>9. ASSUME NEW q \in Requests, StoreCredentials(q)
      PROVE  /\ \A r \in Requests : Unlost(r)'
             /\ \A d \in auth_credentials' : response'[d.userId] = "created"
  <2>1. /\ faults = 0 /\ pc[q] = "store" /\ response[q] = "none"
        /\ CredentialOf(q).userId = q
    <3>1. faults = 0 /\ pc[q] = "store"
      BY <1>9 DEF StoreCredentials
    <3>2. response[q] = "none"
      BY <1>4, <3>1
    <3> QED BY <3>1, <3>2, CredentialIsCredential DEF IInv
  <2>2. /\ pc'[q] = "done" /\ response'[q] # "lost"
        /\ \A r \in Requests \ {q} : pc'[r] = pc[r] /\ response'[r] = response[r]
    BY <1>3, <1>9, <2>1 DEF StoreCredentials, StoreFailed, Answer, Alive
  <2>3. \/ auth_credentials' = auth_credentials
        \/ /\ auth_credentials' = auth_credentials \cup {CredentialOf(q)}
           /\ response'[q] = "created"
    BY <1>3, <1>9, <2>1 DEF StoreCredentials, Answer, Alive
  <2> QED BY <1>2, <2>1, <2>2, <2>3 DEF OutcomeInv, NothingLost, Unlost
<1>10. ASSUME NEW q \in Requests,
             \/ StatementFails(q) \/ ConnectionLost(q) \/ ProjectionFails(q)
      PROVE  FALSE
  BY <1>1, <1>10 DEF StatementFails, ConnectionLost, ProjectionFails
<1>11. ASSUME NEW q \in Requests, WriteLost(q) PROVE FALSE
  BY <1>11 DEF WriteLost, Alive, IInv, Staged, StageOf, OutcomeInv, NothingLost, Unlost
<1> QED BY <1>5, <1>6, <1>7, <1>8, <1>9, <1>10, <1>11 DEF Next, Handle

\* One request takes a step, the others keep theirs.
LEMMA OutcomeOf ==
  ASSUME IInv, OutcomeInv, [Next]_vars, NEW q \in Requests,
         \A r \in Requests \ {q} :
           /\ pc'[r] = pc[r] /\ response'[r] = response[r]
           /\ command'[r] = command[r] /\ EventOf(r)' = EventOf(r),
         HasReason(q)' /\ OrphanTold(q)'
  PROVE  \A r \in Requests : HasReason(r)' /\ OrphanTold(r)'
<1> SUFFICES ASSUME NEW r \in Requests PROVE HasReason(r)' /\ OrphanTold(r)'
  OBVIOUS
<1>1. CASE r = q
  BY <1>1
<1>2. CASE r # q
  BY <1>2, OthersKeepOutcome
<1> QED BY <1>1, <1>2

\* A request that is refused has a reason, and one that ends after its event
\* was stored is told an error, or nothing.
LEMMA OutcomeStep ==
  ASSUME IInv, OutcomeInv, [Next]_vars, IInv'
  PROVE  \A r \in Requests : HasReason(r)' /\ OrphanTold(r)'
<1> USE DEF Fault, tables
<1>1. faults \in Nat /\ pc \in [Requests -> Steps] /\ response \in [Requests -> Responses]
      /\ command \in [Requests -> Commands \cup {NoCommand}]
  BY CommandsAssumption DEF IInv, TypeOK
<1>2. CASE UNCHANGED vars
  <2>1. \A r \in Requests : EventOf(r)' = EventOf(r)
    BY <1>2 DEF vars, EventOf
  <2> QED BY <1>2, <2>1, OthersKeepOutcome DEF vars
<1>3. CASE Crash
  <2> SUFFICES ASSUME NEW r \in Requests PROVE HasReason(r)' /\ OrphanTold(r)'
    OBVIOUS
  <2>1. EventOf(r)' = EventOf(r) /\ command' = command
    BY <1>3 DEF Crash, EventOf
  <2>2. CASE r \in InFlight
    BY <1>1, <1>3, <2>2 DEF Crash, HasReason, OrphanTold, Refused
  <2>3. CASE r \notin InFlight
    BY <1>1, <1>3, <2>1, <2>3, OthersKeepOutcome DEF Crash
  <2> QED BY <2>2, <2>3
<1>4. ASSUME NEW q \in Requests, NEW c \in Commands, Register(q, c)
      PROVE  \A r \in Requests : HasReason(r)' /\ OrphanTold(r)'
  <2>1. \A r \in Requests : EventOf(r)' = EventOf(r)
    BY <1>4 DEF Register, EventOf
  <2>2. ~ EventOf(q) /\ response[q] = "none"
    BY <1>4 DEF Register, EventOf, IInv, Traced, Staged, StageOf
  <2>3. response'[q] \in {"none", "invalid"}
    BY <1>1, <1>4, <2>2 DEF Register, GoTo, Answer
  <2>4. HasReason(q)' /\ OrphanTold(q)'
    BY <2>1, <2>2, <2>3 DEF HasReason, OrphanTold, Refused
  <2>5. \A r \in Requests \ {q} :
          pc'[r] = pc[r] /\ response'[r] = response[r] /\ command'[r] = command[r]
    BY <1>1, <1>4 DEF Register, GoTo, Answer
  <2> QED BY <2>1, <2>4, <2>5, OutcomeOf
<1>5. ASSUME NEW q \in Requests,
             \/ CheckEmail(q) \/ CheckUsername(q) \/ RejectUser(q)
             \/ StatementFails(q) \/ ConnectionLost(q) \/ WriteLost(q)
      PROVE  \A r \in Requests : HasReason(r)' /\ OrphanTold(r)'
  <2>1. \A r \in Requests : EventOf(r)' = EventOf(r)
    BY <1>5 DEF CheckEmail, CheckUsername, RejectUser, StatementFails, ConnectionLost, WriteLost,
                EventOf
  <2>2. \A r \in Requests \ {q} :
          pc'[r] = pc[r] /\ response'[r] = response[r] /\ command'[r] = command[r]
    BY <1>1, <1>5 DEF CheckEmail, CheckUsername, RejectUser, StatementFails,
                      ConnectionLost, WriteLost, GoTo, Answer
  <2>3. response[q] \in {"none", "error", "lost"} /\ pc[q] # "new" /\ pc[q] # "done"
    BY <1>5 DEF CheckEmail, CheckUsername, RejectUser, StatementFails, ConnectionLost, WriteLost,
                IInv, Staged, StageOf
  <2>4. UNCHANGED <<command, auth_credentials>>
    BY <1>5 DEF CheckEmail, CheckUsername, RejectUser, StatementFails, ConnectionLost, WriteLost
  <2>5. CASE CheckEmail(q) \/ CheckUsername(q)
    <3>1. ~ EventOf(q) /\ response[q] = "none"
      BY <2>5 DEF CheckEmail, CheckUsername, EventOf, IInv, Traced, Staged, StageOf
    <3>2. OrphanTold(q)'
      BY <2>1, <3>1 DEF OrphanTold
    <3>3. \/ response'[q] = "none"
          \/ /\ response'[q] = "conflict"
             /\ Found(command[q].email) # {} \/ Found(command[q].username) # {}
      BY <1>1, <2>5, <3>1 DEF CheckEmail, CheckUsername, GoTo, Answer
    <3>4. Holders(q)' = Holders(q)
      BY <2>4 DEF Holders, Normal
    <3>5. ValidForUser(command[q])' = ValidForUser(command[q])
      BY <2>4 DEF ValidForUser, Normal
    <3>6. HasReason(q)'
      BY <2>3, <3>3, <3>4, <3>5, FoundIsHolder DEF HasReason, Refused
    <3> QED BY <2>1, <2>2, <3>2, <3>6, OutcomeOf
  <2>6. CASE RejectUser(q)
    <3>1. ~ ValidForUser(command[q])' /\ response'[q] = "error"
      BY <1>1, <2>3, <2>6 DEF RejectUser, Answer, Alive, ValidForUser, Normal
    <3> QED BY <2>1, <2>2, <3>1, OutcomeOf DEF HasReason, OrphanTold
  <2>7. CASE StatementFails(q)
    <3>1. faults' # 0 /\ response'[q] = "error"
      BY <1>1, <2>7 DEF StatementFails, Answer
    <3> QED BY <2>1, <2>2, <3>1, OutcomeOf DEF HasReason, OrphanTold, Refused
  <2>8. CASE ConnectionLost(q)
    <3>1. faults' # 0 /\ response'[q] = "error"
      BY <1>1, <2>8 DEF ConnectionLost
    <3> QED BY <2>1, <2>2, <3>1, OutcomeOf DEF HasReason, OrphanTold, Refused
  <2>9. CASE WriteLost(q)
    <3>1. response'[q] = response[q] /\ response[q] \in {"error", "lost"} /\ faults' = faults
      BY <1>1, <2>3, <2>9 DEF WriteLost, Answer, Alive
    <3>2. faults # 0
      BY <2>3, <3>1 DEF OutcomeInv, NothingLost, Unlost
    <3> QED BY <2>1, <2>2, <3>1, <3>2, OutcomeOf DEF HasReason, OrphanTold, Refused
  <2> QED BY <1>5, <2>5, <2>6, <2>7, <2>8, <2>9
<1>6. ASSUME NEW q \in Requests, AppendEvent(q)
      PROVE  \A r \in Requests : HasReason(r)' /\ OrphanTold(r)'
  <2>1. UserOf(q).userId = q /\ pc[q] = "append" /\ faults' = faults
        /\ response[q] \in {"none", "error", "lost"}
    BY <1>6, UserIsUser DEF AppendEvent, IInv, Staged, StageOf
  <2>2. \A r \in Requests \ {q} : EventOf(r)' = EventOf(r)
    BY <1>6, <2>1 DEF AppendEvent, EventOf
  <2>3. \A r \in Requests \ {q} :
          pc'[r] = pc[r] /\ response'[r] = response[r] /\ command'[r] = command[r]
    BY <1>1, <1>6 DEF AppendEvent, GoTo
  <2>4. \/ pc'[q] = "project" /\ response'[q] = "none"
        \/ response'[q] = "lost"
        \/ response'[q] = "error" /\ faults' # 0
    <3>1. response[q] = "error" => faults # 0
      BY <2>1 DEF OutcomeInv, NothingLost, Unlost
    <3> QED BY <1>1, <1>6, <2>1, <3>1 DEF AppendEvent, GoTo, Alive
  <2>5. HasReason(q)' /\ OrphanTold(q)'
    BY <2>4 DEF HasReason, OrphanTold, Refused
  <2> QED BY <2>2, <2>3, <2>5, OutcomeOf
<1>7. ASSUME NEW q \in Requests, ProjectUser(q) \/ ProjectionFails(q)
      PROVE  \A r \in Requests : HasReason(r)' /\ OrphanTold(r)'
  <2>1. \A r \in Requests : EventOf(r)' = EventOf(r)
    BY <1>7 DEF ProjectUser, ProjectionFails, EventOf
  <2>2. \A r \in Requests \ {q} :
          pc'[r] = pc[r] /\ response'[r] = response[r] /\ command'[r] = command[r]
    BY <1>1, <1>7 DEF ProjectUser, ProjectionFails, GoTo
  <2>3. pc[q] = "project" /\ response[q] \in {"none", "error", "lost"}
        /\ (faults' = 0 => faults = 0)
    BY <1>1, <1>7 DEF ProjectUser, ProjectionFails, IInv, Staged, StageOf
  <2>4. \/ pc'[q] = "store" /\ response'[q] = "none"
        \/ response'[q] = "lost"
        \/ response'[q] = "error" /\ faults' # 0
    <3>1. response[q] = "error" => faults # 0
      BY <2>3 DEF OutcomeInv, NothingLost, Unlost
    <3> QED BY <1>1, <1>7, <2>3, <3>1 DEF ProjectUser, ProjectionFails, GoTo, Alive
  <2>5. HasReason(q)' /\ OrphanTold(q)'
    BY <2>4 DEF HasReason, OrphanTold, Refused
  <2> QED BY <2>1, <2>2, <2>5, OutcomeOf
<1>8. ASSUME NEW q \in Requests, StoreCredentials(q)
      PROVE  \A r \in Requests : HasReason(r)' /\ OrphanTold(r)'
  <2>1. \A r \in Requests : EventOf(r)' = EventOf(r)
    BY <1>8 DEF StoreCredentials, EventOf
  <2>2. \A r \in Requests \ {q} :
          pc'[r] = pc[r] /\ response'[r] = response[r] /\ command'[r] = command[r]
    BY <1>1, <1>8 DEF StoreCredentials, Answer
  <2>3. /\ pc[q] = "store" /\ CredentialOf(q).userId = q /\ faults' = faults
        /\ response[q] \in {"none", "error", "lost"}
    <3>1. pc[q] = "store" /\ faults' = faults
      BY <1>8 DEF StoreCredentials
    <3> QED BY <3>1, CredentialIsCredential DEF IInv, Staged, StageOf
  <2>4. CASE \E row \in auth_credentials : Clash(row, CredentialOf(q))
    <3>1. UNCHANGED <<command, auth_credentials>> /\ response'[q] \in {"error", "lost"}
      BY <1>1, <1>8, <2>3, <2>4
         DEF StoreCredentials, StoreFailed, Answer, Alive
    <3>2. Holders(q)' # {}
      BY <2>3, <2>4, <3>1, ClashIsHolder DEF Holders, Normal
    <3>3. HasReason(q)' /\ OrphanTold(q)'
      BY <3>1, <3>2 DEF HasReason, OrphanTold
    <3> QED BY <2>1, <2>2, <3>3, OutcomeOf
  <2>5. CASE ~ \E row \in auth_credentials : Clash(row, CredentialOf(q))
    <3>1. /\ auth_credentials' = auth_credentials \cup {CredentialOf(q)}
          /\ \/ response'[q] \in {"created", "lost"}
             \/ response'[q] = "error" /\ faults' # 0
      <4>1. response[q] = "error" => faults # 0
        BY <2>3 DEF OutcomeInv, NothingLost, Unlost
      <4> QED BY <1>1, <1>8, <2>3, <2>5, <4>1 DEF StoreCredentials, Answer, Alive
    <3>2. HasCredential(q)'
      BY <2>3, <3>1 DEF HasCredential
    <3>3. HasReason(q)' /\ OrphanTold(q)'
      BY <3>1, <3>2 DEF HasReason, OrphanTold, Refused
    <3> QED BY <2>1, <2>2, <3>3, OutcomeOf
  <2> QED BY <2>4, <2>5
<1> QED BY <1>2, <1>3, <1>4, <1>5, <1>6, <1>7, <1>8 DEF Next, Handle

\* The projection of r, without a fault, leaves a row that holds a key of it,
\* and no row ever goes.
LEMMA ProjectionStep ==
  ASSUME IInv, OutcomeInv, [Next]_vars
  PROVE  ProjectionComplete'
<1> USE DEF Fault, tables
<1>1. faults \in Nat /\ pc \in [Requests -> Steps]
      /\ \A e \in domain_events : e.userId \in Requests /\ e = UserOf(e.userId)
  BY CommandsAssumption DEF IInv, TypeOK, Traced, User
<1> SUFFICES ASSUME faults' = 0, NEW e \in domain_events',
                    pc'[e.userId] \in {"store", "done"}
             PROVE  \E u \in users' : Clash(u, e)
  BY DEF ProjectionComplete, Clash
<1>2. CASE /\ e \in domain_events /\ pc'[e.userId] = pc[e.userId]
           /\ users \subseteq users' /\ faults = 0
  BY <1>2 DEF OutcomeInv, ProjectionComplete
<1>3. CASE UNCHANGED vars
  BY <1>2, <1>3 DEF vars
<1>4. CASE Crash
  BY <1>1, <1>4 DEF Crash
<1>5. ASSUME NEW q \in Requests, NEW c \in Commands, Register(q, c)
      PROVE  \E u \in users' : Clash(u, e)
  <2>1. pc[e.userId] # "new" /\ e \in domain_events
    BY <1>5 DEF Register, IInv, Traced
  <2> QED BY <1>1, <1>2, <1>5, <2>1 DEF Register, GoTo, Answer
<1>6. ASSUME NEW q \in Requests,
             \/ CheckEmail(q) \/ CheckUsername(q) \/ RejectUser(q)
      PROVE  \E u \in users' : Clash(u, e)
  <2>1. e \in domain_events /\ e.userId # q /\ faults = 0 /\ users' = users
    BY <1>6 DEF CheckEmail, CheckUsername, RejectUser, IInv, Traced
  <2> QED BY <1>1, <1>2, <1>6, <2>1
          DEF CheckEmail, CheckUsername, RejectUser, GoTo, Answer
<1>7. ASSUME NEW q \in Requests, AppendEvent(q)
      PROVE  \E u \in users' : Clash(u, e)
  <2>1. /\ pc[q] = "append" /\ UserOf(q).userId = q /\ faults = 0 /\ users' = users
        /\ domain_events' = domain_events \cup {UserOf(q)}
    BY <1>7, UserIsUser DEF AppendEvent, IInv
  <2>2. response[q] = "none"
    BY <2>1 DEF IInv, Staged, StageOf, OutcomeInv, NothingLost, Unlost
  <2>3. pc'[q] = "project" /\ \A r \in Requests \ {q} : pc'[r] = pc[r]
    BY <1>1, <1>7, <2>2 DEF AppendEvent, GoTo, Alive
  <2> QED BY <1>1, <1>2, <2>1, <2>3
<1>8. ASSUME NEW q \in Requests, ProjectUser(q)
      PROVE  \E u \in users' : Clash(u, e)
  <2>1. users \subseteq users' /\ domain_events' = domain_events /\ faults = 0
    BY <1>8 DEF ProjectUser, InsertUser
  <2>2. CASE e.userId = q
    BY <1>1, <1>8, <2>1, <2>2 DEF ProjectUser, InsertUser, Clash
  <2>3. CASE e.userId # q
    BY <1>1, <1>2, <1>8, <2>1, <2>3 DEF ProjectUser, GoTo
  <2> QED BY <2>2, <2>3
<1>9. ASSUME NEW q \in Requests, StoreCredentials(q)
      PROVE  \E u \in users' : Clash(u, e)
  <2>1. /\ pc[q] = "store" /\ users' = users /\ domain_events' = domain_events
        /\ faults = 0 /\ \A r \in Requests \ {q} : pc'[r] = pc[r]
    BY <1>1, <1>9 DEF StoreCredentials, Answer
  <2>2. pc[e.userId] \in {"store", "done"}
    BY <1>1, <2>1
  <2> QED BY <2>1, <2>2 DEF OutcomeInv, ProjectionComplete
<1>10. ASSUME NEW q \in Requests,
              \/ StatementFails(q) \/ ConnectionLost(q) \/ ProjectionFails(q)
       PROVE  FALSE
  BY <1>1, <1>10 DEF StatementFails, ConnectionLost, ProjectionFails
<1>11. ASSUME NEW q \in Requests, WriteLost(q) PROVE FALSE
  BY <1>11 DEF WriteLost, Alive, IInv, Staged, StageOf, OutcomeInv, NothingLost, Unlost
<1> QED BY <1>3, <1>4, <1>5, <1>6, <1>7, <1>8, <1>9, <1>10, <1>11 DEF Next, Handle

\* The outcome of every registration is explained in every behaviour.
THEOREM OutcomeInvariance == Spec => [](IInv /\ OutcomeInv)
<1>1. Init => OutcomeInv
  BY DEF Init, OutcomeInv, NothingLost, Unlost, HasReason, OrphanTold, Refused, EventOf,
         ProjectionComplete
<1>2. IInv /\ OutcomeInv /\ [Next]_vars => OutcomeInv'
  <2> SUFFICES ASSUME IInv, OutcomeInv, [Next]_vars PROVE OutcomeInv'
    OBVIOUS
  <2>1. IInv'
    BY InvStep
  <2> QED BY <2>1, NothingLostStep, OutcomeStep, ProjectionStep DEF OutcomeInv
<1> QED BY <1>1, <1>2, InvInit, InvStep, PTL DEF Spec

\* A valid registration is refused for an account, never for what a failed one
\* left behind (register.handler.ts:47-66, 87-93).
THEOREM RefusedCorrect == Spec => []RefusedForAnAccount
<1>1. IInv /\ OutcomeInv => RefusedForAnAccount
  <2> SUFFICES ASSUME IInv, OutcomeInv, NEW r \in Requests,
                      Refused(r), ValidForUser(command[r])
               PROVE  \E c \in Holders(r) : faults = 0 => response[c.userId] = "created"
    BY DEF RefusedForAnAccount, Refused
  <2> QED BY DEF OutcomeInv, HasReason, NothingLost, Holders
<1> QED BY <1>1, OutcomeInvariance, PTL

\* An event without credentials is what a failure or a lost race leaves
\* (register.handler.ts:77-93).
THEOREM OrphansCorrect == Spec => []OrphansExplained
<1>1. IInv /\ OutcomeInv => OrphansExplained
  <2> SUFFICES ASSUME IInv, OutcomeInv, NEW e \in domain_events,
                      pc[e.userId] = "done", ~ HasCredential(e.userId)
               PROVE  /\ response[e.userId] \in {"error", "lost"}
                      /\ faults = 0 => \E c \in auth_credentials :
                                         c.email = e.email \/ c.username = e.username
    BY DEF OrphansExplained
  <2>1. e.userId \in Requests /\ e = UserOf(e.userId) /\ EventOf(e.userId)
    BY DEF IInv, TypeOK, Traced, User, EventOf
  <2>2. response[e.userId] \in {"error", "lost"} /\ ValidForUser(command[e.userId])
    BY <2>1 DEF OutcomeInv, OrphanTold, IInv, Staged, StageOf
  <2>3. ASSUME faults = 0
        PROVE  \E c \in auth_credentials : c.email = e.email \/ c.username = e.username
    <3>1. Holders(e.userId) # {}
      BY <2>1, <2>2, <2>3 DEF OutcomeInv, NothingLost, Unlost, HasReason, Refused
    <3>2. e.email = Normal(command[e.userId].email) /\ e.username = command[e.userId].username
      BY <2>1 DEF UserOf
    <3> QED BY <3>1, <3>2 DEF Holders
  <2> QED BY <2>2, <2>3
<1> QED BY <1>1, OutcomeInvariance, PTL

\* Without a fault the read model lacks a user only where another row holds one
\* of its keys (user-unit-of-work.ts:50-63).
THEOREM ProjectionCorrect == Spec => []ProjectionComplete
<1>1. OutcomeInv => ProjectionComplete
  BY DEF OutcomeInv
<1> QED BY <1>1, OutcomeInvariance, PTL
=============================================================================
