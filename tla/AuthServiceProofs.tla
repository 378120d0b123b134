-------------------------- MODULE AuthServiceProofs --------------------------
(***************************************************************************)
(* The composition for any number of registrations, logins, texts, faults  *)
(* and deletions.  A login carries a row away and uses it later, when the  *)
(* row may be deleted; what makes that safe is what a row says for good    *)
(* about the registration that wrote it (RowsStored), and what a login has *)
(* found out about the row it carries (LoginStage).                        *)
(*                                                                         *)
(* From RowsStored follows that the composition implements Login, and that *)
(* it meets what Login assumes of its accounts.                            *)
(***************************************************************************)
EXTENDS AuthService, TLAPS

\* The rows that are or were in the table.
Rows == auth_credentials \cup erased

\* Row c was written by the last step of a registration that was let through.
StoredBy(c) ==
  /\ c.userId \in Requests /\ pc[c.userId] = "done"
  /\ c = R!AccountFor(c.userId, command[c.userId])
  /\ command[c.userId] \in Commands
  /\ R!ValidDto(command[c.userId]) /\ R!ValidForUser(command[c.userId])
  /\ R!EventOf(c.userId)
  /\ response[c.userId] \notin {"invalid", "conflict"}

RowsStored == \A c \in Rows : StoredBy(c)

RegistrationTypes ==
  /\ pc \in [Requests -> R!Steps]
  /\ response \in [Requests -> R!Responses]
  /\ command \in [Requests -> Commands \cup {R!NoCommand}]

RegistrationStage(r) ==
  /\ pc[r] = "new" => response[r] = "none"
  /\ pc[r] # "done" => response[r] \in {"none", "error", "lost"}
  /\ pc[r] # "new" => command[r] \in Commands
  /\ pc[r] \notin {"new", "done"} => R!ValidDto(command[r])
  /\ pc[r] \in {"project", "store"} => R!ValidForUser(command[r]) /\ R!EventOf(r)

LoginTypes ==
  /\ lpc \in [Logins -> L!Steps]
  /\ reply \in [Logins -> L!Replies]
  /\ body \in [Logins -> Bodies \cup {L!NoBody}]
  /\ seen \in [Logins -> Rows \cup {L!NoRow}]

\* A login that has read a row carries one its identifier matches, and past the
\* verification the password is the row's.
LoginStage(l) ==
  /\ reply[l] = "ok" => lpc[l] = "done"
  /\ lpc[l] = "new" => reply[l] = "none"
  /\ lpc[l] \in {"verify", "update", "tokens"} \/ reply[l] = "ok" =>
       seen[l] \in Rows /\ Matches(seen[l], body[l].identifier)
  /\ lpc[l] \in {"update", "tokens"} \/ reply[l] = "ok" =>
       Hash[body[l].password] = Hash[seen[l].password]

RegistrationInv ==
  RegistrationTypes /\ RowsStored /\ \A r \in Requests : RegistrationStage(r)

LoginInv == LoginTypes /\ \A l \in Logins : LoginStage(l)

IInv == RegistrationInv /\ LoginInv
-----------------------------------------------------------------------------
\* What the assumptions say, without the names of the instances.
LEMMA TextFacts ==
  /\ \A c \in Commands : c.email \in Texts /\ c.username \in Texts
  /\ Lower \in [Texts -> Texts] /\ Trim \in [Texts -> Texts]
  /\ EmailRegex \cap UsernameRegex = {}
  /\ \A t \in UsernameRegex : t \in Texts /\ Lower[t] \in UsernameRegex
  /\ \A t \in Texts : Trim[Lower[t]] = Lower[Trim[t]]
  /\ \A t \in EmailDto \cap Texts : Trim[t] = t
  /\ RegistrationFaults \in Nat /\ LoginFaults \in Nat /\ MaxTime \in Nat
BY ServiceAssumption
   DEF R!CommandsAssumption, R!TextsAssumption, L!LoginAssumption, R!Command

\* No e-mail of an account is in lower case what another has as a username:
\* Registration keeps what Login assumes of the rows it works with.
THEOREM AccountsAssumptionMet ==
  \A a, b \in Accounts : \A t \in Texts : a.email = Lower[t] => b.username # t
<1> SUFFICES ASSUME NEW a \in Accounts, NEW b \in Accounts, NEW t \in Texts,
                    a.email = Lower[t], b.username = t
             PROVE  FALSE
  OBVIOUS
<1>1. PICK q \in Requests, c \in Commands :
        a = R!AccountFor(q, c) /\ R!ValidForUser(c)
  BY DEF Accounts
<1>2. PICK r \in Requests, d \in Commands :
        b = R!AccountFor(r, d) /\ R!ValidForUser(d)
  BY DEF Accounts
<1>3. a.email = Trim[Lower[c.email]]
  BY <1>1 DEF R!AccountFor, R!StoredEmail
<1>4. a.email \in EmailRegex
  BY <1>1, <1>3, TextFacts DEF R!ValidForUser, R!Normal
<1>5. t \in UsernameRegex
  BY <1>2 DEF R!AccountFor, R!ValidForUser
<1> QED BY <1>4, <1>5, TextFacts
-----------------------------------------------------------------------------
\* Rows keep what they say of their registration as long as it stays answered.
LEMMA KeepStored ==
  ASSUME NEW c, StoredBy(c),
         pc'[c.userId] = pc[c.userId], response'[c.userId] = response[c.userId],
         command'[c.userId] = command[c.userId], domain_events \subseteq domain_events'
  PROVE  StoredBy(c)'
BY DEF StoredBy, R!AccountFor, R!StoredEmail, R!ValidDto, R!ValidForUser, R!Normal,
       R!EventOf

\* A registration that takes no step keeps its stage.
LEMMA KeepStage ==
  ASSUME NEW r \in Requests, RegistrationStage(r),
         pc'[r] = pc[r], response'[r] = response[r], command'[r] = command[r],
         domain_events \subseteq domain_events'
  PROVE  RegistrationStage(r)'
BY DEF RegistrationStage, R!ValidDto, R!ValidForUser, R!Normal, R!EventOf

\* A registration takes a step: the others keep theirs, and so do the rows,
\* unless the step writes one.
LEMMA StepOf ==
  ASSUME RegistrationInv, NEW r \in Requests, pc[r] # "done",
         \A q \in Requests \ {r} :
           /\ pc'[q] = pc[q] /\ response'[q] = response[q] /\ command'[q] = command[q],
         domain_events \subseteq domain_events',
         RegistrationTypes', RegistrationStage(r)',
         NEW c, Rows' \in {Rows, Rows \cup {c}}, Rows' # Rows => StoredBy(c)'
  PROVE  RegistrationInv'
<1>1. \A q \in Requests : RegistrationStage(q)'
  <2> SUFFICES ASSUME NEW q \in Requests PROVE RegistrationStage(q)'
    OBVIOUS
  <2>1. CASE q = r
    BY <2>1
  <2>2. CASE q # r
    BY <2>2, KeepStage DEF RegistrationInv
  <2> QED BY <2>1, <2>2
<1>2. ASSUME NEW d \in Rows PROVE StoredBy(d)'
  <2>1. StoredBy(d)
    BY DEF RegistrationInv, RowsStored
  <2>2. d.userId \in Requests \ {r}
    BY <2>1 DEF StoredBy
  <2> QED BY <2>1, <2>2, KeepStored
<1>3. RowsStored'
  BY <1>2 DEF RowsStored
<1> QED BY <1>1, <1>3 DEF RegistrationInv

\* Only the credentials insert writes to the table.
LEMMA StepsOfRegistration ==
  ASSUME R!Next \/ R!Crash
  PROVE  \/ auth_credentials' = auth_credentials
         \/ \E r \in Requests :
              /\ R!StoreCredentials(r)
              /\ \A row \in auth_credentials : ~ Clash(row, R!CredentialOf(r))
              /\ auth_credentials' = auth_credentials \cup {R!CredentialOf(r)}
<1>1. CASE R!Crash
  BY <1>1 DEF R!Crash, R!tables
<1>2. ASSUME NEW r \in Requests, NEW c \in Commands, R!Register(r, c)
      PROVE  auth_credentials' = auth_credentials
  BY <1>2 DEF R!Register, R!tables
<1>3. ASSUME NEW r \in Requests, R!StoreCredentials(r)
      PROVE  \/ auth_credentials' = auth_credentials
             \/ /\ \A row \in auth_credentials : ~ Clash(row, R!CredentialOf(r))
                /\ auth_credentials' = auth_credentials \cup {R!CredentialOf(r)}
  BY <1>3 DEF R!StoreCredentials, R!Clash, Clash
<1>4. ASSUME NEW r \in Requests,
             \/ R!CheckEmail(r) \/ R!CheckUsername(r) \/ R!RejectUser(r)
             \/ R!AppendEvent(r) \/ R!ProjectUser(r)
             \/ R!StatementFails(r) \/ R!ConnectionLost(r)
             \/ R!ProjectionFails(r) \/ R!WriteLost(r)
      PROVE  auth_credentials' = auth_credentials
  BY <1>4 DEF R!CheckEmail, R!CheckUsername, R!RejectUser, R!AppendEvent,
              R!ProjectUser, R!StatementFails, R!ConnectionLost,
              R!ProjectionFails, R!WriteLost, R!tables
<1> QED BY <1>1, <1>2, <1>3, <1>4 DEF R!Next, R!Handle
-----------------------------------------------------------------------------
\* The last insert of a registration stores what RowsStored says of a row.
LEMMA StoredByStore ==
  ASSUME RegistrationInv, NEW r \in Requests, pc[r] = "store",
         pc'[r] = "done", response'[r] \in {"created", "error", "lost"},
         UNCHANGED <<command, domain_events>>, NEW c, c = R!CredentialOf(r)
  PROVE  StoredBy(c)'
<1>1. /\ command[r] \in Commands /\ R!ValidDto(command[r])
      /\ R!ValidForUser(command[r]) /\ R!EventOf(r)
  BY DEF RegistrationInv, RegistrationStage
<1>2. c = R!AccountFor(r, command'[r]) /\ c.userId = r
  BY DEF R!CredentialOf, R!AccountFor, R!StoredEmail
<1>3. R!ValidDto(command[r])' /\ R!ValidForUser(command[r])' /\ R!EventOf(r)'
  BY <1>1 DEF R!ValidDto, R!ValidForUser, R!Normal, R!EventOf
<1>4. R!AccountFor(r, command[r])' = R!AccountFor(r, command[r])
  BY DEF R!AccountFor, R!StoredEmail
<1> QED BY <1>1, <1>2, <1>3, <1>4 DEF StoredBy

\* Every step of a registration keeps what is known of registrations and rows.
LEMMA RegistrationStep ==
  ASSUME RegistrationInv, R!Next, erased' = erased
  PROVE  RegistrationInv'
<1> USE DEF RegistrationTypes, R!Steps, R!Responses
<1>1. CASE R!Crash
  <2>1. /\ UNCHANGED <<command, domain_events>> /\ Rows' = Rows
        /\ pc' = [r \in Requests |->
                    IF r \in R!InFlight /\ pc[r] \in {"checkEmail", "checkUsername"}
                    THEN "done" ELSE pc[r]]
        /\ response' = [r \in Requests |-> IF r \in R!InFlight THEN "lost" ELSE response[r]]
    BY <1>1 DEF R!Crash, R!tables, Rows
  <2>2. \A r \in R!InFlight : pc[r] # "new" /\ pc[r] # "done"
    BY DEF R!InFlight
  <2>3. RowsStored'
    <3> SUFFICES ASSUME NEW c \in Rows PROVE StoredBy(c)'
      BY <2>1 DEF RowsStored
    <3>1. StoredBy(c) /\ c.userId \in Requests /\ c.userId \notin R!InFlight
      BY <2>2 DEF RegistrationInv, RowsStored, StoredBy
    <3> QED BY <2>1, <3>1, KeepStored
  <2>4. ASSUME NEW r \in Requests PROVE RegistrationStage(r)'
    <3>1. RegistrationStage(r)
      BY DEF RegistrationInv
    <3>2. CASE r \in R!InFlight
      BY <2>1, <2>2, <3>1, <3>2
         DEF RegistrationStage, R!ValidDto, R!ValidForUser, R!Normal, R!EventOf
    <3>3. CASE r \notin R!InFlight
      BY <2>1, <3>1, <3>3, KeepStage
    <3> QED BY <3>2, <3>3
  <2> QED BY <2>1, <2>3, <2>4 DEF RegistrationInv
<1>2. ASSUME NEW r \in Requests, NEW c \in Commands, R!Register(r, c)
      PROVE  RegistrationInv'
  <2>1. /\ domain_events' = domain_events /\ Rows' = Rows /\ pc[r] = "new"
        /\ response[r] = "none"
    BY <1>2 DEF R!Register, R!tables, Rows, RegistrationInv, RegistrationStage
  <2>2. /\ command' = [command EXCEPT ![r] = c]
        /\ \/ /\ R!ValidDto(c)
              /\ pc' = [pc EXCEPT ![r] = "checkEmail"] /\ response' = response
           \/ /\ pc' = [pc EXCEPT ![r] = "done"]
              /\ response' = [response EXCEPT ![r] = "invalid"]
    BY <1>2, <2>1 DEF R!Register, R!GoTo, R!Answer, R!Alive
  <2>3. RegistrationTypes'
    BY <2>2 DEF RegistrationInv
  <2>4. \A q \in Requests \ {r} :
          pc'[q] = pc[q] /\ response'[q] = response[q] /\ command'[q] = command[q]
    BY <2>2 DEF RegistrationInv
  <2>5. command'[r] = c /\ R!ValidDto(c)' = R!ValidDto(c)
    BY <2>2 DEF RegistrationInv, R!ValidDto
  <2>6. RegistrationStage(r)'
    BY <2>1, <2>2, <2>5 DEF RegistrationInv, RegistrationStage, R!ValidDto
  <2> QED BY <2>1, <2>3, <2>4, <2>6, StepOf
<1>3. ASSUME NEW r \in Requests,
             \/ R!CheckEmail(r) \/ R!CheckUsername(r) \/ R!RejectUser(r)
             \/ R!StatementFails(r) \/ R!WriteLost(r)
      PROVE  RegistrationInv'
  <2>1. /\ UNCHANGED <<command, domain_events>> /\ Rows' = Rows
        /\ pc[r] \notin {"new", "done"}
    BY <1>3 DEF R!CheckEmail, R!CheckUsername, R!RejectUser, R!StatementFails,
                R!WriteLost, R!tables, Rows
  <2>2. \/ /\ pc[r] \in {"checkEmail", "checkUsername"}
           /\ \/ pc' = [pc EXCEPT ![r] = "checkUsername"]
              \/ pc' = [pc EXCEPT ![r] = "append"]
              \/ pc' = [pc EXCEPT ![r] = "done"]
           /\ response' = response
        \/ /\ pc' = [pc EXCEPT ![r] = "done"]
           /\ \E status \in {"conflict", "error", "lost"} :
                response' = [response EXCEPT ![r] = status]
        \/ pc' = [pc EXCEPT ![r] = "done"] /\ response' = [response EXCEPT ![r] = @]
    BY <1>3 DEF R!CheckEmail, R!CheckUsername, R!RejectUser, R!StatementFails,
                R!WriteLost, R!GoTo, R!Answer, R!Alive
  <2>3. RegistrationTypes'
    BY <2>1, <2>2 DEF RegistrationInv
  <2>4. \A q \in Requests \ {r} : pc'[q] = pc[q] /\ response'[q] = response[q]
    BY <2>2 DEF RegistrationInv
  <2>5. RegistrationStage(r)'
    BY <2>1, <2>2 DEF RegistrationInv, RegistrationStage, R!ValidDto
  <2> QED BY <2>1, <2>3, <2>4, <2>5, StepOf
<1>4. ASSUME NEW r \in Requests, R!AppendEvent(r)
      PROVE  RegistrationInv'
  <2>1. /\ command' = command /\ Rows' = Rows /\ pc[r] = "append"
        /\ R!ValidForUser(command[r])
        /\ domain_events' = domain_events \cup {R!UserOf(r)}
    BY <1>4 DEF R!AppendEvent, Rows
  <2>2. \/ pc' = [pc EXCEPT ![r] = "project"] /\ response' = response
        \/ pc' = [pc EXCEPT ![r] = "done"] /\ response' = response
    BY <1>4 DEF R!AppendEvent, R!GoTo
  <2>3. RegistrationTypes'
    BY <2>1, <2>2 DEF RegistrationInv
  <2>4. \A q \in Requests \ {r} : pc'[q] = pc[q] /\ response'[q] = response[q]
    BY <2>2 DEF RegistrationInv
  <2>5. R!EventOf(r)'
    <3>1. PICK e : e = R!UserOf(r)
      OBVIOUS
    <3>2. e.userId = r /\ e \in domain_events'
      BY <2>1, <3>1 DEF R!UserOf
    <3> QED BY <3>2 DEF R!EventOf
  <2>6. RegistrationStage(r)'
    BY <2>1, <2>2, <2>5
       DEF RegistrationInv, RegistrationStage, R!ValidDto, R!ValidForUser, R!Normal
  <2> QED BY <2>1, <2>3, <2>4, <2>6, StepOf
<1>5. ASSUME NEW r \in Requests, R!ProjectUser(r) \/ R!ProjectionFails(r)
      PROVE  RegistrationInv'
  <2>1. UNCHANGED <<command, domain_events, response>> /\ Rows' = Rows /\ pc[r] = "project"
    BY <1>5 DEF R!ProjectUser, R!ProjectionFails, R!GoTo, Rows
  <2>2. pc' = [pc EXCEPT ![r] = "store"] \/ pc' = [pc EXCEPT ![r] = "done"]
    BY <1>5 DEF R!ProjectUser, R!ProjectionFails, R!GoTo
  <2>3. RegistrationTypes'
    BY <2>1, <2>2 DEF RegistrationInv
  <2>4. \A q \in Requests \ {r} : pc'[q] = pc[q]
    BY <2>2 DEF RegistrationInv
  <2>5. RegistrationStage(r)'
    BY <2>1, <2>2 DEF RegistrationInv, RegistrationStage, R!ValidDto, R!ValidForUser,
                      R!Normal, R!EventOf
  <2> QED BY <2>1, <2>3, <2>4, <2>5, StepOf
<1>6. ASSUME NEW r \in Requests, R!StoreCredentials(r)
      PROVE  RegistrationInv'
  <2>1. UNCHANGED <<command, domain_events>> /\ pc[r] = "store"
        /\ response[r] \in {"none", "error", "lost"}
    BY <1>6 DEF R!StoreCredentials, RegistrationInv, RegistrationStage
  <2>2. /\ pc' = [pc EXCEPT ![r] = "done"]
        /\ \E status \in {"created", "error", "lost"} :
             response' = [response EXCEPT ![r] = status]
    BY <1>6, <2>1 DEF R!StoreCredentials, R!Answer, R!Alive, R!StoreFailed
  <2>3. RegistrationTypes'
    BY <2>1, <2>2 DEF RegistrationInv
  <2>4. \A q \in Requests \ {r} : pc'[q] = pc[q] /\ response'[q] = response[q]
    BY <2>2 DEF RegistrationInv
  <2>5. RegistrationStage(r)'
    BY <2>1, <2>2 DEF RegistrationInv, RegistrationStage
  <2>6. PICK c : c = R!CredentialOf(r)
    OBVIOUS
  <2>7. StoredBy(c)'
    BY <2>1, <2>2, <2>6, StoredByStore DEF RegistrationInv
  <2>8. Rows' \in {Rows, Rows \cup {c}}
    BY <1>6, <2>6 DEF R!StoreCredentials, Rows
  <2> QED BY <2>1, <2>3, <2>4, <2>5, <2>7, <2>8, StepOf
<1>7. ASSUME NEW r \in Requests, R!ConnectionLost(r) PROVE RegistrationInv'
  <2>1. /\ UNCHANGED <<pc, command, domain_events>> /\ Rows' = Rows
        /\ pc[r] \in {"append", "store"} /\ response' = [response EXCEPT ![r] = "error"]
    BY <1>7 DEF R!ConnectionLost, R!tables, Rows
  <2>2. RegistrationTypes'
    BY <2>1 DEF RegistrationInv
  <2>3. RegistrationStage(r)'
    BY <2>1 DEF RegistrationInv, RegistrationStage, R!ValidDto, R!ValidForUser,
                R!Normal, R!EventOf
  <2> QED BY <2>1, <2>2, <2>3, StepOf DEF RegistrationInv
<1> QED BY <1>1, <1>2, <1>3, <1>4, <1>5, <1>6, <1>7 DEF R!Next, R!Handle
-----------------------------------------------------------------------------
\* Logins keep what is known of them while others act: rows stay rows.
LEMMA KeepLogins ==
  ASSUME LoginInv, UNCHANGED <<lpc, body, seen, reply>>, Rows \subseteq Rows'
  PROVE  LoginInv'
<1>1. LoginTypes'
  BY DEF LoginInv, LoginTypes
<1>2. ASSUME NEW l \in Logins PROVE LoginStage(l)'
  BY DEF LoginInv, LoginStage, Matches
<1> QED BY <1>1, <1>2 DEF LoginInv

\* A login takes a step; the others keep theirs.
LEMMA LoginStepOf ==
  ASSUME LoginInv, NEW l \in Logins, Rows' = Rows, LoginTypes', LoginStage(l)',
         \A k \in Logins \ {l} :
           /\ lpc'[k] = lpc[k] /\ body'[k] = body[k]
           /\ seen'[k] = seen[k] /\ reply'[k] = reply[k]
  PROVE  LoginInv'
<1> SUFFICES ASSUME NEW k \in Logins PROVE LoginStage(k)'
  BY DEF LoginInv
<1>1. CASE k = l
  BY <1>1
<1>2. CASE k # l
  BY <1>2 DEF LoginInv, LoginStage, Matches
<1> QED BY <1>1, <1>2

\* Every step of a login keeps what is known of it, and writes no row.
LEMMA LoginStep ==
  ASSUME LoginInv, L!LoginNext
  PROVE  LoginInv' /\ auth_credentials' = auth_credentials /\ erased' = erased
<1> USE DEF LoginTypes, L!Steps, L!Replies
<1>1. auth_credentials' = auth_credentials /\ erased' = erased
  <2>1. CASE L!Crash
    BY <2>1 DEF L!Crash, L!Others
  <2>2. ASSUME NEW l \in Logins, NEW b \in Bodies, L!Arrive(l, b)
        PROVE  auth_credentials' = auth_credentials /\ erased' = erased
    BY <2>2 DEF L!Arrive, L!table
  <2>3. ASSUME NEW l \in Logins,
               \/ L!Handle(l) \/ L!StatementFails(l)
               \/ L!ConnectionLost(l) \/ L!UpdateLost(l)
        PROVE  auth_credentials' = auth_credentials /\ erased' = erased
    BY <2>3 DEF L!Handle, L!Lookup, L!Verify, L!UpdateLastLogin, L!IssueTokens,
                L!StatementFails, L!ConnectionLost, L!UpdateLost, L!Others
  <2> QED BY <2>1, <2>2, <2>3 DEF L!LoginNext
<1>2. Rows' = Rows
  BY <1>1 DEF Rows
<1>3. CASE L!Crash
  <2>1. /\ UNCHANGED <<body, seen>>
        /\ reply' = [l \in Logins |-> IF l \in L!InFlight THEN "lost" ELSE reply[l]]
        /\ lpc' = [l \in Logins |->
                     IF l \in L!InFlight /\ lpc[l] # "update" THEN "done" ELSE lpc[l]]
    BY <1>3 DEF L!Crash
  <2>2. \A l \in L!InFlight : lpc[l] # "new" /\ lpc[l] # "done"
    BY DEF L!InFlight
  <2>3. LoginTypes'
    BY <1>2, <2>1 DEF LoginInv
  <2>4. ASSUME NEW l \in Logins PROVE LoginStage(l)'
    BY <1>2, <2>1, <2>2 DEF LoginInv, LoginStage, Matches
  <2> QED BY <1>1, <2>3, <2>4 DEF LoginInv
<1>4. ASSUME NEW l \in Logins, NEW b \in Bodies, L!Arrive(l, b)
      PROVE  LoginInv'
  <2>1. /\ seen' = seen /\ body' = [body EXCEPT ![l] = b] /\ reply[l] = "none"
        /\ \/ lpc' = [lpc EXCEPT ![l] = "lookup"] /\ reply' = reply
           \/ /\ lpc' = [lpc EXCEPT ![l] = "done"]
              /\ reply' = [reply EXCEPT ![l] = "invalid"]
    BY <1>4 DEF L!Arrive, L!GoTo, L!Answer, L!Alive, LoginInv, LoginStage
  <2>2. LoginTypes'
    BY <1>2, <2>1 DEF LoginInv
  <2>3. LoginStage(l)'
    BY <2>1 DEF LoginInv, LoginStage
  <2> QED BY <1>2, <2>1, <2>2, <2>3, LoginStepOf DEF LoginInv
<1>5. ASSUME NEW l \in Logins, L!Lookup(l) PROVE LoginInv'
  <2>1. body' = body /\ lpc[l] = "lookup" /\ reply[l] # "ok"
    BY <1>5 DEF L!Lookup, LoginInv, LoginStage
  <2>2. \/ /\ seen' = seen /\ lpc' = [lpc EXCEPT ![l] = "done"]
           /\ \E status \in {"unauthorized", reply[l]} :
                reply' = [reply EXCEPT ![l] = status]
        \/ \E row \in auth_credentials :
             /\ Matches(row, body[l].identifier)
             /\ seen' = [seen EXCEPT ![l] = row]
             /\ \/ /\ lpc' = [lpc EXCEPT ![l] = "done"]
                   /\ \E status \in {"unauthorized", reply[l]} :
                        reply' = [reply EXCEPT ![l] = status]
                \/ /\ lpc' \in {[lpc EXCEPT ![l] = "verify"], [lpc EXCEPT ![l] = "done"]}
                   /\ reply' = reply
    BY <1>5 DEF L!Lookup, L!Found, L!Matches, Matches, L!Answer, L!GoTo, L!Alive
  <2>3. LoginTypes'
    BY <1>2, <2>1, <2>2 DEF LoginInv, Rows
  <2>4. reply'[l] # "ok"
    BY <2>1, <2>2 DEF LoginInv
  <2>5. lpc'[l] = "verify" =>
          seen'[l] \in Rows /\ Matches(seen'[l], body[l].identifier)
    BY <2>1, <2>2 DEF LoginInv, Rows
  <2>6. lpc'[l] \in {"verify", "done"}
    BY <2>2 DEF LoginInv
  <2>7. LoginStage(l)'
    BY <1>2, <2>1, <2>4, <2>5, <2>6 DEF LoginStage, Matches
  <2>8. \A k \in Logins \ {l} :
          lpc'[k] = lpc[k] /\ seen'[k] = seen[k] /\ reply'[k] = reply[k]
    BY <2>2 DEF LoginInv
  <2> QED BY <1>2, <2>1, <2>3, <2>7, <2>8, LoginStepOf
<1>6. ASSUME NEW l \in Logins, L!Verify(l) PROVE LoginInv'
  <2>1. UNCHANGED <<body, seen>> /\ lpc[l] = "verify" /\ reply[l] # "ok"
    BY <1>6 DEF L!Verify, LoginInv, LoginStage
  <2>2. \/ /\ lpc' = [lpc EXCEPT ![l] = "done"]
           /\ reply' \in {reply, [reply EXCEPT ![l] = "unauthorized"]}
        \/ /\ lpc' = [lpc EXCEPT ![l] = "update"] /\ reply' = reply
           /\ Hash[body[l].password] = Hash[seen[l].password]
    BY <1>6 DEF L!Verify, L!PasswordMatches, L!Answer, L!GoTo, L!Alive, LoginInv
  <2>3. LoginTypes'
    BY <1>2, <2>1, <2>2 DEF LoginInv
  <2>4. LoginStage(l)'
    BY <1>2, <2>1, <2>2 DEF LoginInv, LoginStage, Matches
  <2> QED BY <1>2, <2>1, <2>2, <2>3, <2>4, LoginStepOf DEF LoginInv
<1>7. ASSUME NEW l \in Logins,
             \/ L!UpdateLastLogin(l) \/ L!IssueTokens(l) \/ L!StatementFails(l)
             \/ L!ConnectionLost(l) \/ L!UpdateLost(l)
      PROVE  LoginInv'
  <2>1. UNCHANGED <<body, seen>> /\ lpc[l] \notin {"new", "done"} /\ reply[l] # "ok"
    BY <1>7 DEF L!UpdateLastLogin, L!IssueTokens, L!StatementFails,
                L!ConnectionLost, L!UpdateLost, LoginInv, LoginStage
  <2>2. \/ /\ lpc[l] = "update" /\ lpc' = [lpc EXCEPT ![l] = "tokens"]
           /\ reply' = reply
        \/ /\ lpc[l] = "tokens" /\ lpc' = [lpc EXCEPT ![l] = "done"]
           /\ reply' \in {reply, [reply EXCEPT ![l] = "ok"]}
        \/ /\ lpc' \in {lpc, [lpc EXCEPT ![l] = "done"]}
           /\ reply' \in {reply, [reply EXCEPT ![l] = "error"]}
    BY <1>7 DEF L!UpdateLastLogin, L!IssueTokens, L!StatementFails,
                L!ConnectionLost, L!UpdateLost, L!Answer, L!GoTo, L!Alive,
                LoginInv
  <2>3. LoginTypes'
    BY <1>2, <2>1, <2>2 DEF LoginInv
  <2>4. LoginStage(l)'
    BY <1>2, <2>1, <2>2 DEF LoginInv, LoginStage, Matches
  <2> QED BY <1>2, <2>1, <2>2, <2>3, <2>4, LoginStepOf DEF LoginInv
<1> QED BY <1>1, <1>3, <1>4, <1>5, <1>6, <1>7 DEF L!LoginNext, L!Handle

\* A deletion moves a row to the erased ones; operators and time touch none.
LEMMA OperateStep ==
  ASSUME L!Operate
  PROVE  UNCHANGED <<lpc, body, seen, reply>> /\ Rows' = Rows
<1>1. CASE L!Tick
  BY <1>1 DEF L!Tick, L!own, L!table, Rows
<1>2. ASSUME NEW u, L!Deactivate(u) \/ L!Activate(u)
      PROVE  UNCHANGED <<lpc, body, seen, reply>> /\ Rows' = Rows
  BY <1>2 DEF L!Deactivate, L!Activate, L!own, L!table, Rows
<1>3. ASSUME NEW u, L!DeleteByUserId(u)
      PROVE  UNCHANGED <<lpc, body, seen, reply>> /\ Rows' = Rows
  BY <1>3 DEF L!DeleteByUserId, L!RowsOf, L!own, Rows
<1> QED BY <1>1, <1>2, <1>3 DEF L!Operate
-----------------------------------------------------------------------------
\* The initial state satisfies the invariant,
LEMMA InvInit == Init => IInv
<1> SUFFICES ASSUME Init PROVE IInv
  OBVIOUS
<1>1. Rows = {}
  BY DEF Init, R!Init, L!Init, Rows
<1>2. RegistrationInv
  BY <1>1 DEF Init, R!Init, RegistrationInv, RegistrationTypes, RowsStored,
              RegistrationStage, R!Steps, R!Responses
<1>3. LoginInv
  BY <1>1 DEF Init, L!Init, LoginInv, LoginTypes, LoginStage, L!Steps, L!Replies
<1> QED BY <1>2, <1>3 DEF IInv

\* ... and every step keeps it.
LEMMA InvStep == IInv /\ [Next]_vars => IInv'
<1> SUFFICES ASSUME IInv, [Next]_vars PROVE IInv'
  OBVIOUS
<1>1. ASSUME UNCHANGED <<pc, command, response, domain_events>>, Rows' = Rows
      PROVE  RegistrationInv'
  <2>1. \A c \in Rows : StoredBy(c)'
    BY <1>1, KeepStored DEF IInv, RegistrationInv, RowsStored
  <2>2. \A r \in Requests : RegistrationStage(r)'
    BY <1>1, KeepStage DEF IInv, RegistrationInv
  <2> QED BY <1>1, <2>1, <2>2 DEF IInv, RegistrationInv, RegistrationTypes, RowsStored
<1>2. CASE Registering
  <2>1. RegistrationInv'
    BY <1>2, RegistrationStep DEF Registering, loggingIn, IInv
  <2>2. Rows \subseteq Rows'
    <3>1. R!Next /\ erased' = erased
      BY <1>2 DEF Registering, loggingIn
    <3> QED BY <3>1, StepsOfRegistration DEF Rows
  <2> QED BY <1>2, <2>1, <2>2, KeepLogins DEF Registering, loggingIn, IInv
<1>3. CASE LoggingIn
  <2>1. LoginInv' /\ Rows' = Rows
    BY <1>3, LoginStep DEF LoggingIn, IInv, Rows
  <2> QED BY <1>1, <1>3, <2>1 DEF LoggingIn, registering, IInv
<1>4. CASE Operating
  <2>1. UNCHANGED <<lpc, body, seen, reply>> /\ Rows' = Rows
    BY <1>4, OperateStep DEF Operating
  <2> QED BY <1>1, <1>4, <2>1, KeepLogins DEF Operating, registering, IInv
<1>5. CASE ProcessCrash
  <2>1. LoginInv' /\ erased' = erased
    BY <1>5, LoginStep DEF ProcessCrash, L!LoginNext, IInv
  <2>2. RegistrationInv'
    BY <1>5, <2>1, RegistrationStep DEF ProcessCrash, R!Next, IInv
  <2> QED BY <2>1, <2>2 DEF IInv
<1>6. CASE UNCHANGED vars
  BY <1>1, <1>6, KeepLogins DEF vars, registering, loggingIn, Rows, IInv
<1> QED BY <1>2, <1>3, <1>4, <1>5, <1>6 DEF Next

\* Every reachable state satisfies the inductive invariant.
THEOREM Invariance == Spec => []IInv
BY InvInit, InvStep, PTL DEF Spec

\* Tokens name a user of the event store who was not refused, and go to a client
\* that knows one of its identifiers and its password, however registrations,
\* logins and deletions overlap (register.handler.ts:80-98, login.handler.ts:36-72).
THEOREM TokensCorrect == Spec => []TokensForRegisteredUsers
<1>1. IInv => TokensForRegisteredUsers
  <2> SUFFICES ASSUME IInv, NEW l \in Logins, reply[l] = "ok", NEW r, r = seen[l].userId
               PROVE  /\ \E e \in domain_events : e.userId = r
                      /\ response[r] \notin {"invalid", "conflict"}
                      /\ \/ Lower[body[l].identifier] = R!Normal(command[r].email)
                         \/ body[l].identifier = command[r].username
                      /\ Hash[body[l].password] = Hash[command[r].password]
    BY DEF TokensForRegisteredUsers
  <2>1. /\ seen[l] \in Rows /\ Matches(seen[l], body[l].identifier)
        /\ Hash[body[l].password] = Hash[seen[l].password]
    BY DEF IInv, LoginInv, LoginStage
  <2>2. StoredBy(seen[l])
    BY <2>1 DEF IInv, RegistrationInv, RowsStored
  <2>3. /\ seen[l].email = Trim[Lower[command[r].email]]
        /\ seen[l].username = command[r].username
        /\ seen[l].password = command[r].password
    BY <2>2 DEF StoredBy, R!AccountFor, R!StoredEmail
  <2>4. command[r].email \in Texts
    BY <2>2, TextFacts DEF StoredBy
  <2> QED BY <2>1, <2>2, <2>3, <2>4, TextFacts DEF StoredBy, Matches, R!EventOf, R!Normal
<1> QED BY <1>1, Invariance, PTL

\* Registration, seen from the table, does what Login says the world around it
\* does: whole accounts appear that do not clash and were never deleted.
THEOREM LoginImplemented == Spec => ImplementsLogin
<1>1. Init => L!Init
  BY DEF Init
<1>2. IInv /\ [Next]_vars => [L!Next]_(L!vars)
  <2> SUFFICES ASSUME IInv, [Next]_vars PROVE L!Next \/ UNCHANGED L!vars
    OBVIOUS
  <2>1. CASE Registering
    <3>1. /\ R!Next /\ UNCHANGED <<L!own, last_login_at, erased, inactive, clock,
                                   lfaults, barred>>
      BY <2>1 DEF Registering, loggingIn, L!own
    <3>2. CASE auth_credentials' = auth_credentials
      BY <3>1, <3>2 DEF L!vars, L!own, L!table
    <3>3. ASSUME NEW r \in Requests, R!StoreCredentials(r),
                 \A row \in auth_credentials : ~ Clash(row, R!CredentialOf(r)),
                 auth_credentials' = auth_credentials \cup {R!CredentialOf(r)}
          PROVE  L!Next
      <4>1. PICK a : a = R!CredentialOf(r)
        OBVIOUS
      <4>2. pc[r] = "store" /\ a.userId = r
        BY <3>3, <4>1 DEF R!StoreCredentials, R!CredentialOf
      <4>3. a \in Accounts
        BY <4>1, <4>2 DEF IInv, RegistrationInv, RegistrationStage, Accounts,
                          R!CredentialOf, R!AccountFor
      <4>4. a.userId \notin L!Gone
        BY <4>2 DEF IInv, RegistrationInv, RowsStored, StoredBy, Rows, L!Gone
      <4>5. L!CreateAccount(a)
        BY <3>1, <3>3, <4>1, <4>4 DEF L!CreateAccount, L!Clash, Clash
      <4> QED BY <4>3, <4>5 DEF L!Next
    <3> QED BY <3>1, <3>2, <3>3, StepsOfRegistration
  <2>2. CASE LoggingIn
    BY <2>2 DEF LoggingIn, L!Next
  <2>3. CASE Operating
    BY <2>3 DEF Operating, L!Next
  <2>4. CASE ProcessCrash
    BY <2>4 DEF ProcessCrash, L!Next, L!LoginNext
  <2>5. CASE UNCHANGED vars
    BY <2>5 DEF vars, loggingIn, L!vars, L!own, L!table
  <2> QED BY <2>1, <2>2, <2>3, <2>4, <2>5 DEF Next
<1> QED BY <1>1, <1>2, Invariance, PTL DEF Spec, ImplementsLogin, L!Spec
-----------------------------------------------------------------------------
(***************************************************************************)
(* A client that was told 201 is let in.  Its row has been there since     *)
(* before the login arrived, or was deleted (CreatedStored); keys are      *)
(* unique, so the row the login carries is that one (CreatedStage).         *)
(***************************************************************************)

AccountOf(r) == R!AccountFor(r, command[r])

KeysUnique == \A c, d \in auth_credentials : Clash(c, d) => c = d

CreatedStored == \A r \in Requests : response[r] = "created" => AccountOf(r) \in Rows

CreatedTypes == created \in [Logins -> SUBSET Requests]

Uses(l, r) == body[l].identifier \in {command[r].email, command[r].username}

CreatedStage(l) ==
  /\ lpc[l] = "new" => created[l] = {}
  /\ lpc[l] # "done" => reply[l] \in {"none", "error", "lost"}
  /\ \A r \in created[l] :
       /\ response[r] = "created"
       /\ lpc[l] = "verify" /\ Uses(l, r) => seen[l] = AccountOf(r) \/ r \in L!Gone

CreatedInv ==
  /\ KeysUnique /\ CreatedStored /\ CreatedTypes
  /\ \A l \in Logins : CreatedStage(l)

\* What a text finds is one row.
LEMMA MatchOnce ==
  ASSUME IInv, CreatedInv, NEW t \in Texts,
         NEW c \in auth_credentials, Matches(c, t),
         NEW d \in auth_credentials, Matches(d, t)
  PROVE  c = d
<1>1. ASSUME NEW b \in auth_credentials
      PROVE  b.email \in EmailRegex /\ b.username \in UsernameRegex
  <2>1. StoredBy(b)
    BY DEF IInv, RegistrationInv, RowsStored, Rows
  <2>2. command[b.userId].email \in Texts
    BY <2>1, TextFacts DEF StoredBy
  <2> QED BY <2>1, <2>2, TextFacts
          DEF StoredBy, R!AccountFor, R!StoredEmail, R!ValidForUser, R!Normal
<1>2. Clash(c, d)
  BY <1>1, TextFacts DEF Matches, Clash
<1> QED BY <1>2 DEF CreatedInv, KeysUnique

\* A created account that was not deleted is found under what its client typed.
LEMMA CreatedFound ==
  ASSUME IInv, CreatedInv, NEW r \in Requests, response[r] = "created", r \notin L!Gone
  PROVE  /\ AccountOf(r) \in auth_credentials /\ AccountOf(r).userId = r
         /\ command[r].email \in Texts /\ command[r].username \in Texts
         /\ Matches(AccountOf(r), command[r].email)
         /\ Matches(AccountOf(r), command[r].username)
<1>1. AccountOf(r).userId = r /\ AccountOf(r) \in Rows
  BY DEF AccountOf, R!AccountFor, CreatedInv, CreatedStored
<1>2. AccountOf(r) \in auth_credentials
  BY <1>1 DEF Rows, L!Gone
<1>3. StoredBy(AccountOf(r))
  BY <1>1 DEF IInv, RegistrationInv, RowsStored
<1>4. /\ command[r].email \in Texts /\ command[r].username \in Texts
      /\ command[r].email \in EmailDto
  BY <1>1, <1>3, TextFacts DEF StoredBy, R!ValidDto
<1>5. Trim[Lower[command[r].email]] = Lower[command[r].email]
  BY <1>4, TextFacts
<1> QED BY <1>1, <1>2, <1>4, <1>5 DEF Matches, AccountOf, R!AccountFor, R!StoredEmail

\* A login that uses an identifier of a created account finds that one.
LEMMA FindsCreated ==
  ASSUME IInv, CreatedInv, NEW l \in Logins, NEW r \in created[l], Uses(l, r),
         r \notin L!Gone
  PROVE  /\ AccountOf(r) \in auth_credentials /\ AccountOf(r).userId = r
         /\ Matches(AccountOf(r), body[l].identifier)
         /\ \A row \in auth_credentials :
              Matches(row, body[l].identifier) => row = AccountOf(r)
<1>1. r \in Requests /\ response[r] = "created"
  BY DEF CreatedInv, CreatedTypes, CreatedStage
<1> QED BY <1>1, CreatedFound, MatchOnce DEF Uses

\* Registrations answered 201 stay so, and accounts stay deleted.
LEMMA CreatedStays ==
  ASSUME IInv, [Next]_vars, NEW r \in Requests, response[r] = "created"
  PROVE  /\ response'[r] = "created" /\ command'[r] = command[r]
         /\ AccountOf(r)' = AccountOf(r)
<1>1. pc[r] = "done"
  BY DEF IInv, RegistrationInv, RegistrationStage
<1>2. response'[r] = "created" /\ command'[r] = command[r]
  <2> USE DEF IInv, RegistrationInv, RegistrationTypes
  <2>1. CASE R!Crash
    BY <1>1, <2>1 DEF R!Crash, R!InFlight
  <2>2. ASSUME NEW q \in Requests, NEW c \in Commands, R!Register(q, c)
        PROVE  response'[r] = "created" /\ command'[r] = command[r]
    BY <1>1, <2>2 DEF R!Register, R!GoTo, R!Answer
  <2>3. ASSUME NEW q \in Requests,
               \/ R!Handle(q) \/ R!StatementFails(q) \/ R!ConnectionLost(q)
               \/ R!ProjectionFails(q) \/ R!WriteLost(q)
        PROVE  response'[r] = "created" /\ command'[r] = command[r]
    BY <1>1, <2>3
       DEF R!Handle, R!CheckEmail, R!CheckUsername, R!RejectUser, R!AppendEvent,
           R!ProjectUser, R!StoreCredentials, R!StatementFails,
           R!ConnectionLost, R!ProjectionFails, R!WriteLost, R!GoTo, R!Answer
  <2>4. CASE Registering
    BY <2>1, <2>2, <2>3, <2>4 DEF Registering, R!Next
  <2>5. CASE ProcessCrash
    BY <2>1, <2>5 DEF ProcessCrash
  <2>6. CASE LoggingIn \/ Operating \/ UNCHANGED vars
    BY <2>6 DEF LoggingIn, Operating, vars, registering
  <2> QED BY <2>4, <2>5, <2>6 DEF Next
<1>3. AccountOf(r)' = AccountOf(r)
  BY <1>2 DEF AccountOf, R!AccountFor, R!StoredEmail
<1> QED BY <1>2, <1>3

\* Rows and deletions only grow.
LEMMA TableStep ==
  ASSUME IInv, [Next]_vars
  PROVE  Rows \subseteq Rows' /\ L!Gone \subseteq L!Gone'
<1>1. CASE Registering
  BY <1>1, StepsOfRegistration DEF Registering, loggingIn, Rows, L!Gone
<1>2. CASE LoggingIn \/ ProcessCrash
  BY <1>2, LoginStep DEF LoggingIn, ProcessCrash, L!LoginNext, Rows, L!Gone, IInv
<1>3. CASE Operating
  <2>1. Rows' = Rows
    BY <1>3, OperateStep DEF Operating
  <2>2. erased \subseteq erased'
    BY <1>3 DEF Operating, L!Operate, L!Tick, L!Deactivate, L!Activate,
                L!DeleteByUserId, L!table
  <2> QED BY <2>1, <2>2 DEF L!Gone
<1>4. CASE UNCHANGED vars
  BY <1>4 DEF vars, loggingIn, Rows, L!Gone
<1> QED BY <1>1, <1>2, <1>3, <1>4 DEF Next

\* The unique constraints are kept,
LEMMA KeysStep == ASSUME IInv, CreatedInv, [Next]_vars PROVE KeysUnique'
<1>1. CASE Registering
  BY <1>1, StepsOfRegistration DEF Registering, CreatedInv, KeysUnique, Clash
<1>2. CASE LoggingIn \/ ProcessCrash
  BY <1>2, LoginStep
     DEF LoggingIn, ProcessCrash, L!LoginNext, IInv, CreatedInv, KeysUnique, Clash
<1>3. CASE Operating
  <2>1. auth_credentials' \subseteq auth_credentials
    BY <1>3 DEF Operating, L!Operate, L!Tick, L!Deactivate, L!Activate,
                L!DeleteByUserId, L!table
  <2> QED BY <2>1 DEF CreatedInv, KeysUnique, Clash
<1>4. CASE UNCHANGED vars
  BY <1>4 DEF vars, CreatedInv, KeysUnique, Clash
<1> QED BY <1>1, <1>2, <1>3, <1>4 DEF Next

\* ... and who is told 201 has a row.
LEMMA CreatedStoredStep ==
  ASSUME IInv, CreatedInv, [Next]_vars, NEW r \in Requests, response'[r] = "created"
  PROVE  AccountOf(r)' \in Rows'
<1>1. CASE response[r] = "created"
  BY <1>1, CreatedStays, TableStep DEF CreatedInv, CreatedStored
<1>2. CASE response[r] # "created"
  <2> USE DEF IInv, RegistrationInv, RegistrationTypes
  <2>1. R!StoreCredentials(r)
    <3>1. CASE R!Crash
      BY <1>2, <3>1 DEF R!Crash
    <3>2. ASSUME NEW q \in Requests, NEW c \in Commands, R!Register(q, c)
          PROVE  FALSE
      BY <1>2, <3>2 DEF R!Register, R!GoTo, R!Answer
    <3>3. ASSUME NEW q \in Requests,
                 \/ R!CheckEmail(q) \/ R!CheckUsername(q) \/ R!RejectUser(q)
                 \/ R!AppendEvent(q) \/ R!ProjectUser(q)
                 \/ R!StatementFails(q) \/ R!ConnectionLost(q)
                 \/ R!ProjectionFails(q) \/ R!WriteLost(q)
          PROVE  FALSE
      BY <1>2, <3>3
         DEF R!CheckEmail, R!CheckUsername, R!RejectUser, R!AppendEvent,
             R!ProjectUser, R!StatementFails, R!ConnectionLost,
             R!ProjectionFails, R!WriteLost, R!GoTo, R!Answer
    <3>4. ASSUME NEW q \in Requests, R!StoreCredentials(q)
          PROVE  R!StoreCredentials(r)
      BY <1>2, <3>4 DEF R!StoreCredentials, R!Answer
    <3>5. CASE Registering
      BY <3>1, <3>2, <3>3, <3>4, <3>5 DEF Registering, R!Next, R!Handle
    <3>6. CASE ProcessCrash
      BY <3>1, <3>6 DEF ProcessCrash
    <3>7. CASE LoggingIn \/ Operating \/ UNCHANGED vars
      BY <1>2, <3>7 DEF LoggingIn, Operating, vars, registering
    <3> QED BY <3>5, <3>6, <3>7 DEF Next
  <2>2. command' = command /\ auth_credentials' = auth_credentials \cup {R!CredentialOf(r)}
    BY <1>2, <2>1 DEF R!StoreCredentials, R!StoreFailed, R!Answer
  <2>3. AccountOf(r)' = R!CredentialOf(r)
    BY <2>2 DEF AccountOf, R!AccountFor, R!CredentialOf, R!StoredEmail
  <2> QED BY <2>2, <2>3 DEF Rows
<1> QED BY <1>1, <1>2

\* What the handler and its faults do to one login.
Stays(l) ==
  lpc'[l] = lpc[l] /\ body'[l] = body[l] /\ seen'[l] = seen[l] /\ reply'[l] = reply[l]

Arrives(l) ==
  /\ lpc[l] = "new" /\ lpc'[l] \in {"lookup", "done"}
  /\ lpc'[l] = "lookup" => reply'[l] = reply[l]

LooksUp(l) ==
  /\ lpc[l] = "lookup" /\ body'[l] = body[l]
  /\ \/ lpc'[l] = "done"
     \/ /\ lpc'[l] = "verify" /\ reply'[l] = reply[l]
        /\ seen'[l] \in Found(body[l].identifier)
  /\ reply'[l] = "unauthorized" =>
       \/ Found(body[l].identifier) = {}
       \/ \E row \in Found(body[l].identifier) : row.userId \in inactive

MovesOn(l) ==
  /\ lpc[l] \notin {"new", "done"} /\ body'[l] = body[l] /\ seen'[l] = seen[l]
  /\ \/ lpc'[l] = "done"
     \/ lpc'[l] \in {"update", "tokens"} /\ reply'[l] \in {reply[l], "error", "lost"}
  /\ reply'[l] = "unauthorized" =>
       lpc[l] = "verify" /\ Hash[body[l].password] # Hash[seen[l].password]

LEMMA LoginMoves ==
  ASSUME IInv, CreatedInv, L!LoginNext, NEW l \in Logins
  PROVE  Stays(l) \/ Arrives(l) \/ LooksUp(l) \/ MovesOn(l)
<1> USE DEF IInv, LoginInv, LoginTypes
<1>1. lpc[l] # "done" => reply[l] # "unauthorized"
  BY DEF CreatedInv, CreatedStage
<1>2. CASE L!Crash
  <2>1. /\ UNCHANGED <<body, seen>>
        /\ reply' = [k \in Logins |-> IF k \in L!InFlight THEN "lost" ELSE reply[k]]
        /\ lpc' = [k \in Logins |->
                     IF k \in L!InFlight /\ lpc[k] # "update" THEN "done" ELSE lpc[k]]
    BY <1>2 DEF L!Crash
  <2>2. l \in L!InFlight => lpc[l] \notin {"new", "done"}
    BY DEF L!InFlight
  <2> QED BY <1>1, <2>1, <2>2 DEF Stays, MovesOn
<1>3. ASSUME NEW k \in Logins, NEW b \in Bodies, L!Arrive(k, b)
      PROVE  Stays(l) \/ Arrives(l)
  BY <1>3 DEF L!Arrive, L!GoTo, L!Answer, L!Alive, Stays, Arrives
<1>4. ASSUME NEW k \in Logins, L!Lookup(k) PROVE Stays(l) \/ LooksUp(l)
  <2>1. CASE k # l
    BY <1>4, <2>1 DEF L!Lookup, L!GoTo, L!Answer, Stays
  <2>2. CASE k = l
    <3>1. lpc[l] = "lookup" /\ body' = body /\ L!Found(body[l].identifier) = Found(body[l].identifier)
      BY <1>4, <2>2 DEF L!Lookup, L!Found, Found, L!Matches, Matches
    <3>2. \/ /\ Found(body[l].identifier) = {} /\ lpc' = [lpc EXCEPT ![l] = "done"]
          \/ \E row \in Found(body[l].identifier) :
               /\ seen' = [seen EXCEPT ![l] = row]
               /\ \/ row.userId \in inactive /\ lpc' = [lpc EXCEPT ![l] = "done"]
                  \/ /\ lpc' \in {[lpc EXCEPT ![l] = "verify"], [lpc EXCEPT ![l] = "done"]}
                     /\ reply' = reply
      BY <1>4, <2>2, <3>1 DEF L!Lookup, L!GoTo, L!Answer, L!Alive
    <3> QED BY <1>1, <3>1, <3>2 DEF LooksUp
  <2> QED BY <2>1, <2>2
<1>5. ASSUME NEW k \in Logins, L!Verify(k) PROVE Stays(l) \/ MovesOn(l)
  BY <1>1, <1>5 DEF L!Verify, L!PasswordMatches, L!GoTo, L!Answer, L!Alive, Stays, MovesOn
<1>6. ASSUME NEW k \in Logins,
             \/ L!UpdateLastLogin(k) \/ L!IssueTokens(k) \/ L!StatementFails(k)
             \/ L!ConnectionLost(k) \/ L!UpdateLost(k)
      PROVE  Stays(l) \/ MovesOn(l)
  <2>1. UNCHANGED <<body, seen>> /\ lpc[k] \notin {"new", "done"}
    BY <1>6 DEF L!UpdateLastLogin, L!IssueTokens, L!StatementFails,
                L!ConnectionLost, L!UpdateLost
  <2>2. \/ lpc' = [lpc EXCEPT ![k] = "tokens"] /\ reply' = reply
        \/ /\ lpc[k] = "update" /\ lpc' = lpc
           /\ reply' = [reply EXCEPT ![k] = "error"]
        \/ /\ lpc' = [lpc EXCEPT ![k] = "done"]
           /\ \E status \in {"ok", "error", "lost", reply[k]} :
                reply' = [reply EXCEPT ![k] = status]
    BY <1>6 DEF L!UpdateLastLogin, L!IssueTokens, L!StatementFails,
                L!ConnectionLost, L!UpdateLost, L!Answer, L!GoTo, L!Alive
  <2> QED BY <1>1, <2>1, <2>2 DEF Stays, MovesOn
<1> QED BY <1>2, <1>3, <1>4, <1>5, <1>6 DEF L!LoginNext, L!Handle

\* A login that has looked up a created account carries its row, for good.
LEMMA CreatedLoginStep ==
  ASSUME IInv, CreatedInv, LoggingIn, NEW l \in Logins
  PROVE  CreatedStage(l)'
<1>1. /\ UNCHANGED registering /\ Rows' = Rows /\ L!Gone' = L!Gone
      /\ created'[l] = IF lpc[l] = "new" /\ lpc'[l] # "new"
                       THEN {r \in Requests : response[r] = "created"} ELSE created[l]
  BY LoginStep DEF LoggingIn, IInv, Rows, L!Gone
<1>2. \A r \in created[l] : r \in Requests /\ response[r] = "created"
  BY DEF CreatedInv, CreatedTypes, CreatedStage
<1>3. \A r \in created'[l] : response'[r] = "created" /\ AccountOf(r)' = AccountOf(r)
  BY <1>1, <1>2 DEF registering, AccountOf, R!AccountFor, R!StoredEmail
<1>4. CreatedStage(l)
  BY DEF CreatedInv
<1>5. CASE Stays(l)
  BY <1>1, <1>3, <1>4, <1>5 DEF Stays, CreatedStage, Uses, registering
<1>6. CASE Arrives(l)
  BY <1>1, <1>3, <1>4, <1>6 DEF Arrives, CreatedStage
<1>7. CASE LooksUp(l)
  <2>1. created'[l] = created[l]
    BY <1>1, <1>7 DEF LooksUp
  <2>2. ASSUME NEW r \in created[l], lpc'[l] = "verify", Uses(l, r), r \notin L!Gone
        PROVE  seen'[l] = AccountOf(r)
    BY <1>7, <2>2, FindsCreated DEF LooksUp, Found
  <2>3. \A r \in created[l] : Uses(l, r)' = Uses(l, r)
    BY <1>1, <1>7 DEF LooksUp, Uses, registering
  <2> QED BY <1>1, <1>3, <1>4, <1>7, <2>1, <2>2, <2>3 DEF LooksUp, CreatedStage
<1>8. CASE MovesOn(l)
  BY <1>1, <1>3, <1>4, <1>8 DEF MovesOn, CreatedStage
<1> QED BY <1>5, <1>6, <1>7, <1>8, LoginMoves DEF LoggingIn

\* A crash of the process leaves a login where it stands, or ends it.
LEMMA CreatedCrashStep ==
  ASSUME IInv, CreatedInv, ProcessCrash, NEW l \in Logins
  PROVE  /\ body'[l] = body[l] /\ seen'[l] = seen[l] /\ lpc'[l] \in {lpc[l], "done"}
         /\ reply'[l] \in {reply[l], "lost"}
BY DEF ProcessCrash, L!Crash, IInv, LoginInv, LoginTypes

LEMMA CreatedStep == IInv /\ CreatedInv /\ [Next]_vars => CreatedInv'
<1> SUFFICES ASSUME IInv, CreatedInv, [Next]_vars PROVE CreatedInv'
  OBVIOUS
<1>1. KeysUnique'
  BY KeysStep
<1>2. CreatedStored'
  BY CreatedStoredStep DEF CreatedStored
<1>3. CreatedTypes'
  <2>1. CASE LoggingIn
    BY <2>1 DEF LoggingIn, CreatedInv, CreatedTypes
  <2>2. CASE Registering \/ Operating \/ ProcessCrash \/ UNCHANGED vars
    BY <2>2 DEF Registering, Operating, ProcessCrash, vars, loggingIn, CreatedInv,
                CreatedTypes
  <2> QED BY <2>1, <2>2 DEF Next
<1>4. ASSUME NEW l \in Logins PROVE CreatedStage(l)'
  <2>1. CASE LoggingIn
    BY <2>1, CreatedLoginStep
  <2>2. CASE ~ LoggingIn
    <3>1. created' = created
      BY <2>2 DEF Next, Registering, Operating, ProcessCrash, vars, loggingIn
    <3>2. CreatedStage(l)
      BY DEF CreatedInv
    <3>3. \A r \in created[l] :
            /\ response'[r] = "created" /\ AccountOf(r)' = AccountOf(r)
            /\ command'[r] = command[r]
      BY CreatedStays DEF CreatedInv, CreatedTypes, CreatedStage
    <3>4. L!Gone \subseteq L!Gone'
      BY TableStep
    <3>5. CASE UNCHANGED <<lpc, body, seen, reply>>
      BY <3>1, <3>2, <3>3, <3>4, <3>5 DEF CreatedStage, Uses
    <3>6. CASE ProcessCrash
      BY <3>1, <3>2, <3>3, <3>4, <3>6, CreatedCrashStep DEF CreatedStage, Uses
    <3> QED BY <2>2, <3>5, <3>6, OperateStep
            DEF Next, Registering, Operating, vars, loggingIn
  <2> QED BY <2>1, <2>2
<1> QED BY <1>1, <1>2, <1>3, <1>4 DEF CreatedInv

\* Every reachable state satisfies the second invariant too.
THEOREM CreatedInvariance == Spec => [](IInv /\ CreatedInv)
<1>1. Init => CreatedInv
  <2> SUFFICES ASSUME Init PROVE CreatedInv
    OBVIOUS
  <2>1. KeysUnique /\ CreatedStored /\ CreatedTypes
    BY DEF Init, R!Init, L!Init, KeysUnique, CreatedStored, CreatedTypes
  <2>2. \A l \in Logins : CreatedStage(l)
    BY DEF Init, L!Init, CreatedStage
  <2> QED BY <2>1, <2>2 DEF CreatedInv
<1> QED BY <1>1, CreatedStep, InvInit, InvStep, PTL DEF Spec

\* A client that was told 201 and logs in with what it typed is turned away only
\* when its account is inactive or deleted at that moment, however registrations,
\* logins, crashes and deletions overlap (register.handler.ts:80-98,
\* login.handler.ts:36-67).
THEOREM NotRefusedCorrect == Spec => CreatedNotRefused
<1>1. IInv /\ CreatedInv /\ [Next]_vars =>
        [\A l \in Logins : \A r \in created[l] :
           lpc[l] \in {"lookup", "verify"} /\ KnowsAccount(l, r)
             /\ reply'[l] = "unauthorized"
           => r \in inactive \cup L!Gone]_vars
  <2> SUFFICES ASSUME IInv, CreatedInv, Next, NEW l \in Logins, NEW r \in created[l],
                      lpc[l] \in {"lookup", "verify"}, KnowsAccount(l, r),
                      reply'[l] = "unauthorized", r \notin L!Gone
               PROVE  r \in inactive
    OBVIOUS
  <2>1. reply[l] # "unauthorized" /\ Uses(l, r)
    BY DEF CreatedInv, CreatedStage, KnowsAccount, Uses
  <2>2. L!LoginNext
    BY <2>1, OperateStep
       DEF Next, Registering, LoggingIn, Operating, ProcessCrash, L!LoginNext, loggingIn
  <2>3. LooksUp(l) \/ MovesOn(l)
    BY <2>1, <2>2, LoginMoves DEF Stays, Arrives
  <2>4. CASE LooksUp(l)
    BY <2>1, <2>4, FindsCreated DEF LooksUp, Found
  <2>5. CASE MovesOn(l)
    <3>1. seen[l] = AccountOf(r)
      BY <2>1, <2>5 DEF MovesOn, CreatedInv, CreatedStage
    <3>2. seen[l].password = command[r].password
      BY <3>1 DEF AccountOf, R!AccountFor
    <3> QED BY <2>5, <3>2 DEF MovesOn, KnowsAccount
  <2> QED BY <2>3, <2>4, <2>5
<1> QED BY <1>1, CreatedInvariance, PTL DEF Spec, CreatedNotRefused
-----------------------------------------------------------------------------
(***************************************************************************)
(* What clients are told is what one atomic registry would tell them: each *)
(* step of a registration is a step of AccountRegistry or none.            *)
(***************************************************************************)

LEMMA RegistryRegisters ==
  ASSUME IInv, R!Next
  PROVE  R!Registry!Next \/ UNCHANGED R!Registry!vars
<1> USE DEF IInv, RegistrationInv, RegistrationTypes
<1>1. CASE R!Crash
  <2>1. R!Registry!Lose(R!InFlight)
    BY <1>1 DEF R!Crash, R!tables, R!InFlight, R!Alive, R!Registry!Lose
  <2>2. R!InFlight \in SUBSET Requests
    BY DEF R!InFlight
  <2> QED BY <2>1, <2>2 DEF R!Registry!Next
<1>2. ASSUME NEW r \in Requests, NEW c \in Commands, R!Register(r, c)
      PROVE  R!Registry!Next
  <2>1. response[r] = "none"
    BY <1>2 DEF R!Register, RegistrationStage
  <2>2. R!Registry!Ask(r, c)
    BY <1>2, <2>1 DEF R!Register, R!GoTo, R!Answer, R!Alive, R!tables, R!Registry!Ask,
                      R!Registry!Tell
  <2> QED BY <2>2 DEF R!Registry!Next
<1>3. ASSUME NEW r \in Requests, R!CheckEmail(r) \/ R!CheckUsername(r)
      PROVE  R!Registry!Next \/ UNCHANGED R!Registry!vars
  <2>1. UNCHANGED <<command, auth_credentials>> /\ command[r] \in Commands
    BY <1>3 DEF R!CheckEmail, R!CheckUsername, R!tables, RegistrationStage
  <2>2. \/ response' = response
        \/ /\ response[r] = "none" /\ response' = [response EXCEPT ![r] = "conflict"]
           /\ \E a \in auth_credentials : R!Names(a, command[r])
    BY <1>3 DEF R!CheckEmail, R!CheckUsername, R!GoTo, R!Answer, R!Alive, R!Found,
                R!Names
  <2>3. CASE response' = response
    BY <2>1, <2>3 DEF R!Registry!vars
  <2>4. CASE response' # response
    <3>1. R!Registry!Conflict(r)
      BY <2>1, <2>2, <2>4 DEF R!Registry!Conflict, R!Registry!Tell
    <3> QED BY <3>1 DEF R!Registry!Next
  <2> QED BY <2>3, <2>4
<1>4. ASSUME NEW r \in Requests,
             \/ R!RejectUser(r) \/ R!StatementFails(r) \/ R!ConnectionLost(r)
             \/ R!StoreCredentials(r) /\ auth_credentials' = auth_credentials
      PROVE  R!Registry!Next \/ UNCHANGED R!Registry!vars
  <2>1. UNCHANGED <<command, auth_credentials>>
    BY <1>4 DEF R!RejectUser, R!StatementFails, R!ConnectionLost,
                R!StoreCredentials, R!tables
  <2>2. \/ response' = response
        \/ response[r] = "none" /\ response' = [response EXCEPT ![r] = "error"]
    <3>1. R!StoreCredentials(r) /\ auth_credentials' = auth_credentials
             => \E row \in auth_credentials : R!Clash(row, R!CredentialOf(r))
      BY DEF R!StoreCredentials, R!Clash
    <3> QED BY <1>4, <3>1 DEF R!RejectUser, R!StatementFails, R!ConnectionLost,
                              R!StoreCredentials,
                              R!StoreFailed, R!Answer, R!Alive
  <2>3. CASE response' = response
    BY <2>1, <2>3 DEF R!Registry!vars
  <2>4. CASE response' # response
    <3>1. R!Registry!Fail(r)
      BY <2>1, <2>2, <2>4 DEF R!Registry!Fail, R!Registry!Tell
    <3> QED BY <3>1 DEF R!Registry!Next
  <2> QED BY <2>3, <2>4
<1>5. ASSUME NEW r \in Requests,
             \/ R!AppendEvent(r) \/ R!ProjectUser(r) \/ R!ProjectionFails(r)
             \/ R!WriteLost(r)
      PROVE  UNCHANGED R!Registry!vars
  BY <1>5 DEF R!AppendEvent, R!ProjectUser, R!ProjectionFails, R!WriteLost, R!GoTo,
              R!Answer, R!Alive, R!tables, R!Registry!vars
<1>6. ASSUME NEW r \in Requests, R!StoreCredentials(r),
             auth_credentials' # auth_credentials
      PROVE  R!Registry!Next
  <2>1. PICK a : a = R!AccountFor(r, command[r])
    OBVIOUS
  <2>2. a = R!CredentialOf(r)
    BY <2>1 DEF R!AccountFor, R!CredentialOf
  <2>3. /\ command' = command /\ pc[r] = "store"
        /\ auth_credentials' = auth_credentials \cup {a}
        /\ \A b \in auth_credentials : ~ R!Clash(b, a)
    BY <1>6, <2>2 DEF R!StoreCredentials
  <2>4. command[r] \in Commands /\ response[r] \in {"none", "error", "lost"}
    BY <2>3 DEF RegistrationStage
  <2>5. \/ response[r] = "none" /\ response' = [response EXCEPT ![r] = "created"]
        \/ response[r] \in {"error", "lost"} /\ response' = response
    <3>1. response' = [response EXCEPT ![r] = IF R!Alive(r) THEN "created" ELSE @]
      BY <1>6 DEF R!StoreCredentials, R!Answer
    <3> QED BY <2>4, <3>1 DEF R!Alive
  <2>6. ~ R!Registry!Taken(a)
    BY <2>3 DEF R!Registry!Taken, R!Clash
  <2>7. R!Registry!Grant(r)
    BY <2>1, <2>3, <2>4, <2>5, <2>6 DEF R!Registry!Grant, R!Registry!Tell
  <2> QED BY <2>7 DEF R!Registry!Next
<1> QED BY <1>1, <1>2, <1>3, <1>4, <1>5, <1>6 DEF R!Next, R!Handle

\* ... and a deletion removes one account.
LEMMA RegistryOperates ==
  ASSUME CreatedInv, Operating
  PROVE  R!Registry!Next \/ UNCHANGED R!Registry!vars
<1>1. UNCHANGED <<command, response>>
  BY DEF Operating, registering
<1>2. CASE L!Tick \/ \E u \in Switched : L!Deactivate(u) \/ L!Activate(u)
  BY <1>1, <1>2 DEF L!Tick, L!Deactivate, L!Activate, L!table, R!Registry!vars
<1>3. ASSUME NEW u \in Erasable, L!DeleteByUserId(u) PROVE R!Registry!Next
  <2>1. PICK a \in auth_credentials : a.userId = u
    BY <1>3 DEF L!DeleteByUserId, L!RowsOf
  <2>2. L!RowsOf(u) = {a}
    BY <2>1 DEF L!RowsOf, CreatedInv, KeysUnique, Clash
  <2>3. R!Registry!Remove(a)
    BY <1>1, <1>3, <2>2 DEF L!DeleteByUserId, R!Registry!Remove
  <2> QED BY <2>1, <2>3 DEF R!Registry!Next
<1> QED BY <1>2, <1>3 DEF Operating, L!Operate

\* Registrations, with logins and deletions around them, implement the atomic
\* registry of accounts: what a client is told is true of the accounts at one
\* moment between its request and the answer (register.handler.ts:32-98).
THEOREM RegistryImplemented == Spec => ImplementsAccountRegistry
<1>1. Init => R!Registry!Init
  BY DEF Init, R!Init, R!Registry!Init
<1>2. IInv /\ CreatedInv /\ [Next]_vars => [R!Registry!Next]_(R!Registry!vars)
  <2> SUFFICES ASSUME IInv, CreatedInv, [Next]_vars
               PROVE  R!Registry!Next \/ UNCHANGED R!Registry!vars
    OBVIOUS
  <2>1. CASE Registering \/ ProcessCrash
    BY <2>1, RegistryRegisters DEF Registering, ProcessCrash, R!Next
  <2>2. CASE LoggingIn
    BY <2>2, LoginStep DEF LoggingIn, IInv, registering, R!Registry!vars
  <2>3. CASE Operating
    BY <2>3, RegistryOperates
  <2>4. CASE UNCHANGED vars
    BY <2>4 DEF vars, registering, R!Registry!vars
  <2> QED BY <2>1, <2>2, <2>3, <2>4 DEF Next
<1> QED BY <1>1, <1>2, CreatedInvariance, PTL
        DEF Spec, ImplementsAccountRegistry, R!ImplementsAccountRegistry, R!Registry!Spec
=============================================================================
