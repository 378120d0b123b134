----------------------------- MODULE LoginProofs -----------------------------
(***************************************************************************)
(* Safety of Login for any number of logins, accounts, texts, faults and   *)
(* clock readings.                                                         *)
(*                                                                         *)
(* The properties speak of a login once it is answered; what makes them    *)
(* true is established steps before.  IInv carries it from the lookup      *)
(* (SeenMatches, SeenUnbarred) over the verification (TimedIsVerified) and *)
(* the UPDATE (RecordedIsSet) to the answer.                               *)
(***************************************************************************)
EXTENDS Login, TLAPS

\* What the unique constraints of auth_credentials keep.
KeysUnique == \A a, b \in auth_credentials : Clash(a, b) => a = b

\* The row of a login is one its identifier matches.
SeenMatches ==
  \A l \in Logins : seen[l] # NoRow =>
    /\ pc[l] \notin {"new", "lookup"}
    /\ Matches(seen[l], body[l].identifier)

\* A deleted user has no row and no last login.
ErasedIsGone ==
  \A e \in erased : /\ last_login_at[e.userId] = Never
                    /\ \A row \in auth_credentials : row.userId # e.userId

\* Who has been inactive or gone all along is so now, and no login that passed
\* its lookup is one to such an account.
BarredInactive == \A l \in Logins : barred[l] \subseteq inactive \cup Gone

SeenUnbarred ==
  \A l \in Logins :
    pc[l] \in {"verify", "update", "tokens"} \/ reply[l] = "ok" =>
      seen[l].userId \notin barred[l]

\* A login takes its time after the password was found right.
TimedIsVerified ==
  \A l \in Logins : at[l] # Never =>
    /\ seen[l] # NoRow
    /\ pc[l] \in {"update", "tokens", "done"}
    /\ PasswordMatches(l)
    /\ reply[l] \notin {"invalid", "unauthorized"}

\* Only a crash or a lost connection leaves a login that is not done without a
\* client waiting for it.
AnsweredIsDone ==
  \A l \in Logins :
    /\ reply[l] \notin {"none", "error", "lost"} => pc[l] = "done"
    /\ reply[l] = "ok" => at[l] # Never

\* Past the UPDATE the account has a last login.
RecordedIsSet ==
  \A l \in Logins :
    (pc[l] = "tokens" \/ reply[l] = "ok") /\ seen[l] \notin erased =>
      last_login_at[seen[l].userId] # Never

PastIsAccepted == \A l \in Logins : \A k \in past[l] : reply[k] = "ok"

IInv ==
  /\ TypeOK
  /\ KeysUnique
  /\ ErasedIsGone
  /\ SeenMatches
  /\ BarredInactive
  /\ SeenUnbarred
  /\ TimedIsVerified
  /\ AnsweredIsDone
  /\ RecordedIsSet
  /\ PastIsAccepted
  /\ LastLoginIsALogin
  /\ LastLoginNotOvertaken
-----------------------------------------------------------------------------
\* No row of the table is the mark of a login that has read none.
LEMMA NoRowIsNoCredential == NoRow \notin Credential
<1>1. SUFFICES ASSUME NoRow \in Credential PROVE FALSE
  OBVIOUS
<1>2. "email" \in DOMAIN NoRow
  BY <1>1 DEF Credential
<1> QED
  BY <1>2 DEF NoRow

\* An identifier finds at most one of the accounts.
LEMMA FoundOnce ==
  ASSUME IInv, NEW t \in Texts, NEW a \in Found(t), NEW b \in Found(t)
  PROVE  a = b
<1>1. a \in auth_credentials /\ b \in auth_credentials /\ a \in Accounts /\ b \in Accounts
  BY DEF IInv, TypeOK, Found
<1>2. a.email = b.email \/ a.username = b.username
  BY <1>1, AccountsAssumption DEF Found, Matches
<1> QED
  BY <1>1, <1>2 DEF IInv, KeysUnique, Clash

\* The empty table satisfies the invariant.
THEOREM InitCorrect == Init => IInv
<1> SUFFICES ASSUME Init PROVE IInv
  OBVIOUS
<1> USE LoginAssumption DEF Init
<1>1. TypeOK
  BY DEF TypeOK, Steps, Replies, Never
<1>2. KeysUnique /\ ErasedIsGone /\ SeenMatches /\ BarredInactive /\ SeenUnbarred
  BY DEF KeysUnique, ErasedIsGone, SeenMatches, BarredInactive, SeenUnbarred
<1>3. TimedIsVerified /\ AnsweredIsDone /\ RecordedIsSet /\ PastIsAccepted
  BY DEF TimedIsVerified, AnsweredIsDone, RecordedIsSet, PastIsAccepted
<1>4. LastLoginIsALogin /\ LastLoginNotOvertaken
  BY DEF LastLoginIsALogin, LastLoginNotOvertaken
<1> QED
  BY <1>1, <1>2, <1>3, <1>4 DEF IInv

\* Arriving keeps the invariant: nothing is read or recorded yet.
LEMMA ArriveCorrect ==
  ASSUME IInv, NEW l \in Logins, NEW b \in Bodies, Arrive(l, b)
  PROVE  IInv'
<1> USE LoginAssumption, NoRowIsNoCredential DEF IInv, Arrive, table, Answer, GoTo, Alive, Others, TypeOK, TimedIsVerified, AnsweredIsDone, SeenMatches
<1>1. TypeOK'
  <2>1. Gone \subseteq Users
    BY DEF Gone, Credential
  <2>2. barred' \in [Logins -> SUBSET Users]
    BY <2>1
  <2> QED
    BY <2>2 DEF Steps, Replies, Never
<1>2. KeysUnique' /\ ErasedIsGone'
  BY DEF KeysUnique, Clash, ErasedIsGone
<1>3. SeenMatches'
  BY DEF SeenMatches, Matches
<1>4. BarredInactive'
  BY DEF BarredInactive, Gone
<1>5. SeenUnbarred'
  BY DEF SeenUnbarred
<1>6. TimedIsVerified'
  BY DEF TimedIsVerified, PasswordMatches
<1>7. AnsweredIsDone'
  BY DEF AnsweredIsDone
<1>8. RecordedIsSet'
  BY DEF RecordedIsSet
<1>9. PastIsAccepted'
  BY DEF PastIsAccepted
<1>10. LastLoginIsALogin'
  BY DEF LastLoginIsALogin, PasswordMatches
<1>11. LastLoginNotOvertaken'
  BY DEF LastLoginNotOvertaken, Recorded
<1> QED
  BY <1>1, <1>2, <1>3, <1>4, <1>5, <1>6, <1>7, <1>8, <1>9, <1>10, <1>11

\* The lookup keeps the invariant: the row read matches, and is active now.
LEMMA LookupCorrect ==
  ASSUME IInv, NEW l \in Logins, Lookup(l)
  PROVE  IInv'
<1> USE LoginAssumption, NoRowIsNoCredential DEF IInv, Lookup, Answer, GoTo, Alive, Others, TypeOK, TimedIsVerified, AnsweredIsDone, SeenMatches
<1>a. \/ seen' = seen /\ pc' = [pc EXCEPT ![l] = "done"]
      \/ \E row \in Found(body[l].identifier) :
           /\ seen' = [seen EXCEPT ![l] = row]
           /\ pc'[l] \in {"verify", "done"}
           /\ pc' = [pc EXCEPT ![l] = pc'[l]]
           /\ pc'[l] = "verify" => row.userId \notin inactive
  OBVIOUS
<1>b. Found(body[l].identifier) \subseteq auth_credentials \cap Credential
  BY DEF Found
<1>c. reply' \in [Logins -> Replies]
  BY DEF Replies
<1>d. pc' \in [Logins -> Steps]
  BY <1>a DEF Steps
<1>1. TypeOK'
  <2>1. CASE seen' = seen /\ pc' = [pc EXCEPT ![l] = "done"]
    BY <2>1, <1>c, <1>d
  <2>2. CASE \E row \in Found(body[l].identifier) :
               /\ seen' = [seen EXCEPT ![l] = row]
               /\ pc'[l] \in {"verify", "done"}
               /\ pc' = [pc EXCEPT ![l] = pc'[l]]
    <3>1. PICK row \in auth_credentials \cap Credential :
            /\ seen' = [seen EXCEPT ![l] = row]
            /\ pc'[l] \in {"verify", "done"}
            /\ pc' = [pc EXCEPT ![l] = pc'[l]]
      BY <2>2, <1>b
    <3> QED
      BY <3>1, <1>c, <1>d
  <2> QED
    BY <1>a, <2>1, <2>2
<1>2. KeysUnique' /\ ErasedIsGone'
  BY DEF KeysUnique, Clash, ErasedIsGone
<1>3. SeenMatches'
  BY <1>a DEF SeenMatches, Matches, Found
<1>4. BarredInactive'
  BY DEF BarredInactive, Gone
<1>5. SeenUnbarred'
  <2>1. seen' \in [Logins -> Credential \cup {NoRow}]
    BY <1>1
  <2>2. barred[l] \subseteq inactive \cup Gone
    BY DEF BarredInactive
  <2>3. pc'[l] = "verify" => seen'[l].userId \notin barred[l]
    <3>1. \A row \in auth_credentials : row.userId \notin Gone
      BY DEF ErasedIsGone, Gone
    <3> QED
      BY <1>a, <1>b, <2>2, <3>1
  <2>4. \A k \in Logins : k # l => seen'[k] = seen[k] /\ pc'[k] = pc[k] /\ reply'[k] = reply[k]
    BY <1>a
  <2>5. pc'[l] \in {"verify", "done"} /\ reply'[l] # "ok"
    BY <1>a
  <2> QED
    BY <2>3, <2>4, <2>5 DEF SeenUnbarred
<1>6. TimedIsVerified'
  BY DEF TimedIsVerified, PasswordMatches
<1>7. AnsweredIsDone'
  BY DEF AnsweredIsDone
<1>8. RecordedIsSet'
  BY DEF RecordedIsSet
<1>9. PastIsAccepted'
  BY DEF PastIsAccepted
<1>10. LastLoginIsALogin'
  BY DEF LastLoginIsALogin, PasswordMatches
<1>11. LastLoginNotOvertaken'
  BY DEF LastLoginNotOvertaken, Recorded
<1> QED
  BY <1>1, <1>2, <1>3, <1>4, <1>5, <1>6, <1>7, <1>8, <1>9, <1>10, <1>11

\* The verification keeps the invariant: only a right password gets a time.
LEMMA VerifyCorrect ==
  ASSUME IInv, NEW l \in Logins, Verify(l)
  PROVE  IInv'
<1> USE LoginAssumption, NoRowIsNoCredential DEF IInv, Verify, Answer, GoTo, Alive, Others, TypeOK, TimedIsVerified, AnsweredIsDone, SeenMatches
<1>1. TypeOK'
  BY DEF TypeOK, Steps, Replies, Never
<1>2. KeysUnique' /\ ErasedIsGone'
  BY DEF KeysUnique, Clash, ErasedIsGone
<1>3. SeenMatches'
  BY DEF SeenMatches, Matches
<1>4. BarredInactive'
  BY DEF BarredInactive, Gone
<1>5. SeenUnbarred'
  BY DEF SeenUnbarred
<1>6. TimedIsVerified'
  <2>1. \A k \in Logins : k # l =>
          pc'[k] = pc[k] /\ at'[k] = at[k] /\ reply'[k] = reply[k]
    OBVIOUS
  <2>2. at[l] = Never /\ seen[l] # NoRow
    OBVIOUS
  <2>3. CASE PasswordMatches(l)
    BY <2>1, <2>2, <2>3 DEF TimedIsVerified, PasswordMatches
  <2>4. CASE ~ PasswordMatches(l)
    BY <2>1, <2>2, <2>4 DEF TimedIsVerified, PasswordMatches
  <2> QED
    BY <2>3, <2>4
<1>7. AnsweredIsDone'
  BY DEF AnsweredIsDone
<1>8. RecordedIsSet'
  BY DEF RecordedIsSet
<1>9. PastIsAccepted'
  BY DEF PastIsAccepted
<1>10. LastLoginIsALogin'
  BY DEF LastLoginIsALogin, PasswordMatches
<1>11. LastLoginNotOvertaken'
  BY DEF LastLoginNotOvertaken, Recorded
<1> QED
  BY <1>1, <1>2, <1>3, <1>4, <1>5, <1>6, <1>7, <1>8, <1>9, <1>10, <1>11

\* The UPDATE keeps the invariant: nobody arrived after this login's answer, for
\* it has none yet.
LEMMA UpdateCorrect ==
  ASSUME IInv, NEW l \in Logins, UpdateLastLogin(l)
  PROVE  IInv'
<1> USE LoginAssumption, NoRowIsNoCredential DEF IInv, UpdateLastLogin, SetLastLogin, Answer, GoTo, Alive, Others, TypeOK, TimedIsVerified, AnsweredIsDone, SeenMatches
<1>1. TypeOK'
  BY DEF TypeOK, Steps, Replies, Never
<1>2. KeysUnique' /\ ErasedIsGone'
  BY DEF KeysUnique, Clash, ErasedIsGone
<1>3. SeenMatches'
  BY DEF SeenMatches, Matches
<1>4. BarredInactive'
  BY DEF BarredInactive, Gone
<1>5. SeenUnbarred'
  BY DEF SeenUnbarred
<1>6. TimedIsVerified'
  BY DEF TimedIsVerified, PasswordMatches
<1>7. AnsweredIsDone'
  BY DEF AnsweredIsDone
<1>8. RecordedIsSet'
  <2>1. seen[l].userId \in Users /\ at[l] # Never
    BY DEF Credential
  <2>2. seen[l] \notin erased => last_login_at'[seen[l].userId] # Never
    BY <2>1
  <2>3. \A u \in Users : last_login_at[u] # Never => last_login_at'[u] # Never
    BY <2>1
  <2>4. \A k \in Logins : k # l /\ (pc'[k] = "tokens" \/ reply'[k] = "ok") =>
          /\ pc[k] = "tokens" \/ reply[k] = "ok"
          /\ seen[k].userId \in Users
    BY DEF Credential
  <2> QED
    BY <2>2, <2>3, <2>4 DEF RecordedIsSet
<1>9. PastIsAccepted'
  BY DEF PastIsAccepted
<1>10. LastLoginIsALogin'
  BY DEF LastLoginIsALogin, PasswordMatches
<1>u. /\ seen[l] \in Credential /\ seen[l].userId \in Users
      /\ at[l] # Never
  BY DEF Credential
<1>s. \/ /\ seen[l] \in auth_credentials
         /\ last_login_at' = [last_login_at EXCEPT ![seen[l].userId] = at[l]]
      \/ seen[l] \in erased /\ last_login_at' = last_login_at
  OBVIOUS
<1>11. LastLoginNotOvertaken'
  <2> SUFFICES ASSUME NEW u \in Users, last_login_at'[u] # Never
               PROVE  \E k \in Logins :
                        /\ seen'[k].userId = u /\ at'[k] = last_login_at'[u]
                        /\ \A m \in Logins : k \in past'[m] => ~ Recorded(m, u)'
    BY DEF LastLoginNotOvertaken
  <2>1. CASE u = seen[l].userId
    <3>1. \A m \in Logins : l \notin past[m]
      BY DEF PastIsAccepted
    <3>2. last_login_at' = [last_login_at EXCEPT ![seen[l].userId] = at[l]]
      BY <1>s, <2>1 DEF ErasedIsGone
    <3> QED
      BY <1>u, <2>1, <3>1, <3>2
  <2>2. CASE u # seen[l].userId
    <3>1. last_login_at'[u] = last_login_at[u]
      BY <1>u, <1>s, <2>2
    <3>2. PICK k \in Logins :
            /\ seen[k].userId = u /\ at[k] = last_login_at[u]
            /\ \A m \in Logins : k \in past[m] => ~ Recorded(m, u)
      BY <3>1 DEF LastLoginNotOvertaken
    <3>3. \A m \in Logins : Recorded(m, u)' => Recorded(m, u)
      BY <2>2 DEF Recorded
    <3> QED
      BY <3>1, <3>2, <3>3
  <2> QED
    BY <2>1, <2>2
<1> QED
  BY <1>1, <1>2, <1>3, <1>4, <1>5, <1>6, <1>7, <1>8, <1>9, <1>10, <1>11

\* Issuing tokens keeps the invariant.
LEMMA IssueCorrect ==
  ASSUME IInv, NEW l \in Logins, IssueTokens(l)
  PROVE  IInv'
<1> USE LoginAssumption, NoRowIsNoCredential DEF IInv, IssueTokens, Answer, GoTo, Alive, Others, TypeOK, TimedIsVerified, AnsweredIsDone, SeenMatches
<1>1. TypeOK'
  BY DEF TypeOK, Steps, Replies, Never
<1>2. KeysUnique' /\ ErasedIsGone'
  BY DEF KeysUnique, Clash, ErasedIsGone
<1>3. SeenMatches'
  BY DEF SeenMatches, Matches
<1>4. BarredInactive'
  BY DEF BarredInactive, Gone
<1>5. SeenUnbarred'
  BY DEF SeenUnbarred
<1>6. TimedIsVerified'
  BY DEF TimedIsVerified, PasswordMatches
<1>7. AnsweredIsDone'
  BY DEF AnsweredIsDone
<1>8. RecordedIsSet'
  BY DEF RecordedIsSet
<1>9. PastIsAccepted'
  BY DEF PastIsAccepted
<1>10. LastLoginIsALogin'
  BY DEF LastLoginIsALogin, PasswordMatches
<1>11. LastLoginNotOvertaken'
  BY DEF LastLoginNotOvertaken, Recorded
<1> QED
  BY <1>1, <1>2, <1>3, <1>4, <1>5, <1>6, <1>7, <1>8, <1>9, <1>10, <1>11

\* A failed statement keeps the invariant.
LEMMA FailsCorrect ==
  ASSUME IInv, NEW l \in Logins, StatementFails(l)
  PROVE  IInv'
<1> USE LoginAssumption, NoRowIsNoCredential DEF IInv, StatementFails, Fault, Answer, GoTo, Alive, Others, TypeOK, TimedIsVerified, AnsweredIsDone, SeenMatches
<1>1. TypeOK'
  BY DEF TypeOK, Steps, Replies, Never
<1>2. KeysUnique' /\ ErasedIsGone'
  BY DEF KeysUnique, Clash, ErasedIsGone
<1>3. SeenMatches'
  BY DEF SeenMatches, Matches
<1>4. BarredInactive'
  BY DEF BarredInactive, Gone
<1>5. SeenUnbarred'
  BY DEF SeenUnbarred
<1>6. TimedIsVerified'
  BY DEF TimedIsVerified, PasswordMatches
<1>7. AnsweredIsDone'
  BY DEF AnsweredIsDone
<1>8. RecordedIsSet'
  BY DEF RecordedIsSet
<1>9. PastIsAccepted'
  BY DEF PastIsAccepted
<1>10. LastLoginIsALogin'
  BY DEF LastLoginIsALogin, PasswordMatches
<1>11. LastLoginNotOvertaken'
  BY DEF LastLoginNotOvertaken, Recorded
<1> QED
  BY <1>1, <1>2, <1>3, <1>4, <1>5, <1>6, <1>7, <1>8, <1>9, <1>10, <1>11

\* A lost connection keeps the invariant: the UPDATE is still to come.
LEMMA ConnectionLostCorrect ==
  ASSUME IInv, NEW l \in Logins, ConnectionLost(l)
  PROVE  IInv'
<1> USE LoginAssumption, NoRowIsNoCredential DEF IInv, ConnectionLost, Fault, Answer, GoTo, Alive, Others, TypeOK, TimedIsVerified, AnsweredIsDone, SeenMatches
<1>1. TypeOK'
  BY DEF TypeOK, Steps, Replies, Never
<1>2. KeysUnique' /\ ErasedIsGone'
  BY DEF KeysUnique, Clash, ErasedIsGone
<1>3. SeenMatches'
  BY DEF SeenMatches, Matches
<1>4. BarredInactive'
  BY DEF BarredInactive, Gone
<1>5. SeenUnbarred'
  BY DEF SeenUnbarred
<1>6. TimedIsVerified'
  BY DEF TimedIsVerified, PasswordMatches
<1>7. AnsweredIsDone'
  BY DEF AnsweredIsDone
<1>8. RecordedIsSet'
  BY DEF RecordedIsSet
<1>9. PastIsAccepted'
  BY DEF PastIsAccepted
<1>10. LastLoginIsALogin'
  BY DEF LastLoginIsALogin, PasswordMatches
<1>11. LastLoginNotOvertaken'
  BY DEF LastLoginNotOvertaken, Recorded
<1> QED
  BY <1>1, <1>2, <1>3, <1>4, <1>5, <1>6, <1>7, <1>8, <1>9, <1>10, <1>11

\* A crash keeps the invariant.
LEMMA CrashCorrect ==
  ASSUME IInv, Crash
  PROVE  IInv'
<1> USE LoginAssumption, NoRowIsNoCredential DEF IInv, Crash, InFlight, Fault, Answer, GoTo, Alive, Others, TypeOK, TimedIsVerified, AnsweredIsDone, SeenMatches
<1>1. TypeOK'
  BY DEF TypeOK, Steps, Replies, Never
<1>2. KeysUnique' /\ ErasedIsGone'
  BY DEF KeysUnique, Clash, ErasedIsGone
<1>3. SeenMatches'
  BY DEF SeenMatches, Matches
<1>4. BarredInactive'
  BY DEF BarredInactive, Gone
<1>5. SeenUnbarred'
  BY DEF SeenUnbarred
<1>6. TimedIsVerified'
  BY DEF TimedIsVerified, PasswordMatches
<1>7. AnsweredIsDone'
  BY DEF AnsweredIsDone
<1>8. RecordedIsSet'
  BY DEF RecordedIsSet
<1>9. PastIsAccepted'
  BY DEF PastIsAccepted
<1>10. LastLoginIsALogin'
  BY DEF LastLoginIsALogin, PasswordMatches
<1>11. LastLoginNotOvertaken'
  BY DEF LastLoginNotOvertaken, Recorded
<1> QED
  BY <1>1, <1>2, <1>3, <1>4, <1>5, <1>6, <1>7, <1>8, <1>9, <1>10, <1>11

\* An UPDATE that never arrives keeps the invariant.
LEMMA LostCorrect ==
  ASSUME IInv, NEW l \in Logins, UpdateLost(l)
  PROVE  IInv'
<1> USE LoginAssumption, NoRowIsNoCredential DEF IInv, UpdateLost, Answer, GoTo, Alive, Others, TypeOK, TimedIsVerified, AnsweredIsDone, SeenMatches
<1>1. TypeOK'
  BY DEF TypeOK, Steps, Replies, Never
<1>2. KeysUnique' /\ ErasedIsGone'
  BY DEF KeysUnique, Clash, ErasedIsGone
<1>3. SeenMatches'
  BY DEF SeenMatches, Matches
<1>4. BarredInactive'
  BY DEF BarredInactive, Gone
<1>5. SeenUnbarred'
  BY DEF SeenUnbarred
<1>6. TimedIsVerified'
  BY DEF TimedIsVerified, PasswordMatches
<1>7. AnsweredIsDone'
  BY DEF AnsweredIsDone
<1>8. RecordedIsSet'
  BY DEF RecordedIsSet
<1>9. PastIsAccepted'
  BY DEF PastIsAccepted
<1>10. LastLoginIsALogin'
  BY DEF LastLoginIsALogin, PasswordMatches
<1>11. LastLoginNotOvertaken'
  BY DEF LastLoginNotOvertaken, Recorded
<1> QED
  BY <1>1, <1>2, <1>3, <1>4, <1>5, <1>6, <1>7, <1>8, <1>9, <1>10, <1>11

\* A new account keeps the invariant: it clashes with no other.
LEMMA CreateCorrect ==
  ASSUME IInv, NEW a \in Accounts, CreateAccount(a)
  PROVE  IInv'
<1> USE LoginAssumption, NoRowIsNoCredential DEF IInv, CreateAccount, own, Answer, GoTo, Alive, Others, TypeOK, TimedIsVerified, AnsweredIsDone, SeenMatches
<1>1. TypeOK'
  BY DEF TypeOK, Steps, Replies, Never
<1>2. KeysUnique' /\ ErasedIsGone'
  BY DEF KeysUnique, Clash, ErasedIsGone, Gone
<1>3. SeenMatches'
  BY DEF SeenMatches, Matches
<1>4. BarredInactive'
  BY DEF BarredInactive, Gone
<1>5. SeenUnbarred'
  BY DEF SeenUnbarred
<1>6. TimedIsVerified'
  BY DEF TimedIsVerified, PasswordMatches
<1>7. AnsweredIsDone'
  BY DEF AnsweredIsDone
<1>8. RecordedIsSet'
  BY DEF RecordedIsSet
<1>9. PastIsAccepted'
  BY DEF PastIsAccepted
<1>10. LastLoginIsALogin'
  BY DEF LastLoginIsALogin, PasswordMatches
<1>11. LastLoginNotOvertaken'
  BY DEF LastLoginNotOvertaken, Recorded
<1> QED
  BY <1>1, <1>2, <1>3, <1>4, <1>5, <1>6, <1>7, <1>8, <1>9, <1>10, <1>11

\* A deletion keeps the invariant: the row is remembered as erased.
LEMMA DeleteCorrect ==
  ASSUME IInv, NEW u \in Users, DeleteByUserId(u)
  PROVE  IInv'
<1> USE LoginAssumption, NoRowIsNoCredential DEF IInv, DeleteByUserId, RowsOf, own, Answer, GoTo, Alive, Others, TypeOK, TimedIsVerified, AnsweredIsDone, SeenMatches
<1>1. TypeOK'
  BY DEF TypeOK, Steps, Replies, Never
<1>2. KeysUnique' /\ ErasedIsGone'
  <2>1. KeysUnique'
    BY DEF KeysUnique, Clash
  <2>2. SUFFICES ASSUME NEW e \in erased'
                 PROVE  /\ last_login_at'[e.userId] = Never
                        /\ \A row \in auth_credentials' : row.userId # e.userId
    BY <2>1 DEF ErasedIsGone
  <2>3. e.userId \in Users
    BY DEF Credential
  <2>4. CASE e \in erased
    BY <2>3, <2>4 DEF ErasedIsGone
  <2>5. CASE e \in RowsOf(u)
    BY <2>3, <2>5
  <2> QED
    BY <2>4, <2>5
<1>3. SeenMatches'
  BY DEF SeenMatches, Matches
<1>4. BarredInactive'
  BY DEF BarredInactive, Gone
<1>5. SeenUnbarred'
  BY DEF SeenUnbarred
<1>6. TimedIsVerified'
  BY DEF TimedIsVerified, PasswordMatches
<1>7. AnsweredIsDone'
  BY DEF AnsweredIsDone
<1>8. RecordedIsSet'
  BY DEF RecordedIsSet
<1>9. PastIsAccepted'
  BY DEF PastIsAccepted
<1>10. LastLoginIsALogin'
  BY DEF LastLoginIsALogin, PasswordMatches
<1>11. LastLoginNotOvertaken'
  BY DEF LastLoginNotOvertaken, Recorded
<1> QED
  BY <1>1, <1>2, <1>3, <1>4, <1>5, <1>6, <1>7, <1>8, <1>9, <1>10, <1>11

\* Switching an account off keeps the invariant.
LEMMA DeactivateCorrect ==
  ASSUME IInv, NEW u \in Users, Deactivate(u)
  PROVE  IInv'
<1> USE LoginAssumption, NoRowIsNoCredential DEF IInv, Deactivate, own, table, Answer, GoTo, Alive, Others, TypeOK, TimedIsVerified, AnsweredIsDone, SeenMatches
<1>1. TypeOK'
  BY DEF TypeOK, Steps, Replies, Never
<1>2. KeysUnique' /\ ErasedIsGone'
  BY DEF KeysUnique, Clash, ErasedIsGone
<1>3. SeenMatches'
  BY DEF SeenMatches, Matches
<1>4. BarredInactive'
  BY DEF BarredInactive, Gone
<1>5. SeenUnbarred'
  BY DEF SeenUnbarred
<1>6. TimedIsVerified'
  BY DEF TimedIsVerified, PasswordMatches
<1>7. AnsweredIsDone'
  BY DEF AnsweredIsDone
<1>8. RecordedIsSet'
  BY DEF RecordedIsSet
<1>9. PastIsAccepted'
  BY DEF PastIsAccepted
<1>10. LastLoginIsALogin'
  BY DEF LastLoginIsALogin, PasswordMatches
<1>11. LastLoginNotOvertaken'
  BY DEF LastLoginNotOvertaken, Recorded
<1> QED
  BY <1>1, <1>2, <1>3, <1>4, <1>5, <1>6, <1>7, <1>8, <1>9, <1>10, <1>11

\* Switching an account on keeps the invariant.
LEMMA ActivateCorrect ==
  ASSUME IInv, NEW u \in Users, Activate(u)
  PROVE  IInv'
<1> USE LoginAssumption, NoRowIsNoCredential DEF IInv, Activate, own, table, Answer, GoTo, Alive, Others, TypeOK, TimedIsVerified, AnsweredIsDone, SeenMatches
<1>1. TypeOK'
  BY DEF TypeOK, Steps, Replies, Never
<1>2. KeysUnique' /\ ErasedIsGone'
  BY DEF KeysUnique, Clash, ErasedIsGone
<1>3. SeenMatches'
  BY DEF SeenMatches, Matches
<1>4. BarredInactive'
  BY DEF BarredInactive, Gone
<1>5. SeenUnbarred'
  BY DEF SeenUnbarred
<1>6. TimedIsVerified'
  BY DEF TimedIsVerified, PasswordMatches
<1>7. AnsweredIsDone'
  BY DEF AnsweredIsDone
<1>8. RecordedIsSet'
  BY DEF RecordedIsSet
<1>9. PastIsAccepted'
  BY DEF PastIsAccepted
<1>10. LastLoginIsALogin'
  BY DEF LastLoginIsALogin, PasswordMatches
<1>11. LastLoginNotOvertaken'
  BY DEF LastLoginNotOvertaken, Recorded
<1> QED
  BY <1>1, <1>2, <1>3, <1>4, <1>5, <1>6, <1>7, <1>8, <1>9, <1>10, <1>11

\* The clock keeps the invariant.
LEMMA TickCorrect ==
  ASSUME IInv, Tick
  PROVE  IInv'
<1> USE LoginAssumption, NoRowIsNoCredential DEF IInv, Tick, own, table, Answer, GoTo, Alive, Others, TypeOK, TimedIsVerified, AnsweredIsDone, SeenMatches
<1>1. TypeOK'
  BY DEF TypeOK, Steps, Replies, Never
<1>2. KeysUnique' /\ ErasedIsGone'
  BY DEF KeysUnique, Clash, ErasedIsGone
<1>3. SeenMatches'
  BY DEF SeenMatches, Matches
<1>4. BarredInactive'
  BY DEF BarredInactive, Gone
<1>5. SeenUnbarred'
  BY DEF SeenUnbarred
<1>6. TimedIsVerified'
  BY DEF TimedIsVerified, PasswordMatches
<1>7. AnsweredIsDone'
  BY DEF AnsweredIsDone
<1>8. RecordedIsSet'
  BY DEF RecordedIsSet
<1>9. PastIsAccepted'
  BY DEF PastIsAccepted
<1>10. LastLoginIsALogin'
  BY DEF LastLoginIsALogin, PasswordMatches
<1>11. LastLoginNotOvertaken'
  BY DEF LastLoginNotOvertaken, Recorded
<1> QED
  BY <1>1, <1>2, <1>3, <1>4, <1>5, <1>6, <1>7, <1>8, <1>9, <1>10, <1>11

\* A stutter keeps the invariant.
LEMMA StutterCorrect == ASSUME IInv, UNCHANGED vars PROVE IInv'
<1> USE DEF vars, own, table
<1>1. TypeOK' /\ KeysUnique' /\ ErasedIsGone' /\ SeenMatches' /\ BarredInactive' /\ SeenUnbarred'
  BY DEF IInv, TypeOK, KeysUnique, ErasedIsGone, SeenMatches, Matches, BarredInactive, Gone,
         SeenUnbarred
<1>2. TimedIsVerified' /\ AnsweredIsDone' /\ RecordedIsSet' /\ PastIsAccepted'
  BY DEF IInv, TimedIsVerified, PasswordMatches, AnsweredIsDone, RecordedIsSet,
         PastIsAccepted
<1>3. LastLoginIsALogin' /\ LastLoginNotOvertaken'
  BY DEF IInv, LastLoginIsALogin, PasswordMatches, LastLoginNotOvertaken, Recorded
<1> QED
  BY <1>1, <1>2, <1>3 DEF IInv

\* No step of Login, and no stutter, leaves the invariant.
THEOREM NextCorrect == IInv /\ [Next]_vars => IInv'
<1> SUFFICES ASSUME IInv, [Next]_vars PROVE IInv'
  OBVIOUS
<1>1. CASE LoginNext
  <2>1. CASE Crash
    BY <2>1, CrashCorrect
  <2>2. CASE \E l \in Logins : \E b \in Bodies : Arrive(l, b)
    BY <2>2, ArriveCorrect
  <2>3. CASE \E l \in Logins : Handle(l)
    BY <2>3, LookupCorrect, VerifyCorrect, UpdateCorrect, IssueCorrect DEF Handle
  <2>4. CASE \E l \in Logins : StatementFails(l) \/ ConnectionLost(l) \/ UpdateLost(l)
    BY <2>4, FailsCorrect, ConnectionLostCorrect, LostCorrect
  <2> QED
    BY <1>1, <2>1, <2>2, <2>3, <2>4 DEF LoginNext
<1>2. CASE Operate
  BY <1>2, LoginAssumption, TickCorrect, DeactivateCorrect, ActivateCorrect, DeleteCorrect
     DEF Operate
<1>3. CASE \E a \in Accounts : CreateAccount(a)
  BY <1>3, CreateCorrect
<1>4. CASE UNCHANGED vars
  BY <1>4, StutterCorrect
<1> QED
  BY <1>1, <1>2, <1>3, <1>4 DEF Next

\* The invariant holds in every state Login reaches.
THEOREM Invariance == Spec => []IInv
<1> QED
  BY InitCorrect, NextCorrect, PTL DEF Spec

\* Login keeps its types, and a login past its lookup holds a row of the table.
THEOREM TypeCorrect == Spec => []TypeOK
<1>1. IInv => TypeOK
  BY DEF IInv
<1> QED
  BY <1>1, Invariance, PTL

\* Tokens are issued only for the account the identifier names, whatever
\* accounts were created since the lookup, and only with its password.
THEOREM TokensCorrect == Spec => []TokensForTheNamedAccount
<1>1. IInv => TokensForTheNamedAccount
  <2> SUFFICES ASSUME IInv, NEW l \in Logins, reply[l] = "ok"
               PROVE  /\ Matches(seen[l], body[l].identifier) /\ PasswordMatches(l)
                      /\ seen[l] \notin erased => Found(body[l].identifier) = {seen[l]}
    BY DEF TokensForTheNamedAccount
  <2>1. seen[l] # NoRow /\ PasswordMatches(l)
    BY DEF IInv, AnsweredIsDone, TimedIsVerified
  <2>2. body[l] \in Bodies /\ body[l].identifier \in Texts
    BY <2>1, LoginAssumption DEF IInv, TypeOK, SeenMatches, Body
  <2>3. Matches(seen[l], body[l].identifier)
    BY <2>1 DEF IInv, SeenMatches
  <2>4. seen[l] \notin erased => seen[l] \in Found(body[l].identifier)
    BY <2>1, <2>3 DEF IInv, TypeOK, Found
  <2> QED
    BY <2>1, <2>2, <2>3, <2>4, FoundOnce
<1> QED
  BY <1>1, Invariance, PTL

\* No tokens for an account that was inactive or gone all the time since the
\* login arrived.
THEOREM BarredCorrect == Spec => []NoTokensWhileBarred
<1>1. IInv => NoTokensWhileBarred
  BY DEF IInv, SeenUnbarred, NoTokensWhileBarred
<1> QED
  BY <1>1, Invariance, PTL

\* last_login_at is the time of a login to that account with its password.
THEOREM LastLoginCorrect == Spec => []LastLoginIsALogin
<1>1. IInv => LastLoginIsALogin
  BY DEF IInv
<1> QED
  BY <1>1, Invariance, PTL

\* An account that got tokens has a last login.
THEOREM AcceptedCorrect == Spec => []AcceptedIsRecorded
<1>1. IInv => AcceptedIsRecorded
  BY DEF IInv, RecordedIsSet, AcceptedIsRecorded
<1> QED
  BY <1>1, Invariance, PTL

\* The last login of an account is not one that was answered 200 before another
\* recorded login arrived.
THEOREM OvertakingCorrect == Spec => []LastLoginNotOvertaken
<1>1. IInv => LastLoginNotOvertaken
  BY DEF IInv
<1> QED
  BY <1>1, Invariance, PTL
=============================================================================
