-------------------------- MODULE AccessTokensProofs --------------------------
(***************************************************************************)
(* Safety of the tokens for any number of logins, accounts, secrets,       *)
(* lifetimes and restarts.                                                 *)
(*                                                                         *)
(* Every step of AccessTokens is one of Login or leaves Login alone        *)
(* (StepOfLogin), so IInv of LoginProofs holds of it.  On top of that,     *)
(* TokensInv keeps what the guards cannot look up: with which secrets a    *)
(* token was signed, and that no token of an account that is off is        *)
(* younger than the moment it was switched off (NoneSinceOff, IssuedBefore)*)
(***************************************************************************)
EXTENDS AccessTokens, LoginProofs

\* The environments the process can listen with.
Usable == {c \in Configs : \A g \in Guards : c[g] # Unset}

TokensTypeOK ==
  /\ env \in Usable \cup {Down}
  /\ issued \in [Logins -> {NotIssued} \cup [iat : Nat, signed : Usable]]
  /\ off \in [Users -> {On} \cup [since : Nat, over : SUBSET Logins]]

\* Only the UPDATE of a crashed login is left.
DeadEnds == \A l \in Logins : ~ Alive(l) => pc[l] \in {"update", "done"}

\* Nothing is under way in a process that is not there.
DownIsIdle == env = Down => InFlight = {}

\* Only a login answered 200 has tokens.
IssuedIsAnswered ==
  \A l \in Logins : issued[l] # NotIssued => reply[l] = "ok" /\ issued[l].iat <= clock

OffIsOff == \A u \in Users : off[u] # On => u \in inactive \cup Gone

\* A login that is under way was so when the account was switched off, or finds
\* it off.
NoneSinceOff ==
  \A u \in Users : \A l \in InFlight :
    off[u] # On /\ l \notin off[u].over => u \in barred[l]

IssuedBefore ==
  \A l \in Logins : issued[l] # NotIssued =>
    \A u \in Users : u = seen[l].userId /\ off[u] # On /\ l \notin off[u].over =>
      issued[l].iat <= off[u].since

TokensInv ==
  /\ IInv
  /\ TokensTypeOK
  /\ DeadEnds
  /\ DownIsIdle
  /\ IssuedIsAnswered
  /\ OffIsOff
  /\ NoneSinceOff
  /\ IssuedBefore
-----------------------------------------------------------------------------
\* Every step is one of Login or leaves it alone.
LEMMA StepOfLogin == TokensNext => [Next]_vars
<1> SUFFICES ASSUME TokensNext PROVE [Next]_vars
  OBVIOUS
<1>1. CASE \E c \in Configs : Start(c)
  BY <1>1 DEF Start
<1>2. CASE Stop
  BY <1>2 DEF Stop, Next, LoginNext
<1>3. CASE \E l \in Logins : Issue(l)
  BY <1>3 DEF Issue, Next, LoginNext, Handle
<1>4. CASE Proceed
  BY <1>4 DEF Proceed, Next, LoginNext, Handle, Operate
<1>5. CASE SwitchAccount
  BY <1>5 DEF SwitchAccount, Next, Operate
<1> QED
  BY <1>1, <1>2, <1>3, <1>4, <1>5 DEF TokensNext

\* A record with an iat that is a number is not the mark of no token, and so for
\* the marks of accounts that are on.
LEMMA MarksApart ==
  /\ \A r : r \in [iat : Nat, signed : Usable] => r # NotIssued
  /\ \A r : r \in [since : Nat, over : SUBSET Logins] => r # On
<1>1. Never \notin Nat
  BY DEF Never
<1> QED
  BY <1>1 DEF NotIssued, On

\* What the steps of Proceed do to the variables TokensInv speaks of.
LEMMA ProceedFrame ==
  ASSUME TokensInv, Proceed
  PROVE  /\ clock <= clock' /\ clock' \in Nat
         /\ inactive' = inactive /\ erased' = erased
         /\ \A l \in Logins : reply[l] = "ok" => reply'[l] = "ok" /\ seen'[l] = seen[l]
         /\ DeadEnds' /\ DownIsIdle'
         /\ \A l \in InFlight' : \/ l \in InFlight /\ barred'[l] = barred[l]
                                 \/ barred'[l] = inactive \cup Gone
<1>p. env' = env
  BY DEF Proceed
<1> USE <1>p, LoginAssumption DEF TokensInv, IInv, TypeOK, DeadEnds, DownIsIdle, AnsweredIsDone, InFlight, Alive,
        Others, Answer, GoTo, own, table
<1>1. CASE \E l \in Logins : env # Down /\ (\E b \in Bodies : Arrive(l, b))
  BY <1>1 DEF Arrive
<1>2. CASE \E l \in Logins : Lookup(l)
  BY <1>2 DEF Lookup
<1>3. CASE \E l \in Logins : Verify(l) \/ UpdateLastLogin(l)
  BY <1>3 DEF Verify, UpdateLastLogin
<1>4. CASE \E l \in Logins : StatementFails(l) \/ ConnectionLost(l) \/ UpdateLost(l)
  BY <1>4 DEF StatementFails, ConnectionLost, UpdateLost
<1>5. CASE (\E a \in Accounts : CreateAccount(a)) \/ Tick
  BY <1>5 DEF CreateAccount, Tick
<1> QED
  BY <1>1, <1>2, <1>3, <1>4, <1>5 DEF Proceed

THEOREM TokensInitCorrect == TokensInit => TokensInv
<1> SUFFICES ASSUME TokensInit PROVE TokensInv
  OBVIOUS
<1>1. IInv
  BY InitCorrect DEF TokensInit
<1>2. TokensTypeOK
  BY DEF TokensInit, TokensTypeOK
<1>3. DeadEnds /\ DownIsIdle /\ IssuedIsAnswered /\ OffIsOff /\ NoneSinceOff /\ IssuedBefore
  BY DEF TokensInit, Init, DeadEnds, DownIsIdle, InFlight, Alive, IssuedIsAnswered, OffIsOff, NoneSinceOff,
         IssuedBefore
<1> QED
  BY <1>1, <1>2, <1>3 DEF TokensInv

\* A start only brings an environment that is complete.
LEMMA StartCorrect ==
  ASSUME TokensInv, NEW c \in Configs, Start(c)
  PROVE  TokensInv'
<1>1. IInv'
  BY StutterCorrect DEF Start, TokensInv
<1>2. TokensTypeOK'
  BY DEF Start, TokensInv, TokensTypeOK, Usable
<1>3. DeadEnds' /\ DownIsIdle' /\ IssuedIsAnswered' /\ OffIsOff' /\ NoneSinceOff' /\ IssuedBefore'
  BY DEF Start, Usable, TokensInv, vars, own, table, DeadEnds, DownIsIdle, Alive, IssuedIsAnswered, OffIsOff,
         Gone, NoneSinceOff, InFlight, IssuedBefore
<1> QED
  BY <1>1, <1>2, <1>3 DEF TokensInv

\* A stop takes away whatever is under way.
LEMMA StopCorrect ==
  ASSUME TokensInv, Stop
  PROVE  TokensInv'
<1>1. IInv'
  BY CrashCorrect, StutterCorrect DEF Stop, TokensInv
<1>2. TokensTypeOK'
  BY DEF Stop, TokensInv, TokensTypeOK
<1>3. CASE InFlight = {} /\ UNCHANGED vars
  <2>1. DeadEnds' /\ DownIsIdle' /\ IssuedIsAnswered' /\ OffIsOff' /\ NoneSinceOff' /\ IssuedBefore'
    BY <1>3 DEF Stop, TokensInv, vars, own, table, DeadEnds, DownIsIdle, Alive, IssuedIsAnswered,
           OffIsOff, Gone, NoneSinceOff, InFlight, IssuedBefore
  <2> QED
    BY <1>1, <1>2, <2>1 DEF TokensInv
<1>4. CASE Crash
  <2> USE <1>4 DEF Stop, Crash, Others, TokensInv, IInv, TypeOK, InFlight, Alive
  <2>1. DeadEnds' /\ DownIsIdle'
    BY DEF DeadEnds, DownIsIdle
  <2>2. IssuedIsAnswered' /\ OffIsOff' /\ NoneSinceOff' /\ IssuedBefore'
    BY DEF IssuedIsAnswered, OffIsOff, Gone, NoneSinceOff, IssuedBefore
  <2> QED
    BY <1>1, <1>2, <2>1, <2>2
<1> QED
  BY <1>3, <1>4 DEF Stop

\* Tokens are issued only while nothing that is off stands in the way.
LEMMA TokensIssueCorrect ==
  ASSUME TokensInv, NEW l \in Logins, Issue(l)
  PROVE  TokensInv'
<1> DEFINE new == [iat |-> clock, signed |-> env]
<1>1. IInv'
  BY IssueCorrect DEF Issue, TokensInv
<1>2. l \in InFlight /\ env \in Usable /\ clock \in Nat
  <2>1. l \in InFlight
    BY DEF Issue, IssueTokens, TokensInv, DeadEnds, InFlight
  <2> QED
    BY <2>1 DEF TokensInv, IInv, TypeOK, DownIsIdle, TokensTypeOK
<1>3. new \in [iat : Nat, signed : Usable] /\ new.iat = clock
  BY <1>2
<1>4. /\ issued' = [issued EXCEPT ![l] = new] /\ env' = env /\ off' = off
      /\ reply' = [reply EXCEPT ![l] = "ok"] /\ pc' = [pc EXCEPT ![l] = "done"]
      /\ UNCHANGED <<seen, auth_credentials, erased, inactive, clock, barred>>
  BY <1>2 DEF Issue, IssueTokens, Answer, Others, InFlight
<1> HIDE DEF new
<1>5. TokensTypeOK'
  BY <1>3, <1>4 DEF TokensInv, TokensTypeOK
<1>6. DeadEnds' /\ DownIsIdle'
  BY <1>4 DEF TokensInv, IInv, TypeOK, DeadEnds, DownIsIdle, InFlight, Alive
<1>7. IssuedIsAnswered'
  BY <1>2, <1>3, <1>4 DEF TokensInv, IInv, TypeOK, TokensTypeOK, IssuedIsAnswered
<1>8. OffIsOff' /\ NoneSinceOff'
  BY <1>4 DEF TokensInv, IInv, TypeOK, OffIsOff, Gone, NoneSinceOff, InFlight, Alive
<1>9. IssuedBefore'
  <2>1. pc[l] = "tokens" /\ seen[l].userId \notin barred[l]
    BY DEF Issue, IssueTokens, TokensInv, IInv, SeenUnbarred
  <2> QED
    BY <1>2, <1>4, <2>1 DEF TokensInv, TokensTypeOK, NoneSinceOff, IssuedBefore
<1> QED
  BY <1>1, <1>5, <1>6, <1>7, <1>8, <1>9 DEF TokensInv

\* The steps of a login, new accounts and the clock issue nothing.
LEMMA ProceedCorrect ==
  ASSUME TokensInv, Proceed
  PROVE  TokensInv'
<1>1. IInv'
  <2>1. [Next]_vars
    BY StepOfLogin DEF TokensNext
  <2> QED
    BY <2>1, NextCorrect DEF TokensInv
<1>2. UNCHANGED <<env, issued, off>>
  BY DEF Proceed
<1>3. TokensTypeOK'
  BY <1>2 DEF TokensInv, TokensTypeOK
<1>4. IssuedIsAnswered'
  <2>1. \A l \in Logins : issued[l] # NotIssued => issued[l].iat \in Nat
    BY DEF TokensInv, TokensTypeOK
  <2>2. clock \in Nat /\ clock' \in Nat /\ clock <= clock'
    BY ProceedFrame DEF TokensInv, IInv, TypeOK
  <2>3. \A l \in Logins : reply[l] = "ok" => reply'[l] = "ok"
    BY ProceedFrame
  <2> QED
    BY <1>2, <2>1, <2>2, <2>3 DEF TokensInv, IssuedIsAnswered
<1>5. OffIsOff' /\ NoneSinceOff'
  BY <1>2, ProceedFrame DEF TokensInv, OffIsOff, Gone, NoneSinceOff
<1>6. IssuedBefore'
  BY <1>2, ProceedFrame DEF TokensInv, IssuedIsAnswered, IssuedBefore
<1> QED
  BY <1>1, <1>3, <1>4, <1>5, <1>6, ProceedFrame DEF TokensInv

\* An account is switched: what was under way is remembered or finds it off.
LEMMA SwitchCorrect ==
  ASSUME TokensInv, SwitchAccount
  PROVE  TokensInv'
<1>1. IInv'
  <2>1. [Next]_vars
    BY StepOfLogin DEF TokensNext
  <2> QED
    BY <2>1, NextCorrect DEF TokensInv
<1> USE LoginAssumption DEF TokensInv, IInv, TypeOK, TokensTypeOK
<1>2. /\ UNCHANGED <<env, issued, pc, reply, seen, clock>>
      /\ clock \in Nat /\ InFlight \subseteq Logins
  BY DEF SwitchAccount, Deactivate, Activate, DeleteByUserId, own, InFlight
<1>3. DeadEnds' /\ DownIsIdle' /\ IssuedIsAnswered'
  BY <1>2 DEF DeadEnds, DownIsIdle, InFlight, Alive, IssuedIsAnswered
<1>4. CASE \E u \in Users : /\ (Deactivate(u) \/ DeleteByUserId(u)) /\ SwitchedOff(u)
  <2>1. PICK u \in Users : (Deactivate(u) \/ DeleteByUserId(u)) /\ SwitchedOff(u)
    BY <1>4
  <2> DEFINE now == IF off[u] = On THEN [since |-> clock, over |-> InFlight] ELSE off[u]
  <2>2. /\ off' = [off EXCEPT ![u] = now]
        /\ now \in {On} \cup [since : Nat, over : SUBSET Logins]
        /\ now # On
    BY <1>2, <2>1, MarksApart DEF SwitchedOff
  <2>3. /\ barred' = barred
        /\ inactive \cup Gone \cup {u} \subseteq (inactive \cup Gone)'
    BY <2>1 DEF Deactivate, DeleteByUserId, RowsOf, Gone, table
  <2>4. off[u] = On => now.since = clock /\ now.over = InFlight
    OBVIOUS
  <2>5. off[u] # On => now = off[u]
    OBVIOUS
  <2> HIDE DEF now
  <2>6. TokensTypeOK' /\ OffIsOff'
    BY <1>2, <2>2, <2>3 DEF OffIsOff
  <2>7. NoneSinceOff'
    BY <1>2, <2>2, <2>3, <2>4, <2>5 DEF NoneSinceOff, InFlight, Alive
  <2>8. IssuedBefore'
    BY <1>2, <2>2, <2>4, <2>5 DEF IssuedBefore, IssuedIsAnswered
  <2> QED
    BY <1>1, <1>3, <2>6, <2>7, <2>8
<1>5. CASE \E u \in Users : Activate(u) /\ off' = [off EXCEPT ![u] = On]
  <2>1. PICK u \in Users : Activate(u) /\ off' = [off EXCEPT ![u] = On]
    BY <1>5
  <2>2. /\ inactive' = inactive \ {u} /\ erased' = erased
        /\ barred' = [l \in Logins |-> barred[l] \ {u}]
    BY <2>1 DEF Activate, table
  <2>3. TokensTypeOK' /\ OffIsOff'
    BY <1>2, <2>1, <2>2 DEF OffIsOff, Gone
  <2>4. NoneSinceOff' /\ IssuedBefore'
    BY <1>2, <2>1, <2>2 DEF NoneSinceOff, InFlight, Alive, IssuedBefore
  <2> QED
    BY <1>1, <1>3, <2>3, <2>4
<1> QED
  BY <1>4, <1>5 DEF SwitchAccount

\* The invariant holds in every state AccessTokens reaches.
THEOREM TokensInvariance == TokensSpec => []TokensInv
<1>1. TokensInv /\ [TokensNext]_tokenVars => TokensInv'
  <2> SUFFICES ASSUME TokensInv, [TokensNext]_tokenVars PROVE TokensInv'
    OBVIOUS
  <2>1. CASE TokensNext
    BY <2>1, StartCorrect, StopCorrect, TokensIssueCorrect, ProceedCorrect, SwitchCorrect
       DEF TokensNext
  <2>2. CASE UNCHANGED tokenVars
    <3>1. IInv'
      BY <2>2, StutterCorrect DEF tokenVars, TokensInv
    <3>2. TokensTypeOK'
      BY <2>2 DEF tokenVars, TokensInv, TokensTypeOK
    <3>3. DeadEnds' /\ DownIsIdle' /\ IssuedIsAnswered' /\ OffIsOff' /\ NoneSinceOff' /\ IssuedBefore'
      BY <2>2 DEF tokenVars, TokensInv, vars, own, table, DeadEnds, DownIsIdle, Alive,
             IssuedIsAnswered, OffIsOff, Gone, NoneSinceOff, InFlight, IssuedBefore
    <3> QED
      BY <3>1, <3>2, <3>3 DEF TokensInv
  <2> QED
    BY <2>1, <2>2
<1> QED
  BY <1>1, TokensInitCorrect, PTL DEF TokensSpec

\* The tokens of an account that is off pass no guard longer than they live,
\* whatever secrets the process is started with.
THEOREM StaleCorrect == TokensSpec => []StaleAccessEnds
<1>1. TokensInv => StaleAccessEnds
  <2> DEFINE u(l) == seen[l].userId
  <2> SUFFICES ASSUME TokensInv, NEW l \in Logins, NEW g \in Guards, NEW h \in Guards,
                      Passes(l, g, h), off[u(l)] # On, l \notin off[u(l)].over
               PROVE  clock < off[u(l)].since + Ttl[g]
    BY DEF StaleAccessEnds
  <2>2. issued[l] # NotIssued /\ clock < issued[l].iat + Ttl[g]
    BY DEF Passes, NotExpired
  <2>3. reply[l] = "ok" /\ issued[l].iat \in Nat /\ Ttl[g] \in Nat /\ clock \in Nat
    BY <2>2, TokensAssumption, LoginAssumption
       DEF TokensInv, IInv, TypeOK, IssuedIsAnswered, TokensTypeOK
  <2>4. u(l) \in Users
    BY <2>3 DEF TokensInv, IInv, TypeOK, AnsweredIsDone, TimedIsVerified, Credential
  <2>5. off[u(l)].since \in Nat /\ issued[l].iat <= off[u(l)].since
    BY <2>2, <2>4 DEF TokensInv, TokensTypeOK, IssuedBefore
  <2> QED
    BY <2>2, <2>3, <2>5
<1> QED
  BY <1>1, TokensInvariance, PTL
===============================================================================
