----------------------------- MODULE AccessTokens -----------------------------
(***************************************************************************)
(* What becomes of the tokens a login issues.  TokenServiceImpl signs two  *)
(* of them, for the access and for the refresh guard; nothing about them   *)
(* is stored, so from then on only their signature and their expiry speak  *)
(* for them, while operators switch their account off, the account is      *)
(* deleted, or the process is started again with other secrets.            *)
(*                                                                         *)
(* A token is fixed by the login that got it and the guard it is meant     *)
(* for; its payload does not say which guard that is.  No route of this    *)
(* version uses a guard, so what is stated here is what the guards let     *)
(* through whenever they are asked.                                        *)
(***************************************************************************)
EXTENDS Login

CONSTANTS
  Secrets,
  Unset,           \* an environment variable without a value
  Configs,         \* the environments the process may be started with
  Ttl              \* Ttl[g]: how long the tokens for guard g live

Guards == {"access", "refresh"}

\* Nothing in the code keeps the two secrets apart: an environment may have one
\* for both guards, or that of the other guard in an earlier one.
ASSUME TokensAssumption ==
  /\ Ttl \in [Guards -> Nat]
  /\ Unset \notin Secrets
  /\ Configs \subseteq [Guards -> Secrets \cup {Unset}]

VARIABLES
  env,             \* the environment of the running process, or Down
  issued,          \* what a login's tokens were signed with, and when
  off              \* history: since when, and over which logins, a user is off

tokenVars == <<vars, env, issued, off>>

Down      == [g \in Guards |-> Unset]
NotIssued == [iat |-> Never]
On        == [since |-> Never]
-----------------------------------------------------------------------------
TokensInit ==
  /\ Init
  /\ env = Down
  /\ issued = [l \in Logins |-> NotIssued]
  /\ off = [u \in Users |-> On]

\* bootstrap: the two strategies call getOrThrow when they are constructed, so
\* the process listens only with both secrets.
Start(c) ==
  /\ env = Down
  /\ \A g \in Guards : c[g] # Unset
  /\ env' = c
  /\ UNCHANGED <<vars, issued, off>>

\* The process is stopped, idle or not; there are no shutdown hooks.
Stop ==
  /\ env # Down /\ env' = Down
  /\ \/ Crash
     \/ InFlight = {} /\ UNCHANGED vars
  /\ UNCHANGED <<issued, off>>

\* generateTokenPair: both are signed at once, each with its secret of the
\* process.
Issue(l) ==
  /\ IssueTokens(l)
  /\ issued' = [issued EXCEPT ![l] = [iat |-> clock, signed |-> env]]
  /\ UNCHANGED <<env, off>>

\* mutant: ignoreExpiration is true
NeverExpires(l, g) == TRUE

\* The expiry is part of the token.
NotExpired(l, g) == clock < issued[l].iat + Ttl[g]

\* What JwtStrategy (g = "access") and JwtRefreshStrategy let through now: the
\* token of login l for guard g, presented to guard h.
Passes(l, g, h) ==
  /\ env # Down /\ issued[l] # NotIssued
  /\ issued[l].signed[g] = env[h]
  /\ NotExpired(l, g)

\* The steps of a login before its tokens, and what happens around it.
Proceed ==
  /\ \/ \E l \in Logins :
          \/ env # Down /\ (\E b \in Bodies : Arrive(l, b))
          \/ Lookup(l) \/ Verify(l) \/ UpdateLastLogin(l)
          \/ StatementFails(l) \/ ConnectionLost(l) \/ UpdateLost(l)
     \/ \E a \in Accounts : CreateAccount(a)
     \/ Tick
  /\ UNCHANGED <<env, issued, off>>

\* u is off from now on, with the logins that are under way.
SwitchedOff(u) ==
  off' = [off EXCEPT ![u] = IF @ = On THEN [since |-> clock, over |-> InFlight] ELSE @]

SwitchAccount ==
  /\ \/ \E u \in Switched : Deactivate(u) /\ SwitchedOff(u)
     \/ \E u \in Switched : Activate(u) /\ off' = [off EXCEPT ![u] = On]
     \/ \E u \in Erasable : DeleteByUserId(u) /\ SwitchedOff(u)
  /\ UNCHANGED <<env, issued>>

TokensNext ==
  \/ \E c \in Configs : Start(c)
  \/ Stop
  \/ \E l \in Logins : Issue(l)
  \/ Proceed
  \/ SwitchAccount

TokensSpec == TokensInit /\ [][TokensNext]_tokenVars
-----------------------------------------------------------------------------
\* An account that was switched off or deleted loses access within the lifetime
\* of its tokens, unless a login was under way at that moment: the guards do not
\* look the account up again, so all that limits a stale token is that it
\* expires and that no new login gets one (jwt.strategy.ts:8-15,
\* login.handler.ts:48-54).  The lifetime is the one the token was signed with,
\* that of a refresh token also at the access guard, where one secret is set for
\* both.
StaleAccessEnds ==
  \A l \in Logins : \A g, h \in Guards : Passes(l, g, h) =>
    LET u == seen[l].userId IN
      off[u] # On /\ l \notin off[u].over => clock < off[u].since + Ttl[g]
=============================================================================
