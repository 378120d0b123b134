--------------------------- MODULE AuthCredentials ---------------------------
(***************************************************************************)
(* The table auth_credentials and the lookups and inserts of               *)
(* AuthCredentialsRepository on it.  Registration and Login share it.      *)
(*                                                                         *)
(* No code path of the service sets deleted_at, so every row here is a row *)
(* not deleted.                                                            *)
(***************************************************************************)
CONSTANTS
  Texts,           \* the e-mail, username and identifier texts of clients
  Lower, Trim      \* String.prototype.toLowerCase and trim on Texts

VARIABLE
  auth_credentials

\* mutant: the credentials keep the e-mail as it was typed
StoredAsTyped(email) == email

\* create: email.toLowerCase().trim()
StoredEmail(email) == Trim[Lower[email]]

\* mutant: the lookup compares the e-mail as it was typed
MatchesAsTyped(row, identifier) ==
  row.email = identifier \/ row.username = identifier

\* The WHERE clause of findByEmailOrUsername.
Matches(row, identifier) ==
  row.email = Lower[identifier] \/ row.username = identifier

Found(identifier) == {row \in auth_credentials : Matches(row, identifier)}

\* mutant: the table without UNIQUE (email)
ClashUsername(row, other) ==
  row.userId = other.userId \/ row.username = other.username

\* mutant: usernames are unique whatever their case
ClashFolded(row, other) ==
  \/ row.userId = other.userId
  \/ row.email = other.email
  \/ Lower[row.username] = Lower[other.username]

\* PRIMARY KEY, UNIQUE (email) and UNIQUE (username), alike in users.
Clash(row, other) ==
  \/ row.userId = other.userId
  \/ row.email = other.email
  \/ row.username = other.username
=============================================================================
