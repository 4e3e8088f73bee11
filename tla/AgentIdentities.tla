--------------------------- MODULE AgentIdentities ---------------------------
(***************************************************************************)
(* Agent identities and their tokens (AuthService).  A token is shown once *)
(* and kept as a hash that only it matches; its prefix merely narrows the  *)
(* search and is left out.  A request loads the row, and at its commit the *)
(* columns it has assigned are written, in the row as it is then.          *)
(***************************************************************************)
CONSTANTS
    Identities,     \* ids of identities: bound, each is used once
    IdentityNames,
    HomeClasses,    \* agent classes
    AgentTokens,    \* bound: the tokens that are drawn, all different
    TokenRequests,
    NoIdentity

VARIABLES
    identity,       \* the row of each identity, or NoIdentity
    home,           \* the agent classes that exist
    handling,       \* what each request is about to write, or NoIdentity
    drawn,          \* the tokens that have been drawn
    retired         \* the ids of rows that are gone

identityVars == <<identity, home, handling, drawn, retired>>

IdentityRow == [name: IdentityNames, class: HomeClasses, token: AgentTokens,
        status: {"active", "revoked", "expired"}, revoked_at: BOOLEAN, expires: {"never", "later", "past"}]
IdentityRows == {i \in Identities : identity[i] # NoIdentity}

IdentityInit ==
    /\ identity = [i \in Identities |-> NoIdentity]
    /\ home = HomeClasses
    /\ handling = [r \in TokenRequests |-> NoIdentity]
    /\ drawn = {} /\ retired = {}
------------------------------------------------------------------------------
Handling(op) == {r \in TokenRequests : handling[r] # NoIdentity /\ handling[r].op = op}
Handle(r, t) == handling' = [handling EXCEPT ![r] = t]

\* create_agent_identity: the class is there; the row comes with a token of its own.
CreateIdentityLoad(r, c, token) ==
    /\ handling[r] = NoIdentity
    /\ c \in home /\ token \in AgentTokens \ drawn
    /\ drawn' = drawn \cup {token}
    /\ Handle(r, [op |-> "create", class |-> c, token |-> token])
    /\ UNCHANGED <<identity, home, retired>>

\* The unique name and the foreign key are checked at the commit.
NameTaken(n) == \E i \in IdentityRows : identity[i].name = n
CreateIdentityCommit(r, i, n, e) ==
    /\ r \in Handling("create")
    /\ i \notin IdentityRows \cup retired
    /\ handling[r].class \in home /\ ~NameTaken(n)
    /\ identity' = [identity EXCEPT ![i] =
           [name |-> n, class |-> handling[r].class, token |-> handling[r].token,
            status |-> "active", revoked_at |-> FALSE, expires |-> e]]
    /\ Handle(r, NoIdentity)
    /\ UNCHANGED <<home, drawn, retired>>

\* rotate_agent_token: an active identity gets a new token.
RotateLoad(r, i, token) ==
    /\ handling[r] = NoIdentity
    /\ i \in IdentityRows /\ identity[i].status = "active"
    /\ token \in AgentTokens \ drawn
    /\ drawn' = drawn \cup {token}
    /\ Handle(r, [op |-> "rotate", id |-> i, loaded |-> identity[i], token |-> token])
    /\ UNCHANGED <<identity, home, retired>>
WholeRow(row, t) == [t.loaded EXCEPT !.token = t.token]   \* mutant: the row as it was loaded
Rotated(row, t) == [row EXCEPT !.token = t.token]
RotateCommit(r) ==
    /\ r \in Handling("rotate")
    /\ LET t == handling[r] IN
          /\ t.id \in IdentityRows                                 \* otherwise StaleDataError
          /\ identity' = [identity EXCEPT ![t.id] = Rotated(@, t)]
    /\ Handle(r, NoIdentity)
    /\ UNCHANGED <<home, drawn, retired>>

\* revoke_agent_token: whatever the status was.
RevokeLoad(r, i) ==
    /\ handling[r] = NoIdentity
    /\ i \in IdentityRows
    /\ Handle(r, [op |-> "revoke", id |-> i, loaded |-> identity[i]])
    /\ UNCHANGED <<identity, home, drawn, retired>>
\* The status is written when it differs from the one that was loaded.
RevokeCommit(r) ==
    /\ r \in Handling("revoke")
    /\ LET t == handling[r] IN
          /\ t.id \in IdentityRows
          /\ identity' = [identity EXCEPT ![t.id] =
                 [identity[t.id] EXCEPT !.revoked_at = TRUE,
                      !.status = IF t.loaded.status = "revoked" THEN identity[t.id].status ELSE "revoked"]]
    /\ Handle(r, NoIdentity)
    /\ UNCHANGED <<home, drawn, retired>>

\* A request fails at its commit, or dies before it.
TokenRequestFails(r) ==
    /\ handling[r] # NoIdentity
    /\ Handle(r, NoIdentity)
    /\ UNCHANGED <<identity, home, drawn, retired>>

\* cleanup_expired_tokens: one UPDATE.
CleanupExpiredTokens ==
    /\ identity' = [i \in Identities |->
           IF i \in IdentityRows /\ identity[i].status = "active" /\ identity[i].expires = "past"
           THEN [identity[i] EXCEPT !.status = "expired"] ELSE identity[i]]
    /\ UNCHANGED <<home, handling, drawn, retired>>

\* delete_agent_class: its identities go with it.
DeleteHome(c) ==
    /\ c \in home
    /\ home' = home \ {c}
    /\ identity' = [i \in Identities |-> IF i \in IdentityRows /\ identity[i].class = c THEN NoIdentity ELSE identity[i]]
    /\ retired' = retired \cup {i \in IdentityRows : identity[i].class = c}
    /\ UNCHANGED <<handling, drawn>>

\* The time of an identity comes.
TimeComes(i) ==
    /\ i \in IdentityRows /\ identity[i].expires = "later"
    /\ identity' = [identity EXCEPT ![i].expires = "past"]
    /\ UNCHANGED <<home, handling, drawn, retired>>

\* The three endpoints.
CreateIdentity(r) ==
    \/ \E c \in HomeClasses, t \in AgentTokens : CreateIdentityLoad(r, c, t)
    \/ \E i \in Identities, n \in IdentityNames, e \in {"never", "later"} : CreateIdentityCommit(r, i, n, e)
RotateToken(r) == (\E i \in Identities, t \in AgentTokens : RotateLoad(r, i, t)) \/ RotateCommit(r)
RevokeIdentity(r) == (\E i \in Identities : RevokeLoad(r, i)) \/ RevokeCommit(r)

IdentityNext ==
    \/ \E r \in TokenRequests : CreateIdentity(r) \/ RotateToken(r) \/ RevokeIdentity(r) \/ TokenRequestFails(r)
    \/ CleanupExpiredTokens
    \/ \E c \in HomeClasses : DeleteHome(c)
    \/ \E i \in Identities : TimeComes(i)

IdentitySpec == IdentityInit /\ [][IdentityNext]_identityVars
------------------------------------------------------------------------------
\* validate_agent_token_db: the active row whose hash the token matches, neither past its
\* time nor revoked.
Live(row) == row # NoIdentity /\ row.status = "active" /\ row.expires # "past" /\ ~row.revoked_at
Validates(t) == \E i \in IdentityRows : Live(identity[i]) /\ identity[i].token = t

\* The type of the table: names are unique, tokens belong to one row and a row to a class.
IdentityTypeOK ==
    /\ identity \in [Identities -> IdentityRow \cup {NoIdentity}]
    /\ home \subseteq HomeClasses
    /\ \A i \in IdentityRows : identity[i].class \in home /\ identity[i].token \in drawn
    /\ \A i, j \in IdentityRows : i # j => identity[i].name # identity[j].name /\ identity[i].token # identity[j].token

\* Tokens that no row has yet.
Underway == {handling[r].token : r \in Handling("create") \cup Handling("rotate")}

\* An identity that was revoked, has expired or is gone never becomes usable again, and a
\* token that was replaced never validates again, whatever rotations and revocations were
\* under way ("The old token immediately becomes invalid").
RevocationIsFinal ==
    [][/\ \A i \in IdentityRows : ~Live(identity[i]) => ~Live(identity'[i])
       /\ \A i \in retired : ~Live(identity'[i])
       /\ \A t \in drawn \ Underway : ~Validates(t) => ~Validates(t)']_identityVars
==============================================================================
