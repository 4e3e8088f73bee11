---------------------------- MODULE AccessProofs -----------------------------
(***************************************************************************)
(* What holds of AgentIdentities, CapabilityPacks and RequestPipeline for  *)
(* every number of identities, tokens, packs, clients and overlapping      *)
(* requests: who an agent is, what it may reach, and how often it may ask. *)
(***************************************************************************)
EXTENDS AgentIdentities, CapabilityPacks, RequestPipeline, FiniteSetTheorems, TLAPS

(***************************************************************************)
(* Identities and their tokens.                                            *)
(***************************************************************************)
Bringing == Handling("create") \cup Handling("rotate")

\* What a request holds, by operation.
HandlesWell(t) ==
    /\ t.op = "create" => t \in [op: {"create"}, class: HomeClasses, token: drawn]
    /\ t.op = "rotate" => t \in [op: {"rotate"}, id: Identities, loaded: IdentityRow, token: drawn]
    /\ t.op = "revoke" => t \in [op: {"revoke"}, id: Identities, loaded: IdentityRow]
RequestsHold ==
    /\ handling = [r \in TokenRequests |-> handling[r]]
    /\ \A r \in TokenRequests : handling[r] # NoIdentity => HandlesWell(handling[r])

\* A token that is underway is in no row, and no other request brings it.
TokensApart ==
    /\ \A r \in Bringing, i \in IdentityRows : identity[i].token # handling[r].token
    /\ \A q, r \in Bringing : q # r => handling[q].token # handling[r].token

IdentityInv ==
    /\ IdentityTypeOK /\ RequestsHold /\ TokensApart
    /\ drawn \subseteq AgentTokens
    /\ retired \subseteq Identities \ IdentityRows
------------------------------------------------------------------------------
LEMMA IdentityInitInv == IdentityInit => IdentityInv
<1> SUFFICES ASSUME IdentityInit PROVE IdentityInv
  OBVIOUS
<1> USE DEF IdentityInit
<1>1. IdentityRows = {} /\ Bringing = {}
  BY DEF IdentityRows, Bringing, Handling
<1>2. IdentityTypeOK
  BY <1>1 DEF IdentityTypeOK
<1>3. RequestsHold /\ TokensApart
  BY <1>1 DEF RequestsHold, TokensApart
<1> QED  BY <1>1, <1>2, <1>3 DEF IdentityInv

\* Only the request that goes on changes.
LEMMA HandleOne ==
  ASSUME RequestsHold, NEW r \in TokenRequests, NEW STATE t, Handle(r, t)
  PROVE  /\ handling'[r] = t /\ handling' = [q \in TokenRequests |-> handling'[q]]
         /\ \A q \in TokenRequests : q # r => handling'[q] = handling[q]
  BY DEF Handle, RequestsHold

\* A request that draws a token draws a new one.
LEMMA DrawInv ==
  ASSUME IdentityInv, NEW r \in TokenRequests, NEW token \in AgentTokens \ drawn, drawn' = drawn \cup {token},
         UNCHANGED <<identity, home, retired>>, handling[r] = NoIdentity,
         handling' = [q \in TokenRequests |-> handling'[q]],
         \A q \in TokenRequests : q # r => handling'[q] = handling[q],
         HandlesWell(handling[r])', handling'[r].token = token
  PROVE  IdentityInv'
<1>1. IdentityTypeOK /\ RequestsHold /\ TokensApart /\ drawn \subseteq AgentTokens /\ retired \subseteq Identities \ IdentityRows
  BY DEF IdentityInv
<1>2. IdentityTypeOK' /\ IdentityRows' = IdentityRows
  BY <1>1 DEF IdentityTypeOK, IdentityRows
<1>3. RequestsHold'
  <2> SUFFICES ASSUME NEW q \in TokenRequests, handling'[q] # NoIdentity, q # r
               PROVE  HandlesWell(handling[q])'
    BY DEF RequestsHold
  <2>1. HandlesWell(handling[q])
    BY <1>1 DEF RequestsHold
  <2> QED  BY <2>1 DEF HandlesWell
<1>4. \A q \in Bringing' :
         q # r => q \in Bringing /\ handling[q].token \in drawn /\ handling'[q].token = handling[q].token
  BY <1>1 DEF Bringing, Handling, RequestsHold, HandlesWell
<1>5. \A i \in IdentityRows : identity[i].token \in drawn
  BY <1>1 DEF IdentityTypeOK
<1>6. TokensApart'
  BY <1>1, <1>2, <1>4, <1>5 DEF TokensApart
<1> QED  BY <1>1, <1>2, <1>3, <1>6 DEF IdentityInv

LEMMA CreateIdentityLoadInv ==
  ASSUME IdentityInv, NEW r \in TokenRequests, NEW c \in HomeClasses, NEW token \in AgentTokens,
         CreateIdentityLoad(r, c, token)
  PROVE  IdentityInv'
<1> USE DEF CreateIdentityLoad
<1>1. handling'[r] = [op |-> "create", class |-> c, token |-> token]
      /\ handling' = [q \in TokenRequests |-> handling'[q]]
      /\ \A q \in TokenRequests : q # r => handling'[q] = handling[q]
  BY HandleOne DEF IdentityInv
<1>2. HandlesWell(handling[r])'
  BY <1>1 DEF HandlesWell
<1> QED  BY <1>1, <1>2, DrawInv

LEMMA RotateLoadInv ==
  ASSUME IdentityInv, NEW r \in TokenRequests, NEW i \in Identities, NEW token \in AgentTokens,
         RotateLoad(r, i, token)
  PROVE  IdentityInv'
<1> USE DEF RotateLoad
<1>1. handling'[r] = [op |-> "rotate", id |-> i, loaded |-> identity[i], token |-> token]
      /\ handling' = [q \in TokenRequests |-> handling'[q]]
      /\ \A q \in TokenRequests : q # r => handling'[q] = handling[q]
  BY HandleOne DEF IdentityInv
<1>2. identity[i] \in IdentityRow
  BY DEF IdentityInv, IdentityTypeOK, IdentityRows
<1>3. HandlesWell(handling[r])'
  BY <1>1, <1>2 DEF HandlesWell
<1> QED  BY <1>1, <1>3, DrawInv

LEMMA RevokeLoadInv ==
  ASSUME IdentityInv, NEW r \in TokenRequests, NEW i \in Identities, RevokeLoad(r, i)
  PROVE  IdentityInv'
<1> USE DEF RevokeLoad
<1>1. IdentityTypeOK /\ RequestsHold /\ TokensApart /\ drawn \subseteq AgentTokens /\ retired \subseteq Identities \ IdentityRows
  BY DEF IdentityInv
<1>2. /\ handling'[r] = [op |-> "revoke", id |-> i, loaded |-> identity[i]]
      /\ handling' = [q \in TokenRequests |-> handling'[q]]
      /\ \A q \in TokenRequests : q # r => handling'[q] = handling[q]
  BY <1>1, HandleOne
<1>3. IdentityTypeOK' /\ IdentityRows' = IdentityRows /\ identity[i] \in IdentityRow
  BY <1>1 DEF IdentityTypeOK, IdentityRows
<1>4. HandlesWell(handling[r])'
  BY <1>2, <1>3 DEF HandlesWell
<1>5. RequestsHold'
  <2> SUFFICES ASSUME NEW q \in TokenRequests, handling'[q] # NoIdentity, q # r
               PROVE  HandlesWell(handling[q])'
    BY <1>2, <1>4 DEF RequestsHold
  <2>1. HandlesWell(handling[q])
    BY <1>1, <1>2 DEF RequestsHold
  <2> QED  BY <1>2, <2>1 DEF HandlesWell
<1>6. Bringing' \subseteq Bringing /\ \A q \in Bringing' : handling'[q] = handling[q]
  BY <1>2 DEF Bringing, Handling
<1>7. TokensApart'
  BY <1>1, <1>3, <1>6 DEF TokensApart
<1> QED  BY <1>1, <1>3, <1>5, <1>7 DEF IdentityInv

\* A request comes to its end.
LEMMA RequestEnds ==
  ASSUME RequestsHold, NEW r \in TokenRequests, Handle(r, NoIdentity), drawn' = drawn
  PROVE  /\ RequestsHold' /\ Bringing' \subseteq Bringing \ {r}
         /\ \A q \in Bringing' : handling'[q] = handling[q]
<1>1. /\ handling'[r] = NoIdentity
      /\ handling' = [q \in TokenRequests |-> handling'[q]]
      /\ \A q \in TokenRequests : q # r => handling'[q] = handling[q]
  BY HandleOne
<1>2. RequestsHold'
  BY <1>1 DEF RequestsHold, HandlesWell
<1> QED  BY <1>1, <1>2 DEF Bringing, Handling

\* The token that a request brings becomes the one of entry i.
LEMMA TokenLands ==
  ASSUME IdentityInv, NEW r \in Bringing, NEW i \in Identities, NEW entry \in IdentityRow,
         identity' = [identity EXCEPT ![i] = entry], entry.token = handling[r].token, entry.class \in home,
         \A j \in IdentityRows : j # i => identity[j].name # entry.name,
         i \notin retired, Handle(r, NoIdentity), UNCHANGED <<home, drawn, retired>>
  PROVE  IdentityInv'
<1>1. IdentityTypeOK /\ RequestsHold /\ TokensApart /\ drawn \subseteq AgentTokens /\ retired \subseteq Identities \ IdentityRows
  BY DEF IdentityInv
<1>2. r \in TokenRequests /\ handling[r].token \in drawn
  BY <1>1 DEF RequestsHold, HandlesWell, Bringing, Handling
<1>3. /\ RequestsHold' /\ Bringing' \subseteq Bringing \ {r}
      /\ \A q \in Bringing' : handling'[q] = handling[q]
  BY <1>1, <1>2, RequestEnds
<1>4. identity'[i] = entry /\ \A j \in Identities : j # i => identity'[j] = identity[j]
  BY <1>1 DEF IdentityTypeOK
<1>5. IdentityRows' \subseteq IdentityRows \cup {i} /\ IdentityRows' \subseteq Identities
  BY <1>4 DEF IdentityRows
<1>6. \A j \in IdentityRows' : j # i => j \in IdentityRows /\ identity'[j] = identity[j] /\ identity[j].token # entry.token
  BY <1>1, <1>4, <1>5 DEF TokensApart
<1>7. IdentityTypeOK'
  <2>1. identity' \in [Identities -> IdentityRow \cup {NoIdentity}] /\ home' \subseteq HomeClasses
    BY <1>1 DEF IdentityTypeOK
  <2>2. \A j \in IdentityRows' : identity'[j].class \in home /\ identity'[j].token \in drawn
    BY <1>1, <1>2, <1>4, <1>6 DEF IdentityTypeOK
  <2>3. ASSUME NEW j \in IdentityRows', NEW k \in IdentityRows', j # k
        PROVE  identity'[j].name # identity'[k].name /\ identity'[j].token # identity'[k].token
    <3>1. CASE j = i
      BY <1>4, <1>6, <2>3, <3>1
    <3>2. CASE k = i
      BY <1>4, <1>6, <2>3, <3>2
    <3>3. CASE j # i /\ k # i
      BY <1>1, <1>6, <2>3, <3>3 DEF IdentityTypeOK
    <3> QED  BY <3>1, <3>2, <3>3
  <2> QED  BY <2>1, <2>2, <2>3 DEF IdentityTypeOK
<1>8. TokensApart'
  <2>1. ASSUME NEW q \in Bringing', NEW j \in IdentityRows' PROVE identity'[j].token # handling'[q].token
    <3>1. q \in Bringing /\ q # r /\ handling'[q] = handling[q]
      BY <1>3
    <3>2. CASE j = i
      BY <1>1, <1>4, <3>1, <3>2 DEF TokensApart
    <3>3. CASE j # i
      BY <1>1, <1>6, <3>1, <3>3 DEF TokensApart
    <3> QED  BY <3>2, <3>3
  <2>2. \A p, q \in Bringing' : p # q => handling'[p].token # handling'[q].token
    BY <1>1, <1>3 DEF TokensApart
  <2> QED  BY <2>1, <2>2 DEF TokensApart
<1> QED  BY <1>1, <1>3, <1>5, <1>7, <1>8 DEF IdentityInv

LEMMA CreateIdentityCommitInv ==
  ASSUME IdentityInv, NEW r \in TokenRequests, NEW i \in Identities, NEW n \in IdentityNames,
         NEW e \in {"never", "later"}, CreateIdentityCommit(r, i, n, e)
  PROVE  IdentityInv'
<1> USE DEF CreateIdentityCommit
<1> DEFINE entry == [name |-> n, class |-> handling[r].class, token |-> handling[r].token,
                   status |-> "active", revoked_at |-> FALSE, expires |-> e]
<1>1. r \in Bringing /\ handling[r].class \in HomeClasses /\ handling[r].token \in AgentTokens
  BY DEF IdentityInv, RequestsHold, HandlesWell, Bringing, Handling
<1>2. entry \in IdentityRow
  BY <1>1 DEF IdentityRow
<1>3. \A j \in IdentityRows : j # i => identity[j].name # n
  BY DEF NameTaken
<1> QED  BY <1>1, <1>2, <1>3, TokenLands

LEMMA RotateCommitInv ==
  ASSUME IdentityInv, NEW r \in TokenRequests, RotateCommit(r)
  PROVE  IdentityInv'
<1> USE DEF RotateCommit, Rotated
<1> DEFINE i == handling[r].id
           entry == [identity[i] EXCEPT !.token = handling[r].token]
<1>1. r \in Bringing /\ i \in IdentityRows /\ i \in Identities /\ handling[r].token \in AgentTokens
  BY DEF IdentityInv, RequestsHold, HandlesWell, Bringing, Handling, IdentityRows
<1>2. identity[i] \in IdentityRow /\ identity' = [identity EXCEPT ![i] = entry]
  BY <1>1 DEF IdentityInv, IdentityTypeOK, IdentityRows
<1>3. entry \in IdentityRow /\ entry.token = handling[r].token /\ entry.class = identity[i].class /\ entry.name = identity[i].name
  BY <1>1, <1>2 DEF IdentityRow
<1>4. entry.class \in home /\ (\A j \in IdentityRows : j # i => identity[j].name # entry.name) /\ i \notin retired
  BY <1>1, <1>3 DEF IdentityInv, IdentityTypeOK
<1> HIDE DEF i, entry
<1> QED  BY <1>1, <1>2, <1>3, <1>4, TokenLands
------------------------------------------------------------------------------
\* Rows keep their names, classes and tokens, or go.
LEMMA RowsStay ==
  ASSUME IdentityInv, identity' \in [Identities -> IdentityRow \cup {NoIdentity}],
         \A i \in IdentityRows' : /\ i \in IdentityRows
                                  /\ identity'[i].name = identity[i].name /\ identity'[i].token = identity[i].token
                                  /\ identity'[i].class = identity[i].class /\ identity[i].class \in home',
         home' \subseteq home, drawn' = drawn, RequestsHold',
         Bringing' \subseteq Bringing, \A q \in Bringing' : handling'[q] = handling[q],
         retired' \subseteq Identities \ IdentityRows'
  PROVE  IdentityInv'
<1>1. IdentityTypeOK /\ TokensApart /\ drawn \subseteq AgentTokens
  BY DEF IdentityInv
<1>2. IdentityTypeOK'
  BY <1>1 DEF IdentityTypeOK
<1>3. TokensApart'
  BY <1>1 DEF TokensApart
<1> QED  BY <1>1, <1>2, <1>3 DEF IdentityInv

\* The steps that leave requests alone.
LEMMA Untouched ==
  ASSUME RequestsHold, UNCHANGED <<handling, drawn>>
  PROVE  RequestsHold' /\ Bringing' = Bringing
  BY DEF RequestsHold, HandlesWell, Bringing, Handling

LEMMA RevokeCommitInv ==
  ASSUME IdentityInv, NEW r \in TokenRequests, RevokeCommit(r)
  PROVE  IdentityInv'
<1> USE DEF RevokeCommit
<1> DEFINE i == handling[r].id
           status == IF handling[r].loaded.status = "revoked" THEN identity[i].status ELSE "revoked"
<1>1. i \in IdentityRows /\ i \in Identities
  BY DEF IdentityRows
<1>2. identity[i] \in IdentityRow
  BY <1>1 DEF IdentityInv, IdentityTypeOK, IdentityRows
<1>3. identity' = [identity EXCEPT ![i] = [identity[i] EXCEPT !.revoked_at = TRUE, !.status = status]]
  BY <1>1 DEF IdentityInv, IdentityTypeOK
<1>4. status \in {"active", "revoked", "expired"}
  BY <1>2 DEF IdentityRow
<1> HIDE DEF status, i
<1> DEFINE new == [identity[i] EXCEPT !.revoked_at = TRUE, !.status = status]
<1>n. new \in IdentityRow /\ new.name = identity[i].name /\ new.token = identity[i].token /\ new.class = identity[i].class
  BY <1>2, <1>4 DEF IdentityRow
<1> HIDE DEF new
<1>5. /\ identity'[i] \in IdentityRow /\ identity'[i].name = identity[i].name
      /\ identity'[i].token = identity[i].token /\ identity'[i].class = identity[i].class
  <2>1. identity'[i] = new
    BY <1>1, <1>3 DEF new, IdentityInv, IdentityTypeOK
  <2> QED  BY <2>1, <1>n
<1>6. \A j \in Identities : j # i => identity'[j] = identity[j]
  BY <1>1, <1>3 DEF IdentityInv, IdentityTypeOK
<1>7. /\ identity' \in [Identities -> IdentityRow \cup {NoIdentity}]
      /\ \A j \in IdentityRows' : j \in IdentityRows
  BY <1>1, <1>3, <1>5, <1>6 DEF IdentityInv, IdentityTypeOK, IdentityRows
<1>8. RequestsHold' /\ Bringing' \subseteq Bringing /\ \A q \in Bringing' : handling'[q] = handling[q]
  BY RequestEnds DEF IdentityInv
<1>9. \A j \in IdentityRows' : j \in Identities /\ identity[j].class \in home
  BY <1>7 DEF IdentityInv, IdentityTypeOK, IdentityRows
<1>a. retired' \subseteq Identities \ IdentityRows'
  BY <1>7 DEF IdentityInv
<1> QED  BY <1>5, <1>6, <1>7, <1>8, <1>9, <1>a, RowsStay

LEMMA TokenRequestFailsInv ==
  ASSUME IdentityInv, NEW r \in TokenRequests, TokenRequestFails(r)
  PROVE  IdentityInv'
<1> USE DEF TokenRequestFails
<1>1. RequestsHold' /\ Bringing' \subseteq Bringing /\ \A q \in Bringing' : handling'[q] = handling[q]
  BY RequestEnds DEF IdentityInv
<1> QED  BY <1>1, RowsStay DEF IdentityInv, IdentityTypeOK, IdentityRows

LEMMA CleanupInv ==
  ASSUME IdentityInv, CleanupExpiredTokens
  PROVE  IdentityInv'
<1> USE DEF CleanupExpiredTokens
<1>1. IdentityTypeOK /\ RequestsHold
  BY DEF IdentityInv
<1>2. ASSUME NEW i \in Identities
      PROVE  /\ identity'[i] \in IdentityRow \cup {NoIdentity}
             /\ identity'[i] # NoIdentity =>
                  /\ i \in IdentityRows /\ identity'[i].name = identity[i].name
                  /\ identity'[i].token = identity[i].token /\ identity'[i].class = identity[i].class
  <2>1. CASE i \in IdentityRows /\ identity[i].status = "active" /\ identity[i].expires = "past"
    <3>1. identity[i] \in IdentityRow /\ identity'[i] = [identity[i] EXCEPT !.status = "expired"]
      BY <1>1, <2>1 DEF IdentityTypeOK, IdentityRows
    <3> QED  BY <2>1, <3>1 DEF IdentityRow
  <2>2. CASE ~(i \in IdentityRows /\ identity[i].status = "active" /\ identity[i].expires = "past")
    BY <1>1, <2>2 DEF IdentityTypeOK, IdentityRows
  <2> QED  BY <2>1, <2>2
<1>3. /\ identity' \in [Identities -> IdentityRow \cup {NoIdentity}]
      /\ \A i \in IdentityRows' : i \in Identities /\ i \in IdentityRows
  BY <1>2 DEF IdentityRows
<1>4. RequestsHold' /\ Bringing' = Bringing
  BY <1>1, Untouched
<1>5. \A i \in IdentityRows' : identity'[i] # NoIdentity /\ identity[i].class \in home
  BY <1>1, <1>3 DEF IdentityTypeOK, IdentityRows
<1>6. retired' \subseteq Identities \ IdentityRows'
  BY <1>3 DEF IdentityInv
<1> QED  BY <1>2, <1>3, <1>4, <1>5, <1>6, RowsStay

LEMMA DeleteHomeInv ==
  ASSUME IdentityInv, NEW c \in HomeClasses, DeleteHome(c)
  PROVE  IdentityInv'
<1> USE DEF DeleteHome
<1>1. IdentityTypeOK /\ RequestsHold
  BY DEF IdentityInv
<1>2. /\ identity' \in [Identities -> IdentityRow \cup {NoIdentity}]
      /\ \A i \in IdentityRows' : i \in IdentityRows /\ identity'[i] = identity[i] /\ identity[i].class # c
  BY <1>1 DEF IdentityTypeOK, IdentityRows
<1>3. RequestsHold' /\ Bringing' = Bringing
  BY <1>1, Untouched
<1>4. \A i \in IdentityRows' : identity[i].class \in home'
  BY <1>1, <1>2 DEF IdentityTypeOK
<1>5. retired' \subseteq Identities \ IdentityRows'
  <2>1. retired' \subseteq Identities
    BY DEF IdentityInv, IdentityRows
  <2> QED  BY <1>2, <2>1 DEF IdentityInv
<1> QED  BY <1>2, <1>3, <1>4, <1>5, RowsStay

LEMMA TimeComesInv ==
  ASSUME IdentityInv, NEW i \in Identities, TimeComes(i)
  PROVE  IdentityInv'
<1> USE DEF TimeComes
<1>1. IdentityTypeOK /\ RequestsHold
  BY DEF IdentityInv
<1>2. identity[i] \in IdentityRow /\ identity' = [identity EXCEPT ![i] = [identity[i] EXCEPT !.expires = "past"]]
  BY <1>1 DEF IdentityTypeOK, IdentityRows
<1>3. /\ identity'[i] \in IdentityRow /\ identity'[i].name = identity[i].name
      /\ identity'[i].token = identity[i].token /\ identity'[i].class = identity[i].class
  BY <1>1, <1>2 DEF IdentityRow, IdentityTypeOK
<1>4. \A j \in Identities : j # i => identity'[j] = identity[j]
  BY <1>1, <1>2 DEF IdentityTypeOK
<1>5. /\ identity' \in [Identities -> IdentityRow \cup {NoIdentity}]
      /\ \A j \in IdentityRows' : j \in Identities /\ j \in IdentityRows
  BY <1>1, <1>2, <1>3, <1>4 DEF IdentityTypeOK, IdentityRows
<1>6. RequestsHold' /\ Bringing' = Bringing
  BY <1>1, Untouched
<1>7. \A j \in IdentityRows' : identity[j].class \in home
  BY <1>1, <1>5 DEF IdentityTypeOK
<1>8. retired' \subseteq Identities \ IdentityRows'
  BY <1>5 DEF IdentityInv
<1> QED  BY <1>3, <1>4, <1>5, <1>6, <1>7, <1>8, RowsStay

LEMMA IdentityNextInv ==
  ASSUME IdentityInv, [IdentityNext]_identityVars
  PROVE  IdentityInv'
<1>1. CASE UNCHANGED identityVars
  BY <1>1 DEF identityVars, IdentityInv, IdentityTypeOK, RequestsHold, HandlesWell, TokensApart, Bringing, Handling, IdentityRows
<1>2. ASSUME NEW r \in TokenRequests, CreateIdentity(r) PROVE IdentityInv'
  BY <1>2, CreateIdentityLoadInv, CreateIdentityCommitInv DEF CreateIdentity
<1>3. ASSUME NEW r \in TokenRequests, RotateToken(r) PROVE IdentityInv'
  BY <1>3, RotateLoadInv, RotateCommitInv DEF RotateToken
<1>4. ASSUME NEW r \in TokenRequests, RevokeIdentity(r) PROVE IdentityInv'
  BY <1>4, RevokeLoadInv, RevokeCommitInv DEF RevokeIdentity
<1> QED  BY <1>1, <1>2, <1>3, <1>4, TokenRequestFailsInv, CleanupInv, DeleteHomeInv, TimeComesInv DEF IdentityNext

\* Whatever requests overlap, each token has one place: it is underway with one request or in
\* one row, and rows that are gone do not return (create, rotate, revoke, delete_agent_class).
THEOREM IdentityInductive == IdentitySpec => []IdentityInv
<1>1. IdentityInv /\ [IdentityNext]_identityVars => IdentityInv'
  BY IdentityNextInv
<1> QED  BY <1>1, IdentityInitInv, PTL DEF IdentitySpec

\* Names and tokens are unique and every row has a class that exists (agent_identities).
THEOREM IdentityTypesHold == IdentitySpec => []IdentityTypeOK
<1>1. IdentityInv => IdentityTypeOK
  BY DEF IdentityInv
<1> QED  BY <1>1, IdentityInductive, PTL
------------------------------------------------------------------------------
\* Where a live row comes from: it was live and keeps its token, or a request has just
\* brought it a token.
LEMMA Fate ==
  ASSUME IdentityInv, [IdentityNext]_identityVars, NEW i \in Identities, Live(identity'[i])
  PROVE  \/ Live(identity[i]) /\ identity'[i].token = identity[i].token
         \/ /\ i \notin retired /\ identity'[i].token \in Underway
            /\ i \in IdentityRows => Live(identity[i])
<1> USE DEF IdentityInv, IdentityTypeOK
<1>1. CASE identity' = identity
  BY <1>1
<1>2. ASSUME NEW r \in TokenRequests, NEW j \in Identities, NEW n \in IdentityNames,
             NEW e \in {"never", "later"}, CreateIdentityCommit(r, j, n, e), i = j
      PROVE  i \notin retired \cup IdentityRows /\ identity'[i].token \in Underway
  BY <1>2 DEF CreateIdentityCommit, Underway
<1>3. ASSUME NEW r \in TokenRequests, RotateCommit(r), i = handling[r].id
      PROVE  /\ Live(identity[i]) /\ i \notin retired /\ identity'[i].token \in Underway
  <2>1. i \in IdentityRows /\ identity[i] \in IdentityRow /\ i \notin retired
    BY <1>3 DEF RotateCommit, IdentityRows
  <2>2. identity'[i] = [identity[i] EXCEPT !.token = handling[r].token]
    BY <1>3, <2>1 DEF RotateCommit, Rotated
  <2>3. identity'[i].token \in Underway
    BY <1>3, <2>1, <2>2 DEF RotateCommit, Underway, IdentityRow
  <2>4. Live(identity[i])
    BY <2>1, <2>2 DEF Live, IdentityRow, IdentityRows
  <2> QED  BY <2>1, <2>3, <2>4
<1>4. ASSUME NEW r \in TokenRequests, RevokeCommit(r), i = handling[r].id
      PROVE  FALSE
  <2>1. i \in IdentityRows /\ identity[i] \in IdentityRow
    BY <1>4 DEF RevokeCommit, IdentityRows
  <2>2. identity'[i] = [identity[i] EXCEPT !.revoked_at = TRUE,
            !.status = IF handling[r].loaded.status = "revoked" THEN identity[i].status ELSE "revoked"]
    BY <1>4, <2>1 DEF RevokeCommit
  <2>3. identity'[i].revoked_at = TRUE
    BY <2>1, <2>2 DEF IdentityRow
  <2> QED  BY <2>3 DEF Live
<1>5. ASSUME TimeComes(i) PROVE FALSE
  <2>1. identity[i] \in IdentityRow /\ identity'[i] = [identity[i] EXCEPT !.expires = "past"]
    BY <1>5 DEF TimeComes, IdentityRows
  <2>2. identity'[i].expires = "past"
    BY <2>1 DEF IdentityRow
  <2> QED  BY <2>2 DEF Live
<1>6. CASE CleanupExpiredTokens
  <2>1. CASE i \in IdentityRows /\ identity[i].status = "active" /\ identity[i].expires = "past"
    <3>1. identity[i] \in IdentityRow /\ identity'[i] = [identity[i] EXCEPT !.status = "expired"]
      BY <1>6, <2>1 DEF CleanupExpiredTokens, IdentityRows
    <3>2. identity'[i].status = "expired"
      BY <3>1 DEF IdentityRow
    <3> QED  BY <3>2 DEF Live
  <2>2. CASE ~(i \in IdentityRows /\ identity[i].status = "active" /\ identity[i].expires = "past")
    BY <1>6, <2>2 DEF CleanupExpiredTokens
  <2> QED  BY <2>1, <2>2
<1>7. ASSUME NEW c \in HomeClasses, DeleteHome(c) PROVE identity'[i] = identity[i]
  BY <1>7 DEF DeleteHome, Live
<1>8. ASSUME identity'[i] = identity[i] PROVE Live(identity[i]) /\ identity'[i].token = identity[i].token
  BY <1>8
<1>9. ASSUME NEW r \in TokenRequests, CreateIdentity(r)
      PROVE  identity'[i] = identity[i] \/ (i \notin retired \cup IdentityRows /\ identity'[i].token \in Underway)
  BY <1>2, <1>9 DEF CreateIdentity, CreateIdentityLoad, CreateIdentityCommit
<1>10. ASSUME NEW r \in TokenRequests, RotateToken(r)
       PROVE  identity'[i] = identity[i] \/ (Live(identity[i]) /\ i \notin retired /\ identity'[i].token \in Underway)
  BY <1>3, <1>10 DEF RotateToken, RotateLoad, RotateCommit
<1>11. ASSUME NEW r \in TokenRequests, RevokeIdentity(r) PROVE identity'[i] = identity[i]
  BY <1>4, <1>11 DEF RevokeIdentity, RevokeLoad, RevokeCommit
<1>12. ASSUME NEW j \in Identities, TimeComes(j) PROVE identity'[i] = identity[i]
  BY <1>5, <1>12 DEF TimeComes
<1>13. ASSUME NEW r \in TokenRequests, TokenRequestFails(r) PROVE identity'[i] = identity[i]
  BY <1>13 DEF TokenRequestFails
<1>14. CASE UNCHANGED identityVars
  BY <1>1, <1>14 DEF identityVars
<1> HIDE DEF IdentityInv, IdentityTypeOK
<1> QED  BY <1>6, <1>7, <1>8, <1>9, <1>10, <1>11, <1>12, <1>13, <1>14 DEF IdentityNext

\* Whatever rotations, revocations and deletions overlap, no token of an identity that was
\* revoked, has expired, is gone or has another token by now ever validates again
\* (rotate_agent_token, revoke_agent_token, cleanup_expired_tokens, delete_agent_class).
THEOREM RevocationHolds == IdentitySpec => RevocationIsFinal
<1> DEFINE Final ==
      /\ \A i \in IdentityRows : ~Live(identity[i]) => ~Live(identity'[i])
      /\ \A i \in retired : ~Live(identity'[i])
      /\ \A t \in drawn \ Underway : ~Validates(t) => ~Validates(t)'
<1>1. ASSUME IdentityInv, [IdentityNext]_identityVars PROVE Final
  <2>1. ASSUME NEW i \in IdentityRows, ~Live(identity[i]), Live(identity'[i]) PROVE FALSE
    <3>1. i \in Identities
      BY DEF IdentityRows
    <3> QED  BY <1>1, <2>1, <3>1, Fate
  <2>2. ASSUME NEW i \in retired, Live(identity'[i]) PROVE FALSE
    <3>1. i \in Identities /\ ~Live(identity[i])
      BY <1>1 DEF IdentityInv, IdentityRows, Live
    <3> QED  BY <1>1, <2>2, <3>1, Fate
  <2>3. ASSUME NEW t \in drawn \ Underway, ~Validates(t), Validates(t)' PROVE FALSE
    <3>1. PICK i \in Identities : Live(identity'[i]) /\ identity'[i].token = t
      BY <2>3 DEF Validates, IdentityRows
    <3>2. Live(identity[i]) /\ identity[i].token = t
      BY <1>1, <3>1, Fate
    <3>3. i \in IdentityRows
      BY <3>2 DEF Live, IdentityRows
    <3> QED  BY <2>3, <3>2, <3>3 DEF Validates
  <2> QED  BY <2>1, <2>2, <2>3
<1>2. IdentityInv /\ [IdentityNext]_identityVars => [Final]_identityVars
  BY <1>1
<1> QED  BY <1>2, IdentityInductive, PTL DEF IdentitySpec, RevocationIsFinal
------------------------------------------------------------------------------
(***************************************************************************)
(* Capability packs.                                                       *)
(***************************************************************************)
\* What a reader knows of the pairs it is about.
WatchHolds(w, links) ==
    /\ w.kept \subseteq Pairs(links) \cap w.about
    /\ Pairs(links) \cap w.about \subseteq w.ever
\* An assignment found its pair free.
AssignHolds(t) ==
    /\ t = [op |-> "assign", pack |-> t.pack, to |-> t.to, watch |-> t.watch]
    /\ t.pack \in Packs /\ t.to \in Linked
    /\ t.watch.about = {<<t.pack, t.to>>} /\ t.watch.kept = {}
\* A clone has read, of the kinds that are not left, all that its source kept and nothing it
\* never had; and its copy was empty when it began.
Unread(left) == UNION {left[i] : i \in DOMAIN left}
CloneHolds(t) ==
    /\ t = [op |-> "clone", pack |-> t.pack, copy |-> t.copy, left |-> t.left, read |-> t.read, watch |-> t.watch]
    /\ t.pack \in Packs /\ t.copy \in Packs
    /\ t.left \in {<<Caps, Classes>>, <<Classes>>, <<>>}
    /\ t.watch.about = {t.pack, t.copy} \X Linked
    /\ \A x \in Linked : <<t.copy, x>> \notin t.watch.kept
    /\ \A l \in t.read : /\ l = [pack |-> t.pack, to |-> l.to, id |-> l.id] /\ l.id \in Seq(PackRequests)
                         /\ l.to \in Linked /\ <<t.pack, l.to>> \in t.watch.ever
    /\ \A x \in Linked \ Unread(t.left) : <<t.pack, x>> \in t.watch.kept => \E l \in t.read : l.to = x
\* A surface has, of the packs that are not left, all that was within reach throughout.
SurfaceHolds(t) ==
    /\ t = [op |-> "surface", class |-> t.class, left |-> t.left, answer |-> t.answer, watch |-> t.watch]
    /\ t.class \in Classes /\ t.left \subseteq Packs
    /\ t.watch.about = Packs \X ({t.class} \cup Caps)
    /\ \A p \in t.left : <<p, t.class>> \in t.watch.ever
    /\ \A c \in t.answer : c \in Caps /\ \E p \in Packs : {<<p, t.class>>, <<p, c>>} \subseteq t.watch.ever
    /\ \A p \in Packs \ t.left, c \in Caps : {<<p, t.class>>, <<p, c>>} \subseteq t.watch.kept => c \in t.answer
Reading == {"assign", "clone", "surface"}
TaskHolds(t, links) ==
    /\ t.op \in Reading \cup {"fresh", "over", "remove"}
    /\ t.op = "assign" => AssignHolds(t)
    /\ t.op = "clone" => CloneHolds(t)
    /\ t.op = "surface" => SurfaceHolds(t)
    /\ t.op \in Reading => WatchHolds(t.watch, links)

\* The rows of both tables join what is there.
LinksHold ==
    \A l \in link : /\ l = [pack |-> l.pack, to |-> l.to, id |-> l.id] /\ l.id \in Seq(PackRequests)
                    /\ l.pack \in Packs /\ l.to \in Linked /\ {l.pack, l.to} \subseteq Present
PacksInv ==
    /\ row \in [Packs \cup Classes -> {"new", "there", "gone"}]
    /\ LinksHold
    /\ task = [r \in PackRequests |-> task[r]]
    /\ \A r \in PackRequests : TaskHolds(task[r], link)

LEMMA PacksInitInv == PacksInit => PacksInv
<1> SUFFICES ASSUME PacksInit PROVE PacksInv OBVIOUS
<1>1. row \in [Packs \cup Classes -> {"new", "there", "gone"}] BY DEF PacksInit
<1>2. PICK pairs \in SUBSET ((Packs \cap Present) \X (Linked \cap Present)) :
         link = {[pack |-> x[1], to |-> x[2], id |-> <<>>] : x \in pairs}
  BY DEF PacksInit
<1>3. LinksHold
  <2> SUFFICES ASSUME NEW l \in link
               PROVE  /\ l = [pack |-> l.pack, to |-> l.to, id |-> l.id] /\ l.id \in Seq(PackRequests)
                      /\ l.pack \in Packs /\ l.to \in Linked /\ {l.pack, l.to} \subseteq Present
    BY DEF LinksHold
  <2>1. PICK x \in pairs : l = [pack |-> x[1], to |-> x[2], id |-> <<>>] BY <1>2
  <2>2. x[1] \in Packs \cap Present /\ x[2] \in Linked \cap Present BY <1>2, <2>1
  <2>3. l.pack = x[1] /\ l.to = x[2] /\ l.id = <<>> BY <2>1
  <2> QED BY <2>1, <2>2, <2>3
<1>4. task = [r \in PackRequests |-> task[r]] /\ \A r \in PackRequests : task[r] = Fresh BY DEF PacksInit
<1>5. TaskHolds(Fresh, link) BY DEF TaskHolds, Fresh, Reading
<1> QED BY <1>1, <1>3, <1>4, <1>5 DEF PacksInv

\* Whatever the links become, a reader goes on knowing what it should.
LEMMA WatchGoesOn ==
    ASSUME NEW w, NEW links, NEW links2, WatchHolds(w, links), NEW w2, w2 = WatchOn(w, links2)
    PROVE  /\ WatchHolds(w2, links2)
           /\ w2.about = w.about /\ w2.kept \subseteq w.kept /\ w.ever \subseteq w2.ever
<1>1. /\ w2.about = w.about /\ w2.kept = w.kept \cap Pairs(links2)
      /\ w2.ever = w.ever \cup (Pairs(links2) \cap w.about)
  BY DEF WatchOn
<1> QED BY <1>1 DEF WatchHolds

LEMMA TaskGoesOn ==
    ASSUME NEW t, NEW links, NEW links2, TaskHolds(t, links), t.op \in Reading,
           NEW n, n = [t EXCEPT !.watch = WatchOn(@, links2)]
    PROVE  TaskHolds(n, links2)
<1>1. PICK w : w = WatchOn(t.watch, links2) OBVIOUS
<1>2. n = [t EXCEPT !.watch = w] BY <1>1
<1>3. WatchHolds(t.watch, links) BY DEF TaskHolds
<1>4. /\ WatchHolds(w, links2) /\ w.about = t.watch.about
      /\ w.kept \subseteq t.watch.kept /\ t.watch.ever \subseteq w.ever
  BY <1>1, <1>3, WatchGoesOn
<1>5. CASE t.op = "assign"
  <2>1. AssignHolds(t) BY <1>5 DEF TaskHolds
  <2>2. n = [op |-> "assign", pack |-> t.pack, to |-> t.to, watch |-> w] BY <1>2, <2>1 DEF AssignHolds
  <2>3. n.op = "assign" /\ n.pack = t.pack /\ n.to = t.to /\ n.watch = w BY <2>2
  <2>4. AssignHolds(n) BY <1>4, <2>1, <2>2, <2>3 DEF AssignHolds
  <2> QED BY <1>4, <2>3, <2>4 DEF TaskHolds, Reading
<1>6. CASE t.op = "clone"
  <2>1. CloneHolds(t) BY <1>6 DEF TaskHolds
  <2>2. n = [op |-> "clone", pack |-> t.pack, copy |-> t.copy, left |-> t.left, read |-> t.read, watch |-> w]
    BY <1>2, <2>1 DEF CloneHolds
  <2>3. /\ n.op = "clone" /\ n.pack = t.pack /\ n.copy = t.copy /\ n.left = t.left /\ n.read = t.read
        /\ n.watch = w
    BY <2>2
  <2>4. n = [op |-> "clone", pack |-> n.pack, copy |-> n.copy, left |-> n.left, read |-> n.read, watch |-> n.watch]
    BY <2>2, <2>3
  <2> HIDE <2>2
  <2>5. CloneHolds(n) BY <1>4, <2>1, <2>3, <2>4 DEF CloneHolds
  <2> QED BY <1>4, <2>3, <2>5 DEF TaskHolds, Reading
<1>7. CASE t.op = "surface"
  <2>1. SurfaceHolds(t) BY <1>7 DEF TaskHolds
  <2>2. n = [op |-> "surface", class |-> t.class, left |-> t.left, answer |-> t.answer, watch |-> w]
    BY <1>2, <2>1 DEF SurfaceHolds
  <2>3. n.op = "surface" /\ n.class = t.class /\ n.left = t.left /\ n.answer = t.answer /\ n.watch = w
    BY <2>2
  <2>4. n = [op |-> "surface", class |-> n.class, left |-> n.left, answer |-> n.answer, watch |-> n.watch]
    BY <2>2, <2>3
  <2> HIDE <2>2
  <2>5. SurfaceHolds(n) BY <1>4, <2>1, <2>3, <2>4 DEF SurfaceHolds
  <2> QED BY <1>4, <2>3, <2>5 DEF TaskHolds, Reading
<1> QED BY <1>5, <1>6, <1>7 DEF Reading

\* A step that changes links or a row: LinksHold is what is left to show.
LEMMA ChangeHolds ==
    ASSUME PacksInv, NEW links, NEW tasks, Change(links, tasks), LinksHold',
           row' \in [Packs \cup Classes -> {"new", "there", "gone"}],
           \A r \in PackRequests : tasks[r] = task[r] \/ tasks[r] = Over
    PROVE  PacksInv'
<1>1. link' = links /\ task' = [r \in PackRequests |->
         IF r \in Readers /\ tasks[r] # Over THEN [tasks[r] EXCEPT !.watch = WatchOn(@, links)] ELSE tasks[r]]
  BY DEF Change
<1>2. task' = [r \in PackRequests |-> task'[r]] BY <1>1
<1>3. ASSUME NEW r \in PackRequests PROVE TaskHolds(task'[r], links)
  <2>0. TaskHolds(task[r], link) /\ (r \in Readers <=> task[r].op \in Reading)
    BY DEF PacksInv, Readers, Doing, Reading
  <2>1. CASE tasks[r] = Over
    <3>1. task'[r] = Over BY <1>1, <2>1
    <3> QED BY <3>1 DEF Over, TaskHolds, Reading
  <2>2. CASE tasks[r] # Over /\ r \in Readers
    <3>1. tasks[r] = task[r] BY <2>2
    <3>2. task'[r] = [task[r] EXCEPT !.watch = WatchOn(@, links)] BY <1>1, <2>2, <3>1
    <3> QED BY <2>0, <2>2, <3>2, TaskGoesOn
  <2>3. CASE tasks[r] # Over /\ r \notin Readers
    <3>1. task'[r] = task[r] BY <1>1, <2>3
    <3> QED BY <2>0, <2>3, <3>1 DEF TaskHolds
  <2> QED BY <2>1, <2>2, <2>3
<1> QED BY <1>1, <1>2, <1>3 DEF PacksInv

\* A step of one request that changes no link.
LEMMA ReaderGoesOn ==
    ASSUME PacksInv, NEW r \in PackRequests, NEW t, Become(r, t), TaskHolds(t, link), UNCHANGED <<row, link>>
    PROVE  PacksInv'
<1>1. \A q \in PackRequests : task'[q] = IF q = r THEN t ELSE task[q] BY DEF PacksInv, Become
<1>2. task' = [q \in PackRequests |-> task'[q]] BY DEF PacksInv, Become
<1>3. LinksHold' BY DEF PacksInv, LinksHold, Present, Rows
<1> QED BY <1>1, <1>2, <1>3 DEF PacksInv

\* A request that is over no longer watches.
LEMMA EndHolds ==
    ASSUME PacksInv, NEW r \in PackRequests, Become(r, Over), UNCHANGED <<row, link>> PROVE PacksInv'
<1>1. TaskHolds(Over, link) BY DEF TaskHolds, Over, Reading
<1> QED BY <1>1, ReaderGoesOn
LEMMA ServedTasks ==
    ASSUME PacksInv, NEW r \in PackRequests
    PROVE  \A q \in PackRequests : Served(r)[q] = task[q] \/ Served(r)[q] = Over
BY DEF PacksInv, Served
LEMMA WatchBegins ==
    ASSUME NEW about PROVE WatchHolds(Watch(about), link) /\ Watch(about).about = about
                           /\ Watch(about).kept = Pairs(link) \cap about /\ Watch(about).ever = Pairs(link) \cap about
<1>1. /\ Watch(about).about = about /\ Watch(about).kept = Pairs(link) \cap about
      /\ Watch(about).ever = Pairs(link) \cap about
  BY DEF Watch
<1> QED BY <1>1 DEF WatchHolds

\* The rows.
LEMMA CreateRowHolds == ASSUME PacksInv, NEW x \in Packs \cup Classes, CreateRow(x) PROVE PacksInv'
<1>1. row' \in [Packs \cup Classes -> {"new", "there", "gone"}] /\ task' = task /\ link' = link
  BY DEF PacksInv, CreateRow
<1>2. Present \subseteq Present' BY DEF PacksInv, CreateRow, Present, Rows
<1>3. LinksHold' BY <1>1, <1>2 DEF PacksInv, LinksHold
<1> QED BY <1>1, <1>3 DEF PacksInv
LEMMA DeleteRowHolds == ASSUME PacksInv, NEW x \in Packs \cup Classes, DeleteRow(x) PROVE PacksInv'
<1>1. row' \in [Packs \cup Classes -> {"new", "there", "gone"}] BY DEF PacksInv, DeleteRow
<1>2. Change({l \in link : l.pack # x /\ l.to # x}, task) BY DEF DeleteRow
<1>3. link' = {l \in link : l.pack # x /\ l.to # x} BY <1>2 DEF Change
<1>4. Present \ {x} \subseteq Present' BY DEF PacksInv, DeleteRow, Present, Rows
<1>5. LinksHold' BY <1>3, <1>4 DEF PacksInv, LinksHold
<1> QED BY <1>1, <1>2, <1>5, ChangeHolds

\* Assignments and removals.
LEMMA AssignLoadHolds ==
    ASSUME PacksInv, NEW r \in PackRequests, NEW p \in Packs, NEW x \in Linked, AssignLoad(r, p, x) PROVE PacksInv'
<1>1. PICK w : w = Watch({<<p, x>>}) OBVIOUS
<1>2. WatchHolds(w, link) /\ w.about = {<<p, x>>} /\ w.kept = Pairs(link) \cap {<<p, x>>} BY <1>1, WatchBegins
<1>3. <<p, x>> \notin Pairs(link) BY DEF AssignLoad, MayAssign, RowsOf, Pairs
<1>4. PICK t : t = [op |-> "assign", pack |-> p, to |-> x, watch |-> w] OBVIOUS
<1>5. t.op = "assign" /\ t.pack = p /\ t.to = x /\ t.watch = w BY <1>4
<1>6. AssignHolds(t) BY <1>2, <1>3, <1>4, <1>5 DEF AssignHolds
<1>7. TaskHolds(t, link) BY <1>2, <1>5, <1>6 DEF TaskHolds, Reading
<1>8. Become(r, t) /\ UNCHANGED <<row, link>> BY <1>1, <1>4 DEF AssignLoad
<1> QED BY <1>7, <1>8, ReaderGoesOn
LEMMA AssignCommitHolds ==
    ASSUME PacksInv, NEW r \in PackRequests, AssignCommit(r) PROVE PacksInv'
<1>1. PICK t : t = task[r] OBVIOUS
<1>2. t.pack \in Packs /\ t.to \in Linked
  BY <1>1 DEF AssignCommit, Doing, PacksInv, TaskHolds, AssignHolds
<1>3. CASE {t.pack, t.to} \subseteq Present
  <2>1. PICK n : n = [pack |-> t.pack, to |-> t.to, id |-> <<r>>] OBVIOUS
  <2>2. Change(link \cup {n}, Served(r)) /\ row' = row BY <1>1, <1>3, <2>1 DEF AssignCommit
  <2>3. link' = link \cup {n} BY <2>2 DEF Change
  <2>4. n = [pack |-> n.pack, to |-> n.to, id |-> n.id] /\ n.pack = t.pack /\ n.to = t.to /\ n.id = <<r>> BY <2>1
  <2>a. n.id \in Seq(PackRequests) BY <2>4
  <2>5. Present' = Present BY <2>2 DEF Present, Rows
  <2>6. LinksHold' BY <1>2, <1>3, <2>3, <2>4, <2>a, <2>5 DEF PacksInv, LinksHold
  <2>7. row' \in [Packs \cup Classes -> {"new", "there", "gone"}] BY <2>2 DEF PacksInv
  <2> QED BY <2>2, <2>6, <2>7, ChangeHolds, ServedTasks
<1>4. CASE ~({t.pack, t.to} \subseteq Present)
  BY <1>1, <1>4, EndHolds DEF AssignCommit
<1> QED BY <1>3, <1>4
LEMMA RemoveHolds ==
    ASSUME PacksInv, NEW r \in PackRequests,
           (\E p \in Packs, x \in Linked : RemoveLoad(r, p, x)) \/ RemoveCommit(r)
    PROVE  PacksInv'
<1>1. CASE \E p \in Packs, x \in Linked : RemoveLoad(r, p, x)
  <2>1. PICK l : Become(r, [op |-> "remove", row |-> l]) /\ UNCHANGED <<row, link>> BY <1>1 DEF RemoveLoad
  <2>2. PICK t : t = [op |-> "remove", row |-> l] OBVIOUS
  <2>3. TaskHolds(t, link) BY <2>2 DEF TaskHolds, Reading
  <2> QED BY <2>1, <2>2, <2>3, ReaderGoesOn
<1>2. CASE RemoveCommit(r)
  <2>1. Change(link \ {task[r].row}, Served(r)) /\ row' = row BY <1>2 DEF RemoveCommit
  <2>2. link' \subseteq link BY <2>1 DEF Change
  <2>3. LinksHold' BY <2>1, <2>2 DEF PacksInv, LinksHold, Present, Rows
  <2>4. row' \in [Packs \cup Classes -> {"new", "there", "gone"}] BY <2>1 DEF PacksInv
  <2> QED BY <2>1, <2>3, <2>4, ChangeHolds, ServedTasks
<1> QED BY <1>1, <1>2

\* clone_pack
LEMMA CloneBeginHolds ==
    ASSUME PacksInv, NEW r \in PackRequests, NEW p \in Packs, NEW q \in Packs, CloneBegin(r, p, q) PROVE PacksInv'
<1>0. row' = [row EXCEPT ![q] = "there"] /\ link' = link /\ row[q] = "new" BY DEF CloneBegin
<1>1. PICK w : w = Watch({p, q} \X Linked) OBVIOUS
<1>2. /\ WatchHolds(w, link) /\ w.about = {p, q} \X Linked /\ w.kept = Pairs(link) \cap ({p, q} \X Linked)
  BY <1>1, WatchBegins
<1>3. ASSUME NEW x \in Linked PROVE <<q, x>> \notin w.kept
  <2>1. \A l \in link : l.pack # q BY <1>0, PacksAssumption DEF PacksInv, LinksHold, Present, Rows
  <2>2. <<q, x>> \notin Pairs(link) BY <2>1 DEF Pairs, Pair
  <2> QED BY <1>2, <2>2
<1>4. PICK t : t = [op |-> "clone", pack |-> p, copy |-> q, left |-> <<Caps, Classes>>, read |-> {}, watch |-> w]
  OBVIOUS
<1>5. /\ t.op = "clone" /\ t.pack = p /\ t.copy = q /\ t.left = <<Caps, Classes>> /\ t.read = {} /\ t.watch = w
  BY <1>4
<1>6. Unread(<<Caps, Classes>>) = Linked
  <2>1. DOMAIN <<Caps, Classes>> = {1, 2} OBVIOUS
  <2> QED BY <2>1 DEF Unread, Linked
<1>7. CloneHolds(t)
  <2>1. t = [op |-> "clone", pack |-> t.pack, copy |-> t.copy, left |-> t.left, read |-> t.read, watch |-> t.watch]
    BY <1>4, <1>5
  <2> QED BY <1>2, <1>3, <1>5, <1>6, <2>1 DEF CloneHolds
<1>8. TaskHolds(t, link) BY <1>2, <1>5, <1>7 DEF TaskHolds, Reading
<1>9. Become(r, t) BY <1>1, <1>4 DEF CloneBegin
<1>10. \A o \in PackRequests : task'[o] = IF o = r THEN t ELSE task[o] BY <1>9 DEF PacksInv, Become
<1>11. task' = [o \in PackRequests |-> task'[o]] BY <1>9 DEF PacksInv, Become
<1>12. row' \in [Packs \cup Classes -> {"new", "there", "gone"}] BY <1>0 DEF PacksInv
<1>13. Present \subseteq Present' BY <1>0 DEF PacksInv, Present, Rows
<1>14. LinksHold' BY <1>0, <1>13 DEF PacksInv, LinksHold
<1> QED BY <1>0, <1>8, <1>10, <1>11, <1>12, <1>14 DEF PacksInv

LEMMA Kinds ==
    /\ Head(<<Caps, Classes>>) = Caps /\ Tail(<<Caps, Classes>>) = <<Classes>>
    /\ Head(<<Classes>>) = Classes /\ Tail(<<Classes>>) = <<>>
    /\ Unread(<<Caps, Classes>>) = Caps \cup Classes /\ Unread(<<Classes>>) = Classes /\ Unread(<<>>) = {}
<1>1. DOMAIN <<Caps, Classes>> = {1, 2} /\ DOMAIN <<Classes>> = {1} OBVIOUS
<1>2. Unread(<<Caps, Classes>>) = Caps \cup Classes BY <1>1 DEF Unread
<1>3. Unread(<<Classes>>) = Classes BY <1>1 DEF Unread
<1>4. Unread(<<>>) = {} BY DEF Unread
<1> QED BY <1>2, <1>3, <1>4

LEMMA CloneReadHolds ==
    ASSUME PacksInv, NEW r \in PackRequests, CloneRead(r) PROVE PacksInv'
<1>1. PICK o : o = task[r] OBVIOUS
<1>2. o.op = "clone" /\ CloneHolds(o) /\ WatchHolds(o.watch, link) /\ o.left # <<>>
  BY <1>1 DEF CloneRead, Doing, PacksInv, TaskHolds, Reading
<1>3. PICK kind, left, read : kind = Head(o.left) /\ left = Tail(o.left) /\ read = o.read \cup ReadOf(o, kind)
  OBVIOUS
<1>4. /\ kind \subseteq Linked /\ left \in {<<Caps, Classes>>, <<Classes>>, <<>>}
      /\ Unread(o.left) = kind \cup Unread(left)
  BY <1>2, <1>3, Kinds DEF CloneHolds, Linked
<1>5. PICK t : t = [op |-> "clone", pack |-> o.pack, copy |-> o.copy, left |-> left, read |-> read, watch |-> o.watch]
  OBVIOUS
<1>6. /\ t.op = "clone" /\ t.pack = o.pack /\ t.copy = o.copy /\ t.left = left /\ t.read = read
      /\ t.watch = o.watch
  BY <1>5
<1>7. Become(r, t)
  <2>1. Become(r, [o EXCEPT !.left = left, !.read = read]) BY <1>1, <1>3 DEF CloneRead
  <2>2. PICK o1 : o1 = [o EXCEPT !.left = left] OBVIOUS
  <2>3. o1 = [op |-> "clone", pack |-> o.pack, copy |-> o.copy, left |-> left, read |-> o.read, watch |-> o.watch]
    BY <1>2, <2>2 DEF CloneHolds
  <2>4. [o1 EXCEPT !.read = read] = t BY <1>5, <2>3
  <2> QED BY <2>1, <2>2, <2>4
<1>8. ASSUME NEW l \in ReadOf(o, kind)
      PROVE  /\ l = [pack |-> o.pack, to |-> l.to, id |-> l.id] /\ l.id \in Seq(PackRequests)
             /\ l.to \in Linked /\ <<o.pack, l.to>> \in o.watch.ever
  <2>1. l \in link /\ l.pack = o.pack /\ l.to \in kind BY DEF ReadOf
  <2>2. l = [pack |-> l.pack, to |-> l.to, id |-> l.id] /\ l.id \in Seq(PackRequests) /\ l.to \in Linked BY <2>1 DEF PacksInv, LinksHold
  <2>3. <<o.pack, l.to>> \in Pairs(link) BY <2>1 DEF Pairs, Pair
  <2>4. <<o.pack, l.to>> \in o.watch.about BY <1>2, <2>2 DEF CloneHolds
  <2> QED BY <1>2, <2>1, <2>2, <2>3, <2>4 DEF WatchHolds
<1>9. ASSUME NEW x \in Linked \ Unread(left), <<o.pack, x>> \in o.watch.kept PROVE \E l \in read : l.to = x
  <2>1. CASE x \in kind
    <3>1. <<o.pack, x>> \in Pairs(link) BY <1>2, <1>9 DEF WatchHolds
    <3>2. PICK l \in link : l.pack = o.pack /\ l.to = x BY <3>1 DEF Pairs, Pair
    <3>3. l \in ReadOf(o, kind) BY <2>1, <3>2 DEF ReadOf
    <3> QED BY <1>3, <3>2, <3>3
  <2>2. CASE x \notin kind
    <3>1. x \in Linked \ Unread(o.left) BY <1>4, <1>9, <2>2
    <3> QED BY <1>2, <1>3, <1>9, <3>1 DEF CloneHolds
  <2> QED BY <2>1, <2>2
<1>10. CloneHolds(t)
  <2>1. t = [op |-> "clone", pack |-> t.pack, copy |-> t.copy, left |-> t.left, read |-> t.read, watch |-> t.watch]
    BY <1>5, <1>6
  <2>2. \A l \in t.read : /\ l = [pack |-> t.pack, to |-> l.to, id |-> l.id] /\ l.id \in Seq(PackRequests)
                          /\ l.to \in Linked /\ <<t.pack, l.to>> \in t.watch.ever
    <3> SUFFICES ASSUME NEW l \in t.read
                 PROVE  /\ l = [pack |-> t.pack, to |-> l.to, id |-> l.id] /\ l.id \in Seq(PackRequests)
                        /\ l.to \in Linked /\ <<t.pack, l.to>> \in t.watch.ever
      OBVIOUS
    <3>1. CASE l \in o.read BY <1>2, <1>6, <3>1 DEF CloneHolds
    <3>2. CASE l \in ReadOf(o, kind) BY <1>6, <1>8, <3>2
    <3> QED BY <1>3, <1>6, <3>1, <3>2
  <2>3. \A x \in Linked \ Unread(t.left) : <<t.pack, x>> \in t.watch.kept => \E l \in t.read : l.to = x
    BY <1>6, <1>9
  <2>4. /\ t.pack \in Packs /\ t.copy \in Packs /\ t.watch.about = {t.pack, t.copy} \X Linked
        /\ \A x \in Linked : <<t.copy, x>> \notin t.watch.kept
    BY <1>2, <1>6 DEF CloneHolds
  <2> QED BY <1>4, <1>6, <2>1, <2>2, <2>3, <2>4 DEF CloneHolds
<1>11. TaskHolds(t, link) BY <1>2, <1>6, <1>10 DEF TaskHolds, Reading
<1> QED BY <1>7, <1>11, ReaderGoesOn DEF CloneRead

\* The rows that a clone inserts are those it has read, of the copy.
CopiedRows(t, ids) == {[pack |-> t.copy, to |-> l.to, id |-> ids[l]] : l \in t.read}
LEMMA CloneRows ==
    ASSUME PacksInv, NEW r \in PackRequests, CloneCommit(r), NEW t, t = task[r],
           {t.copy} \cup {l.to : l \in t.read} \subseteq Present
    PROVE  \E ids : /\ Change(link \cup CopiedRows(t, ids), Served(r)) /\ row' = row
                   /\ \A l \in t.read : ids[l] \in Seq(PackRequests)
<1>2. CloneHolds(t) BY DEF CloneCommit, Doing, PacksInv, TaskHolds
<1>3. PICK ids : ids = [l \in t.read |-> Append(l.id, r)] OBVIOUS
<1>a. \A l \in t.read : ids[l] = Append(l.id, r) /\ ids[l] \in Seq(PackRequests)
  <2>1. \A l \in t.read : l.id \in Seq(PackRequests) BY <1>2 DEF CloneHolds
  <2> QED BY <1>3, <2>1
<1> DEFINE copied == Copies(t, r)
<1>4. Change(link \cup copied, Served(r)) /\ row' = row
  BY DEF CloneCommit
<1>5. ASSUME NEW l \in t.read
      PROVE  [l EXCEPT !.pack = t.copy, !.id = Append(@, r)] = [pack |-> t.copy, to |-> l.to, id |-> ids[l]]
  <2>1. l = [pack |-> t.pack, to |-> l.to, id |-> l.id] BY <1>2 DEF CloneHolds
  <2>2. PICK l1 : l1 = [l EXCEPT !.pack = t.copy] OBVIOUS
  <2>3. l1 = [pack |-> t.copy, to |-> l.to, id |-> l.id] BY <2>1, <2>2
  <2>4. [l1 EXCEPT !.id = ids[l]] = [pack |-> t.copy, to |-> l.to, id |-> ids[l]] BY <2>3
  <2>a. ids[l] = Append(l.id, r) BY <1>a
  <2>b. l1.id = l.id BY <2>3
  <2>5. [l EXCEPT !.pack = t.copy, !.id = Append(@, r)] = [l1 EXCEPT !.id = ids[l]] BY <2>2, <2>a
  <2> QED BY <2>4, <2>5
<1>6. copied = CopiedRows(t, ids)
  <2>1. ASSUME NEW n \in copied PROVE n \in CopiedRows(t, ids)
    <3>1. PICK l \in t.read : n = [l EXCEPT !.pack = t.copy, !.id = Append(@, r)] BY <2>1 DEF Copies
    <3>2. n = [pack |-> t.copy, to |-> l.to, id |-> ids[l]] BY <1>5, <3>1
    <3> QED BY <3>2 DEF CopiedRows
  <2>2. ASSUME NEW n \in CopiedRows(t, ids) PROVE n \in copied
    <3>1. PICK l \in t.read : n = [pack |-> t.copy, to |-> l.to, id |-> ids[l]] BY <2>2 DEF CopiedRows
    <3>2. n = [l EXCEPT !.pack = t.copy, !.id = Append(@, r)] BY <1>5, <3>1
    <3> QED BY <3>2 DEF Copies
  <2> QED BY <2>1, <2>2
<1> QED BY <1>4, <1>6, <1>a

LEMMA CloneCommitHolds ==
    ASSUME PacksInv, NEW r \in PackRequests, CloneCommit(r) PROVE PacksInv'
<1>1. PICK t : t = task[r] OBVIOUS
<1>2. CloneHolds(t) BY <1>1 DEF CloneCommit, Doing, PacksInv, TaskHolds
<1>3. CASE {t.copy} \cup {l.to : l \in t.read} \subseteq Present
  <2>1. PICK ids : /\ Change(link \cup CopiedRows(t, ids), Served(r)) /\ row' = row
                   /\ \A l \in t.read : ids[l] \in Seq(PackRequests)
    BY <1>1, <1>3, CloneRows
  <2>a. link' = link \cup CopiedRows(t, ids) BY <2>1 DEF Change
  <2>2. Present' = Present BY <2>1 DEF Present, Rows
  <2>3. ASSUME NEW n \in link', n \notin link
        PROVE  /\ n = [pack |-> n.pack, to |-> n.to, id |-> n.id] /\ n.id \in Seq(PackRequests)
               /\ n.pack \in Packs /\ n.to \in Linked /\ {n.pack, n.to} \subseteq Present
    <3>1. PICK l \in t.read : n = [pack |-> t.copy, to |-> l.to, id |-> ids[l]] 
      BY <2>a, <2>3 DEF CopiedRows
    <3>2. n.pack = t.copy /\ n.to = l.to /\ n.id = ids[l] BY <3>1
    <3>3. l.to \in Linked /\ t.copy \in Packs BY <1>2 DEF CloneHolds
    <3> QED BY <1>3, <2>1, <3>1, <3>2, <3>3
  <2>4. LinksHold' BY <2>2, <2>3 DEF PacksInv, LinksHold
  <2>5. row' \in [Packs \cup Classes -> {"new", "there", "gone"}] BY <2>1 DEF PacksInv
  <2> QED BY <2>1, <2>4, <2>5, ChangeHolds, ServedTasks
<1>4. CASE ~({t.copy} \cup {l.to : l \in t.read} \subseteq Present)
  BY <1>1, <1>4, EndHolds DEF CloneCommit
<1> QED BY <1>3, <1>4

\* get_agent_capability_surface
LEMMA SurfaceBeginHolds ==
    ASSUME PacksInv, NEW r \in PackRequests, NEW k \in Classes, SurfaceBegin(r, k) PROVE PacksInv'
<1>1. PICK w : w = Watch(Packs \X ({k} \cup Caps)) OBVIOUS
<1>2. /\ WatchHolds(w, link) /\ w.about = Packs \X ({k} \cup Caps)
      /\ w.kept = Pairs(link) \cap (Packs \X ({k} \cup Caps)) /\ w.ever = Pairs(link) \cap (Packs \X ({k} \cup Caps))
  BY <1>1, WatchBegins
<1>3. PICK left : left = {p \in Packs : RowsOf(p, k) # {}} OBVIOUS
<1>4. \A p \in Packs : p \in left <=> <<p, k>> \in Pairs(link) BY <1>3 DEF RowsOf, Pairs
<1>5. PICK t : t = [op |-> "surface", class |-> k, left |-> left, answer |-> {}, watch |-> w] OBVIOUS
<1>6. t.op = "surface" /\ t.class = k /\ t.left = left /\ t.answer = {} /\ t.watch = w BY <1>5
<1>7. SurfaceHolds(t)
  <2>1. t = [op |-> "surface", class |-> t.class, left |-> t.left, answer |-> t.answer, watch |-> t.watch]
    BY <1>5, <1>6
  <2>2. \A p \in Packs \ t.left, c \in Caps : {<<p, t.class>>, <<p, c>>} \subseteq t.watch.kept => c \in t.answer
    BY <1>2, <1>4, <1>6
  <2>3. \A p \in t.left : <<p, t.class>> \in t.watch.ever BY <1>2, <1>3, <1>4, <1>6
  <2> QED BY <1>2, <1>3, <1>6, <2>1, <2>2, <2>3 DEF SurfaceHolds
<1>8. TaskHolds(t, link) BY <1>2, <1>6, <1>7 DEF TaskHolds, Reading
<1>9. Become(r, t) /\ UNCHANGED <<row, link>> BY <1>1, <1>3, <1>5 DEF SurfaceBegin
<1> QED BY <1>8, <1>9, ReaderGoesOn
LEMMA SurfaceReadHolds ==
    ASSUME PacksInv, NEW r \in PackRequests, SurfaceRead(r) PROVE PacksInv'
<1>1. PICK o : o = task[r] OBVIOUS
<1>2. o.op = "surface" /\ SurfaceHolds(o) /\ WatchHolds(o.watch, link)
  BY <1>1 DEF SurfaceRead, Doing, PacksInv, TaskHolds, Reading
<1>3. PICK p \in o.left : Become(r, [o EXCEPT !.left = @ \ {p}, !.answer = @ \cup {c \in Caps : RowsOf(p, c) # {}}])
  BY <1>1 DEF SurfaceRead
<1>4. PICK left, answer : left = o.left \ {p} /\ answer = o.answer \cup {c \in Caps : RowsOf(p, c) # {}} OBVIOUS
<1>5. PICK t : t = [op |-> "surface", class |-> o.class, left |-> left, answer |-> answer, watch |-> o.watch] OBVIOUS
<1>6. t.op = "surface" /\ t.class = o.class /\ t.left = left /\ t.answer = answer /\ t.watch = o.watch BY <1>5
<1>7. Become(r, t)
  <2>1. Become(r, [o EXCEPT !.left = left, !.answer = answer]) BY <1>3, <1>4
  <2>2. PICK o1 : o1 = [o EXCEPT !.left = left] OBVIOUS
  <2>3. o1 = [op |-> "surface", class |-> o.class, left |-> left, answer |-> o.answer, watch |-> o.watch]
    BY <1>2, <2>2 DEF SurfaceHolds
  <2>4. [o1 EXCEPT !.answer = answer] = t BY <1>5, <2>3
  <2> QED BY <2>1, <2>2, <2>4
<1>8. \A c \in Caps : RowsOf(p, c) # {} <=> <<p, c>> \in Pairs(link) BY DEF RowsOf, Pairs
<1>9. SurfaceHolds(t)
  <2>1. t = [op |-> "surface", class |-> t.class, left |-> t.left, answer |-> t.answer, watch |-> t.watch]
    BY <1>5, <1>6
  <2>2. /\ t.class \in Classes /\ t.left \subseteq Packs /\ p \in Packs
        /\ t.watch.about = Packs \X ({t.class} \cup Caps)
        /\ \A u \in t.left : <<u, t.class>> \in t.watch.ever
    BY <1>2, <1>4, <1>6 DEF SurfaceHolds
  <2>3. ASSUME NEW c \in t.answer
        PROVE  c \in Caps /\ \E u \in Packs : {<<u, t.class>>, <<u, c>>} \subseteq t.watch.ever
    <3>1. CASE c \in o.answer BY <1>2, <1>6, <3>1 DEF SurfaceHolds
    <3>2. CASE c \notin o.answer
      <4>1. c \in Caps /\ <<p, c>> \in Pairs(link) BY <1>4, <1>6, <1>8, <3>2
      <4>2. <<p, c>> \in t.watch.about BY <2>2, <4>1
      <4>3. <<p, c>> \in t.watch.ever BY <1>2, <1>6, <4>1, <4>2 DEF WatchHolds
      <4>4. <<p, t.class>> \in t.watch.ever BY <1>2, <1>3, <1>6 DEF SurfaceHolds
      <4> QED BY <2>2, <4>1, <4>3, <4>4
    <3> QED BY <3>1, <3>2
  <2>4. ASSUME NEW u \in Packs \ t.left, NEW c \in Caps, {<<u, t.class>>, <<u, c>>} \subseteq t.watch.kept
        PROVE  c \in t.answer
    <3>1. CASE u = p
      <4>1. <<p, c>> \in Pairs(link) BY <1>2, <1>6, <2>4, <3>1 DEF WatchHolds
      <4> QED BY <1>4, <1>6, <1>8, <4>1
    <3>2. CASE u # p
      <4>1. u \in Packs \ o.left BY <1>4, <1>6, <2>4, <3>2
      <4>2. c \in o.answer BY <1>2, <1>6, <2>4, <4>1 DEF SurfaceHolds
      <4> QED BY <1>4, <1>6, <4>2
    <3> QED BY <3>1, <3>2
  <2> QED BY <2>1, <2>2, <2>3, <2>4 DEF SurfaceHolds
<1>10. TaskHolds(t, link) BY <1>2, <1>6, <1>9 DEF TaskHolds, Reading
<1> QED BY <1>7, <1>10, ReaderGoesOn DEF SurfaceRead

\* What one request of the pack service does in a step.
PackStep(r) ==
    \/ AssignCapability(r) \/ AssignToClass(r) \/ AssignCommit(r)
    \/ RemoveCapability(r) \/ RemoveFromClass(r) \/ RemoveCommit(r)
    \/ ClonePack(r) \/ Surface(r) \/ Dies(r)
LEMMA PackStepHolds == ASSUME PacksInv, NEW r \in PackRequests, PackStep(r) PROVE PacksInv'
<1>1. CASE AssignCapability(r) \/ AssignToClass(r)
  <2>1. PICK p \in Packs, x \in Linked : AssignLoad(r, p, x) BY <1>1 DEF AssignCapability, AssignToClass, Linked
  <2> QED BY <2>1, AssignLoadHolds
<1>2. CASE RemoveCapability(r) \/ RemoveFromClass(r)
  <2>1. \E p \in Packs, x \in Linked : RemoveLoad(r, p, x) BY <1>2 DEF RemoveCapability, RemoveFromClass, Linked
  <2> QED BY <2>1, RemoveHolds
<1>3. CASE AssignCommit(r) BY <1>3, AssignCommitHolds
<1>4. CASE RemoveCommit(r) BY <1>4, RemoveHolds
<1>5. CASE ClonePack(r) BY <1>5, CloneBeginHolds, CloneReadHolds, CloneCommitHolds DEF ClonePack
<1>6. CASE Surface(r) BY <1>6, SurfaceBeginHolds, SurfaceReadHolds DEF Surface
<1>7. CASE Dies(r) BY <1>7, EndHolds DEF Dies
<1> QED BY <1>1, <1>2, <1>3, <1>4, <1>5, <1>6, <1>7 DEF PackStep

LEMMA PacksNextInv == PacksInv /\ [PacksNext]_packsVars => PacksInv'
<1> SUFFICES ASSUME PacksInv, [PacksNext]_packsVars PROVE PacksInv' OBVIOUS
<1>1. CASE UNCHANGED packsVars
  <2>1. row' = row /\ link' = link /\ task' = task BY <1>1 DEF packsVars
  <2>2. LinksHold' BY <2>1 DEF PacksInv, LinksHold, Present, Rows
  <2> QED BY <2>1, <2>2 DEF PacksInv
<1>2. CASE CreatePack \/ CreateAgentClass BY <1>2, CreateRowHolds DEF CreatePack, CreateAgentClass
<1>3. CASE DeletePack \/ DeleteAgentClass BY <1>3, DeleteRowHolds DEF DeletePack, DeleteAgentClass
<1>4. ASSUME NEW r \in PackRequests, PackStep(r) PROVE PacksInv' BY <1>4, PackStepHolds
<1> QED BY <1>1, <1>2, <1>3, <1>4 DEF PacksNext, PackStep

\* However assignments, removals and deletions fall between the queries of a walk, an agent's
\* surface lists what was within its reach throughout and nothing that never was, and a clone
\* copies what its source had throughout and nothing that it never had.
THEOREM WalksStayFaithful == PacksSpec => []WalksAreFaithful
<1>1. ASSUME PacksInv PROVE WalksAreFaithful
  <2>1. ASSUME NEW r \in Doing("surface"), task[r].left = {}
        PROVE  /\ {c \in Caps : \E p \in Packs : {<<p, task[r].class>>, <<p, c>>} \subseteq task[r].watch.kept}
                    \subseteq task[r].answer
               /\ task[r].answer
                    \subseteq {c \in Caps : \E p \in Packs : {<<p, task[r].class>>, <<p, c>>} \subseteq task[r].watch.ever}
    <3>1. SurfaceHolds(task[r]) BY <1>1, <2>1 DEF PacksInv, TaskHolds, Doing
    <3> QED BY <2>1, <3>1 DEF SurfaceHolds
  <2>2. ASSUME NEW r \in Doing("clone"), task[r].left = <<>>
        PROVE  LET t == task[r] copied == {l.to : l \in t.read} IN
               /\ {x \in Linked : <<t.pack, x>> \in t.watch.kept} \subseteq copied
               /\ copied \subseteq {x \in Linked : <<t.pack, x>> \in t.watch.ever}
    <3>1. CloneHolds(task[r]) BY <1>1, <2>2 DEF PacksInv, TaskHolds, Doing
    <3>2. Unread(task[r].left) = {} BY <2>2, Kinds
    <3> QED BY <3>1, <3>2 DEF CloneHolds
  <2> QED BY <2>1, <2>2 DEF WalksAreFaithful
<1> QED BY <1>1, PacksInitInv, PacksNextInv, PTL DEF PacksSpec

LEMMA PacksInvTypes == PacksInv => PacksTypeOK
<1> SUFFICES ASSUME PacksInv PROVE link \subseteq Link /\ \A l \in link : {l.pack, l.to} \subseteq Present
  BY DEF PacksInv, PacksTypeOK
<1> QED BY DEF PacksInv, LinksHold, Link
\* A row joins a pack with a capability or a class, and both are there: nothing that a request
\* read before is inserted after what it refers to has gone.
THEOREM PacksTypesHold == PacksSpec => []PacksTypeOK
<1> QED BY PacksInvTypes, PacksInitInv, PacksNextInv, PTL DEF PacksSpec

\* A pair that is joined by more than one row has two that are not one.
LEMMA DoubledPair ==
    ASSUME NEW links, NEW pair
    PROVE  pair \in Doubled(links) <=> \E l, m \in links : m # l /\ Pair(m) = Pair(l) /\ pair = Pair(l)
BY DEF Doubled
\* No pair is doubled by rows that go.
LEMMA FewerDoubles ==
    ASSUME NEW links, NEW more, links \subseteq more PROVE Doubled(links) \subseteq Doubled(more)
BY DoubledPair

\* The request that doubles a pair.
Doubles(r, pair) ==
    /\ r \in Readers /\ task[r].op # "surface" /\ task'[r] = Over
    /\ \/ pair \in task[r].watch.ever \ task[r].watch.kept
       \/ task[r].op = "clone" /\ <<task[r].pack, pair[2]>> \in Doubled(task[r].read)
LEMMA AssignDoubles ==
    ASSUME PacksInv, NEW r \in PackRequests, AssignCommit(r), NEW pair \in Doubled(link') \ Doubled(link)
    PROVE  Doubles(r, pair)
<1>1. PICK t : t = task[r] OBVIOUS
<1>2. t.op = "assign" /\ AssignHolds(t) /\ WatchHolds(t.watch, link) /\ r \in Readers
  BY <1>1 DEF AssignCommit, Doing, PacksInv, TaskHolds, Reading, Readers
<1>3. PICK n : n = [pack |-> t.pack, to |-> t.to, id |-> <<r>>] OBVIOUS
<1>4. Change(link \cup {n}, Served(r)) BY <1>1, <1>3 DEF AssignCommit
<1>5. link' = link \cup {n} /\ task'[r] = Over BY <1>4 DEF Change, Served, PacksInv
<1>6. PICK l \in link', m \in link' : m # l /\ Pair(m) = Pair(l) /\ pair = Pair(l) BY DoubledPair
<1>7. PICK k \in link : Pair(k) = pair /\ Pair(n) = pair
  <2>1. ~(l \in link /\ m \in link) BY <1>6, DoubledPair
  <2> QED BY <1>5, <1>6, <2>1
<1>8. Pair(n) = <<t.pack, t.to>> BY <1>3 DEF Pair
<1>9. pair \in Pairs(link) \cap t.watch.about BY <1>2, <1>7, <1>8 DEF Pairs, AssignHolds
<1>10. pair \in t.watch.ever \ t.watch.kept BY <1>2, <1>9 DEF WatchHolds, AssignHolds
<1> QED BY <1>1, <1>2, <1>5, <1>10 DEF Doubles
LEMMA CloneDoubles ==
    ASSUME PacksInv, NEW r \in PackRequests, CloneCommit(r), NEW pair \in Doubled(link') \ Doubled(link)
    PROVE  Doubles(r, pair)
<1>1. PICK t : t = task[r] OBVIOUS
<1>2. t.op = "clone" /\ CloneHolds(t) /\ WatchHolds(t.watch, link) /\ r \in Readers
  BY <1>1 DEF CloneCommit, Doing, PacksInv, TaskHolds, Reading, Readers
<1>3. {t.copy} \cup {l.to : l \in t.read} \subseteq Present BY <1>1 DEF CloneCommit
<1>4. PICK ids : Change(link \cup CopiedRows(t, ids), Served(r)) /\ row' = row BY <1>1, <1>3, CloneRows
<1>a. link' = link \cup CopiedRows(t, ids) BY <1>4 DEF Change
<1>5. task'[r] = Over BY <1>4 DEF Change, Served, PacksInv
<1>6. ASSUME NEW n \in link', n \notin link
      PROVE  \E l \in t.read : n = [pack |-> t.copy, to |-> l.to, id |-> ids[l]] /\ Pair(n) = <<t.copy, l.to>>
  <2>1. PICK l \in t.read : n = [pack |-> t.copy, to |-> l.to, id |-> ids[l]] BY <1>a, <1>6 DEF CopiedRows
  <2>2. n.pack = t.copy /\ n.to = l.to BY <2>1
  <2> QED BY <2>1, <2>2 DEF Pair
<1>7. PICK l \in link', m \in link' : m # l /\ Pair(m) = Pair(l) /\ pair = Pair(l) BY DoubledPair
<1>8. ~(l \in link /\ m \in link) BY <1>7, DoubledPair
<1>9. ASSUME NEW n \in link', n \notin link, NEW k \in link, Pair(n) = pair, Pair(k) = pair
      PROVE  pair \in t.watch.ever \ t.watch.kept
  <2>1. PICK x \in Linked : pair = <<t.copy, x>> BY <1>2, <1>6, <1>9 DEF CloneHolds
  <2>2. pair \in Pairs(link) \cap t.watch.about BY <1>2, <1>9, <2>1 DEF Pairs, CloneHolds
  <2> QED BY <1>2, <2>1, <2>2 DEF WatchHolds, CloneHolds
<1>10. ASSUME l \notin link, m \notin link PROVE <<t.pack, pair[2]>> \in Doubled(t.read)
  <2>1. PICK x \in t.read : l = [pack |-> t.copy, to |-> x.to, id |-> ids[x]] /\ Pair(l) = <<t.copy, x.to>>
    BY <1>6, <1>10
  <2>2. PICK y \in t.read : m = [pack |-> t.copy, to |-> y.to, id |-> ids[y]] /\ Pair(m) = <<t.copy, y.to>>
    BY <1>6, <1>10
  <2>3. x # y BY <1>7, <2>1, <2>2
  <2>4. x.to = y.to /\ pair[2] = x.to BY <1>7, <2>1, <2>2
  <2>5. x.pack = t.pack /\ y.pack = t.pack
    <3>1. x = [pack |-> t.pack, to |-> x.to, id |-> x.id] /\ y = [pack |-> t.pack, to |-> y.to, id |-> y.id]
      BY <1>2 DEF CloneHolds
    <3> QED BY <3>1
  <2>6. Pair(x) = <<t.pack, x.to>> /\ Pair(y) = <<t.pack, x.to>> BY <2>4, <2>5 DEF Pair
  <2> QED BY <2>3, <2>4, <2>6, DoubledPair
<1> QED BY <1>1, <1>2, <1>5, <1>7, <1>8, <1>9, <1>10 DEF Doubles

\* Only two kinds of commit add rows.
LEMMA LinksOnlyGrowByCommit ==
    ASSUME PacksInv, [PacksNext]_packsVars, ~(link' \subseteq link)
    PROVE  \E r \in PackRequests : AssignCommit(r) \/ CloneCommit(r)
<1>1. ASSUME NEW x, DeleteRow(x) PROVE link' \subseteq link BY <1>1 DEF DeleteRow, Change
<1>2. ASSUME NEW r \in PackRequests, RemoveCommit(r) PROVE link' \subseteq link BY <1>2 DEF RemoveCommit, Change
<1>3. ~UNCHANGED packsVars /\ link' # link BY DEF packsVars
<1>4. ~CreatePack /\ ~CreateAgentClass BY <1>3 DEF CreatePack, CreateAgentClass, CreateRow
<1>5. ~DeletePack /\ ~DeleteAgentClass BY <1>1 DEF DeletePack, DeleteAgentClass
<1>6. PICK r \in PackRequests : PackStep(r) BY <1>3, <1>4, <1>5 DEF PacksNext, PackStep
<1>7. ~(AssignCapability(r) \/ AssignToClass(r)) BY <1>3 DEF AssignCapability, AssignToClass, AssignLoad
<1>8. ~(RemoveCapability(r) \/ RemoveFromClass(r) \/ RemoveCommit(r))
  BY <1>2, <1>3 DEF RemoveCapability, RemoveFromClass, RemoveLoad
<1>9. ~(Surface(r) \/ Dies(r)) BY <1>3 DEF Surface, SurfaceBegin, SurfaceRead, Dies
<1>10. ASSUME ClonePack(r) PROVE CloneCommit(r) BY <1>3, <1>10 DEF ClonePack, CloneBegin, CloneRead
<1> QED BY <1>6, <1>7, <1>8, <1>9, <1>10 DEF PackStep

\* A pair gets a second row only from a request that found it free and was overtaken, or from a
\* copy of a pair that was doubled in the source.
THEOREM DoublesNeedARace == PacksSpec => DoublesOnlyByRace
<1>1. ASSUME PacksInv, [PacksNext]_packsVars, NEW pair \in Doubled(link') \ Doubled(link)
      PROVE  \E r \in Readers : Doubles(r, pair)
  <2>1. ~(link' \subseteq link) BY <1>1, FewerDoubles
  <2>2. PICK r \in PackRequests : AssignCommit(r) \/ CloneCommit(r) BY <1>1, <2>1, LinksOnlyGrowByCommit
  <2>3. Doubles(r, pair) BY <1>1, <2>2, AssignDoubles, CloneDoubles
  <2> QED BY <2>3 DEF Doubles
<1>2. PacksInv /\ [PacksNext]_packsVars =>
        [\A pair \in Doubled(link') \ Doubled(link) :
          \E r \in Readers :
             /\ task[r].op # "surface" /\ task'[r] = Over
             /\ \/ pair \in task[r].watch.ever \ task[r].watch.kept
                \/ task[r].op = "clone" /\ <<task[r].pack, pair[2]>> \in Doubled(task[r].read)]_packsVars
  BY <1>1 DEF Doubles
<1> QED BY <1>2, PacksInitInv, PacksNextInv, PTL DEF PacksSpec, DoublesOnlyByRace
------------------------------------------------------------------------------
(***************************************************************************)
(* The rate limiters.                                                      *)
(***************************************************************************)
Mark == [key: RateKeys, time: Times]
HttpRow == [asked: Asked, agent: Agents \cup {NoAgent},
            namespace: {NamespaceOf[a] : a \in Agents} \cup {NoAgent}, at: Nat,
            answer: {"none", "served", "unauthorized"} \cup Limiters,
            counted: [Limiters -> Mark \cup {NoAgent}]]
\* What a limiter has let through within its window is in the list of its key.
Remembered(m, r) ==
    LET c == request[r].counted[m] IN
    c # NoAgent /\ now - c.time < RateWindow => [by |-> r, time |-> c.time] \in rates[m][c.key]
PipelineInv ==
    /\ PipelineTypeOK
    /\ request \in [HttpRequests -> HttpRow \cup {NoAgent}]
    /\ rates \in [Limiters -> [RateKeys -> SUBSET Entry]]
    /\ lastCleanup \in [Limiters -> Times]
    /\ \A m \in Limiters, k \in RateKeys : IsFiniteSet(rates[m][k])
    /\ \A m \in Limiters, r \in Sent : Remembered(m, r)
    /\ WindowBounded

LEMMA TimesAreNumbers ==
    /\ Times \subseteq Int /\ CleanEvery + 1 \in Times /\ 0 \in Times /\ RateWindow \in Nat \ {0}
    /\ CleanEvery \in Nat /\ Ticks \in Nat
    /\ \A m \in Limiters : Limit[m] \in Nat \ {0}
<1>1. CleanEvery \in Nat /\ Ticks \in Nat /\ RateWindow \in Nat \ {0} BY PipelineAssumption
<1>2. \A m \in Limiters : Limit[m] \in Nat \ {0} BY PipelineAssumption DEF Limiters
<1> QED BY <1>1, <1>2 DEF Times

LEMMA RequestsAreFinite == IsFiniteSet(HttpRequests)
<1>1. MaxRequests \in Nat BY PipelineAssumption
<1> QED BY <1>1, FS_Interval DEF HttpRequests

LEMMA PipelineInitInv == PipelineInit => PipelineInv
<1> SUFFICES ASSUME PipelineInit PROVE PipelineInv OBVIOUS
<1>1. now \in Times /\ request = [r \in HttpRequests |-> NoAgent] /\ Sent = {}
  BY TimesAreNumbers DEF PipelineInit, Sent
<1>2. /\ rates = [m \in Limiters |-> [k \in RateKeys |-> {}]] /\ lastCleanup = [m \in Limiters |-> 0]
      /\ 0 \in Times
  BY TimesAreNumbers DEF PipelineInit
<1>3. rates \in [Limiters -> [RateKeys -> SUBSET Entry]] /\ lastCleanup \in [Limiters -> Times] BY <1>2
<1>4. \A m \in Limiters, k \in RateKeys : IsFiniteSet(rates[m][k]) /\ Cardinality(rates[m][k]) <= Limit[m]
  BY <1>2, FS_EmptySet, TimesAreNumbers
<1>5. PipelineTypeOK BY <1>1, <1>3, <1>4 DEF PipelineTypeOK
<1>6. WindowBounded
  <2>1. \A m \in Limiters, k \in RateKeys, t \in Times : LetThrough(m, k, t) = {} BY <1>1 DEF LetThrough
  <2> QED BY <2>1, FS_EmptySet, TimesAreNumbers DEF WindowBounded
<1> QED BY <1>1, <1>3, <1>4, <1>5, <1>6 DEF PipelineInv

\* One more element.
LEMMA OneMore ==
    ASSUME NEW S, IsFiniteSet(S), NEW x, NEW n \in Nat, Cardinality(S) < n
    PROVE  IsFiniteSet(S \cup {x}) /\ Cardinality(S \cup {x}) <= n
<1>1. Cardinality(S) \in Nat BY FS_CardinalityType
<1>2. /\ IsFiniteSet(S \cup {x})
      /\ Cardinality(S \cup {x}) = IF x \in S THEN Cardinality(S) ELSE Cardinality(S) + 1
  BY FS_AddElement
<1> QED BY <1>1, <1>2

\* What a limiter let through is among the requests, so the sets that are counted are finite.
LEMMA LetThroughIsFinite == ASSUME NEW m, NEW k, NEW t PROVE IsFiniteSet(LetThrough(m, k, t))
<1>1. LetThrough(m, k, t) \subseteq HttpRequests BY DEF LetThrough, Sent
<1> QED BY <1>1, RequestsAreFinite, FS_Subset

\* A step that puts no mark on a request: what was let through stays what it was.
LEMMA NoMarks ==
    ASSUME PipelineInv, PipelineTypeOK', request' \in [HttpRequests -> HttpRow \cup {NoAgent}],
           rates' \in [Limiters -> [RateKeys -> SUBSET Entry]], lastCleanup' \in [Limiters -> Times],
           \A m \in Limiters, k \in RateKeys : IsFiniteSet(rates'[m][k]),
           \A r \in Sent' : \/ r \in Sent /\ request'[r].counted = request[r].counted
                            \/ \A m \in Limiters : request'[r].counted[m] = NoAgent,
           now' \in Times, now <= now',
           \A m \in Limiters, k \in RateKeys : \A e \in rates[m][k] : now' - e.time < RateWindow => e \in rates'[m][k]
    PROVE  PipelineInv'
<1>1. ASSUME NEW m \in Limiters, NEW r \in Sent' PROVE Remembered(m, r)'
  <2> SUFFICES ASSUME request'[r].counted[m] # NoAgent, now' - request'[r].counted[m].time < RateWindow
               PROVE  [by |-> r, time |-> request'[r].counted[m].time] \in rates'[m][request'[r].counted[m].key]
    BY DEF Remembered
  <2>1. r \in Sent /\ request'[r].counted = request[r].counted OBVIOUS
  <2>2. PICK c : c = request[r].counted[m] OBVIOUS
  <2>3. request[r] \in HttpRow BY <2>1 DEF PipelineInv, Sent
  <2>4. c \in Mark BY <2>1, <2>2, <2>3 DEF HttpRow
  <2>5. c.key \in RateKeys /\ c.time \in Int /\ now \in Int /\ now' \in Int
    BY <2>4, TimesAreNumbers DEF Mark, PipelineInv, PipelineTypeOK
  <2>6. now - c.time < RateWindow BY <2>1, <2>2, <2>5, TimesAreNumbers
  <2>7. [by |-> r, time |-> c.time] \in rates[m][c.key] BY <2>1, <2>2, <2>6 DEF PipelineInv, Remembered
  <2>8. PICK e : e = [by |-> r, time |-> c.time] OBVIOUS
  <2>9. e \in rates[m][c.key] /\ now' - e.time < RateWindow BY <2>1, <2>2, <2>7, <2>8
  <2>10. e \in rates'[m][c.key] BY <2>5, <2>9
  <2> QED BY <2>1, <2>2, <2>8, <2>10
<1>2. ASSUME NEW m \in Limiters, NEW k \in RateKeys, NEW t \in Times
      PROVE  Cardinality(LetThrough(m, k, t)') <= Limit[m]
  <2>1. LetThrough(m, k, t)' \subseteq LetThrough(m, k, t)
    <3> SUFFICES ASSUME NEW r \in Sent', request'[r].counted[m] # NoAgent
                 PROVE  r \in Sent /\ request'[r].counted = request[r].counted
      BY DEF LetThrough
    <3> QED OBVIOUS
  <2>2. IsFiniteSet(LetThrough(m, k, t)) /\ Cardinality(LetThrough(m, k, t)) <= Limit[m]
    BY LetThroughIsFinite DEF PipelineInv, WindowBounded
  <2>3. IsFiniteSet(LetThrough(m, k, t)') /\ Cardinality(LetThrough(m, k, t)') <= Cardinality(LetThrough(m, k, t))
    BY <2>1, <2>2, FS_Subset
  <2> QED BY <2>2, <2>3, FS_CardinalityType, TimesAreNumbers
<1> QED BY <1>1, <1>2 DEF PipelineInv, WindowBounded

LEMMA TypesOfParts ==
    ASSUME now' \in Times, lastCleanup' \in [Limiters -> Times], rates' \in [Limiters -> [RateKeys -> SUBSET Entry]],
           \A m \in Limiters, k \in RateKeys : Cardinality(rates'[m][k]) <= Limit[m],
           \A r \in Sent' : request'[r].agent \in {request'[r].asked.token, NoAgent}
    PROVE  PipelineTypeOK'
BY DEF PipelineTypeOK

LEMMA TimeHolds == ASSUME PipelineInv, TimeGoesOn PROVE PipelineInv'
<1>1. now' \in Times /\ now <= now'
  BY TimesAreNumbers DEF TimeGoesOn, PipelineInv, PipelineTypeOK, Times
<1>2. UNCHANGED <<request, rates, lastCleanup>> /\ Sent' = Sent BY DEF TimeGoesOn, Sent
<1>3. PipelineTypeOK' BY <1>1, <1>2 DEF PipelineInv, PipelineTypeOK
<1> QED BY <1>1, <1>2, <1>3, NoMarks DEF PipelineInv

\* A step of one request that the limiters do not count.
LEMMA RequestGoesOn ==
    ASSUME PipelineInv, NEW r \in HttpRequests, NEW q \in HttpRow, request' = [request EXCEPT ![r] = q],
           UNCHANGED <<now, rates, lastCleanup>>, q.agent \in {q.asked.token, NoAgent},
           \/ r \in Sent /\ q.counted = request[r].counted
           \/ \A m \in Limiters : q.counted[m] = NoAgent
    PROVE  PipelineInv'
<1>1. \A s \in HttpRequests : request'[s] = IF s = r THEN q ELSE request[s] BY DEF PipelineInv
<1>2. request' \in [HttpRequests -> HttpRow \cup {NoAgent}] BY DEF PipelineInv
<1>3. \A s \in Sent' : s \in HttpRequests /\ (s # r => s \in Sent) BY <1>1 DEF Sent
<1>4. PipelineTypeOK'
  <2>1. \A s \in Sent' : request'[s].agent \in {request'[s].asked.token, NoAgent}
    BY <1>1, <1>3 DEF PipelineInv, PipelineTypeOK
  <2> QED BY <2>1, TypesOfParts DEF PipelineInv, PipelineTypeOK
<1>5. \A s \in Sent' : \/ s \in Sent /\ request'[s].counted = request[s].counted
                       \/ \A m \in Limiters : request'[s].counted[m] = NoAgent
  BY <1>1, <1>3
<1>6. now' \in Times /\ now <= now' BY TimesAreNumbers DEF PipelineInv, PipelineTypeOK
<1> QED BY <1>2, <1>4, <1>5, <1>6, NoMarks DEF PipelineInv

\* What a request is after it passes keeps its marks.
LEMMA PassesOn ==
    ASSUME NEW r, NEW q \in HttpRow, Passes(r, q)
    PROVE  \E p \in HttpRow : /\ request' = [request EXCEPT ![r] = p]
                              /\ p.counted = q.counted /\ p.agent = q.agent /\ p.asked = q.asked
<1>1. PICK p : p = IF q.at < Len(Order) THEN [q EXCEPT !.at = @ + 1] ELSE [q EXCEPT !.answer = "served"] OBVIOUS
<1>2. request' = [request EXCEPT ![r] = p] BY <1>1 DEF Passes
<1>3. q.at + 1 \in Nat BY DEF HttpRow
<1>4. CASE q.at < Len(Order)
  <2>1. p = [q EXCEPT !.at = q.at + 1] BY <1>1, <1>4
  <2>2. p \in HttpRow BY <1>3, <2>1 DEF HttpRow
  <2>3. p.counted = q.counted /\ p.agent = q.agent /\ p.asked = q.asked BY <2>1 DEF HttpRow
  <2> QED BY <1>2, <2>2, <2>3
<1>5. CASE ~(q.at < Len(Order))
  <2>1. p = [q EXCEPT !.answer = "served"] BY <1>1, <1>5
  <2>2. p \in HttpRow BY <2>1 DEF HttpRow
  <2>3. p.counted = q.counted /\ p.agent = q.agent /\ p.asked = q.asked BY <2>1 DEF HttpRow
  <2> QED BY <1>2, <2>2, <2>3
<1> QED BY <1>4, <1>5

LEMMA TurnedAwayOn ==
    ASSUME PipelineInv, NEW r \in Sent, NEW answer \in {"unauthorized"} \cup Limiters, TurnedAway(r, answer)
    PROVE  \E p \in HttpRow : /\ request' = [request EXCEPT ![r] = p]
                              /\ p.counted = request[r].counted /\ p.agent = request[r].agent
                              /\ p.asked = request[r].asked
<1>1. PICK q : q = request[r] OBVIOUS
<1>2. q \in HttpRow BY <1>1 DEF PipelineInv, Sent
<1>3. PICK p : p = [q EXCEPT !.answer = answer] OBVIOUS
<1>4. p \in HttpRow /\ p.counted = q.counted /\ p.agent = q.agent /\ p.asked = q.asked BY <1>2, <1>3 DEF HttpRow
<1>5. request' = [request EXCEPT ![r] = p] BY <1>1, <1>3 DEF TurnedAway
<1> QED BY <1>1, <1>4, <1>5

LEMMA ArriveHolds == ASSUME PipelineInv, NEW r \in HttpRequests, NEW asked \in Asked, Arrive(r, asked) PROVE PipelineInv'
<1>1. PICK counted : counted = [m \in Limiters |-> NoAgent] OBVIOUS
<1>2. PICK q : q = [asked |-> asked, agent |-> NoAgent, namespace |-> NoAgent, at |-> 1, answer |-> "none", counted |-> counted]
  OBVIOUS
<1>3. counted \in [Limiters -> Mark \cup {NoAgent}] BY <1>1
<1>4. q \in HttpRow BY <1>2, <1>3 DEF HttpRow
<1>5. q.agent = NoAgent /\ q.counted = counted BY <1>2
<1>6. request' = [request EXCEPT ![r] = q] /\ UNCHANGED <<now, rates, lastCleanup>> BY <1>1, <1>2 DEF Arrive
<1> QED BY <1>1, <1>4, <1>5, <1>6, RequestGoesOn

LEMMA AuthHolds == ASSUME PipelineInv, NEW r \in HttpRequests, Auth(r) \/ Tenant(r) PROVE PipelineInv'
<1>1. PICK q : q = request[r] OBVIOUS
<1>2. r \in Sent BY DEF Auth, Tenant, Meets, InFlight
<1>3. q \in HttpRow /\ q.agent \in {q.asked.token, NoAgent} BY <1>1, <1>2 DEF PipelineInv, PipelineTypeOK, Sent
<1>4. q.asked.token \in Agents \cup {NoAgent} BY <1>3 DEF HttpRow, Asked
<1>5. ASSUME NEW p \in HttpRow, Passes(r, p), p.counted = q.counted, p.agent \in {p.asked.token, NoAgent},
             UNCHANGED <<now, rates, lastCleanup>>
      PROVE  PipelineInv'
  <2>1. PICK s \in HttpRow : /\ request' = [request EXCEPT ![r] = s]
                             /\ s.counted = p.counted /\ s.agent = p.agent /\ s.asked = p.asked
    BY <1>5, PassesOn
  <2> QED BY <1>1, <1>2, <1>5, <2>1, RequestGoesOn
<1>6. ASSUME TurnedAway(r, "unauthorized"), UNCHANGED <<now, rates, lastCleanup>> PROVE PipelineInv'
  <2>1. PICK s \in HttpRow : /\ request' = [request EXCEPT ![r] = s]
                             /\ s.counted = q.counted /\ s.agent = q.agent /\ s.asked = q.asked
    BY <1>1, <1>2, <1>6, TurnedAwayOn
  <2> QED BY <1>1, <1>2, <1>3, <1>6, <2>1, RequestGoesOn
<1>7. CASE Auth(r)
  <2>0. UNCHANGED <<now, rates, lastCleanup>> BY <1>7 DEF Auth
  <2>1. CASE q.asked.path \in HealthPaths \cup OpenPaths
    <3>1. Passes(r, q) BY <1>1, <1>7, <2>1 DEF Auth
    <3> QED BY <1>3, <1>5, <2>0, <3>1
  <2>2. CASE q.asked.path \notin HealthPaths \cup OpenPaths /\ q.asked.token = NoAgent
    <3>1. TurnedAway(r, "unauthorized") BY <1>1, <1>7, <2>2 DEF Auth
    <3> QED BY <1>6, <2>0, <3>1
  <2>3. CASE q.asked.path \notin HealthPaths \cup OpenPaths /\ q.asked.token # NoAgent
    <3>1. Passes(r, [q EXCEPT !.agent = q.asked.token]) BY <1>1, <1>7, <2>3 DEF Auth
    <3>2. PICK p : p = [q EXCEPT !.agent = q.asked.token] OBVIOUS
    <3>3. p \in HttpRow /\ p.counted = q.counted /\ p.agent = q.asked.token /\ p.asked = q.asked
      BY <1>3, <1>4, <3>2 DEF HttpRow
    <3> QED BY <1>5, <2>0, <3>1, <3>2, <3>3
  <2> QED BY <2>1, <2>2, <2>3
<1>8. CASE Tenant(r)
  <2>0. UNCHANGED <<now, rates, lastCleanup>> BY <1>8 DEF Tenant
  <2>1. CASE q.asked.path \in HealthPaths \/ q.agent = NoAgent
    <3>1. Passes(r, q) BY <1>1, <1>8, <2>1 DEF Tenant
    <3> QED BY <1>3, <1>5, <2>0, <3>1
  <2>2. CASE ~(q.asked.path \in HealthPaths \/ q.agent = NoAgent)
    <3>1. Passes(r, [q EXCEPT !.namespace = NamespaceOf[q.agent]]) BY <1>1, <1>8, <2>2 DEF Tenant
    <3>2. PICK p : p = [q EXCEPT !.namespace = NamespaceOf[q.agent]] OBVIOUS
    <3>3. q.agent \in Agents BY <1>3, <2>2 DEF HttpRow
    <3>4. p \in HttpRow /\ p.counted = q.counted /\ p.agent = q.agent /\ p.asked = q.asked
      BY <1>3, <3>2, <3>3 DEF HttpRow
    <3> QED BY <1>3, <1>5, <2>0, <3>1, <3>2, <3>4
  <2> QED BY <2>1, <2>2
<1> QED BY <1>7, <1>8

\* The clean-up drops nothing of the window, and what is left is no longer than before.
LEMMA CleanUpKeepsTheWindow ==
    ASSUME PipelineInv, NEW m \in Limiters
    PROVE  /\ Cleaned(m) \in [RateKeys -> SUBSET Entry]
           /\ \A k \in RateKeys : /\ Cleaned(m)[k] \subseteq rates[m][k] /\ IsFiniteSet(Cleaned(m)[k])
                                  /\ Cardinality(Cleaned(m)[k]) <= Limit[m]
                                  /\ \A e \in rates[m][k] : now - e.time < RateWindow => e \in Cleaned(m)[k]
<1>0. rates[m] \in [RateKeys -> SUBSET Entry] /\ now \in Int BY TimesAreNumbers DEF PipelineInv, PipelineTypeOK
<1>1. Cleaned(m) \in [RateKeys -> SUBSET Entry] BY <1>0 DEF Cleaned
<1>2. ASSUME NEW k \in RateKeys
      PROVE  /\ Cleaned(m)[k] \subseteq rates[m][k] /\ IsFiniteSet(Cleaned(m)[k])
             /\ Cardinality(Cleaned(m)[k]) <= Limit[m]
             /\ \A e \in rates[m][k] : now - e.time < RateWindow => e \in Cleaned(m)[k]
  <2>1. CASE Cleaned(m)[k] = rates[m][k] BY <2>1 DEF PipelineInv, PipelineTypeOK
  <2>2. CASE Cleaned(m)[k] # rates[m][k]
    <3>1. Cleaned(m)[k] = {} /\ Stale(rates[m][k]) BY <1>0, <2>2 DEF Cleaned
    <3>2. ASSUME NEW e \in rates[m][k] PROVE ~(now - e.time < RateWindow)
      <4>0. e \in Entry BY <1>0
      <4>1. e.time \in Int BY <4>0, TimesAreNumbers DEF Entry
      <4>2. now - e.time > RateWindow BY <3>1 DEF Stale
      <4> QED BY <1>0, <4>1, <4>2, TimesAreNumbers
    <3> QED BY <3>1, <3>2, FS_EmptySet, TimesAreNumbers
  <2> QED BY <2>1, <2>2
<1> QED BY <1>1, <1>2

\* The steps of a limiter that let nothing through.
LEMMA LimiterRefuses ==
    ASSUME PipelineInv, NEW r \in HttpRequests, NEW m \in Limiters, Limits(r, m),
           request[r].asked.path \notin HealthPaths,
           Cardinality(InWindowOf(Cleaned(m)[KeyOf(m, request[r])])) >= Limit[m]
    PROVE  PipelineInv'
<1>1. r \in Sent BY DEF Limits, Meets, InFlight
<1>2. /\ TurnedAway(r, m) /\ rates' = [rates EXCEPT ![m] = Cleaned(m)] /\ now' = now
      /\ lastCleanup' = [lastCleanup EXCEPT ![m] = IF now - @ > CleanEvery THEN now ELSE @]
  BY DEF Limits
<1>3. PICK p \in HttpRow : /\ request' = [request EXCEPT ![r] = p]
                           /\ p.counted = request[r].counted /\ p.agent = request[r].agent
                           /\ p.asked = request[r].asked
  BY <1>1, <1>2, TurnedAwayOn
<1>4. now' \in Times /\ now <= now' BY <1>2, TimesAreNumbers DEF PipelineInv, PipelineTypeOK
<1>5. lastCleanup' \in [Limiters -> Times] BY <1>2, <1>4 DEF PipelineInv
<1>6. /\ rates' \in [Limiters -> [RateKeys -> SUBSET Entry]]
      /\ \A n \in Limiters : rates'[n] = IF n = m THEN Cleaned(m) ELSE rates[n]
  BY <1>2, CleanUpKeepsTheWindow DEF PipelineInv
<1>7. \A n \in Limiters, k \in RateKeys : IsFiniteSet(rates'[n][k]) /\ Cardinality(rates'[n][k]) <= Limit[n]
  BY <1>6, CleanUpKeepsTheWindow DEF PipelineInv, PipelineTypeOK
<1>8. \A s \in HttpRequests : request'[s] = IF s = r THEN p ELSE request[s] BY <1>3 DEF PipelineInv
<1>9. request' \in [HttpRequests -> HttpRow \cup {NoAgent}] BY <1>3 DEF PipelineInv
<1>10. \A s \in Sent' : s \in Sent BY <1>1, <1>8 DEF Sent
<1>11. \A s \in Sent' : request'[s].counted = request[s].counted /\ request'[s].agent \in {request'[s].asked.token, NoAgent}
  BY <1>3, <1>8, <1>10 DEF PipelineInv, PipelineTypeOK, Sent
<1>12. PipelineTypeOK' BY <1>4, <1>5, <1>6, <1>7, <1>11, TypesOfParts
<1>13. \A n \in Limiters, k \in RateKeys : \A e \in rates[n][k] : now' - e.time < RateWindow => e \in rates'[n][k]
  BY <1>2, <1>6, CleanUpKeepsTheWindow
<1> QED BY <1>4, <1>5, <1>6, <1>7, <1>9, <1>10, <1>11, <1>12, <1>13, NoMarks

\* A limiter lets a request through: the window that ends now held fewer than the limit.
LEMMA LimiterLetsThrough ==
    ASSUME PipelineInv, NEW r \in HttpRequests, NEW m \in Limiters, Limits(r, m),
           request[r].asked.path \notin HealthPaths,
           ~(Cardinality(InWindowOf(Cleaned(m)[KeyOf(m, request[r])])) >= Limit[m])
    PROVE  PipelineInv'
<1>1. PICK q : q = request[r] OBVIOUS
<1>2. r \in Sent BY DEF Limits, Meets, InFlight
<1>3. q \in HttpRow /\ q.agent \in {q.asked.token, NoAgent} BY <1>1, <1>2 DEF PipelineInv, PipelineTypeOK, Sent
<1>4. PICK k, times : k = KeyOf(m, q) /\ times = InWindowOf(Cleaned(m)[k]) OBVIOUS
<1>5. k \in RateKeys
  <2>1. q.asked.client \in Clients /\ q.asked.path \in Paths /\ q.agent \in Agents \cup {NoAgent}
    BY <1>3 DEF HttpRow, Asked
  <2> QED BY <1>4, <2>1 DEF KeyOf, RateKeys
<1>6. PICK mark, e : mark = [key |-> k, time |-> now] /\ e = [by |-> r, time |-> now] OBVIOUS
<1>7. now \in Times /\ now \in Int BY TimesAreNumbers DEF PipelineInv, PipelineTypeOK
<1>8. mark \in Mark /\ mark.key = k /\ mark.time = now /\ e \in Entry BY <1>5, <1>6, <1>7 DEF Mark, Entry
<1>9. /\ Passes(r, [q EXCEPT !.counted[m] = mark]) /\ now' = now
      /\ rates' = [rates EXCEPT ![m] = [Cleaned(m) EXCEPT ![k] = times \cup {e}]]
      /\ lastCleanup' = [lastCleanup EXCEPT ![m] = IF now - @ > CleanEvery THEN now ELSE @]
  BY <1>1, <1>4, <1>6 DEF Limits
<1>10. PICK marked : marked = [q EXCEPT !.counted[m] = mark] OBVIOUS
<1>11. /\ marked \in HttpRow /\ marked.agent = q.agent /\ marked.asked = q.asked
       /\ \A n \in Limiters : marked.counted[n] = IF n = m THEN mark ELSE q.counted[n]
  <2>1. q.counted \in [Limiters -> Mark \cup {NoAgent}] BY <1>3 DEF HttpRow
  <2>2. PICK counted : counted = [q.counted EXCEPT ![m] = mark] OBVIOUS
  <2>3. counted \in [Limiters -> Mark \cup {NoAgent}] /\ \A n \in Limiters : counted[n] = IF n = m THEN mark ELSE q.counted[n]
    BY <1>8, <2>1, <2>2
  <2>4. marked = [q EXCEPT !.counted = counted] BY <1>10, <2>2
  <2> QED BY <1>3, <2>3, <2>4 DEF HttpRow
<1>12. PICK p \in HttpRow : /\ request' = [request EXCEPT ![r] = p]
                            /\ p.counted = marked.counted /\ p.agent = q.agent /\ p.asked = q.asked
  <2>1. Passes(r, marked) BY <1>9, <1>10
  <2>2. PICK p \in HttpRow : /\ request' = [request EXCEPT ![r] = p]
                            /\ p.counted = marked.counted /\ p.agent = marked.agent /\ p.asked = marked.asked
    BY <1>11, <2>1, PassesOn
  <2> QED BY <1>11, <2>2
<1>13. \A s \in HttpRequests : request'[s] = IF s = r THEN p ELSE request[s] BY <1>12 DEF PipelineInv
<1>14. request' \in [HttpRequests -> HttpRow \cup {NoAgent}] BY <1>12 DEF PipelineInv
<1>15. \A s \in Sent' : s \in Sent BY <1>2, <1>13 DEF Sent
\* The lists.
<1>16. /\ Cleaned(m)[k] \subseteq Entry /\ IsFiniteSet(Cleaned(m)[k]) /\ times \subseteq Cleaned(m)[k]
  BY <1>4, <1>5, CleanUpKeepsTheWindow DEF InWindowOf
<1>17. IsFiniteSet(times) /\ Cardinality(times) \in Nat /\ Cardinality(times) < Limit[m]
  <2>1. IsFiniteSet(times) BY <1>16, FS_Subset
  <2>2. Cardinality(times) \in Nat BY <2>1, FS_CardinalityType
  <2>3. ~(Cardinality(times) >= Limit[m]) BY <1>1, <1>4
  <2> QED BY <2>1, <2>2, <2>3, TimesAreNumbers
<1>18. IsFiniteSet(times \cup {e}) /\ Cardinality(times \cup {e}) <= Limit[m]
  BY <1>17, OneMore, TimesAreNumbers
<1>19. times \cup {e} \in SUBSET Entry BY <1>8, <1>16
<1>20. ASSUME NEW n \in Limiters, NEW l \in RateKeys
       PROVE  rates'[n][l] = IF n = m THEN IF l = k THEN times \cup {e} ELSE Cleaned(m)[l] ELSE rates[n][l]
  BY <1>5, <1>9, CleanUpKeepsTheWindow DEF PipelineInv
<1>21. rates' \in [Limiters -> [RateKeys -> SUBSET Entry]]
  <2>1. [Cleaned(m) EXCEPT ![k] = times \cup {e}] \in [RateKeys -> SUBSET Entry]
    BY <1>19, CleanUpKeepsTheWindow
  <2> QED BY <1>9, <2>1 DEF PipelineInv
<1>22. ASSUME NEW n \in Limiters, NEW l \in RateKeys
       PROVE  IsFiniteSet(rates'[n][l]) /\ Cardinality(rates'[n][l]) <= Limit[n]
  <2>1. CASE n = m /\ l = k BY <1>18, <1>20, <2>1
  <2>2. CASE n = m /\ l # k BY <1>20, <2>2, CleanUpKeepsTheWindow
  <2>3. CASE n # m BY <1>20, <2>3 DEF PipelineInv, PipelineTypeOK
  <2> QED BY <2>1, <2>2, <2>3
<1>23. ASSUME NEW n \in Limiters, NEW l \in RateKeys, NEW x \in rates[n][l], now - x.time < RateWindow
       PROVE  x \in rates'[n][l]
  <2>1. CASE n = m
    <3>1. x \in Cleaned(m)[l] BY <1>23, <2>1, CleanUpKeepsTheWindow
    <3> QED BY <1>4, <1>20, <1>23, <2>1, <3>1 DEF InWindowOf
  <2>2. CASE n # m BY <1>20, <1>23, <2>2
  <2> QED BY <2>1, <2>2
<1>24. lastCleanup' \in [Limiters -> Times] BY <1>7, <1>9 DEF PipelineInv
<1>25. PipelineTypeOK'
  <2>1. \A s \in Sent' : request'[s].agent \in {request'[s].asked.token, NoAgent}
    BY <1>3, <1>12, <1>13, <1>15 DEF PipelineInv, PipelineTypeOK, Sent
  <2> QED BY <1>7, <1>9, <1>21, <1>22, <1>24, <2>1, TypesOfParts
\* Every mark but the new one was there.
<1>26. ASSUME NEW n \in Limiters, NEW s \in Sent', ~(n = m /\ s = r)
       PROVE  s \in Sent /\ request'[s].counted[n] = request[s].counted[n]
  BY <1>1, <1>11, <1>12, <1>13, <1>15, <1>26 DEF Sent
<1>27. r \in Sent' => request'[r].counted[m] = mark BY <1>11, <1>12, <1>13
<1>28. ASSUME NEW n \in Limiters, NEW s \in Sent' PROVE Remembered(n, s)'
  <2> SUFFICES ASSUME request'[s].counted[n] # NoAgent, now' - request'[s].counted[n].time < RateWindow
               PROVE  [by |-> s, time |-> request'[s].counted[n].time] \in rates'[n][request'[s].counted[n].key]
    BY DEF Remembered
  <2>1. CASE n = m /\ s = r
    <3>1. request'[s].counted[n] = mark BY <1>27, <2>1
    <3> QED BY <1>5, <1>6, <1>8, <1>20, <2>1, <3>1
  <2>2. CASE ~(n = m /\ s = r)
    <3>1. PICK c : c = request[s].counted[n] OBVIOUS
    <3>2. s \in Sent /\ request'[s].counted[n] = c BY <1>26, <2>2, <3>1
    <3>3. c \in Mark BY <3>1, <3>2 DEF PipelineInv, Sent, HttpRow
    <3>4. PICK x : x = [by |-> s, time |-> c.time] OBVIOUS
    <3>5. x \in rates[n][c.key] BY <1>9, <3>1, <3>2, <3>4 DEF PipelineInv, Remembered
    <3>6. x.time = c.time /\ c.key \in RateKeys BY <3>3, <3>4 DEF Mark
    <3>7. x \in rates'[n][c.key] BY <1>9, <1>23, <3>2, <3>5, <3>6
    <3> QED BY <3>2, <3>4, <3>7
  <2> QED BY <2>1, <2>2
\* The window that ends at t held what is in the list, and now holds one more at most.
<1>29. ASSUME NEW t \in Times, now <= t, t - now < RateWindow
       PROVE  Cardinality(LetThrough(m, k, t)) <= Cardinality(times)
  <2> DEFINE S == LetThrough(m, k, t)
             f == [s \in S |-> [by |-> s, time |-> request[s].counted[m].time]]
  <2>1. ASSUME NEW s \in S PROVE [by |-> s, time |-> request[s].counted[m].time] \in times
    <3>1. PICK c : c = request[s].counted[m] OBVIOUS
    <3>2. s \in Sent /\ c # NoAgent /\ c.key = k /\ c.time <= t /\ t - c.time < RateWindow
      BY <3>1 DEF LetThrough
    <3>3. c \in Mark BY <3>1, <3>2 DEF PipelineInv, Sent, HttpRow
    <3>4. c.time \in Int /\ t \in Int BY <3>3, TimesAreNumbers DEF Mark
    <3>5. now - c.time < RateWindow BY <1>7, <1>29, <3>2, <3>4, TimesAreNumbers
    <3>6. PICK x : x = [by |-> s, time |-> c.time] OBVIOUS
    <3>7. x \in rates[m][k] BY <3>1, <3>2, <3>5, <3>6 DEF PipelineInv, Remembered
    <3>8. x.time = c.time BY <3>6
    <3>9. x \in Cleaned(m)[k] BY <1>5, <3>5, <3>7, <3>8, CleanUpKeepsTheWindow
    <3>10. x \in times BY <1>4, <3>5, <3>8, <3>9 DEF InWindowOf
    <3> QED BY <3>1, <3>6, <3>10
  <2>2. \A s \in S : f[s].by = s OBVIOUS
  <2>3. f \in Injection(S, times)
    <3>1. f \in [S -> times] BY <2>1
    <3>2. \A a, b \in S : f[a] = f[b] => a = b BY <2>2
    <3> HIDE DEF f
    <3> QED BY <3>1, <3>2 DEF Injection, IsInjective
  <2> QED BY <1>17, <2>3, FS_Injection
<1>30. ASSUME NEW n \in Limiters, NEW l \in RateKeys, NEW t \in Times
       PROVE  Cardinality(LetThrough(n, l, t)') <= Limit[n]
  <2>0. /\ IsFiniteSet(LetThrough(n, l, t)) /\ Cardinality(LetThrough(n, l, t)) \in Nat
        /\ Cardinality(LetThrough(n, l, t)) <= Limit[n]
    BY LetThroughIsFinite, FS_CardinalityType DEF PipelineInv, WindowBounded
  <2>1. CASE n = m /\ l = k /\ now <= t /\ t - now < RateWindow
    <3>1. LetThrough(n, l, t)' \subseteq LetThrough(n, l, t) \cup {r}
      BY <1>26 DEF LetThrough
    <3>2. Cardinality(LetThrough(n, l, t)) < Limit[n] BY <1>17, <1>29, <2>0, <2>1, TimesAreNumbers
    <3>3. /\ IsFiniteSet(LetThrough(n, l, t) \cup {r})
          /\ Cardinality(LetThrough(n, l, t) \cup {r}) <= Limit[n]
      BY <2>0, <3>2, OneMore, TimesAreNumbers
    <3>4. PICK T : T = LetThrough(n, l, t)' OBVIOUS
    <3>5. IsFiniteSet(T) /\ Cardinality(T) <= Cardinality(LetThrough(n, l, t) \cup {r})
      BY <3>1, <3>3, <3>4, FS_Subset
    <3> QED BY <3>3, <3>4, <3>5, FS_CardinalityType, TimesAreNumbers
  <2>2. CASE ~(n = m /\ l = k /\ now <= t /\ t - now < RateWindow)
    <3>1. LetThrough(n, l, t)' \subseteq LetThrough(n, l, t)
      <4> SUFFICES ASSUME NEW s \in Sent', request'[s].counted[n] # NoAgent, request'[s].counted[n].key = l,
                          request'[s].counted[n].time <= t, t - request'[s].counted[n].time < RateWindow
                   PROVE  s \in LetThrough(n, l, t)
        BY DEF LetThrough
      <4>1. ~(n = m /\ s = r) BY <1>8, <1>27, <2>2
      <4> QED BY <1>26, <4>1 DEF LetThrough
    <3>2. PICK T : T = LetThrough(n, l, t)' OBVIOUS
    <3>3. IsFiniteSet(T) /\ Cardinality(T) <= Cardinality(LetThrough(n, l, t)) BY <2>0, <3>1, <3>2, FS_Subset
    <3> QED BY <2>0, <3>2, <3>3, FS_CardinalityType, TimesAreNumbers
  <2> QED BY <2>1, <2>2
<1> QED BY <1>14, <1>21, <1>22, <1>24, <1>25, <1>28, <1>30 DEF PipelineInv, WindowBounded

LEMMA LimitsHold == ASSUME PipelineInv, NEW r \in HttpRequests, NEW m \in Limiters, Limits(r, m) PROVE PipelineInv'
<1>1. CASE request[r].asked.path \in HealthPaths
  <2>1. r \in Sent BY DEF Limits, Meets, InFlight
  <2>2. request[r] \in HttpRow /\ request[r].agent \in {request[r].asked.token, NoAgent}
    BY <2>1 DEF PipelineInv, PipelineTypeOK, Sent
  <2>3. Passes(r, request[r]) /\ UNCHANGED <<now, rates, lastCleanup>> BY <1>1 DEF Limits
  <2>4. PICK p \in HttpRow : /\ request' = [request EXCEPT ![r] = p] /\ p.counted = request[r].counted
                             /\ p.agent = request[r].agent /\ p.asked = request[r].asked
    BY <2>2, <2>3, PassesOn
  <2> QED BY <2>1, <2>2, <2>3, <2>4, RequestGoesOn
<1>2. CASE request[r].asked.path \notin HealthPaths
  BY <1>2, LimiterRefuses, LimiterLetsThrough
<1> QED BY <1>1, <1>2

LEMMA PipelineNextInv == PipelineInv /\ [PipelineNext]_pipelineVars => PipelineInv'
<1> SUFFICES ASSUME PipelineInv, [PipelineNext]_pipelineVars PROVE PipelineInv' OBVIOUS
<1>1. CASE UNCHANGED pipelineVars
  <2>1. UNCHANGED <<now, request, rates, lastCleanup>> /\ Sent' = Sent BY <1>1 DEF pipelineVars, Sent
  <2>2. PipelineTypeOK' BY <2>1 DEF PipelineInv, PipelineTypeOK
  <2>3. now' \in Times /\ now <= now' BY <2>1, TimesAreNumbers DEF PipelineInv, PipelineTypeOK
  <2> QED BY <2>1, <2>2, <2>3, NoMarks DEF PipelineInv
<1>2. CASE TimeGoesOn BY <1>2, TimeHolds
<1>3. ASSUME NEW r \in HttpRequests, NEW asked \in Asked, Arrive(r, asked) PROVE PipelineInv' BY <1>3, ArriveHolds
<1>4. ASSUME NEW r \in HttpRequests, Auth(r) \/ Tenant(r) PROVE PipelineInv' BY <1>4, AuthHolds
<1>5. ASSUME NEW r \in HttpRequests, NEW m \in Limiters, Limits(r, m) PROVE PipelineInv' BY <1>5, LimitsHold
<1> QED BY <1>1, <1>2, <1>3, <1>4, <1>5 DEF PipelineNext

\* However requests interleave and clean-ups fall, a limiter lets no more through with a key, in
\* any window, than its limit.
THEOREM WindowsAreBounded == PipelineSpec => []WindowBounded
<1>1. PipelineInv => WindowBounded BY DEF PipelineInv
<1> QED BY <1>1, PipelineInitInv, PipelineNextInv, PTL DEF PipelineSpec

THEOREM PipelineTypesHold == PipelineSpec => []PipelineTypeOK
<1>1. PipelineInv => PipelineTypeOK BY DEF PipelineInv
<1> QED BY <1>1, PipelineInitInv, PipelineNextInv, PTL DEF PipelineSpec
==============================================================================
