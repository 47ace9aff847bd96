------------------------------- MODULE SsoFlow -------------------------------
(***************************************************************************)
(* Sign-in through an identity provider: the rows of identity_providers,   *)
(* sso_state, external_identities and users, the endpoints that write      *)
(* them, and the codes that come back from the providers.                  *)
(*                                                                         *)
(* A handler is cut at its awaits, as in module Sessions, which goes on    *)
(* from where a sign-in is issued its tokens.  Foreign keys are enforced,  *)
(* as PostgreSQL and Oracle do: what belongs to a deleted provider is      *)
(* deleted with it.                                                        *)
(***************************************************************************)
EXTENDS Naturals, Sequences, FiniteSets

CONSTANTS
    Providers,  \* rows of identity_providers, each under a slug of its own
    Subjects,   \* stable subject identifiers (select_external_id)
    Emails,     \* e-mail claims; "", the default of a missing one, may be among them
    None,       \* no user, no provider, no code
    Workers,    \* handlers in flight at once, over all replicas
    StateTTL,   \* _SSO_STATE_TTL, in clock ticks
    MaxStates,  \* bound: states ever minted
    MaxCodes    \* bound: codes ever redeemed

ASSUME SsoAssumption ==
    /\ None \notin Emails
    /\ IsFiniteSet(Workers)
    /\ StateTTL \in Nat
    /\ MaxStates \in Nat
    /\ MaxCodes \in Nat

VARIABLES
    provider,   \* provider[p]: no row yet, is_active true or false, deleted
    states,     \* sso_state in insert order; state and nonce = position
    redeemed,   \* the codes the providers have taken back at their token endpoints
    users,      \* the e-mails that have a row in users
    links,      \* links[p, s]: the user of external identity (p, s)
    signin      \* signin[w]: the request worker w is serving

vars == <<provider, states, redeemed, users, links, signin>>

-------------------------------------------------------------------------------
(* Types.                                                                  *)

StateIds == 1..MaxStates

\* age is that of the row, up to its expiry; `live' tells that it is still in the
\* table.  `signins' is no column: it counts the token pairs issued on this state.
SsoState == [provider : Providers, age : 0..StateTTL, live : BOOLEAN,
             signins : 0..MaxCodes]

\* The ID token a code stands for: its nonce, subject and e-mail claim.
Code == [nonce : StateIds, subject : Subjects, email : Emails]

\* Where a handler will resume.
Points == {"idle", "read_state", "burn_expired", "burn", "exchange", "lookup", "touch",
           "find_user", "insert_user", "link", "issue"}

Idle == [pc |-> "idle", provider |-> None, state |-> 0, code |-> None, user |-> None]

\* provider is the object loaded first, state and code are those presented, user is
\* the account found or made.
SignIn == [pc : Points, provider : Providers \cup {None}, state : 0..MaxStates,
           code : Code \cup {None}, user : Emails \cup {None}]

Identities == Providers \X Subjects

TypeOK ==
    /\ provider \in [Providers -> {"absent", "active", "inactive", "deleted"}]
    /\ states \in Seq(SsoState)
    /\ Len(states) <= MaxStates
    /\ redeemed \subseteq Code
    /\ users \subseteq Emails
    /\ links \in [Identities -> users \cup {None}]
    /\ signin \in [Workers -> SignIn]

Init ==
    /\ provider = [p \in Providers |-> "absent"]
    /\ states = <<>>
    /\ redeemed = {}
    /\ users = {}
    /\ links = [i \in Identities |-> None]
    /\ signin = [w \in Workers |-> Idle]

-------------------------------------------------------------------------------
(* Administration of the providers.                                        *)

\* create_provider, update_provider with is_active: INSERT or UPDATE, COMMIT.
SetProvider(p, status) ==
    /\ provider[p] # "deleted"
    /\ provider' = [provider EXCEPT ![p] = status]
    /\ UNCHANGED <<states, redeemed, users, links, signin>>

\* delete_provider: DELETE, COMMIT; the states and links of the provider go with it.
DeleteProvider(p) ==
    /\ provider[p] \in {"active", "inactive"}
    /\ provider' = [provider EXCEPT ![p] = "deleted"]
    /\ states' = [s \in DOMAIN states |->
                    [states[s] EXCEPT !.live = @ /\ states[s].provider # p]]
    /\ links' = [i \in Identities |-> IF i[1] = p THEN None ELSE links[i]]
    /\ UNCHANGED <<redeemed, users, signin>>

-------------------------------------------------------------------------------
(* The way to the provider.                                                *)

\* sso_authorize, store_sso_state: a state for an active provider (otherwise 404).
Authorize(p) ==
    /\ provider[p] = "active"
    /\ Len(states) < MaxStates
    /\ states' = Append(states, [provider |-> p, age |-> 0, live |-> TRUE, signins |-> 0])
    /\ UNCHANGED <<provider, redeemed, users, links, signin>>

-------------------------------------------------------------------------------
(* sso_token_exchange.                                                     *)

At(w, point) == signin[w].pc = point

Goto(w, point) == signin' = [signin EXCEPT ![w].pc = point]

Finish(w) == signin' = [signin EXCEPT ![w] = Idle]

\* The provider is loaded (404 unless active); state and code are what the caller
\* sent, not necessarily from the same round trip.  The code may be any that a
\* provider has handed out: for every state that was minted it may authenticate any
\* subject, several times when its URL is followed again, and e-mails change.
TokenBegin(w, p, s, c) ==
    /\ At(w, "idle")
    /\ provider[p] = "active"
    /\ s \in DOMAIN states
    /\ c.nonce \in DOMAIN states
    /\ signin' = [signin EXCEPT ![w] = [pc |-> "read_state", provider |-> p, state |-> s,
                                        code |-> c, user |-> None]]
    /\ UNCHANGED <<provider, states, redeemed, users, links>>

\* consume_sso_state, the SELECT: 400 if there is no such row or it is of another
\* provider; an expired one is deleted before the 400.
ReadState(w) ==
    LET row == states[signin[w].state]
    IN  /\ At(w, "read_state")
        /\ \/ /\ ~row.live \/ row.provider # signin[w].provider
              /\ Finish(w)
           \/ /\ row.live /\ row.provider = signin[w].provider
              /\ Goto(w, IF row.age = StateTTL THEN "burn_expired" ELSE "burn")
        /\ UNCHANGED <<provider, states, redeemed, users, links>>

\* Mutant: the deletion is not committed.
BurnStateWithoutCommit(w) ==
    /\ \/ At(w, "burn_expired") /\ Finish(w)
       \/ At(w, "burn") /\ Goto(w, "exchange")
    /\ UNCHANGED <<provider, states, redeemed, users, links>>

\* consume_sso_state, the DELETE and its COMMIT: no error if the row is gone already.
BurnState(w) ==
    /\ \/ At(w, "burn_expired") /\ Finish(w)
       \/ At(w, "burn") /\ Goto(w, "exchange")
    /\ states' = [states EXCEPT ![signin[w].state].live = FALSE]
    /\ UNCHANGED <<provider, redeemed, users, links>>

\* Mutant: the nonce of the ID token is not compared.
ExchangeAnyNonce(w) ==
    LET c == signin[w].code
    IN  /\ At(w, "exchange")
        /\ c \notin redeemed
        /\ Cardinality(redeemed) < MaxCodes
        /\ redeemed' = redeemed \cup {c}
        /\ \/ Goto(w, "lookup")
           \/ Finish(w)
        /\ UNCHANGED <<provider, states, users, links>>

\* exchange_oidc_code: the provider takes a code once, and the ID token must carry
\* the nonce of the state; anything else that goes wrong is a 401 or 422 too.
Exchange(w) ==
    LET c == signin[w].code
    IN  /\ At(w, "exchange")
        /\ c \notin redeemed
        /\ Cardinality(redeemed) < MaxCodes
        /\ redeemed' = redeemed \cup {c}
        /\ \/ c.nonce = signin[w].state /\ Goto(w, "lookup")
           \/ Finish(w)
        /\ UNCHANGED <<provider, states, users, links>>

-------------------------------------------------------------------------------
(* jit_provision_user.                                                     *)

Identity(w) == <<signin[w].provider, signin[w].code.subject>>

\* The SELECT of the link.
Lookup(w) ==
    /\ At(w, "lookup")
    /\ signin' = [signin EXCEPT
                    ![w].pc = IF links[Identity(w)] = None THEN "find_user" ELSE "touch",
                    ![w].user = links[Identity(w)]]
    /\ UNCHANGED <<provider, states, redeemed, users, links>>

\* last_login_at and raw_claims; COMMIT.  A link deleted in between is a 500.
Touch(w) ==
    /\ At(w, "touch")
    /\ IF links[Identity(w)] = None THEN Finish(w) ELSE Goto(w, "issue")
    /\ UNCHANGED <<provider, states, redeemed, users, links>>

\* The SELECT of the user by e-mail.
FindUser(w) ==
    LET email == signin[w].code.email
    IN  /\ At(w, "find_user")
        /\ signin' = [signin EXCEPT
                        ![w].pc = IF email \in users THEN "link" ELSE "insert_user",
                        ![w].user = email]
        /\ UNCHANGED <<provider, states, redeemed, users, links>>

\* Mutant: the insert of the user is not committed.
InsertUserWithoutCommit(w) ==
    /\ At(w, "insert_user")
    /\ Goto(w, "link")
    /\ UNCHANGED <<provider, states, redeemed, users, links>>

\* INSERT INTO users; COMMIT.  An e-mail taken in between is a 500.
InsertUser(w) ==
    /\ At(w, "insert_user")
    /\ users' = users \cup {signin[w].user}
    /\ IF signin[w].user \in users THEN Finish(w) ELSE Goto(w, "link")
    /\ UNCHANGED <<provider, states, redeemed, links>>

\* Mutant: the insert of a link that is there is ignored (ON CONFLICT DO NOTHING).
LinkIgnoringConflict(w) ==
    LET i == Identity(w)
    IN  /\ At(w, "link")
        /\ links' = [links EXCEPT ![i] = IF @ = None THEN signin[w].user ELSE @]
        /\ Goto(w, "issue")
        /\ UNCHANGED <<provider, states, redeemed, users>>

\* Mutant: the insert of a link that is there overwrites it (an upsert).
LinkOverwriting(w) ==
    /\ At(w, "link")
    /\ links' = [links EXCEPT ![Identity(w)] = signin[w].user]
    /\ Goto(w, "issue")
    /\ UNCHANGED <<provider, states, redeemed, users>>

\* INSERT INTO external_identities; COMMIT.  A link made in between breaks the unique
\* constraint, a provider deleted in between the foreign key: 500, and a user inserted
\* just before stays.
Link(w) ==
    LET i == Identity(w)
        free == links[i] = None /\ provider[signin[w].provider] # "deleted"
    IN  /\ At(w, "link")
        /\ links' = IF free THEN [links EXCEPT ![i] = signin[w].user] ELSE links
        /\ IF free THEN Goto(w, "issue") ELSE Finish(w)
        /\ UNCHANGED <<provider, states, redeemed, users>>

\* apply_claim_mappings and issue_sso_tokens.
Issue(w) ==
    /\ At(w, "issue")
    /\ states' = [states EXCEPT ![signin[w].state].signins = @ + 1]
    /\ Finish(w)
    /\ UNCHANGED <<provider, redeemed, users, links>>

-------------------------------------------------------------------------------
(* The environment.                                                        *)

\* register or SCIM creates the account of an e-mail.
CreateUser(e) ==
    /\ e \notin users
    /\ users' = users \cup {e}
    /\ UNCHANGED <<provider, states, redeemed, links, signin>>

\* A handler ends early: redirect_uri is not the one stored, the provider refuses the
\* code or is out of reach, the ID token lacks a subject, the process dies.
Abandon(w) ==
    /\ ~At(w, "idle")
    /\ Finish(w)
    /\ UNCHANGED <<provider, states, redeemed, users, links>>

Tick ==
    /\ states' = [s \in DOMAIN states |->
                    [states[s] EXCEPT !.age = IF @ < StateTTL THEN @ + 1 ELSE @]]
    /\ UNCHANGED <<provider, redeemed, users, links, signin>>

Step(w) ==
    \/ \E p \in Providers, s \in StateIds, c \in Code : TokenBegin(w, p, s, c)
    \/ ReadState(w)
    \/ BurnState(w)
    \/ Exchange(w)
    \/ Lookup(w)
    \/ Touch(w)
    \/ FindUser(w)
    \/ InsertUser(w)
    \/ Link(w)
    \/ Issue(w)
    \/ Abandon(w)

Next ==
    \/ \E w \in Workers : Step(w)
    \/ \E p \in Providers :
        \/ \E status \in {"active", "inactive"} : SetProvider(p, status)
        \/ DeleteProvider(p)
        \/ Authorize(p)
    \/ \E e \in Emails : CreateUser(e)
    \/ Tick

Spec == Init /\ [][Next]_vars

-------------------------------------------------------------------------------
(* Properties.                                                             *)

\* Whoever is about to be issued tokens is the user the external identity is linked
\* to, unless the provider was deleted meanwhile: of two first sign-ins of one person
\* whose e-mail changed in between, only the one that made the link succeeds.
SignsInLinkedUser ==
    \A w \in Workers : At(w, "issue") =>
        \/ links[Identity(w)] = signin[w].user
        \/ provider[signin[w].provider] = "deleted"

\* An external identity keeps its user as long as its provider exists, whatever
\* e-mail its later ID tokens carry.
LinksAreStable ==
    [][\A i \in Identities : links[i] # None =>
        links'[i] = links[i] \/ provider'[i[1]] = "deleted"]_vars

\* A state is deleted before the code is exchanged, so it admits one sign-in, or as
\* many as had read the row before the first deletion was committed.
StateReuseBounded ==
    \A s \in DOMAIN states : states[s].signins <= Cardinality(Workers)

\* Every sign-in on a state spent a code that was handed out for that very round
\* trip: no code of another one, and none twice.
SignInsAuthenticated ==
    \A s \in DOMAIN states :
        states[s].signins <= Cardinality({c \in redeemed : c.nonce = s})

-------------------------------------------------------------------------------
(* Statements of the documentation.                                        *)

\* sso_service.py, store_sso_state: "Mint and persist a single-use (state, nonce) pair".
StateSingleUse ==
    \A s \in DOMAIN states : states[s].signins <= 1

\* Nobody presents a state while another exchange on it is in flight.
ExchangesApart ==
    \A v, w \in Workers :
        signin[v].pc # "idle" /\ signin[w].pc # "idle" /\ signin[v].state = signin[w].state
        => v = w

===============================================================================
