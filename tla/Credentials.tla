---------------------------- MODULE Credentials -----------------------------
(***************************************************************************)
(* auth-service: users, and the access keys issued to them.                *)
(*                                                                         *)
(* Each repository method is one bbolt transaction and one step here.  A   *)
(* handler may need several: an issue looks the user up and then tries one *)
(* random access key after another; a revocation reads who owns the key,   *)
(* decides, and revokes in a second transaction.  Other requests run in    *)
(* between.                                                                *)
(*                                                                         *)
(* A caller is whoever the access token it presents says (Sessions is      *)
(* about the tokens); a token may be older than the database, so it need   *)
(* not name a registered user.  No request makes a user an admin, so the   *)
(* admin's shortcuts are never taken.                                      *)
(***************************************************************************)
EXTENDS Naturals, FiniteSets

CONSTANTS
    Ids,                \* what uuid.NewString may return
    Usernames,          \* usernames a request may carry
    ValidUsernames,     \* those usernameRE accepts
    AccessKeys,         \* what generateAccessKey may return
    Calls,              \* goroutines that issue or revoke
    MaxRetries,         \* maxAccessKeyRetries
    None                \* no value under this key

User == [name : ValidUsernames]
Credential == [owner : Ids, revoked : BOOLEAN]

Issuing == [pc : {"find", "create"}, who : Ids, attempt : 0..MaxRetries - 1]
Revoking == [pc : {"revoke"}, who : Ids, key : AccessKeys]

ASSUME CredentialsAssumption ==
    /\ ValidUsernames \subseteq Usernames
    /\ MaxRetries \in Nat \ {0}
    /\ None \notin User \union Credential \union Ids \union Issuing \union Revoking

VARIABLES
    users,              \* bolt bucket "users": id -> User
    usernames,          \* bolt bucket "usernames": username -> id
    credentials,        \* bolt bucket "credentials": access key -> Credential
    call,               \* goroutine -> what it is doing
    reply               \* the last response sent

vars == <<users, usernames, credentials, call, reply>>

Statuses == {201, 204, 400, 403, 404, 409}

TypeOK ==
    /\ users \in [Ids -> User \union {None}]
    /\ usernames \in [Usernames -> Ids \union {None}]
    /\ credentials \in [AccessKeys -> Credential \union {None}]
    /\ call \in [Calls -> Issuing \union Revoking \union {None}]
    /\ reply \in [op : {"Register", "Issue", "Revoke"}, status : Statuses]
                   \union {None}

Init ==
    /\ users = [i \in Ids |-> None]
    /\ usernames = [n \in Usernames |-> None]
    /\ credentials = [a \in AccessKeys |-> None]
    /\ call = [c \in Calls |-> None]
    /\ reply = None

Respond(op, status) == reply' = [op |-> op, status |-> status]

Goto(c, work) == call' = [call EXCEPT ![c] = work]

\* BoltUserRepository.GetByID.
Registered(i) == users[i] # None

\* BoltCredentialRepository.GetByAccessKey: a revoked key is not found.
LiveKey(a) == credentials[a] # None /\ ~credentials[a].revoked

-----------------------------------------------------------------------------
(* Registration.                                                           *)

\* The bug of a create that only looks at the id.
UserCreateAnyName(n, i) ==
    \/ /\ users[i] # None
       /\ Respond("Register", 409)
       /\ UNCHANGED <<users, usernames>>
    \/ /\ users[i] = None
       /\ users' = [users EXCEPT ![i] = [name |-> n]]
       /\ usernames' = [usernames EXCEPT ![n] = i]
       /\ Respond("Register", 201)

\* BoltUserRepository.Create.
UserCreate(n, i) ==
    \/ /\ usernames[n] # None \/ users[i] # None
       /\ Respond("Register", 409)
       /\ UNCHANGED <<users, usernames>>
    \/ /\ usernames[n] = None
       /\ users[i] = None
       /\ users' = [users EXCEPT ![i] = [name |-> n]]
       /\ usernames' = [usernames EXCEPT ![n] = i]
       /\ Respond("Register", 201)

\* userService.Register.  A password of a wrong length is refused like a
\* wrong username.
Register(n, i) ==
    /\ \/ /\ n \notin ValidUsernames
          /\ Respond("Register", 400)
          /\ UNCHANGED <<users, usernames>>
       \/ /\ n \in ValidUsernames
          /\ UserCreate(n, i)
    /\ UNCHANGED <<credentials, call>>

-----------------------------------------------------------------------------
(* Access keys.                                                            *)

\* createCredential: a caller may only name itself.
StartIssue(c, who, target) ==
    /\ call[c] = None
    /\ \/ /\ who # target
          /\ Respond("Issue", 403)
          /\ UNCHANGED call
       \/ /\ who = target
          /\ Goto(c, [pc |-> "find", who |-> who, attempt |-> 0])
          /\ UNCHANGED reply
    /\ UNCHANGED <<users, usernames, credentials>>

\* The bug of issuing to whoever the token names.
FindUserUnchecked(c) ==
    /\ call[c] # None
    /\ call[c].pc = "find"
    /\ Goto(c, [call[c] EXCEPT !.pc = "create"])
    /\ UNCHANGED <<users, usernames, credentials, reply>>

\* IssueCredential looks the user up before it generates the keys.
FindUser(c) ==
    /\ call[c] # None
    /\ call[c].pc = "find"
    /\ \/ /\ ~Registered(call[c].who)
          /\ Goto(c, None)
          /\ Respond("Issue", 404)
       \/ /\ Registered(call[c].who)
          /\ Goto(c, [call[c] EXCEPT !.pc = "create"])
          /\ UNCHANGED reply
    /\ UNCHANGED <<users, usernames, credentials>>

\* The bug of treating a revoked access key as free.
CreateKeyOverRevoked(c, a) ==
    /\ call[c] # None
    /\ call[c].pc = "create"
    /\ ~LiveKey(a)
    /\ credentials' = [credentials EXCEPT
                         ![a] = [owner |-> call[c].who, revoked |-> FALSE]]
    /\ Goto(c, None)
    /\ Respond("Issue", 201)
    /\ UNCHANGED <<users, usernames>>

\* The bug of one retry too many.
CreateKeyOnceMore(c, a) ==
    /\ call[c] # None
    /\ call[c].pc = "create"
    /\ \/ /\ credentials[a] = None
          /\ credentials' = [credentials EXCEPT
                               ![a] = [owner |-> call[c].who, revoked |-> FALSE]]
          /\ Goto(c, None)
          /\ Respond("Issue", 201)
       \/ /\ credentials[a] # None
          /\ call[c].attempt < MaxRetries
          /\ Goto(c, [call[c] EXCEPT !.attempt = @ + 1])
          /\ UNCHANGED <<credentials, reply>>
    /\ UNCHANGED <<users, usernames>>

\* One round of IssueCredential's loop: a key that was ever issued is not
\* issued again, and the last collision fails the request.
CreateKey(c, a) ==
    /\ call[c] # None
    /\ call[c].pc = "create"
    /\ \/ /\ credentials[a] = None
          /\ credentials' = [credentials EXCEPT
                               ![a] = [owner |-> call[c].who, revoked |-> FALSE]]
          /\ Goto(c, None)
          /\ Respond("Issue", 201)
       \/ /\ credentials[a] # None
          /\ call[c].attempt < MaxRetries - 1
          /\ Goto(c, [call[c] EXCEPT !.attempt = @ + 1])
          /\ UNCHANGED <<credentials, reply>>
       \/ /\ credentials[a] # None
          /\ call[c].attempt = MaxRetries - 1
          /\ Goto(c, None)
          /\ Respond("Issue", 409)
          /\ UNCHANGED credentials
    /\ UNCHANGED <<users, usernames>>

\* revokeCredential up to its decision, from GetCredentialOwner.
StartRevoke(c, who, a) ==
    /\ call[c] = None
    /\ \/ /\ ~LiveKey(a)
          /\ Respond("Revoke", 404)
          /\ UNCHANGED call
       \/ /\ LiveKey(a)
          /\ credentials[a].owner # who
          /\ Respond("Revoke", 403)
          /\ UNCHANGED call
       \/ /\ LiveKey(a)
          /\ credentials[a].owner = who
          /\ Goto(c, [pc |-> "revoke", who |-> who, key |-> a])
          /\ UNCHANGED reply
    /\ UNCHANGED <<users, usernames, credentials>>

\* The bug of a revocation that does not read RevokedAt.
RevokeKeyAgain(c) ==
    /\ call[c] # None
    /\ call[c].pc = "revoke"
    /\ credentials' = [credentials EXCEPT ![call[c].key].revoked = TRUE]
    /\ Goto(c, None)
    /\ Respond("Revoke", 204)
    /\ UNCHANGED <<users, usernames>>

\* BoltCredentialRepository.Revoke, and the response.
RevokeKey(c) ==
    /\ call[c] # None
    /\ call[c].pc = "revoke"
    /\ \/ /\ LiveKey(call[c].key)
          /\ credentials' = [credentials EXCEPT ![call[c].key].revoked = TRUE]
          /\ Respond("Revoke", 204)
       \/ /\ ~LiveKey(call[c].key)
          /\ Respond("Revoke", 404)
          /\ UNCHANGED credentials
    /\ Goto(c, None)
    /\ UNCHANGED <<users, usernames>>

\* The process stops and starts again.
Restart ==
    /\ call' = [c \in Calls |-> None]
    /\ UNCHANGED <<users, usernames, credentials, reply>>

Next ==
    \/ \E n \in Usernames, i \in Ids : Register(n, i)
    \/ \E c \in Calls :
         \/ \E who, target \in Ids : StartIssue(c, who, target)
         \/ \E who \in Ids, a \in AccessKeys : StartRevoke(c, who, a)
         \/ FindUser(c) \/ RevokeKey(c)
         \/ \E a \in AccessKeys : CreateKey(c, a)
    \/ Restart

Spec == Init /\ [][Next]_vars

-----------------------------------------------------------------------------
(* Properties.                                                             *)

\* A username belongs to one user, the one its index entry names: however
\* registrations interleave, no user is beyond the reach of a login.
UsernameIndexExact ==
    \A n \in Usernames, i \in Ids :
        usernames[n] = i <=> users[i] # None /\ users[i].name = n

\* An access key belongs to one user for life, and stays revoked: issuing
\* never takes up a key that was issued before.  Unlike a bucket name, a
\* revoked key does not come back under another owner.
AccessKeyForLife ==
    [][\A a \in AccessKeys : credentials[a] # None =>
          /\ credentials'[a] # None
          /\ credentials'[a].owner = credentials[a].owner
          /\ credentials[a].revoked => credentials'[a].revoked]_vars

\* A revocation decides in one transaction and acts in another, and the key
\* it acts on is still that of the caller it decided for.
RevocationStillAuthorized ==
    \A c \in Calls :
        call[c] # None /\ call[c].pc = "revoke" =>
            /\ credentials[call[c].key] # None
            /\ credentials[call[c].key].owner = call[c].who

\* A key is revoked once: a revocation answered 204 is the one that did it.
RevokedOnce ==
    [][\A c \in Calls :
          /\ call[c] # None
          /\ call[c].pc = "revoke"
          /\ call'[c] = None
          /\ reply' # reply
          /\ reply' = [op |-> "Revoke", status |-> 204]
          => LiveKey(call[c].key)]_vars

\* A credential is owned by a registered user, though an access token may name
\* one that is not: the lookup that an issue starts with holds to its end.
OwnerExists ==
    \A a \in AccessKeys : credentials[a] # None => Registered(credentials[a].owner)

IssuerExists ==
    \A c \in Calls :
        call[c] # None /\ call[c].pc = "create" => Registered(call[c].who)

\* The inductive invariant.
CredentialsInv ==
    /\ TypeOK
    /\ UsernameIndexExact
    /\ RevocationStillAuthorized
    /\ IssuerExists
    /\ OwnerExists
=============================================================================
