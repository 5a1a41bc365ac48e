------------------------- MODULE CredentialsProofs -------------------------
(***************************************************************************)
(* Proofs about auth-service's users and access keys, for every set of     *)
(* users, names, keys and requests and every number of retries.            *)
(* CredentialsInv is the inductive invariant: a call between two of its    *)
(* transactions can rely on what it read in the first one, because users   *)
(* and access keys are never removed and never change hands.               *)
(***************************************************************************)
EXTENDS Credentials, TLAPS

\* Every step either leaves the three maps alone or writes one record of them:
\* a new user with its index entry, a new credential, or a revocation.
LEMMA Writes ==
    ASSUME TypeOK, Next
    PROVE  \/ UNCHANGED <<users, usernames, credentials>>
           \/ \E n \in ValidUsernames, i \in Ids :
                /\ usernames[n] = None
                /\ users[i] = None
                /\ users' = [users EXCEPT ![i] = [name |-> n]]
                /\ usernames' = [usernames EXCEPT ![n] = i]
                /\ UNCHANGED <<credentials, call>>
           \/ \E c \in Calls, a \in AccessKeys :
                /\ call[c] # None
                /\ call[c].pc = "create"
                /\ credentials[a] = None
                /\ credentials' = [credentials EXCEPT
                                     ![a] = [owner |-> call[c].who,
                                             revoked |-> FALSE]]
                /\ call' = [call EXCEPT ![c] = None]
                /\ UNCHANGED <<users, usernames>>
           \/ \E c \in Calls :
                /\ call[c] # None
                /\ call[c].pc = "revoke"
                /\ LiveKey(call[c].key)
                /\ credentials' = [credentials EXCEPT
                                     ![call[c].key].revoked = TRUE]
                /\ call' = [call EXCEPT ![c] = None]
                /\ UNCHANGED <<users, usernames>>
<1>1. ASSUME NEW n \in Usernames, NEW i \in Ids, Register(n, i)
      PROVE  \/ UNCHANGED <<users, usernames, credentials>>
             \/ /\ n \in ValidUsernames
                /\ usernames[n] = None
                /\ users[i] = None
                /\ users' = [users EXCEPT ![i] = [name |-> n]]
                /\ usernames' = [usernames EXCEPT ![n] = i]
                /\ UNCHANGED <<credentials, call>>
  BY <1>1 DEF Register, UserCreate
<1>2. ASSUME NEW c \in Calls, NEW a \in AccessKeys, CreateKey(c, a)
      PROVE  \/ UNCHANGED <<users, usernames, credentials>>
             \/ /\ call[c] # None
                /\ call[c].pc = "create"
                /\ credentials[a] = None
                /\ credentials' = [credentials EXCEPT
                                     ![a] = [owner |-> call[c].who,
                                             revoked |-> FALSE]]
                /\ call' = [call EXCEPT ![c] = None]
                /\ UNCHANGED <<users, usernames>>
  BY <1>2 DEF CreateKey, Goto
<1>3. ASSUME NEW c \in Calls, RevokeKey(c)
      PROVE  \/ UNCHANGED <<users, usernames, credentials>>
             \/ /\ call[c] # None
                /\ call[c].pc = "revoke"
                /\ LiveKey(call[c].key)
                /\ credentials' = [credentials EXCEPT
                                     ![call[c].key].revoked = TRUE]
                /\ call' = [call EXCEPT ![c] = None]
                /\ UNCHANGED <<users, usernames>>
  BY <1>3 DEF RevokeKey, Goto
<1>4. ASSUME \/ \E c \in Calls, who, target \in Ids : StartIssue(c, who, target)
             \/ \E c \in Calls, who \in Ids, a \in AccessKeys : StartRevoke(c, who, a)
             \/ \E c \in Calls : FindUser(c)
             \/ Restart
      PROVE  UNCHANGED <<users, usernames, credentials>>
  BY <1>4 DEF StartIssue, StartRevoke, FindUser, Restart
<1>5. QED
  BY <1>1, <1>2, <1>3, <1>4 DEF Next

\* What a call that starts or goes on has made sure of.
LEMMA Calling ==
    ASSUME TypeOK, Next, NEW c \in Calls, call'[c] # None, call'[c] # call[c]
    PROVE  /\ call'[c] \in Issuing \union Revoking
           /\ UNCHANGED <<users, usernames, credentials>>
           /\ call'[c].pc = "create" =>
                \/ Registered(call'[c].who)
                \/ /\ call[c] # None
                   /\ call[c].pc = "create"
                   /\ call'[c].who = call[c].who
           /\ call'[c].pc = "revoke" =>
                /\ credentials[call'[c].key] # None
                /\ credentials[call'[c].key].owner = call'[c].who
<1> DEFINE P == /\ call'[c] \in Issuing \union Revoking
                /\ UNCHANGED <<users, usernames, credentials>>
                /\ call'[c].pc = "create" =>
                     \/ Registered(call'[c].who)
                     \/ /\ call[c] # None
                        /\ call[c].pc = "create"
                        /\ call'[c].who = call[c].who
                /\ call'[c].pc = "revoke" =>
                     /\ credentials[call'[c].key] # None
                     /\ credentials[call'[c].key].owner = call'[c].who
<1>1. call \in [Calls -> Issuing \union Revoking \union {None}]
  BY DEF TypeOK
<1>2. ASSUME NEW d \in Calls, NEW who \in Ids, NEW target \in Ids,
             StartIssue(d, who, target)
      PROVE  P
  <2>1. /\ call' = [call EXCEPT ![d] = [pc |-> "find", who |-> who, attempt |-> 0]]
        /\ UNCHANGED <<users, usernames, credentials>>
    BY <1>2 DEF StartIssue, Goto
  <2>2. call'[c] = [pc |-> "find", who |-> who, attempt |-> 0]
    BY <1>1, <2>1
  <2>3. [pc |-> "find", who |-> who, attempt |-> 0] \in Issuing
    BY CredentialsAssumption DEF Issuing
  <2>4. QED
    BY <2>1, <2>2, <2>3
<1>3. ASSUME NEW d \in Calls, FindUser(d)
      PROVE  P
  <2>1. /\ d = c
        /\ call[c] # None
        /\ call[c].pc = "find"
        /\ Registered(call[c].who)
        /\ call'[c] = [call[c] EXCEPT !.pc = "create"]
        /\ UNCHANGED <<users, usernames, credentials>>
    BY <1>1, <1>3 DEF FindUser, Goto
  <2>2. call[c] \in Issuing
    BY <1>1, <2>1 DEF Revoking
  <2>3. call'[c] \in Issuing /\ call'[c].pc = "create" /\ call'[c].who = call[c].who
    BY <2>1, <2>2 DEF Issuing
  <2>4. QED
    BY <2>1, <2>3
<1>4. ASSUME NEW d \in Calls, NEW a \in AccessKeys, CreateKey(d, a)
      PROVE  P
  <2>1. /\ d = c
        /\ call[c] # None
        /\ call[c].pc = "create"
        /\ call[c].attempt < MaxRetries - 1
        /\ call'[c] = [call[c] EXCEPT !.attempt = @ + 1]
        /\ UNCHANGED <<users, usernames, credentials>>
    BY <1>1, <1>4 DEF CreateKey, Goto
  <2>2. call[c] \in Issuing
    BY <1>1, <2>1 DEF Revoking
  <2>3. /\ call'[c].pc = "create"
        /\ call'[c].who = call[c].who
        /\ call'[c] \in Issuing
    BY <2>1, <2>2, CredentialsAssumption DEF Issuing
  <2>4. QED
    BY <2>1, <2>3
<1>5. ASSUME NEW d \in Calls, NEW who \in Ids, NEW a \in AccessKeys,
             StartRevoke(d, who, a)
      PROVE  P
  <2>1. /\ call' = [call EXCEPT ![d] = [pc |-> "revoke", who |-> who, key |-> a]]
        /\ LiveKey(a)
        /\ credentials[a].owner = who
        /\ UNCHANGED <<users, usernames, credentials>>
    BY <1>5 DEF StartRevoke, Goto
  <2>2. call'[c] = [pc |-> "revoke", who |-> who, key |-> a]
    BY <1>1, <2>1
  <2>3. [pc |-> "revoke", who |-> who, key |-> a] \in Revoking
    BY DEF Revoking
  <2>4. QED
    BY <2>1, <2>2, <2>3 DEF LiveKey
<1>6. ASSUME \/ \E n \in Usernames, i \in Ids : Register(n, i)
             \/ \E d \in Calls : RevokeKey(d)
             \/ Restart
      PROVE  FALSE
  BY <1>1, <1>6 DEF Register, RevokeKey, Restart, Goto
<1>7. QED
  BY <1>2, <1>3, <1>4, <1>5, <1>6 DEF Next

\* The last response is one of the statuses the handlers send.
LEMMA Answering ==
    ASSUME TypeOK, Next
    PROVE  reply' \in [op : {"Register", "Issue", "Revoke"}, status : Statuses]
                       \union {None}
<1> DEFINE Sent == \E op \in {"Register", "Issue", "Revoke"}, status \in Statuses :
                     Respond(op, status)
<1>1. ASSUME NEW op \in {"Register", "Issue", "Revoke"}, NEW status \in Statuses,
             Respond(op, status)
      PROVE  reply' \in [op : {"Register", "Issue", "Revoke"}, status : Statuses]
  BY <1>1 DEF Respond
<1>2. \/ UNCHANGED reply \/ Sent
  <2>1. \A n \in Usernames, i \in Ids : Register(n, i) => Sent
    BY DEF Register, UserCreate, Statuses
  <2>2. \A c \in Calls : FindUser(c) => UNCHANGED reply \/ Sent
    BY DEF FindUser, Statuses
  <2>3. \A c \in Calls, a \in AccessKeys : CreateKey(c, a) => UNCHANGED reply \/ Sent
    BY DEF CreateKey, Statuses
  <2>4. \A c \in Calls : RevokeKey(c) => Sent
    BY DEF RevokeKey, Statuses
  <2>5. \A c \in Calls, who, target \in Ids :
          StartIssue(c, who, target) => UNCHANGED reply \/ Sent
    BY DEF StartIssue, Statuses
  <2>6. \A c \in Calls, who \in Ids, a \in AccessKeys :
          StartRevoke(c, who, a) => UNCHANGED reply \/ Sent
    BY DEF StartRevoke, Statuses
  <2>7. QED
    BY <2>1, <2>2, <2>3, <2>4, <2>5, <2>6 DEF Next, Restart
<1>3. QED
  BY <1>1, <1>2 DEF TypeOK

\* A call in progress is an issue or a revocation.
LEMMA CallsTyped ==
    ASSUME TypeOK, Next
    PROVE  call' \in [Calls -> Issuing \union Revoking \union {None}]
<1>1. DOMAIN call' = Calls /\ call' = [c \in Calls |-> call'[c]]
  BY DEF TypeOK, Next, Register, StartIssue, FindUser, CreateKey, StartRevoke,
         RevokeKey, Restart, Goto
<1>2. \A c \in Calls : call'[c] \in Issuing \union Revoking \union {None}
  BY Calling DEF TypeOK
<1>3. QED
  BY <1>1, <1>2

\* Every step keeps the database and the calls well typed.
LEMMA TypeStep == TypeOK /\ [Next]_vars => TypeOK'
<1> SUFFICES ASSUME TypeOK, [Next]_vars PROVE TypeOK'
  OBVIOUS
<1>1. CASE UNCHANGED vars
  BY <1>1 DEF TypeOK, vars
<1>2. CASE Next
  <2>1. /\ users' \in [Ids -> User \union {None}]
        /\ usernames' \in [Usernames -> Ids \union {None}]
        /\ credentials' \in [AccessKeys -> Credential \union {None}]
    <3>1. CASE UNCHANGED <<users, usernames, credentials>>
      BY <3>1 DEF TypeOK
    <3>2. ASSUME NEW n \in ValidUsernames, NEW i \in Ids,
                 users' = [users EXCEPT ![i] = [name |-> n]],
                 usernames' = [usernames EXCEPT ![n] = i],
                 UNCHANGED credentials
          PROVE  /\ users' \in [Ids -> User \union {None}]
                 /\ usernames' \in [Usernames -> Ids \union {None}]
                 /\ credentials' \in [AccessKeys -> Credential \union {None}]
      <4>1. [name |-> n] \in User
        BY DEF User
      <4>2. QED
        BY <3>2, <4>1, CredentialsAssumption DEF TypeOK
    <3>3. ASSUME NEW c \in Calls, NEW a \in AccessKeys,
                 call[c] # None,
                 credentials' = [credentials EXCEPT
                                   ![a] = [owner |-> call[c].who,
                                           revoked |-> FALSE]],
                 UNCHANGED <<users, usernames>>
          PROVE  /\ users' \in [Ids -> User \union {None}]
                 /\ usernames' \in [Usernames -> Ids \union {None}]
                 /\ credentials' \in [AccessKeys -> Credential \union {None}]
      <4>1. call[c].who \in Ids
        BY <3>3 DEF TypeOK, Issuing, Revoking
      <4>2. [owner |-> call[c].who, revoked |-> FALSE] \in Credential
        BY <4>1 DEF Credential
      <4>3. QED
        BY <3>3, <4>2 DEF TypeOK
    <3>4. ASSUME NEW c \in Calls, LiveKey(call[c].key),
                 credentials' = [credentials EXCEPT
                                   ![call[c].key].revoked = TRUE],
                 UNCHANGED <<users, usernames>>
          PROVE  /\ users' \in [Ids -> User \union {None}]
                 /\ usernames' \in [Usernames -> Ids \union {None}]
                 /\ credentials' \in [AccessKeys -> Credential \union {None}]
      BY <3>4 DEF TypeOK, Credential, LiveKey
    <3>5. QED
      BY <1>2, <3>1, <3>2, <3>3, <3>4, Writes
  <2>2. QED
    BY <1>2, <2>1, Answering, CallsTyped DEF TypeOK
<1>3. QED
  BY <1>1, <1>2

\* The database and the calls in progress stay well typed.
THEOREM TypeCorrect == Spec => []TypeOK
<1>1. Init => TypeOK
  BY DEF Init, TypeOK
<1>2. QED
  BY <1>1, TypeStep, PTL DEF Spec

-----------------------------------------------------------------------------
(* The invariant.                                                          *)

\* A registration adds one user and its index entry, and takes no name that
\* another user has.
LEMMA IndexStep ==
    ASSUME CredentialsInv, Next
    PROVE  UsernameIndexExact'
<1>1. CASE UNCHANGED <<users, usernames>>
  BY <1>1 DEF CredentialsInv, UsernameIndexExact
<1>2. ASSUME NEW n \in ValidUsernames, NEW i \in Ids,
             usernames[n] = None,
             users[i] = None,
             users' = [users EXCEPT ![i] = [name |-> n]],
             usernames' = [usernames EXCEPT ![n] = i]
      PROVE  UsernameIndexExact'
  <2> SUFFICES ASSUME NEW m \in Usernames, NEW j \in Ids
               PROVE  usernames'[m] = j <=> users'[j] # None /\ users'[j].name = m
    BY DEF UsernameIndexExact
  <2>1. usernames[m] = j <=> users[j] # None /\ users[j].name = m
    BY DEF CredentialsInv, UsernameIndexExact
  <2>2. /\ users'[j] = IF j = i THEN [name |-> n] ELSE users[j]
        /\ usernames'[m] = IF m = n THEN i ELSE usernames[m]
    BY <1>2, CredentialsAssumption DEF CredentialsInv, TypeOK
  <2>3. [name |-> n] # None /\ None \notin Ids
    BY CredentialsAssumption DEF User
  <2>4. QED
    BY <1>2, <2>1, <2>2, <2>3
<1>3. QED
  BY <1>1, <1>2, Writes DEF CredentialsInv

\* What was recorded is not forgotten: users stay, and access keys stay with
\* their owners and stay revoked.
LEMMA Lasting ==
    ASSUME CredentialsInv, [Next]_vars
    PROVE  /\ \A i \in Ids : Registered(i) => Registered(i)'
           /\ \A a \in AccessKeys : credentials[a] # None =>
                /\ credentials'[a] # None
                /\ credentials'[a].owner = credentials[a].owner
                /\ credentials[a].revoked => credentials'[a].revoked
<1> DEFINE Keeps == /\ \A i \in Ids : Registered(i) => Registered(i)'
                    /\ \A a \in AccessKeys : credentials[a] # None =>
                         /\ credentials'[a] # None
                         /\ credentials'[a].owner = credentials[a].owner
                         /\ credentials[a].revoked => credentials'[a].revoked
<1>1. CASE UNCHANGED <<users, usernames, credentials>>
  BY <1>1 DEF Registered
<1>2. ASSUME NEW n \in ValidUsernames, NEW i \in Ids,
             users' = [users EXCEPT ![i] = [name |-> n]],
             UNCHANGED credentials
      PROVE  Keeps
  <2>1. [name |-> n] # None
    BY CredentialsAssumption DEF User
  <2>2. QED
    BY <1>2, <2>1 DEF Registered, CredentialsInv, TypeOK
<1>3. ASSUME NEW c \in Calls, NEW a \in AccessKeys,
             credentials[a] = None,
             credentials' = [credentials EXCEPT
                               ![a] = [owner |-> call[c].who, revoked |-> FALSE]],
             UNCHANGED <<users, usernames>>
      PROVE  Keeps
  BY <1>3 DEF Registered, CredentialsInv, TypeOK
<1>4. ASSUME NEW c \in Calls,
             LiveKey(call[c].key),
             credentials' = [credentials EXCEPT ![call[c].key].revoked = TRUE],
             UNCHANGED <<users, usernames>>
      PROVE  Keeps
  <2>1. TypeOK'
    BY TypeStep DEF CredentialsInv
  <2>2. \A a \in AccessKeys : credentials'[a] =
          IF a = call[c].key THEN [credentials[a] EXCEPT !.revoked = TRUE]
                             ELSE credentials[a]
    BY <1>4 DEF CredentialsInv, TypeOK
  <2>3. \A a \in AccessKeys : credentials[a] # None =>
          /\ [credentials[a] EXCEPT !.revoked = TRUE] \in Credential
          /\ [credentials[a] EXCEPT !.revoked = TRUE].owner = credentials[a].owner
          /\ [credentials[a] EXCEPT !.revoked = TRUE].revoked
    BY DEF CredentialsInv, TypeOK, Credential
  <2>4. QED
    BY <1>4, <2>2, <2>3, CredentialsAssumption DEF Registered
<1>5. CASE UNCHANGED vars
  BY <1>5 DEF vars, Registered
<1>6. QED
  BY <1>1, <1>2, <1>3, <1>4, <1>5, Writes DEF CredentialsInv

\* A new credential is the caller's, who is registered.
LEMMA OwnersStep ==
    ASSUME CredentialsInv, Next
    PROVE  OwnerExists'
<1> SUFFICES ASSUME NEW a \in AccessKeys, credentials'[a] # None
             PROVE  users'[credentials'[a].owner] # None
  BY DEF OwnerExists, Registered
<1>1. CASE credentials[a] # None
  <2>1. credentials[a].owner \in Ids
    BY <1>1 DEF CredentialsInv, TypeOK, Credential
  <2>2. Registered(credentials[a].owner)
    BY <1>1 DEF CredentialsInv, OwnerExists
  <2>3. QED
    BY <1>1, <2>1, <2>2, Lasting DEF Registered
<1>2. CASE credentials[a] = None
  <2>1. PICK c \in Calls : /\ call[c] # None
                           /\ call[c].pc = "create"
                           /\ credentials'[a].owner = call[c].who
                           /\ UNCHANGED users
    <3>1. credentials' # credentials
      BY <1>2
    <3>2. ASSUME NEW c \in Calls,
                 LiveKey(call[c].key),
                 credentials' = [credentials EXCEPT ![call[c].key].revoked = TRUE]
          PROVE  FALSE
      BY <1>2, <3>2 DEF LiveKey, CredentialsInv, TypeOK
    <3>3. ASSUME NEW c \in Calls, NEW b \in AccessKeys,
                 credentials' = [credentials EXCEPT
                                   ![b] = [owner |-> call[c].who, revoked |-> FALSE]]
          PROVE  credentials'[a].owner = call[c].who
      BY <1>2, <3>3 DEF CredentialsInv, TypeOK
    <3>4. QED
      BY <3>1, <3>2, <3>3, Writes DEF CredentialsInv
  <2>2. call[c].who \in Ids /\ Registered(call[c].who)
    BY <2>1 DEF CredentialsInv, IssuerExists, TypeOK, Issuing, Revoking
  <2>3. QED
    BY <2>1, <2>2 DEF Registered
<1>3. QED
  BY <1>1, <1>2

\* What a call has read in its first transaction still holds.
LEMMA CallsStep ==
    ASSUME CredentialsInv, Next
    PROVE  RevocationStillAuthorized' /\ IssuerExists'
<1> SUFFICES ASSUME NEW c \in Calls, call'[c] # None
             PROVE  /\ call'[c].pc = "revoke" =>
                          /\ credentials'[call'[c].key] # None
                          /\ credentials'[call'[c].key].owner = call'[c].who
                    /\ call'[c].pc = "create" => users'[call'[c].who] # None
  BY DEF RevocationStillAuthorized, IssuerExists, Registered
<1>1. CASE call'[c] = call[c]
  <2>1. call[c] \in Issuing \union Revoking
    BY <1>1 DEF CredentialsInv, TypeOK
  <2>2. CASE call[c].pc = "revoke"
    <3>1. /\ call[c].key \in AccessKeys
          /\ credentials[call[c].key] # None
          /\ credentials[call[c].key].owner = call[c].who
      BY <1>1, <2>1, <2>2 DEF CredentialsInv, RevocationStillAuthorized, Issuing, Revoking
    <3>2. QED
      BY <1>1, <2>2, <3>1, Lasting
  <2>3. CASE call[c].pc = "create"
    <3>1. call[c].who \in Ids /\ Registered(call[c].who)
      BY <1>1, <2>1, <2>3 DEF CredentialsInv, IssuerExists, Issuing, Revoking
    <3>2. QED
      BY <1>1, <2>3, <3>1, Lasting DEF Registered
  <2>4. QED
    BY <1>1, <2>2, <2>3
<1>2. CASE call'[c] # call[c]
  <2>1. call[c] # None /\ call[c].pc = "create" => Registered(call[c].who)
    BY DEF CredentialsInv, IssuerExists
  <2>2. QED
    BY <1>2, <2>1, Calling DEF CredentialsInv, Registered
<1>3. QED
  BY <1>1, <1>2

\* The invariant: exact usernames, owners that exist, and decisions that still
\* hold when they are acted on, however many requests interleave.
THEOREM Invariance == Spec => []CredentialsInv
<1>1. Init => CredentialsInv
  BY CredentialsAssumption
     DEF Init, CredentialsInv, TypeOK, UsernameIndexExact, OwnerExists,
         RevocationStillAuthorized, IssuerExists
<1>2. CredentialsInv /\ [Next]_vars => CredentialsInv'
  <2> SUFFICES ASSUME CredentialsInv, [Next]_vars PROVE CredentialsInv'
    OBVIOUS
  <2>1. CASE Next
    BY <2>1, TypeStep, IndexStep, OwnersStep, CallsStep DEF CredentialsInv
  <2>2. CASE UNCHANGED vars
    BY <2>2 DEF vars, CredentialsInv, TypeOK, UsernameIndexExact, OwnerExists,
                RevocationStillAuthorized, IssuerExists, Registered
  <2>3. QED
    BY <2>1, <2>2
<1>3. QED
  BY <1>1, <1>2, PTL DEF Spec

\* No two users share a username, and each is found under its own.
THEOREM UsernamesExact == Spec => []UsernameIndexExact
<1>1. CredentialsInv => UsernameIndexExact
  BY DEF CredentialsInv
<1>2. QED
  BY <1>1, Invariance, PTL

\* Every credential has an owner that is registered.
THEOREM OwnersExist == Spec => []OwnerExists
<1>1. CredentialsInv => OwnerExists
  BY DEF CredentialsInv
<1>2. QED
  BY <1>1, Invariance, PTL

\* A revocation acts on a key of the caller it was decided for.
THEOREM RevocationsAuthorized == Spec => []RevocationStillAuthorized
<1>1. CredentialsInv => RevocationStillAuthorized
  BY DEF CredentialsInv
<1>2. QED
  BY <1>1, Invariance, PTL

\* An access key never changes hands, and a revoked one stays revoked.
THEOREM KeysForLife == Spec => AccessKeyForLife
<1> DEFINE Keeps(a) == credentials[a] # None =>
              /\ credentials'[a] # None
              /\ credentials'[a].owner = credentials[a].owner
              /\ credentials[a].revoked => credentials'[a].revoked
<1>1. CredentialsInv /\ [Next]_vars => [\A a \in AccessKeys : Keeps(a)]_vars
  BY Lasting
<1>2. QED
  BY <1>1, Invariance, PTL DEF Spec, AccessKeyForLife

\* A revocation that is answered 204 is the one that revoked the key.
THEOREM RevocationsOnce == Spec => RevokedOnce
<1> DEFINE Once(c) == /\ call[c] # None
                      /\ call[c].pc = "revoke"
                      /\ call'[c] = None
                      /\ reply' # reply
                      /\ reply' = [op |-> "Revoke", status |-> 204]
                      => LiveKey(call[c].key)
<1>1. ASSUME TypeOK, Next, NEW c \in Calls, call[c] # None, call[c].pc = "revoke",
             call'[c] = None, reply' # reply,
             reply' = [op |-> "Revoke", status |-> 204]
      PROVE  LiveKey(call[c].key)
  <2>1. call' # call /\ call \in [Calls -> Issuing \union Revoking \union {None}]
    BY <1>1 DEF TypeOK
  <2>2. ~(\E n \in Usernames, i \in Ids : Register(n, i)) /\ ~Restart
    BY <1>1, <2>1 DEF Register, Restart
  <2>3. ASSUME NEW d \in Calls, d # c
        PROVE  /\ ~FindUser(d)
               /\ ~RevokeKey(d)
               /\ \A a \in AccessKeys : ~CreateKey(d, a)
               /\ \A who, target \in Ids : ~StartIssue(d, who, target)
               /\ \A who \in Ids, a \in AccessKeys : ~StartRevoke(d, who, a)
    BY <1>1, <2>1, <2>3
       DEF FindUser, RevokeKey, CreateKey, StartIssue, StartRevoke, Goto
  <2>4. /\ ~FindUser(c)
        /\ \A a \in AccessKeys : ~CreateKey(c, a)
        /\ \A who, target \in Ids : ~StartIssue(c, who, target)
        /\ \A who \in Ids, a \in AccessKeys : ~StartRevoke(c, who, a)
    BY <1>1 DEF FindUser, CreateKey, StartIssue, StartRevoke
  <2>5. RevokeKey(c)
    BY <1>1, <2>2, <2>3, <2>4 DEF Next
  <2>6. QED
    BY <1>1, <2>5 DEF RevokeKey, Respond
<1>2. TypeOK /\ [Next]_vars => [\A c \in Calls : Once(c)]_vars
  BY <1>1
<1>3. QED
  BY <1>2, TypeCorrect, PTL DEF Spec, RevokedOnce
=============================================================================
