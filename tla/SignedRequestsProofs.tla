----------------------- MODULE SignedRequestsProofs -------------------------
(***************************************************************************)
(* Proofs about SignedRequests, for every set of users, keys, requests and *)
(* checks, every skew and every time.                                      *)
(***************************************************************************)
EXTENDS SignedRequests, CredentialsProofs

\* Signing leaves the users and keys to auth-service.
THEOREM CredentialsInSigned == SignedSpec => Spec
<1>1. SignedInit => Init
  BY DEF SignedInit
<1>2. [SignedNext]_<<vars, sigVars>> => [Next]_vars
  BY DEF SignedNext
<1> QED
  BY <1>1, <1>2, PTL DEF SignedSpec, Spec

LEMMA SignedInitially == SignedInit => SignedInv
  BY SignedAssumption
     DEF SignedInit, SignedInv, SignedTypeOK, KeyStillKnown, FirstInWindow, ActsForSigner,
         RevocationStops, DenialsJustified, Doing, Times

\* A key that is known stays known, keeps its owner and stays revoked.
LEMMA KeysLast ==
  ASSUME CredentialsInv, [Next]_vars, NEW a \in AccessKeys, credentials[a] # None
  PROVE  /\ credentials'[a] # None
         /\ credentials'[a].owner = credentials[a].owner
         /\ Now(a) = "revoked" => Now(a)' = "revoked"
         /\ Now(a) # "live" => Now(a)' # "live"
         /\ Now(a)' # "unknown"
<1>1. /\ credentials'[a] # None
      /\ credentials'[a].owner = credentials[a].owner
      /\ credentials[a].revoked => credentials'[a].revoked
  BY Lasting
<1> QED
  BY <1>1 DEF Now

-----------------------------------------------------------------------------
(* The invariant, one check at a time.                                     *)

\* What a check knows is true, and its outcome has its reason.
Sound(c) == c # None =>
    /\ signed[c.req] # None
    /\ c.pc \in {"verify", "admitted"} =>
         /\ c.was # "revoked"
         /\ credentials[signed[c.req].key] # None
         /\ credentials[signed[c.req].key].owner = c.user
    /\ c.was = "revoked" => Now(signed[c.req].key) = "revoked"
    /\ c.was # "unknown" => Now(signed[c.req].key) # "unknown"
    /\ c.early \/ signed[c.req].at <= now + MaxSkew
    /\ c.pc = "admitted" => c.user = signed[c.req].by
    /\ c.pc = "denied" =>
         \/ c.was = "unknown" \/ c.early
         \/ now > signed[c.req].at + MaxSkew
         \/ Now(signed[c.req].key) # "live"
         \/ credentials[signed[c.req].key].owner # signed[c.req].by

LEMMA EachSound ==
  SignedInv <=> /\ SignedTypeOK
                /\ FirstInWindow
                /\ \A g \in Checks : Sound(check[g])
  BY DEF SignedInv, KeyStillKnown, ActsForSigner, RevocationStops, DenialsJustified,
         Sound, Doing, Of

LEMMA EachSoundNext ==
  SignedInv' <=> /\ SignedTypeOK'
                 /\ FirstInWindow'
                 /\ \A g \in Checks : Sound(check[g])'
  BY DEF SignedInv, KeyStillKnown, ActsForSigner, RevocationStops, DenialsJustified,
         Sound, Doing, Of

\* A step of one check leaves the others sound.
LEMMA OneCheck ==
  ASSUME SignedInv, NEW g \in Checks, NEW c \in Check \union {None},
         UNCHANGED <<vars, now, signed>>, Sound(c),
         check' = [check EXCEPT ![g] = c],
         first' \in [Requests -> Times \union {None}], FirstInWindow'
  PROVE  SignedInv'
<1>1. SignedTypeOK'
  BY DEF SignedInv, SignedTypeOK
<1>2. \A h \in Checks : check'[h] = c \/ check'[h] = check[h]
  BY DEF SignedInv, SignedTypeOK
<1>3. \A d : Sound(d) => Sound(d)'
  BY DEF Sound, vars, Now
<1>4. \A h \in Checks : Sound(check[h])'
  BY <1>2, EachSound DEF Sound, vars, Now
<1> QED
  BY <1>1, <1>4, EachSoundNext

-----------------------------------------------------------------------------
(* Steps.                                                                  *)

\* auth-service goes on: what a check knows of its key is not forgotten.
LEMMA NextKeeps ==
  ASSUME SignedInv, CredentialsInv, Next, UNCHANGED sigVars
  PROVE  SignedInv'
<1>1. UNCHANGED <<now, signed, check, first>>
  BY DEF sigVars
<1>2. SignedTypeOK' /\ FirstInWindow'
  BY <1>1 DEF SignedInv, SignedTypeOK, FirstInWindow
<1>3. ASSUME NEW g \in Checks PROVE Sound(check[g])'
  <2>1. CASE check[g] = None
    BY <1>1, <2>1 DEF Sound
  <2>2. CASE check[g] # None
    <3>1. check[g] \in Check /\ Sound(check[g])
      BY <2>2, EachSound DEF SignedTypeOK
    <3>2. PICK a \in AccessKeys : a = signed[check[g].req].key
      BY <2>2, <3>1, EachSound DEF Sound, Check, SignedTypeOK, Signature
    <3>3. CASE credentials[a] = None
      <4>1. check[g].was = "unknown" /\ check[g].pc \notin {"verify", "admitted"}
        BY <2>2, <3>1, <3>2, <3>3 DEF Sound, Now
      <4> QED
        BY <1>1, <2>2, <3>1, <3>2, <4>1 DEF Sound
    <3>4. CASE credentials[a] # None
      <4>1. /\ credentials'[a] # None
            /\ credentials'[a].owner = credentials[a].owner
            /\ Now(a) = "revoked" => Now(a)' = "revoked"
            /\ Now(a) # "live" => Now(a)' # "live"
            /\ Now(a)' # "unknown"
        BY <3>4, KeysLast DEF vars
      <4> QED
        BY <1>1, <2>2, <3>1, <3>2, <4>1 DEF Sound
    <3> QED
      BY <3>3, <3>4
  <2> QED
    BY <2>1, <2>2
<1> QED
  BY <1>2, <1>3, EachSoundNext

\* The clock goes on: a date that was not too far ahead is not now.
LEMMA TickKeeps ==
  ASSUME SignedInv, Tick, UNCHANGED vars
  PROVE  SignedInv'
<1>1. UNCHANGED <<signed, check, first, credentials>> /\ now' = now + 1
  BY DEF Tick, vars
<1>2. SignedTypeOK' /\ FirstInWindow'
  BY <1>1, SignedAssumption DEF Tick, SignedInv, SignedTypeOK, FirstInWindow, Times
<1>3. ASSUME NEW g \in Checks PROVE Sound(check[g])'
  <2>1. CASE check[g] = None
    BY <1>1, <2>1 DEF Sound
  <2>2. CASE check[g] # None
    <3>1. Sound(check[g]) /\ signed[check[g].req] # None /\ check[g].req \in Requests
      BY <2>2, EachSound DEF Sound, SignedTypeOK, Check
    <3>2. signed[check[g].req].at \in Nat /\ now \in Nat /\ MaxSkew \in Nat
      BY <3>1, SignedAssumption DEF SignedInv, SignedTypeOK, Signature, Times
    <3>3. UNCHANGED Now(signed[check[g].req].key)
      BY <1>1 DEF Now
    <3> QED
      BY <1>1, <2>2, <3>1, <3>2, <3>3 DEF Sound
  <2> QED
    BY <2>1, <2>2
<1> QED
  BY <1>2, <1>3, EachSoundNext

\* No check is about a request that is not signed yet.
LEMMA SignKeeps ==
  ASSUME SignedInv, NEW r \in Requests, NEW s \in Signature, Sign(r, s), UNCHANGED vars
  PROVE  SignedInv'
<1>1. /\ UNCHANGED <<now, check, first, credentials>>
      /\ signed[r] = None
      /\ \A q \in Requests : q # r => signed'[q] = signed[q]
      /\ SignedTypeOK'
  BY DEF Sign, vars, SignedInv, SignedTypeOK
<1>2. FirstInWindow'
  BY <1>1 DEF SignedInv, FirstInWindow
<1>3. ASSUME NEW g \in Checks PROVE Sound(check[g])'
  <2>1. CASE check[g] = None
    BY <1>1, <2>1 DEF Sound
  <2>2. CASE check[g] # None
    <3>1. /\ Sound(check[g])
          /\ check[g].req \in Requests
          /\ signed[check[g].req] # None
      BY <2>2, EachSound DEF Sound, SignedTypeOK, Check
    <3>2. signed'[check[g].req] = signed[check[g].req]
      BY <1>1, <3>1
    <3> QED
      BY <1>1, <2>2, <3>1, <3>2 DEF Sound, Now
  <2> QED
    BY <2>1, <2>2
<1> QED
  BY <1>1, <1>2, <1>3, EachSoundNext

LEMMA ArriveKeeps ==
  ASSUME SignedInv, NEW g \in Checks, NEW r \in Requests, Arrive(g, r), UNCHANGED vars
  PROVE  SignedInv'
<1> DEFINE c == [pc |-> "lookup", req |-> r, user |-> None,
                 was |-> Now(signed[r].key),
                 early |-> signed[r].at > now + MaxSkew]
<1>1. /\ check' = [check EXCEPT ![g] = c]
      /\ UNCHANGED <<now, signed, first>>
      /\ signed[r] # None
  BY DEF Arrive
<1>2. c \in Check
  BY DEF Check, Now
<1>3. signed[r].at \in Nat /\ now \in Nat /\ MaxSkew \in Nat
  BY <1>1, SignedAssumption DEF SignedInv, SignedTypeOK, Signature, Times
<1>4. Sound(c)
  <2>1. c.req = r /\ c.pc = "lookup" /\ c.was = Now(signed[r].key)
    OBVIOUS
  <2>2. c.early <=> signed[r].at > now + MaxSkew
    OBVIOUS
  <2> HIDE DEF c
  <2> QED
    BY <1>1, <1>3, <2>1, <2>2 DEF Sound
<1>5. first' \in [Requests -> Times \union {None}] /\ FirstInWindow'
  BY <1>1 DEF SignedInv, SignedTypeOK, FirstInWindow
<1> HIDE DEF c
<1> QED
  BY <1>1, <1>2, <1>4, <1>5, OneCheck

\* What a check in progress is about.
LEMMA InProgress ==
  ASSUME SignedInv, NEW g \in Checks, check[g] # None
  PROVE  /\ check[g] \in Check
         /\ Sound(check[g])
         /\ check[g].req \in Requests
         /\ Of(g) \in Signature
         /\ now \in Nat /\ MaxSkew \in Nat
         /\ Of(g).at \in Nat
<1>1. check[g] \in Check /\ Sound(check[g]) /\ now \in Nat
  BY EachSound DEF SignedTypeOK, Times
<1>2. check[g].req \in Requests /\ signed[check[g].req] # None
  BY <1>1 DEF Sound, Check
<1> QED
  BY <1>1, <1>2, SignedAssumption DEF SignedInv, SignedTypeOK, Of, Signature, Times

\* A check that comes to its outcome, or to its verification, stays sound if the
\* outcome has its reason.
LEMMA OutcomeKeeps ==
  ASSUME SignedInv, NEW g \in Checks, check[g] # None, UNCHANGED <<vars, now, signed>>,
         NEW pc \in {"verify", "admitted", "denied", "unavailable"},
         NEW u \in Ids \union {None},
         check' = [check EXCEPT ![g] = [check[g] EXCEPT !.pc = pc, !.user = u]],
         first' \in [Requests -> Times \union {None}], FirstInWindow',
         pc \in {"verify", "admitted"} =>
            /\ check[g].was # "revoked"
            /\ credentials[Of(g).key] # None
            /\ credentials[Of(g).key].owner = u,
         pc = "admitted" => u = Of(g).by,
         pc = "denied" =>
            \/ check[g].was = "unknown" \/ check[g].early
            \/ now > Of(g).at + MaxSkew
            \/ Now(Of(g).key) # "live"
            \/ credentials[Of(g).key].owner # Of(g).by
  PROVE  SignedInv'
<1> DEFINE c == [check[g] EXCEPT !.pc = pc, !.user = u]
<1>1. check[g] \in Check /\ Sound(check[g])
  BY InProgress
<1>2. /\ c \in Check
      /\ c.pc = pc /\ c.user = u /\ c.req = check[g].req
      /\ c.was = check[g].was /\ c.early = check[g].early
  BY <1>1 DEF Check
<1>3. check' = [check EXCEPT ![g] = c]
  OBVIOUS
<1> HIDE DEF c
<1>4. Sound(c)
  BY <1>1, <1>2 DEF Sound, Of
<1> QED
  BY <1>2, <1>3, <1>4, OneCheck

\* The record of check g with a new outcome.
LEMMA Becoming ==
  ASSUME SignedInv, NEW g \in Checks, check[g] # None, NEW pc, Becomes(g, pc)
  PROVE  check' = [check EXCEPT ![g] = [check[g] EXCEPT !.pc = pc, !.user = check[g].user]]
<1>1. check[g] \in Check
  BY InProgress
<1>2. [check[g] EXCEPT !.pc = pc] = [check[g] EXCEPT !.pc = pc, !.user = check[g].user]
  BY <1>1 DEF Check
<1> QED
  BY <1>2 DEF Becomes

LEMMA LookupKeeps ==
  ASSUME SignedInv, CredentialsInv, NEW g \in Checks, Lookup(g) \/ LookupFails(g),
         UNCHANGED vars
  PROVE  SignedInv'
<1>1. /\ check[g] # None /\ check[g].pc = "lookup"
      /\ UNCHANGED <<vars, now, signed, first>>
  BY DEF Lookup, LookupFails, Doing
<1>2. /\ check[g] \in Check /\ Sound(check[g]) /\ Of(g) \in Signature
      /\ check[g].user \in Ids \union {None}
  BY <1>1, InProgress DEF Check
<1>3. first' \in [Requests -> Times \union {None}] /\ FirstInWindow'
  BY <1>1 DEF SignedInv, SignedTypeOK, FirstInWindow
<1>4. CASE /\ LiveKey(Of(g).key)
           /\ check' = [check EXCEPT ![g] = [@ EXCEPT !.pc = "verify",
                                   !.user = credentials[Of(g).key].owner]]
  <2>1. /\ credentials[Of(g).key] # None
        /\ ~credentials[Of(g).key].revoked
        /\ credentials[Of(g).key].owner \in Ids
    BY <1>2, <1>4 DEF LiveKey, CredentialsInv, TypeOK, Credential, Signature
  <2>2. check[g].was # "revoked"
    BY <1>1, <1>2, <2>1 DEF Sound, Now, Of
  <2> QED
    BY <1>1, <1>3, <1>4, <2>1, <2>2, OutcomeKeeps
<1>5. CASE ~LiveKey(Of(g).key) /\ Becomes(g, "denied")
  <2>1. Now(Of(g).key) # "live"
    BY <1>5 DEF LiveKey, Now
  <2> QED
    BY <1>1, <1>2, <1>3, <1>5, <2>1, Becoming, OutcomeKeeps
<1>6. CASE Becomes(g, "unavailable")
  BY <1>1, <1>2, <1>3, <1>6, Becoming, OutcomeKeeps
<1> QED
  BY <1>4, <1>5, <1>6 DEF Lookup, LookupFails

LEMMA VerifyKeeps ==
  ASSUME SignedInv, NEW g \in Checks, Verify(g), UNCHANGED vars
  PROVE  SignedInv'
<1>1. /\ check[g] # None /\ check[g].pc = "verify"
      /\ UNCHANGED <<vars, now, signed>>
  BY DEF Verify, Doing
<1>2. /\ Sound(check[g]) /\ Of(g) \in Signature
      /\ check[g].req \in Requests /\ now \in Nat /\ MaxSkew \in Nat /\ Of(g).at \in Nat
      /\ check[g].user \in Ids \union {None}
  BY <1>1, InProgress DEF Check
<1>3. /\ check[g].was # "revoked"
      /\ credentials[Of(g).key] # None
      /\ credentials[Of(g).key].owner = check[g].user
      /\ check[g].early \/ Of(g).at <= now + MaxSkew
      /\ signed[check[g].req] # None
  BY <1>1, <1>2 DEF Sound, Of
<1>4. CASE /\ Fresh(Of(g).at) /\ Of(g).by = check[g].user
           /\ Becomes(g, "admitted")
           /\ first' = [first EXCEPT ![check[g].req] = IF @ = None THEN now ELSE @]
  <2>1. first' \in [Requests -> Times \union {None}]
    BY <1>2, <1>4 DEF SignedInv, SignedTypeOK
  <2>2. FirstInWindow'
    BY <1>1, <1>2, <1>3, <1>4 DEF SignedInv, SignedTypeOK, FirstInWindow, Fresh, Of
  <2> QED
    BY <1>1, <1>2, <1>3, <1>4, <2>1, <2>2, Becoming, OutcomeKeeps
<1>5. CASE /\ ~(Fresh(Of(g).at) /\ Of(g).by = check[g].user)
           /\ Becomes(g, "denied")
           /\ UNCHANGED first
  <2>1. first' \in [Requests -> Times \union {None}] /\ FirstInWindow'
    BY <1>1, <1>5 DEF SignedInv, SignedTypeOK, FirstInWindow
  <2>2. \/ check[g].early
        \/ now > Of(g).at + MaxSkew
        \/ credentials[Of(g).key].owner # Of(g).by
    BY <1>2, <1>3, <1>5 DEF Fresh
  <2> QED
    BY <1>1, <1>2, <1>5, <2>1, <2>2, Becoming, OutcomeKeeps
<1> QED
  BY <1>4, <1>5 DEF Verify

\* Checks that end, in order or with the process.
LEMMA EndKeeps ==
  ASSUME SignedInv, UNCHANGED <<vars, now, signed, first>>,
         \A g \in Checks : check'[g] = check[g] \/ check'[g] = None,
         check' \in [Checks -> Check \union {None}]
  PROVE  SignedInv'
<1>1. SignedTypeOK' /\ FirstInWindow'
  BY DEF SignedInv, SignedTypeOK, FirstInWindow
<1>2. ASSUME NEW g \in Checks PROVE Sound(check[g])'
  BY EachSound DEF Sound, vars, Now
<1> QED
  BY <1>1, <1>2, EachSoundNext

-----------------------------------------------------------------------------
(* The theorems.                                                           *)

\* The inductive invariant: what a check has found out about its key stays true
\* while keys are issued and revoked, and its outcome has its reason.
THEOREM SignedInvariance == SignedSpec => []SignedInv
<1>1. SignedInv /\ CredentialsInv /\ [SignedNext]_<<vars, sigVars>> => SignedInv'
  <2> SUFFICES ASSUME SignedInv, CredentialsInv, [SignedNext]_<<vars, sigVars>>
               PROVE  SignedInv'
    OBVIOUS
  <2>1. CASE Next /\ UNCHANGED sigVars
    BY <2>1, NextKeeps
  <2>2. CASE Checking /\ UNCHANGED vars
    <3>1. ASSUME NEW g \in Checks, Done(g) PROVE SignedInv'
      BY <2>2, <3>1, EndKeeps DEF Done, SignedInv, SignedTypeOK
    <3>2. CASE RestartGateway
      BY <2>2, <3>2, EndKeeps DEF RestartGateway
    <3> QED
      BY <2>2, <3>1, <3>2, TickKeeps, SignKeeps, ArriveKeeps, LookupKeeps, VerifyKeeps
         DEF Checking
  <2>3. CASE UNCHANGED <<vars, sigVars>>
    BY <2>3, EndKeeps DEF sigVars, SignedInv, SignedTypeOK
  <2> QED
    BY <2>1, <2>2, <2>3 DEF SignedNext
<1> QED
  BY <1>1, SignedInitially, CredentialsInSigned, Invariance, PTL DEF SignedSpec

\* A handler acts as the owner of the key, who signed.
THEOREM PrincipalSigned == SignedSpec => []ActsForSigner
<1>1. SignedInv => ActsForSigner
  BY DEF SignedInv
<1> QED
  BY <1>1, SignedInvariance, PTL

\* A request that comes after a revocation is not admitted.
THEOREM RevocationsStop == SignedSpec => []RevocationStops
<1>1. SignedInv => RevocationStops
  BY DEF SignedInv
<1> QED
  BY <1>1, SignedInvariance, PTL

\* A 401 has its reason.
THEOREM DenialsHaveReason == SignedSpec => []DenialsJustified
<1>1. SignedInv => DenialsJustified
  BY DEF SignedInv
<1> QED
  BY <1>1, SignedInvariance, PTL

\* A request is admitted within two windows of its first admission.
THEOREM ReplaysAreOver == SignedSpec => ReplaysEnd
<1> DEFINE Over == \A g \in Checks :
                      /\ Doing(g, "verify")
                      /\ Doing(g, "admitted")'
                      /\ first[check[g].req] # None
                      => now <= first[check[g].req] + 2 * MaxSkew
<1>1. SignedInv /\ [SignedNext]_<<vars, sigVars>> => [Over]_<<vars, sigVars>>
  <2> SUFFICES ASSUME SignedInv, SignedNext, NEW g \in Checks,
                      check[g] # None, check[g].pc = "verify",
                      check'[g] # None, check'[g].pc = "admitted",
                      first[check[g].req] # None
               PROVE  now <= first[check[g].req] + 2 * MaxSkew
    BY DEF Doing
  <2>1. /\ check[g].req \in Requests /\ Of(g) \in Signature
        /\ now \in Nat /\ MaxSkew \in Nat /\ Of(g).at \in Nat
    BY InProgress
  <2>2. Fresh(Of(g).at)
    <3>1. check' # check
      OBVIOUS
    <3>2. PICK h \in Checks : Verify(h)
      <4>1. ASSUME NEW h \in Checks,
                   \/ \E r \in Requests : Arrive(h, r)
                   \/ Lookup(h) \/ LookupFails(h) \/ Done(h)
            PROVE  FALSE
        BY <4>1 DEF Arrive, Lookup, LookupFails, Done, Doing, Becomes, SignedInv, SignedTypeOK
      <4> QED
        BY <3>1, <4>1 DEF SignedNext, Checking, sigVars, Tick, Sign, RestartGateway
    <3>3. h = g
      BY <3>2 DEF Verify, Becomes, SignedInv, SignedTypeOK
    <3> QED
      BY <3>2, <3>3, InProgress DEF Verify, Becomes, SignedInv, SignedTypeOK, Check
  <2>3. first[check[g].req] \in Nat /\ Of(g).at <= first[check[g].req] + MaxSkew
    BY <2>1 DEF SignedInv, SignedTypeOK, FirstInWindow, Times, Of
  <2> QED
    BY <2>1, <2>2, <2>3 DEF Fresh
<1> QED
  BY <1>1, SignedInvariance, PTL DEF SignedSpec, ReplaysEnd
=============================================================================
