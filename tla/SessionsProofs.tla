--------------------------- MODULE SessionsProofs ---------------------------
(***************************************************************************)
(* Proofs about auth-service's tokens, for all lifetimes and users.  Each  *)
(* token goes back to a login whose refresh token was minted with it; no   *)
(* chain of refreshes outlives that one by more than an access token.      *)
(***************************************************************************)
EXTENDS Sessions, TLAPS

\* A token has the refresh token of its login beside it.
Rooted(t) == \E r \in tokens : /\ r.type = "refresh"
                               /\ r.sub = t.sub
                               /\ r.since = t.since
                               /\ r.exp = t.since + RefreshTTL

\* The inductive invariant.
SessionsInv ==
    /\ TypeOK
    /\ TokensEnd
    /\ \A t \in tokens : Rooted(t)
    /\ SessionEnds

\* A freshly minted token is a token, and lives as long as its type allows.
LEMMA Minted ==
    ASSUME TypeOK, NEW u \in Users, NEW since \in Nat
    PROVE  /\ AccessToken(u, since) \in Token
           /\ RefreshToken(u, since) \in Token
           /\ AccessToken(u, since).exp = now + AccessTTL
           /\ RefreshToken(u, since).exp = now + RefreshTTL
<1>1. now \in Nat
  BY SessionsAssumption DEF TypeOK
<1>2. QED
  BY <1>1, SessionsAssumption DEF AccessToken, RefreshToken, Token

\* A login mints a pair that starts a session now.
LEMMA LoginStep ==
    ASSUME SessionsInv, NEW u \in Users, Login(u)
    PROVE  SessionsInv'
<1> DEFINE a == AccessToken(u, now)
           r == RefreshToken(u, now)
<1>1. now \in Nat /\ tokens \subseteq Token
  BY SessionsAssumption DEF SessionsInv, TypeOK
<1>2. a \in Token /\ r \in Token /\ tokens' = tokens \union {a, r}
  BY <1>1, Minted DEF SessionsInv, Login
<1>3. UNCHANGED <<now, admitted>>
  BY DEF Login
<1>4. TypeOK'
  BY <1>2, <1>3 DEF SessionsInv, TypeOK
<1>5. /\ a.type = "access" /\ a.sub = u /\ a.since = now /\ a.exp = now + AccessTTL
      /\ r.type = "refresh" /\ r.sub = u /\ r.since = now /\ r.exp = now + RefreshTTL
  BY DEF AccessToken, RefreshToken
<1>6. TokensEnd'
  BY <1>1, <1>2, <1>5, SessionsAssumption DEF SessionsInv, TokensEnd, Lifetime
<1>7. (\A t \in tokens : Rooted(t))'
  BY <1>2, <1>5 DEF SessionsInv, Rooted
<1>8. SessionEnds'
  BY <1>2, <1>3 DEF SessionsInv, SessionEnds
<1>9. QED
  BY <1>4, <1>6, <1>7, <1>8 DEF SessionsInv

\* A refresh goes by a refresh token that has not expired.
LEMMA RefreshStep ==
    ASSUME SessionsInv, NEW t \in tokens, Refresh(t)
    PROVE  SessionsInv'
<1> DEFINE a == AccessToken(t.sub, t.since)
<1>1. now \in Nat /\ tokens \subseteq Token
  BY SessionsAssumption DEF SessionsInv, TypeOK
<1>2. t.sub \in Users /\ t.since \in Nat /\ t.exp \in Nat
  BY <1>1 DEF Token
<1>3. a \in Token /\ tokens' = tokens \union {a}
  BY <1>2, Minted DEF SessionsInv, Refresh
<1>4. UNCHANGED <<now, admitted>>
  BY DEF Refresh
<1>5. TypeOK'
  BY <1>3, <1>4 DEF SessionsInv, TypeOK
<1>6. /\ a.type = "access" /\ a.sub = t.sub /\ a.since = t.since
      /\ a.exp = now + AccessTTL
  BY DEF AccessToken
<1>7. now < t.since + RefreshTTL
  <2>1. now < t.exp /\ t.type = "refresh"
    BY DEF Refresh, Parses
  <2>2. t.exp <= t.since + RefreshTTL
    BY <2>1 DEF SessionsInv, TokensEnd, Lifetime
  <2>3. QED
    BY <1>1, <1>2, <2>1, <2>2, SessionsAssumption
<1>8. TokensEnd'
  <2>1. a.exp <= a.since + (RefreshTTL + AccessTTL)
    BY <1>1, <1>2, <1>6, <1>7, SessionsAssumption
  <2>2. QED
    BY <1>3, <1>6, <2>1 DEF SessionsInv, TokensEnd, Lifetime
<1>9. (\A s \in tokens : Rooted(s))'
  BY <1>3, <1>6 DEF SessionsInv, Rooted
<1>10. SessionEnds'
  BY <1>3, <1>4 DEF SessionsInv, SessionEnds
<1>11. QED
  BY <1>5, <1>8, <1>9, <1>10 DEF SessionsInv

\* An admission goes by an access token that has not expired.
LEMMA AdmitStep ==
    ASSUME SessionsInv, NEW t \in tokens, Admit(t)
    PROVE  SessionsInv'
<1>1. now \in Nat /\ tokens \subseteq Token
  BY SessionsAssumption DEF SessionsInv, TypeOK
<1>2. t.sub \in Users /\ t.since \in Nat /\ t.exp \in Nat
  BY <1>1 DEF Token
<1>3. /\ admitted' = [sub |-> t.sub, at |-> now, since |-> t.since]
      /\ UNCHANGED <<now, tokens>>
      /\ now < t.exp /\ t.type = "access"
  BY DEF Admit, Parses
<1>4. TypeOK'
  BY <1>1, <1>2, <1>3 DEF SessionsInv, TypeOK
<1>5. admitted'.at < admitted'.since + RefreshTTL + AccessTTL
  <2>1. t.exp <= t.since + (RefreshTTL + AccessTTL)
    BY <1>3 DEF SessionsInv, TokensEnd, Lifetime
  <2>2. QED
    BY <1>1, <1>2, <1>3, <2>1, SessionsAssumption
<1>6. SessionEnds'
  BY <1>3, <1>5 DEF SessionsInv, Rooted, SessionEnds
<1>7. QED
  BY <1>3, <1>4, <1>6 DEF SessionsInv, TokensEnd, Rooted

\* The clock does not touch the tokens.
LEMMA TickStep ==
    ASSUME SessionsInv, Tick
    PROVE  SessionsInv'
<1>1. now' \in 0..MaxTime /\ UNCHANGED <<tokens, admitted>>
  BY SessionsAssumption DEF SessionsInv, TypeOK, Tick
<1>2. QED
  BY <1>1 DEF SessionsInv, TypeOK, TokensEnd, Rooted, SessionEnds

\* The invariant.
THEOREM Invariance == Spec => []SessionsInv
<1>1. Init => SessionsInv
  BY SessionsAssumption DEF Init, SessionsInv, TypeOK, TokensEnd, SessionEnds
<1>2. SessionsInv /\ [Next]_vars => SessionsInv'
  <2>1. SessionsInv /\ UNCHANGED vars => SessionsInv'
    BY DEF vars, SessionsInv, TypeOK, TokensEnd, Rooted, SessionEnds
  <2>2. QED
    BY <2>1, LoginStep, RefreshStep, AdmitStep, TickStep DEF Next
<1>3. QED
  BY <1>1, <1>2, PTL DEF Spec

\* The clock, the tokens and the last admission stay well typed.
THEOREM TypeCorrect == Spec => []TypeOK
<1>1. SessionsInv => TypeOK
  BY DEF SessionsInv
<1>2. QED
  BY <1>1, Invariance, PTL

\* No token outlives what its login allows, whatever the lifetimes.
THEOREM TokensExpire == Spec => []TokensEnd
<1>1. SessionsInv => TokensEnd
  BY DEF SessionsInv
<1>2. QED
  BY <1>1, Invariance, PTL

\* No request is let through later than that.
THEOREM SessionsExpire == Spec => []SessionEnds
<1>1. SessionsInv => SessionEnds
  BY DEF SessionsInv
<1>2. QED
  BY <1>1, Invariance, PTL
=============================================================================
