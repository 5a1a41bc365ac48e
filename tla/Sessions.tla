------------------------------ MODULE Sessions ------------------------------
(***************************************************************************)
(* auth-service: access and refresh tokens.                                *)
(*                                                                         *)
(* Nothing about a session is stored: a token is a signed record, good     *)
(* until it expires, however often and by whomever it is presented.  What  *)
(* ends a session is arithmetic: the lifetimes, the comparison with the    *)
(* clock, and the type that keeps an access token from minting another.    *)
(***************************************************************************)
EXTENDS Naturals

CONSTANTS
    Users,              \* the registered users; none is ever removed
    AccessTTL,          \* accessTokenTTL
    RefreshTTL,         \* refreshTokenTTL
    MaxTime,            \* bound on the clock
    None

ASSUME SessionsAssumption ==
    /\ AccessTTL \in Nat
    /\ RefreshTTL \in Nat
    /\ MaxTime \in Nat
    /\ None \notin Users

VARIABLES
    now,                \* the clock, in seconds
    tokens,             \* every token minted so far
    admitted            \* the user requireAuth last let through, and when

vars == <<now, tokens, admitted>>

\* since is history: when the login took place that the token goes back to.
Token == [type : {"access", "refresh"}, sub : Users, exp : Nat, since : Nat]

TypeOK ==
    /\ now \in 0..MaxTime
    /\ tokens \subseteq Token
    /\ admitted \in [sub : Users, at : Nat, since : Nat] \union {None}

Init ==
    /\ now = 0
    /\ tokens = {}
    /\ admitted = None

Tick ==
    /\ now < MaxTime
    /\ now' = now + 1
    /\ UNCHANGED <<tokens, admitted>>

\* The bug of a mint that leaves the type claim empty.
AccessTokenUntyped(u, since) ==
    [type |-> "", sub |-> u, exp |-> now + AccessTTL, since |-> since]

AccessToken(u, since) ==
    [type |-> "access", sub |-> u, exp |-> now + AccessTTL, since |-> since]

RefreshToken(u, since) ==
    [type |-> "refresh", sub |-> u, exp |-> now + RefreshTTL, since |-> since]

\* The bug of a parse that does not compare the types.
ParsesAnyType(t, want) == now < t.exp

\* jwtIssuer.parse: the signature is good, exp has not come and the type is
\* the wanted one.
Parses(t, want) ==
    /\ now < t.exp
    /\ t.type = want

\* authService.Login with the right password; with a wrong one nothing
\* happens.
Login(u) ==
    /\ tokens' = tokens \union {AccessToken(u, now), RefreshToken(u, now)}
    /\ UNCHANGED <<now, admitted>>

\* The bug of a refresh that starts the session over.
RefreshRotates(t) ==
    /\ Parses(t, "refresh")
    /\ tokens' = tokens \union {AccessToken(t.sub, t.since),
                                RefreshToken(t.sub, t.since)}
    /\ UNCHANGED <<now, admitted>>

\* authService.Refresh: a new access token, and the refresh token stays good.
Refresh(t) ==
    /\ Parses(t, "refresh")
    /\ tokens' = tokens \union {AccessToken(t.sub, t.since)}
    /\ UNCHANGED <<now, admitted>>

\* requireAuth.
Admit(t) ==
    /\ Parses(t, "access")
    /\ admitted' = [sub |-> t.sub, at |-> now, since |-> t.since]
    /\ UNCHANGED <<now, tokens>>

Next ==
    \/ Tick
    \/ \E u \in Users : Login(u)
    \/ \E t \in tokens : Refresh(t) \/ Admit(t)

Spec == Init /\ [][Next]_vars

-----------------------------------------------------------------------------
(* Properties.                                                             *)

Lifetime(t) == IF t.type = "access" THEN RefreshTTL + AccessTTL ELSE RefreshTTL

\* However tokens are refreshed, none goes beyond what its login allows: the
\* refresh token's lifetime, and one more access token's.
TokensEnd == \A t \in tokens : t.exp <= t.since + Lifetime(t)

\* A request is let through only within that time of a login by its user, so
\* a session ends by itself although nothing is revoked.
SessionEnds ==
    admitted # None =>
        /\ admitted.at < admitted.since + RefreshTTL + AccessTTL
        /\ \E t \in tokens : /\ t.type = "refresh"
                             /\ t.sub = admitted.sub
                             /\ t.since = admitted.since
                             /\ t.exp = t.since + RefreshTTL
=============================================================================
