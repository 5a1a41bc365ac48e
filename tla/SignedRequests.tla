--------------------------- MODULE SignedRequests ---------------------------
(***************************************************************************)
(* api-service's requireSigV4 over the access keys of auth-service.        *)
(*                                                                         *)
(* A request names an access key and a date and is signed with a secret.   *)
(* The gateway asks auth-service for the owner and the secret of the key,  *)
(* then compares the date with its clock and the signature with its own.   *)
(* Keys are issued and revoked meanwhile, the lookup may fail, and whoever *)
(* has a signed request may send it again.                                 *)
(*                                                                         *)
(* The secret of a key is its owner's, so a signature is that of its       *)
(* signer.  What the signature covers is abstracted.                       *)
(***************************************************************************)
EXTENDS Credentials

CONSTANTS
    Requests,           \* the requests that are signed
    Checks,             \* goroutines of api-service that authenticate one
    MaxSkew,            \* maxClockSkew
    MaxTime             \* bound on the clock and on dates

VARIABLES
    now,                \* the clock of api-service
    signed,             \* the requests signed so far
    check,              \* what each goroutine is doing
    first               \* history: when a request was first admitted

sigVars == <<now, signed, check, first>>

Times == 0..MaxTime

Signature == [key : AccessKeys, by : Ids, at : Times]

\* was and early are history: what the key was when the request came, and
\* whether its date was too far ahead.
Check == [pc : {"lookup", "verify", "admitted", "denied", "unavailable"},
          req : Requests, user : Ids \union {None},
          was : {"unknown", "live", "revoked"}, early : BOOLEAN]

ASSUME SignedAssumption ==
    /\ MaxSkew \in Nat
    /\ MaxTime \in Nat
    /\ None \notin Signature \union Check \union Times

SignedTypeOK ==
    /\ now \in Times
    /\ signed \in [Requests -> Signature \union {None}]
    /\ check \in [Checks -> Check \union {None}]
    /\ first \in [Requests -> Times \union {None}]

SignedInit ==
    /\ Init
    /\ now = 0
    /\ signed = [r \in Requests |-> None]
    /\ check = [g \in Checks |-> None]
    /\ first = [r \in Requests |-> None]

Doing(g, pc) == check[g] # None /\ check[g].pc = pc

Becomes(g, pc) == check' = [check EXCEPT ![g].pc = pc]

Of(g) == signed[check[g].req]

-----------------------------------------------------------------------------

Tick ==
    /\ now < MaxTime
    /\ now' = now + 1
    /\ UNCHANGED <<signed, check, first>>

\* A client signs a request, by its own clock; the key need not be one it owns.
Sign(r, s) ==
    /\ signed[r] = None
    /\ signed' = [signed EXCEPT ![r] = s]
    /\ UNCHANGED <<now, check, first>>

Now(a) == IF credentials[a] = None THEN "unknown"
          ELSE IF credentials[a].revoked THEN "revoked" ELSE "live"

\* A well-formed request for this region and service comes, perhaps again.
\* Any other is answered 401 at once and changes nothing.
Arrive(g, r) ==
    /\ check[g] = None
    /\ signed[r] # None
    /\ check' = [check EXCEPT ![g] =
                   [pc |-> "lookup", req |-> r, user |-> None,
                    was |-> Now(signed[r].key),
                    early |-> signed[r].at > now + MaxSkew]]
    /\ UNCHANGED <<now, signed, first>>

\* The bug of a lookup that does not read RevokedAt.
LookupRevoked(g) ==
    /\ Doing(g, "lookup")
    /\ LET a == Of(g).key
       IN  \/ /\ credentials[a] # None
              /\ check' = [check EXCEPT ![g] = [@ EXCEPT !.pc = "verify",
                                                         !.user = credentials[a].owner]]
           \/ /\ credentials[a] = None
              /\ Becomes(g, "denied")
    /\ UNCHANGED <<now, signed, first>>

\* LookupCredential, in one transaction of auth-service; an unknown key is a
\* 401.
Lookup(g) ==
    /\ Doing(g, "lookup")
    /\ LET a == Of(g).key
       IN  \/ /\ LiveKey(a)
              /\ check' = [check EXCEPT ![g] = [@ EXCEPT !.pc = "verify",
                                                         !.user = credentials[a].owner]]
           \/ /\ ~LiveKey(a)
              /\ Becomes(g, "denied")
    /\ UNCHANGED <<now, signed, first>>

\* The bug of taking every failed lookup for an unknown key.
LookupFailsDenied(g) ==
    /\ Doing(g, "lookup")
    /\ Becomes(g, "denied")
    /\ UNCHANGED <<now, signed, first>>

\* auth-service is down, slow, or answers otherwise: 502.
LookupFails(g) ==
    /\ Doing(g, "lookup")
    /\ Becomes(g, "unavailable")
    /\ UNCHANGED <<now, signed, first>>

\* The bug of a window that is open to the future.
FreshOneSided(at) == now <= at + MaxSkew

\* sigv4.Verify: the date is at most MaxSkew away, to either side.
Fresh(at) == now <= at + MaxSkew /\ at <= now + MaxSkew

Verify(g) ==
    /\ Doing(g, "verify")
    /\ \/ /\ Fresh(Of(g).at) /\ Of(g).by = check[g].user
          /\ Becomes(g, "admitted")
          /\ first' = [first EXCEPT ![check[g].req] = IF @ = None THEN now ELSE @]
       \/ /\ ~(Fresh(Of(g).at) /\ Of(g).by = check[g].user)
          /\ Becomes(g, "denied")
          /\ UNCHANGED first
    /\ UNCHANGED <<now, signed>>

\* The handler has run as the principal, or the refusal is written.
Done(g) ==
    /\ check[g] # None
    /\ check[g].pc \in {"admitted", "denied", "unavailable"}
    /\ check' = [check EXCEPT ![g] = None]
    /\ UNCHANGED <<now, signed, first>>

\* api-service stops and starts again.
RestartGateway ==
    /\ check' = [g \in Checks |-> None]
    /\ UNCHANGED <<now, signed, first>>

Checking ==
    \/ Tick
    \/ \E r \in Requests, s \in Signature : Sign(r, s)
    \/ \E g \in Checks :
         \/ \E r \in Requests : Arrive(g, r)
         \/ Lookup(g) \/ LookupFails(g) \/ Verify(g) \/ Done(g)
    \/ RestartGateway

SignedNext ==
    \/ Checking /\ UNCHANGED vars
    \/ Next /\ UNCHANGED sigVars

SignedSpec == SignedInit /\ [][SignedNext]_<<vars, sigVars>>

-----------------------------------------------------------------------------
(* Properties.                                                             *)

\* The principal a handler acts as signed the request and owns the key, also
\* when the key is revoked between the lookup and the handler.
ActsForSigner ==
    \A g \in Checks : Doing(g, "admitted") =>
        /\ check[g].user = Of(g).by
        /\ credentials[Of(g).key] # None
        /\ credentials[Of(g).key].owner = check[g].user

\* A revocation takes effect at once: a request that comes after it is never
\* admitted, however fresh its signature.
RevocationStops ==
    \A g \in Checks : Doing(g, "admitted") => check[g].was # "revoked"

\* A 401 has its reason: the key was unknown when the request came or has been
\* revoked, somebody else signed, or the date is out of the window.  An outage
\* of auth-service is none.
DenialsJustified ==
    \A g \in Checks : Doing(g, "denied") =>
        \/ check[g].was = "unknown" \/ check[g].early
        \/ now > Of(g).at + MaxSkew
        \/ Now(Of(g).key) # "live"
        \/ credentials[Of(g).key].owner # Of(g).by

\* A request that is sent again is admitted for two windows at most, whatever
\* the clock it was signed by.
ReplaysEnd ==
    [][\A g \in Checks :
          /\ Doing(g, "verify")
          /\ Doing(g, "admitted")'
          /\ first[check[g].req] # None
          => now <= first[check[g].req] + 2 * MaxSkew]_<<vars, sigVars>>

-----------------------------------------------------------------------------
(* The inductive invariant.                                                *)

\* What a check has found out about its key still holds of it.
KeyStillKnown ==
    \A g \in Checks : check[g] # None =>
        /\ signed[check[g].req] # None
        /\ check[g].pc \in {"verify", "admitted"} =>
             /\ check[g].was # "revoked"
             /\ credentials[Of(g).key] # None
             /\ credentials[Of(g).key].owner = check[g].user
        /\ check[g].was = "revoked" => Now(Of(g).key) = "revoked"
        /\ check[g].was # "unknown" => Now(Of(g).key) # "unknown"
        /\ check[g].early \/ Of(g).at <= now + MaxSkew

\* A request was first admitted within the window of its date.
FirstInWindow ==
    \A r \in Requests : first[r] # None =>
        /\ signed[r] # None
        /\ signed[r].at <= first[r] + MaxSkew

SignedInv ==
    /\ SignedTypeOK
    /\ KeyStillKnown
    /\ FirstInWindow
    /\ ActsForSigner
    /\ RevocationStops
    /\ DenialsJustified
=============================================================================
