-------------------------- MODULE RequestPath_proofs --------------------------
(***************************************************************************)
(* What RequestPath guarantees for all configurations, tokens, tools, apps   *)
(* and any number of authorization servers.                                 *)
(***************************************************************************)
EXTENDS RequestPath, TLAPS

\* The parts of the middleware after the first decision, where a token is examined.
Examining == stage \in {"body", "keys", "jwks", "scopes"}

\* The request is with the dispatcher, or was.
Served == \/ stage \in {"dispatch", "execute"}
          \/ ran # Nothing \/ upstream # "none" \/ listed # {} \/ read # "none"

\* The call that the middleware has to decide on: that of enforced headers, else that
\* of the body, when there was a reason to read it.
PeekIsRight ==
  IF HeaderPeek # NoCall THEN peek = HeaderPeek
  ELSE NeedsBody => peek = request.body

\* What is served is well-formed, was let in, and is what the body asks for.
ServeInv ==
  /\ Served =>
       /\ stage \in {"dispatch", "execute", "done"}
       /\ request.verb = "POST" /\ request.body # Malformed
       /\ request.modern => request.head \in {NoCall, request.body}
       /\ granted # "nobody"
  /\ stage = "transport" => granted # "nobody"
  /\ ran # Nothing => request.body = [method |-> "tools/call", name |-> ran.name]
  /\ listed # {} => request.body.method = "tools/list"
  /\ read = "resource" => request.body.method = "resources/read"
  /\ read = "prompt" => request.body.method = "prompts/get"

\* Reasons to let a request in that has no token, or of which the token does not matter.
Excused ==
  \/ Exempt
  \/ ~Tokened /\ MatchesSkipList(IF HeaderPeek # NoCall THEN HeaderPeek ELSE request.body)

\* Why a request was let in.
GrantInv ==
  /\ stage \in {"cors", "gate"} \/ Examining => granted = "nobody"
  /\ stage = "body" => NeedsBody /\ peek = HeaderPeek
  /\ stage \in {"keys", "jwks", "scopes"} /\ Tokened => PeekIsRight
  /\ granted = "token" =>
       /\ Tokened /\ PeekIsRight
       /\ GlobalSatisfied(request.token.scopes)
       /\ OperationSatisfied(peek, request.token.scopes)
  /\ granted = "anonymous" => Excused

\* The token is verified with the key of one server, is for this server and names the
\* issuer of that same server.
Vouched ==
  LET t == request.token IN
  /\ t.fresh /\ t.signer = Len(keys) /\ keys[t.signer] = "key"
  /\ config.anyAudience \/ t.aud = "ours"
  /\ config.issuers # {} => t.iss = t.signer /\ t.iss \in config.issuers

\* A token that its server would vouch for.
Good ==
  LET t == request.token IN
  /\ t.fresh /\ t.signer # 0
  /\ config.anyAudience \/ t.aud = "ours"
  /\ config.issuers # {} => t.iss = t.signer /\ t.iss \in config.issuers

\* The servers asked so far did not give the key of a good token.
NotYet == Good /\ request.token.signer <= Len(keys) => keys[request.token.signer] # "key"

KeyInv ==
  /\ stage \in {"cors", "gate", "body"} => keys = <<>>
  /\ stage \in {"keys", "jwks"} => Len(keys) < NServers /\ NotYet
  /\ stage = "jwks" => metadata.issuer = Trying
  /\ stage \in {"jwks", "scopes"} => Tokened
  /\ stage = "scopes" \/ granted = "token" => Vouched

\* Who is denied, and after what.
DeniedInv ==
  /\ stage # "done" => answer = 0
  /\ stage = "gate" \/ Examining \/ answer \in {401, 403} =>
       ~(config.cors /\ request.verb = "OPTIONS")
  /\ Examining \/ answer \in {401, 403} => ~Exempt
  /\ answer = 401 /\ Tokened /\ Good =>
       Len(keys) >= request.token.signer /\ keys[request.token.signer] # "key"
  /\ answer = 403 =>
       LET t == request.token IN
       IF GlobalSatisfied(t.scopes) THEN OperationSatisfied(peek, t.scopes \cup challenge)
                                    ELSE GlobalSatisfied(t.scopes \cup challenge)

PathInv == TypeOK /\ ServeInv /\ GrantInv /\ KeyInv /\ DeniedInv

-----------------------------------------------------------------------------
USE PathAssumption DEF keyVars, gateVars, runVars, vars, Same, GoOn, Answer, Keep, Refuse,
    Unauthorized, PassAnonymous, PassToken

\* What a request is made of.
LEMMA RequestParts ==
  ASSUME request \in Requests
  PROVE  /\ request.verb \in {"OPTIONS", "GET", "DELETE", "POST"}
         /\ request.body \in Calls \cup {NoCall, Malformed}
         /\ request.head \in Calls \cup {NoCall, Malformed}
         /\ request.verb = "POST" => request.body \in Calls \cup {Malformed}
         /\ request.verb # "POST" => request.head = NoCall
         /\ request.token \in Tokens \cup {NoToken}
BY DEF Requests

\* What a token is made of.
LEMMA TokenParts ==
  ASSUME request \in Requests, Tokened
  PROVE  /\ request.token.signer \in 0..NServers
         /\ request.token.scopes \in SUBSET Scopes
         /\ request.token.aud \in {"ours", "other", "missing"}
<1>1. request.token \in Tokens
  BY RequestParts DEF Tokened
<1>2. request.token \in TokenType
  BY <1>1
<1> QED BY <1>2 DEF TokenType

\* A call names one of the tools, or is of another method.
LEMMA CallParts ==
  ASSUME NEW p \in Calls
  PROVE  /\ p.method = "tools/call" => p.name \in Names
         /\ p = [method |-> p.method, name |-> p.name]
BY DEF Calls

\* A key that was tried is added to those before it.
LEMMA KeysGrow ==
  ASSUME TypeOK, NEW k \in {"key", "unusable", "none"}, Len(keys) < NServers
  PROVE  /\ Append(keys, k) \in Seq({"key", "unusable", "none"})
         /\ Len(Append(keys, k)) = Len(keys) + 1
         /\ Len(Append(keys, k)) <= NServers
         /\ Append(keys, k)[Len(keys) + 1] = k
         /\ \A i \in 1..Len(keys) : Append(keys, k)[i] = keys[i]
<1>1. keys \in Seq({"key", "unusable", "none"})
  BY DEF TypeOK
<1> QED BY <1>1

\* There is metadata, or none.
LEMMA NoMetadataType == NoMetadata \in [issuer : 0..OtherIssuer, algs : AlgLists]
BY DEF NoMetadata, AlgLists, NoIssuer, OtherIssuer

\* Asking the next server keeps the types.
LEMMA NextServerType ==
  ASSUME TypeOK, NEW k \in {"key", "unusable", "none"}, Len(keys) < NServers,
         NextServer(k), Same, UNCHANGED <<peek, runVars>>
  PROVE  TypeOK'
<1>1. config.scopes \in SUBSET Scopes
  BY DEF TypeOK, ConfigType
<1>2. NoMetadata \in [issuer : 0..OtherIssuer, algs : AlgLists]
  BY NoMetadataType
<1>3. keys' \in Seq({"key", "unusable", "none"}) /\ Len(keys') <= NServers
  BY KeysGrow DEF NextServer
<1>4. /\ stage' \in {"keys", "done"} /\ answer' \in {answer, 401}
      /\ challenge' \in {challenge, config.scopes} /\ granted' = granted
      /\ tried' = 0 /\ metadata' = NoMetadata
  BY DEF NextServer
<1> QED BY <1>1, <1>2, <1>3, <1>4 DEF TypeOK

\* The transport answers, or hands a POST that is well-formed to the dispatcher.
LEMMA TransportParts ==
  ASSUME request \in Requests, Transport
  PROVE  \/ stage' = "done" /\ answer' \in {200, 400, 405} /\ challenge' = challenge
         \/ /\ stage' = "dispatch" /\ UNCHANGED <<answer, challenge>>
            /\ request.verb = "POST" /\ request.body # Malformed
            /\ request.modern => request.head \in {NoCall, request.body}
<1>1. request.verb \in {"OPTIONS", "GET", "DELETE", "POST"}
  BY RequestParts
<1>2. CASE request.verb = "OPTIONS"
  BY <1>2 DEF Transport
<1>3. CASE request.verb \in {"GET", "DELETE"}
  BY <1>3 DEF Transport
<1>4. CASE request.verb = "POST"
  BY <1>4 DEF Transport
<1> QED BY <1>1, <1>2, <1>3, <1>4

\* Every variable keeps its type.
LEMMA TypeStep ==
  ASSUME TypeOK, KeyInv, [Next]_vars
  PROVE  TypeOK'
<1>0. config \in ConfigType
  BY DEF TypeOK
<1> USE DEF TypeOK
<1>1. CASE CorsLayer
  BY <1>1 DEF CorsLayer
<1>2. CASE LetThrough
  BY <1>2 DEF LetThrough
<1>3. CASE DecideByHeaders
  BY <1>0, <1>3, RequestParts DEF DecideByHeaders, HeaderPeek, ConfigType
<1>4. CASE Examine
  BY <1>4, RequestParts DEF Examine, HeaderPeek
<1>5. CASE PeekBody
  <2>1. CASE Unreadable # {}
    BY <1>5, <2>1 DEF PeekBody, Unreadable
  <2>2. CASE Unreadable = {}
    BY <1>5, <2>2, RequestParts DEF PeekBody
  <2> QED BY <2>1, <2>2
<1>6. CASE MissingToken
  BY <1>0, <1>6 DEF MissingToken, ConfigType
<1>7. CASE DiscoveryFails
  <2>1. CASE tried + 1 < DiscoveryUrls(Trying)
    BY <1>7, <2>1 DEF DiscoveryFails, DiscoveryUrls
  <2>2. CASE NextServer("none")
    BY <1>7, <2>2, NextServerType DEF DiscoveryFails, KeyInv
  <2> QED BY <1>7, <2>1, <2>2 DEF DiscoveryFails
<1>8. CASE Discover
  <2>1. PICK issuer \in 0..OtherIssuer, algs \in AlgLists :
          IF IssuerMatches(Trying, issuer)
          THEN /\ metadata' = [issuer |-> issuer, algs |-> algs] /\ tried' = 0
               /\ Keep("jwks") /\ UNCHANGED keys
          ELSE NextServer("none")
    BY <1>8 DEF Discover
  <2>2. CASE NextServer("none")
    BY <1>8, <2>2, NextServerType DEF Discover, KeyInv
  <2> QED BY <1>8, <2>1, <2>2 DEF Discover
<1>9. CASE KeyMissing
  BY <1>9, NextServerType DEF KeyMissing, KeyInv
<1>10. CASE TryKey
  <2>1. ASSUME NEW k \in {"unusable", "key"}, NextServer(k)
        PROVE  TypeOK'
    BY <1>10, <2>1, NextServerType DEF TryKey, KeyInv
  <2>2. CASE keys' = Append(keys, "key") /\ tried' = 0 /\ metadata' = NoMetadata
             /\ IF Binds THEN Keep("scopes") ELSE Unauthorized
    <3>1. keys' \in Seq({"key", "unusable", "none"}) /\ Len(keys') <= NServers
      BY <1>10, <2>2, KeysGrow DEF TryKey, KeyInv
    <3>2. config.scopes \in SUBSET Scopes
      BY <1>0 DEF ConfigType
    <3> QED BY <1>10, <2>2, <3>1, <3>2, NoMetadataType DEF TryKey
  <2> QED BY <1>10, <2>1, <2>2 DEF TryKey
<1>11. CASE CheckScopes
  <2>1. config.scopes \in SUBSET Scopes
    BY <1>0 DEF ConfigType
  <2>2. ASSUME ~OperationSatisfied(peek, request.token.scopes)
        PROVE  \A first \in config.required[peek.name] : first \in SUBSET Scopes
    <3>1. peek.name \in Names
      BY <2>2, CallParts DEF OperationSatisfied, NoCall, Malformed
    <3> QED BY <1>0, <3>1 DEF ConfigType
  <2> QED BY <1>11, <2>1, <2>2 DEF CheckScopes
<1>12. CASE Transport
  <2>1. /\ stage' \in {"dispatch", "done"} /\ answer' \in {answer, 405, 200, 400}
        /\ challenge' = challenge
    BY <1>12, TransportParts
  <2>2. UNCHANGED <<config, operations, request, gateVars, runVars>>
    BY <1>12 DEF Transport
  <2> QED BY <2>1, <2>2
<1>13. CASE UpdateOperations
  BY <1>13 DEF UpdateOperations
<1>14. CASE Dispatch
  <2>1. request.body.name \in Names
    BY <1>14, RequestParts, CallParts DEF Dispatch, NoCall, Malformed
  <2>2. Found(request.body.name) \in
          [name : Names \cup {"none"}, from : {"none", "builtin", "app", "operations"}]
    BY <2>1 DEF Found, Nothing
  <2> QED BY <1>14, <2>2 DEF Dispatch
<1>15. CASE ListTools
  <2>1. listed' \in SUBSET Names
    <3>1. PICK param \in TargetParams :
            IF param = "unknown" \/ request.app = "unknown" THEN Answer(400) /\ UNCHANGED listed
            ELSE /\ Answer(200)
                 /\ listed' = operations \cup
                      (IF request.app = "none" THEN Builtins
                       ELSE (Builtins \cap {"execute"}) \cup AppTools[request.app])
      BY <1>15 DEF ListTools
    <3>2. request.app \in Apps \cup {"none", "unknown"}
      BY DEF Requests
    <3> QED BY <3>1, <3>2
  <2> QED BY <1>15, <2>1 DEF ListTools
<1>16. CASE ReadResource
  BY <1>16 DEF ReadResource, FetchResource
<1>17. CASE GetPrompt
  BY <1>17 DEF GetPrompt
<1>18. CASE Execute
  BY <1>18 DEF Execute, RequestHeaders
<1>19. CASE UNCHANGED vars
  BY <1>19
<1> QED BY <1>1, <1>2, <1>3, <1>4, <1>5, <1>6, <1>7, <1>8, <1>9, <1>10, <1>11, <1>12,
   <1>13, <1>14, <1>15, <1>16, <1>17, <1>18, <1>19 DEF Next

-----------------------------------------------------------------------------
\* The configuration and the request stay what they are, and with them all that depends
\* on nothing else.
LEMMA RequestStays ==
  ASSUME [Next]_vars
  PROVE  /\ config' = config /\ request' = request
         /\ Tokened' = Tokened /\ Exempt' = Exempt /\ Excused' = Excused
         /\ HeaderPeek' = HeaderPeek /\ NeedsBody' = NeedsBody /\ Good' = Good
         /\ \A t : GlobalSatisfied(t)' = GlobalSatisfied(t)
<1>1. config' = config /\ request' = request
  BY DEF Next, CorsLayer, LetThrough, DecideByHeaders, Examine, PeekBody, MissingToken,
     DiscoveryFails, Discover, KeyMissing, TryKey, CheckScopes, Transport, UpdateOperations,
     Dispatch, ListTools, ReadResource, GetPrompt, Execute
<1>2. HeaderPeek' = HeaderPeek
  BY <1>1 DEF HeaderPeek, HeadersEnforced
<1>3. Tokened' = Tokened /\ Exempt' = Exempt /\ Good' = Good /\ NeedsBody' = NeedsBody
  BY <1>1, <1>2 DEF Tokened, Exempt, Good, NeedsBody
<1>4. Excused' = Excused
  BY <1>1, <1>2, <1>3 DEF Excused, MatchesSkipList
<1> QED BY <1>1, <1>2, <1>3, <1>4 DEF GlobalSatisfied

\* What is served stays what the body asks for.
LEMMA ServeStep ==
  ASSUME TypeOK, ServeInv, [Next]_vars
  PROVE  ServeInv'
<1>0. request' = request
  BY RequestStays
<1> USE DEF ServeInv, Served
<1>1. CASE CorsLayer \/ LetThrough \/ DecideByHeaders \/ Examine \/ PeekBody \/ MissingToken
  BY <1>0, <1>1 DEF CorsLayer, LetThrough, DecideByHeaders, Examine, PeekBody, MissingToken
<1>2. CASE DiscoveryFails \/ Discover \/ KeyMissing \/ TryKey \/ CheckScopes
  BY <1>0, <1>2 DEF DiscoveryFails, Discover, KeyMissing, TryKey, CheckScopes, NextServer
<1>3. CASE Transport
  <2>1. UNCHANGED runVars /\ granted' = granted
    BY <1>3 DEF Transport
  <2>2. stage = "transport"
    BY <1>3 DEF Transport
  <2>3. CASE stage' = "dispatch"
    BY <1>0, <1>3, <2>1, <2>2, <2>3, TransportParts DEF TypeOK
  <2>4. CASE stage' = "done"
    BY <1>0, <2>1, <2>2, <2>4
  <2> QED BY <1>3, <2>3, <2>4, TransportParts DEF TypeOK
<1>4. CASE UpdateOperations
  BY <1>0, <1>4 DEF UpdateOperations
<1>5. CASE Dispatch
  <2>1. request.body = [method |-> "tools/call", name |-> request.body.name]
    BY <1>5, RequestParts, CallParts DEF Dispatch, NoCall, Malformed, TypeOK
  <2>2. ran' = Nothing \/ ran'.name = request.body.name
    BY <1>5 DEF Dispatch, Found
  <2> QED BY <1>0, <1>5, <2>1, <2>2 DEF Dispatch
<1>6. CASE ListTools
  BY <1>0, <1>6 DEF ListTools
<1>7. CASE ReadResource
  BY <1>0, <1>7 DEF ReadResource, FetchResource
<1>8. CASE GetPrompt
  BY <1>0, <1>8 DEF GetPrompt
<1>9. CASE Execute
  BY <1>0, <1>9 DEF Execute
<1>10. CASE UNCHANGED vars
  BY <1>10
<1> QED BY <1>1, <1>2, <1>3, <1>4, <1>5, <1>6, <1>7, <1>8, <1>9, <1>10 DEF Next

\* The last steps of a request leave to the middleware what it decided.
Behind == Transport \/ UpdateOperations \/ Dispatch \/ ListTools \/ ReadResource
          \/ GetPrompt \/ Execute \/ UNCHANGED vars

LEMMA BehindKeeps ==
  ASSUME TypeOK, Behind
  PROVE  /\ UNCHANGED <<peek, keys, metadata, granted, challenge>>
         /\ stage' # stage => stage' \in {"dispatch", "execute", "done"}
         /\ answer' \in {answer, 200, 400, 404, 405}
         /\ stage' = "done" \/ answer' = answer
<1>1. CASE Transport
  <2>1. UNCHANGED gateVars
    BY <1>1 DEF Transport
  <2> QED BY <1>1, <2>1, TransportParts DEF TypeOK
<1>2. CASE Dispatch \/ Execute
  BY <1>2 DEF Dispatch, Execute
<1>3. CASE ListTools \/ ReadResource \/ GetPrompt
  BY <1>3 DEF ListTools, ReadResource, FetchResource, GetPrompt
<1>4. CASE UpdateOperations \/ UNCHANGED vars
  BY <1>4 DEF UpdateOperations
<1> QED BY <1>1, <1>2, <1>3, <1>4 DEF Behind

\* The reason for which a request was let in stays one, whatever happens to it afterwards.
LEMMA GrantStep ==
  ASSUME TypeOK, GrantInv, KeyInv, [Next]_vars
  PROVE  GrantInv'
<1>0. /\ config' = config /\ request' = request
      /\ Tokened' = Tokened /\ Exempt' = Exempt /\ Excused' = Excused
      /\ HeaderPeek' = HeaderPeek /\ NeedsBody' = NeedsBody
  BY RequestStays
<1>1. ASSUME peek' = peek
      PROVE  /\ PeekIsRight' = PeekIsRight
             /\ OperationSatisfied(peek, request.token.scopes)' =
                  OperationSatisfied(peek, request.token.scopes)
             /\ GlobalSatisfied(request.token.scopes)' = GlobalSatisfied(request.token.scopes)
  BY <1>0, <1>1 DEF PeekIsRight, OperationSatisfied, GroupSatisfied, GlobalSatisfied
<1> USE DEF GrantInv, Examining
<1>2. CASE CorsLayer
  BY <1>0, <1>1, <1>2 DEF CorsLayer
<1>3. CASE LetThrough
  BY <1>0, <1>3 DEF LetThrough, Excused
<1>4. CASE DecideByHeaders
  BY <1>0, <1>4 DEF DecideByHeaders, Excused
<1>5. CASE Examine
  BY <1>0, <1>5 DEF Examine, PeekIsRight, NeedsBody
<1>6. CASE PeekBody
  <2>1. HeaderPeek = NoCall /\ NeedsBody
    BY <1>6 DEF PeekBody, NeedsBody
  <2>2. CASE Unreadable # {}
    BY <1>0, <1>6, <2>2 DEF PeekBody, Unreadable
  <2>3. CASE Unreadable = {} /\ ~Tokened /\ MatchesSkipList(request.body)
    BY <1>0, <1>6, <2>1, <2>3 DEF PeekBody, Excused
  <2>4. CASE Unreadable = {} /\ ~(~Tokened /\ MatchesSkipList(request.body))
    BY <1>0, <1>6, <2>1, <2>4 DEF PeekBody, PeekIsRight
  <2> QED BY <2>2, <2>3, <2>4
<1>7. CASE MissingToken
  BY <1>0, <1>1, <1>7 DEF MissingToken
<1>8. CASE DiscoveryFails \/ Discover
  BY <1>0, <1>1, <1>8 DEF DiscoveryFails, Discover, NextServer
<1>9. CASE KeyMissing \/ TryKey
  BY <1>0, <1>1, <1>9 DEF KeyMissing, TryKey, NextServer
<1>10. CASE CheckScopes
  BY <1>0, <1>1, <1>10 DEF CheckScopes, KeyInv
<1>11. CASE Behind
  BY <1>0, <1>1, <1>11, BehindKeeps DEF TypeOK
<1> QED BY <1>2, <1>3, <1>4, <1>5, <1>6, <1>7, <1>8, <1>9, <1>10, <1>11 DEF Next, Behind

\* The key of a server verifies a good token exactly if that server has signed it.
LEMMA GoodDecodes ==
  ASSUME TypeOK, Tokened, Good
  PROVE  Decodes(request.token.signer)
BY TokenParts DEF Good, Decodes, TypeOK

\* A token is vouched for when it was verified and its claims bind it to the server.
LEMMA BoundIsVouched ==
  ASSUME TypeOK, Tokened, Len(keys) < NServers, keys' = Append(keys, "key"),
         config' = config, request' = request,
         metadata.issuer = Trying, Decodes(Trying), Binds
  PROVE  Vouched'
<1>1. Len(keys') = Len(keys) + 1 /\ keys'[Len(keys) + 1] = "key" /\ Trying # NoIssuer
  BY KeysGrow DEF TypeOK, Trying, NoIssuer
<1> QED BY <1>1, TokenParts DEF Vouched, Decodes, Binds, Trying, TypeOK

\* The next server is asked when the last one did not have the key of a good token.
LEMMA NotYetStep ==
  ASSUME TypeOK, Tokened, Len(keys) < NServers, NotYet, config' = config, request' = request,
         NEW k \in {"key", "unusable", "none"}, keys' = Append(keys, k),
         k = "key" => ~Decodes(Trying)
  PROVE  NotYet'
<1> SUFFICES ASSUME Good', request'.token.signer <= Len(keys')
             PROVE  keys'[request'.token.signer] # "key"
  BY DEF NotYet
<1>1. Good /\ request.token.signer \in 1..NServers
  BY TokenParts DEF Good, TypeOK
<1>2. CASE request.token.signer <= Len(keys)
  BY <1>1, <1>2, KeysGrow DEF NotYet, TypeOK
<1>3. CASE request.token.signer = Trying
  BY <1>1, <1>3, GoodDecodes, KeysGrow DEF Trying
<1> QED BY <1>1, <1>2, <1>3, KeysGrow DEF Trying, TypeOK

\* The search for the server that vouches for the token.
LEMMA KeyStep ==
  ASSUME TypeOK, GrantInv, KeyInv, [Next]_vars
  PROVE  KeyInv'
<1>0. /\ config' = config /\ request' = request
      /\ Tokened' = Tokened /\ Good' = Good
  BY RequestStays
<1>n. ASSUME keys' = keys
      PROVE  NotYet' = NotYet /\ Vouched' = Vouched
  BY <1>0, <1>n DEF NotYet, Vouched
<1>e. ASSUME stage \in {"cors", "gate", "body"}, keys' = keys
      PROVE  keys' = <<>> /\ Len(keys') < NServers /\ NotYet'
  <2>1. keys' = <<>>
    BY <1>e DEF KeyInv
  <2>2. request.token.signer \in 0..NServers
    BY RequestParts, TokenParts DEF Tokened, NoToken, TypeOK
  <2>3. Good' => ~(request'.token.signer <= 0)
    BY <1>0, <2>2 DEF Good
  <2> QED BY <2>1, <2>3 DEF NotYet
<1>f. ASSUME NEW k \in {"key", "unusable", "none"}, stage \in {"keys", "jwks"}, Tokened,
             NextServer(k), k = "key" => ~Decodes(Trying)
      PROVE  KeyInv'
  <2>1. Len(keys') = Len(keys) + 1 /\ NotYet'
    BY <1>0, <1>f, NotYetStep, KeysGrow DEF NextServer, KeyInv
  <2>2. granted' = "nobody"
    BY <1>f DEF NextServer, GrantInv, Examining
  <2>3. stage' = "done" \/ (stage' = "keys" /\ Trying # NServers)
    BY <1>f DEF NextServer
  <2>4. Len(keys) < NServers /\ Len(keys) \in Nat
    BY <1>f DEF KeyInv, TypeOK
  <2> QED BY <2>1, <2>2, <2>3, <2>4 DEF KeyInv, Trying
<1>1. CASE CorsLayer \/ LetThrough \/ DecideByHeaders \/ Examine \/ PeekBody
  <2>1. keys' = keys /\ stage \in {"cors", "gate", "body"}
    BY <1>1 DEF CorsLayer, LetThrough, DecideByHeaders, Examine, PeekBody
  <2>2. stage' \in {"gate", "body", "keys", "transport", "done"} /\ granted' # "token"
    BY <1>1 DEF CorsLayer, LetThrough, DecideByHeaders, Examine, PeekBody, GrantInv, Examining
  <2> QED BY <1>e, <2>1, <2>2 DEF KeyInv
<1>2. CASE MissingToken
  BY <1>2 DEF MissingToken, KeyInv, GrantInv, Examining
<1>3. CASE DiscoveryFails
  <2>1. CASE tried + 1 < DiscoveryUrls(Trying)
    BY <1>0, <1>3, <1>n, <2>1 DEF DiscoveryFails, KeyInv, GrantInv, Examining
  <2>2. CASE NextServer("none")
    BY <1>3, <1>f, <2>2 DEF DiscoveryFails
  <2> QED BY <1>3, <2>1, <2>2 DEF DiscoveryFails
<1>4. CASE Discover
  <2>1. PICK issuer \in 0..OtherIssuer, algs \in AlgLists :
          IF IssuerMatches(Trying, issuer)
          THEN /\ metadata' = [issuer |-> issuer, algs |-> algs] /\ tried' = 0
               /\ Keep("jwks") /\ UNCHANGED keys
          ELSE NextServer("none")
    BY <1>4 DEF Discover
  <2>2. CASE NextServer("none")
    BY <1>4, <1>f, <2>2 DEF Discover
  <2>3. CASE IssuerMatches(Trying, issuer)
    <3>1. stage = "keys" /\ Tokened /\ granted' = "nobody"
      BY <1>4, <2>1, <2>3 DEF Discover, GrantInv, Examining
    <3>2. stage' = "jwks" /\ keys' = keys /\ metadata'.issuer = Trying
      BY <2>1, <2>3 DEF IssuerMatches
    <3> QED BY <1>0, <1>n, <3>1, <3>2 DEF KeyInv, Trying
  <2> QED BY <2>1, <2>2, <2>3
<1>5. CASE KeyMissing
  BY <1>5, <1>f DEF KeyMissing, KeyInv
<1>6. CASE TryKey
  <2>1. stage = "jwks" /\ Tokened
    BY <1>6 DEF TryKey, KeyInv
  <2>2. CASE NextServer("unusable") \/ (NextServer("key") /\ ~Decodes(Trying))
    BY <1>f, <2>1, <2>2
  <2>3. CASE Decodes(Trying) /\ keys' = Append(keys, "key")
             /\ IF Binds THEN Keep("scopes") ELSE Unauthorized
    <3>1. granted' = "nobody"
      BY <2>1, <2>3 DEF GrantInv, Examining
    <3>2. CASE Binds
      <4>1. Vouched'
        BY <1>0, <2>1, <2>3, <3>2, BoundIsVouched DEF KeyInv
      <4> QED BY <1>0, <2>1, <2>3, <3>1, <3>2, <4>1 DEF KeyInv
    <3>3. CASE ~Binds
      BY <2>3, <3>1, <3>3 DEF KeyInv
    <3> QED BY <3>2, <3>3
  <2> QED BY <1>6, <2>2, <2>3 DEF TryKey
<1>7. CASE CheckScopes
  BY <1>0, <1>7, <1>n DEF CheckScopes, KeyInv
<1>8. CASE Behind
  <2>1. keys' = keys /\ metadata' = metadata /\ granted' = granted
        /\ (stage' = stage \/ stage' \in {"dispatch", "execute", "done"})
    BY <1>8, BehindKeeps
  <2> QED BY <1>0, <1>n, <2>1 DEF KeyInv, Trying
<1> QED BY <1>1, <1>2, <1>3, <1>4, <1>5, <1>6, <1>7, <1>8 DEF Next, Behind

\* Who is denied, is denied for the token.
LEMMA DeniedStep ==
  ASSUME TypeOK, GrantInv, KeyInv, DeniedInv, [Next]_vars
  PROVE  DeniedInv'
<1>0. /\ config' = config /\ request' = request
      /\ Tokened' = Tokened /\ Good' = Good /\ Exempt' = Exempt
  BY RequestStays
<1>c. ASSUME peek' = peek, challenge' = challenge
      PROVE  (IF GlobalSatisfied(request.token.scopes)
              THEN OperationSatisfied(peek, request.token.scopes \cup challenge)
              ELSE GlobalSatisfied(request.token.scopes \cup challenge))'
             = (IF GlobalSatisfied(request.token.scopes)
                THEN OperationSatisfied(peek, request.token.scopes \cup challenge)
                ELSE GlobalSatisfied(request.token.scopes \cup challenge))
  BY <1>0, <1>c DEF OperationSatisfied, GroupSatisfied, GlobalSatisfied
<1> USE DEF DeniedInv, Examining
<1>1. CASE CorsLayer
  BY <1>0, <1>1 DEF CorsLayer
<1>2. CASE LetThrough
  BY <1>0, <1>2 DEF LetThrough
<1>3. CASE DecideByHeaders
  BY <1>0, <1>3 DEF DecideByHeaders
<1>4. CASE Examine
  BY <1>0, <1>4 DEF Examine
<1>5. CASE PeekBody
  BY <1>0, <1>5 DEF PeekBody, Unreadable
<1>6. CASE MissingToken
  BY <1>0, <1>6 DEF MissingToken
<1>f. ASSUME NEW k \in {"key", "unusable", "none"}, stage \in {"keys", "jwks"}, Tokened,
             NextServer(k), k = "key" => ~Decodes(Trying)
      PROVE  DeniedInv'
  <2>1. Len(keys') = Len(keys) + 1 /\ NotYet'
    BY <1>0, <1>f, NotYetStep, KeysGrow DEF NextServer, KeyInv
  <2>2. CASE stage' = "keys"
    BY <1>0, <1>f, <2>2 DEF NextServer
  <2>3. CASE stage' = "done"
    <3>1. Len(keys') = NServers /\ answer' = 401
      BY <1>f, <2>1, <2>3 DEF NextServer, Trying
    <3>2. request.token.signer \in 0..NServers
      BY <1>f, TokenParts DEF TypeOK
    <3> QED BY <1>0, <1>f, <2>1, <2>3, <3>1, <3>2 DEF NotYet
  <2> QED BY <1>f, <2>2, <2>3 DEF NextServer
<1>7. CASE DiscoveryFails
  <2>1. CASE tried + 1 < DiscoveryUrls(Trying)
    BY <1>0, <1>7, <2>1 DEF DiscoveryFails
  <2> QED BY <1>7, <1>f, <2>1 DEF DiscoveryFails
<1>8. CASE Discover
  <2>1. NextServer("none") \/ Keep("jwks")
    BY <1>8 DEF Discover
  <2>2. CASE Keep("jwks")
    BY <1>0, <1>8, <2>2 DEF Discover
  <2> QED BY <1>8, <1>f, <2>1, <2>2 DEF Discover
<1>9. CASE KeyMissing
  BY <1>9, <1>f DEF KeyMissing, KeyInv
<1>10. CASE TryKey
  <2>1. stage = "jwks" /\ Tokened /\ metadata.issuer = Trying
    BY <1>10 DEF TryKey, KeyInv
  <2>2. CASE NextServer("unusable") \/ (NextServer("key") /\ ~Decodes(Trying))
    BY <1>f, <2>1, <2>2
  <2>3. CASE Decodes(Trying) /\ Binds /\ Keep("scopes")
    BY <1>0, <2>1, <2>3
  <2>4. CASE Decodes(Trying) /\ ~Binds /\ Unauthorized
    <3>1. ~Good
      <4>1. request.token.signer = Trying
        BY <2>4 DEF Decodes
      <4> QED BY <2>1, <2>4, <4>1, TokenParts DEF Good, Binds, TypeOK
    <3> QED BY <1>0, <2>1, <2>4, <3>1
  <2> QED BY <1>10, <2>2, <2>3, <2>4 DEF TryKey
<1>11. CASE CheckScopes
  <2>1. CASE ~GlobalSatisfied(request.token.scopes)
    <3>1. GlobalSatisfied(request.token.scopes \cup config.scopes)
      BY <2>1, <1>11, TokenParts DEF GlobalSatisfied, CheckScopes, KeyInv, TypeOK, ConfigType
    <3>2. /\ stage' = "done" /\ answer' = 403 /\ challenge' = config.scopes
          /\ stage = "scopes"
      BY <1>11, <2>1 DEF CheckScopes
    <3> QED BY <1>0, <2>1, <3>1, <3>2 DEF GlobalSatisfied
  <2>2. CASE GlobalSatisfied(request.token.scopes)
             /\ ~OperationSatisfied(peek, request.token.scopes)
    <3>1. PICK first \in config.required[peek.name] : Refuse(403, first)
      BY <1>11, <2>2 DEF CheckScopes
    <3>2. OperationSatisfied(peek, request.token.scopes \cup first)
      BY DEF OperationSatisfied, GroupSatisfied
    <3>3. peek' = peek /\ stage = "scopes"
      BY <1>11 DEF CheckScopes
    <3> QED BY <1>0, <2>2, <3>1, <3>2, <3>3
            DEF GlobalSatisfied, OperationSatisfied, GroupSatisfied
  <2>3. CASE PassToken
    BY <1>0, <1>11, <2>3 DEF CheckScopes
  <2> QED BY <1>11, <2>1, <2>2, <2>3 DEF CheckScopes
<1>12. CASE Behind
  <2>1. /\ keys' = keys /\ peek' = peek /\ challenge' = challenge
        /\ stage' = stage \/ stage' \in {"dispatch", "execute", "done"}
        /\ answer' \in {answer, 200, 400, 404, 405}
        /\ stage' = "done" \/ answer' = answer
    BY <1>12, BehindKeeps
  <2>2. stage = "done" => stage' = "done"
    BY <1>12 DEF Behind, Transport, UpdateOperations, Dispatch, ListTools, ReadResource,
       GetPrompt, Execute
  <2> QED BY <1>0, <1>c, <2>1, <2>2
<1> QED BY <1>1, <1>2, <1>3, <1>4, <1>5, <1>6, <1>7, <1>8, <1>9, <1>10, <1>11, <1>12
   DEF Next, Behind

\* The invariant holds in every state.
LEMMA PathInvariant == Spec => []PathInv
<1>1. Init => PathInv
  <2> SUFFICES ASSUME Init PROVE PathInv
    OBVIOUS
  <2>1. TypeOK
    BY NoMetadataType DEF Init, TypeOK, Nothing
  <2> QED BY <2>1 DEF Init, PathInv, ServeInv, Served, GrantInv, Examining, KeyInv, DeniedInv,
       Nothing
<1>2. PathInv /\ [Next]_vars => PathInv'
  BY TypeStep, ServeStep, GrantStep, KeyStep, DeniedStep DEF PathInv
<1> QED BY <1>1, <1>2, PTL DEF Spec

\* Every variable keeps its type.
THEOREM TypeCorrect == Spec => []TypeOK
<1>1. PathInv => TypeOK
  BY DEF PathInv
<1> QED BY <1>1, PathInvariant, PTL

\* Once the transport has compared them, the call the middleware decided on is the one the
\* body asks for.
LEMMA ServedPeek ==
  ASSUME TypeOK, ServeInv, Served
  PROVE  (IF HeaderPeek # NoCall THEN HeaderPeek ELSE request.body) = request.body
BY DEF ServeInv, HeaderPeek, HeadersEnforced

\* What a token with the scopes for a call may run, or one without it.
LEMMA ServedIsPermitted ==
  ASSUME PathInv, Served
  PROVE  \/ /\ granted = "token" /\ GlobalSatisfied(request.token.scopes)
            /\ OperationSatisfied(request.body, request.token.scopes)
         \/ /\ granted = "anonymous" /\ ~Tokened
            /\ \/ MatchesSkipList(request.body)
               \/ config.skipHeader /\ request.credential
<1> USE DEF PathInv
<1>1. granted \in {"token", "anonymous"} /\ request.verb = "POST"
  BY DEF ServeInv, TypeOK
<1>2. CASE granted = "token"
  <2>1. CASE HeaderPeek # NoCall
    BY <1>2, <2>1, ServedPeek DEF GrantInv, PeekIsRight
  <2>2. CASE HeaderPeek = NoCall /\ NeedsBody
    BY <1>2, <2>2 DEF GrantInv, PeekIsRight
  <2>3. CASE HeaderPeek = NoCall /\ ~NeedsBody
    <3>1. \A n \in Names : config.required[n] = {}
      BY <1>1, <2>3 DEF NeedsBody
    <3>2. request.body \in Calls \cup {NoCall, Malformed}
      BY RequestParts DEF TypeOK
    <3>3. OperationSatisfied(request.body, request.token.scopes)
      BY <3>1, <3>2, CallParts DEF OperationSatisfied, NoCall, Malformed
    <3> QED BY <1>2, <3>3 DEF GrantInv
  <2> QED BY <2>1, <2>2, <2>3
<1>3. CASE granted = "anonymous"
  <2>1. Excused
    BY <1>3 DEF GrantInv
  <2>2. CASE Exempt
    BY <1>1, <1>3, <2>2 DEF Exempt
  <2>3. CASE ~Exempt
    BY <1>3, <2>1, <2>3, ServedPeek DEF Excused
  <2> QED BY <2>2, <2>3
<1> QED BY <1>1, <1>2, <1>3

\* The headers, the body and the app parameter of a request never disagree to its
\* advantage: the tool that runs, and the list, resource or prompt that is given, is one that
\* the request may have, for any configuration (oauth_validate and call_tool_impl).
THEOREM PermittedRuns == Spec => []OnlyPermittedRuns
<1>1. ASSUME PathInv
      PROVE  OnlyPermittedRuns
  <2> DEFINE t == request.token.scopes
  <2> DEFINE Permitted(method, name) ==
        \/ /\ granted = "token" /\ GlobalSatisfied(t)
           /\ name # "none" /\ config.required[name] # {} =>
                GroupSatisfied(config.required[name], t)
        \/ /\ granted = "anonymous" /\ ~Tokened
           /\ \/ method \in config.skipMethods
              \/ name \in config.skipTools /\ request.app = "none"
              \/ config.skipHeader /\ request.credential
  <2>1. ASSUME ran # Nothing PROVE Permitted("tools/call", ran.name)
    <3>1. Served /\ request.body = [method |-> "tools/call", name |-> ran.name]
      BY <1>1, <2>1 DEF PathInv, ServeInv, Served
    <3> QED BY <1>1, <3>1, ServedIsPermitted DEF OperationSatisfied, MatchesSkipList
  <2>2. ASSUME NEW method \in Methods, Served, request.body.method = method
        PROVE  Permitted(method, "none")
    <3>1. method # "tools/call"
      OBVIOUS
    <3> QED BY <1>1, <2>2, <3>1, ServedIsPermitted DEF MatchesSkipList
  <2>3. listed # {} => Permitted("tools/list", "none")
    BY <1>1, <2>2 DEF PathInv, ServeInv, Served
  <2>4. /\ read = "resource" => Permitted("resources/read", "none")
        /\ read = "prompt" => Permitted("prompts/get", "none")
    BY <1>1, <2>2 DEF PathInv, ServeInv, Served
  <2> QED BY <2>1, <2>3, <2>4 DEF OnlyPermittedRuns
<1> QED BY <1>1, PathInvariant, PTL

\* A token that is let in, or that goes on to the endpoint, was verified by the server
\* that it names, whatever the other servers answered (TokenValidator::validate).
THEOREM VouchedTokens == Spec => []TokensAreVouched
<1>1. ASSUME PathInv
      PROVE  TokensAreVouched
  <2>1. upstream # "none" /\ Tokened => granted = "token"
    BY <1>1, ServedIsPermitted DEF Served
  <2>2. granted = "token" => Vouched
    BY <1>1 DEF PathInv, KeyInv
  <2> QED BY <2>1, <2>2 DEF TokensAreVouched, Vouched
<1> QED BY <1>1, PathInvariant, PTL

\* A 401 is never the answer to a preflight, to a stateless GET or to a good token whose
\* server gave its key, and the scopes of a 403 suffice for the check that failed.
THEOREM GoodTokensAreLetIn == Spec => []GoodTokensPass
<1>1. PathInv => GoodTokensPass
  BY DEF PathInv, DeniedInv, GoodTokensPass, Good, Exempt
<1> QED BY <1>1, PathInvariant, PTL
===============================================================================
