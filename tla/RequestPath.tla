----------------------------- MODULE RequestPath -----------------------------
(***************************************************************************)
(* One HTTP request from the listener to the tool it calls: the CORS layer  *)
(* (starting.rs, cors.rs), the middleware oauth_validate (auth.rs) with its  *)
(* token validator (auth/valid_token.rs) and scope checks, the checks of the *)
(* transport behind it (external), the dispatcher call_tool_impl             *)
(* (running.rs) and the headers of the GraphQL request (headers.rs); or to   *)
(* the resource or prompt it reads.                                         *)
(*                                                                         *)
(* Three readings of one request have to agree: the middleware decides on    *)
(* the Mcp-Method and Mcp-Name headers or on the body, the dispatcher runs   *)
(* what the body and the ?app= parameter name, and the operations may be     *)
(* replaced between the two.                                                *)
(***************************************************************************)
EXTENDS Naturals, FiniteSets, Sequences

CONSTANTS
  Configs,     \* configurations, as records; see ConfigType
  Tokens,      \* tokens the clients hold, as records; see TokenType
  Methods,     \* methods other than tools/call
  Names,       \* names a client may call
  Builtins,    \* execute, search, ...: the enabled tools of the server itself
  Apps,        \* names of apps
  AppTools,    \* the tools of each app
  Resources,   \* the resource of each app for each target
  Catalogs,    \* sets of operations the server may have
  Scopes,
  NServers,    \* authorization servers, tried in the order 1..NServers
  WithPath     \* the servers whose URL has a path

\* The URL of server s is the issuer s.
NoIssuer == 0
OtherIssuer == NServers + 1

TokenType == [signer : 0..NServers,        \* whose key verifies the signature, 0: nobody's
              fresh : BOOLEAN,             \* not expired, and all required claims
              iss : 0..OtherIssuer, aud : {"ours", "other", "missing"},
              scopes : SUBSET Scopes, absent : {FALSE}]

ConfigType == [cors : BOOLEAN, stateful : BOOLEAN,
               skipMethods : SUBSET Methods, skipTools : SUBSET Names,
               skipHeader : BOOLEAN,       \* skip_token_validation.headers is not empty
               scopes : SUBSET Scopes,
               mode : {"disabled", "require_all", "require_any"},
               required : [Names -> SUBSET SUBSET Scopes],   \* {}: no entry
               issuers : SUBSET (1..OtherIssuer),
               anyAudience : BOOLEAN,
               forwardAuth : BOOLEAN,      \* forward_headers names authorization
               passthrough : BOOLEAN]

\* deserialize_skip_methods keeps tools/call out of skipMethods; OperationRequiredScopes
\* has no empty group.
ASSUME PathAssumption ==
  /\ NServers \in Nat \ {0} /\ WithPath \subseteq 1..NServers
  /\ Configs \subseteq ConfigType /\ Tokens \subseteq TokenType
  /\ \A c \in Configs, n \in Names : {} \notin c.required[n]
  /\ "tools/call" \notin Methods /\ Builtins \subseteq Names
  /\ {"tools/list", "resources/read", "prompts/get"} \subseteq Methods
  /\ Resources \in [Apps -> [{"openai", "mcp"} -> {"local", "remote", "none"}]]
  /\ AppTools \in [Apps -> SUBSET Names] /\ "none" \notin Apps /\ "unknown" \notin Apps
  /\ Catalogs \subseteq SUBSET Names

\* What a request asks for: the JsonRpcPeek of its headers or of its body.
Calls == [method : {"tools/call"}, name : Names] \cup [method : Methods, name : {"none"}]
NoCall    == [method |-> "none", name |-> "none"]         \* no header; or not read
Malformed == [method |-> "malformed", name |-> "none"]    \* present but not readable

NoToken == [signer |-> 0, fresh |-> FALSE, iss |-> 0, aud |-> "missing",
            scopes |-> {}, absent |-> TRUE]

Requests ==
  [verb : {"OPTIONS", "GET", "DELETE"}, modern : BOOLEAN, head : {NoCall}, body : {NoCall},
   large : {FALSE}, app : {"none"}, credential : BOOLEAN, token : Tokens \cup {NoToken}]
  \cup
  [verb : {"POST"}, modern : BOOLEAN, head : Calls \cup {NoCall, Malformed},
   body : Calls \cup {Malformed}, large : BOOLEAN, app : Apps \cup {"none", "unknown"},
   credential : BOOLEAN, token : Tokens \cup {NoToken}]

VARIABLES
  config,      \* fixed when the server starts
  operations,  \* the operations of the running server
  request,
  stage,       \* the part of the server that has the request
  peek,        \* what the middleware read of it
  keys,        \* how each authorization server answered so far
  tried,       \* the discovery URLs of the next server that failed
  metadata,    \* what its discovery document says
  granted,     \* "nobody", "anonymous", "token": how the request was let in
  answer,      \* the status, or that of a protocol error; 0 for none yet
  challenge,   \* the scopes a 401 or 403 names
  ran,         \* the tool that ran, and where its name was found
  upstream,    \* the Authorization header of the GraphQL request
  listed,      \* the tools in the answer to a tools/list
  read         \* "resource" or "prompt": what else the answer has

keyVars  == <<keys, tried, metadata>>
gateVars == <<peek, keyVars, granted>>
runVars  == <<ran, upstream, listed, read>>
vars == <<config, operations, request, stage, gateVars, answer, challenge, runVars>>

Nothing == [name |-> "none", from |-> "none"]

\* A discovery document: its issuer, and the signing algorithms it lists ("one": that of
\* the server's keys and no other).
AlgLists == {"none", "one", "unsupported", "several"}
NoMetadata == [issuer |-> NoIssuer, algs |-> "none"]

Tokened == request.token # NoToken

TypeOK ==
  /\ config \in Configs /\ request \in Requests
  /\ operations \in Catalogs
  /\ stage \in {"cors", "gate", "body", "keys", "jwks", "scopes", "transport",
                "dispatch", "execute", "done"}
  /\ peek \in Calls \cup {NoCall, Malformed}
  /\ keys \in Seq({"key", "unusable", "none"}) /\ Len(keys) <= NServers
  /\ tried \in 0..2
  /\ metadata \in [issuer : 0..OtherIssuer, algs : AlgLists]
  /\ challenge \subseteq Scopes
  /\ granted \in {"nobody", "anonymous", "token"}
  /\ answer \in {0, 200, 400, 401, 403, 404, 405, 413}
  /\ ran \in [name : Names \cup {"none"}, from : {"none", "builtin", "app", "operations"}]
  /\ upstream \in {"none", "static", "forwarded", "validated"}
  /\ listed \subseteq Names
  /\ read \in {"none", "resource", "prompt"}

Init ==
  /\ config \in Configs /\ operations \in Catalogs /\ request \in Requests
  /\ stage = "cors" /\ peek = NoCall /\ keys = <<>> /\ granted = "nobody"
  /\ tried = 0 /\ metadata = NoMetadata /\ challenge = {}
  /\ answer = 0 /\ ran = Nothing /\ upstream = "none" /\ listed = {} /\ read = "none"

-----------------------------------------------------------------------------
Answer(status) == stage' = "done" /\ answer' = status /\ UNCHANGED challenge
GoOn(next)     == stage' = next /\ UNCHANGED <<answer, challenge>>
Same           == UNCHANGED <<config, operations, request>>

\* next.run(request), without a token and after validation.
PassAnonymous == GoOn("transport") /\ granted' = "anonymous"
PassToken     == GoOn("transport") /\ granted' = "token"
Keep(next)    == GoOn(next) /\ UNCHANGED granted

\* The WWW-Authenticate header names scopes.
Refuse(status, scopes) ==
  stage' = "done" /\ answer' = status /\ challenge' = scopes /\ UNCHANGED granted
Unauthorized == Refuse(401, config.scopes)


(* CORS *)

\* with_cors wraps the router after with_auth has: a preflight is answered outside.
CorsLayer ==
  /\ stage = "cors"
  /\ IF config.cors /\ request.verb = "OPTIONS" THEN Answer(200) ELSE GoOn("gate")
  /\ Same /\ UNCHANGED <<gateVars, runVars>>

-----------------------------------------------------------------------------
(* oauth_validate, up to the token *)

\* Mutant of MatchesSkipList: a name is taken for an operation's in an app too.
MatchesAnywhere(p) ==
  \/ p.method \in config.skipMethods
  \/ p.method = "tools/call" /\ p.name \in config.skipTools

\* SkipTokenValidation::matches_peek.
MatchesSkipList(p) ==
  \/ p.method \in config.skipMethods
  \/ p.method = "tools/call" /\ request.app = "none" /\ p.name \in config.skipTools

\* standard_headers_enforced.
HeadersEnforced == request.verb = "POST" /\ request.head # NoCall /\ request.modern

\* A GET that the transport serves statelessly, and a request with a listed header.
Exempt ==
  \/ request.verb = "GET" /\ (~config.stateful \/ request.modern)
  \/ ~Tokened /\ config.skipHeader /\ request.credential

HeaderPeek == IF HeadersEnforced /\ request.head # Malformed THEN request.head ELSE NoCall

NeedsBody ==
  /\ HeaderPeek = NoCall /\ request.verb = "POST"
  /\ \/ ~Tokened /\ config.skipMethods \cup config.skipTools # {}
     \/ \E n \in Names : config.required[n] # {}

LetThrough ==
  /\ stage = "gate" /\ Exempt
  /\ PassAnonymous
  /\ Same /\ UNCHANGED <<peek, keyVars, runVars>>

\* Without a token, enforced headers decide alone; the body is not asked.
DecideByHeaders ==
  /\ stage = "gate" /\ ~Exempt /\ ~Tokened /\ HeadersEnforced
  /\ peek' = HeaderPeek
  /\ IF HeaderPeek # NoCall /\ MatchesSkipList(HeaderPeek) THEN PassAnonymous ELSE Unauthorized
  /\ Same /\ UNCHANGED <<keyVars, runVars>>

Examine ==
  /\ stage = "gate" /\ ~Exempt /\ (Tokened \/ ~HeadersEnforced)
  /\ peek' = HeaderPeek
  /\ GoOn(IF NeedsBody THEN "body" ELSE "keys")
  /\ Same /\ UNCHANGED <<keyVars, granted, runVars>>

\* extract_body: what it answers instead of a call.
Unreadable == IF request.large THEN {413} ELSE IF request.body = Malformed THEN {400} ELSE {}

\* Without a token a body that cannot be read is left to the missing token.
PeekBody ==
  /\ stage = "body"
  /\ IF Unreadable # {}
     THEN /\ IF Tokened THEN \E status \in Unreadable : Answer(status) /\ UNCHANGED granted
                        ELSE Keep("keys")
          /\ UNCHANGED peek
     ELSE /\ peek' = request.body
          /\ IF ~Tokened /\ MatchesSkipList(request.body)
             THEN PassAnonymous ELSE Keep("keys")
  /\ Same /\ UNCHANGED <<keyVars, runVars>>

MissingToken ==
  /\ stage = "keys" /\ ~Tokened
  /\ Unauthorized
  /\ Same /\ UNCHANGED <<peek, keyVars, runVars>>

-----------------------------------------------------------------------------
(* TokenValidator::validate: the servers are tried in order.  What a server says is    *)
(* fetched here for each request; the cache between requests is in KeyResolver.        *)

Trying == Len(keys) + 1

\* build_discovery_urls: the legacy URL exists for issuers with a path only.
DiscoveryUrls(s) == IF s \in WithPath THEN 3 ELSE 2

\* Mutant of IssuerMatches: a server may name any issuer.
AnyIssuer(s, issuer) == issuer # NoIssuer

\* issuer_matches: metadata must be of the server that was asked (RFC 8414, 3.3).
IssuerMatches(s, issuer) == issuer = s

\* Mutant of NextServer: a server without the key ends the search.
NextServerStops(k) ==
  /\ keys' = Append(keys, k) /\ tried' = 0 /\ metadata' = NoMetadata
  /\ IF Trying = NServers \/ k = "none" THEN Unauthorized ELSE Keep("keys")

\* The key is not to be had, has no algorithm we support, or does not verify the token.
NextServer(k) ==
  /\ keys' = Append(keys, k) /\ tried' = 0 /\ metadata' = NoMetadata
  /\ IF Trying = NServers THEN Unauthorized ELSE Keep("keys")

\* A URL fails or times out, or its document cannot be read.
DiscoveryFails ==
  /\ stage = "keys" /\ Tokened
  /\ IF tried + 1 < DiscoveryUrls(Trying)
     THEN tried' = tried + 1 /\ Keep("keys") /\ UNCHANGED <<keys, metadata>>
     ELSE NextServer("none")
  /\ Same /\ UNCHANGED <<peek, runVars>>

\* The first document that can be read is the one that counts.
Discover ==
  /\ stage = "keys" /\ Tokened
  /\ \E issuer \in 0..OtherIssuer, algs \in AlgLists :
       IF IssuerMatches(Trying, issuer)
       THEN /\ metadata' = [issuer |-> issuer, algs |-> algs] /\ tried' = 0
            /\ Keep("jwks") /\ UNCHANGED keys
       ELSE NextServer("none")
  /\ Same /\ UNCHANGED <<peek, runVars>>

\* fetch_jwks fails, or the key set does not have the key the token names.
KeyMissing ==
  /\ stage = "jwks"
  /\ NextServer("none")
  /\ Same /\ UNCHANGED <<peek, runVars>>

\* jsonwebtoken::decode (external): an audience or an issuer that is present must
\* match what is configured; one that is absent is not looked at.
Decodes(s) ==
  /\ request.token.signer = s /\ request.token.fresh
  /\ config.anyAudience \/ request.token.aud # "other"
  /\ config.issuers = {} \/ request.token.iss \in config.issuers \cup {NoIssuer}

\* The checks of the claims after decode; failing one ends the search.
Binds ==
  /\ config.anyAudience \/ request.token.aud # "missing"
  /\ config.issuers # {} => request.token.iss = metadata.issuer

\* CachedJwks::lookup, resolve_alg, jwt_algorithm: the algorithm the key names or, if it
\* names none, the only one the metadata lists.
Usable(alg) == alg = "ours" \/ (alg = "absent" /\ metadata.algs = "one")

TryKey ==
  /\ stage = "jwks"
  /\ \E alg \in {"ours", "other", "absent"} :
       IF ~Usable(alg) THEN NextServer("unusable")
       ELSE IF ~Decodes(Trying) THEN NextServer("key")
       ELSE /\ keys' = Append(keys, "key") /\ tried' = 0 /\ metadata' = NoMetadata
            /\ IF Binds THEN Keep("scopes") ELSE Unauthorized
  /\ Same /\ UNCHANGED <<peek, runVars>>

-----------------------------------------------------------------------------
(* Scopes *)

\* ScopeMode::is_satisfied_by.
GlobalSatisfied(present) ==
  \/ config.scopes = {} \/ config.mode = "disabled"
  \/ config.mode = "require_all" /\ config.scopes \subseteq present
  \/ config.mode = "require_any" /\ config.scopes \cap present # {}

\* OperationRequiredScopes::is_satisfied_by.
GroupSatisfied(groups, present) == \E g \in groups : g \subseteq present

\* missing_scopes_for_operation.
OperationSatisfied(p, present) ==
  \/ p.method # "tools/call" \/ config.required[p.name] = {}
  \/ GroupSatisfied(config.required[p.name], present)

\* The challenge names all global scopes, or the operation's group that is listed first
\* (challenge_scopes).
CheckScopes ==
  /\ stage = "scopes"
  /\ IF ~GlobalSatisfied(request.token.scopes) THEN Refuse(403, config.scopes)
     ELSE IF ~OperationSatisfied(peek, request.token.scopes)
     THEN \E first \in config.required[peek.name] : Refuse(403, first)
     ELSE PassToken
  /\ Same /\ UNCHANGED <<peek, keyVars, runVars>>

-----------------------------------------------------------------------------
(* The transport, the dispatcher and the GraphQL request *)

\* The transport (rmcp, external): a GET is served as a stream of a legacy session
\* or not at all; a body must parse, and agree with headers that are enforced.
Transport ==
  /\ stage = "transport"
  /\ CASE request.verb = "OPTIONS" -> Answer(405)
       [] request.verb \in {"GET", "DELETE"} ->
            Answer(IF config.stateful /\ ~request.modern THEN 200 ELSE 405)
       [] request.verb = "POST" ->
            IF \/ request.body = Malformed
               \/ request.modern /\ request.head \notin {NoCall, request.body}
            THEN Answer(400)
            ELSE IF request.body.method \in {"tools/call", "tools/list", "resources/read", "prompts/get"}
            THEN GoOn("dispatch") ELSE Answer(200)
  /\ Same /\ UNCHANGED <<gateVars, runVars>>

\* The operations are replaced while the request is on its way.
UpdateOperations ==
  /\ stage \notin {"cors", "execute", "done"}
  /\ operations' \in Catalogs \ {operations}
  /\ UNCHANGED <<config, request, stage, gateVars, answer, challenge, runVars>>

\* Where call_tool_impl finds a name: the server's own tools first, also in an app;
\* then the tools of the app, and without one the operations.
Found(name) ==
  IF name \in Builtins THEN [name |-> name, from |-> "builtin"]
  ELSE IF request.app # "none"
       THEN IF request.app \in Apps /\ name \in AppTools[request.app]
            THEN [name |-> name, from |-> "app"] ELSE Nothing
  ELSE IF name \in operations THEN [name |-> name, from |-> "operations"] ELSE Nothing

Dispatch ==
  /\ stage = "dispatch" /\ request.body.method = "tools/call"
  /\ ran' = Found(request.body.name)
  /\ IF ran' = Nothing THEN Answer(404) ELSE GoOn("execute")
  /\ Same /\ UNCHANGED <<gateVars, upstream, listed, read>>

\* AppTarget: the appTarget parameter, or what the client says it supports.
TargetParams == {"none", "openai", "mcp", "unknown"}
AppTarget(param, supportsUi) ==
  IF param # "none" THEN param ELSE IF supportsUi THEN "mcp" ELSE "openai"

\* list_tools_impl: an unknown target or app is an error; in an app the list has the
\* operations, execute and the tools of the app.
ListTools ==
  /\ stage = "dispatch" /\ request.body.method = "tools/list"
  /\ \E param \in TargetParams :
       IF param = "unknown" \/ request.app = "unknown" THEN Answer(400) /\ UNCHANGED listed
       ELSE /\ Answer(200)
            /\ listed' = operations \cup
                 (IF request.app = "none" THEN Builtins
                  ELSE (Builtins \cap {"execute"}) \cup AppTools[request.app])
  /\ Same /\ UNCHANGED <<gateVars, ran, upstream, read>>

\* get_app_resource: where the resource of the app comes from, if the app and the URI
\* are of the same app and it has a resource for the target.
Source(uri, target) ==
  IF request.app \in Apps /\ uri = "app" THEN Resources[request.app][target] ELSE "none"

\* A remote resource is fetched now, which may fail.
FetchResource(source) ==
  \/ source # "none" /\ Answer(200) /\ read' = "resource"
  \/ source # "local" /\ Answer(404) /\ UNCHANGED read

\* read_resource_impl: the URI is looked at first, then the target, then the app.
ReadResource ==
  /\ stage = "dispatch" /\ request.body.method = "resources/read"
  /\ \E uri \in {"invalid", "app", "other"}, param \in TargetParams, supportsUi \in BOOLEAN :
       IF uri = "invalid" THEN Answer(404) /\ UNCHANGED read
       ELSE IF param = "unknown" THEN Answer(400) /\ UNCHANGED read
       ELSE FetchResource(Source(uri, AppTarget(param, supportsUi)))
  /\ Same /\ UNCHANGED <<gateVars, ran, upstream, listed>>

\* get_prompt_impl: the prompt must be known and its required arguments given.
GetPrompt ==
  /\ stage = "dispatch" /\ request.body.method = "prompts/get"
  /\ \/ Answer(400) /\ UNCHANGED read
     \/ Answer(200) /\ read' = "prompt"
  /\ Same /\ UNCHANGED <<gateVars, ran, upstream, listed>>

\* build_request_headers, as far as Authorization goes: static, then forwarded, then
\* the token that was validated.
RequestHeaders ==
  IF config.passthrough /\ granted = "token" THEN "validated"
  ELSE IF config.forwardAuth /\ Tokened THEN "forwarded"
  ELSE "static"

Execute ==
  /\ stage = "execute"
  /\ upstream' = RequestHeaders
  /\ Answer(200)
  /\ Same /\ UNCHANGED <<gateVars, ran, listed, read>>

Next ==
  \/ CorsLayer \/ LetThrough \/ DecideByHeaders \/ Examine \/ PeekBody
  \/ MissingToken \/ DiscoveryFails \/ Discover \/ KeyMissing \/ TryKey \/ CheckScopes
  \/ Transport \/ UpdateOperations \/ Dispatch \/ ListTools \/ ReadResource
  \/ GetPrompt \/ Execute

Spec == Init /\ [][Next]_vars

-----------------------------------------------------------------------------
\* The tool that runs is one the request may run, whichever part of the request the
\* middleware decided on: with a token, its scopes satisfy the global requirement and
\* those of the very tool that runs; without one, the tool is listed and is not an
\* app's, or the request has a listed header.  So for what else is listed or read.
OnlyPermittedRuns ==
  LET t == request.token.scopes
      Permitted(method, name) ==
        \/ /\ granted = "token" /\ GlobalSatisfied(t)
           /\ name # "none" /\ config.required[name] # {} =>
                GroupSatisfied(config.required[name], t)
        \/ /\ granted = "anonymous" /\ ~Tokened
           /\ \/ method \in config.skipMethods
              \/ name \in config.skipTools /\ request.app = "none"
              \/ config.skipHeader /\ request.credential
  IN /\ ran # Nothing => Permitted("tools/call", ran.name)
     /\ listed # {} => Permitted("tools/list", "none")
     /\ read = "resource" => Permitted("resources/read", "none")
     /\ read = "prompt" => Permitted("prompts/get", "none")

\* A token that is let in, and any that goes on to the endpoint, was verified with the
\* key of one server, is for this server and, where issuers are configured, names the
\* issuer of that same server.
TokensAreVouched ==
  granted = "token" \/ (upstream # "none" /\ Tokened) =>
    LET t == request.token IN
    /\ t.fresh /\ t.signer = Len(keys) /\ keys[t.signer] = "key"
    /\ config.anyAudience \/ t.aud = "ours"
    /\ config.issuers # {} => t.iss = t.signer /\ t.iss \in config.issuers

\* A request is answered 401 only for its token: a preflight and a stateless GET never
\* are, nor is a good token for what happens to other servers, once the server that
\* signed it was asked and gave its key.  With the scopes that a 403 names, the same
\* token passes the check it failed.
GoodTokensPass ==
  LET t == request.token
      Good == /\ t.fresh /\ t.signer # 0
              /\ config.anyAudience \/ t.aud = "ours"
              /\ config.issuers # {} => t.iss = t.signer /\ t.iss \in config.issuers
  IN /\ answer = 401 =>
          /\ ~(config.cors /\ request.verb = "OPTIONS")
          /\ ~(request.verb = "GET" /\ (~config.stateful \/ request.modern))
          /\ Tokened /\ Good => Len(keys) >= t.signer /\ keys[t.signer] # "key"
     /\ answer = 403 =>
          IF GlobalSatisfied(t.scopes) THEN OperationSatisfied(peek, t.scopes \cup challenge)
                                       ELSE GlobalSatisfied(t.scopes \cup challenge)

===============================================================================
