---------------------------- MODULE MCRequestPath ----------------------------
(* RequestPath on small instances: two authorization servers, one app. *)
EXTENDS RequestPath, TLC

TwoScopes   == {"read", "write"}
AllMethods  == {"tools/list", "ping", "resources/read", "prompts/get"}
AllNames    == {"get", "update", "execute"}
OneBuiltin  == {"execute"}
OneApp      == {"shop"}
ResourcesOfApps == [a \in OneApp |-> [openai |-> "local", mcp |-> "remote"]]
ToolsOfApps == [a \in OneApp |-> {"get"}]
SecondHasPath == {2}
TwoCatalogs == {{"get", "update"}, {"get"}}

Token(s, f, i, a, sc) ==
  [signer |-> s, fresh |-> f, iss |-> i, aud |-> a, scopes |-> sc, absent |-> FALSE]

\* Good tokens of either server with every set of scopes, and tokens with one flaw each.
SomeTokens ==
  {Token(1, TRUE, 1, "ours", sc) : sc \in SUBSET TwoScopes}
  \cup {Token(2, TRUE, i, "ours", TwoScopes) : i \in 0..3}
  \cup {Token(0, TRUE, 1, "ours", TwoScopes), Token(1, FALSE, 1, "ours", TwoScopes),
        Token(1, TRUE, 1, "other", TwoScopes), Token(2, TRUE, 2, "missing", TwoScopes)}

Requires(name, groups) == [n \in AllNames |-> IF n = name THEN groups ELSE {}]

SomeConfigs == {
  [cors |-> TRUE, stateful |-> TRUE, skipMethods |-> {"tools/list", "resources/read"}, skipTools |-> {"get"},
   skipHeader |-> FALSE, scopes |-> {"read"}, mode |-> "require_all",
   required |-> Requires("update", {{"write"}}), issuers |-> {1, 2}, anyAudience |-> FALSE,
   forwardAuth |-> TRUE, passthrough |-> TRUE],
  [cors |-> TRUE, stateful |-> FALSE, skipMethods |-> {}, skipTools |-> {},
   skipHeader |-> TRUE, scopes |-> TwoScopes, mode |-> "require_any",
   required |-> Requires("get", {{"read", "write"}}), issuers |-> {}, anyAudience |-> FALSE,
   forwardAuth |-> TRUE, passthrough |-> FALSE],
  [cors |-> FALSE, stateful |-> TRUE, skipMethods |-> {}, skipTools |-> {"update"},
   skipHeader |-> FALSE, scopes |-> {"read"}, mode |-> "disabled",
   required |-> Requires("execute", {{"write"}, {"read"}}), issuers |-> {1}, anyAudience |-> TRUE,
   forwardAuth |-> FALSE, passthrough |-> TRUE]}
===============================================================================
