----------------------------- MODULE MCServices -----------------------------
\* Eight services that share no state, checked side by side: each behaviour is
\* of one of them, chosen at the start, while the others rest.  The gateway has
\* two: overlapping key requests, and a chat call across one of them.  The vault
\* starts with the grants POST makes.
EXTENDS ServicesInv, SecretsInv

VARIABLE part

TwoCandidates == <<1, 2>>

\* Two runs of a pack, one of whose keys begins with the other's, and a fact
\* whose key differs from its prefix in case only.  A forget has the prefix of
\* all packs and then that of all pipelines, or one whole key.
Keyed == {"run", "longer", "fact"}
MeantBy == [packs |-> {"run", "longer"}, pipelines |-> {}, run |-> {"run"}, fact |-> {"fact"}]
MatchedBy == [packs |-> Keyed, pipelines |-> {}, run |-> {"run", "longer"}, fact |-> {"fact"}]
ForgetScopes == {<<"packs", "pipelines">>, <<"run">>, <<"fact">>}

OneRequest == CHOOSE q \in KeyRequests : TRUE
OneKey == CHOOSE k \in KeyIds : TRUE

serviceVars == <<cdpVars, mcpVars, memVars, marketVars, gatewayVars, vaultVars, artifactVars,
                 webhookVars, part>>

Init ==
  /\ CdpInit /\ McpInit /\ MemInit /\ MarketInit /\ GatewayInit /\ VaultInit /\ ArtifactInit
  /\ WebhookInit
  /\ part \in {"cdp", "mcp", "memory", "market", "keys", "chat", "vault", "bucket", "webhook"}
  /\ part # "market" => signed
  /\ part \notin {"keys", "chat"} => \A k \in KeyIds : keys[k] = NoKey
  /\ part = "chat" => KeysOf(keys, 1) = {OneKey} /\ keys[OneKey].born = 1
  /\ part # "chat" => ~rule.chained
  /\ part # "vault" => made = 0 /\ env = 0
  /\ made # 1
  /\ \A j \in CredIds : acl[j] \subseteq {"*"}
  /\ part # "bucket" => \A f \in Files : ttl[f] = (CHOOSE t \in PackTTLs : TRUE)
  /\ part # "webhook" => volume
  /\ part # "webhook" \/ ~volume => ref = "none"

\* All rest but the one named.
OthersRest(name) ==
  /\ part = name /\ UNCHANGED part
  /\ name # "cdp" => UNCHANGED cdpVars
  /\ name # "mcp" => UNCHANGED mcpVars
  /\ name # "memory" => UNCHANGED memVars
  /\ name # "market" => UNCHANGED marketVars
  /\ name \notin {"keys", "chat"} => UNCHANGED gatewayVars
  /\ name # "vault" => UNCHANGED vaultVars
  /\ name # "bucket" => UNCHANGED artifactVars
  /\ name # "webhook" => UNCHANGED webhookVars

Next ==
  \/ OthersRest("cdp") /\ CdpNext
  \/ OthersRest("mcp") /\ McpNext
  \/ OthersRest("memory") /\ MemNext
  \/ OthersRest("market") /\ MarketNext
  \/ OthersRest("keys") /\ \E q \in KeyRequests : KeyStep(q)
  \/ OthersRest("chat") /\ (KeyStep(OneRequest) \/ \E c \in Chats : ChatStep(c))
  \/ OthersRest("vault") /\ VaultNext
  \/ OthersRest("bucket") /\ ArtifactNext
  \/ OthersRest("webhook") /\ WebhookNext

Spec == Init /\ [][Next]_serviceVars
=============================================================================
