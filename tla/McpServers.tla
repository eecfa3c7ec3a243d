----------------------------- MODULE McpServers -----------------------------
(****************************************************************************)
(* The catalogue of upstream MCP servers (internal/mcp/registry.go) and its *)
(* REST routes: rows in SQLite, each with a cached manifest that lives for  *)
(* an hour.  Every operation is one or two SQL statements with nothing      *)
(* between them; only fetches are serialised, by one mutex for all servers. *)
(****************************************************************************)
EXTENDS Naturals

CONSTANTS
  Servers,     \* ids
  McpCalls,    \* REST requests
  Configs      \* transport and config of a server, numbered from 1

ASSUME McpAssumption == Configs \subseteq Nat \ {0}

VARIABLES
  row,       \* the row of each server; config 0: no row
  fetching,  \* who holds r.mu, or "nobody"
  request,   \* where each request is
  overtaken  \* history: the servers last updated over a fetch of another config

mcpVars == <<row, fetching, request, overtaken>>

-----------------------------------------------------------------------------
\* manifest: the config the cached manifest was fetched with, 0 for none.
NoRow == [config |-> 0, enabled |-> FALSE, manifest |-> 0, fresh |-> FALSE]
Idle == [at |-> "idle", server |-> "none", seen |-> NoRow, got |-> 0]

McpInit ==
  /\ row = [s \in Servers |-> NoRow]
  /\ fetching = "nobody"
  /\ request = [c \in McpCalls |-> Idle]
  /\ overtaken = {}

\* The answer of a request is in got: a config, or 0 for an error.
Reply(c, answer) == request' = [request EXCEPT ![c].at = "done", ![c].got = answer]
Exists(s) == row[s].config # 0

\* Create; a name that is taken, a transport nobody knows or a config without
\* command or url is refused.
Register(c, s, g, enabled) ==
  /\ request[c].at = "idle" /\ ~Exists(s)
  /\ \A d \in McpCalls : request[d].server # s
  /\ row' = [row EXCEPT ![s] = [NoRow EXCEPT !.config = g, !.enabled = enabled]]
  /\ request' = [request EXCEPT ![c] = [Idle EXCEPT !.at = "done", !.server = s]]
  /\ UNCHANGED <<fetching, overtaken>>

\* Every other request of a server that is not there is answered 404.
Unknown(c, s) ==
  /\ request[c].at = "idle" /\ ~Exists(s)
  /\ request' = [request EXCEPT ![c] = [Idle EXCEPT !.at = "done", !.server = s]]
  /\ UNCHANGED <<row, fetching, overtaken>>

\* Update reads the row, for the fields its caller left out, ...
ReadForUpdate(c, s) ==
  /\ request[c].at = "idle" /\ Exists(s)
  /\ request' = [request EXCEPT ![c] = [at |-> "update", server |-> s, seen |-> row[s], got |-> 0]]
  /\ UNCHANGED <<row, fetching, overtaken>>

\* An Update that left the manifest alone.
UpdateKeepsManifest(c, g, enabled) ==
  LET s == request[c].server IN
  /\ request[c].at = "update"
  /\ row' = [row EXCEPT ![s].config = IF Exists(s) THEN g ELSE 0, ![s].enabled = enabled]
  /\ Reply(c, g)
  /\ UNCHANGED <<fetching, overtaken>>

\* ... and writes them all, without a manifest.  An id that has gone meanwhile
\* is updated in vain, and the caller is told it was.
FetchesOf(s, g) ==
  {d \in McpCalls : /\ request[d].at \in {"queue", "fetch", "store"}
                    /\ request[d].server = s /\ request[d].seen.config # g}
Update(c, g, enabled) ==
  LET s == request[c].server IN
  /\ request[c].at = "update"
  /\ IF Exists(s)
       THEN /\ row' = [row EXCEPT ![s] = [NoRow EXCEPT !.config = g, !.enabled = enabled]]
            /\ overtaken' = IF FetchesOf(s, g) # {} THEN overtaken \cup {s} ELSE overtaken \ {s}
       ELSE UNCHANGED <<row, overtaken>>
  /\ Reply(c, g)
  /\ UNCHANGED fetching

\* The config a caller gives, or the one that was read.
Named(c) == Configs \cup {request[c].seen.config}

Remove(c, s) ==
  /\ request[c].at = "idle" /\ Exists(s)
  /\ row' = [row EXCEPT ![s] = NoRow]
  /\ request' = [request EXCEPT ![c] = [Idle EXCEPT !.at = "done", !.server = s]]
  /\ UNCHANGED <<fetching, overtaken>>

-----------------------------------------------------------------------------
\* GET serves the cached manifest while it is fresh; POST, and a stale cache,
\* ask the server, unless it is disabled.
Manifest(c, s, force) ==
  LET r == row[s]
      Judged(place, answer) ==
        request' = [request EXCEPT ![c] = [at |-> place, server |-> s, seen |-> r, got |-> answer]]
  IN
  /\ request[c].at = "idle" /\ Exists(s)
  /\ IF ~force /\ r.manifest # 0 /\ r.fresh THEN Judged("done", r.manifest)
     ELSE IF r.enabled THEN Judged("queue", 0)
     ELSE Judged("done", 0)
  /\ UNCHANGED <<row, fetching, overtaken>>

LockFetches(c) ==
  /\ request[c].at = "queue" /\ fetching = "nobody"
  /\ fetching' = c
  /\ request' = [request EXCEPT ![c].at = "fetch"]
  /\ UNCHANGED <<row, overtaken>>

\* A stdio server is started, asked and waited for; the other transports are
\* placeholders.  It is asked with the config that was read.
FetchManifest(c) ==
  /\ request[c].at = "fetch"
  /\ request' = [request EXCEPT ![c].at = "store", ![c].got = request[c].seen.config]
  /\ UNCHANGED <<row, fetching, overtaken>>

FetchFails(c) ==
  /\ request[c].at = "fetch"
  /\ fetching' = "nobody"
  /\ Reply(c, 0)
  /\ UNCHANGED <<row, overtaken>>

\* The manifest is returned whether or not it could be stored.
StoreManifest(c) ==
  LET s == request[c].server IN
  /\ request[c].at = "store"
  /\ \/ row' = IF Exists(s) THEN [row EXCEPT ![s].manifest = request[c].got, ![s].fresh = TRUE] ELSE row
     \/ UNCHANGED row
  /\ fetching' = "nobody"
  /\ Reply(c, request[c].got)
  /\ UNCHANGED overtaken

\* An hour passes.
GoStale(s) ==
  /\ row[s].fresh
  /\ row' = [row EXCEPT ![s].fresh = FALSE]
  /\ UNCHANGED <<fetching, request, overtaken>>

McpNext ==
  \/ \E c \in McpCalls, s \in Servers :
       \/ \E g \in Configs, enabled \in BOOLEAN : Register(c, s, g, enabled)
       \/ Unknown(c, s) \/ ReadForUpdate(c, s) \/ Remove(c, s)
       \/ \E force \in BOOLEAN : Manifest(c, s, force)
  \/ \E c \in McpCalls :
       \/ \E g \in Named(c) \ {0}, enabled \in BOOLEAN : Update(c, g, enabled)
       \/ LockFetches(c) \/ FetchManifest(c) \/ FetchFails(c) \/ StoreManifest(c)
  \/ \E s \in Servers : GoStale(s)

McpSpec == McpInit /\ [][McpNext]_mcpVars

-----------------------------------------------------------------------------
\* "Updating config invalidates the cached manifest": a manifest in the cache
\* is of the config in its row, unless a fetch with an older config was under
\* way when the row was last updated.  (registry.go:167-171, 217-242)
ManifestIsOfConfig ==
  \A s \in Servers :
    row[s].manifest # 0 => row[s].manifest = row[s].config \/ s \in overtaken

\* Without the exception TLC refutes it: r.mu does not keep Update out.
ManifestAlwaysOfConfig ==
  \A s \in Servers : row[s].manifest # 0 => row[s].manifest = row[s].config

\* Refuted too: an Update that names no config brings back the one it read.
UpdateKeepsOthers ==
  [][\A c \in McpCalls :
       request[c].at = "update" /\ request'[c].at = "done" /\ request'[c].got = request[c].seen.config
         => row'[request[c].server].config = row[request[c].server].config]_mcpVars
=============================================================================
