-------------------------- MODULE Services_proofs --------------------------
(***************************************************************************)
(* That the invariants of ServicesInv are inductive, one service after     *)
(* another, and the properties of the services that follow from them.      *)
(***************************************************************************)
EXTENDS ServicesInv, WellOrder

-----------------------------------------------------------------------------
(* CdpClients *)

\* The factory starts with no client and every visit at the door.
LEMMA CdpInitInv == CdpInit => CdpInv
  BY CdpAssumption DEF CdpInit, CdpInv, CdpTypeOK, Visiting, OnePlaceInv, Carries, AtDoor

\* Every assignment stays within its set.
LEMMA VisitingMove ==
  ASSUME NEW k \in Visiting,
         NEW place \in {"door", "find", "dial", "insert", "use", "stuck", "evict", "close", "end", "left"}
  PROVE  [k EXCEPT !.at = place] \in Visiting
  BY DEF Visiting

\* A move of a visit leaves every other visit where it was.
LEMMA VisitingStep ==
  ASSUME NEW k \in Visiting,
         NEW place \in {"door", "find", "dial", "insert", "use", "stuck", "evict", "close", "end", "left"},
         NEW c \in 0..MaxDials
  PROVE  [k EXCEPT !.at = place, !.client = c] \in Visiting
  BY DEF Visiting

\* The variables of the factory keep their types.
LEMMA CdpTypeStep == CdpInv /\ CdpNext => CdpTypeOK'
<1>. SUFFICES ASSUME CdpInv, CdpNext PROVE CdpTypeOK'  OBVIOUS
<1>. USE CdpAssumption DEF CdpInv, CdpTypeOK
<1>0. ASSUME NEW v \in Visits, NEW place \in {"find", "dial", "use", "stuck", "evict", "end", "left"},
             GoTo(v, place)
      PROVE  visit' \in [Visits -> Visiting]
  <2>1. [visit[v] EXCEPT !.at = place] \in Visiting
    BY VisitingMove
  <2>. QED  BY <1>0, <2>1 DEF GoTo, Go
<1>1. ASSUME NEW v \in Visits, NEW b \in Browsers, NEW owns \in BOOLEAN, Visit(v, b, owns) PROVE CdpTypeOK'
  <2>1. /\ [at |-> "use", browser |-> b, client |-> cached[b], owns |-> owns] \in Visiting
        /\ [at |-> "find", browser |-> b, client |-> 0, owns |-> owns] \in Visiting
        /\ [AtDoor EXCEPT !.at = "left", !.browser = b] \in Visiting
    BY 0 \in 0..MaxDials DEF AtDoor, Visiting
  <2>. QED  BY <1>1, <2>1 DEF Visit, Go
<1>2. ASSUME NEW v \in Visits, NEW b \in Browsers, DeleteSession(v, b) PROVE CdpTypeOK'
  <2>1. [at |-> "evict", browser |-> b, client |-> 0, owns |-> TRUE] \in Visiting
    BY 0 \in 0..MaxDials DEF Visiting
  <2>. QED  BY <1>2, <2>1 DEF DeleteSession, Go
<1>3. ASSUME NEW v \in Visits, Find(v) \/ DialFails(v) \/ Answer(v) \/ Stick(v) \/ Freed(v) \/ EndBrowser(v)
      PROVE  CdpTypeOK'
  <2>1. \E place \in {"find", "dial", "use", "stuck", "evict", "end", "left"} : GoTo(v, place)
    BY <1>3 DEF Find, DialFails, Answer, Stick, Freed, EndBrowser, AfterUse
  <2>. QED  BY <1>0, <1>3, <2>1 DEF Find, DialFails, Answer, Stick, Freed, EndBrowser
<1>4. ASSUME NEW v \in Visits, Dial(v) PROVE CdpTypeOK'
  <2>1. dialled' \in 0..MaxDials /\ open' \subseteq 1..dialled'
    BY <1>4 DEF Dial
  <2>2. [visit[v] EXCEPT !.at = "insert", !.client = dialled'] \in Visiting
    BY <2>1, VisitingStep
  <2>. QED  BY <1>4, <2>1, <2>2 DEF Dial, Go
<1>5. ASSUME NEW v \in Visits, Insert(v) PROVE CdpTypeOK'
  <2>1. visit[v].browser \in Browsers /\ visit[v].client \in 0..MaxDials
    BY <1>5 DEF Insert, OnePlaceInv, Visiting
  <2>2. CASE cached[visit[v].browser] # 0
    <3>1. [visit[v] EXCEPT !.at = "use", !.client = cached[visit[v].browser]] \in Visiting
      BY <2>1, VisitingStep
    <3>. QED  BY <1>5, <2>2, <3>1 DEF Insert, Go
  <2>3. CASE cached[visit[v].browser] = 0
    BY <1>0, <1>5, <2>1, <2>3 DEF Insert
  <2>. QED  BY <2>2, <2>3
<1>6. ASSUME NEW v \in Visits, Evict(v) PROVE CdpTypeOK'
  <2>1. visit[v].browser \in Browsers
    BY <1>6 DEF Evict, OnePlaceInv
  <2>2. [visit[v] EXCEPT !.at = "close", !.client = cached[visit[v].browser]] \in Visiting
    BY <2>1, VisitingStep
  <2>. QED  BY <1>6, <2>1, <2>2, 0 \in 0..MaxDials DEF Evict, Go
<1>7. ASSUME NEW v \in Visits, Close(v) PROVE CdpTypeOK'
  BY <1>0, <1>7 DEF Close
<1>8. ASSUME NEW b \in Browsers, Expire(b) PROVE CdpTypeOK'
  BY <1>8 DEF Expire
<1>. QED  BY <1>1, <1>2, <1>3, <1>4, <1>5, <1>6, <1>7, <1>8 DEF CdpNext

\* A client goes from the visit that dialled it to the cache, and from there to
\* the one visit that closes it.
LEMMA OnePlaceStep == CdpInv /\ CdpNext => OnePlaceInv'
<1>. SUFFICES ASSUME CdpInv, CdpNext PROVE OnePlaceInv'  OBVIOUS
<1>. USE CdpAssumption DEF CdpInv, CdpTypeOK, Visiting, OnePlaceInv, Carries, Go, GoTo, AfterUse
<1>1. ASSUME NEW v \in Visits, NEW b \in Browsers, NEW owns \in BOOLEAN, Visit(v, b, owns) PROVE OnePlaceInv'
  <2>1. visit[v].at = "door" /\ UNCHANGED <<up, cached, open, dialled>>
    BY <1>1 DEF Visit
  <2>2. CASE visit' = [visit EXCEPT ![v] = [at |-> "use", browser |-> b, client |-> cached[b], owns |-> owns]]
    BY <2>1, <2>2
  <2>3. CASE visit' = [visit EXCEPT ![v] = [at |-> "find", browser |-> b, client |-> 0, owns |-> owns]]
    BY <2>1, <2>3
  <2>4. CASE visit' = [visit EXCEPT ![v] = [AtDoor EXCEPT !.at = "left", !.browser = b]]
    BY <2>1, <2>4 DEF AtDoor
  <2>. QED  BY <1>1, <2>2, <2>3, <2>4 DEF Visit
<1>2. ASSUME NEW v \in Visits, NEW b \in Browsers, DeleteSession(v, b) PROVE OnePlaceInv'
  BY <1>2 DEF DeleteSession
<1>3. ASSUME NEW v \in Visits, Find(v) \/ DialFails(v) \/ Answer(v) \/ Stick(v) \/ Freed(v) PROVE OnePlaceInv'
  BY <1>3 DEF Find, DialFails, Answer, Stick, Freed
<1>4. ASSUME NEW v \in Visits, Dial(v) PROVE OnePlaceInv'
  BY <1>4 DEF Dial
<1>5. ASSUME NEW v \in Visits, Insert(v) PROVE OnePlaceInv'
  <2>. DEFINE b == visit[v].browser
  <2>1. b \in Browsers /\ Carries(v)
    BY <1>5 DEF Insert
  <2>2. CASE cached[b] # 0
    <3>1. open' = open \ {visit[v].client} /\ UNCHANGED <<cached, up, dialled>>
      BY <1>5, <2>2 DEF Insert
    <3>2. visit' = [visit EXCEPT ![v] = [visit[v] EXCEPT !.at = "use", !.client = cached[b]]]
      BY <1>5, <2>2 DEF Insert
    <3>. QED  BY <2>1, <2>2, <3>1, <3>2
  <2>3. CASE cached[b] = 0
    <3>1. cached' = [cached EXCEPT ![b] = visit[v].client] /\ UNCHANGED <<open, up, dialled>>
      BY <1>5, <2>3 DEF Insert
    <3>2. visit' = [visit EXCEPT ![v] = [visit[v] EXCEPT !.at = "use"]]
      BY <1>5, <2>3 DEF Insert
    <3>. QED  BY <2>1, <2>3, <3>1, <3>2
  <2>. QED  BY <2>2, <2>3
<1>6. ASSUME NEW v \in Visits, Evict(v) PROVE OnePlaceInv'
  BY <1>6 DEF Evict
<1>7. ASSUME NEW v \in Visits, Close(v) PROVE OnePlaceInv'
  BY <1>7 DEF Close
<1>8. ASSUME NEW v \in Visits, EndBrowser(v) PROVE OnePlaceInv'
  BY <1>8 DEF EndBrowser
<1>9. ASSUME NEW b \in Browsers, Expire(b) PROVE OnePlaceInv'
  BY <1>9 DEF Expire
<1>. QED  BY <1>1, <1>2, <1>3, <1>4, <1>5, <1>6, <1>7, <1>8, <1>9, SMTT(30) DEF CdpNext

\* An open client is either cached or carried, and by one only.
LEMMA OnePlaceIsOne == CdpInv => NoClientIsLost
<1>. SUFFICES ASSUME CdpInv, NEW c \in open PROVE Cardinality(HeldBy(c)) + Cardinality(CarriedBy(c)) = 1
  BY DEF NoClientIsLost, CdpInv, CdpTypeOK, OnePlaceInv
<1>. USE DEF CdpInv, CdpTypeOK, OnePlaceInv, Carries
<1>1. c # 0
  BY CdpAssumption
<1>2. CASE \E b \in Browsers : cached[b] = c
  <2>1. PICK b \in Browsers : cached[b] = c
    BY <1>2
  <2>2. HeldBy(c) = {b} /\ CarriedBy(c) = {}
    BY <1>1, <2>1 DEF HeldBy, CarriedBy
  <2>3. Cardinality({b}) = 1 /\ Cardinality({}) = 0
    BY FS_EmptySet, FS_Singleton
  <2>. QED  BY <2>2, <2>3
<1>3. CASE \E v \in Visits : Carries(v) /\ visit[v].client = c
  <2>1. PICK v \in Visits : Carries(v) /\ visit[v].client = c
    BY <1>3
  <2>2. HeldBy(c) = {} /\ CarriedBy(c) = {v}
    BY <1>1, <2>1 DEF HeldBy, CarriedBy
  <2>3. Cardinality({v}) = 1 /\ Cardinality({}) = 0
    BY FS_EmptySet, FS_Singleton
  <2>. QED  BY <2>2, <2>3
<1>. QED  BY <1>2, <1>3

\* Whatever visits, crashes and expirations do, every open client is in one
\* place.  (browser.go:44-306, cdp.go:87-329)
THEOREM CdpKeepsInv == CdpSpec => []CdpInv
<1>1. CdpInv /\ UNCHANGED cdpVars => CdpInv'
  BY DEF CdpInv, CdpTypeOK, OnePlaceInv, Carries, cdpVars
<1>. QED  BY <1>1, CdpInitInv, CdpTypeStep, OnePlaceStep, PTL DEF CdpSpec, CdpInv

\* No client is open that neither the cache nor a visit answers for, except where
\* the property says so.  (browser.go:60-120, cdp.go:278-329)
THEOREM ClientsAreNotLost == CdpSpec => []NoClientIsLost
  BY CdpKeepsInv, OnePlaceIsOne, PTL

-----------------------------------------------------------------------------
(* McpServers *)

\* No server is registered and no request has begun.
LEMMA McpInitInv == McpInit => McpInv
  BY McpAssumption DEF McpInit, McpInv, McpTypeOK, FetchInv, ManifestIsOfConfig, Requests, Rows, NoRow, Idle, Exists

\* Every assignment stays within its set.
LEMMA McpTypes ==
  /\ NoRow \in Rows /\ Idle \in Requests
  /\ \A s \in Servers, r \in Rows, g \in Configs \cup {0}, place \in {"update", "queue", "done"} :
       [at |-> place, server |-> s, seen |-> r, got |-> g] \in Requests
  /\ \A k \in Requests, g \in Configs \cup {0}, place \in {"fetch", "store", "done"} :
       /\ [k EXCEPT !.at = place] \in Requests
       /\ [k EXCEPT !.at = place, !.got = g] \in Requests
  /\ \A s \in Servers : [Idle EXCEPT !.at = "done", !.server = s] \in Requests
<1>1. NoRow \in Rows
  BY DEF NoRow, Rows
<1>. QED  BY <1>1 DEF Idle, Requests

\* The variables of the registry keep their types.
LEMMA McpTypeStep == McpInv /\ McpNext => McpTypeOK'
<1>. SUFFICES ASSUME McpInv, McpNext PROVE McpTypeOK'  OBVIOUS
<1>. USE McpTypes DEF McpInv, McpTypeOK, Reply
<1>0. ASSUME NEW k \in Requests PROVE k.seen \in Rows /\ k.seen.config \in Configs \cup {0} /\ k.got \in Configs \cup {0}
  BY DEF Requests, Rows
<1>1. ASSUME NEW c \in McpCalls, NEW s \in Servers, NEW g \in Configs, NEW enabled \in BOOLEAN, Register(c, s, g, enabled) PROVE McpTypeOK'
  <2>1. [NoRow EXCEPT !.config = g, !.enabled = enabled] \in Rows
    BY DEF NoRow, Rows
  <2>. QED  BY <1>1, <2>1 DEF Register
<1>2. ASSUME NEW c \in McpCalls, NEW s \in Servers, Unknown(c, s) PROVE McpTypeOK'
  BY <1>2 DEF Unknown
<1>3. ASSUME NEW c \in McpCalls, NEW s \in Servers, ReadForUpdate(c, s) PROVE McpTypeOK'
  BY <1>3 DEF ReadForUpdate
<1>4. ASSUME NEW c \in McpCalls, NEW s \in Servers, Remove(c, s) PROVE McpTypeOK'
  BY <1>4 DEF Remove
<1>5. ASSUME NEW c \in McpCalls, NEW s \in Servers, NEW force \in BOOLEAN, Manifest(c, s, force) PROVE McpTypeOK'
  <2>1. row[s] \in Rows /\ row[s].manifest \in Configs \cup {0}
    BY DEF Rows
  <2>2. \A place \in {"queue", "done"}, g \in Configs \cup {0} :
          [at |-> place, server |-> s, seen |-> row[s], got |-> g] \in Requests
    BY <2>1
  <2>3. /\ UNCHANGED <<row, fetching, overtaken>>
        /\ \/ request' = [request EXCEPT ![c] = [at |-> "done", server |-> s, seen |-> row[s], got |-> row[s].manifest]]
           \/ request' = [request EXCEPT ![c] = [at |-> "queue", server |-> s, seen |-> row[s], got |-> 0]]
           \/ request' = [request EXCEPT ![c] = [at |-> "done", server |-> s, seen |-> row[s], got |-> 0]]
    BY <1>5, Zenon DEF Manifest
  <2>4. \E k \in Requests : request' = [request EXCEPT ![c] = k]
    BY <2>1, <2>2, <2>3, Zenon
  <2>. QED  BY <2>3, <2>4
<1>6. ASSUME NEW c \in McpCalls, NEW g \in Named(c) \ {0}, NEW enabled \in BOOLEAN, Update(c, g, enabled) PROVE McpTypeOK'
  <2>1. g \in Configs \cup {0}
    BY <1>0 DEF Named
  <2>2. [NoRow EXCEPT !.config = g, !.enabled = enabled] \in Rows
    BY <2>1 DEF NoRow, Rows
  <2>3. row' \in [Servers -> Rows] /\ overtaken' \subseteq Servers
    <3>. DEFINE s == request[c].server
    <3>1. s \in Servers
      BY <1>6, Zenon DEF Update, FetchInv
    <3>2. /\ row' \in {row, [row EXCEPT ![s] = [NoRow EXCEPT !.config = g, !.enabled = enabled]]}
          /\ overtaken' \in {overtaken, overtaken \cup {s}, overtaken \ {s}}
      BY <1>6 DEF Update
    <3>. HIDE DEF s
    <3>. QED  BY <2>2, <3>1, <3>2
  <2>. QED  BY <1>6, <2>1, <2>3 DEF Update
<1>7. ASSUME NEW c \in McpCalls, LockFetches(c) \/ FetchManifest(c) \/ FetchFails(c) PROVE McpTypeOK'
  <2>1. \E k \in Requests : request' = [request EXCEPT ![c] = k]
    <3>1. CASE LockFetches(c)
      BY <3>1 DEF LockFetches
    <3>2. CASE FetchManifest(c)
      BY <1>0, <3>2 DEF FetchManifest
    <3>3. CASE FetchFails(c)
      BY <3>3 DEF FetchFails
    <3>. QED  BY <1>7, <3>1, <3>2, <3>3
  <2>. QED  BY <1>7, <2>1 DEF LockFetches, FetchManifest, FetchFails
<1>8. ASSUME NEW c \in McpCalls, StoreManifest(c) PROVE McpTypeOK'
  <2>. DEFINE s == request[c].server
  <2>1. s \in Servers /\ request[c].got \in Configs \cup {0}
    BY <1>0, <1>8 DEF StoreManifest, FetchInv
  <2>2. [row[s] EXCEPT !.manifest = request[c].got, !.fresh = TRUE] \in Rows
    BY <2>1 DEF Rows
  <2>3. row' \in [Servers -> Rows]
    BY <1>8, <2>1, <2>2 DEF StoreManifest
  <2>. QED  BY <1>8, <2>1, <2>3 DEF StoreManifest
<1>9. ASSUME NEW s \in Servers, GoStale(s) PROVE McpTypeOK'
  <2>1. [row[s] EXCEPT !.fresh = FALSE] \in Rows
    BY DEF Rows
  <2>. QED  BY <1>9, <2>1 DEF GoStale
<1>. QED  BY <1>1, <1>2, <1>3, <1>4, <1>5, <1>6, <1>7, <1>8, <1>9, ZenonT(30) DEF McpNext

\* An Update that meets a fetch with another config marks the server; after it
\* no other fetch of the server is under way.
LEMMA FetchStep == McpInv /\ McpNext => FetchInv'
<1>. SUFFICES ASSUME McpInv, McpNext PROVE FetchInv'  OBVIOUS
<1>. USE McpAssumption DEF McpInv, McpTypeOK, Requests, Rows, NoRow, Idle, Reply, FetchInv, Exists
<1>1. ASSUME NEW c \in McpCalls, NEW s \in Servers, NEW g \in Configs, NEW enabled \in BOOLEAN, Register(c, s, g, enabled) PROVE FetchInv'
  BY <1>1 DEF Register
<1>2. ASSUME NEW c \in McpCalls, NEW s \in Servers, Unknown(c, s) \/ ReadForUpdate(c, s) \/ Remove(c, s) PROVE FetchInv'
  <2>1. CASE Unknown(c, s)
    BY <2>1 DEF Unknown
  <2>2. CASE ReadForUpdate(c, s)
    BY <2>2 DEF ReadForUpdate
  <2>3. CASE Remove(c, s)
    BY <2>3 DEF Remove
  <2>. QED  BY <1>2, <2>1, <2>2, <2>3
<1>3. ASSUME NEW c \in McpCalls, NEW s \in Servers, NEW force \in BOOLEAN, Manifest(c, s, force) PROVE FetchInv'
  BY <1>3, SMTT(30) DEF Manifest
<1>4. ASSUME NEW c \in McpCalls, NEW g \in Named(c) \ {0}, NEW enabled \in BOOLEAN, Update(c, g, enabled) PROVE FetchInv'
  <2>. DEFINE s == request[c].server
  <2>1. s \in Servers /\ request' = [request EXCEPT ![c].at = "done", ![c].got = g]
    BY <1>4 DEF Update
  <2>2. \A d \in McpCalls : request'[d].at # "done" => d # c /\ request'[d] = request[d]
    BY <2>1
  <2>3. CASE Exists(s)
    <3>1. row' = [row EXCEPT ![s] = [NoRow EXCEPT !.config = g, !.enabled = enabled]]
      BY <1>4, <2>3 DEF Update
    <3>2. row'[s].config = g /\ \A t \in Servers : t # s => row'[t] = row[t]
      BY <2>1, <3>1
    <3>3. overtaken' = IF FetchesOf(s, g) # {} THEN overtaken \cup {s} ELSE overtaken \ {s}
      BY <1>4, <2>3 DEF Update
    <3>4. ASSUME NEW d \in McpCalls, request[d].at \in {"queue", "fetch", "store"}, request[d].server = s
          PROVE  request[d].seen.config = g \/ s \in overtaken'
      BY <2>1, <3>3, <3>4 DEF FetchesOf
    <3>. QED  BY <2>1, <2>2, <3>2, <3>3, <3>4
  <2>4. CASE ~Exists(s)
    BY <1>4, <2>1, <2>2, <2>4 DEF Update
  <2>. QED  BY <2>3, <2>4
<1>5. ASSUME NEW c \in McpCalls, LockFetches(c) \/ FetchManifest(c) \/ FetchFails(c) PROVE FetchInv'
  <2>1. CASE LockFetches(c)
    BY <2>1 DEF LockFetches
  <2>2. CASE FetchManifest(c)
    BY <2>2 DEF FetchManifest
  <2>3. CASE FetchFails(c)
    BY <2>3 DEF FetchFails
  <2>. QED  BY <1>5, <2>1, <2>2, <2>3
<1>6. ASSUME NEW c \in McpCalls, StoreManifest(c) PROVE FetchInv'
  BY <1>6, SMTT(30) DEF StoreManifest
<1>7. ASSUME NEW s \in Servers, GoStale(s) PROVE FetchInv'
  BY <1>7 DEF GoStale
<1>. QED  BY <1>1, <1>2, <1>3, <1>4, <1>5, <1>6, <1>7 DEF McpNext

\* What is stored was fetched with the row's config, or the server is marked.
LEMMA ManifestStep ==
  McpInv /\ McpNext => (ManifestIsOfConfig /\ \A s \in Servers : ~Exists(s) => row[s].manifest = 0)'
<1>. DEFINE Goal == ManifestIsOfConfig /\ \A s \in Servers : ~Exists(s) => row[s].manifest = 0
<1>. SUFFICES ASSUME McpInv, McpNext PROVE Goal'  OBVIOUS
<1>. USE McpAssumption DEF McpInv, McpTypeOK, Requests, Rows, NoRow, Idle, Reply, Exists, ManifestIsOfConfig
<1>1. ASSUME NEW c \in McpCalls, NEW s \in Servers, NEW g \in Configs, NEW enabled \in BOOLEAN, Register(c, s, g, enabled) PROVE Goal'
  BY <1>1 DEF Register
<1>2. ASSUME NEW c \in McpCalls, NEW s \in Servers, Unknown(c, s) \/ ReadForUpdate(c, s) \/ Remove(c, s) PROVE Goal'
  <2>1. CASE Unknown(c, s)
    BY <2>1 DEF Unknown
  <2>2. CASE ReadForUpdate(c, s)
    BY <2>2 DEF ReadForUpdate
  <2>3. CASE Remove(c, s)
    BY <2>3 DEF Remove
  <2>. QED  BY <1>2, <2>1, <2>2, <2>3
<1>3. ASSUME NEW c \in McpCalls, NEW s \in Servers, NEW force \in BOOLEAN, Manifest(c, s, force) PROVE Goal'
  BY <1>3 DEF Manifest
<1>4. ASSUME NEW c \in McpCalls, NEW g \in Named(c) \ {0}, NEW enabled \in BOOLEAN, Update(c, g, enabled) PROVE Goal'
  <2>. DEFINE s == request[c].server
  <2>1. s \in Servers
    BY <1>4 DEF Update, FetchInv
  <2>2. CASE Exists(s)
    <3>1. row' = [row EXCEPT ![s] = [NoRow EXCEPT !.config = g, !.enabled = enabled]]
      BY <1>4, <2>2 DEF Update
    <3>2. row'[s].manifest = 0 /\ row'[s].config = g /\ \A t \in Servers : t # s => row'[t] = row[t]
      BY <2>1, <3>1
    <3>3. \A t \in Servers : t # s => (t \in overtaken' <=> t \in overtaken)
      BY <1>4, <2>2 DEF Update
    <3>. QED  BY <2>1, <3>2, <3>3
  <2>3. CASE ~Exists(s)
    BY <1>4, <2>3 DEF Update
  <2>. QED  BY <2>2, <2>3
<1>5. ASSUME NEW c \in McpCalls, LockFetches(c) \/ FetchManifest(c) \/ FetchFails(c) PROVE Goal'
  BY <1>5 DEF LockFetches, FetchManifest, FetchFails
<1>6. ASSUME NEW c \in McpCalls, StoreManifest(c) PROVE Goal'
  <2>. DEFINE s == request[c].server
  <2>1. /\ s \in Servers /\ request[c].got = request[c].seen.config
        /\ row[s].config \in {0, request[c].seen.config} \/ s \in overtaken
    BY <1>6 DEF StoreManifest, FetchInv
  <2>2. UNCHANGED overtaken
    BY <1>6 DEF StoreManifest
  <2>3. CASE UNCHANGED row
    BY <2>2, <2>3
  <2>4. CASE Exists(s) /\ row' = [row EXCEPT ![s].manifest = request[c].got, ![s].fresh = TRUE]
    <3>1. /\ row'[s].manifest = request[c].got /\ row'[s].config = row[s].config
          /\ \A t \in Servers : t # s => row'[t] = row[t]
      BY <2>1, <2>4
    <3>. QED  BY <2>1, <2>2, <2>4, <3>1
  <2>. QED  BY <1>6, <2>3, <2>4 DEF StoreManifest
<1>7. ASSUME NEW s \in Servers, GoStale(s) PROVE Goal'
  BY <1>7 DEF GoStale
<1>. QED  BY <1>1, <1>2, <1>3, <1>4, <1>5, <1>6, <1>7 DEF McpNext

\* The registry keeps to its invariant, whatever updates overtake a fetch.
\* (registry.go:22-360)
THEOREM McpKeepsInv == McpSpec => []McpInv
<1>1. McpInv /\ UNCHANGED mcpVars => McpInv'
  BY DEF McpInv, McpTypeOK, FetchInv, ManifestIsOfConfig, Exists, mcpVars
<1>2. McpInv /\ McpNext => McpInv'
  BY McpTypeStep, FetchStep, ManifestStep DEF McpInv
<1>. QED  BY <1>1, <1>2, McpInitInv, PTL DEF McpSpec

\* A cached manifest is the one of the configuration its row has, unless the row
\* was overtaken.  (registry.go:22-360)
THEOREM ManifestsAreOfConfigs == McpSpec => []ManifestIsOfConfig
<1>1. McpInv => ManifestIsOfConfig
  BY DEF McpInv
<1>. QED  BY <1>1, McpKeepsInv, PTL

-----------------------------------------------------------------------------
(* MemoryStore *)

\* The store starts empty.
LEMMA MemInitInv == MemInit => MemInv
  BY DEF MemInit, MemInv, MemTypeOK, EntryInv, GetInv, AtRest, Readers, Entries, NoEntry

\* Every assignment stays within its set.
LEMMA MemTypes ==
  /\ NoEntry \in Entries
  /\ \A r \in Readers : /\ [r EXCEPT !.at = "drop"] \in Readers /\ [r EXCEPT !.at = "done"] \in Readers
                        /\ [r EXCEPT !.at = "done", !.seen = NoEntry] \in Readers
                        /\ [r EXCEPT !.at = "done", !.left = <<>>] \in Readers
                        /\ r.left # <<>> => [r EXCEPT !.left = Tail(@)] \in Readers
  /\ AtRest \in Readers /\ [AtRest EXCEPT !.at = "done"] \in Readers
<1>1. NoEntry \in Entries
  BY DEF NoEntry, Entries
<1>2. /\ <<>> \in Seq(Patterns)
      /\ \A s \in Seq(Patterns) : s # <<>> => Tail(s) \in Seq(Patterns)
  OBVIOUS
<1>. DEFINE none == <<>>
<1>3. none \in Seq(Patterns)
  BY <1>2
<1>. HIDE DEF none
<1>4. \A r \in Readers : [r EXCEPT !.at = "done", !.left = none] \in Readers
  BY <1>3 DEF Readers
<1>5. AtRest \in Readers
  BY <1>1, <1>2, Zenon DEF AtRest, Readers
<1>6. \A r \in Readers : /\ [r EXCEPT !.at = "drop"] \in Readers /\ [r EXCEPT !.at = "done"] \in Readers
                          /\ [r EXCEPT !.at = "done", !.seen = NoEntry] \in Readers
  BY <1>1 DEF Readers
<1>7. ASSUME NEW r \in Readers, r.left # <<>> PROVE [r EXCEPT !.left = Tail(@)] \in Readers
  <2>1. Tail(r.left) \in Seq(Patterns)
    BY <1>2, <1>7 DEF Readers
  <2>. QED  BY <2>1 DEF Readers
<1>. QED  BY <1>1, <1>4, <1>5, <1>6, <1>7 DEF none

\* The variables of the memory store keep their types.
LEMMA MemTypeStep == MemInv /\ MemNext => MemTypeOK'
<1>. SUFFICES ASSUME MemInv, MemNext PROVE MemTypeOK'  OBVIOUS
<1>. USE DEF MemInv, MemTypeOK, Proceed
<1>1. ASSUME NEW o \in MemCalls, NEW k \in Keys, NEW span \in {0, 1, 2}, Put(o, k, span) PROVE MemTypeOK'
  <2>1. [value |-> puts + 1, due |-> IF span = 0 THEN 0 ELSE now + span] \in Entries
    BY DEF Entries
  <2>2. crossed' \subseteq Keys /\ puts' \in Nat /\ UNCHANGED now
    BY <1>1 DEF Put
  <2>3. entry' \in [Keys -> Entries] /\ kept' \in [Keys -> Entries]
    BY <1>1, <2>1 DEF Put
  <2>. QED  BY <1>1, <2>2, <2>3, MemTypes DEF Put
<1>2. ASSUME NEW o \in MemCalls, NEW k \in Keys, Get(o, k) PROVE MemTypeOK'
  <2>1. entry[k] \in Entries
    OBVIOUS
  <2>2. \A place \in {"done", "judge"}, e \in Entries : [AtRest EXCEPT !.at = place, !.key = k, !.seen = e] \in Readers
    BY MemTypes DEF Readers
  <2>. QED  BY <1>2, <2>1, <2>2 DEF Get
<1>3. ASSUME NEW o \in MemCalls, NEW k \in Keys, Delete(o, k) PROVE MemTypeOK'
  BY <1>3, MemTypes DEF Delete
<1>4. ASSUME NEW o \in MemCalls, Judge(o) PROVE MemTypeOK'
  BY <1>4, MemTypes DEF Judge
<1>5. ASSUME NEW o \in MemCalls, Drop(o) PROVE MemTypeOK'
  BY <1>5, MemTypes DEF Drop, GetInv
<1>6. ASSUME NEW o \in MemCalls, NEW n \in Callers, NEW scope \in Scopes, Forget(o, n, scope) PROVE MemTypeOK'
  <2>1. [AtRest EXCEPT !.at = "forget", !.whose = {n}, !.left = scope] \in Readers
    <3>1. {n} \in SUBSET Callers /\ scope \in Seq(Patterns)
      BY MemoryAssumption
    <3>2. AtRest \in Readers
      BY MemTypes
    <3>. QED  BY <3>1, <3>2 DEF Readers
  <2>. QED  BY <1>6, <2>1 DEF Forget
<1>7. ASSUME NEW o \in MemCalls, DeletePrefix(o) PROVE MemTypeOK'
  <2>1. entry' \in [Keys -> Entries] /\ kept' \in [Keys -> Entries]
    BY <1>7, MemTypes DEF DeletePrefix, Without
  <2>2. reader' \in [MemCalls -> Readers]
    BY <1>7, MemTypes DEF DeletePrefix
  <2>. QED  BY <1>7, <2>1, <2>2 DEF DeletePrefix
<1>8. ASSUME NEW o \in MemCalls, Forgotten(o) PROVE MemTypeOK'
  BY <1>8, MemTypes DEF Forgotten
<1>9. CASE Tick
  BY <1>9 DEF Tick
<1>. QED  BY <1>1, <1>2, <1>3, <1>4, <1>5, <1>6, <1>7, <1>8, <1>9 DEF MemNext

\* An entry differs from what was last put only when that one has expired, or
\* was put while a Get held an expired predecessor.
LEMMA EntryStep == MemInv /\ MemNext => EntryInv'
<1>. SUFFICES ASSUME MemInv, MemNext PROVE EntryInv'  OBVIOUS
<1>. USE DEF MemInv, MemTypeOK, Readers, Entries, NoEntry, Proceed, EntryInv, Expired
<1>1. ASSUME NEW o \in MemCalls, NEW k \in Keys, NEW span \in {0, 1, 2}, Put(o, k, span) PROVE EntryInv'
  BY <1>1 DEF Put
<1>2. ASSUME NEW o \in MemCalls, NEW k \in Keys, Get(o, k) \/ Delete(o, k) PROVE EntryInv'
  BY <1>2, ZenonT(30) DEF Get, Delete
<1>3. ASSUME NEW o \in MemCalls, Judge(o) PROVE EntryInv'
  BY <1>3 DEF Judge
<1>4. ASSUME NEW o \in MemCalls, Drop(o) PROVE EntryInv'
  BY <1>4 DEF Drop, GetInv
<1>5. ASSUME NEW o \in MemCalls, NEW n \in Callers, NEW scope \in Scopes, Forget(o, n, scope) PROVE EntryInv'
  BY <1>5 DEF Forget
<1>6. ASSUME NEW o \in MemCalls, DeletePrefix(o) PROVE EntryInv'
  BY <1>6 DEF DeletePrefix, Without
<1>7. ASSUME NEW o \in MemCalls, Forgotten(o) PROVE EntryInv'
  BY <1>7 DEF Forgotten
<1>8. CASE Tick
  BY <1>8 DEF Tick
<1>. QED  BY <1>1, <1>2, <1>3, <1>4, <1>5, <1>6, <1>7, <1>8 DEF MemNext

\* What a Get has read is what was last put, or too old to matter.
LEMMA GetStep == MemInv /\ MemNext => GetInv'
<1>. SUFFICES ASSUME MemInv, MemNext PROVE GetInv'  OBVIOUS
<1>. USE DEF MemInv, MemTypeOK, Readers, Entries, NoEntry, Proceed, GetInv, Expired
<1>1. ASSUME NEW o \in MemCalls, NEW k \in Keys, NEW span \in {0, 1, 2}, Put(o, k, span) PROVE GetInv'
  BY <1>1 DEF Put, GetsOver, AtRest
<1>2. ASSUME NEW o \in MemCalls, NEW k \in Keys, Get(o, k) \/ Delete(o, k) PROVE GetInv'
  <2>1. CASE Get(o, k)
    <3>1. /\ reader' = [reader EXCEPT ![o] = reader'[o]] /\ UNCHANGED <<entry, now, puts, kept, crossed>>
          /\ reader'[o].at \in {"done", "judge"} /\ reader'[o].key = k /\ reader'[o].seen = entry[k]
      BY <2>1 DEF Get, AtRest
    <3>2. entry[k] = kept[k] \/ k \in crossed \/ Expired(kept[k])
      BY DEF EntryInv
    <3>. QED  BY <3>1, <3>2, Zenon
  <2>2. CASE Delete(o, k)
    BY <2>2 DEF Delete, AtRest
  <2>. QED  BY <1>2, <2>1, <2>2
<1>3. ASSUME NEW o \in MemCalls, Judge(o) PROVE GetInv'
  BY <1>3 DEF Judge
<1>4. ASSUME NEW o \in MemCalls, Drop(o) PROVE GetInv'
  BY <1>4 DEF Drop
<1>5. ASSUME NEW o \in MemCalls, NEW n \in Callers, NEW scope \in Scopes, Forget(o, n, scope) PROVE GetInv'
  BY <1>5 DEF Forget, AtRest
<1>6. ASSUME NEW o \in MemCalls, DeletePrefix(o) PROVE GetInv'
  BY <1>6 DEF DeletePrefix, Without
<1>7. ASSUME NEW o \in MemCalls, Forgotten(o) PROVE GetInv'
  BY <1>7 DEF Forgotten
<1>8. CASE Tick
  BY <1>8 DEF Tick
<1>. QED  BY <1>1, <1>2, <1>3, <1>4, <1>5, <1>6, <1>7, <1>8 DEF MemNext

\* The memory store keeps to its invariant, although a Get drops what it judged
\* expired before.  (sqlite.go:27-292)
THEOREM MemKeepsInv == MemSpec => []MemInv
<1>1. MemInv /\ UNCHANGED memVars => MemInv'
  BY DEF MemInv, MemTypeOK, EntryInv, GetInv, Expired, memVars
<1>2. MemInv /\ MemNext => MemInv'
  BY MemTypeStep, EntryStep, GetStep DEF MemInv
<1>. QED  BY <1>1, <1>2, MemInitInv, PTL DEF MemSpec

\* What was put last is there until it expires or its caller forgets it, by its
\* key or by whatever a pattern matches, unless a Get crossed the put.
\* (sqlite.go:27-292)
THEOREM PutsDoStay == MemSpec => []PutsStay
<1>1. MemInv => PutsStay
  BY DEF MemInv, EntryInv, PutsStay, Shown
<1>. QED  BY <1>1, MemKeepsInv, PTL

-----------------------------------------------------------------------------
(* Marketplace *)

\* Nothing is installed, and no request has begun.
LEMMA MarketInitInv == MarketInit => MarketInv
<1>. SUFFICES ASSUME MarketInit PROVE MarketInv  OBVIOUS
<1>1. NoFiles \in [Parts -> 0..Releases] /\ 0 \in 0..Releases /\ 1 \in 1..Releases
  BY MarketAssumption DEF NoFiles
<1>2. Waiting \in Errand
  BY <1>1 DEF Errand, Waiting, Places, Over
<1>3. MarketTypeOK
  BY <1>1, <1>2 DEF MarketInit, MarketTypeOK
<1>4. \A e \in Errands : errand[e] = Waiting /\ e \notin Busy
  BY DEF MarketInit, Busy, Over, Waiting
<1>5. intact = FALSE /\ registered = {} /\ published = 1
  BY DEF MarketInit
<1>6. recorded = 0
  BY DEF MarketInit
<1>. QED  BY <1>3, <1>4, <1>5, <1>6 DEF MarketInv, AloneInv, VersionInv, IntactInv, InstalledIsWhole, Waiting, Over, Installing

\* The version a call gets is a registered one.
LEMMA LatestIsOne == MarketTypeOK /\ registered # {} => Latest \in registered
<1>. SUFFICES ASSUME MarketTypeOK, registered # {} PROVE Latest \in registered
  OBVIOUS
<1>1. Releases \in Nat /\ registered \subseteq 0..Releases
  BY MarketAssumption DEF MarketTypeOK
<1>2. \E x \in registered : \A y \in registered : y <= x
  BY <1>1, GreatestExists
<1>. QED  BY <1>2 DEF Latest

\* Every form a request takes while it moves is a request.
LEMMA MarketTypes ==
  ASSUME NEW k \in Errand, NEW place \in Places, NEW v \in 0..Releases, NEW S \in SUBSET Parts,
         NEW f \in [Parts -> 0..Releases]
  PROVE  /\ [k EXCEPT !.at = place] \in Errand
         /\ [k EXCEPT !.at = place, !.version = v] \in Errand
         /\ [k EXCEPT !.at = place, !.parts = f] \in Errand
         /\ [k EXCEPT !.left = S, !.at = place] \in Errand
         /\ [k EXCEPT !.left = S, !.parts = f, !.at = place] \in Errand
<1>. USE DEF Errand
<1>1. [k EXCEPT !.at = place] \in Errand  OBVIOUS
<1>2. [k EXCEPT !.at = place, !.version = v] \in Errand  OBVIOUS
<1>3. [k EXCEPT !.at = place, !.parts = f] \in Errand  OBVIOUS
<1>4. [k EXCEPT !.left = S, !.at = place] \in Errand  OBVIOUS
<1>5. [k EXCEPT !.left = S, !.parts = f, !.at = place] \in Errand  OBVIOUS
<1>. QED  BY <1>1, <1>2, <1>3, <1>4, <1>5

\* So is one that starts, and one that a reboot ended.
LEMMA ErrandIsOne ==
  ASSUME NEW place \in Places, NEW v \in 0..Releases, NEW b \in BOOLEAN
  PROVE  /\ [at |-> place, version |-> v, left |-> Parts, parts |-> NoFiles, alone |-> b] \in Errand
         /\ [Waiting EXCEPT !.at = "over"] \in Errand
<1>1. NoFiles \in [Parts -> 0..Releases] /\ 0 \in 0..Releases
  BY MarketAssumption DEF NoFiles
<1>2. [at |-> place, version |-> v, left |-> Parts, parts |-> NoFiles, alone |-> b] \in Errand
  BY <1>1 DEF Errand
<1>3. [Waiting EXCEPT !.at = "over"] \in Errand
  BY <1>1 DEF Errand, Waiting, Places, Over
<1>. QED  BY <1>2, <1>3

\* And one that others overtake.
LEMMA AloneIsOne ==
  ASSUME NEW k \in Errand, NEW b \in BOOLEAN PROVE [k EXCEPT !.alone = b] \in Errand
  BY DEF Errand
\* A request that moves on stays in its set, and so do all when one starts.
LEMMA MoveTypes ==
  ASSUME MarketTypeOK, NEW e \in Errands, NEW place \in Places
  PROVE  /\ Move(e, place) => errand' \in [Errands -> Errand]
         /\ \A v \in 0..Releases : Start(e, place, v) => errand' \in [Errands -> Errand]
<1>. USE DEF MarketTypeOK
<1>1. ASSUME Move(e, place) PROVE errand' \in [Errands -> Errand]
  <2>1. errand[e] \in Errand
    OBVIOUS
  <2>2. [errand[e] EXCEPT !.at = place] \in Errand
    BY <2>1 DEF Errand
  <2>. QED  BY <1>1, <2>2 DEF Move
<1>2. ASSUME NEW v \in 0..Releases, Start(e, place, v) PROVE errand' \in [Errands -> Errand]
  <2>1. (Busy = {}) \in BOOLEAN
    OBVIOUS
  <2>2. [at |-> place, version |-> v, left |-> Parts, parts |-> NoFiles, alone |-> Busy = {}] \in Errand
    BY <2>1, ErrandIsOne
  <2>3. ASSUME NEW d \in Errands PROVE [errand[d] EXCEPT !.alone = @ /\ d \notin Busy] \in Errand
    BY DEF Errand
  <2>. QED  BY <1>2, <2>2, <2>3 DEF Start
<1>. QED  BY <1>1, <1>2

\* RemoveAll leaves files of versions that were there, or none.
LEMMA RemoveAllTypes == MarketTypeOK /\ RemoveAll => files' \in [Parts -> 0..Releases]
  BY DEF RemoveAll

\* The variables of the marketplace keep their types.
LEMMA MarketTypeStep == MarketInv /\ MarketNext => MarketTypeOK'
<1>. SUFFICES ASSUME MarketInv, MarketNext PROVE MarketTypeOK'  OBVIOUS
<1>0. /\ Releases \in Nat \ {0} /\ published \in 0..Releases
      /\ registered # {} => Latest \in 0..Releases
  <2>1. MarketTypeOK /\ Releases \in Nat \ {0}
    BY MarketAssumption DEF MarketInv
  <2>2. registered # {} => Latest \in registered
    BY <2>1, LatestIsOne
  <2>3. published \in 1..Releases /\ registered \subseteq 1..Releases
    BY <2>1 DEF MarketTypeOK
  <2>4. 1..Releases \subseteq 0..Releases
    BY <2>1
  <2>5. published \in 0..Releases
    BY <2>3, <2>4
  <2>6. registered # {} => Latest \in 0..Releases
    BY <2>2, <2>3, <2>4, Zenon
  <2>. QED  BY <2>1, <2>5, <2>6
<1>. USE DEF MarketInv, MarketTypeOK, Places, Over, Installing
<1>1. CASE Publish
  BY <1>0, <1>1 DEF Publish
<1>2. CASE Reboot
  <2>1. [Waiting EXCEPT !.at = "over"] \in Errand
    BY <1>0, ErrandIsOne
  <2>2. errand' \in [Errands -> Errand]
    BY <1>2, <2>1, Zenon DEF Reboot
  <2>3. /\ registered' = {} /\ recorded' = 0 /\ intact' = FALSE
        /\ published' = published /\ signed' = signed /\ files' = files
    BY <1>2 DEF Reboot
  <2>4. registered' \subseteq 1..Releases /\ recorded' \in 0..Releases
    BY <1>0, <2>3
  <2>5. signed' \in BOOLEAN /\ intact' \in BOOLEAN
    BY <2>3
  <2>. QED  BY <2>2, <2>3, <2>4, <2>5
<1>3. ASSUME NEW found \in {"lists", "lacks"}, Refresh(found) PROVE MarketTypeOK'
  BY <1>3 DEF Refresh
<1>4. ASSUME NEW e \in Errands, AskInstall(e) PROVE MarketTypeOK'
  BY <1>0, <1>4, MoveTypes DEF AskInstall
<1>5. ASSUME NEW e \in Errands, LoadManifest(e) PROVE MarketTypeOK'
  <2>1. [errand[e] EXCEPT !.at = "clean", !.version = published] \in Errand
    BY <1>0, MarketTypes
  <2>2. errand' = [errand EXCEPT ![e] = [errand[e] EXCEPT !.at = "clean", !.version = published]]
          => errand' \in [Errands -> Errand]
    BY <2>1
  <2>. QED  BY <1>5, <2>2, MoveTypes DEF LoadManifest
<1>6. ASSUME NEW e \in Errands, Clean(e) PROVE MarketTypeOK'
  <2>1. NoFiles \in [Parts -> 0..Releases]
    BY <1>0 DEF NoFiles
  <2>. QED  BY <1>6, <2>1, MoveTypes, RemoveAllTypes DEF Clean
<1>7. ASSUME NEW e \in Errands, Clone(e) PROVE MarketTypeOK'
  <2>1. [p \in Parts |-> published] \in [Parts -> 0..Releases]
    BY <1>0
  <2>2. [errand[e] EXCEPT !.at = "copy", !.parts = [p \in Parts |-> published]] \in Errand
    BY <2>1 DEF Errand
  <2>. QED  BY <1>7, <2>2, MoveTypes DEF Clone
<1>8. ASSUME NEW e \in Errands, VerifyTrust(e) \/ BuildPack(e) \/ RunHandler(e) PROVE MarketTypeOK'
  BY <1>8, MoveTypes DEF VerifyTrust, BuildPack, RunHandler
<1>9. ASSUME NEW e \in Errands, RegisterPack(e) PROVE MarketTypeOK'
  <2>1. errand[e].version \in 1..Releases
    BY <1>0, <1>9 DEF RegisterPack, VersionInv, Errand
  <2>. QED  BY <1>9, <2>1, MoveTypes DEF RegisterPack
<1>10. ASSUME NEW e \in Errands, Discard(e) \/ RemoveInstallDir(e) PROVE MarketTypeOK'
  BY <1>10, MoveTypes, RemoveAllTypes DEF Discard, RemoveInstallDir
<1>11. ASSUME NEW e \in Errands, Record(e) PROVE MarketTypeOK'
  <2>1. errand[e].version \in 0..Releases /\ errand[e].alone \in BOOLEAN
    BY DEF Errand
  <2>. QED  BY <1>11, <2>1, MoveTypes DEF Record
<1>12. ASSUME NEW e \in Errands, Uninstall(e) PROVE MarketTypeOK'
  <2>1. errand' \in [Errands -> Errand]
    BY <1>12, MoveTypes DEF Uninstall
  <2>2. recorded' = 0 /\ intact' = FALSE /\ UNCHANGED <<published, signed, files, registered>>
    BY <1>12 DEF Uninstall
  <2>0. 0 \in 0..Releases
    BY <1>0
  <2>3. recorded' \in 0..Releases /\ intact' \in BOOLEAN
    BY <2>0, <2>2, Zenon
  <2>. QED  BY <2>1, <2>2, <2>3
<1>13. ASSUME NEW e \in Errands, Unregister(e) PROVE MarketTypeOK'
  BY <1>13, MoveTypes DEF Unregister
<1>14. ASSUME NEW e \in Errands, CallPack(e) PROVE MarketTypeOK'
  BY <1>0, <1>14, MoveTypes DEF CallPack
<1>15. ASSUME NEW e \in Errands, NEW p \in Parts, CopyFile(e, p) PROVE MarketTypeOK'
  <2>1. errand[e] \in Errand /\ errand[e].parts \in [Parts -> 0..Releases] /\ errand[e].left \in SUBSET Parts
    BY DEF Errand
  <2>2. [files EXCEPT ![p] = errand[e].parts[p]] \in [Parts -> 0..Releases]
    BY <2>1
  <2>3. \A place \in {"verify", "copy"} : [errand[e] EXCEPT !.left = @ \ {p}, !.at = place] \in Errand
    BY <2>1 DEF Errand
  <2>. QED  BY <1>15, <2>2, <2>3, MoveTypes, ZenonT(30) DEF CopyFile
<1>16. ASSUME NEW e \in Errands, NEW p \in Parts, UploadFile(e, p) PROVE MarketTypeOK'
  <2>1. errand[e] \in Errand /\ errand[e].parts \in [Parts -> 0..Releases] /\ errand[e].left \in SUBSET Parts
    BY DEF Errand
  <2>2. \A place \in {"run", "upload"} :
          [errand[e] EXCEPT !.left = @ \ {p}, !.parts[p] = files[p], !.at = place] \in Errand
    BY <2>1 DEF Errand
  <2>. QED  BY <1>16, <2>2 DEF UploadFile
<1>. QED  BY <1>1, <1>2, <1>3, <1>4, <1>5, <1>6, <1>7, <1>8, <1>9, <1>10, <1>11, <1>12, <1>13, <1>14, <1>15, <1>16 DEF MarketNext

-----------------------------------------------------------------------------
\* What a move, and a start, do to every request.
LEMMA MoveIs ==
  ASSUME MarketTypeOK, NEW e \in Errands, NEW place, Move(e, place)
  PROVE  /\ errand'[e].at = place /\ errand'[e].version = errand[e].version
         /\ errand'[e].left = errand[e].left /\ errand'[e].parts = errand[e].parts
         /\ errand'[e].alone = errand[e].alone
         /\ \A d \in Errands \ {e} : errand'[d] = errand[d]
<1>1. errand[e] \in Errand
  BY DEF MarketTypeOK
<1>2. /\ [errand[e] EXCEPT !.at = place].at = place
      /\ [errand[e] EXCEPT !.at = place].version = errand[e].version
      /\ [errand[e] EXCEPT !.at = place].left = errand[e].left
      /\ [errand[e] EXCEPT !.at = place].parts = errand[e].parts
      /\ [errand[e] EXCEPT !.at = place].alone = errand[e].alone
  BY <1>1 DEF Errand
<1>3. errand'[e] = [errand[e] EXCEPT !.at = place] /\ \A d \in Errands \ {e} : errand'[d] = errand[d]
  BY DEF Move, MarketTypeOK
<1>. QED  BY <1>2, <1>3

\* A start takes the version it was given; the others are alone no more.
LEMMA StartIs ==
  ASSUME MarketTypeOK, NEW e \in Errands, NEW place, NEW v, Start(e, place, v)
  PROVE  /\ errand[e].at = "waiting" /\ errand'[e].at = place /\ errand'[e].version = v
         /\ errand'[e].left = Parts /\ errand'[e].alone = (Busy = {})
         /\ \A d \in Errands \ {e} :
              /\ errand'[d].at = errand[d].at /\ errand'[d].version = errand[d].version
              /\ errand'[d].parts = errand[d].parts
              /\ errand'[d].alone => d \notin Busy
<1>1. /\ errand[e].at = "waiting"
      /\ errand'[e] = [at |-> place, version |-> v, left |-> Parts, parts |-> NoFiles,
                       alone |-> Busy = {}]
  BY DEF Start
<1>2. ASSUME NEW d \in Errands \ {e}
      PROVE  /\ errand'[d].at = errand[d].at /\ errand'[d].version = errand[d].version
             /\ errand'[d].parts = errand[d].parts
             /\ errand'[d].alone => d \notin Busy
  <2>1. errand'[d] = [errand[d] EXCEPT !.alone = @ /\ d \notin Busy]
    BY DEF Start
  <2>2. errand[d] \in Errand
    BY DEF MarketTypeOK
  <2>. QED  BY <2>1, <2>2 DEF Errand
<1>. QED  BY <1>1, <1>2

\* An install keeps the version of its manifest and the files it has cloned.
LEMMA VersionStep == MarketInv /\ MarketNext => VersionInv'
<1>. SUFFICES ASSUME MarketInv, MarketNext PROVE VersionInv'  OBVIOUS
<1>0. MarketTypeOK /\ VersionInv
  BY DEF MarketInv
<1>1. /\ Releases \in Nat \ {0} /\ published \in 1..Releases /\ registered \subseteq 1..Releases
      /\ recorded \in 0..Releases
      /\ \A e \in Errands : errand[e] \in Errand /\ errand[e].version \in 0..Releases
  BY <1>0, MarketAssumption DEF MarketTypeOK, Errand
<1>2. CASE Publish
  BY <1>0, <1>2 DEF Publish, VersionInv
<1>3. CASE Reboot
  <2>1. \A e \in Errands : errand'[e] = errand[e] \/ errand'[e] = [Waiting EXCEPT !.at = "over"]
    BY <1>3 DEF Reboot
  <2>2. [Waiting EXCEPT !.at = "over"].version = 0 /\ [Waiting EXCEPT !.at = "over"].at = "over"
    BY DEF Waiting
  <2>4. ASSUME NEW e \in Errands
        PROVE  /\ errand'[e].at \in Installing \ {"manifest"} => errand'[e].version # 0
               /\ errand'[e].at = "copy" => \A p \in Parts : errand'[e].parts[p] # 0
    <3>1. CASE errand'[e] = errand[e]
      BY <1>0, <3>1 DEF VersionInv
    <3>2. CASE errand'[e] = [Waiting EXCEPT !.at = "over"]
      BY <2>2, <3>2 DEF Installing
    <3>. QED  BY <2>1, <3>1, <3>2
  <2>. QED  BY <2>4 DEF VersionInv
<1>4. ASSUME NEW found \in {"lists", "lacks"}, Refresh(found) PROVE VersionInv'
  BY <1>0, <1>4 DEF Refresh, VersionInv
\* A start that takes any version.
<1>5. ASSUME NEW e \in Errands, NEW place \in {"over", "manifest", "unregister", "upload"}, NEW v \in Nat,
             Start(e, place, v)
      PROVE VersionInv'
  <2>1. \A d \in Errands : /\ d # e => /\ errand'[d].version = errand[d].version /\ errand'[d].at = errand[d].at
                                       /\ errand'[d].parts = errand[d].parts
                           /\ errand'[e].version = v /\ errand'[e].at = place
    BY <1>0, <1>5, StartIs
  <2>. QED  BY <1>0, <1>1, <1>5, <2>1 DEF VersionInv, Installing
\* A move that takes nothing new.
<1>6. ASSUME NEW e \in Errands, NEW place, Move(e, place), errand[e].version # 0 \/ place \notin Installing,
             place # "copy"
      PROVE VersionInv'
  <2>1. /\ errand'[e].version = errand[e].version /\ errand'[e].at = place
        /\ \A d \in Errands \ {e} : errand'[d] = errand[d]
    BY <1>0, <1>6, MoveIs
  <2>. QED  BY <1>0, <1>1, <1>6, <2>1 DEF VersionInv
<1>7. ASSUME NEW e \in Errands, AskInstall(e) PROVE VersionInv'
  BY <1>1, <1>5, <1>7 DEF AskInstall
<1>8. ASSUME NEW e \in Errands, Uninstall(e) PROVE VersionInv'
  BY <1>1, <1>5, <1>8 DEF Uninstall
<1>9. ASSUME NEW e \in Errands, CallPack(e) PROVE VersionInv'
  <2>1. registered # {} => Latest \in Nat
    <3>1. registered # {} => Latest \in registered
      BY <1>0, LatestIsOne
    <3>2. registered \subseteq Nat
      BY <1>1
    <3>. QED  BY <3>1, <3>2, Zenon
  <2>. QED  BY <1>1, <1>5, <1>9, <2>1 DEF CallPack
<1>10. ASSUME NEW e \in Errands, LoadManifest(e) PROVE VersionInv'
  <2>1. CASE Move(e, "over")
    BY <1>6, <1>10, <2>1 DEF LoadManifest, Installing
  <2>2. CASE errand' = [errand EXCEPT ![e].at = "clean", ![e].version = published]
    <3>1. [errand[e] EXCEPT !.at = "clean", !.version = published].at = "clean" /\ [errand[e] EXCEPT !.at = "clean", !.version = published].version = published
      BY <1>1 DEF Errand
    <3>2. /\ errand'[e].at = "clean" /\ errand'[e].version = published
          /\ \A d \in Errands \ {e} : errand'[d] = errand[d]
      BY <1>0, <2>2, <3>1 DEF MarketTypeOK
    <3>. QED  BY <1>0, <1>1, <1>10, <3>2 DEF LoadManifest, VersionInv
  <2>. QED  BY <1>10, <2>1, <2>2 DEF LoadManifest
<1>11. ASSUME NEW e \in Errands, Clean(e) \/ VerifyTrust(e) \/ BuildPack(e) \/ Discard(e) PROVE VersionInv'
  <2>1. errand[e].version # 0
    BY <1>0, <1>11 DEF VersionInv, Installing, Clean, VerifyTrust, BuildPack, Discard
  <2>. QED  BY <1>6, <1>11, <2>1 DEF Clean, VerifyTrust, BuildPack, Discard
<1>12. ASSUME NEW e \in Errands, RegisterPack(e) \/ Record(e) PROVE VersionInv'
  <2>1. errand[e].version # 0
    BY <1>0, <1>12 DEF VersionInv, Installing, RegisterPack, Record
  <2>. QED  BY <1>6, <1>12, <2>1 DEF RegisterPack, Record
<1>13. ASSUME NEW e \in Errands, Unregister(e) \/ RemoveInstallDir(e) \/ RunHandler(e) PROVE VersionInv'
  BY <1>6, <1>13 DEF Unregister, RemoveInstallDir, RunHandler, Installing
<1>14. ASSUME NEW e \in Errands, Clone(e) PROVE VersionInv'
  <2>1. CASE Move(e, "over")
    BY <1>6, <2>1 DEF Installing
  <2>2. CASE errand' = [errand EXCEPT ![e].at = "copy", ![e].parts = [p \in Parts |-> published]]
    <3>. DEFINE k == [errand[e] EXCEPT !.at = "copy", !.parts = [p \in Parts |-> published]]
    <3>1. k.version = errand[e].version /\ k.parts = [p \in Parts |-> published]
      BY <1>1 DEF Errand
    <3>2. /\ errand'[e] = k
          /\ \A d \in Errands \ {e} : errand'[d] = errand[d]
      BY <1>0, <2>2 DEF MarketTypeOK
    <3>3. errand[e].version # 0
      BY <1>0, <1>14 DEF VersionInv, Installing, Clone
    <3>. HIDE DEF k
    <3>. QED  BY <1>0, <1>1, <3>1, <3>2, <3>3 DEF VersionInv
  <2>. QED  BY <1>14, <2>1, <2>2 DEF Clone
<1>15. ASSUME NEW e \in Errands, NEW p \in Parts, CopyFile(e, p) PROVE VersionInv'
  <2>1. CASE Move(e, "over")
    BY <1>6, <2>1 DEF Installing
  <2>2. ASSUME NEW place \in {"verify", "copy"}, errand' = [errand EXCEPT ![e].left = @ \ {p}, ![e].at = place]
        PROVE VersionInv'
    <3>. DEFINE k == [errand[e] EXCEPT !.left = @ \ {p}, !.at = place]
    <3>1. k.version = errand[e].version /\ k.parts = errand[e].parts /\ k.at = place
      BY <1>1 DEF Errand
    <3>2. /\ errand'[e] = k
          /\ \A d \in Errands \ {e} : errand'[d] = errand[d]
      BY <1>0, <2>2 DEF MarketTypeOK
    <3>3. errand[e].version # 0 /\ \A q \in Parts : errand[e].parts[q] # 0
      BY <1>0, <1>15 DEF VersionInv, Installing, CopyFile
    <3>. HIDE DEF k
    <3>. QED  BY <1>0, <1>1, <3>1, <3>2, <3>3 DEF VersionInv
  <2>. QED  BY <1>15, <2>1, <2>2 DEF CopyFile
<1>16. ASSUME NEW e \in Errands, NEW p \in Parts, UploadFile(e, p) PROVE VersionInv'
  <2>2. ASSUME NEW place \in {"run", "upload"},
               errand' = [errand EXCEPT ![e].left = @ \ {p}, ![e].parts[p] = files[p], ![e].at = place]
        PROVE VersionInv'
    <3>. DEFINE k == [errand[e] EXCEPT !.left = @ \ {p}, !.parts[p] = files[p], !.at = place]
    <3>1. k.version = errand[e].version /\ k.at = place
      BY <1>1 DEF Errand
    <3>2. /\ errand'[e] = k
          /\ \A d \in Errands \ {e} : errand'[d] = errand[d]
      BY <1>0, <2>2 DEF MarketTypeOK
    <3>. HIDE DEF k
    <3>. QED  BY <1>0, <1>1, <3>1, <3>2 DEF VersionInv, Installing
  <2>. QED  BY <1>16, <2>2 DEF UploadFile
<1>. QED  BY <1>2, <1>3, <1>4, <1>7, <1>8, <1>9, <1>10, <1>11, <1>12, <1>13, <1>14, <1>15, <1>16 DEF MarketNext

-----------------------------------------------------------------------------
\* Nobody touches the directory while it is intact: the request that left it so
\* was alone, and those that begin to install or to remove break it.
LEMMA IntactStep == MarketInv /\ MarketNext => IntactInv'
<1>. SUFFICES ASSUME MarketInv, MarketNext, intact' PROVE IntactInv'
  BY DEF IntactInv
<1>0. MarketTypeOK /\ AloneInv /\ IntactInv
  BY DEF MarketInv
<1>. DEFINE Afar == Over \cup {"manifest", "clean", "upload", "run"}
<1>1. ASSUME NEW e \in Errands, NEW place \in Afar, Move(e, place), UNCHANGED intact PROVE IntactInv'
  BY <1>0, <1>1, MoveIs DEF IntactInv
<1>2. ASSUME NEW e \in Errands, NEW place \in Afar, NEW v, Start(e, place, v), UNCHANGED intact
      PROVE IntactInv'
  BY <1>0, <1>2, StartIs DEF IntactInv
<1>3. CASE Publish
  BY <1>0, <1>3 DEF Publish, IntactInv
<1>4. CASE Reboot
  BY <1>4 DEF Reboot
<1>5. ASSUME NEW found \in {"lists", "lacks"}, Refresh(found) PROVE IntactInv'
  BY <1>0, <1>5 DEF Refresh, IntactInv
<1>6. ASSUME NEW e \in Errands, AskInstall(e) \/ CallPack(e) PROVE IntactInv'
  BY <1>2, <1>6 DEF AskInstall, CallPack, Over
<1>7. ASSUME NEW e \in Errands, LoadManifest(e) PROVE IntactInv'
  <2>1. CASE errand' = [errand EXCEPT ![e].at = "clean", ![e].version = published]
    <3>1. errand[e] \in Errand
      BY <1>0 DEF MarketTypeOK
    <3>2. [errand[e] EXCEPT !.at = "clean", !.version = published].at = "clean"
      BY <3>1 DEF Errand
    <3>3. errand'[e].at = "clean" /\ \A d \in Errands \ {e} : errand'[d] = errand[d]
      BY <1>0, <2>1, <3>2 DEF MarketTypeOK
    <3>. QED  BY <1>0, <1>7, <3>3 DEF LoadManifest, IntactInv
  <2>. QED  BY <1>1, <1>7, <2>1 DEF LoadManifest, Over
<1>8. ASSUME NEW e \in Errands, Clean(e) \/ Discard(e) \/ RemoveInstallDir(e) \/ Uninstall(e)
      PROVE IntactInv'
  BY <1>8 DEF Clean, Discard, RemoveInstallDir, Uninstall
<1>9. ASSUME NEW e \in Errands,
             Clone(e) \/ VerifyTrust(e) \/ BuildPack(e) \/ RegisterPack(e) \/ Unregister(e)
               \/ \E p \in Parts : CopyFile(e, p)
      PROVE IntactInv'
  <2>1. /\ UNCHANGED intact
        /\ errand[e].at \in {"clone", "verify", "build", "register", "unregister", "copy"}
    BY <1>9 DEF Clone, VerifyTrust, BuildPack, RegisterPack, Unregister, CopyFile
  <2>. QED  BY <1>0, <2>1 DEF IntactInv, Over
<1>10. ASSUME NEW e \in Errands, Record(e) PROVE IntactInv'
  <2>1. errand[e].alone /\ errand[e].at = "record" /\ Move(e, "over")
    BY <1>10 DEF Record
  <2>2. \A d \in Errands \ {e} : errand[d].at \in Over
    BY <1>0, <2>1 DEF AloneInv, Busy, Over
  <2>3. errand'[e].at = "over" /\ \A d \in Errands \ {e} : errand'[d] = errand[d]
    BY <1>0, <2>1, MoveIs
  <2>. QED  BY <2>2, <2>3 DEF IntactInv, Over
<1>11. ASSUME NEW e \in Errands, RunHandler(e) PROVE IntactInv'
  BY <1>1, <1>11 DEF RunHandler, Over
<1>12. ASSUME NEW e \in Errands, NEW p \in Parts, UploadFile(e, p) PROVE IntactInv'
  <2>1. ASSUME NEW place \in {"run", "upload"},
               errand' = [errand EXCEPT ![e].left = @ \ {p}, ![e].parts[p] = files[p], ![e].at = place]
        PROVE IntactInv'
    <3>1. errand[e] \in Errand
      BY <1>0 DEF MarketTypeOK
    <3>2. [errand[e] EXCEPT !.left = @ \ {p}, !.parts[p] = files[p], !.at = place].at = place
      BY <3>1 DEF Errand
    <3>3. errand'[e].at = place /\ \A d \in Errands \ {e} : errand'[d] = errand[d]
      BY <1>0, <2>1, <3>2 DEF MarketTypeOK
    <3>. QED  BY <1>0, <1>12, <3>3 DEF UploadFile, IntactInv
  <2>. QED  BY <1>12, <2>1 DEF UploadFile
<1>. QED  BY <1>3, <1>4, <1>5, <1>6, <1>7, <1>8, <1>9, <1>10, <1>11, <1>12 DEF MarketNext

\* What changes the files, the registry or the record begins where the
\* directory is not intact, or ends there; Record alone restores it.
LEMMA InstalledStep == MarketInv /\ MarketNext => InstalledIsWhole'
<1>. SUFFICES ASSUME MarketInv, MarketNext, intact' PROVE InstalledIsWhole'
  BY DEF InstalledIsWhole
<1>0. AloneInv /\ IntactInv /\ InstalledIsWhole
  BY DEF MarketInv
<1>1. ASSUME UNCHANGED <<intact, recorded, registered, files, signed>> PROVE InstalledIsWhole'
  BY <1>0, <1>1 DEF InstalledIsWhole
<1>2. CASE Publish \/ \E found \in {"lists", "lacks"} : Refresh(found)
  BY <1>1, <1>2 DEF Publish, Refresh
<1>3. CASE Reboot
  BY <1>3 DEF Reboot
<1>4. ASSUME NEW e \in Errands,
             AskInstall(e) \/ LoadManifest(e) \/ Clone(e) \/ VerifyTrust(e) \/ BuildPack(e)
               \/ CallPack(e) \/ RunHandler(e) \/ \E p \in Parts : UploadFile(e, p)
      PROVE InstalledIsWhole'
  BY <1>1, <1>4 DEF AskInstall, LoadManifest, Clone, VerifyTrust, BuildPack, CallPack, RunHandler, UploadFile
<1>5. ASSUME NEW e \in Errands, Clean(e) \/ Discard(e) \/ RemoveInstallDir(e) \/ Uninstall(e)
      PROVE InstalledIsWhole'
  BY <1>5 DEF Clean, Discard, RemoveInstallDir, Uninstall
<1>6. ASSUME NEW e \in Errands, RegisterPack(e) \/ Unregister(e) \/ \E p \in Parts : CopyFile(e, p)
      PROVE InstalledIsWhole'
  <2>1. UNCHANGED intact /\ errand[e].at \in {"register", "unregister", "copy"}
    BY <1>6 DEF RegisterPack, Unregister, CopyFile
  <2>. QED  BY <1>0, <2>1 DEF IntactInv, Over
<1>7. ASSUME NEW e \in Errands, Record(e) PROVE InstalledIsWhole'
  <2>1. errand[e].alone /\ errand[e].at = "record" /\ e \in Busy
    BY <1>7 DEF Record, Busy, Over
  <2>2. /\ errand[e].version \in registered
        /\ \A p \in Parts : files[p] # 0 /\ (signed => files[p] = errand[e].version)
    BY <1>0, <2>1 DEF AloneInv, OwnWork, Installing
  <2>3. recorded' = errand[e].version /\ UNCHANGED <<registered, files, signed>>
    BY <1>7 DEF Record
  <2>. QED  BY <2>2, <2>3 DEF InstalledIsWhole
<1>. QED  BY <1>2, <1>3, <1>4, <1>5, <1>6, <1>7 DEF MarketNext

\* Who is busy, after a move and after a start.
LEMMA MoveAlone ==
  ASSUME MarketTypeOK, AloneInv, NEW e \in Errands, e \in Busy,
         \A d \in Errands \ {e} : errand'[d] = errand[d], errand'[e].alone = errand[e].alone,
         errand[e].alone /\ (\A d \in Busy : d = e) /\ OwnWork(e) /\ errand'[e].at \notin Over
           => OwnWork(e)'
  PROVE AloneInv'
<1>1. Busy' \subseteq Busy
  BY DEF Busy
<1>2. ASSUME NEW d \in Errands, errand'[d].alone, d \in Busy'
      PROVE (\A f \in Busy' : f = d) /\ OwnWork(d)'
  <2>1. errand[d].alone /\ d \in Busy
    BY <1>1, <1>2
  <2>2. (\A f \in Busy : f = d) /\ OwnWork(d)
    BY <2>1 DEF AloneInv
  <2>3. d = e
    BY <2>2
  <2>4. OwnWork(e)'
    BY <1>2, <2>1, <2>2, <2>3 DEF Busy
  <2>. QED  BY <1>1, <2>2, <2>3, <2>4
<1>. QED  BY <1>2 DEF AloneInv

\* A request that starts alone has nothing to show for it yet.
LEMMA StartAlone ==
  ASSUME MarketTypeOK, NEW e \in Errands, NEW place \in {"over", "manifest", "unregister", "upload"},
         NEW v, Start(e, place, v)
  PROVE AloneInv'
<1>1. /\ errand'[e].at = place /\ errand'[e].left = Parts /\ errand'[e].alone = (Busy = {})
      /\ \A d \in Errands \ {e} : errand'[d].at = errand[d].at /\ (errand'[d].alone => d \notin Busy)
  BY StartIs
<1>2. Busy' \subseteq Busy \cup {e}
  BY <1>1 DEF Busy
<1>3. ASSUME NEW d \in Errands, errand'[d].alone, d \in Busy'
      PROVE (\A f \in Busy' : f = d) /\ OwnWork(d)'
  <2>1. d = e
    BY <1>1, <1>2, <1>3
  <2>2. Busy = {}
    BY <1>1, <1>3, <2>1
  <2>3. OwnWork(e)'
    BY <1>1 DEF OwnWork, Installing
  <2>. QED  BY <1>2, <2>1, <2>2, <2>3
<1>. QED  BY <1>3 DEF AloneInv

\* A request that is alone loses nothing of its work to another.
LEMMA AloneStep == MarketInv /\ MarketNext => AloneInv'
<1>. SUFFICES ASSUME MarketInv, MarketNext PROVE AloneInv'  OBVIOUS
<1>0. MarketTypeOK /\ AloneInv /\ VersionInv
  BY DEF MarketInv
<1>1. /\ \A e \in Errands : errand[e] \in Errand
      /\ \A p \in Parts : files[p] \in 0..Releases
  BY <1>0 DEF MarketTypeOK
\* A move of one that is busy; what it has done so far stays, or is over.
<1>2. ASSUME NEW e \in Errands, e \in Busy, NEW place, Move(e, place),
             OwnWork(e) /\ place \notin Over => OwnWork(e)'
      PROVE AloneInv'
  <2>1. /\ \A d \in Errands \ {e} : errand'[d] = errand[d]
        /\ errand'[e].alone = errand[e].alone /\ errand'[e].at = place
    BY <1>0, <1>2, MoveIs
  <2>. QED  BY <1>0, <1>2, <2>1, MoveAlone
<1>3. ASSUME NEW e \in Errands, e \in Busy, Move(e, "over") PROVE AloneInv'
  BY <1>2, <1>3 DEF Over
<1>4. CASE Publish \/ \E found \in {"lists", "lacks"} : Refresh(found)
  <2>1. UNCHANGED <<errand, files, registered, signed>>
    BY <1>4 DEF Publish, Refresh
  <2>. QED  BY <1>0, <2>1 DEF AloneInv, OwnWork, Busy
<1>5. CASE Reboot
  <2>1. \A e \in Errands : errand'[e].at \in Over
    <3>1. ASSUME NEW e \in Errands, e \in Busy PROVE errand'[e].at \in Over
      BY <1>5, <3>1 DEF Reboot, Waiting, Over
    <3>2. ASSUME NEW e \in Errands, e \notin Busy PROVE errand'[e].at \in Over
      BY <1>5, <3>2 DEF Reboot, Busy
    <3>. QED  BY <3>1, <3>2
  <2>. QED  BY <2>1 DEF AloneInv, Busy
<1>6. ASSUME NEW e \in Errands, AskInstall(e) \/ Uninstall(e) \/ CallPack(e) PROVE AloneInv'
  BY <1>0, <1>6, StartAlone DEF AskInstall, Uninstall, CallPack
<1>7. ASSUME NEW e \in Errands, LoadManifest(e) PROVE AloneInv'
  <2>0. e \in Busy
    BY <1>7 DEF LoadManifest, Busy, Over
  <2>1. CASE errand' = [errand EXCEPT ![e].at = "clean", ![e].version = published]
    <3>. DEFINE k == [errand[e] EXCEPT !.at = "clean", !.version = published]
    <3>1. k.at = "clean" /\ k.version = published /\ k.alone = errand[e].alone /\ k.left = errand[e].left
      BY <1>1 DEF Errand
    <3>2. errand'[e] = k /\ \A d \in Errands \ {e} : errand'[d] = errand[d]
      BY <1>0, <2>1 DEF MarketTypeOK
    <3>3. UNCHANGED registered
      BY <1>7 DEF LoadManifest
    <3>. HIDE DEF k
    <3>4. OwnWork(e) => OwnWork(e)'
      BY <1>1, <1>7, <3>1, <3>2, <3>3 DEF LoadManifest, OwnWork
    <3>. QED  BY <1>0, <2>0, <3>1, <3>2, <3>4, MoveAlone
  <2>. QED  BY <1>3, <1>7, <2>0, <2>1 DEF LoadManifest
<1>8. ASSUME NEW e \in Errands, Clean(e) PROVE AloneInv'
  <2>0. e \in Busy /\ errand[e].at = "clean" /\ UNCHANGED registered
    BY <1>8 DEF Clean, Busy, Over
  <2>1. CASE Move(e, "clone")
    <3>1. /\ errand'[e].at = "clone" /\ errand'[e].version = errand[e].version
          /\ errand'[e].left = errand[e].left
      BY <1>0, <2>1, MoveIs
    <3>2. OwnWork(e) => OwnWork(e)'
      BY <2>0, <3>1 DEF OwnWork, Installing
    <3>. QED  BY <1>2, <2>0, <2>1, <3>2
  <2>. QED  BY <1>3, <1>8, <2>0, <2>1 DEF Clean
<1>9. ASSUME NEW e \in Errands, Clone(e) PROVE AloneInv'
  <2>0. e \in Busy /\ errand[e].at = "clone" /\ UNCHANGED registered
    BY <1>9 DEF Clone, Busy, Over
  <2>1. CASE errand' = [errand EXCEPT ![e].at = "copy", ![e].parts = [p \in Parts |-> published]]
    <3>. DEFINE k == [errand[e] EXCEPT !.at = "copy", !.parts = [p \in Parts |-> published]]
    <3>1. k.at = "copy" /\ k.version = errand[e].version /\ k.alone = errand[e].alone /\ k.left = errand[e].left
      BY <1>1 DEF Errand
    <3>2. errand'[e] = k /\ \A d \in Errands \ {e} : errand'[d] = errand[d]
      BY <1>0, <2>1 DEF MarketTypeOK
    <3>. HIDE DEF k
    <3>3. OwnWork(e) => OwnWork(e)'
      BY <2>0, <3>1, <3>2 DEF OwnWork, Installing
    <3>. QED  BY <1>0, <2>0, <3>1, <3>2, <3>3, MoveAlone
  <2>. QED  BY <1>3, <1>9, <2>0, <2>1 DEF Clone
<1>10. ASSUME NEW e \in Errands, VerifyTrust(e) PROVE AloneInv'
  <2>0. e \in Busy /\ errand[e].at = "verify" /\ UNCHANGED <<registered, files, signed>>
    BY <1>10 DEF VerifyTrust, Busy, Over
  <2>1. CASE Move(e, "discard")
    <3>1. errand'[e].at = "discard"
      BY <1>0, <2>1, MoveIs
    <3>2. OwnWork(e)'
      BY <3>1 DEF OwnWork
    <3>. QED  BY <1>2, <2>0, <2>1, <3>2
  <2>2. CASE Move(e, "build") /\ ~(signed /\ ~Hashed(errand[e].version))
    <3>1. errand'[e].at = "build" /\ errand'[e].version = errand[e].version
      BY <1>0, <2>2, MoveIs
    <3>2. OwnWork(e) => OwnWork(e)'
      BY <2>0, <2>2, <3>1 DEF OwnWork, Installing, Hashed
    <3>. QED  BY <1>2, <2>0, <2>2, <3>2
  <2>. QED  BY <1>10, <2>1, <2>2 DEF VerifyTrust
<1>11. ASSUME NEW e \in Errands, BuildPack(e) PROVE AloneInv'
  <2>0. e \in Busy /\ errand[e].at = "build" /\ UNCHANGED <<registered, files, signed>>
    BY <1>11 DEF BuildPack, Busy, Over
  <2>1. PICK place \in {"register", "discard"} : Move(e, place)
    BY <1>11 DEF BuildPack
  <2>2. errand'[e].at = place /\ errand'[e].version = errand[e].version
    BY <1>0, <2>1, MoveIs
  <2>3. OwnWork(e) => OwnWork(e)'
    BY <2>0, <2>2 DEF OwnWork, Installing
  <2>. QED  BY <1>2, <2>0, <2>1, <2>3
<1>12. ASSUME NEW e \in Errands, RegisterPack(e) PROVE AloneInv'
  <2>0. e \in Busy /\ errand[e].at = "register" /\ UNCHANGED <<files, signed>>
    BY <1>12 DEF RegisterPack, Busy, Over
  <2>1. CASE Move(e, "discard")
    <3>1. errand'[e].at = "discard"
      BY <1>0, <2>1, MoveIs
    <3>2. OwnWork(e)'
      BY <3>1 DEF OwnWork
    <3>. QED  BY <1>2, <2>0, <2>1, <3>2
  <2>2. CASE registered' = registered \cup {errand[e].version} /\ Move(e, "record")
    <3>1. errand'[e].at = "record" /\ errand'[e].version = errand[e].version
      BY <1>0, <2>2, MoveIs
    <3>2. OwnWork(e) => OwnWork(e)'
      BY <2>0, <2>2, <3>1 DEF OwnWork, Installing
    <3>. QED  BY <1>2, <2>0, <2>2, <3>2
  <2>. QED  BY <1>12, <2>1, <2>2 DEF RegisterPack
<1>13. ASSUME NEW e \in Errands, Discard(e) \/ Record(e) \/ RemoveInstallDir(e) \/ RunHandler(e)
       PROVE AloneInv'
  <2>1. e \in Busy
    BY <1>13 DEF Discard, Record, RemoveInstallDir, RunHandler, Busy, Over
  <2>2. CASE Move(e, "over")
    BY <1>3, <2>1, <2>2
  <2>3. CASE Move(e, "ran")
    BY <1>2, <2>1, <2>3 DEF Over
  <2>. QED  BY <1>13, <2>2, <2>3 DEF Discard, Record, RemoveInstallDir, RunHandler
<1>14. ASSUME NEW e \in Errands, Unregister(e) PROVE AloneInv'
  <2>0. e \in Busy /\ Move(e, "remove")
    BY <1>14 DEF Unregister, Busy, Over
  <2>1. errand'[e].at = "remove"
    BY <1>0, <2>0, MoveIs
  <2>2. OwnWork(e)'
    BY <2>1 DEF OwnWork, Installing
  <2>. QED  BY <1>2, <2>0, <2>2
<1>15. ASSUME NEW e \in Errands, NEW p \in Parts, CopyFile(e, p) PROVE AloneInv'
  <2>0. e \in Busy /\ errand[e].at = "copy" /\ UNCHANGED registered /\ p \in errand[e].left
    BY <1>15 DEF CopyFile, Busy, Over
  <2>1. ASSUME NEW place \in {"verify", "copy"}, place = IF errand[e].left = {p} THEN "verify" ELSE "copy",
               files' = [files EXCEPT ![p] = errand[e].parts[p]],
               errand' = [errand EXCEPT ![e].left = @ \ {p}, ![e].at = place]
        PROVE AloneInv'
    <3>. DEFINE k == [errand[e] EXCEPT !.left = @ \ {p}, !.at = place]
    <3>1. k.at = place /\ k.version = errand[e].version /\ k.alone = errand[e].alone /\ k.left = errand[e].left \ {p}
      BY <1>1 DEF Errand
    <3>2. errand'[e] = k /\ \A d \in Errands \ {e} : errand'[d] = errand[d]
      BY <1>0, <2>1 DEF MarketTypeOK
    <3>. HIDE DEF k
    <3>3. files'[p] # 0 /\ \A q \in Parts \ {p} : files'[q] = files[q]
      BY <1>0, <2>0, <2>1 DEF MarketTypeOK, VersionInv
    <3>4. OwnWork(e) => OwnWork(e)'
      <4>1. SUFFICES ASSUME OwnWork(e) PROVE OwnWork(e)'
        OBVIOUS
      <4>2. \A q \in Parts : q \in errand[e].left \/ files[q] # 0
        BY <2>0, <4>1 DEF OwnWork
      <4>3. \A q \in Parts : q \in errand[e].left \ {p} \/ files'[q] # 0
        BY <3>3, <4>2
      <4>. QED  BY <2>0, <2>1, <3>1, <3>2, <4>3 DEF OwnWork
    <3>. QED  BY <1>0, <2>0, <3>1, <3>2, <3>4, MoveAlone
  <2>. QED  BY <1>3, <1>15, <2>0, <2>1 DEF CopyFile
<1>16. ASSUME NEW e \in Errands, NEW p \in Parts, UploadFile(e, p) PROVE AloneInv'
  <2>0. e \in Busy
    BY <1>16 DEF UploadFile, Busy, Over
  <2>1. ASSUME NEW place \in {"run", "upload"},
               errand' = [errand EXCEPT ![e].left = @ \ {p}, ![e].parts[p] = files[p], ![e].at = place]
        PROVE AloneInv'
    <3>. DEFINE k == [errand[e] EXCEPT !.left = @ \ {p}, !.parts[p] = files[p], !.at = place]
    <3>1. k.at = place /\ k.alone = errand[e].alone
      BY <1>1 DEF Errand
    <3>2. errand'[e] = k /\ \A d \in Errands \ {e} : errand'[d] = errand[d]
      BY <1>0, <2>1 DEF MarketTypeOK
    <3>. HIDE DEF k
    <3>3. OwnWork(e)'
      BY <3>1, <3>2 DEF OwnWork, Installing
    <3>. QED  BY <1>0, <2>0, <3>1, <3>2, <3>3, MoveAlone
  <2>. QED  BY <1>16, <2>1 DEF UploadFile
<1>. QED  BY <1>4, <1>5, <1>6, <1>7, <1>8, <1>9, <1>10, <1>11, <1>12, <1>13, <1>14, <1>15, <1>16 DEF MarketNext

\* The files, the registry and the record of the marketplace keep to the
\* invariant, whatever the order of the steps of its requests.  (install.go:108-335)
THEOREM MarketKeepsInv == MarketSpec => []MarketInv
<1>1. MarketInit => MarketInv
  BY MarketInitInv
<1>2. MarketInv /\ [MarketNext]_marketVars => MarketInv'
  <2>1. MarketInv /\ MarketNext => MarketInv'
    BY MarketTypeStep, AloneStep, VersionStep, IntactStep, InstalledStep DEF MarketInv
  <2>2. MarketInv /\ UNCHANGED marketVars => MarketInv'
    BY DEF MarketInv, MarketTypeOK, AloneInv, OwnWork, VersionInv, IntactInv, InstalledIsWhole, marketVars, Busy
  <2>. QED  BY <2>1, <2>2
<1>. QED  BY <1>1, <1>2, PTL DEF MarketSpec

\* Until its directory is touched again, a pack that was installed alone has
\* every file, of the recorded version when it is signed, and that version is
\* the one a call gets.  (install.go:108-180)
THEOREM InstallsAreWhole == MarketSpec => []InstalledIsWhole
<1>1. MarketInv => InstalledIsWhole
  BY DEF MarketInv
<1>. QED  BY <1>1, MarketKeepsInv, PTL

-----------------------------------------------------------------------------
(* Artifacts *)

\* The bucket is empty and nobody has a handle.
LEMMA ArtifactInitInv == ArtifactInit => ArtifactInv
  BY DEF ArtifactInit, ArtifactInv, ArtifactTypeOK, ObjectInv, HandlesStand

\* Deleting the object of one file leaves those of the others alone.
LEMMA RemoveIs ==
  ASSUME NEW f \in Files, RemoveObject(f)
  PROVE  /\ bucket' \subseteq bucket /\ dropping \subseteq dropping' /\ dropping' \subseteq dropping \cup {f}
         /\ \A g \in Files \ {f} : g \in bucket <=> g \in bucket'
         /\ f \in dropping' \ dropping => f \notin bucket'
         /\ index' = index
  BY DEF RemoveObject

\* Time makes no overdue file due again.
LEMMA OverdueStays ==
  ASSUME ArtifactTypeOK, NEW f \in Files, ttl' = ttl, old'[f] \in {old[f], old[f] + 1}, Overdue(f)
  PROVE  Overdue(f)'
<1>1. old[f] \in Nat /\ KeptFor(f) \in Nat /\ KeptFor(f)' = KeptFor(f)
  BY ArtifactsAssumption DEF ArtifactTypeOK, KeptFor
<1>. QED  BY <1>1 DEF Overdue

\* Every step of the store, of the janitor and of an operator keeps the invariant.
LEMMA ArtifactStep == ArtifactInv /\ ArtifactNext => ArtifactInv'
<1>. SUFFICES ASSUME ArtifactInv, ArtifactNext PROVE ArtifactInv'  OBVIOUS
<1>0. ArtifactTypeOK /\ ObjectInv /\ HandlesStand
  BY DEF ArtifactInv
<1>1. ASSUME UNCHANGED <<old, ttl>> PROVE \A g \in Files : Overdue(g)' = Overdue(g)
  BY <1>1 DEF Overdue, KeptFor
<1>2. ASSUME NEW f \in Files, Upload(f) PROVE ArtifactInv'
  <2>1. /\ put[f] = "none" /\ UNCHANGED <<old, ttl, index, sweeping, dropping, asked>>
        /\ bucket \subseteq bucket' /\ bucket' \subseteq bucket \cup {f}
        /\ \/ put' = [put EXCEPT ![f] = "stored"] /\ f \in bucket'
           \/ put' = [put EXCEPT ![f] = "failed"]
    BY <1>2 DEF Upload
  <2>2. ArtifactTypeOK'
    BY <1>0, <2>1 DEF ArtifactTypeOK
  <2>3. /\ put'[f] \in {"stored", "failed"} /\ (put'[f] = "stored" => f \in bucket')
        /\ \A g \in Files \ {f} : put'[g] = put[g]
    BY <1>0, <2>1 DEF ArtifactTypeOK
  <2>4. ObjectInv'
    BY <1>0, <1>1, <2>1, <2>3 DEF ObjectInv
  <2>5. HandlesStand'
    BY <1>0, <1>1, <2>1, <2>3 DEF ObjectInv, HandlesStand
  <2>. QED  BY <2>2, <2>4, <2>5 DEF ArtifactInv
<1>3. ASSUME NEW f \in Files, Presign(f) PROVE ArtifactInv'
  <2>1. /\ put[f] = "stored" /\ UNCHANGED <<bucket, old, ttl, index, sweeping, dropping, asked>>
        /\ \E end \in {"signed", "failed"} : put' = [put EXCEPT ![f] = end]
    BY <1>3 DEF Presign
  <2>2. ArtifactTypeOK'
    BY <1>0, <2>1 DEF ArtifactTypeOK
  <2>3. put'[f] \in {"signed", "failed"} /\ \A g \in Files \ {f} : put'[g] = put[g]
    BY <1>0, <2>1 DEF ArtifactTypeOK
  <2>4. ObjectInv' /\ HandlesStand'
    BY <1>0, <1>1, <2>1, <2>3 DEF ObjectInv, HandlesStand
  <2>. QED  BY <2>2, <2>4 DEF ArtifactInv
<1>4. ASSUME NEW f \in Files, IndexIt(f) PROVE ArtifactInv'
  <2>1. /\ put[f] = "signed" /\ UNCHANGED <<bucket, old, ttl, sweeping, dropping, asked>>
        /\ put' = [put EXCEPT ![f] = "told"] /\ index' = index \cup {f}
    BY <1>4 DEF IndexIt
  <2>2. ArtifactTypeOK'
    BY <1>0, <2>1 DEF ArtifactTypeOK
  <2>3. put'[f] = "told" /\ \A g \in Files \ {f} : put'[g] = put[g]
    BY <1>0, <2>1 DEF ArtifactTypeOK
  <2>4. ObjectInv' /\ HandlesStand'
    BY <1>0, <1>1, <2>1, <2>3 DEF ObjectInv, HandlesStand
  <2>. QED  BY <2>2, <2>4 DEF ArtifactInv
<1>5. ASSUME NEW f \in Files, OperatorDeletes(f) PROVE ArtifactInv'
  <2>1. put[f] \in {"told", "kept"} /\ UNCHANGED <<old, ttl, put, sweeping>> /\ asked' = asked \cup {f}
    BY <1>5 DEF OperatorDeletes
  <2>2. /\ bucket' \subseteq bucket /\ dropping \subseteq dropping' /\ dropping' \subseteq dropping \cup {f}
        /\ \A g \in Files \ {f} : g \in bucket <=> g \in bucket'
        /\ f \in dropping' \ dropping => f \notin bucket'
        /\ index' = index
    BY <1>5, RemoveIs DEF OperatorDeletes
  <2>3. ArtifactTypeOK'
    BY <1>0, <2>1, <2>2 DEF ArtifactTypeOK
  <2>4. ObjectInv' /\ HandlesStand'
    BY <1>0, <1>1, <2>1, <2>2 DEF ObjectInv, HandlesStand
  <2>. QED  BY <2>3, <2>4 DEF ArtifactInv
<1>6. ASSUME NEW f \in Files, JanitorDeletes(f) PROVE ArtifactInv'
  <2>1. /\ f \in sweeping /\ UNCHANGED <<old, ttl, put, asked>> /\ sweeping' = sweeping \ {f}
        /\ Overdue(f) /\ put[f] # "none"
    BY <1>0, <1>6 DEF JanitorDeletes, ObjectInv
  <2>2. /\ bucket' \subseteq bucket /\ dropping \subseteq dropping' /\ dropping' \subseteq dropping \cup {f}
        /\ \A g \in Files \ {f} : g \in bucket <=> g \in bucket'
        /\ f \in dropping' \ dropping => f \notin bucket'
        /\ index' = index
    BY <1>6, RemoveIs DEF JanitorDeletes
  <2>3. ArtifactTypeOK'
    BY <1>0, <2>1, <2>2 DEF ArtifactTypeOK
  <2>4. ObjectInv' /\ HandlesStand'
    BY <1>0, <1>1, <2>1, <2>2 DEF ObjectInv, HandlesStand
  <2>. QED  BY <2>3, <2>4 DEF ArtifactInv
<1>7. ASSUME NEW f \in Files, Unindex(f) PROVE ArtifactInv'
  <2>1. /\ f \in dropping /\ UNCHANGED <<bucket, old, ttl, put, sweeping, asked>>
        /\ dropping' = dropping \ {f} /\ index' = index \ {f} /\ f \notin bucket
    BY <1>0, <1>7 DEF Unindex, ObjectInv
  <2>3. ArtifactTypeOK'
    BY <1>0, <2>1 DEF ArtifactTypeOK
  <2>4. ObjectInv' /\ HandlesStand'
    BY <1>0, <1>1, <2>1 DEF ObjectInv, HandlesStand
  <2>. QED  BY <2>3, <2>4 DEF ArtifactInv
<1>8. CASE Sweep
  <2>1. /\ UNCHANGED <<bucket, old, ttl, put, index, dropping, asked>>
        /\ sweeping' = {f \in bucket : Overdue(f)}
    BY <1>8 DEF Sweep, Overdue
  <2>3. ArtifactTypeOK'
    BY <1>0, <2>1 DEF ArtifactTypeOK
  <2>4. ObjectInv' /\ HandlesStand'
    BY <1>0, <1>1, <2>1 DEF ObjectInv, HandlesStand
  <2>. QED  BY <2>3, <2>4 DEF ArtifactInv
<1>9. CASE AgeMore
  <2>1. /\ UNCHANGED <<bucket, ttl, put, index, sweeping, dropping, asked>>
        /\ old' = [f \in Files |-> IF f \in bucket /\ old[f] <= Oldest THEN old[f] + 1 ELSE old[f]]
    BY <1>9 DEF AgeMore
  <2>2. \A f \in Files : old'[f] \in {old[f], old[f] + 1}
    BY <2>1
  <2>3. old' \in [Files -> Nat]
    BY <1>0, <2>1 DEF ArtifactTypeOK
  <2>4. ArtifactTypeOK'
    BY <1>0, <2>1, <2>3 DEF ArtifactTypeOK
  <2>5. \A f \in Files : Overdue(f) => Overdue(f)'
    BY <1>0, <2>1, <2>2, OverdueStays
  <2>6. ObjectInv' /\ HandlesStand'
    BY <1>0, <2>1, <2>5 DEF ObjectInv, HandlesStand
  <2>. QED  BY <2>4, <2>6 DEF ArtifactInv
<1>10. CASE ArtifactRestart
  <2>1. /\ UNCHANGED <<bucket, old, ttl, asked>> /\ index' = {} /\ sweeping' = {} /\ dropping' = {}
    BY <1>10 DEF ArtifactRestart
  <2>2. ASSUME NEW f \in Files
        PROVE  put'[f] = CASE put[f] \in {"stored", "signed"} -> "failed"
                           [] put[f] = "told" -> "kept"
                           [] OTHER -> put[f]
    BY <1>10 DEF ArtifactRestart
  <2>3. ASSUME NEW f \in Files
        PROVE  /\ put'[f] \in {"none", "kept", "failed"}
               /\ put'[f] = "none" => put[f] = "none"
               /\ put'[f] = "kept" => put[f] \in {"told", "kept"}
    <3>1. put[f] \in {"none", "stored", "signed", "told", "kept", "failed"}
      BY <1>0 DEF ArtifactTypeOK
    <3>. QED  BY <2>2, <3>1
  <2>4. put' \in [Files -> {"none", "stored", "signed", "told", "kept", "failed"}]
    <3>1. DOMAIN put' = Files /\ put' = [f \in Files |-> put'[f]]
      BY <1>10 DEF ArtifactRestart
    <3>. QED  BY <2>3, <3>1
  <2>5. ArtifactTypeOK'
    BY <1>0, <2>1, <2>4 DEF ArtifactTypeOK
  <2>6. ObjectInv' /\ HandlesStand'
    BY <1>0, <1>1, <2>1, <2>3 DEF ObjectInv, HandlesStand
  <2>. QED  BY <2>5, <2>6 DEF ArtifactInv
<1>. QED  BY <1>2, <1>3, <1>4, <1>5, <1>6, <1>7, <1>8, <1>9, <1>10 DEF ArtifactNext

\* The artifact store keeps to its invariant, restarts included.  (s3store.go:114-237)
THEOREM ArtifactsKeepInv == ArtifactSpec => []ArtifactInv
<1>1. ArtifactInit => ArtifactInv
  BY ArtifactInitInv
<1>2. ArtifactInv /\ [ArtifactNext]_artifactVars => ArtifactInv'
  <2>1. ArtifactInv /\ UNCHANGED artifactVars => ArtifactInv'
    BY DEF ArtifactInv, ArtifactTypeOK, ObjectInv, HandlesStand, Overdue, KeptFor, artifactVars
  <2>. QED  BY <2>1, ArtifactStep
<1>. QED  BY <1>1, <1>2, PTL DEF ArtifactSpec

\* An artifact whose handle somebody has can be fetched until its TTL is over or
\* an operator deletes it, and the explorer shows what this process told of.
\* (s3store.go:114-237, janitor.go:79-134)
THEOREM HandlesDoStand == ArtifactSpec => []HandlesStand
<1>1. ArtifactInv => HandlesStand
  BY DEF ArtifactInv
<1>. QED  BY <1>1, ArtifactsKeepInv, PTL

-----------------------------------------------------------------------------
(* Webhooks: clones *)

\* Nowhere is no commit, and has none of the changes of one.
LEMMA CommitIs ==
  /\ \A c \in Commits : c # Nowhere /\ c.with \subseteq Deliveries /\ c.base \in 0..MaxMerges
  /\ \A n \in 0..MaxMerges : \A D \in SUBSET Deliveries :
       [base |-> n, with |-> D] \in Commits /\ [base |-> n, with |-> D].with = D
  BY WebhookAssumption DEF Commits

\* A new clone is one without changes.
LEMMA ClonedIs ==
  ASSUME NEW n \in 0..MaxMerges
  PROVE  /\ Cloned(n) \in Trees /\ Changes(Cloned(n)) = {} /\ Cloned(n).head = OfMain(n)
         /\ OfMain(n) \in Commits /\ OfMain(n).with = {}
<1>1. OfMain(n) \in Commits /\ OfMain(n).with = {} /\ OfMain(n) # Nowhere
  BY CommitIs DEF OfMain
<1>2. [c \in Commits |-> Nowhere] \in [Commits -> Commits \cup {Nowhere}]
  OBVIOUS
<1>3. /\ Cloned(n).main = OfMain(n) /\ Cloned(n).head = OfMain(n) /\ Cloned(n).dirty = {}
      /\ Cloned(n).staged = {} /\ Cloned(n).names = [c \in Commits |-> Nowhere]
  BY DEF Cloned
<1>4. Cloned(n) \in Trees
  BY <1>1, <1>2 DEF Cloned, Trees
<1>5. NamedIn(Cloned(n)) = {}
  BY <1>3 DEF NamedIn
<1>6. HeadOf(Cloned(n)) = {}
  BY <1>1, <1>3 DEF HeadOf
<1>. QED  BY <1>1, <1>3, <1>4, <1>5, <1>6 DEF Changes

\* Neither has the volume before the first clone, or after an eviction.
LEMMA NoCloneIs ==
  NoClone \in Trees /\ NoClone.head = Nowhere /\ Changes(NoClone) = {}
<1>1. 0 \in 0..MaxMerges
  BY WebhookAssumption
<1>2. Cloned(0) \in Trees /\ Cloned(0).main = OfMain(0) /\ OfMain(0).with = {}
  BY <1>1, ClonedIs DEF Cloned
<1>3. /\ NoClone.main = OfMain(0) /\ NoClone.head = Nowhere /\ NoClone.dirty = {}
      /\ NoClone.staged = {} /\ NoClone.names = [c \in Commits |-> Nowhere]
  BY DEF NoClone, Cloned
<1>4. NoClone \in Trees
  BY <1>2 DEF NoClone, Trees
<1>5. NamedIn(NoClone) = {}
  BY <1>3 DEF NamedIn
<1>6. HeadOf(NoClone) = {}
  BY <1>3 DEF HeadOf
<1>. QED  BY <1>2, <1>3, <1>4, <1>5, <1>6 DEF Changes

\* A clone that is used again has no change that it had not.
LEMMA ReusedIs ==
  ASSUME NEW t \in Trees, t.head # Nowhere
  PROVE  /\ Reused(t) \in Trees /\ Reused(t).head # Nowhere
         /\ Changes(Reused(t)) \subseteq Changes(t) /\ Reused(t).names = t.names
<1>. DEFINE h == IF ref = "main" THEN t.main ELSE t.head
<1>1. h \in Commits /\ h # Nowhere /\ t.main \in Commits /\ t.main # Nowhere
  BY CommitIs DEF Trees
<1>2. Reused(t) = [t EXCEPT !.head = h, !.dirty = {}, !.staged = {}]
  BY DEF Reused, Trees
<1>. HIDE DEF h
<1>3. Reused(t) \in Trees
  BY <1>1, <1>2 DEF Trees
<1>4. /\ Reused(t).main = t.main /\ Reused(t).head = h /\ Reused(t).dirty = {}
      /\ Reused(t).staged = {} /\ Reused(t).names = t.names
  BY <1>2 DEF Trees
<1>5. NamedIn(Reused(t)) = NamedIn(t)
  BY <1>4 DEF NamedIn
<1>6. HeadOf(Reused(t)) \subseteq t.main.with \cup HeadOf(t)
  BY <1>1, <1>4 DEF HeadOf, h
<1>. QED  BY <1>1, <1>3, <1>4, <1>5, <1>6 DEF Changes

\* Editing, staging, branching and committing: which changes a clone has then.
LEMMA EditedIs ==
  ASSUME NEW t \in Trees, NEW D \in SUBSET Deliveries
  PROVE  /\ [t EXCEPT !.dirty = @ \cup D] \in Trees
         /\ [t EXCEPT !.dirty = @ \cup D].head = t.head
         /\ [t EXCEPT !.dirty = @ \cup D].names = t.names
         /\ Changes([t EXCEPT !.dirty = @ \cup D]) \subseteq Changes(t) \cup D
<1>. DEFINE u == [t EXCEPT !.dirty = @ \cup D]
<1>1. u \in Trees
  BY DEF Trees
<1>2. u.main = t.main /\ u.head = t.head /\ u.dirty = t.dirty \cup D /\ u.staged = t.staged /\ u.names = t.names
  BY DEF Trees
<1>. HIDE DEF u
<1>3. NamedIn(u) = NamedIn(t) /\ HeadOf(u) = HeadOf(t)
  BY <1>2 DEF NamedIn, HeadOf
<1>4. Changes(u) \subseteq Changes(t) \cup D
  BY <1>2, <1>3 DEF Changes
<1>. QED  BY <1>1, <1>2, <1>4 DEF u

\* git add -A stages what is dirty.
LEMMA StagedIs ==
  ASSUME NEW t \in Trees
  PROVE  /\ [t EXCEPT !.staged = t.dirty] \in Trees
         /\ [t EXCEPT !.staged = t.dirty].head = t.head
         /\ [t EXCEPT !.staged = t.dirty].names = t.names
         /\ Changes([t EXCEPT !.staged = t.dirty]) \subseteq Changes(t)
<1>. DEFINE u == [t EXCEPT !.staged = t.dirty]
<1>1. u \in Trees
  BY DEF Trees
<1>2. u.main = t.main /\ u.head = t.head /\ u.dirty = t.dirty /\ u.staged = t.dirty /\ u.names = t.names
  BY DEF Trees
<1>. HIDE DEF u
<1>3. NamedIn(u) = NamedIn(t) /\ HeadOf(u) = HeadOf(t)
  BY <1>2 DEF NamedIn, HeadOf
<1>4. Changes(u) \subseteq Changes(t)
  BY <1>2, <1>3 DEF Changes
<1>. QED  BY <1>1, <1>2, <1>4 DEF u

\* A branch without a commit is one of HEAD.
LEMMA BranchedIs ==
  ASSUME NEW t \in Trees, t.head # Nowhere, NEW n \in Commits
  PROVE  /\ [t EXCEPT !.names[n] = t.head] \in Trees
         /\ [t EXCEPT !.names[n] = t.head].head = t.head
         /\ \A c \in Commits \ {n} : [t EXCEPT !.names[n] = t.head].names[c] = t.names[c]
         /\ Changes([t EXCEPT !.names[n] = t.head]) \subseteq Changes(t)
<1>. DEFINE u == [t EXCEPT !.names[n] = t.head]
<1>0. t.head \in Commits /\ t.names \in [Commits -> Commits \cup {Nowhere}]
  BY DEF Trees
<1>1. /\ u.main = t.main /\ u.head = t.head /\ u.dirty = t.dirty /\ u.staged = t.staged
      /\ u.names = [t.names EXCEPT ![n] = t.head]
  BY DEF Trees
<1>2. [t.names EXCEPT ![n] = t.head] \in [Commits -> Commits \cup {Nowhere}]
  BY <1>0
<1>3. u \in Trees
  BY <1>0, <1>2 DEF Trees
<1>. HIDE DEF u
<1>4. \A c \in Commits \ {n} : u.names[c] = t.names[c]
  BY <1>0, <1>1
<1>5. u.names[n] = t.head
  BY <1>0, <1>1
<1>6. HeadOf(u) = HeadOf(t) /\ HeadOf(t) = t.head.with
  BY <1>1 DEF HeadOf
<1>7. NamedIn(u) \subseteq NamedIn(t) \cup HeadOf(t)
  BY <1>4, <1>5, <1>6 DEF NamedIn
<1>8. Changes(u) \subseteq Changes(t)
  BY <1>1, <1>6, <1>7 DEF Changes
<1>. QED  BY <1>1, <1>3, <1>4, <1>8 DEF u

\* What a commit makes of a clone.
Committed(t, n, new) == [t EXCEPT !.names[n] = new, !.head = new, !.dirty = @ \ t.staged, !.staged = {}]
\* A commit adds what is staged to the changes of HEAD.
LEMMA CommittedIs ==
  ASSUME NEW t \in Trees, t.head # Nowhere, NEW n \in Commits, NEW new \in Commits,
         new.with = t.head.with \cup t.staged
  PROVE  /\ Committed(t, n, new) \in Trees
         /\ Committed(t, n, new).head = new /\ Committed(t, n, new).names[n] = new
         /\ \A c \in Commits \ {n} : Committed(t, n, new).names[c] = t.names[c]
         /\ Changes(Committed(t, n, new)) \subseteq Changes(t)
<1>. DEFINE u == Committed(t, n, new)
<1>0. t.head \in Commits /\ t.names \in [Commits -> Commits \cup {Nowhere}] /\ new # Nowhere
  BY CommitIs DEF Trees
<1>1. /\ u.main = t.main /\ u.head = new /\ u.dirty = t.dirty \ t.staged /\ u.staged = {}
      /\ u.names = [t.names EXCEPT ![n] = new]
  BY DEF Trees, Committed
<1>2. [t.names EXCEPT ![n] = new] \in [Commits -> Commits \cup {Nowhere}]
  BY <1>0
<1>3. t.dirty \ t.staged \in SUBSET Deliveries /\ {} \in SUBSET Deliveries /\ new \in Commits \cup {Nowhere}
  BY DEF Trees
<1>4. u \in Trees
  BY <1>0, <1>2, <1>3 DEF Trees, Committed
<1>. HIDE DEF u
<1>5. \A c \in Commits \ {n} : u.names[c] = t.names[c]
  BY <1>0, <1>1
<1>6. u.names[n] = new
  BY <1>0, <1>1
<1>7. HeadOf(u) = HeadOf(t) \cup t.staged /\ HeadOf(t) = t.head.with
  BY <1>0, <1>1 DEF HeadOf
<1>8. NamedIn(u) \subseteq NamedIn(t) \cup HeadOf(t) \cup t.staged
  BY <1>5, <1>6, <1>7 DEF NamedIn
<1>9. Changes(u) \subseteq Changes(t)
  BY <1>1, <1>7, <1>8 DEF Changes
<1>. QED  BY <1>1, <1>4, <1>5, <1>6, <1>9 DEF u

\* No delivery has come, and the origin has no branch.
LEMMA WebhookInitInv == WebhookInit => WebhookInv
<1>. SUFFICES ASSUME WebhookInit PROVE WebhookInv  OBVIOUS
<1>1. 0 \in 0..MaxMerges
  BY WebhookAssumption
<1>2. NoJob \in Jobs
  BY NoCloneIs DEF NoJob, Jobs, JobPlaces
<1>3. WebhookTypeOK
  BY <1>1, <1>2, NoCloneIs DEF WebhookInit, WebhookTypeOK
<1>4. \A d \in Deliveries : job[d] = NoJob /\ comments[d] = "none"
  BY DEF WebhookInit
<1>5. clone = NoClone /\ branches = [c \in Commits |-> Nowhere]
  BY DEF WebhookInit
<1>6. CloneInv
  BY <1>4, <1>5, NoCloneIs DEF CloneInv, Working, NoJob, Tree
<1>7. BranchInv
  BY <1>5 DEF BranchInv
<1>8. \A d \in Deliveries : OwnChange(d) /\ Dispatched(d)
  BY <1>4 DEF OwnChange, Dispatched, NoJob
<1>. QED  BY <1>3, <1>6, <1>7, <1>8 DEF WebhookInv

-----------------------------------------------------------------------------
(* Webhooks: jobs *)

\* What the steps make of a job is a job, with the fields they leave alone.
LEMMA JobTypes ==
  ASSUME NEW k \in Jobs, NEW place \in JobPlaces, NEW n \in Commits \cup {Nowhere}, NEW b \in BOOLEAN,
         NEW m \in {"patch", "branch", "pull_request"}, NEW t \in Trees
  PROVE  /\ [k EXCEPT !.at = place] \in Jobs
         /\ [k EXCEPT !.at = place, !.mode = m] \in Jobs
         /\ [k EXCEPT !.at = place, !.own = b] \in Jobs
         /\ [k EXCEPT !.name = n, !.at = place] \in Jobs
         /\ [k EXCEPT !.at = place, !.made = n] \in Jobs
         /\ [k EXCEPT !.at = place, !.pushed = b] \in Jobs
         /\ [k EXCEPT !.tree = t] \in Jobs
<1>. USE DEF Jobs
<1>1. [k EXCEPT !.at = place] \in Jobs  OBVIOUS
<1>2. [k EXCEPT !.at = place, !.mode = m] \in Jobs  OBVIOUS
<1>3. [k EXCEPT !.at = place, !.own = b] \in Jobs  OBVIOUS
<1>4. [k EXCEPT !.name = n, !.at = place] \in Jobs  OBVIOUS
<1>5. [k EXCEPT !.at = place, !.made = n] \in Jobs  OBVIOUS
<1>6. [k EXCEPT !.at = place, !.pushed = b] \in Jobs  OBVIOUS
<1>7. [k EXCEPT !.tree = t] \in Jobs  OBVIOUS
<1>. QED  BY <1>1, <1>2, <1>3, <1>4, <1>5, <1>6, <1>7

\* What a step in a clone makes of its job and of the clone.
LEMMA SetTreeIs ==
  ASSUME WebhookTypeOK, NEW d \in Deliveries, NEW t \in Trees, NEW k \in Jobs, SetTree(d, t, k)
  PROVE  /\ job' \in [Deliveries -> Jobs] /\ clone' \in Trees
         /\ job'[d].at = k.at /\ job'[d].mode = k.mode /\ job'[d].own = k.own
         /\ job'[d].name = k.name /\ job'[d].pushed = k.pushed /\ job'[d].made = k.made
         /\ Tree(d)' = t
         /\ k.own => job'[d].tree = t /\ clone' = clone
         /\ ~k.own => clone' = t
         /\ \A e \in Deliveries \ {d} : job'[e] = job[e]
<1>0. job \in [Deliveries -> Jobs] /\ clone \in Trees
  BY DEF WebhookTypeOK
<1>1. CASE k.own
  <2>. DEFINE j == [k EXCEPT !.tree = t]
  <2>1. /\ j \in Jobs /\ j.at = k.at /\ j.mode = k.mode /\ j.own = k.own
        /\ j.name = k.name /\ j.pushed = k.pushed /\ j.made = k.made /\ j.tree = t
    BY DEF Jobs
  <2>2. job' = [job EXCEPT ![d] = j] /\ clone' = clone
    BY <1>1 DEF SetTree
  <2>. HIDE DEF j
  <2>3. job' \in [Deliveries -> Jobs] /\ job'[d] = j /\ \A e \in Deliveries \ {d} : job'[e] = job[e]
    BY <1>0, <2>1, <2>2
  <2>4. Tree(d)' = t
    BY <1>1, <2>1, <2>3 DEF Tree
  <2>. QED  BY <1>0, <1>1, <2>1, <2>2, <2>3, <2>4
<1>2. CASE ~k.own
  <2>1. job' = [job EXCEPT ![d] = k] /\ clone' = t
    BY <1>2 DEF SetTree
  <2>2. job' \in [Deliveries -> Jobs] /\ job'[d] = k /\ \A e \in Deliveries \ {d} : job'[e] = job[e]
    BY <1>0, <2>1
  <2>3. Tree(d)' = t
    BY <1>2, <2>1, <2>2 DEF Tree
  <2>. QED  BY <1>0, <1>2, <2>1, <2>2, <2>3
<1>. QED  BY <1>1, <1>2

\* A step of one job that leaves the clones alone.
LEMMA GotoKeeps ==
  ASSUME WebhookInv, NEW d \in Deliveries, NEW k \in Jobs, job' = [job EXCEPT ![d] = k],
         UNCHANGED clone, k.own = job[d].own, k.tree = job[d].tree,
         k.at \in Working => job[d].at \in Working,
         k.at \in Unbegun => job[d].at \in Unbegun,
         k.at \in {"none", "clone"} => job[d].at \in {"none", "clone"}
  PROVE  /\ CloneInv' /\ \A e \in Deliveries : Tree(e)' = Tree(e)
         /\ UNCHANGED branches => BranchInv'
<1>0. WebhookTypeOK /\ CloneInv /\ BranchInv
  BY DEF WebhookInv
<1>1. job'[d] = k /\ \A e \in Deliveries \ {d} : job'[e] = job[e]
  BY <1>0 DEF WebhookTypeOK
<1>2. \A e \in Deliveries : job'[e].own = job[e].own /\ job'[e].tree = job[e].tree
  BY <1>1
<1>3. \A e \in Deliveries : Tree(e)' = Tree(e)
  BY <1>2 DEF Tree
<1>4. \A e \in Deliveries : /\ job'[e].at \in Working => job[e].at \in Working
                            /\ job'[e].at \in Unbegun => job[e].at \in Unbegun
                            /\ job'[e].at \in {"none", "clone"} => job[e].at \in {"none", "clone"}
  BY <1>1
<1>5. CloneInv'
  BY <1>0, <1>2, <1>3, <1>4 DEF CloneInv
<1>6. ASSUME UNCHANGED branches PROVE BranchInv'
  <2>1. \A c \in Commits : branches[c] # Nowhere => branches[c].with \subseteq Deliveries
    BY <1>0, CommitIs DEF WebhookTypeOK
  <2>. QED  BY <1>0, <1>3, <1>4, <1>6, <2>1 DEF BranchInv
<1>. QED  BY <1>3, <1>5, <1>6

\* A step of one job in its clone: what the others have in it stays.
LEMMA TreeKeeps ==
  ASSUME WebhookInv, NEW d \in Deliveries, NEW t \in Trees, NEW k \in Jobs, SetTree(d, t, k),
         UNCHANGED branches, job[d].at \in Working, k.own = job[d].own, k.at \notin Unbegun,
         t.head # Nowhere,
         Changes(t) \subseteq Changes(Tree(d)) \cup (IF job[d].at = "solve" THEN {d} ELSE {}),
         \A c \in Commits : Tree(d).names[c] # Nowhere => t.names[c] = Tree(d).names[c]
  PROVE  /\ CloneInv' /\ BranchInv'
         /\ \A e \in Deliveries : \A c \in Commits :
              Tree(e).names[c] # Nowhere => Tree(e)'.names[c] = Tree(e).names[c]
<1>0. WebhookTypeOK /\ CloneInv /\ BranchInv
  BY DEF WebhookInv
<1>1. /\ job'[d].at = k.at /\ job'[d].own = job[d].own /\ Tree(d)' = t
      /\ job[d].own => job'[d].tree = t /\ clone' = clone
      /\ ~job[d].own => clone' = t
      /\ \A e \in Deliveries \ {d} : job'[e] = job[e]
  BY <1>0, SetTreeIs
<1>2. ASSUME NEW e \in Deliveries PROVE Tree(e)' = Tree(e) \/ (Tree(e)' = t /\ Tree(e) = Tree(d))
  <2>1. CASE e = d
    BY <1>1, <2>1
  <2>2. CASE e # d /\ job[e].own
    BY <1>1, <2>2 DEF Tree
  <2>3. CASE e # d /\ ~job[e].own /\ job[d].own
    BY <1>1, <2>3 DEF Tree
  <2>4. CASE e # d /\ ~job[e].own /\ ~job[d].own
    BY <1>1, <2>4 DEF Tree
  <2>. QED  BY <2>1, <2>2, <2>3, <2>4
<1>3. \A e \in Deliveries : \A c \in Commits :
        Tree(e).names[c] # Nowhere => Tree(e)'.names[c] = Tree(e).names[c]
  BY <1>2
<1>4. ASSUME NEW e \in Deliveries, e # d \/ job[d].at # "solve", e \in Changes(Tree(e)')
      PROVE  e \in Changes(Tree(e))
  <2>1. CASE Tree(e)' = Tree(e)
    BY <1>4, <2>1
  <2>2. CASE Tree(e)' = t /\ Tree(e) = Tree(d)
    BY <1>4, <2>2
  <2>. QED  BY <1>2, <2>1, <2>2
<1>5. CloneInv'
  <2>1. clone'.head = Nowhere => clone' = NoClone
    BY <1>0, <1>1 DEF CloneInv
  <2>2. ASSUME NEW e \in Deliveries, job'[e].at \in Working PROVE Tree(e)'.head # Nowhere
    <3>1. job[e].at \in Working
      BY <1>1, <2>2
    <3>. QED  BY <1>0, <1>2, <3>1 DEF CloneInv
  <2>3. ASSUME NEW e \in Deliveries, ~job'[e].own PROVE job'[e].at \notin {"none", "clone"}
    BY <1>0, <1>1, <2>3 DEF CloneInv, Unbegun
  <2>4. ASSUME NEW e \in Deliveries, job'[e].own
        PROVE  Changes(job'[e].tree) \subseteq {e} /\ e \notin Changes(clone')
    <3>1. job[e].own /\ Changes(job[e].tree) \subseteq {e} /\ e \notin Changes(clone)
      BY <1>0, <1>1, <2>4 DEF CloneInv
    <3>2. CASE e = d
      BY <1>1, <3>1, <3>2 DEF Tree
    <3>3. CASE e # d
      <4>1. job'[e].tree = job[e].tree
        BY <1>1, <3>3
      <4>2. Changes(clone') \subseteq Changes(clone) \cup {d}
        BY <1>1 DEF Tree
      <4>. QED  BY <3>1, <3>3, <4>1, <4>2
    <3>. QED  BY <3>2, <3>3
  <2>5. ASSUME NEW e \in Deliveries, job'[e].at \in Unbegun PROVE e \notin Changes(Tree(e)')
    <3>1. e # d /\ job[e].at \in Unbegun
      BY <1>1, <2>5
    <3>. QED  BY <1>0, <1>4, <3>1 DEF CloneInv
  <2>. QED  BY <2>1, <2>2, <2>3, <2>4, <2>5 DEF CloneInv
<1>6. BranchInv'
  <2>1. SUFFICES ASSUME NEW c \in Commits, branches[c] # Nowhere, NEW e \in branches[c].with
                 PROVE  /\ job'[e].at \notin Unbegun
                        /\ e \in Changes(Tree(e)') => branches[c] = Tree(e)'.names[c]
    BY <1>0 DEF BranchInv
  <2>2. e \in Deliveries
    BY <1>0, <2>1, CommitIs DEF WebhookTypeOK
  <2>3. job[e].at \notin Unbegun /\ (e \in Changes(Tree(e)) => branches[c] = Tree(e).names[c])
    BY <1>0, <2>1 DEF BranchInv
  <2>4. job'[e].at \notin Unbegun
    BY <1>1, <2>2, <2>3
  <2>5. e # d \/ job[d].at # "solve"
    BY <2>3 DEF Unbegun
  <2>. QED  BY <1>3, <1>4, <2>1, <2>2, <2>3, <2>4, <2>5
<1>. QED  BY <1>3, <1>5, <1>6

\* What the other jobs made and told is not disturbed by a step that keeps the
\* branches there are, here and at the origin.
LEMMA OthersKeep ==
  ASSUME WebhookInv, NEW e \in Deliveries, job'[e] = job[e], comments'[e] = comments[e],
         pulls \subseteq pulls',
         \A c \in Commits : branches[c] # Nowhere => branches'[c] = branches[c],
         \A c \in Commits : job[e].at = "push" /\ Tree(e).names[c] # Nowhere
                              => Tree(e)'.names[c] = Tree(e).names[c]
  PROVE  OwnChange(e)' /\ Dispatched(e)'
<1>1. OwnChange(e) /\ Dispatched(e) /\ job[e] \in Jobs
  BY DEF WebhookInv, WebhookTypeOK
<1>2. OwnChange(e)'
  BY <1>1 DEF OwnChange
<1>3. job[e].name \in Commits \cup {Nowhere}
  BY <1>1 DEF Jobs
<1>4. job[e].pushed => branches'[job[e].name] = job[e].made
  BY <1>1, <1>3 DEF Dispatched
<1>5. job[e].at = "push" => Tree(e)'.names[job[e].name] = job[e].made
  BY <1>1, <1>3 DEF Dispatched
<1>6. Dispatched(e)'
  BY <1>1, <1>4, <1>5 DEF Dispatched
<1>. QED  BY <1>2, <1>6

-----------------------------------------------------------------------------
(* Webhooks: steps *)

\* Steps that only move a job on: what must be shown is what its new place needs.
LEMMA GotoStep ==
  ASSUME WebhookInv, NEW d \in Deliveries, NEW k \in Jobs, job' = [job EXCEPT ![d] = k],
         UNCHANGED <<clone, main, branches>>, k.own = job[d].own, k.tree = job[d].tree,
         k.at \in Working => job[d].at \in Working,
         k.at \in Unbegun => job[d].at \in Unbegun,
         k.at \in {"none", "clone"} => job[d].at \in {"none", "clone"},
         pulls \subseteq pulls', pulls' \subseteq Commits,
         comments' \in [Deliveries -> {"none", "failed", "finished"}],
         \A e \in Deliveries \ {d} : comments'[e] = comments[e],
         OwnChange(d)', Dispatched(d)'
  PROVE  WebhookInv'
<1>1. job' \in [Deliveries -> Jobs] /\ \A e \in Deliveries \ {d} : job'[e] = job[e]
  BY DEF WebhookInv, WebhookTypeOK
<1>2. WebhookTypeOK'
  BY <1>1 DEF WebhookInv, WebhookTypeOK
<1>3. CloneInv' /\ BranchInv' /\ \A e \in Deliveries : Tree(e)' = Tree(e)
  BY GotoKeeps
<1>4. \A e \in Deliveries \ {d} : OwnChange(e)' /\ Dispatched(e)'
  BY <1>1, <1>3, OthersKeep
<1>. QED  BY <1>2, <1>3, <1>4 DEF WebhookInv

\* A delivery starts a job.
LEMMA DispatchStep ==
  ASSUME WebhookInv, NEW d \in Deliveries, NEW mode \in {"patch", "branch", "pull_request"},
         Dispatch(d, mode)
  PROVE  WebhookInv'
<1>. DEFINE k == [job[d] EXCEPT !.at = "clone", !.mode = mode]
<1>1. job[d] \in Jobs /\ job[d].at = "none" /\ OwnChange(d) /\ Dispatched(d) /\ WebhookTypeOK
  BY DEF WebhookInv, WebhookTypeOK, Dispatch
<1>0. "clone" \in JobPlaces
  BY DEF JobPlaces
<1>2. k \in Jobs
  BY <1>0, <1>1 DEF Jobs
<1>3. /\ k.at = "clone" /\ k.mode = mode /\ k.own = job[d].own /\ k.tree = job[d].tree
      /\ k.name = job[d].name /\ k.pushed = job[d].pushed /\ k.made = job[d].made
  BY <1>1 DEF Jobs
<1>4. job' = [job EXCEPT ![d] = k] /\ UNCHANGED <<main, clone, branches, pulls, comments>>
  BY DEF Dispatch
<1>. HIDE DEF k
<1>5. job'[d] = k
  BY <1>1, <1>4 DEF WebhookTypeOK
<1>6. OwnChange(d)'
  BY <1>1, <1>3, <1>5 DEF OwnChange
<1>7. Dispatched(d)'
  BY <1>1, <1>3, <1>4, <1>5 DEF Dispatched
<1>. QED  BY <1>1, <1>2, <1>3, <1>4, <1>6, <1>7, GotoStep DEF Working, Unbegun, WebhookTypeOK

\* The fields of a job that goes to another place.
LEMMA GotoIs ==
  ASSUME WebhookInv, NEW d \in Deliveries, NEW place \in JobPlaces, Goto(d, place)
  PROVE  \E k \in Jobs :
           /\ job' = [job EXCEPT ![d] = k] /\ job'[d] = k /\ k.at = place
           /\ k.mode = job[d].mode /\ k.own = job[d].own /\ k.tree = job[d].tree
           /\ k.name = job[d].name /\ k.pushed = job[d].pushed /\ k.made = job[d].made
<1>. DEFINE k == [job[d] EXCEPT !.at = place]
<1>1. job[d] \in Jobs /\ job \in [Deliveries -> Jobs]
  BY DEF WebhookInv, WebhookTypeOK
<1>2. k \in Jobs
  BY <1>1 DEF Jobs
<1>3. /\ k.at = place
      /\ k.mode = job[d].mode /\ k.own = job[d].own /\ k.tree = job[d].tree
      /\ k.name = job[d].name /\ k.pushed = job[d].pushed /\ k.made = job[d].made
  BY <1>1 DEF Jobs
<1>4. job' = [job EXCEPT ![d] = k]
  BY DEF Goto
<1>. HIDE DEF k
<1>5. job'[d] = k
  BY <1>1, <1>4
<1>. QED  BY <1>2, <1>3, <1>4, <1>5

\* A job fails.
LEMMA FailsStep == ASSUME WebhookInv, NEW d \in Deliveries, Fails(d) PROVE WebhookInv'
<1>1. /\ OwnChange(d) /\ Dispatched(d) /\ WebhookTypeOK /\ Goto(d, "failed")
      /\ job[d].at \in {"clone", "solve", "collect", "name", "commit", "push", "pull"}
      /\ UNCHANGED <<main, clone, branches, pulls, comments>>
  BY DEF WebhookInv, Fails
<1>2. PICK k \in Jobs :
           /\ job' = [job EXCEPT ![d] = k] /\ job'[d] = k /\ k.at = "failed"
           /\ k.mode = job[d].mode /\ k.own = job[d].own /\ k.tree = job[d].tree
           /\ k.name = job[d].name /\ k.pushed = job[d].pushed /\ k.made = job[d].made
  BY <1>1, GotoIs DEF JobPlaces
<1>3. OwnChange(d)'
  BY <1>1, <1>2 DEF OwnChange
<1>4. Dispatched(d)'
  BY <1>1, <1>2 DEF Dispatched
<1>. QED  BY <1>1, <1>2, <1>3, <1>4, GotoStep DEF Working, Unbegun, WebhookTypeOK

\* A job whose push was refused fails.
LEMMA RefusedStep == ASSUME WebhookInv, NEW d \in Deliveries, Refused(d) PROVE WebhookInv'
<1>1. /\ OwnChange(d) /\ Dispatched(d) /\ WebhookTypeOK /\ Goto(d, "failed") /\ job[d].at = "refused"
      /\ UNCHANGED <<main, clone, branches, pulls, comments>>
  BY DEF WebhookInv, Refused
<1>2. PICK k \in Jobs :
           /\ job' = [job EXCEPT ![d] = k] /\ job'[d] = k /\ k.at = "failed"
           /\ k.mode = job[d].mode /\ k.own = job[d].own /\ k.tree = job[d].tree
           /\ k.name = job[d].name /\ k.pushed = job[d].pushed /\ k.made = job[d].made
  BY <1>1, GotoIs DEF JobPlaces
<1>3. OwnChange(d)'
  BY <1>1, <1>2 DEF OwnChange
<1>4. Dispatched(d)'
  BY <1>1, <1>2 DEF Dispatched
<1>. QED  BY <1>1, <1>2, <1>3, <1>4, GotoStep DEF Working, Unbegun, WebhookTypeOK

\* A comment tells what the job has reached.
LEMMA CommentStep == ASSUME WebhookInv, NEW d \in Deliveries, Comment(d) PROVE WebhookInv'
<1>1. /\ OwnChange(d) /\ Dispatched(d) /\ WebhookTypeOK /\ Goto(d, "over")
      /\ job[d].at \in {"failed", "solved"}
      /\ UNCHANGED <<main, clone, branches, pulls>>
      /\ comments' \in {comments, [comments EXCEPT ![d] = Body(d)]}
  BY DEF WebhookInv, Comment
<1>2. PICK k \in Jobs :
           /\ job' = [job EXCEPT ![d] = k] /\ job'[d] = k /\ k.at = "over"
           /\ k.mode = job[d].mode /\ k.own = job[d].own /\ k.tree = job[d].tree
           /\ k.name = job[d].name /\ k.pushed = job[d].pushed /\ k.made = job[d].made
  BY <1>1, GotoIs DEF JobPlaces
<1>3. OwnChange(d)'
  BY <1>1, <1>2 DEF OwnChange
<1>4. /\ comments' \in [Deliveries -> {"none", "failed", "finished"}]
      /\ \A e \in Deliveries \ {d} : comments'[e] = comments[e]
      /\ comments'[d] = "finished" => comments[d] = "finished" \/ job[d].at = "solved"
  BY <1>1 DEF WebhookTypeOK, Body
<1>5. Dispatched(d)'
  BY <1>1, <1>2, <1>4 DEF Dispatched
<1>. QED  BY <1>1, <1>2, <1>3, <1>4, <1>5, GotoStep DEF Working, Unbegun, WebhookTypeOK

\* A pull request is opened for the branch that was pushed.
LEMMA OpenPullStep == ASSUME WebhookInv, NEW d \in Deliveries, OpenPull(d) PROVE WebhookInv'
<1>1. /\ OwnChange(d) /\ Dispatched(d) /\ WebhookTypeOK /\ job[d].at = "pull"
      /\ UNCHANGED <<main, clone, branches, comments>> /\ pulls' = pulls \cup {job[d].name}
  BY DEF WebhookInv, OpenPull
<1>2. PICK place \in {"solved", "failed"} : Goto(d, place)
  BY DEF OpenPull
<1>3. PICK k \in Jobs :
           /\ job' = [job EXCEPT ![d] = k] /\ job'[d] = k /\ k.at = place
           /\ k.mode = job[d].mode /\ k.own = job[d].own /\ k.tree = job[d].tree
           /\ k.name = job[d].name /\ k.pushed = job[d].pushed /\ k.made = job[d].made
  BY <1>2, GotoIs DEF JobPlaces
<1>4. OwnChange(d)'
  BY <1>1, <1>2, <1>3 DEF OwnChange
<1>5. Dispatched(d)'
  BY <1>1, <1>2, <1>3 DEF Dispatched
<1>6. job[d].name \in Commits
  BY <1>1 DEF Dispatched, WebhookTypeOK, Jobs
<1>. QED  BY <1>1, <1>2, <1>3, <1>4, <1>5, <1>6, GotoStep DEF Working, Unbegun, WebhookTypeOK

\* The branch is named after HEAD.
LEMMA NameBranchStep == ASSUME WebhookInv, NEW d \in Deliveries, NameBranch(d) PROVE WebhookInv'
<1>. DEFINE k == [job[d] EXCEPT !.name = Tree(d).head, !.at = "commit"]
<1>1. /\ OwnChange(d) /\ Dispatched(d) /\ WebhookTypeOK /\ CloneInv /\ job[d].at = "name"
      /\ UNCHANGED <<main, clone, branches, pulls, comments>> /\ job[d] \in Jobs
  BY DEF WebhookInv, NameBranch, WebhookTypeOK
<1>2. Tree(d) \in Trees /\ Tree(d).head \in Commits /\ Tree(d).head # Nowhere
  <2>1. Tree(d).head # Nowhere
    BY <1>1 DEF CloneInv, Working
  <2>2. Tree(d) \in Trees
    BY <1>1 DEF Tree, WebhookTypeOK, Jobs
  <2>. QED  BY <2>1, <2>2 DEF Trees
<1>3. k \in Jobs
  BY <1>1, <1>2, JobTypes DEF JobPlaces
<1>4. /\ k.at = "commit" /\ k.mode = job[d].mode /\ k.own = job[d].own /\ k.tree = job[d].tree
      /\ k.name = Tree(d).head /\ k.pushed = job[d].pushed /\ k.made = job[d].made
  BY <1>1 DEF Jobs
<1>5. job' = [job EXCEPT ![d] = k]
  BY DEF NameBranch
<1>. HIDE DEF k
<1>6. job'[d] = k
  BY <1>1, <1>5 DEF WebhookTypeOK
<1>7. OwnChange(d)'
  <2>1. k.made = Nowhere
    BY <1>1, <1>4 DEF Dispatched
  <2>. QED  BY <1>1, <1>4, <1>6, <2>1 DEF OwnChange, Tree
<1>8. Dispatched(d)'
  BY <1>1, <1>2, <1>4, <1>6 DEF Dispatched
<1>. QED  BY <1>1, <1>3, <1>4, <1>5, <1>7, <1>8, GotoStep DEF Working, Unbegun, WebhookTypeOK

\* Steps of a job in its clone.
LEMMA TreeStep ==
  ASSUME WebhookInv, NEW d \in Deliveries, NEW t \in Trees, NEW k \in Jobs, SetTree(d, t, k),
         UNCHANGED <<main, branches, pulls, comments>>,
         job[d].at \in Working, k.own = job[d].own, k.at \notin Unbegun,
         t.head # Nowhere,
         Changes(t) \subseteq Changes(Tree(d)) \cup (IF job[d].at = "solve" THEN {d} ELSE {}),
         \A c \in Commits : Tree(d).names[c] # Nowhere => t.names[c] = Tree(d).names[c],
         OwnChange(d)', Dispatched(d)'
  PROVE  WebhookInv'
<1>0. WebhookTypeOK
  BY DEF WebhookInv
<1>1. /\ job' \in [Deliveries -> Jobs] /\ clone' \in Trees
      /\ \A e \in Deliveries \ {d} : job'[e] = job[e]
  BY <1>0, SetTreeIs
<1>2. WebhookTypeOK'
  BY <1>0, <1>1 DEF WebhookTypeOK
<1>3. /\ CloneInv' /\ BranchInv'
      /\ \A e \in Deliveries : \A c \in Commits :
           Tree(e).names[c] # Nowhere => Tree(e)'.names[c] = Tree(e).names[c]
  BY TreeKeeps
<1>4. \A e \in Deliveries \ {d} : OwnChange(e)' /\ Dispatched(e)'
  BY <1>1, <1>3, OthersKeep
<1>. QED  BY <1>2, <1>3, <1>4 DEF WebhookInv

\* What is known of the clone of a job that works in it.
LEMMA TreeIs ==
  ASSUME WebhookInv, NEW d \in Deliveries, job[d].at \in Working
  PROVE  /\ Tree(d) \in Trees /\ Tree(d).head \in Commits /\ Tree(d).head # Nowhere
         /\ job[d].own => Changes(Tree(d)) \subseteq {d} /\ Tree(d) = job[d].tree
         /\ Tree(d).dirty \subseteq Changes(Tree(d)) /\ Tree(d).staged \subseteq Changes(Tree(d))
<1>1. WebhookTypeOK /\ CloneInv
  BY DEF WebhookInv
<1>2. Tree(d) \in Trees
  BY <1>1 DEF Tree, WebhookTypeOK, Jobs
<1>3. Tree(d).head # Nowhere
  BY <1>1 DEF CloneInv
<1>4. job[d].own => Changes(Tree(d)) \subseteq {d} /\ Tree(d) = job[d].tree
  BY <1>1 DEF CloneInv, Tree
<1>. QED  BY <1>2, <1>3, <1>4 DEF Trees, Changes

\* The agent edits the clone, and the change is its job's.
LEMMA SolveStep == ASSUME WebhookInv, NEW d \in Deliveries, Solve(d) PROVE WebhookInv'
<1>1. /\ OwnChange(d) /\ Dispatched(d) /\ WebhookTypeOK /\ job[d].at = "solve" /\ job[d] \in Jobs
      /\ UNCHANGED <<main, branches, pulls, comments>>
  BY DEF WebhookInv, WebhookTypeOK, Solve
<1>2. Tree(d) \in Trees /\ Tree(d).head # Nowhere /\ (job[d].own => Tree(d) = job[d].tree)
  BY <1>1, TreeIs DEF Working
<1>. DEFINE k == [job[d] EXCEPT !.at = "collect"]
<1>3. PICK D \in {{}, {d}} : SetTree(d, [Tree(d) EXCEPT !.dirty = @ \cup D], k)
  BY DEF Solve
<1>4. "collect" \in JobPlaces
  BY DEF JobPlaces
<1>5. k \in Jobs
  BY <1>1, <1>4 DEF Jobs
<1>6. /\ k.at = "collect" /\ k.mode = job[d].mode /\ k.own = job[d].own
      /\ k.name = job[d].name /\ k.pushed = job[d].pushed /\ k.made = job[d].made
  BY <1>1 DEF Jobs
<1>. DEFINE t == [Tree(d) EXCEPT !.dirty = @ \cup D]
<1>7. D \in SUBSET Deliveries
  BY <1>3
<1>8. t \in Trees /\ t.head = Tree(d).head /\ t.names = Tree(d).names /\ Changes(t) \subseteq Changes(Tree(d)) \cup D
  BY <1>2, <1>7, EditedIs
<1>9. SetTree(d, t, k)
  BY <1>3
<1>. HIDE DEF t, k
<1>10. /\ job'[d].at = k.at /\ job'[d].mode = k.mode /\ job'[d].own = k.own
       /\ job'[d].name = k.name /\ job'[d].pushed = k.pushed /\ job'[d].made = k.made
       /\ k.own => job'[d].tree = t
  BY <1>1, <1>5, <1>8, <1>9, SetTreeIs
<1>11. OwnChange(d)'
  BY <1>1, <1>2, <1>6, <1>8, <1>10 DEF OwnChange
<1>12. Dispatched(d)'
  BY <1>1, <1>6, <1>10 DEF Dispatched
<1>. QED  BY <1>1, <1>2, <1>3, <1>5, <1>6, <1>8, <1>9, <1>11, <1>12, TreeStep DEF Working, Unbegun

\* Staging brings no change of another job.
LEMMA CollectStep == ASSUME WebhookInv, NEW d \in Deliveries, Collect(d) PROVE WebhookInv'
<1>1. /\ OwnChange(d) /\ Dispatched(d) /\ WebhookTypeOK /\ job[d].at = "collect" /\ job[d] \in Jobs
      /\ UNCHANGED <<main, branches, pulls, comments>>
  BY DEF WebhookInv, WebhookTypeOK, Collect
<1>2. Tree(d) \in Trees /\ Tree(d).head # Nowhere /\ (job[d].own => Tree(d) = job[d].tree)
  BY <1>1, TreeIs DEF Working
<1>. DEFINE place == IF job[d].mode = "patch" THEN "solved" ELSE "name"
            k == [job[d] EXCEPT !.at = place]
            t == [Tree(d) EXCEPT !.staged = Tree(d).dirty]
<1>3. SetTree(d, t, k)
  BY DEF Collect
<1>4. place \in JobPlaces /\ place \in {"solved", "name"} /\ (place = "solved" <=> job[d].mode = "patch")
  BY DEF JobPlaces
<1>. HIDE DEF place
<1>5. k \in Jobs
  BY <1>1, <1>4 DEF Jobs
<1>6. /\ k.at = place /\ k.mode = job[d].mode /\ k.own = job[d].own
      /\ k.name = job[d].name /\ k.pushed = job[d].pushed /\ k.made = job[d].made
  BY <1>1 DEF Jobs
<1>7. t \in Trees /\ t.head = Tree(d).head /\ t.names = Tree(d).names /\ Changes(t) \subseteq Changes(Tree(d))
  BY <1>2, StagedIs
<1>. HIDE DEF t, k
<1>8. /\ job'[d].at = k.at /\ job'[d].mode = k.mode /\ job'[d].own = k.own
      /\ job'[d].name = k.name /\ job'[d].pushed = k.pushed /\ job'[d].made = k.made
      /\ k.own => job'[d].tree = t
  BY <1>1, <1>3, <1>5, <1>7, SetTreeIs
<1>9. OwnChange(d)'
  BY <1>1, <1>2, <1>4, <1>6, <1>7, <1>8 DEF OwnChange
<1>10. Dispatched(d)'
  BY <1>1, <1>4, <1>6, <1>8 DEF Dispatched
<1>. QED  BY <1>1, <1>2, <1>3, <1>4, <1>5, <1>6, <1>7, <1>9, <1>10, TreeStep DEF Working, Unbegun

\* A commit that is refused because the branch is there, one with nothing to
\* commit, and one that is made.
LEMMA CommitStep == ASSUME WebhookInv, NEW d \in Deliveries, Commit(d) PROVE WebhookInv'
<1>. DEFINE t == Tree(d)
            n == job[d].name
            new == [base |-> t.head.base, with |-> t.head.with \cup t.staged]
<1>1. /\ OwnChange(d) /\ Dispatched(d) /\ WebhookTypeOK /\ job[d].at = "commit" /\ job[d] \in Jobs
      /\ UNCHANGED <<main, branches, pulls, comments>>
  BY DEF WebhookInv, WebhookTypeOK, Commit
<1>2. /\ t \in Trees /\ t.head \in Commits /\ t.head # Nowhere
      /\ job[d].own => Changes(t) \subseteq {d} /\ t = job[d].tree
      /\ t.staged \subseteq Changes(t)
  BY <1>1, TreeIs DEF Working
<1>3. n \in Commits /\ job[d].made = Nowhere /\ ~job[d].pushed /\ job[d].mode # "patch"
  BY <1>1 DEF Dispatched, Jobs
<1>4. "failed" \in JobPlaces /\ "push" \in JobPlaces
  BY DEF JobPlaces
<1>5. CASE Goto(d, "failed") /\ UNCHANGED clone
  <2>1. PICK k \in Jobs :
           /\ job' = [job EXCEPT ![d] = k] /\ job'[d] = k /\ k.at = "failed"
           /\ k.mode = job[d].mode /\ k.own = job[d].own /\ k.tree = job[d].tree
           /\ k.name = job[d].name /\ k.pushed = job[d].pushed /\ k.made = job[d].made
    BY <1>4, <1>5, GotoIs
  <2>2. OwnChange(d)'
    BY <1>1, <2>1 DEF OwnChange
  <2>3. Dispatched(d)'
    BY <1>1, <2>1 DEF Dispatched
  <2>. QED  BY <1>1, <1>5, <2>1, <2>2, <2>3, GotoStep DEF Working, Unbegun, WebhookTypeOK
<1>6. CASE t.names[n] = Nowhere /\ SetTree(d, [t EXCEPT !.names[n] = t.head], [job[d] EXCEPT !.at = "failed"])
  <2>. DEFINE u == [t EXCEPT !.names[n] = t.head]
              k == [job[d] EXCEPT !.at = "failed"]
  <2>. HIDE DEF t, n
  <2>1. /\ u \in Trees /\ u.head # Nowhere /\ Changes(u) \subseteq Changes(t)
        /\ \A c \in Commits \ {n} : u.names[c] = t.names[c]
    BY <1>2, <1>3, BranchedIs
  <2>2. k \in Jobs
    BY <1>1, <1>4 DEF Jobs
  <2>3. /\ k.at = "failed" /\ k.mode = job[d].mode /\ k.own = job[d].own
        /\ k.name = job[d].name /\ k.pushed = job[d].pushed /\ k.made = job[d].made
    BY <1>1 DEF Jobs
  <2>4. SetTree(d, u, k)
    BY <1>6
  <2>. HIDE DEF u, k
  <2>5. /\ job'[d].at = k.at /\ job'[d].mode = k.mode /\ job'[d].own = k.own
        /\ job'[d].name = k.name /\ job'[d].pushed = k.pushed /\ job'[d].made = k.made
    BY <1>1, <2>1, <2>2, <2>4, SetTreeIs
  <2>6. OwnChange(d)'
    BY <1>3, <2>3, <2>5 DEF OwnChange
  <2>7. Dispatched(d)'
    BY <1>1, <2>3, <2>5 DEF Dispatched
  <2>8. \A c \in Commits : t.names[c] # Nowhere => u.names[c] = t.names[c]
    BY <1>6, <2>1
  <2>. QED  BY <1>1, <2>1, <2>2, <2>3, <2>4, <2>6, <2>7, <2>8, TreeStep DEF Working, Unbegun, t
<1>7. CASE /\ t.names[n] = Nowhere /\ t.staged # {}
           /\ SetTree(d, Committed(t, n, new), [job[d] EXCEPT !.at = "push", !.made = new])
  <2>. DEFINE u == Committed(t, n, new)
              k == [job[d] EXCEPT !.at = "push", !.made = new]
  <2>0. /\ new \in Commits /\ new.with = t.head.with \cup t.staged /\ new # Nowhere /\ new.base = t.head.base
        /\ new.with # {}
    <3>1. t.head.base \in 0..MaxMerges /\ t.head.with \cup t.staged \in SUBSET Deliveries
      BY <1>2, CommitIs DEF Trees
    <3>2. new \in Commits /\ new.with = t.head.with \cup t.staged /\ new.base = t.head.base
      BY <3>1 DEF Commits
    <3>. QED  BY <1>7, <3>2, CommitIs
  <2>00. job[d].own => new = [base |-> n.base, with |-> {d}]
    <3>1. job[d].own => t.head.with = {} /\ n = t.head /\ t.staged = {d}
      BY <1>1, <1>2, <1>7 DEF OwnChange
    <3>. QED  BY <3>1
  <2>. HIDE DEF t, n, new
  <2>1. /\ u \in Trees /\ u.head # Nowhere /\ Changes(u) \subseteq Changes(t) /\ u.names[n] = new
        /\ \A c \in Commits \ {n} : u.names[c] = t.names[c]
    BY <1>2, <1>3, <2>0, CommittedIs
  <2>2. k \in Jobs
    BY <1>1, <1>4, <2>0 DEF Jobs
  <2>3. /\ k.at = "push" /\ k.mode = job[d].mode /\ k.own = job[d].own
        /\ k.name = n /\ k.pushed = job[d].pushed /\ k.made = new
    BY <1>1 DEF Jobs, n
  <2>4. SetTree(d, u, k)
    BY <1>7
  <2>. HIDE DEF u, k
  <2>5. /\ job'[d].at = k.at /\ job'[d].mode = k.mode /\ job'[d].own = k.own
        /\ job'[d].name = k.name /\ job'[d].pushed = k.pushed /\ job'[d].made = k.made
        /\ Tree(d)' = u
    BY <1>1, <2>1, <2>2, <2>4, SetTreeIs
  <2>6. OwnChange(d)'
    BY <2>00, <2>3, <2>5 DEF OwnChange
  <2>7. Dispatched(d)'
    BY <1>1, <1>3, <2>0, <2>1, <2>3, <2>5, CommitIs DEF Dispatched
  <2>8. \A c \in Commits : t.names[c] # Nowhere => u.names[c] = t.names[c]
    BY <1>7, <2>1
  <2>. QED  BY <1>1, <2>1, <2>2, <2>3, <2>4, <2>6, <2>7, <2>8, TreeStep DEF Working, Unbegun, t
<1>. QED  BY <1>5, <1>6, <1>7 DEF Commit, Committed

\* Who has a change in a clone works in that clone.
LEMMA SharesTree ==
  ASSUME WebhookInv, NEW d \in Deliveries, NEW e \in Deliveries, e \in Changes(Tree(d))
  PROVE  Tree(e) = Tree(d) /\ job[e].at \notin Unbegun
<1>1. CloneInv
  BY DEF WebhookInv
<1>2. Tree(e) = Tree(d)
  <2>1. CASE job[d].own
    BY <1>1, <2>1 DEF CloneInv, Tree
  <2>2. CASE ~job[d].own
    BY <1>1, <2>2 DEF CloneInv, Tree
  <2>. QED  BY <2>1, <2>2
<1>. QED  BY <1>1, <1>2 DEF CloneInv

\* No branch of the origin is another commit after a push than before: one that
\* a push may move has a change of the clone, which is then its branch already.
LEMMA PushStep == ASSUME WebhookInv, NEW d \in Deliveries, Push(d) PROVE WebhookInv'
<1>. DEFINE t == Tree(d)
            n == job[d].name
            commit == t.names[n]
<1>1. /\ OwnChange(d) /\ Dispatched(d) /\ WebhookTypeOK /\ BranchInv /\ CloneInv
      /\ job[d].at = "push" /\ job[d] \in Jobs
      /\ UNCHANGED <<main, clone, pulls, comments>>
  BY DEF WebhookInv, WebhookTypeOK, Push
<1>2. n \in Commits /\ commit = job[d].made /\ commit \in Commits /\ commit # Nowhere /\ commit.with # {}
  BY <1>1 DEF Dispatched, Jobs
<1>3. CASE Goto(d, "refused") /\ UNCHANGED branches
  <2>1. PICK k \in Jobs :
           /\ job' = [job EXCEPT ![d] = k] /\ job'[d] = k /\ k.at = "refused"
           /\ k.mode = job[d].mode /\ k.own = job[d].own /\ k.tree = job[d].tree
           /\ k.name = job[d].name /\ k.pushed = job[d].pushed /\ k.made = job[d].made
    BY <1>3, GotoIs DEF JobPlaces
  <2>2. OwnChange(d)'
    BY <1>1, <2>1 DEF OwnChange
  <2>3. Dispatched(d)'
    BY <1>1, <2>1 DEF Dispatched
  <2>. QED  BY <1>1, <1>3, <2>1, <2>2, <2>3, GotoStep DEF Working, Unbegun, WebhookTypeOK
<1>4. CASE /\ MayPush(n, commit) /\ branches' = [branches EXCEPT ![n] = commit]
           /\ \E next \in {IF job[d].mode = "branch" THEN "solved" ELSE "pull", "failed"} :
                job' = [job EXCEPT ![d].at = next, ![d].pushed = TRUE]
  <2>0. PICK next \in {IF job[d].mode = "branch" THEN "solved" ELSE "pull", "failed"} :
               job' = [job EXCEPT ![d].at = next, ![d].pushed = TRUE]
    BY <1>4
  <2>. DEFINE k == [job[d] EXCEPT !.at = next, !.pushed = TRUE]
  <2>1. next \in JobPlaces
    BY DEF JobPlaces
  <2>2. k \in Jobs
    BY <1>1, <2>1 DEF Jobs
  <2>3. /\ k.at = next /\ k.mode = job[d].mode /\ k.own = job[d].own /\ k.tree = job[d].tree
        /\ k.name = n /\ k.pushed = TRUE /\ k.made = commit
    BY <1>1, <1>2 DEF Jobs
  <2>4. job' = [job EXCEPT ![d] = k]
    BY <2>0
  <2>. HIDE DEF k
  <2>5. /\ job' \in [Deliveries -> Jobs] /\ job'[d] = k
        /\ \A e \in Deliveries \ {d} : job'[e] = job[e]
    BY <1>1, <2>2, <2>4 DEF WebhookTypeOK
  <2>6. commit.with \subseteq Changes(t) /\ commit.with \subseteq Deliveries
    BY <1>2, CommitIs DEF Changes, NamedIn
  <2>7. \A e \in commit.with : Tree(e) = t /\ job[e].at \notin Unbegun
    BY <2>6, SharesTree
  <2>8. branches[n] \in {Nowhere, commit}
    <3>1. SUFFICES ASSUME branches[n] # Nowhere PROVE branches[n] = commit
      OBVIOUS
    <3>2. CASE branches[n].with \subseteq commit.with
      <4>1. PICK e \in branches[n].with : e \in commit.with
        BY <1>1, <1>2, <3>1, <3>2 DEF BranchInv
      <4>2. e \in Changes(Tree(e)) /\ Tree(e) = t
        BY <2>6, <2>7, <4>1
      <4>. QED  BY <1>1, <1>2, <3>1, <4>1, <4>2 DEF BranchInv
    <3>. QED  BY <1>4, <3>1, <3>2 DEF MayPush
  <2>9. /\ branches' \in [Commits -> Commits \cup {Nowhere}] /\ branches'[n] = commit
        /\ \A c \in Commits : branches[c] # Nowhere => branches'[c] = branches[c]
        /\ \A c \in Commits \ {n} : branches'[c] = branches[c]
    BY <1>1, <1>2, <1>4, <2>8 DEF WebhookTypeOK
  <2>10. WebhookTypeOK'
    BY <1>1, <2>5, <2>9 DEF WebhookTypeOK
  <2>11. CloneInv' /\ \A e \in Deliveries : Tree(e)' = Tree(e)
    BY <1>1, <2>2, <2>3, <2>4, GotoKeeps DEF Working, Unbegun
  <2>12. \A e \in Deliveries : job[e].at \notin Unbegun => job'[e].at \notin Unbegun
    BY <2>3, <2>5 DEF Unbegun
  <2>13. BranchInv'
    <3>1. SUFFICES ASSUME NEW c \in Commits, branches'[c] # Nowhere
                   PROVE  /\ branches'[c].with # {}
                          /\ \A e \in branches'[c].with :
                               /\ job'[e].at \notin Unbegun
                               /\ e \in Changes(Tree(e)') => branches'[c] = Tree(e)'.names[c]
      BY DEF BranchInv
    <3>2. CASE c = n
      BY <1>2, <2>6, <2>7, <2>9, <2>11, <2>12, <3>2
    <3>3. CASE c # n
      <4>1. branches'[c] = branches[c] /\ branches[c].with \subseteq Deliveries
        BY <1>1, <2>9, <3>1, <3>3, CommitIs DEF WebhookTypeOK
      <4>. QED  BY <1>1, <2>11, <2>12, <3>1, <4>1 DEF BranchInv
    <3>. QED  BY <3>2, <3>3
  <2>14. \A e \in Deliveries \ {d} : OwnChange(e)' /\ Dispatched(e)'
    BY <1>1, <2>5, <2>9, <2>11, OthersKeep
  <2>15. OwnChange(d)'
    BY <1>1, <1>2, <2>3, <2>5 DEF OwnChange
  <2>16. Dispatched(d)'
    BY <1>1, <1>2, <2>3, <2>5, <2>9, CommitIs DEF Dispatched
  <2>. QED  BY <2>10, <2>11, <2>13, <2>14, <2>15, <2>16 DEF WebhookInv
<1>. QED  BY <1>3, <1>4 DEF Push

\* A job gets a clone: a new one, or the one of the volume as it is.
LEMMA AcquireStep == ASSUME WebhookInv, NEW d \in Deliveries, AcquireClone(d) PROVE WebhookInv'
<1>1. /\ OwnChange(d) /\ Dispatched(d) /\ WebhookTypeOK /\ BranchInv /\ CloneInv
      /\ job[d].at = "clone" /\ job[d] \in Jobs
      /\ UNCHANGED <<main, branches, pulls, comments>>
  BY DEF WebhookInv, WebhookTypeOK, AcquireClone
<1>2. job[d].own /\ d \notin Changes(clone)
  BY <1>1 DEF CloneInv
<1>3. PICK own \in {TRUE, ~volume} :
        SetTree(d, IF own \/ clone = NoClone THEN Cloned(main) ELSE Reused(clone),
                   [job[d] EXCEPT !.at = "solve", !.own = own])
  BY DEF AcquireClone
<1>. DEFINE t == IF own \/ clone = NoClone THEN Cloned(main) ELSE Reused(clone)
            k == [job[d] EXCEPT !.at = "solve", !.own = own]
<1>4. own \in BOOLEAN /\ "solve" \in JobPlaces
  BY DEF JobPlaces
<1>5. k \in Jobs
  BY <1>1, <1>4 DEF Jobs
<1>6. /\ k.at = "solve" /\ k.mode = job[d].mode /\ k.own = own
      /\ k.name = job[d].name /\ k.pushed = job[d].pushed /\ k.made = job[d].made
  BY <1>1 DEF Jobs
<1>7. /\ t \in Trees /\ t.head # Nowhere /\ Changes(t) \subseteq Changes(clone)
      /\ own => Changes(t) = {} /\ t.head.with = {}
      /\ \A c \in Commits : clone.names[c] # Nowhere /\ ~own => t.names[c] = clone.names[c]
  <2>1. CASE own \/ clone = NoClone
    <3>1. main \in 0..MaxMerges /\ t = Cloned(main)
      BY <1>1, <2>1 DEF WebhookTypeOK
    <3>2. t \in Trees /\ Changes(t) = {} /\ t.head \in Commits /\ t.head # Nowhere /\ t.head.with = {}
      BY <3>1, ClonedIs, CommitIs
    <3>3. \A c \in Commits : NoClone.names[c] = Nowhere
      BY DEF NoClone, Cloned
    <3>. QED  BY <2>1, <3>2, <3>3
  <2>2. CASE ~(own \/ clone = NoClone)
    <3>1. clone \in Trees /\ clone.head # Nowhere /\ t = Reused(clone)
      BY <1>1, <2>2 DEF WebhookTypeOK, CloneInv
    <3>. QED  BY <2>2, <3>1, ReusedIs
  <2>. QED  BY <2>1, <2>2
<1>8. SetTree(d, t, k)
  BY <1>3
<1>. HIDE DEF t, k
<1>9. /\ job' \in [Deliveries -> Jobs] /\ clone' \in Trees
      /\ job'[d].at = "solve" /\ job'[d].mode = k.mode /\ job'[d].own = own
      /\ job'[d].name = k.name /\ job'[d].pushed = k.pushed /\ job'[d].made = k.made
      /\ Tree(d)' = t
      /\ own => job'[d].tree = t /\ clone' = clone
      /\ ~own => clone' = t
      /\ \A e \in Deliveries \ {d} : job'[e] = job[e]
  BY <1>1, <1>5, <1>6, <1>7, <1>8, SetTreeIs
<1>10. Changes(clone') \subseteq Changes(clone) /\ (clone'.head = Nowhere => clone' = NoClone)
  BY <1>1, <1>7, <1>9 DEF CloneInv
<1>11. ASSUME NEW e \in Deliveries \ {d}
       PROVE  /\ Tree(e)' = Tree(e) \/ (Tree(e)' = t /\ Tree(e) = clone /\ ~own)
              /\ Changes(Tree(e)') \subseteq Changes(Tree(e))
              /\ \A c \in Commits : Tree(e).names[c] # Nowhere => Tree(e)'.names[c] = Tree(e).names[c]
  <2>1. Tree(e)' = Tree(e) \/ (Tree(e)' = t /\ Tree(e) = clone /\ ~own)
    <3>1. CASE job[e].own \/ own
      BY <1>9, <3>1 DEF Tree
    <3>2. CASE ~job[e].own /\ ~own
      BY <1>9, <3>2 DEF Tree
    <3>. QED  BY <3>1, <3>2
  <2>2. CASE Tree(e)' = Tree(e)
    BY <2>2
  <2>3. CASE Tree(e)' = t /\ Tree(e) = clone /\ ~own
    BY <1>7, <2>3
  <2>. QED  BY <2>1, <2>2, <2>3
<1>12. WebhookTypeOK'
  BY <1>1, <1>9 DEF WebhookTypeOK
<1>13. CloneInv'
  <2>1. ASSUME NEW e \in Deliveries, job'[e].at \in Working PROVE Tree(e)'.head # Nowhere
    BY <1>1, <1>7, <1>9, <1>11, <2>1 DEF CloneInv
  <2>2. ASSUME NEW e \in Deliveries, ~job'[e].own PROVE job'[e].at \notin {"none", "clone"}
    BY <1>1, <1>9, <2>2 DEF CloneInv
  <2>3. ASSUME NEW e \in Deliveries, job'[e].own
        PROVE  Changes(job'[e].tree) \subseteq {e} /\ e \notin Changes(clone')
    BY <1>1, <1>2, <1>7, <1>9, <1>10, <2>3 DEF CloneInv
  <2>4. ASSUME NEW e \in Deliveries, job'[e].at \in Unbegun PROVE e \notin Changes(Tree(e)')
    BY <1>1, <1>2, <1>7, <1>9, <1>11, <2>4 DEF CloneInv
  <2>. QED  BY <1>10, <2>1, <2>2, <2>3, <2>4 DEF CloneInv
<1>14. BranchInv'
  <2>1. SUFFICES ASSUME NEW c \in Commits, branches[c] # Nowhere, NEW e \in branches[c].with
                 PROVE  /\ job'[e].at \notin Unbegun
                        /\ e \in Changes(Tree(e)') => branches[c] = Tree(e)'.names[c]
    BY <1>1 DEF BranchInv
  <2>2. /\ e \in Deliveries /\ job[e].at \notin Unbegun
        /\ e \in Changes(Tree(e)) => branches[c] = Tree(e).names[c]
    BY <1>1, <2>1, CommitIs DEF WebhookTypeOK, BranchInv
  <2>3. e # d
    BY <1>1, <2>2 DEF Unbegun
  <2>. QED  BY <1>9, <1>11, <2>1, <2>2, <2>3
<1>15. \A e \in Deliveries \ {d} : OwnChange(e)' /\ Dispatched(e)'
  BY <1>1, <1>9, <1>11, OthersKeep
<1>16. OwnChange(d)'
  BY <1>1, <1>6, <1>7, <1>9 DEF OwnChange, Dispatched
<1>17. Dispatched(d)'
  BY <1>1, <1>6, <1>9 DEF Dispatched
<1>. QED  BY <1>12, <1>13, <1>14, <1>15, <1>16, <1>17 DEF WebhookInv

\* A process that dies ends its jobs; clones and branches stay.
LEMMA DieStep == WebhookInv /\ ProcessDies => WebhookInv'
<1>. SUFFICES ASSUME WebhookInv, ProcessDies PROVE WebhookInv'  OBVIOUS
<1>1. /\ WebhookTypeOK /\ BranchInv /\ CloneInv /\ UNCHANGED <<main, clone, branches, pulls, comments>>
      /\ \A e \in Deliveries : OwnChange(e) /\ Dispatched(e) /\ job[e] \in Jobs
  BY DEF WebhookInv, WebhookTypeOK, ProcessDies
<1>2. NoJob \in Jobs /\ NoJob.at = "none" /\ NoJob.own /\ NoJob.tree = NoClone /\ NoJob.made = Nowhere /\ ~NoJob.pushed
  BY NoCloneIs DEF NoJob, Jobs, JobPlaces
<1>3. ASSUME NEW e \in Deliveries, job[e].at # "none"
      PROVE  /\ job'[e] \in Jobs /\ job'[e].at = "over" /\ job'[e].mode = job[e].mode
             /\ job'[e].own = job[e].own /\ job'[e].tree = job[e].tree /\ job'[e].name = job[e].name
             /\ job'[e].pushed = job[e].pushed /\ job'[e].made = job[e].made
  <2>1. job'[e] = [job[e] EXCEPT !.at = "over"]
    BY <1>3 DEF ProcessDies
  <2>2. "over" \in JobPlaces
    BY DEF JobPlaces
  <2>. QED  BY <1>1, <2>1, <2>2 DEF Jobs
<1>4. ASSUME NEW e \in Deliveries, job[e].at = "none" PROVE job'[e] = NoJob
  BY <1>4 DEF ProcessDies
<1>5. job' \in [Deliveries -> Jobs]
  <2>1. job' = [e \in Deliveries |-> job'[e]]
    BY DEF ProcessDies
  <2>2. \A e \in Deliveries : job'[e] \in Jobs
    BY <1>2, <1>3, <1>4
  <2>. QED  BY <2>1, <2>2
<1>6. WebhookTypeOK'
  BY <1>1, <1>5 DEF WebhookTypeOK
<1>7. \A e \in Deliveries : job[e].at # "none" => Tree(e)' = Tree(e)
  BY <1>1, <1>3 DEF Tree
<1>8. \A e \in Deliveries : job[e].at = "none" => Tree(e)' = NoClone
  BY <1>2, <1>4 DEF Tree
<1>9. CloneInv'
  <2>1. ASSUME NEW e \in Deliveries, job[e].at # "none"
        PROVE  /\ job'[e].at \notin Working \cup Unbegun
               /\ job'[e].own => Changes(job'[e].tree) \subseteq {e} /\ e \notin Changes(clone)
    BY <1>1, <1>3, <2>1 DEF CloneInv, Working, Unbegun
  <2>2. ASSUME NEW e \in Deliveries, job[e].at = "none"
        PROVE  /\ job'[e].at = "none" /\ job'[e].own /\ Changes(job'[e].tree) = {} /\ Changes(Tree(e)') = {}
               /\ e \notin Changes(clone)
    BY <1>1, <1>2, <1>4, <1>8, <2>2, NoCloneIs DEF CloneInv
  <2>. QED  BY <1>1, <2>1, <2>2 DEF CloneInv, Working, Unbegun
<1>10. BranchInv'
  <2>1. SUFFICES ASSUME NEW c \in Commits, branches[c] # Nowhere, NEW e \in branches[c].with
                 PROVE  /\ job'[e].at \notin Unbegun
                        /\ e \in Changes(Tree(e)') => branches[c] = Tree(e)'.names[c]
    BY <1>1 DEF BranchInv
  <2>2. /\ e \in Deliveries /\ job[e].at \notin Unbegun
        /\ e \in Changes(Tree(e)) => branches[c] = Tree(e).names[c]
    BY <1>1, <2>1, CommitIs DEF WebhookTypeOK, BranchInv
  <2>. QED  BY <1>3, <1>7, <2>2 DEF Unbegun
<1>11. ASSUME NEW e \in Deliveries PROVE OwnChange(e)' /\ Dispatched(e)'
  <2>1. CASE job[e].at = "none"
    BY <1>1, <1>2, <1>4, <2>1 DEF OwnChange, Dispatched
  <2>2. CASE job[e].at # "none"
    <3>1. OwnChange(e)'
      BY <1>1, <1>3, <2>2 DEF OwnChange
    <3>2. Dispatched(e)'
      BY <1>1, <1>3, <2>2 DEF Dispatched
    <3>. QED  BY <3>1, <3>2
  <2>. QED  BY <2>1, <2>2
<1>. QED  BY <1>6, <1>9, <1>10, <1>11 DEF WebhookInv

\* main moves on at the origin.
LEMMA MainMovesStep == WebhookInv /\ MainMoves => WebhookInv'
<1>. SUFFICES ASSUME WebhookInv, MainMoves PROVE WebhookInv'  OBVIOUS
<1>1. /\ main' \in 0..MaxMerges /\ UNCHANGED <<clone, job, branches, pulls, comments>>
  BY WebhookAssumption DEF MainMoves, WebhookInv, WebhookTypeOK
<1>2. WebhookTypeOK' /\ CloneInv' /\ BranchInv'
  BY <1>1 DEF WebhookInv, WebhookTypeOK, CloneInv, BranchInv, Tree
<1>3. ASSUME NEW d \in Deliveries PROVE OwnChange(d)' /\ Dispatched(d)'
  BY <1>1 DEF WebhookInv, OwnChange, Dispatched, Tree
<1>. QED  BY <1>2, <1>3 DEF WebhookInv

\* A clone that nobody works in is dropped.
LEMMA EvictStep == WebhookInv /\ CloneEvicted => WebhookInv'
<1>. SUFFICES ASSUME WebhookInv, CloneEvicted PROVE WebhookInv'  OBVIOUS
<1>1. /\ WebhookTypeOK /\ BranchInv /\ CloneInv /\ UNCHANGED <<main, job, branches, pulls, comments>>
      /\ clone' = NoClone
      /\ \A e \in Deliveries : /\ OwnChange(e) /\ Dispatched(e)
                               /\ job[e].at \in {"none", "clone", "failed", "solved", "over"}
  BY DEF WebhookInv, CloneEvicted
<1>2. \A e \in Deliveries : Tree(e)' = IF job[e].own THEN Tree(e) ELSE NoClone
  BY <1>1 DEF Tree
<1>3. WebhookTypeOK'
  BY <1>1, NoCloneIs DEF WebhookTypeOK
<1>4. CloneInv'
  BY <1>1, <1>2, NoCloneIs DEF CloneInv, Working, Unbegun
<1>5. BranchInv'
  <2>1. \A c \in Commits : branches[c] # Nowhere => branches[c].with \subseteq Deliveries
    BY <1>1, CommitIs DEF WebhookTypeOK
  <2>2. \A e \in Deliveries : e \in Changes(Tree(e)') => Tree(e)' = Tree(e)
    BY <1>2, NoCloneIs
  <2>. QED  BY <1>1, <2>1, <2>2 DEF BranchInv
<1>6. \A e \in Deliveries : OwnChange(e)' /\ Dispatched(e)'
  BY <1>1, OthersKeep
<1>. QED  BY <1>3, <1>4, <1>5, <1>6 DEF WebhookInv

\* The webhook and its jobs keep to the invariant: who has changes in which clone,
\* and which branches of the origin come from it.
\* (webhook_github.go:81-373, swe_solve.go:249-561)
THEOREM WebhooksKeepInv == WebhookSpec => []WebhookInv
<1>1. WebhookInit => WebhookInv
  BY WebhookInitInv
<1>2. WebhookInv /\ [WebhookNext]_webhookVars => WebhookInv'
  <2>1. WebhookInv /\ WebhookNext => WebhookInv'
    BY DispatchStep, AcquireStep, SolveStep, CollectStep, NameBranchStep, CommitStep, PushStep,
       RefusedStep, OpenPullStep, FailsStep, CommentStep, DieStep, MainMovesStep, EvictStep
       DEF WebhookNext
  <2>2. WebhookInv /\ UNCHANGED webhookVars => WebhookInv'
    <3>. SUFFICES ASSUME WebhookInv, UNCHANGED webhookVars PROVE WebhookInv'  OBVIOUS
    <3>1. UNCHANGED <<main, clone, job, branches, pulls, comments>>
      BY DEF webhookVars
    <3>2. WebhookTypeOK' /\ CloneInv' /\ BranchInv'
      BY <3>1 DEF WebhookInv, WebhookTypeOK, CloneInv, BranchInv, Tree
    <3>3. ASSUME NEW d \in Deliveries PROVE OwnChange(d)' /\ Dispatched(d)'
      BY <3>1 DEF WebhookInv, OwnChange, Dispatched, Tree
    <3>. QED  BY <3>2, <3>3 DEF WebhookInv
  <2>. QED  BY <2>1, <2>2
<1>. QED  BY <1>1, <1>2, PTL DEF WebhookSpec

\* What a job told of its branch stands, whatever the other jobs of its clone, of
\* the issue and of the origin do.  (swe_solve.go:370-561)
THEOREM ToldBranchesDoStand == WebhookSpec => []ToldBranchesStand
<1>1. WebhookInv => ToldBranchesStand
  <2>. SUFFICES ASSUME WebhookInv, NEW d \in Deliveries
                PROVE  /\ job[d].pushed =>
                            /\ branches[job[d].name] = job[d].made
                            /\ job[d].own => job[d].made = [base |-> job[d].name.base, with |-> {d}]
                       /\ comments[d] = "finished" /\ job[d].mode # "patch" =>
                            /\ job[d].pushed
                            /\ job[d].mode = "pull_request" => job[d].name \in pulls
    BY DEF ToldBranchesStand
  <2>. QED  BY DEF WebhookInv, OwnChange, Dispatched
<1>. QED  BY <1>1, WebhooksKeepInv, PTL
=============================================================================
