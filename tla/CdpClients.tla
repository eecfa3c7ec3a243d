----------------------------- MODULE CdpClients -----------------------------
(****************************************************************************)
(* The cache of browser connections (internal/api/browser.go): one chromedp *)
(* client per session, dialled by the first request that needs it, shared   *)
(* by the later ones and closed by Evict.  REST requests, packs and the     *)
(* DELETE handler meet at the cache; the watchdog and CancelRun end a       *)
(* session without telling it.                                              *)
(*                                                                          *)
(* f.mu is held for one action at a time, never while the factory asks the  *)
(* runtime, waits for Chromium, dials or closes.                            *)
(****************************************************************************)
EXTENDS Naturals, FiniteSets

CONSTANTS
  Visits,    \* browser requests, pack calls and DELETEs
  Browsers,  \* sessions; an id is never used twice
  MaxDials   \* bound: clients dialled, numbered from 1; 0 is no client

ASSUME CdpAssumption == MaxDials \in Nat

VARIABLES
  up,      \* the sessions whose container runs and whose table entry is there
  cached,  \* f.cache: the client of each session, 0 when there is none
  open,    \* the clients dialled and not closed
  dialled, \* how many were dialled
  visit    \* where each visit is

cdpVars == <<up, cached, open, dialled, visit>>

-----------------------------------------------------------------------------
\* owns: the visit ends its session, as DELETE and a pack's defer do.
AtDoor == [at |-> "door", browser |-> CHOOSE b \in Browsers : TRUE,
           client |-> 0, owns |-> FALSE]

CdpInit ==
  /\ up = Browsers
  /\ cached = [b \in Browsers |-> 0]
  /\ open = {} /\ dialled = 0
  /\ visit = [v \in Visits |-> AtDoor]

Go(v, k) == visit' = [visit EXCEPT ![v] = k]
GoTo(v, place) == Go(v, [visit[v] EXCEPT !.at = place])
\* A request is answered; a pack runs its defer first.
AfterUse(v) == IF visit[v].owns THEN "evict" ELSE "left"

\* A request without session id, with bad JSON or without url or script is
\* answered 400; the others look into the cache first.
Visit(v, b, owns) ==
  /\ visit[v].at = "door"
  /\ \/ /\ cached[b] # 0
        /\ Go(v, [at |-> "use", browser |-> b, client |-> cached[b], owns |-> owns])
     \/ /\ cached[b] = 0
        /\ Go(v, [at |-> "find", browser |-> b, client |-> 0, owns |-> owns])
     \/ /\ ~owns
        /\ Go(v, [AtDoor EXCEPT !.at = "left", !.browser = b])
  /\ UNCHANGED <<up, cached, open, dialled>>

\* rt.Get, the CDP endpoint and the wait for /json/version, of 30 seconds at
\* most: a request gives up with 404 or 502.
Find(v) ==
  /\ visit[v].at = "find"
  /\ \/ visit[v].browser \in up /\ GoTo(v, "dial")
     \/ GoTo(v, AfterUse(v))
  /\ UNCHANGED <<up, cached, open, dialled>>

\* cdp.New, on a context of its own; the handshake fails when Chromium is gone.
DialFails(v) ==
  /\ visit[v].at = "dial"
  /\ GoTo(v, AfterUse(v))
  /\ UNCHANGED <<up, cached, open, dialled>>

Dial(v) ==
  /\ visit[v].at = "dial" /\ visit[v].browser \in up /\ dialled < MaxDials
  /\ dialled' = dialled + 1
  /\ open' = open \cup {dialled'}
  /\ Go(v, [visit[v] EXCEPT !.at = "insert", !.client = dialled'])
  /\ UNCHANGED <<up, cached>>

\* A factory without the second look.
InsertUnchecked(v) ==
  /\ visit[v].at = "insert"
  /\ cached' = [cached EXCEPT ![visit[v].browser] = visit[v].client]
  /\ GoTo(v, "use")
  /\ UNCHANGED <<up, open, dialled>>

\* The second look: whoever was slower closes the client it dialled.
Insert(v) ==
  LET b == visit[v].browser IN
  /\ visit[v].at = "insert"
  /\ IF cached[b] # 0
       THEN /\ open' = open \ {visit[v].client}
            /\ Go(v, [visit[v] EXCEPT !.at = "use", !.client = cached[b]])
            /\ UNCHANGED cached
       ELSE /\ cached' = [cached EXCEPT ![b] = visit[v].client]
            /\ GoTo(v, "use")
            /\ UNCHANGED open
  /\ UNCHANGED <<up, dialled>>

\* The operations run on the client's context, not on the request's: they
\* return when the page answers ...
Answer(v) ==
  /\ visit[v].at = "use"
  /\ GoTo(v, AfterUse(v))
  /\ UNCHANGED <<up, cached, open, dialled>>

\* ... and for a page that never settles, or a login form without one of the
\* credential's fields, only when the connection goes.
Stick(v) ==
  /\ visit[v].at = "use" /\ visit[v].client \in open /\ visit[v].browser \in up
  /\ GoTo(v, "stuck")
  /\ UNCHANGED <<up, cached, open, dialled>>

Freed(v) ==
  /\ visit[v].at = "stuck"
  /\ visit[v].client \notin open \/ visit[v].browser \notin up
  /\ GoTo(v, AfterUse(v))
  /\ UNCHANGED <<up, cached, open, dialled>>

-----------------------------------------------------------------------------
\* DELETE goes straight to Evict; a pack comes here from its handler.
DeleteSession(v, b) ==
  /\ visit[v].at = "door"
  /\ Go(v, [at |-> "evict", browser |-> b, client |-> 0, owns |-> TRUE])
  /\ UNCHANGED <<up, cached, open, dialled>>

\* Evict takes the client out under the lock and closes it outside.
Evict(v) ==
  LET b == visit[v].browser IN
  /\ visit[v].at = "evict"
  /\ cached' = [cached EXCEPT ![b] = 0]
  /\ Go(v, [visit[v] EXCEPT !.at = "close", !.client = cached[b]])
  /\ UNCHANGED <<up, open, dialled>>

Close(v) ==
  /\ visit[v].at = "close"
  /\ open' = open \ {visit[v].client}
  /\ GoTo(v, "end")
  /\ UNCHANGED <<up, cached, dialled>>

\* Terminate; that docker may refuse is the business of Sessions.
EndBrowser(v) ==
  /\ visit[v].at = "end"
  /\ up' = up \ {visit[v].browser}
  /\ GoTo(v, "left")
  /\ UNCHANGED <<cached, open, dialled>>

\* The watchdog, a cancelled run: Terminate without Evict.
Expire(b) ==
  /\ b \in up
  /\ up' = up \ {b}
  /\ UNCHANGED <<cached, open, dialled, visit>>

CdpNext ==
  \/ \E v \in Visits : \/ \E b \in Browsers, owns \in BOOLEAN : Visit(v, b, owns)
                       \/ \E b \in Browsers : DeleteSession(v, b)
                       \/ Find(v) \/ DialFails(v) \/ Dial(v) \/ Insert(v)
                       \/ Answer(v) \/ Stick(v) \/ Freed(v)
                       \/ Evict(v) \/ Close(v) \/ EndBrowser(v)
  \/ \E b \in Browsers : Expire(b)

CdpSpec == CdpInit /\ [][CdpNext]_cdpVars

-----------------------------------------------------------------------------
\* No client is lost: an open client is the cached one of its session, or the
\* one a request has just dialled, or the one an Evict is about to close; and
\* the cache never holds a closed one.  (browser.go:92-118)
HeldBy(c) == {b \in Browsers : cached[b] = c}
CarriedBy(c) == {v \in Visits : visit[v].at \in {"insert", "close"} /\ visit[v].client = c}
NoClientIsLost ==
  /\ \A c \in open : Cardinality(HeldBy(c)) + Cardinality(CarriedBy(c)) = 1
  /\ \A b \in Browsers : cached[b] # 0 => cached[b] \in open

\* The comments at browser.go:33-42 promise more, and TLC refutes it: once all
\* visits are over, a session that has ended has no client.  It has one when
\* the watchdog ended it, and when a request inserted behind Evict.
EndedBrowsersHaveNone ==
  (\A v \in Visits : visit[v].at \in {"door", "left"})
    => \A b \in Browsers \ up : cached[b] = 0
=============================================================================
