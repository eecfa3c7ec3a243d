---------------------------- MODULE McpTransport ----------------------------
(***************************************************************************)
(* One MCP connection, from the peer to PackServer.Serve and back          *)
(* (internal/mcp/server.go, internal/api/mcp_sse.go and mcp_server.go):    *)
(* either POSTs beside an SSE stream, whose GET loop drains a bounded      *)
(* channel, or a WebSocket whose peer is the stdio bridge                  *)
(* (internal/bridge).  Serve takes one line at a time from a pipe and      *)
(* writes progress and answers; the peer may leave at any moment.          *)
(***************************************************************************)
EXTENDS Naturals, Sequences, FiniteSets

CONSTANTS
  Asks,        \* the lines sent
  Room,        \* how many frames the channel of a stream holds
  MaxProgress  \* bound: progress frames of one call

ASSUME McpTransportAssumption == Room \in Nat \ {0} /\ MaxProgress \in Nat

VARIABLES
  wire,    \* "sse" or "socket"
  peer,    \* "new", "here", "gone" of its own, or "closed" by the server
  bridge,  \* the bridge process: "none", "runs", "cut" off, "over"
  pump,    \* the GET loop, or the reader of the socket
  listed,  \* the stream can be posted to
  shut,    \* the write end of the pipe is closed
  dead,    \* the context is done
  line,    \* what each line is and where
  sent,    \* the lines in the socket, in order
  server,  \* where Serve is
  out,     \* the channel
  heard,   \* the frames the peer got
  taken    \* history: lines that want an answer, in the order Serve took them

transportVars == <<wire, peer, bridge, pump, listed, shut, dead, line, sent, server, out,
                   heard, taken>>

-----------------------------------------------------------------------------
\* A pack call; a line answered at once, be it with an error; a notification; a
\* line longer than the scanner's buffer.
Kinds == {"call", "quick", "note", "long"}
Wanting == {"call", "quick"}
Scanning == [at |-> "scan", of |-> CHOOSE a \in Asks : TRUE, left |-> 0]

TransportInit ==
  /\ wire \in {"sse", "socket"} /\ peer = "new" /\ bridge = "none" /\ pump = "none"
  /\ listed = FALSE /\ shut = FALSE /\ dead = FALSE
  /\ line = [a \in Asks |-> [kind |-> "note", at |-> "unsent"]]
  /\ sent = <<>> /\ server = [Scanning EXCEPT !.at = "none"]
  /\ out = <<>> /\ heard = <<>> /\ taken = <<>>

To(place) == server' = [server EXCEPT !.at = place]
Settle(a, place) == line' = [line EXCEPT ![a].at = place]

-----------------------------------------------------------------------------
(* Opening and sending *)

\* GET: the session is listed before the goroutine of Serve starts.
OpenStream ==
  /\ wire = "sse" /\ peer = "new"
  /\ peer' = "here" /\ pump' = "runs" /\ listed' = TRUE /\ server' = Scanning
  /\ UNCHANGED <<wire, bridge, shut, dead, line, sent, out, heard, taken>>

\* The bridge dials, runWSSession starts its reader and Serve.
OpenSocket ==
  /\ wire = "socket" /\ peer = "new"
  /\ peer' = "here" /\ bridge' = "runs" /\ pump' = "runs" /\ server' = Scanning
  /\ UNCHANGED <<wire, listed, shut, dead, line, sent, out, heard, taken>>

\* POST: waits in the pipe until Serve reads it, whoever else waits.
PostLine(a, kind) ==
  /\ wire = "sse" /\ peer # "new" /\ line[a].at = "unsent"
  /\ line' = [line EXCEPT ![a] = [kind |-> kind, at |-> IF listed THEN "waits" ELSE "refused"]]
  /\ UNCHANGED <<wire, peer, bridge, pump, listed, shut, dead, sent, server, out, heard, taken>>

\* A line of the bridge's stdin.
SendLine(a, kind) ==
  /\ bridge = "runs" /\ peer = "here" /\ line[a].at = "unsent"
  /\ line' = [line EXCEPT ![a] = [kind |-> kind, at |-> "waits"]]
  /\ sent' = Append(sent, a)
  /\ UNCHANGED <<wire, peer, bridge, pump, listed, shut, dead, server, out, heard, taken>>

-----------------------------------------------------------------------------
(* PackServer.Serve *)

\* A line is read; the context is looked at afterwards.
Take(a) ==
  LET kind == line[a].kind IN
  /\ server.at = "scan" /\ ~shut /\ line[a].at = "waits"
  /\ wire = "socket" => sent # <<>> /\ Head(sent) = a
  /\ sent' = IF wire = "socket" THEN Tail(sent) ELSE sent
  /\ IF kind = "long" THEN UNCHANGED line ELSE Settle(a, "taken")
  /\ \/ (dead \/ kind = "long") /\ To("over") /\ UNCHANGED taken
     \/ ~dead /\ kind = "note" /\ UNCHANGED <<server, taken>>
     \/ /\ ~dead /\ kind \in Wanting
        /\ server' = [at |-> IF kind = "call" THEN "work" ELSE "write", of |-> a,
                      left |-> MaxProgress]
        /\ taken' = Append(taken, a)
  /\ UNCHANGED <<wire, peer, bridge, pump, listed, shut, dead, out, heard>>

EndOfInput ==
  /\ server.at = "scan" /\ shut /\ To("over")
  /\ UNCHANGED <<wire, peer, bridge, pump, listed, shut, dead, line, sent, out, heard, taken>>

\* chanWriter.Write waits for room, whether or not anyone reads; a write to a
\* socket whose peer has gone fails, or the frame is lost.
CanWrite == wire = "socket" \/ Len(out) < Room
ToChannel(frame) == out' = Append(out, frame) /\ UNCHANGED heard
ToSocket(frame) ==
  heard' = (IF peer = "here" THEN Append(heard, frame) ELSE heard) /\ UNCHANGED out
Write(frame) == CanWrite /\ IF wire = "sse" THEN ToChannel(frame) ELSE ToSocket(frame)

\* The pack reports: its goroutine is in the callback until the frame is written.
StartReport ==
  /\ server.at = "work" /\ server.left > 0 /\ To("report")
  /\ UNCHANGED <<wire, peer, bridge, pump, listed, shut, dead, line, sent, out, heard, taken>>
\* Mutant: a report may come when its call has been answered.
ReportLate ==
  /\ server.at \in {"report", "scan"} /\ server.left > 0
  /\ Write([of |-> server.of, kind |-> "progress"])
  /\ server' = [server EXCEPT !.at = IF @ = "report" THEN "work" ELSE @, !.left = @ - 1]
  /\ UNCHANGED <<wire, peer, bridge, pump, listed, shut, dead, line, sent, taken>>
Report ==
  /\ server.at = "report"
  /\ Write([of |-> server.of, kind |-> "progress"])
  /\ server' = [server EXCEPT !.at = "work", !.left = @ - 1]
  /\ UNCHANGED <<wire, peer, bridge, pump, listed, shut, dead, line, sent, taken>>
PackReturns ==
  /\ server.at = "work" /\ To("write")
  /\ UNCHANGED <<wire, peer, bridge, pump, listed, shut, dead, line, sent, out, heard, taken>>

\* Mutant: an answer that finds no room is dropped.
AnswerIfRoom ==
  /\ server.at = "write"
  /\ \/ Write([of |-> server.of, kind |-> "answer"]) /\ To("scan")
     \/ ~CanWrite /\ To("scan") /\ UNCHANGED <<out, heard>>
     \/ wire = "socket" /\ peer # "here" /\ To("over") /\ UNCHANGED <<out, heard>>
  /\ UNCHANGED <<wire, peer, bridge, pump, listed, shut, dead, line, sent, taken>>

\* Serve looks at the error of this write, but not when it is of a line that does
\* not parse.
Answer ==
  /\ server.at = "write"
  /\ \/ Write([of |-> server.of, kind |-> "answer"]) /\ To("scan")
     \/ /\ wire = "socket" /\ peer # "here" /\ UNCHANGED <<out, heard>>
        /\ To("over") \/ (line[server.of].kind = "quick" /\ To("scan"))
  /\ UNCHANGED <<wire, peer, bridge, pump, listed, shut, dead, line, sent, taken>>

-----------------------------------------------------------------------------
(* The stream: the GET handler's loop and its deferred calls *)

\* Bytes to a peer that has left vanish or end the loop.
Deliver ==
  /\ wire = "sse" /\ pump = "runs" /\ out # <<>> /\ out' = Tail(out)
  /\ \/ peer = "here" /\ heard' = Append(heard, Head(out)) /\ UNCHANGED pump
     \/ peer # "here" /\ pump' \in {"runs", "closing"} /\ UNCHANGED heard
  /\ UNCHANGED <<wire, peer, bridge, listed, shut, dead, line, sent, server, taken>>

\* net/http cancels the request's context.
NoticeGone ==
  /\ wire = "sse" /\ pump = "runs" /\ peer = "gone" /\ ~dead /\ dead' = TRUE
  /\ UNCHANGED <<wire, peer, bridge, pump, listed, shut, line, sent, server, out, heard, taken>>

\* Mutant: the end of Serve ends the loop whatever the channel still holds.
LoopEndsAtOnce ==
  /\ wire = "sse" /\ pump = "runs" /\ pump' = "closing"
  /\ dead \/ server.at = "over"
  /\ UNCHANGED <<wire, peer, bridge, listed, shut, dead, line, sent, server, out, heard, taken>>

\* The context is done, a keepalive cannot be written, or Serve has closed the
\* channel and it is empty.
LoopEnds ==
  /\ wire = "sse" /\ pump = "runs" /\ pump' = "closing"
  /\ dead \/ peer = "gone" \/ (server.at = "over" /\ out = <<>>)
  /\ UNCHANGED <<wire, peer, bridge, listed, shut, dead, line, sent, server, out, heard, taken>>

\* Mutant: the pipe stays open.
ClosePipeNever ==
  /\ pump = "closing" /\ pump' = "dropping"
  /\ UNCHANGED <<wire, peer, bridge, listed, shut, dead, line, sent, server, out, heard, taken>>

ClosePipe ==
  /\ pump = "closing" /\ pump' = "dropping" /\ shut' = TRUE
  /\ UNCHANGED <<wire, peer, bridge, listed, dead, line, sent, server, out, heard, taken>>

DropSession ==
  /\ pump = "dropping" /\ pump' = "over" /\ listed' = FALSE /\ dead' = TRUE
  /\ peer' = IF peer = "here" THEN "closed" ELSE peer
  /\ UNCHANGED <<wire, bridge, shut, line, sent, server, out, heard, taken>>

\* A POST that waits when the pipe is closed.
RefusePost(a) ==
  /\ wire = "sse" /\ shut /\ line[a].at = "waits" /\ Settle(a, "refused")
  /\ UNCHANGED <<wire, peer, bridge, pump, listed, shut, dead, sent, server, out, heard, taken>>

PeerLeaves ==
  /\ wire = "sse" /\ peer = "here" /\ peer' = "gone"
  /\ UNCHANGED <<wire, bridge, pump, listed, shut, dead, line, sent, server, out, heard, taken>>

-----------------------------------------------------------------------------
(* The socket and the bridge *)

\* What is in the socket may be lost with it.  The context of a hijacked
\* request does not end with its connection.
Disconnect(place) ==
  /\ bridge = "runs" /\ peer = "here" /\ bridge' = place /\ peer' = "gone"
  /\ \E n \in 0..Len(sent) : sent' = SubSeq(sent, 1, n)
  /\ UNCHANGED <<wire, pump, listed, shut, dead, line, server, out, heard, taken>>

\* The end of stdin closes the connection, answers outstanding or not.
StdinEnds == Disconnect("over")
ConnectionBreaks == Disconnect("cut")

\* The reader learns of it once it is not waiting to hand a frame over.
ReaderEnds ==
  /\ wire = "socket" /\ pump = "runs" /\ peer # "here" /\ sent = <<>>
  /\ pump' = "over" /\ shut' = TRUE
  /\ UNCHANGED <<wire, peer, bridge, listed, dead, line, sent, server, out, heard, taken>>

\* Serve has returned, and the handler closes what there is.
HangUp ==
  /\ wire = "socket" /\ server.at = "over" /\ ~dead
  /\ dead' = TRUE /\ shut' = TRUE
  /\ IF peer = "here" THEN peer' = "closed" /\ bridge' = "cut" ELSE UNCHANGED <<peer, bridge>>
  /\ UNCHANGED <<wire, pump, listed, line, sent, server, out, heard, taken>>

\* A bridge that was cut off ends when its stdin gives a line, which is
\* swallowed, or ends.
NextLine ==
  /\ bridge = "cut" /\ bridge' = "over"
  /\ UNCHANGED <<wire, peer, pump, listed, shut, dead, line, sent, server, out, heard, taken>>

-----------------------------------------------------------------------------
ServeStep == (\E a \in Asks : Take(a)) \/ EndOfInput \/ Report \/ PackReturns \/ Answer
PumpStep == Deliver \/ LoopEnds \/ ClosePipe \/ DropSession \/ ReaderEnds \/ HangUp

TransportNext ==
  \/ OpenStream \/ OpenSocket \/ ServeStep \/ StartReport \/ PumpStep \/ NoticeGone
  \/ PeerLeaves \/ StdinEnds \/ ConnectionBreaks \/ NextLine
  \/ \E a \in Asks : RefusePost(a)
  \/ \E a \in Asks, kind \in Kinds : PostLine(a, kind) \/ SendLine(a, kind)

\* Serve and the loop run on, a pack ends and a peer reads; whether peers leave
\* and lines come is theirs.
TransportFairness ==
  /\ WF_transportVars(ServeStep) /\ WF_transportVars(PumpStep)
  /\ WF_transportVars(\E a \in Asks : RefusePost(a))

TransportSpec == TransportInit /\ [][TransportNext]_transportVars /\ TransportFairness

-----------------------------------------------------------------------------
(* Properties *)

AnswerTo(a) == [of |-> a, kind |-> "answer"]
\* How many of the first n frames are answers.
Answered(frames, n) == Cardinality({i \in 1..n : frames[i].kind = "answer"})
Busy == server.at \in {"work", "report", "write"}

\* The n-th answer is to the n-th of lines; the frames of a line come one after
\* the other, and its answer is the last of them.
InOrder(frames, lines) ==
  /\ \A i \in DOMAIN frames :
       frames[i].kind = "answer" => /\ Answered(frames, i) <= Len(lines)
                                    /\ frames[i].of = lines[Answered(frames, i)]
  /\ \A i, j \in DOMAIN frames :
       i < j => /\ frames[i].of # frames[j].of => \E n \in i..j-1 : frames[n] = AnswerTo(frames[i].of)
                /\ frames[i].kind = "answer" => frames[i].of # frames[j].of

\* Whatever waits at the pipe and however slowly the peer reads: it hears the
\* answers in the order in which Serve took the lines, each after the call's
\* progress and before the next call's, and while it is there none is missing.
\* (server.go:225-277, mcp_sse.go:164-204)
AnswersInOrder ==
  /\ InOrder(heard, taken)
  /\ peer = "here" =>
       /\ InOrder(heard \o out, taken)
       /\ Len(taken) = Answered(heard \o out, Len(heard \o out)) + (IF Busy THEN 1 ELSE 0)
       /\ Busy => server.of = taken[Len(taken)]

\* McpTransport implements Dialogue: what is in the channel is as good as heard
\* while the peer is there, and lost when it is not.
Stream == IF peer = "here" THEN heard \o out ELSE heard
Talk == INSTANCE Dialogue WITH
  Lines <- Asks, asked <- taken, said <- Stream, cut <- peer \in {"gone", "closed"}

\* Every step of a connection is one of Dialogue or none: no line is taken while
\* another one's answer is owed, no progress comes after the answer, and what a
\* peer misses is the end of the stream (server.go:247-277, mcp_sse.go:164-204).
ImplementsDialogue == Talk!Spec

\* A line that was taken is answered unless the peer leaves: also when the line
\* behind it ends the connection.
TakenIsAnswered ==
  \A a \in Asks :
    a \in {taken[i] : i \in DOMAIN taken} ~>
      peer = "gone" \/ \E i \in DOMAIN heard : heard[i] = AnswerTo(a)

\* Once its peer has gone Serve returns - or its goroutine, and with it the
\* pack, waits for ever at a full channel whose loop has ended.
Stuck == wire = "sse" /\ pump = "over" /\ server.at \in {"report", "write"} /\ Len(out) = Room
ServersEnd == peer \in {"gone", "closed"} ~> server.at = "over" \/ Stuck

\* "cancel() tears down PackServer when the SSE stream closes"
\* (mcp_sse.go:56-57).  TLC refutes it: not when it waits at a full channel.
EveryServerEnds == peer \in {"gone", "closed"} ~> server.at = "over"

\* "the first error wins and the other goroutine unblocks when we close the
\* connection" (bridge.go:130-132).  Refuted: the other one waits for stdin.
BridgesEnd == bridge = "cut" ~> bridge = "over"
=============================================================================
