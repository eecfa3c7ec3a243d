-------------------------- MODULE McpTransportInv --------------------------
(***************************************************************************)
(* The inductive invariant of McpTransport.                                *)
(***************************************************************************)
EXTENDS McpTransport

Frames == [of : Asks, kind : {"progress", "answer"}]
TransportTypeOK ==
  /\ wire \in {"sse", "socket"} /\ peer \in {"new", "here", "gone", "closed"}
  /\ line \in [Asks -> [kind : Kinds, at : {"unsent", "waits", "taken", "refused"}]]
  /\ server \in [at : {"none", "scan", "work", "report", "write", "over"},
                 of : Asks \cup {Scanning.of}, left : Nat]
  /\ server.at = "report" => server.left > 0
  /\ out \in Seq(Frames) /\ heard \in Seq(Frames) /\ taken \in Seq(Asks)

\* A line is taken once; the last one taken is the one Serve is busy with.
TakenInv ==
  /\ \A i \in DOMAIN taken : line[taken[i]].at = "taken"
  /\ \A i, j \in DOMAIN taken : taken[i] = taken[j] => i = j
  /\ Busy => taken # <<>> /\ server.of = taken[Len(taken)]

\* Nothing is on its way before the connection is there, nor in the channel
\* when there is a socket.
QuietInv ==
  /\ peer = "new" => server.at = "none" /\ taken = <<>> /\ heard = <<>> /\ out = <<>>
  /\ wire = "socket" => out = <<>>

\* A call that Serve is no longer busy with has its answer after all its frames.
AllAnswered(frames) ==
  \A i \in DOMAIN frames :
    (Busy => frames[i].of # server.of) => \E n \in i..Len(frames) : frames[n] = AnswerTo(frames[i].of)
StreamInv ==
  /\ InOrder(Stream, taken)
  /\ peer = "here" => /\ Len(taken) = Answered(Stream, Len(Stream)) + (IF Busy THEN 1 ELSE 0)
                      /\ AllAnswered(Stream)

TransportInv == TransportTypeOK /\ TakenInv /\ QuietInv /\ StreamInv
=============================================================================
