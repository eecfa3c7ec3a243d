------------------------------ MODULE Dialogue ------------------------------
(***************************************************************************)
(* What a connection to the MCP server is for its peer (the comments on    *)
(* PackServer.Serve and mcp_sse.go): one line at a time is taken, reported *)
(* on and answered, and when the connection is cut the peer keeps what it  *)
(* got until then.  Nothing is said here of pipes, channels, loops or      *)
(* sockets; McpTransport implements this module.                           *)
(***************************************************************************)
EXTENDS Naturals, Sequences, FiniteSets

CONSTANT Lines

VARIABLES
  asked,  \* the lines that want an answer, as they are taken
  said,   \* what the peer hears
  cut     \* the connection is no more

vars == <<asked, said, cut>>

Init == asked = <<>> /\ said = <<>> /\ cut = FALSE

\* The line taken last has no answer yet.
Pending == Cardinality({i \in 1..Len(said) : said[i].kind = "answer"}) < Len(asked)
Say(kind) == said' = Append(said, [of |-> asked[Len(asked)], kind |-> kind])

\* A line is taken once, and only when there is none to answer - or no one.
Take(a) ==
  /\ cut \/ ~Pending
  /\ \A i \in DOMAIN asked : asked[i] # a
  /\ asked' = Append(asked, a)
  /\ UNCHANGED <<said, cut>>

Report == ~cut /\ Pending /\ Say("progress") /\ UNCHANGED <<asked, cut>>
Answer == ~cut /\ Pending /\ Say("answer") /\ UNCHANGED <<asked, cut>>

Cut ==
  /\ ~cut /\ cut' = TRUE
  /\ \E n \in 0..Len(said) : said' = SubSeq(said, 1, n)
  /\ UNCHANGED asked

Next == (\E a \in Lines : Take(a)) \/ Report \/ Answer \/ Cut

Spec == Init /\ [][Next]_vars
=============================================================================
