-------------------------- MODULE MCPackExecution --------------------------
(* The engine with the packs this repository ships.  Half of the behaviours *)
(* are one call of any of them; in the others calls of a few packs meet.    *)
EXTENDS PackExecutionInv, PackCatalogue

\* Packs whose calls meet: one that is cached, one that stores an artifact,
\* one that keeps its session, for others to name.  Facts their callers store
\* come in between.
Meeting == {"github.get_issue", "artifact.put", "repo.fetch"}
MetKeys == (Meeting \X Inputs) \cup {HandlersKey}

VARIABLE offered   \* the packs the callers call

MCInit == Init /\ offered \in {Packs, Meeting}

\* A step of Next, by a caller of what is offered.
MCNext ==
  /\ UNCHANGED offered
  /\ \/ \E c \in Calls, p \in offered, i \in Inputs, pin \in 0..made :
          (offered = Packs => begun = 0) /\ Begin(c, p, i, pin)
     \/ \E c \in Calls : Execute(c) \/ EndContext(c)
     \/ \E c \in Calls, key \in Keys \cap MetKeys : offered = Meeting /\ StoreFact(c, key)
     \/ \E s \in live : SessionEnds(s)
     \/ \E x \in kept : EntryExpires(x)

MCSpec == MCInit /\ [][MCNext]_<<vars, offered>>

\* Each slot has a caller of its own, and which is which does not matter.
CallerOf == [c \in Calls |-> c]
Interchangeable == Permutations(Calls) \cup Permutations(Inputs)

\* Packs that may refuse an input after an effect: a picture is paid for, a
\* branch pushed, a page used or a command run before the last of the input
\* is checked; a model is asked, and what it made of the input is refused as
\* the input's fault, or a second model turns out to be unknown.
Late == {"browser.interact", "web.test", "swe.solve", "blog.publish",
         "slides.render", "slides.narrate", "podcast.generate", "cmd.run",
         "slides.outline", "hyperframes.compose", "hyperframes.interpolate",
         "helmdeck.route", "helmdeck.plan"}
\* Packs that may fail to store an artifact, or see their context end, after
\* a program of the caller's or the agent's has run.
LateToStore == {"desktop.run_app_and_screenshot", "swe.solve"}
=============================================================================
