---------------------------- MODULE PacksBrowser ----------------------------
(***************************************************************************)
(* Handlers of the packs that drive a browser or a desktop, or read a page *)
(* or a document (internal/packs/builtin, internal/vision).                *)
(***************************************************************************)
EXTENDS PackSteps

-----------------------------------------------------------------------------
(* vision.go: one turn takes a screenshot, asks the model, parses the      *)
(* answer and plays at most one action; the packs type its errors.         *)
Observe == <<Look({Failed}), Pay({Failed})>>
ParseAction == Check({Failed})
\* DispatchAction: "none" and "done" play nothing; the rest runs xdotool.
PlayAction == If(Act({Failed}, {Failed}))
\* The pause after an action ends with the context, and is no error.
VisionStep == Observe \o <<ParseAction, PlayAction>>

\* StepNative: the model answers with a tool call; parsing its fields may
\* refuse, and so may DispatchComputerUseAction before it runs anything.
ReadToolCall     == <<Check({Failed}), Check({Failed})>>
PlayComputerUse  == If(Act({Failed}, {Failed}))
VisionStepNative == Observe \o ReadToolCall \o <<PlayComputerUse>>

\* recordVisionStep keeps the screenshot, and only warns when it cannot.
RecordVisionStep == TryStore

\* The loop looks at its context before each turn and types its error.
VisionTurns(steps) ==
  Loop({<<Look({Failed})>> \o s \o <<RecordVisionStep>> : s \in steps})

VisionClickAnywhere ==
  Then(One(<<Check({Invalid, NoSession})>>),
       VisionTurns({VisionStep, VisionStepNative}))

VisionFillFormByLabel ==
  Then(One(<<Check({Invalid, NoSession})>>), VisionTurns({VisionStep}))

VisionExtractVisibleText ==
  One(<<Check({Invalid, NoSession})>> \o Observe \o <<ParseAction>>)

-----------------------------------------------------------------------------
(* screenshot_url.go, scrape_spa.go: CDP errors are returned untyped.      *)
ScreenshotURL ==
  One(<<Check({Invalid, NoSession}), Look({Raw}), Look({Raw}), Store>>)

ScrapeSPA ==
  One(<<Check({Invalid, NoSession}), Look({Raw}), If(Wait), Look({}),
        Check({Failed})>>)

\* browser_interact.go validates an action when it reaches it.
BrowserActions ==
  {<<Bad, Act({Failed}, {Failed})>>,          \* click, type, focus, execute
   <<Bad, Look({Failed})>>,                   \* screenshot, extract
   <<Bad, Look({Failed}), Check({Stale})>>,   \* assert_text
   <<Bad>>}                                   \* wait, which nothing ends
BrowserInteract ==
  Then(One(<<Check({Invalid, NoSession}), Look({Failed})>>),
       Loop(BrowserActions))

\* desktop_run_app.go: the caller's application is launched and keeps
\* running in the session, whatever becomes of the wait and the picture.
DesktopRunApp ==
  One(<<Check({Invalid, NoSession}), Act({Failed}, {Failed}), Wait,
        Look({Failed}), Store>>)

-----------------------------------------------------------------------------
(* webtest.go                                                              *)
\* A turn of the plan the model makes: any tool but a navigation, a
\* navigation the guard lets through, or a tool webtest does not know.
TakeSnapshot == Look({Failed})
UseTool  == <<Act({Failed}, {Failed}), If(TakeSnapshot)>>
Vet      == Step("guard", {}, {})
ParsePlan == Check({Failed})
AskPlan   == <<Ask, ParsePlan>>
Navigate == <<Vet, Dial({Failed}), TakeSnapshot>>
WebTestTurn ==
  {AskPlan \o UseTool, AskPlan \o Navigate, AskPlan \o <<Check({Failed})>>}
\* "done", "fail" and a refused navigation end the loop without an error.
WebTestLast == {<<>>, AskPlan, AskPlan \o <<Vet>>}
WebTest ==
  Then(One(<<Check({Internal, Invalid}), Guard, Check({NoSession}),
             Look({Failed}), Dial({Failed}), TakeSnapshot>>),
       Then(Maybe(Loop(WebTestTurn)), WebTestLast))

-----------------------------------------------------------------------------
(* web_scrape.go, doc_parse.go: a sidecar reads the caller's host; a cold  *)
(* sidecar is asked again, which repeats only the read.                    *)
ColdStartRetry(codes) == Loop(One(<<Dial({})>>)) \cup One(<<Dial(codes)>>)

\* The sidecar's answer may be too long, not JSON, or an error of its own.
WebScrape ==
  Then(One(<<Bad, Guard, Check({Internal})>>),
       Then(ColdStartRetry({Failed}), One(<<Check({Failed})>>)))

ValidateDocParseURL == Bad
DoclingAnswer == Check({Failed})
DocParse ==
  Then({<<Bad, ValidateDocParseURL, Guard, Check({Internal})>>, <<Bad, Check({Internal})>>},
       Then(ColdStartRetry({Failed}), One(<<DoclingAnswer>>)))

DocOCR ==
  Then({<<Check({Invalid, NoSession})>>,
        <<Check({Invalid, NoSession}), Dial({Invalid, Failed})>>},
       One(<<Bad, Look({Raw}), Check({Failed})>>))
=============================================================================
