--------------------------- MODULE PackCatalogue ---------------------------
(***************************************************************************)
(* The packs the control plane registers at boot, with what each declares  *)
(* to the engine: whether it needs a session, keeps the one it was given,  *)
(* and has its answers remembered.                                         *)
(***************************************************************************)
EXTENDS PacksTools, PacksBrowser, PacksRepo, PacksMedia, PacksText, TLC

\* No session, nothing remembered.
Plainly ==
  "github.create_issue" :> GithubCreateIssue @@
  "github.list_prs" :> GithubListPRs @@
  "github.post_comment" :> GithubPostComment @@
  "github.create_release" :> GithubCreateRelease @@
  "github.create_pr" :> GithubCreatePR @@
  "github.search" :> GithubSearch @@
  "http.fetch" :> HTTPFetch @@
  "email.send" :> EmailSend @@
  "artifact.put" :> ArtifactPut @@
  "artifact.get" :> ArtifactGet @@
  "artifact.list" :> ArtifactList @@
  "artifact.verify_manifest" :> ArtifactVerifyManifest @@
  "helmdeck.memory_store" :> MemoryStore @@
  "helmdeck.memory_forget" :> MemoryForget @@
  "command" :> CommandPack @@
  "helmdeck.route" :> Route @@
  "helmdeck.plan" :> Plan @@
  "blog.rewrite_for_audience" :> BlogRewriteForAudience @@
  "blog.append_cta" :> BlogAppendCTA @@
  "research.deep" :> ResearchDeep @@
  "web.scrape" :> WebScrape @@
  "doc.parse" :> DocParse @@
  "image.generate" :> ImageGenerate @@
  "stock.search" :> StockSearch @@
  "slides.outline" :> SlidesOutline @@
  "hyperframes.compose" :> HyperframesCompose @@
  "hyperframes.interpolate" :> HyperframesInterpolate @@
  "hyperframes.attach_audio" :> HyperframesAttachAudio @@
  "hyperframes.attach_asset" :> HyperframesAttachAsset

\* No session; answers are remembered for minutes or a day.
Remembered ==
  "github.list_issues" :> GithubListIssues @@
  "github.get_issue" :> GithubGetIssue @@
  "content.ground" :> ContentGround

\* A session that ends with the call.
Sessioned ==
  "python.run" :> PythonRun @@
  "node.run" :> NodeRun @@
  "fs.read" :> FSRead @@
  "fs.write" :> FSWrite @@
  "fs.patch" :> FSPatch @@
  "fs.list" :> FSList @@
  "fs.delete" :> FSDelete @@
  "cmd.run" :> CmdRun @@
  "git.commit" :> GitCommit @@
  "git.diff" :> GitDiff @@
  "git.log" :> GitLog @@
  "repo.map" :> RepoMap @@
  "repo.push" :> RepoPush @@
  "vision.click_anywhere" :> VisionClickAnywhere @@
  "vision.fill_form_by_label" :> VisionFillFormByLabel @@
  "vision.extract_visible_text" :> VisionExtractVisibleText @@
  "browser.screenshot_url" :> ScreenshotURL @@
  "browser.interact" :> BrowserInteract @@
  "web.scrape_spa" :> ScrapeSPA @@
  "web.test" :> WebTest @@
  "desktop.run_app_and_screenshot" :> DesktopRunApp @@
  "doc.ocr" :> DocOCR @@
  "blog.publish" :> BlogPublish @@
  "slides.render" :> SlidesRender @@
  "slides.narrate" :> SlidesNarrate @@
  "podcast.generate" :> PodcastGenerate @@
  "hyperframes.render" :> HyperframesRender @@
  "hyperframes.lint" :> HyperframesLint @@
  "hyperframes.inspect" :> HyperframesInspect @@
  "hyperframes.validate" :> HyperframesValidate @@
  "hyperframes.scaffold" :> HyperframesScaffold @@
  "av.validate" :> AVValidate

\* PreserveSession: the session stays for the packs that follow.
KeptOpen ==
  "repo.fetch" :> RepoFetch @@
  "swe.solve" :> SweSolve

Declare(paths, session, keeps, cached) ==
  [p \in DOMAIN paths |-> [paths |-> paths[p], session |-> session,
                           keeps |-> keeps, cached |-> cached]]

Shipped ==
  Declare(Plainly, FALSE, FALSE, FALSE) @@ Declare(Remembered, FALSE, FALSE, TRUE)
  @@ Declare(Sessioned, TRUE, FALSE, FALSE) @@ Declare(KeptOpen, TRUE, TRUE, FALSE)
=============================================================================
