----------------------------- MODULE PacksText -----------------------------
(***************************************************************************)
(* Handlers of the packs that plan, research and write (internal/packs/    *)
(* builtin): most of what they do is ask a model.                          *)
(***************************************************************************)
EXTENDS PackSteps

-----------------------------------------------------------------------------
(* route.go, plan.go: the catalogue, what the caller usually does, the     *)
(* part of the catalogue the model can hold, then the question.            *)
PackList      == Look({})
CallerHabits  == Look({})
RunFilterPass == AskQuietly
Choose == <<Check({Internal, Invalid}), PackList, CallerHabits,
            If(RunFilterPass), Ask, DecodeStructuredResponse>>
Route == One(Choose)
\* The plan is remembered by the hash of what was asked, if it can be.
WritePlanAudit == Note({})
Plan  == One(Choose \o <<WritePlanAudit>>)

\* blog_rewrite_for_audience.go, blog_append_cta.go
BlogRewriteForAudience == {<<Bad>>, <<Bad, Check({Internal}), Ask, Check({Failed})>>}
BlogAppendCTA == One(<<Bad, Check({Internal}), Ask, Check({Failed})>>)

-----------------------------------------------------------------------------
(* research_deep.go, content_ground.go: a search sidecar that may be cold  *)
(* is asked again; it is the deployment's host, not the caller's.          *)
FirecrawlSearch(codes) == Look(codes)
\* No page found is the caller's question's fault.
ResearchDeep ==
  One(<<Bad, Check({Internal, Invalid}), FirecrawlSearch({Failed}), Bad, Ask,
        Check({Failed})>>)

\* A claim is looked up, or recalled from an earlier run; each answer is
\* remembered as it comes, whatever becomes of the others.
VerifyBestSource == AskQuietly
GroundClaim ==
  {<<Recall>>, <<Recall, FirecrawlSearch({}), VerifyBestSource, If(Note({}))>>}
ReadText ==
  {<<Check({Internal, Invalid})>>,
   <<Check({Internal, Invalid}), NeedExec, Look({Invalid}), Look({Failed}), Bad>>}
ParseClaimPlan == DecodeStructuredResponse
ExtractClaims == <<Ask, ParseClaimPlan>>
RewriteWithSources == AskQuietly
\* Only when every search failed is the run an error; then the text is
\* rewritten, the file replaced and a copy kept.
ContentGround ==
  LET claims == Then(ReadText, One(ExtractClaims)) IN
  claims \cup
  Then(claims,
  Then(Maybe(Loop(GroundClaim)),
       One(<<Check({Failed}), If(RewriteWithSources), If(Work({Failed})),
             If(TryStore)>>)))

-----------------------------------------------------------------------------
(* blog_publish.go                                                         *)
BlogExpandPrompt == <<Check({Internal}), Ask, Check({Failed})>>
BlogBody ==
  Then(One(<<Bad>>), Then(Maybe(One(BlogExpandPrompt)),
                          Maybe(One(<<Work({Failed})>>))))
\* None, the caller's artifact, or one made for the post.
ResolveFeatureImage ==
  {<<Bad>>, <<Bad, Check({Internal}), Look({Invalid})>>,
   <<Bad, Check({Invalid, Internal}), Look({Invalid}), Guard, Pay({Failed}),
     Look({Failed}), Store, Look({Failed})>>}
BlogPublishArtifact == <<Check({Failed, Internal}), Store, If(TryStore)>>
\* The key, the host, the picture, the post: two writes to the blog.
MintGhostJWT     == Check({Invalid, Failed})
GhostUploadImage == Act({Failed, Internal}, {Failed})
CallGhostAPI     == Act({Failed, Internal}, {Failed})
BlogPublishGhost ==
  <<Look({Invalid, Failed}), Guard, MintGhostJWT, If(GhostUploadImage), CallGhostAPI>>
\* Once the article is stored, whatever Ghost does the pack succeeds.
BlogPublish ==
  Then(BlogBody,
  Then(ResolveFeatureImage,
       {BlogPublishArtifact, BlogPublishGhost} \cup
       Then(One(BlogPublishArtifact), Swallow(BlogPublishGhost))))
=============================================================================
