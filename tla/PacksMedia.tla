----------------------------- MODULE PacksMedia -----------------------------
(***************************************************************************)
(* Handlers of the packs that make decks, audio, images and video          *)
(* (internal/packs/builtin, internal/avenc, internal/podcast).             *)
(***************************************************************************)
EXTENDS PackSteps

-----------------------------------------------------------------------------
(* avenc: ffmpeg in the session, each output checked for being too small;  *)
(* a kill by the OS is the one failure with a code of its own.             *)
RequireNonEmptyOutput == Look({Failed})
Encoded(codes)        == <<Work(codes), RequireNonEmptyOutput>>
ExitCodes             == {Failed, Exhausted}
\* The callers of these replace the code by handler_failed.
GenerateSilence       == Encoded({Failed})
\* A probe that fails is replaced by a default duration.
ProbeAudioDuration    == Look({})
ConcatVideoMP4s       == Encoded(ExitCodes)

\* podcast/concat.go: write the turns, pad the short ones, put silence
\* between them, stitch, measure, read the result.
PodcastConcat ==
  Then(One(<<Work({Failed}), Work({Failed}), ProbeAudioDuration>>),
       Then({<<>>, GenerateSilence \o <<Work({Failed})>>},
            One(GenerateSilence \o Encoded({Failed}) \o
                <<ProbeAudioDuration, Look({Failed})>>)))

-----------------------------------------------------------------------------
(* image_generate.go, stock_search.go                                      *)
\* The images are paid for once, then fetched and stored one by one.
RunImageGen ==
  Then(One(<<Check({Invalid, Internal}), Look({Invalid}), Guard,
             Pay({Failed})>>),
       Loop(One(<<Look({Failed}), Store>>)))
ImageGenerate == Then(One(<<Bad>>), RunImageGen)
\* A deck reads its hero image back.
HeroImage == Then(RunImageGen, One(<<Look({Failed})>>))

\* Every photo's address is vetted when its turn comes.
PexelsSearch   == <<Guard, Look({Invalid, Failed})>>
PexelsDownload == <<Guard, Look({Failed}), Check({Failed})>>
StockSearch ==
  Then(One(<<Check({Invalid, Internal}), Look({Invalid})>> \o PexelsSearch),
       Loop(One(PexelsDownload \o <<Store>>)))

-----------------------------------------------------------------------------
(* slides_*.go                                                             *)
\* The model's deck may be too short: the caller is told to give more text.
SlidesOutline ==
  One(<<Check({Internal, Invalid}), Ask, Check({Failed}), Bad,
        If(Step("store", {Internal}, {Internal}))>>)

MermaidFences == Maybe(Loop(One(<<Work({Failed})>>)))
CuratedThemes == Maybe(One(<<Work({Failed, Internal})>>))
\* The one exec error of the media packs that stays untyped is marp's here.
SlidesRender ==
  Then(One(<<Check({Invalid, NoSession})>>),
  Then(Maybe(HeroImage),
  Then(MermaidFences,
  Then(CuratedThemes, One(<<Look({Raw, Failed}), Store>>)))))

\* slides.narrate looks for a key, checks it with its owner, and has marp
\* render the deck; a page that is not a picture is the caller's to mend.
PickRandomVoice == Look({})
NarrateKey  == {<<Look({Invalid})>>, <<Look({Invalid}), Look({BadKey}), PickRandomVoice>>}
RenderPages == <<Work({Failed}), Work({Failed}), Look({Failed, Invalid})>>
\* A slide whose narration cannot be made is silent.
ElevenLabsTTS == TryPay
NarrateSlide ==
  {<<ElevenLabsTTS, Work({Failed}), ProbeAudioDuration>>,
   <<ElevenLabsTTS>> \o GenerateSilence, GenerateSilence}
Captions == <<If(TryStore), If(Work({}))>>
\* The encoder runs once more with less memory; what it said is kept.
RunEncoder == Work({})
PersistFfmpegStderr == TryStore
EncodeSegment ==
  {<<RunEncoder, RequireNonEmptyOutput>>,
   <<RunEncoder, PersistFfmpegStderr, Stop(ExitCodes)>>}
ValidateQuietly == <<If(Look({})), If(TryStore)>>
Engagement      == <<If(AskQuietly), If(TryStore)>>
NarrateStart == <<Check({Invalid, NoSession})>>
Parsed == Then(MermaidFences, One(<<Bad>>))
Film == <<Work({Failed})>> \o ConcatVideoMP4s \o <<Look({Failed}), Store>>
\* An inspection only counts words, a dry run stops at the parsed deck.
SlidesNarrate ==
  One(<<Bad>>) \cup Then(One(NarrateStart), Parsed) \cup
     Then(One(NarrateStart),
     Then(Maybe(HeroImage),
     Then(Parsed,
     Then(NarrateKey,
     Then(One(RenderPages),
     Then(Loop(NarrateSlide),
     Then(One(Captions),
     Then(Loop(EncodeSegment),
          One(Film \o ValidateQuietly \o Engagement)))))))))

-----------------------------------------------------------------------------
(* podcast_generate.go, podcast/*.go                                       *)
\* The script is the caller's, or a model's, from a prompt or from a page.
GenerateScript == Pay({Failed})
ScrapeSourceURL == Dial({Failed})
PodcastScript ==
  {<<>>, <<Check({Internal}), GenerateScript>>,
   <<Check({Internal}), Guard, ScrapeSourceURL, GenerateScript>>}
\* A turn is spoken, or silent once there is no key.
PodcastTurn == {<<Pay({Failed})>>, <<Work({Failed})>> \o GenerateSilence \o <<Look({Failed})>>}

\* Checked again once it is there; a dry run stops here.
PodcastScripted ==
  Then(One(<<Check({Invalid, NoSession})>>), Then(PodcastScript, One(<<Bad>>)))
PodcastEngagement == Engagement
PodcastDone == <<Check({Internal}), Store>> \o ValidateQuietly \o PodcastEngagement
\* The cover comes last, and its failure is the podcast's.
PodcastGenerate ==
  One(<<Bad>>) \cup PodcastScripted \cup
     Then(PodcastScripted,
     Then(One(<<Look({Invalid}), Bad>>),
     Then(Loop(PodcastTurn),
     Then(PodcastConcat,
     Then(One(PodcastDone), Maybe(RunImageGen))))))

-----------------------------------------------------------------------------
(* hyperframes_*.go, av_validate.go                                        *)
\* The composition as text, or a project stored as an artifact.
SetupHyperframesProjectDir ==
  {<<Work({Failed}), Work({Failed})>>,
   <<Work({Failed}), Check({Internal}), Look({Invalid}), Bad, Work({Failed}),
     Work({Failed, Invalid}), Look({Failed, Invalid})>>}
Project(path) ==
  Then(One(<<Check({Invalid, NoSession})>>),
       Then(SetupHyperframesProjectDir, One(path)))

HyperframesRender == Project(<<Work({Failed, Invalid}), Look({Failed}), Store>>)
\* The report is stored if it can be; a strict caller is refused for what it
\* says with the code of a store that failed.
Audit               == <<Look({Failed}), Check({Failed}), TryStore,
                         Check({NoArtifact})>>
HyperframesLint     == Project(Audit)
HyperframesInspect  == Project(Audit)
HyperframesValidate == Project(Audit)

FetchOrPath == <<If(Look({NoArtifact})), If(Work({Failed}))>>
RunAVValidation == <<Look({Failed}), Check({Failed}), TryStore>>
AVValidate ==
  One(<<Bad>> \o FetchOrPath \o <<Bad>> \o RunAVValidation \o
      <<Check({NoArtifact})>>)

\* What the model composed is refused as the caller's mistake: no sections, a
\* stretch of the timeline without a clip, or two clips at once on one track.
BuildFindingsPrefix   == Look({})
ParseComposeSpec      == Bad
ComposeCoverageGap    == Bad
ComposeTrackCollision == Bad
ComposeEngagement     == Engagement
HyperframesCompose ==
  LET start == <<Bad, If(Look({Invalid, NoArtifact}))>>
  IN {start,
      start \o <<Check({Internal, Invalid}), BuildFindingsPrefix, Ask, Check({Failed}),
                 ParseComposeSpec, ComposeCoverageGap, ComposeTrackCollision>>
            \o ComposeEngagement}

\* A file the model cannot rewrite is skipped; none rewritten is an error.
RewriteTextSlots  == AskQuietly
RewriteTranscript == AskQuietly
ExtractTarball    == Bad
WriteTarball      == Check({Failed})
HyperframesInterpolate ==
  Then(One(<<Check({Internal, Invalid}), Look({Invalid}), ExtractTarball>>),
       Then(Maybe(Loop({<<RewriteTextSlots>>, <<RewriteTranscript>>})),
            One(<<Bad, WriteTarball, Store>>)))

AttachMedia ==
  One(<<Check({Invalid, Internal}), Look({Invalid}), Bad, Look({Invalid}), Bad,
        Check({Failed}), Store>>)
HyperframesAttachAudio == AttachMedia
HyperframesAttachAsset == AttachMedia

HyperframesScaffold ==
  Then(One(<<Check({Invalid, NoSession, Internal})>>),
       Then(Maybe(One(<<Dial({Invalid, Failed}), Work({Failed})>>)),
            One(<<Work({Failed, Invalid}), Look({Failed}), Store>>)))
=============================================================================
