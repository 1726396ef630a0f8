----------------------------- MODULE ConsoleProofs -----------------------------
(***************************************************************************)
(* What the pages of the console promise, for every number of calls,       *)
(* drafts, campaigns and customers, each under its own specification: the  *)
(* AI assistant, the campaign monitor, the template preview, the dashboard,*)
(* the session, the connection page, the campaign wizard and the customers.*)
(***************************************************************************)
EXTENDS AiDesk, CampaignMonitor, TemplatePreview, DashboardPage, BrowserSession, GatewayPage,
        CampaignsPage, CustomersPage, FiniteSetTheorems, TLAPS

-----------------------------------------------------------------------------
(* The AI assistant.                                                       *)

\* Only Improve this draft asks again, and the unedited draft keeps the
\* placeholders too, since the operator may go back to it.
RequestShape == asked.again => asked.mode = "improve"
DraftKeepsOrigin == assistant.draft # NoText => origin \subseteq assistant.draft
AiInv == AiTypeOK /\ RequestShape /\ DraftKeepsOrigin /\ PlaceholdersSurvive

\* The form starts empty.
LEMMA AiInvInit == AiInit => AiInv
<1> SUFFICES ASSUME AiInit PROVE AiInv
  OBVIOUS
<1>1. AiTypeOK
  BY AiAssumption DEF AiInit, AiTypeOK, NoRequest, Action, Text
<1> QED  BY <1>1 DEF AiInit, AiInv, RequestShape, DraftKeepsOrigin, PlaceholdersSurvive, NoRequest

\* A draft that is asked for leaves the fields in place.
LEMMA SubmitTyped ==
  ASSUME AiTypeOK, NEW mode \in Action, NEW source \in Text,
         NEW customer \in Profiles \cup {NoText},
         NEW again \in BOOLEAN, Submit(mode, source, customer, again), UNCHANGED origin
  PROVE  AiTypeOK'
<1>1. drafts' \in 0..MaxDrafts
  BY AiAssumption DEF Submit, AiTypeOK
<1>2. asked' \in [mode : Action, source : Text, customer : Profiles \cup {NoText}, again : BOOLEAN]
  BY DEF Submit
<1>3. assistant' = [[assistant EXCEPT !.busy = TRUE] EXCEPT !.error = FALSE]
  BY DEF Submit
<1> QED  BY <1>1, <1>2, <1>3 DEF AiTypeOK

\* The three ways to ask for a draft, and what a refusal leaves.
LEMMA RunDraftKeeps ==
  ASSUME AiInv, RunDraft, UNCHANGED origin PROVE AiInv'
<1>a. AiTypeOK /\ assistant \in [action : Action, template : Text \cup {NoText},
                    customer : Profiles \cup {NoText}, message : Text \cup {NoText},
                    draft : Text \cup {NoText}, edited : Text \cup {NoText},
                    busy : BOOLEAN, error : BOOLEAN, dataLoading : BOOLEAN, dataError : BOOLEAN]
  BY DEF AiInv, AiTypeOK
<1>1. CASE Refuse
  <2>1. AiTypeOK'
    BY <1>a, <1>1 DEF Refuse, AiTypeOK
  <2> QED  BY <1>a, <1>1, <2>1
           DEF AiInv, Refuse, RequestShape, DraftKeepsOrigin, PlaceholdersSurvive
<1>2. ASSUME NEW mode \in Action, NEW source \in Text, NEW customer \in Profiles \cup {NoText},
             Submit(mode, source, customer, FALSE)
      PROVE  AiInv'
  <2>1. AiTypeOK'
    BY <1>a, <1>2, SubmitTyped
  <2> QED  BY <1>a, <1>2, <2>1
           DEF AiInv, Submit, RequestShape, DraftKeepsOrigin, PlaceholdersSurvive
<1>3. \/ Refuse
      \/ \E mode \in Action, source \in Text, customer \in Profiles \cup {NoText} :
           Submit(mode, source, customer, FALSE)
  <2>1. CASE assistant.action = "generate"
    BY <1>a, <2>1 DEF RunDraft, Action
  <2>2. CASE assistant.action = "personalize"
    BY <1>a, <2>2 DEF RunDraft, Action, Source
  <2>3. CASE assistant.action = "improve"
    BY <1>a, <2>3 DEF RunDraft, Action
  <2> QED  BY <1>a, <2>1, <2>2, <2>3 DEF Action
<1> QED  BY <1>1, <1>2, <1>3

\* What the model may return keeps what the placeholders of its source were.
LEMMA RootsStay ==
  ASSUME AiTypeOK, RequestShape, asked # NoRequest, NEW content \in Text, Accepts(asked, content)
  PROVE  Roots(asked, content) \in Text /\ Roots(asked, content) \subseteq content
<1>1. asked.source \in Text /\ origin \in Text /\ asked.mode \in Action
  BY DEF AiTypeOK
<1>2. CASE asked.again
  BY <1>1, <1>2 DEF RequestShape, Accepts, Roots, Text
<1>3. CASE ~asked.again
  BY <1>1, <1>3 DEF Accepts, Roots, Text
<1> QED  BY <1>2, <1>3

\* Each step of the assistant keeps its invariant.
LEMMA AiInvStep == AiInv /\ [AiNext]_aiVars => AiInv'
<1> SUFFICES ASSUME AiInv, [AiNext]_aiVars PROVE AiInv'
  OBVIOUS
<1>a. AiTypeOK /\ assistant \in [action : Action, template : Text \cup {NoText},
                    customer : Profiles \cup {NoText}, message : Text \cup {NoText},
                    draft : Text \cup {NoText}, edited : Text \cup {NoText},
                    busy : BOOLEAN, error : BOOLEAN, dataLoading : BOOLEAN, dataError : BOOLEAN]
  BY DEF AiInv, AiTypeOK
<1>b. RequestShape /\ DraftKeepsOrigin /\ PlaceholdersSurvive
  BY DEF AiInv
<1>1. CASE ListsLoaded
  <2>1. AiTypeOK'
    BY <1>a, <1>1 DEF ListsLoaded, AiTypeOK
  <2> QED  BY <1>a, <1>b, <1>1, <2>1
           DEF AiInv, ListsLoaded, RequestShape, DraftKeepsOrigin, PlaceholdersSurvive
<1>2. CASE FillForm
  <2>1. AiTypeOK'
    BY <1>a, <1>2 DEF FillForm, AiTypeOK
  <2> QED  BY <1>a, <1>b, <1>2, <2>1
           DEF AiInv, FillForm, RequestShape, DraftKeepsOrigin, PlaceholdersSurvive
<1>3. ASSUME NEW action \in Action, SetAction(action) PROVE AiInv'
  <2>1. AiTypeOK'
    BY <1>a, <1>3 DEF SetAction, AiTypeOK
  <2> QED  BY <1>a, <1>b, <1>3, <2>1
           DEF AiInv, SetAction, RequestShape, DraftKeepsOrigin, PlaceholdersSurvive
<1>4. CASE HandleGenerate
  BY <1>4, RunDraftKeeps DEF HandleGenerate
<1>5. CASE HandleRegenerate
  BY <1>5, RunDraftKeeps DEF HandleRegenerate
<1>6. CASE HandleImproveDraft
  <2>1. AiTypeOK'
    <3>1. assistant.edited \in Text /\ "improve" \in Action
      BY <1>a, <1>6 DEF HandleImproveDraft, Action
    <3> QED  BY <1>a, <1>6, <3>1, SubmitTyped DEF HandleImproveDraft
  <2> QED  BY <1>a, <1>b, <1>6, <2>1
           DEF AiInv, HandleImproveDraft, Submit, RequestShape, DraftKeepsOrigin,
               PlaceholdersSurvive
<1>7. CASE DraftArrives
  <2>1. asked # NoRequest /\ asked' = NoRequest /\ drafts' = drafts
    BY <1>7 DEF DraftArrives
  <2>2. PICK content \in Text :
          /\ Accepts(asked, content)
          /\ assistant' = [assistant EXCEPT !.draft = content, !.edited = content, !.busy = FALSE]
          /\ origin' = Roots(asked, content)
    BY <1>7 DEF DraftArrives
  <2>3. origin' \in Text /\ origin' \subseteq content
    BY <1>a, <1>b, <2>1, <2>2, RootsStay
  <2>4. AiTypeOK'
    BY <1>a, <2>1, <2>2, <2>3 DEF AiTypeOK
  <2> QED  BY <1>a, <2>1, <2>2, <2>3, <2>4
           DEF AiInv, RequestShape, DraftKeepsOrigin, PlaceholdersSurvive, NoRequest
<1>8. CASE DraftFails
  <2>1. AiTypeOK'
    BY <1>a, <1>8 DEF DraftFails, AiTypeOK
  <2> QED  BY <1>a, <1>b, <1>8, <2>1
           DEF AiInv, DraftFails, RequestShape, DraftKeepsOrigin, PlaceholdersSurvive, NoRequest
<1>9. ASSUME NEW text \in Text \cup {NoText}, EditDraft(text) PROVE AiInv'
  <2>1. /\ assistant' = [assistant EXCEPT !.edited = text]
        /\ origin' \in Text /\ origin' \subseteq origin
        /\ text # NoText => origin' \subseteq text
        /\ asked' = asked /\ drafts' = drafts
    BY <1>a, <1>9 DEF EditDraft, AiTypeOK, Text
  <2>2. AiTypeOK'
    BY <1>a, <2>1 DEF AiTypeOK
  <2> QED  BY <1>a, <1>b, <2>1, <2>2
           DEF AiInv, RequestShape, DraftKeepsOrigin, PlaceholdersSurvive
<1>10. CASE ResetDraft
  <2>1. AiTypeOK'
    BY <1>a, <1>10 DEF ResetDraft, AiTypeOK
  <2> QED  BY <1>a, <1>b, <1>10, <2>1
           DEF AiInv, ResetDraft, RequestShape, DraftKeepsOrigin, PlaceholdersSurvive
<1>11. CASE UNCHANGED aiVars
  BY <1>a, <1>b, <1>11 DEF aiVars, AiInv, AiTypeOK, RequestShape, DraftKeepsOrigin,
                           PlaceholdersSurvive
<1> QED  BY <1>1, <1>2, <1>3, <1>4, <1>5, <1>6, <1>7, <1>8, <1>9, <1>10, <1>11 DEF AiNext

\* However many drafts are asked for, edited, reset and improved again, what
\* is left of the placeholders the text stems from is in the text: runDraft,
\* handleImproveDraft and the checks of ai.service.ts.
THEOREM DraftsKeepPlaceholders == AiSpec => []PlaceholdersSurvive
<1>1. AiInv => PlaceholdersSurvive
  BY DEF AiInv
<1> QED  BY <1>1, AiInvInit, AiInvStep, PTL DEF AiSpec

-----------------------------------------------------------------------------
(* The campaign monitor.                                                   *)

\* A call that was made since the drawer was opened is about its campaign, and so
\* are the numbers it brought; only the campaign monitored is polled.
IntervalIsOfDrawer == intervals = Polls(drawer.campaign)
CallsAreOfDrawer ==
  \A s \in ProgressSlots : progressing[s] # NoCampaign =>
    /\ progressing[s].opening <= drawer.opening
    /\ drawer.campaign # NoCampaign /\ progressing[s].opening = drawer.opening =>
         progressing[s].of = drawer.campaign
NumbersAreOfDrawer ==
  drawer.progress # NoCampaign =>
    /\ drawer.progress.opening <= drawer.opening
    /\ drawer.campaign # NoCampaign /\ drawer.progress.opening = drawer.opening =>
         drawer.progress.of = drawer.campaign
MonitorInv == MonitorTypeOK /\ IntervalIsOfDrawer /\ CallsAreOfDrawer /\ NumbersAreOfDrawer

\* The drawer starts closed.
LEMMA MonitorInvInit == MonitorInit => MonitorInv
<1> SUFFICES ASSUME MonitorInit PROVE MonitorInv
  OBVIOUS
<1>1. MonitorTypeOK
  BY MonitorAssumption DEF MonitorInit, MonitorTypeOK
<1> QED  BY <1>1 DEF MonitorInit, MonitorInv, IntervalIsOfDrawer, CallsAreOfDrawer,
                     NumbersAreOfDrawer, Polls

\* A call made for the campaign that the drawer shows, or while it is closed.
LEMMA AskedProgress ==
  ASSUME MonitorTypeOK, NEW campaign \in Monitorable, NEW opening \in 0..MaxDrawers,
         NEW control \in BOOLEAN, AskProgress(campaign, opening, control)
  PROVE  /\ progressing' \in [ProgressSlots -> ProgressCall \cup {NoCampaign}]
         /\ asks' \in 0..MaxProgressCalls
         /\ \A s \in ProgressSlots :
              \/ progressing'[s] = progressing[s]
              \/ progressing'[s].of = campaign /\ progressing'[s].opening = opening
<1>1. asks' \in 0..MaxProgressCalls
  BY MonitorAssumption DEF AskProgress, MonitorTypeOK
<1> DEFINE call == [of |-> campaign, opening |-> opening, control |-> control,
                    at |-> IF control THEN "acting" ELSE "progress"]
<1>2. call \in ProgressCall /\ call.of = campaign /\ call.opening = opening
  BY DEF ProgressCall
<1>3. PICK s \in ProgressSlots : progressing' = [progressing EXCEPT ![s] = call]
  BY DEF AskProgress
<1> HIDE DEF call
<1> QED  BY <1>1, <1>2, <1>3 DEF MonitorTypeOK

\* Each step of the monitor keeps its invariant.
LEMMA MonitorInvStep == MonitorInv /\ [MonitorNext]_monitorVars => MonitorInv'
<1> SUFFICES ASSUME MonitorInv, [MonitorNext]_monitorVars PROVE MonitorInv'
  OBVIOUS
<1>a. MonitorTypeOK /\ IntervalIsOfDrawer /\ CallsAreOfDrawer /\ NumbersAreOfDrawer
  BY DEF MonitorInv
<1>b. /\ drawer \in [campaign : Monitorable \cup {NoCampaign}, acting : BOOLEAN,
                     progress : [of : Monitorable, opening : 0..MaxDrawers] \cup {NoCampaign},
                     opening : 0..MaxDrawers]
      /\ intervals \subseteq Monitorable
      /\ progressing \in [ProgressSlots -> ProgressCall \cup {NoCampaign}]
  BY <1>a DEF MonitorTypeOK
<1>c. /\ drawer.opening \in 0..MaxDrawers /\ drawer.acting \in BOOLEAN
      /\ drawer.campaign \in Monitorable \cup {NoCampaign}
  BY <1>b
<1>1. ASSUME NEW campaign \in Monitorable, OpenMonitor(campaign) PROVE MonitorInv'
  <2>1. drawer.opening + 1 \in 0..MaxDrawers
    BY <1>c, <1>1, MonitorAssumption DEF OpenMonitor
  <2>2. /\ progressing' \in [ProgressSlots -> ProgressCall \cup {NoCampaign}]
        /\ asks' \in 0..MaxProgressCalls
        /\ \A s \in ProgressSlots :
             \/ progressing'[s] = progressing[s]
             \/ progressing'[s].of = campaign /\ progressing'[s].opening = drawer.opening + 1
    BY <1>a, <1>1, <2>1, AskedProgress DEF OpenMonitor
  <2>3. drawer' = [[drawer EXCEPT !.campaign = campaign] EXCEPT !.opening = drawer.opening + 1]
    BY <1>b, <1>1 DEF OpenMonitor
  <2>4. intervals' = {campaign}
    BY <1>1, MonitorAssumption DEF OpenMonitor, Polls
  <2>5. MonitorTypeOK'
    BY <1>b, <2>1, <2>2, <2>3, <2>4 DEF MonitorTypeOK
  <2>6. CallsAreOfDrawer'
    BY <1>a, <1>b, <1>c, <2>2, <2>3 DEF CallsAreOfDrawer, ProgressCall
  <2>7. NumbersAreOfDrawer'
    BY <1>a, <1>b, <1>c, <2>3 DEF NumbersAreOfDrawer
  <2> QED  BY <1>b, <2>3, <2>4, <2>5, <2>6, <2>7, MonitorAssumption
           DEF MonitorInv, IntervalIsOfDrawer, Polls
<1>2. CASE CloseMonitor
  <2>1. /\ drawer' = [drawer EXCEPT !.campaign = NoCampaign] /\ intervals' = {}
        /\ progressing' = progressing /\ asks' = asks
    BY <1>2 DEF CloseMonitor, Polls
  <2> QED  BY <1>a, <1>b, <2>1 DEF MonitorInv, MonitorTypeOK, IntervalIsOfDrawer, Polls,
                                   CallsAreOfDrawer, NumbersAreOfDrawer
<1>3. ASSUME NEW campaign \in Monitorable, PollProgress(campaign) PROVE MonitorInv'
  <2>1. drawer' = drawer /\ intervals' = intervals /\ campaign = drawer.campaign
    BY <1>a, <1>3 DEF PollProgress, IntervalIsOfDrawer, Polls
  <2>2. /\ progressing' \in [ProgressSlots -> ProgressCall \cup {NoCampaign}]
        /\ asks' \in 0..MaxProgressCalls
        /\ \A s \in ProgressSlots :
             \/ progressing'[s] = progressing[s]
             \/ progressing'[s].of = campaign /\ progressing'[s].opening = drawer.opening
    BY <1>a, <1>c, <1>3, AskedProgress DEF PollProgress
  <2>3. CallsAreOfDrawer'
    BY <1>a, <1>c, <2>1, <2>2 DEF CallsAreOfDrawer
  <2> QED  BY <1>a, <2>1, <2>2, <2>3 DEF MonitorInv, MonitorTypeOK, IntervalIsOfDrawer,
                                         NumbersAreOfDrawer
<1>4. ASSUME NEW campaign \in Monitorable, HandleCampaignAction(campaign) PROVE MonitorInv'
  <2>1. /\ drawer' = [drawer EXCEPT !.acting = TRUE] /\ intervals' = intervals
        /\ drawer.campaign = NoCampaign \/ drawer.campaign = campaign
    BY <1>4 DEF HandleCampaignAction
  <2>2. /\ progressing' \in [ProgressSlots -> ProgressCall \cup {NoCampaign}]
        /\ asks' \in 0..MaxProgressCalls
        /\ \A s \in ProgressSlots :
             \/ progressing'[s] = progressing[s]
             \/ progressing'[s].of = campaign /\ progressing'[s].opening = drawer.opening
    BY <1>a, <1>c, <1>4, AskedProgress DEF HandleCampaignAction
  <2>3. CallsAreOfDrawer'
    BY <1>a, <1>b, <1>c, <2>1, <2>2 DEF CallsAreOfDrawer
  <2> QED  BY <1>a, <1>b, <2>1, <2>2, <2>3 DEF MonitorInv, MonitorTypeOK, IntervalIsOfDrawer,
                                               NumbersAreOfDrawer
<1>5. ASSUME NEW s \in ProgressSlots, Acted(s) PROVE MonitorInv'
  <2>1. /\ progressing[s] \in ProgressCall
        /\ progressing' = [progressing EXCEPT ![s] = [progressing[s] EXCEPT !.at = "progress"]]
        /\ drawer' = drawer /\ intervals' = intervals /\ asks' = asks
    BY <1>b, <1>5 DEF Acted
  <2>2. [progressing[s] EXCEPT !.at = "progress"] \in ProgressCall
    BY <2>1 DEF ProgressCall
  <2>3. CallsAreOfDrawer'
    BY <1>a, <1>b, <1>5, <2>1 DEF CallsAreOfDrawer, Acted, ProgressCall
  <2> QED  BY <1>a, <1>b, <2>1, <2>2, <2>3 DEF MonitorInv, MonitorTypeOK, IntervalIsOfDrawer,
                                               NumbersAreOfDrawer
<1>6. ASSUME NEW s \in ProgressSlots, ProgressHeard(s) PROVE MonitorInv'
  <2> DEFINE shown == [of |-> progressing[s].of, opening |-> progressing[s].opening]
  <2>1. /\ progressing[s] \in ProgressCall /\ progressing[s] # NoCampaign
        /\ progressing' = [progressing EXCEPT ![s] = [progressing[s] EXCEPT !.at = "list"]]
        /\ drawer' = [drawer EXCEPT !.progress = shown]
        /\ intervals' = intervals /\ asks' = asks
    BY <1>b, <1>6 DEF ProgressHeard
  <2>2. [progressing[s] EXCEPT !.at = "list"] \in ProgressCall
    BY <2>1 DEF ProgressCall
  <2>3. /\ shown \in [of : Monitorable, opening : 0..MaxDrawers]
        /\ shown.of = progressing[s].of /\ shown.opening = progressing[s].opening
    BY <2>1 DEF ProgressCall
  <2> HIDE DEF shown
  <2>4. CallsAreOfDrawer'
    BY <1>a, <1>b, <2>1 DEF CallsAreOfDrawer, ProgressCall
  <2>5. NumbersAreOfDrawer'
    BY <1>a, <1>b, <2>1, <2>3 DEF CallsAreOfDrawer, NumbersAreOfDrawer
  <2> QED  BY <1>a, <1>b, <2>1, <2>2, <2>3, <2>4, <2>5
           DEF MonitorInv, MonitorTypeOK, IntervalIsOfDrawer
<1>7. ASSUME NEW s \in ProgressSlots, ProgressDone(s) PROVE MonitorInv'
  <2>1. /\ progressing[s] \in ProgressCall
        /\ progressing' = [progressing EXCEPT ![s] = NoCampaign]
        /\ drawer' = [drawer EXCEPT !.acting = @ /\ ~progressing[s].control]
        /\ intervals' = intervals /\ asks' = asks
    BY <1>b, <1>7 DEF ProgressDone
  <2>2. (drawer.acting /\ ~progressing[s].control) \in BOOLEAN
    BY <1>c, <2>1 DEF ProgressCall
  <2>3. CallsAreOfDrawer'
    BY <1>a, <1>b, <2>1 DEF CallsAreOfDrawer
  <2>4. NumbersAreOfDrawer'
    BY <1>a, <1>b, <2>1 DEF NumbersAreOfDrawer
  <2>5. MonitorTypeOK'
    BY <1>a, <1>b, <2>1, <2>2 DEF MonitorTypeOK
  <2> QED  BY <1>a, <1>b, <2>1, <2>3, <2>4, <2>5 DEF MonitorInv, IntervalIsOfDrawer
<1>8. CASE UNCHANGED monitorVars
  BY <1>a, <1>8 DEF monitorVars, MonitorInv, MonitorTypeOK, IntervalIsOfDrawer,
                    CallsAreOfDrawer, NumbersAreOfDrawer
<1> QED  BY <1>1, <1>2, <1>3, <1>4, <1>5, <1>6, <1>7, <1>8 DEF MonitorNext

\* However the polls overlap and the drawer is switched, what is asked while it is
\* open brings the numbers of its own campaign: the poll effect and
\* handleCampaignAction of campaigns/page.tsx.
THEOREM MonitorShowsItsCampaign == MonitorSpec => []NumbersAreItsOwnOrOld
<1>1. MonitorInv => NumbersAreItsOwnOrOld
  <2> SUFFICES ASSUME MonitorInv, drawer.campaign # NoCampaign, NumbersOf # drawer.campaign
               PROVE  drawer.progress.opening < drawer.opening
    BY DEF NumbersAreItsOwnOrOld
  <2>1. drawer.progress # NoCampaign /\ drawer.progress.of # drawer.campaign
    BY DEF NumbersOf
  <2>2. drawer.progress.opening \in 0..MaxDrawers /\ drawer.opening \in 0..MaxDrawers
    BY <2>1 DEF MonitorInv, MonitorTypeOK
  <2> QED  BY <2>1, <2>2, MonitorAssumption DEF MonitorInv, NumbersAreOfDrawer
<1> QED  BY <1>1, MonitorInvInit, MonitorInvStep, PTL DEF MonitorSpec

-----------------------------------------------------------------------------
(* The template preview.                                                   *)

\* Nothing is rendered before a customer is selected; and while the modal is open
\* and no previews crossed, what is under way is what the modal is about.
NobodySelected ==
  viewer.customer = Nobody =>
    viewer.data = Nobody /\ \A s \in RenderSlots : renders[s] = Nobody
UnderWayIsShown ==
  viewer.open /\ ~crossed =>
    \A s \in RenderSlots : renders[s] # Nobody =>
      renders[s] = [template |-> viewer.template, customer |-> viewer.customer]
TemplateOfOpen == viewer.open => viewer.template \in Viewed
PreviewInv ==
  /\ PreviewTypeOK /\ TemplateOfOpen
  /\ NobodySelected /\ UnderWayIsShown /\ PreviewIsOfItsTemplate

\* The modal starts closed, with nobody selected.
LEMMA PreviewInvInit == PreviewInit => PreviewInv
<1> SUFFICES ASSUME PreviewInit PROVE PreviewInv
  OBVIOUS
<1>1. viewer = [open |-> FALSE, template |-> Nobody, customer |-> Nobody, data |-> Nobody,
                loading |-> FALSE]
  BY DEF PreviewInit
<1>2. renderUsed = [calls |-> 0, faults |-> 0] /\ crossed = FALSE
  BY DEF PreviewInit
<1>3. renders \in [RenderSlots -> Rendering \cup {Nobody}]
  BY DEF PreviewInit
<1>4. PreviewTypeOK
  <2>1. viewer \in [open : BOOLEAN, template : Viewed \cup {Nobody},
                    customer : Recipients \cup {Nobody}, data : Rendering \cup {Nobody},
                    loading : BOOLEAN]
    BY <1>1
  <2>2. rosters \in [RosterSlots -> Roster \cup {Nobody}] /\ crossed \in BOOLEAN
    BY <1>2 DEF PreviewInit, Roster
  <2>3. renderUsed \in [calls : 0..MaxRenders, faults : 0..MaxRenderFaults]
    BY <1>2, PreviewAssumption
  <2> QED  BY <1>3, <2>1, <2>2, <2>3 DEF PreviewTypeOK
<1> QED  BY <1>1, <1>2, <1>4 DEF PreviewInit, PreviewInv, TemplateOfOpen, NobodySelected,
                                 UnderWayIsShown, PreviewIsOfItsTemplate

\* A preview that begins alone is the only one under way.
LEMMA AskedPreview ==
  ASSUME PreviewTypeOK, NEW template \in Viewed, NEW customer \in Recipients,
         AskPreview(template, customer)
  PROVE  /\ renders' \in [RenderSlots -> Rendering \cup {Nobody}]
         /\ crossed' \in BOOLEAN
         /\ ~crossed' => \A s \in RenderSlots : renders'[s] # Nobody =>
              renders'[s] = [template |-> template, customer |-> customer]
<1>1. [template |-> template, customer |-> customer] \in Rendering
  BY DEF Rendering
<1>2. PICK s \in RenderSlots :
        /\ renders' = [renders EXCEPT ![s] = [template |-> template, customer |-> customer]]
        /\ crossed' = (\E r \in RenderSlots : renders[r] # Nobody)
  BY DEF AskPreview
<1>3. (\E r \in RenderSlots : renders[r] # Nobody) \in BOOLEAN
  OBVIOUS
<1> QED  BY <1>1, <1>2, <1>3 DEF PreviewTypeOK

\* The bounds on calls and faults are kept.
LEMMA RenderCounted ==
  ASSUME PreviewTypeOK, RenderSpend \/ RenderFault
  PROVE  renderUsed' \in [calls : 0..MaxRenders, faults : 0..MaxRenderFaults]
BY PreviewAssumption DEF PreviewTypeOK, RenderSpend, RenderFault

\* Each step of the preview keeps its invariant.
LEMMA PreviewInvStep == PreviewInv /\ [PreviewNext]_previewVars => PreviewInv'
<1> SUFFICES ASSUME PreviewInv, [PreviewNext]_previewVars PROVE PreviewInv'
  OBVIOUS
<1>a. /\ PreviewTypeOK /\ TemplateOfOpen
      /\ NobodySelected /\ UnderWayIsShown /\ PreviewIsOfItsTemplate
  BY DEF PreviewInv
<1>b. /\ viewer \in [open : BOOLEAN, template : Viewed \cup {Nobody},
                     customer : Recipients \cup {Nobody}, data : Rendering \cup {Nobody},
                     loading : BOOLEAN]
      /\ renders \in [RenderSlots -> Rendering \cup {Nobody}]
      /\ rosters \in [RosterSlots -> Roster \cup {Nobody}] /\ crossed \in BOOLEAN
  BY <1>a DEF PreviewTypeOK
<1>1. ASSUME NEW template \in Viewed, HandleOpenPreview(template) PROVE PreviewInv'
  <2>1. /\ viewer' = [[[viewer EXCEPT !.open = TRUE] EXCEPT !.template = template]
                        EXCEPT !.loading = (viewer.customer # Nobody)]
        /\ rosters' = rosters
    BY <1>b, <1>1 DEF HandleOpenPreview
  <2>2. renderUsed' \in [calls : 0..MaxRenders, faults : 0..MaxRenderFaults]
    BY <1>a, <1>1, RenderCounted DEF HandleOpenPreview
  <2>3. (viewer.customer # Nobody) \in BOOLEAN
    OBVIOUS
  <2>4. CASE viewer.customer = Nobody
    <3>1. renders' = renders /\ crossed' = crossed
      BY <1>1, <2>4 DEF HandleOpenPreview
    <3> QED  BY <1>a, <1>b, <2>1, <2>2, <2>3, <2>4, <3>1
             DEF PreviewInv, TemplateOfOpen, PreviewTypeOK, NobodySelected,
                          UnderWayIsShown, PreviewIsOfItsTemplate
  <2>5. CASE viewer.customer # Nobody
    <3>1. /\ renders' \in [RenderSlots -> Rendering \cup {Nobody}]
          /\ crossed' \in BOOLEAN
          /\ ~crossed' => \A s \in RenderSlots : renders'[s] # Nobody =>
               renders'[s] = [template |-> template, customer |-> viewer.customer]
      BY <1>a, <1>b, <1>1, <2>5, AskedPreview DEF HandleOpenPreview
    <3> QED  BY <1>a, <1>b, <2>1, <2>2, <2>3, <2>5, <3>1
             DEF PreviewInv, TemplateOfOpen, PreviewTypeOK, NobodySelected,
                          UnderWayIsShown, PreviewIsOfItsTemplate
  <2> QED  BY <2>4, <2>5
<1>2. ASSUME NEW customer \in Recipients, HandlePreviewCustomerChange(customer) PROVE PreviewInv'
  <2>1. /\ viewer' = [[viewer EXCEPT !.customer = customer] EXCEPT !.loading = TRUE]
        /\ rosters' = rosters
    BY <1>b, <1>2 DEF HandlePreviewCustomerChange
  <2>2. renderUsed' \in [calls : 0..MaxRenders, faults : 0..MaxRenderFaults]
    BY <1>a, <1>2, RenderCounted DEF HandlePreviewCustomerChange
  <2>3. viewer.open /\ viewer.template \in Viewed /\ viewer.customer # Nobody
    BY <1>a, <1>2 DEF HandlePreviewCustomerChange, TemplateOfOpen
  <2>4. /\ renders' \in [RenderSlots -> Rendering \cup {Nobody}]
        /\ crossed' \in BOOLEAN
        /\ ~crossed' => \A s \in RenderSlots : renders'[s] # Nobody =>
             renders'[s] = [template |-> viewer.template, customer |-> customer]
    BY <1>a, <1>2, <2>3, AskedPreview DEF HandlePreviewCustomerChange
  <2> QED  BY <1>a, <1>b, <2>1, <2>2, <2>3, <2>4, PreviewAssumption
           DEF PreviewInv, TemplateOfOpen, PreviewTypeOK, NobodySelected,
                          UnderWayIsShown, PreviewIsOfItsTemplate
<1>3. CASE ClosePreview
  BY <1>a, <1>b, <1>3 DEF ClosePreview, PreviewInv, TemplateOfOpen, PreviewTypeOK, NobodySelected,
                          UnderWayIsShown, PreviewIsOfItsTemplate
<1>4. ASSUME NEW s \in RenderSlots, PreviewRendered(s) PROVE PreviewInv'
  <2>1. /\ renders[s] \in Rendering /\ renders[s] # Nobody
        /\ viewer' = [[viewer EXCEPT !.data = renders[s]] EXCEPT !.loading = FALSE]
        /\ renders' = [renders EXCEPT ![s] = Nobody]
        /\ rosters' = rosters /\ crossed' = crossed /\ renderUsed' = renderUsed
    BY <1>b, <1>4 DEF PreviewRendered
  <2> QED  BY <1>a, <1>b, <2>1 DEF PreviewInv, TemplateOfOpen, PreviewTypeOK, NobodySelected,
                          UnderWayIsShown, PreviewIsOfItsTemplate
<1>5. ASSUME NEW s \in RenderSlots, PreviewFails(s) PROVE PreviewInv'
  <2>1. /\ viewer' = [[viewer EXCEPT !.data = Nobody] EXCEPT !.loading = FALSE]
        /\ renders' = [renders EXCEPT ![s] = Nobody]
        /\ rosters' = rosters /\ crossed' = crossed
    BY <1>b, <1>5 DEF PreviewFails
  <2>2. renderUsed' \in [calls : 0..MaxRenders, faults : 0..MaxRenderFaults]
    BY <1>a, <1>5, RenderCounted DEF PreviewFails
  <2> QED  BY <1>a, <1>b, <2>1, <2>2 DEF PreviewInv, TemplateOfOpen, PreviewTypeOK, NobodySelected,
                                         UnderWayIsShown, PreviewIsOfItsTemplate
<1>6. CASE RefreshRecipients
  <2>1. viewer' = viewer /\ renders' = renders /\ crossed' = crossed
    BY <1>6 DEF RefreshRecipients
  <2>2. PICK r \in RosterSlots : rosters' = [rosters EXCEPT ![r] = [seen |-> viewer.customer]]
    BY <1>6 DEF RefreshRecipients
  <2>3. [seen |-> viewer.customer] \in Roster
    BY <1>b DEF Roster
  <2>4. rosters' \in [RosterSlots -> Roster \cup {Nobody}]
    BY <1>b, <2>2, <2>3
  <2>5. renderUsed' \in [calls : 0..MaxRenders, faults : 0..MaxRenderFaults]
    BY <1>a, <1>6, RenderCounted DEF RefreshRecipients
  <2> QED  BY <1>a, <1>b, <2>1, <2>4, <2>5 DEF PreviewInv, TemplateOfOpen, PreviewTypeOK,
                                         NobodySelected, UnderWayIsShown, PreviewIsOfItsTemplate
<1>7. ASSUME NEW r \in RosterSlots, RecipientsLoaded(r) PROVE PreviewInv'
  <2>1. /\ rosters' = [rosters EXCEPT ![r] = Nobody]
        /\ renders' = renders /\ renderUsed' = renderUsed
        /\ crossed' = (crossed \/ viewer.customer \notin {Nobody, viewer'.customer})
    BY <1>7 DEF RecipientsLoaded
  <2>2. PICK first \in Recipients \cup {Nobody} :
          viewer' = IF first # Nobody /\ rosters[r].seen = Nobody
                    THEN [viewer EXCEPT !.customer = first] ELSE viewer
    BY <1>7 DEF RecipientsLoaded
  <2>3. (crossed \/ viewer.customer \notin {Nobody, viewer'.customer}) \in BOOLEAN
    BY <1>b
  <2>4. rosters' \in [RosterSlots -> Roster \cup {Nobody}]
    BY <1>b, <2>1
  <2>5. CASE viewer' = viewer
    <3>1. PreviewTypeOK'
      BY <1>a, <1>b, <2>1, <2>3, <2>4, <2>5 DEF PreviewTypeOK
    <3> QED  BY <1>a, <1>b, <2>1, <2>5, <3>1
             DEF PreviewInv, TemplateOfOpen, NobodySelected, UnderWayIsShown,
                 PreviewIsOfItsTemplate
  <2>6. CASE first # Nobody /\ viewer' = [viewer EXCEPT !.customer = first]
    <3>1. PreviewTypeOK'
      BY <1>a, <1>b, <2>1, <2>3, <2>4, <2>6 DEF PreviewTypeOK
    <3> QED  BY <1>a, <1>b, <2>1, <2>6, <3>1
             DEF PreviewInv, TemplateOfOpen, NobodySelected, UnderWayIsShown,
                 PreviewIsOfItsTemplate
  <2> QED  BY <2>2, <2>5, <2>6
<1>8. ASSUME NEW r \in RosterSlots, RecipientsFail(r) PROVE PreviewInv'
  <2>1. viewer' = viewer /\ renders' = renders /\ crossed' = crossed
        /\ rosters' = [rosters EXCEPT ![r] = Nobody]
    BY <1>8 DEF RecipientsFail
  <2>2. renderUsed' \in [calls : 0..MaxRenders, faults : 0..MaxRenderFaults]
    BY <1>a, <1>8, RenderCounted DEF RecipientsFail
  <2>3. rosters' \in [RosterSlots -> Roster \cup {Nobody}]
    BY <1>b, <2>1
  <2> QED  BY <1>a, <1>b, <2>1, <2>2, <2>3 DEF PreviewInv, TemplateOfOpen, PreviewTypeOK,
                                         NobodySelected, UnderWayIsShown, PreviewIsOfItsTemplate
<1>9. CASE UNCHANGED previewVars
  BY <1>a, <1>9 DEF previewVars, PreviewInv, TemplateOfOpen, PreviewTypeOK, NobodySelected,
                          UnderWayIsShown, PreviewIsOfItsTemplate
<1> QED  BY <1>1, <1>2, <1>3, <1>4, <1>5, <1>6, <1>7, <1>8, <1>9 DEF PreviewNext

\* However the modal is closed and opened, its calls fail and the customers are
\* loaded again, the bubble is of the template and the customer it names, unless
\* previews crossed or a load took the selection back: handleOpenPreview,
\* handlePreviewCustomerChange and fetchTemplatesAndCustomers of templates/page.tsx.
THEOREM PreviewShowsItsTemplate == PreviewSpec => []PreviewIsOfItsTemplate
<1>1. PreviewInv => PreviewIsOfItsTemplate
  BY DEF PreviewInv
<1> QED  BY <1>1, PreviewInvInit, PreviewInvStep, PTL DEF PreviewSpec

-----------------------------------------------------------------------------
(* The dashboard.                                                          *)

\* Once the initial load is applied, each source was heard or is marked.
HeardOrMarked == ~board.loading => Sources \subseteq board.heard \cup board.error
HeardIsCounted == "campaigns" \in board.heard => board.counted
BoardShape ==
  /\ loads \in [Loads -> [active : BOOLEAN, got : Settled]]
  /\ board \in [loading : BOOLEAN, refreshing : BOOLEAN, banner : BOOLEAN,
                heard : SUBSET Sources, error : SUBSET Sources, counted : BOOLEAN]
BoardInv == BoardShape /\ HeardOrMarked /\ HeardIsCounted

\* The dashboard starts with its initial load.
LEMMA BoardInvInit == BoardInit => BoardInv
<1> SUFFICES ASSUME BoardInit PROVE BoardInv
  OBVIOUS
<1>1. Idle \in Settled
  BY DEF Idle, Settled
<1>2. \A l \in Loads : (l = "initial") \in BOOLEAN
  OBVIOUS
<1>3. loads \in [Loads -> [active : BOOLEAN, got : Settled]]
  BY <1>1, <1>2 DEF BoardInit
<1> QED  BY <1>3 DEF BoardInit, BoardInv, BoardShape, HeardOrMarked, HeardIsCounted

\* What a load that has settled does to the page.
LEMMA LoadApplied ==
  ASSUME BoardInv, NEW got \in Settled, Which(got, "waiting") = {}, NEW initial \in BOOLEAN
  PROVE  LET b == Applied(got, initial)
         IN /\ b \in [loading : BOOLEAN, refreshing : BOOLEAN, banner : BOOLEAN,
                      heard : SUBSET Sources, error : SUBSET Sources, counted : BOOLEAN]
            /\ ~b.loading \/ initial => Sources \subseteq b.heard \cup b.error
            /\ "campaigns" \in b.heard => b.counted
<1> DEFINE heard == board.heard \cup Which(got, "ok")
           error == (board.error \cup (IF initial THEN Which(got, "failed") ELSE {}))
                      \ Which(got, "ok")
           counted == board.counted \/ got["campaigns"] = "ok" \/ (initial /\ got["health"] = "ok")
           banner == IF initial THEN Which(got, "failed") = Sources ELSE board.banner
<1>1. heard \in SUBSET Sources /\ error \in SUBSET Sources
  BY DEF BoardInv, BoardShape, Which
<1>2. board.counted \in BOOLEAN /\ board.banner \in BOOLEAN /\ board.loading \in BOOLEAN
  BY DEF BoardInv, BoardShape
<1>3. counted \in BOOLEAN /\ banner \in BOOLEAN
  BY <1>2
<1>4. "campaigns" \in heard => counted
  BY DEF BoardInv, HeardIsCounted, Which
<1>5. ~board.loading \/ initial => Sources \subseteq heard \cup error
  BY DEF BoardInv, HeardOrMarked, Which, Settled
<1>6. Applied(got, initial) = [board EXCEPT !.heard = heard, !.error = error, !.counted = counted,
                                            !.banner = banner]
  BY DEF Applied
<1> HIDE DEF heard, error, counted, banner
<1> QED  BY <1>1, <1>2, <1>3, <1>4, <1>5, <1>6 DEF BoardInv, BoardShape

\* Each step of the dashboard keeps its invariant.
LEMMA BoardInvStep == BoardInv /\ [BoardNext]_boardVars => BoardInv'
<1> SUFFICES ASSUME BoardInv, [BoardNext]_boardVars PROVE BoardInv'
  OBVIOUS
<1>a. /\ loads \in [Loads -> [active : BOOLEAN, got : Settled]]
      /\ board \in [loading : BOOLEAN, refreshing : BOOLEAN, banner : BOOLEAN,
                    heard : SUBSET Sources, error : SUBSET Sources, counted : BOOLEAN]
      /\ HeardOrMarked /\ HeardIsCounted
  BY DEF BoardInv, BoardShape
<1>b. Idle \in Settled
  BY DEF Idle, Settled
<1>1. CASE BoardRefresh
  BY <1>a, <1>b, <1>1 DEF BoardRefresh, BoardInv, BoardShape, HeardOrMarked, HeardIsCounted, Loads
<1>2. ASSUME NEW l \in Loads, NEW s \in Sources, Settle(l, s) PROVE BoardInv'
  <2>1. board' = board
    BY <1>2 DEF Settle
  <2>2. PICK how \in {"ok", "failed"} : loads' = [loads EXCEPT ![l].got[s] = how]
    BY <1>2 DEF Settle
  <2>3. [loads[l].got EXCEPT ![s] = how] \in Settled
    BY <1>a DEF Settled
  <2>4. loads' = [loads EXCEPT ![l] = [loads[l] EXCEPT !.got = [loads[l].got EXCEPT ![s] = how]]]
    BY <1>a, <2>2
  <2>5. loads' \in [Loads -> [active : BOOLEAN, got : Settled]]
    BY <1>a, <2>3, <2>4
  <2> QED  BY <1>a, <2>1, <2>5 DEF BoardInv, BoardShape, HeardOrMarked, HeardIsCounted
<1>3. ASSUME NEW l \in Loads, ApplyLoad(l) PROVE BoardInv'
  <2> DEFINE b == Applied(loads[l].got, l = "initial")
  <2>1. (l = "initial") \in BOOLEAN /\ loads[l].got \in Settled
    BY <1>a
  <2>2. Which(loads[l].got, "waiting") = {}
    BY <1>3 DEF ApplyLoad
  <2>3. /\ b \in [loading : BOOLEAN, refreshing : BOOLEAN, banner : BOOLEAN,
                  heard : SUBSET Sources, error : SUBSET Sources, counted : BOOLEAN]
        /\ ~b.loading \/ l = "initial" => Sources \subseteq b.heard \cup b.error
        /\ "campaigns" \in b.heard => b.counted
    BY <2>1, <2>2, LoadApplied
  <2>4. board' = IF l = "initial" THEN [b EXCEPT !.loading = FALSE]
                 ELSE [b EXCEPT !.refreshing = FALSE]
    BY <1>3 DEF ApplyLoad
  <2>5. loads' = [loads EXCEPT ![l] = [active |-> FALSE, got |-> Idle]]
    BY <1>3 DEF ApplyLoad
  <2> HIDE DEF b
  <2> QED  BY <1>a, <1>b, <2>3, <2>4, <2>5 DEF BoardInv, BoardShape, HeardOrMarked, HeardIsCounted
<1>4. CASE UNCHANGED boardVars
  BY <1>a, <1>4 DEF boardVars, BoardInv, BoardShape, HeardOrMarked, HeardIsCounted
<1> QED  BY <1>1, <1>2, <1>3, <1>4 DEF BoardNext

\* However often a refresh overtakes the initial load and whatever of them fails,
\* a card whose number was not heard is marked, and no panel shows a list that
\* was not: applyResults of page.tsx.
THEOREM DashboardMarksUnheard == BoardSpec => []UnheardIsMarked
<1>1. BoardInv => UnheardIsMarked
  BY DEF BoardInv, BoardShape, HeardOrMarked, HeardIsCounted, UnheardIsMarked, StatCard, Panel,
         StatCardValue, StatCardMarked, StatCardSource, PanelShows, Sources
<1> QED  BY <1>1, BoardInvInit, BoardInvStep, PTL DEF BoardSpec

-----------------------------------------------------------------------------
(* The session.                                                            *)

Tab == [status : {"loading", "authenticated", "unauthenticated"},
        path : {"app", "login"}, submitting : BOOLEAN, loggingOut : BOOLEAN]

\* The session check is under way only while the page loads and nothing else is, so
\* that its cookie is the one of the browser unless that ran out.
CheckIsAlone ==
  \A l \in Lines : line[l] # Free /\ line[l].kind = "me" =>
    /\ tab.status = "loading"
    /\ line[l].cookie = cookie \/ (cookie = 0 /\ gone = "expired")
    /\ \A m \in Lines : m # l => line[m] = Free

\* A call that was granted had, or was given, a token.
GrantedHasToken ==
  \A l \in Lines : line[l] # Free /\ line[l].answer = "ok" =>
    /\ line[l].kind = "me" => line[l].cookie # 0
    /\ line[l].kind = "login" => line[l].token # 0

\* A login whose headers arrived and that will sign the tab in has its cookie, unless
\* that ran out or a logout crossed it.
HalfReadHasCookie ==
  LoginHalfRead => cookie # 0 \/ gone \in {"expired", "crossed"}

HeadersAreOfAnswers ==
  \A l \in Lines : line[l] # Free /\ line[l].headers => line[l].answer # "none"

CallsInv == CheckIsAlone /\ GrantedHasToken /\ HalfReadHasCookie /\ HeadersAreOfAnswers
SessionInv == SessionTypeOK /\ CallsInv /\ SignedInHoldsSession

\* A call that is sent carries the cookie and has no answer.
LEMMA SentCall ==
  ASSUME cookie \in Token, NEW kind \in {"me", "login", "logout", "data"}, NEW right \in BOOLEAN
  PROVE  /\ NewSessionCall(kind, right) \in SessionCall
         /\ NewSessionCall(kind, right).kind = kind
         /\ NewSessionCall(kind, right).cookie = cookie
         /\ NewSessionCall(kind, right).answer = "none"
         /\ NewSessionCall(kind, right).headers = FALSE
BY SessionBounds DEF NewSessionCall, SessionCall, Token

\* The tab as it is opened or reloaded.
LEMMA Loaded ==
  ASSUME cookie \in Token, tab.status = "loading", NEW first,
         line = [l \in Lines |-> IF l = first THEN NewSessionCall("me", TRUE) ELSE Free]
  PROVE  line \in [Lines -> SessionCall \cup {Free}] /\ CallsInv
<1> DEFINE call == NewSessionCall("me", TRUE)
<1>1. /\ call \in SessionCall /\ call.kind = "me" /\ call.cookie = cookie /\ call.answer = "none"
      /\ call.headers = FALSE
  BY SentCall
<1>2. line = [l \in Lines |-> IF l = first THEN call ELSE Free]
  OBVIOUS
<1> HIDE DEF call
<1> QED  BY <1>1, <1>2 DEF CallsInv, CheckIsAlone, GrantedHasToken, HalfReadHasCookie,
                           LoginHalfRead, HeadersAreOfAnswers

\* A tab starts with the check of its session.
LEMMA SessionInvInit == SessionInit => SessionInv
<1> SUFFICES ASSUME SessionInit PROVE SessionInv
  OBVIOUS
<1>1. /\ cookie \in Token /\ gone = "logout" /\ issuer = [issued |-> 1, expired |-> {}]
      /\ tab = [status |-> "loading", path |-> "app", submitting |-> FALSE, loggingOut |-> FALSE]
      /\ sessionTally = [calls |-> 0, faults |-> 0]
  BY SessionBounds DEF SessionInit, SessionStart, Token
<1>2. line \in [Lines -> SessionCall \cup {Free}] /\ CallsInv
  <2> DEFINE first == CHOOSE l \in Lines : TRUE
  <2>1. line = [l \in Lines |-> IF l = first THEN NewSessionCall("me", TRUE) ELSE Free]
    BY DEF SessionInit, SessionStart
  <2> HIDE DEF first
  <2> QED  BY <1>1, <2>1, Loaded
<1>3. SessionTypeOK
  BY <1>1, <1>2, SessionBounds DEF SessionTypeOK, Token
<1> QED  BY <1>1, <1>2, <1>3 DEF SessionInv, SignedInHoldsSession

\* The bound on calls is kept.
LEMMA SpendCounted ==
  ASSUME SessionTypeOK, SessionSpend
  PROVE  sessionTally' \in [calls : 0..MaxSessionCalls, faults : 0..MaxSessionFaults]
BY SessionBounds DEF SessionTypeOK, SessionSpend

\* Calls end, and those that go on are what they were.
GoesOn(l) ==
  \/ line'[l] = Free
  \/ /\ line[l] # Free /\ line'[l] # Free
     /\ line'[l].kind = line[l].kind /\ line'[l].cookie = line[l].cookie
     /\ line'[l].answer = line[l].answer /\ line'[l].token = line[l].token
     /\ line'[l].headers = line[l].headers

LEMMA CallsKept ==
  ASSUME SessionInv, UNCHANGED <<cookie, gone>>, \A l \in Lines : GoesOn(l),
         \/ tab'.status = tab.status
         \/ \A l \in Lines : line'[l] # Free => line'[l].kind # "me"
  PROVE  CallsInv'
<1>1. CheckIsAlone'
  BY DEF SessionInv, CallsInv, CheckIsAlone, GoesOn
<1>2. GrantedHasToken'
  BY DEF SessionInv, CallsInv, GrantedHasToken, GoesOn
<1>3. HalfReadHasCookie'
  BY DEF SessionInv, CallsInv, HalfReadHasCookie, LoginHalfRead, GoesOn
<1>4. HeadersAreOfAnswers'
  BY DEF SessionInv, CallsInv, HeadersAreOfAnswers, GoesOn
<1> QED  BY <1>1, <1>2, <1>3, <1>4 DEF CallsInv

\* A call whose page is left stays the call it is.
LEMMA Unmounted ==
  ASSUME NEW call \in SessionCall
  PROVE  LET left == [call EXCEPT !.mounted = FALSE]
         IN /\ left \in SessionCall /\ left # Free
            /\ left.kind = call.kind /\ left.cookie = call.cookie /\ left.answer = call.answer
            /\ left.token = call.token /\ left.headers = call.headers
BY FreeIsNoCall DEF SessionCall

\* The tab goes to another page: its calls go on.
LEMMA GoKeeps ==
  ASSUME SessionInv, NEW path \in {"app", "login"}, GoTo(path),
         UNCHANGED <<cookie, gone, issuer, sessionTally>>
  PROVE  SessionInv'
<1>1. tab \in Tab /\ line \in [Lines -> SessionCall \cup {Free}]
  BY DEF SessionInv, SessionTypeOK, Tab
<1>2. tab' \in Tab /\ tab'.status = tab.status
  BY <1>1 DEF GoTo, Tab
<1>3. ASSUME NEW l \in Lines
      PROVE  /\ GoesOn(l) /\ line'[l] \in SessionCall \cup {Free}
             /\ line[l] # Free => line'[l] # Free
  <2>1. line'[l] = IF line[l] = Free THEN Free ELSE [line[l] EXCEPT !.mounted = FALSE]
    BY DEF GoTo
  <2>2. CASE line[l] = Free
    BY <2>1, <2>2 DEF GoesOn
  <2>3. CASE line[l] # Free
    <3>1. line[l] \in SessionCall
      BY <1>1, <2>3
    <3> QED  BY <2>1, <2>3, <3>1, Unmounted DEF GoesOn
  <2> QED  BY <2>2, <2>3
<1>4. line' \in [Lines -> SessionCall \cup {Free}]
  BY <1>3 DEF GoTo
<1>5. SessionTypeOK'
  BY <1>2, <1>4 DEF SessionInv, SessionTypeOK, Tab
<1>6. CallsInv'
  BY <1>2, <1>3, CallsKept
<1>7. SignedInHoldsSession'
  BY <1>2, <1>3 DEF SessionInv, SignedInHoldsSession, GoesOn
<1> QED  BY <1>5, <1>6, <1>7 DEF SessionInv

\* A button or a page asks, which it does only once the session was checked.
LEMMA AskKeeps ==
  ASSUME SessionInv, NEW kind \in {"login", "logout", "data"}, NEW right \in BOOLEAN,
         Rendered, SessionAsk(kind, right), UNCHANGED <<cookie, gone, issuer>>,
         tab'.status = tab.status, tab' \in Tab
  PROVE  SessionInv'
<1> DEFINE call == NewSessionCall(kind, right)
<1>0. cookie \in Token /\ kind \in {"me", "login", "logout", "data"}
  BY DEF SessionInv, SessionTypeOK
<1>1. call \in SessionCall /\ call.kind = kind /\ call.answer = "none" /\ call.headers = FALSE
  BY <1>0, SentCall
<1>2. PICK l \in Lines : line[l] = Free /\ line' = [line EXCEPT ![l] = call]
  BY DEF SessionAsk
<1> HIDE DEF call
<1>3. line \in [Lines -> SessionCall \cup {Free}]
  BY DEF SessionInv, SessionTypeOK
<1>4. SessionTypeOK'
  BY <1>1, <1>2, <1>3, SpendCounted DEF SessionInv, SessionTypeOK, SessionAsk, Tab
<1>5. CheckIsAlone'
  BY <1>1, <1>2, <1>3 DEF SessionInv, CallsInv, CheckIsAlone, Rendered
<1>6. GrantedHasToken' /\ HeadersAreOfAnswers'
  BY <1>1, <1>2, <1>3 DEF SessionInv, CallsInv, GrantedHasToken, HeadersAreOfAnswers
<1>7. HalfReadHasCookie'
  BY <1>1, <1>2, <1>3 DEF SessionInv, CallsInv, HalfReadHasCookie, LoginHalfRead
<1>8. SignedInHoldsSession'
  BY <1>1, <1>2, <1>3 DEF SessionInv, SignedInHoldsSession
<1> QED  BY <1>4, <1>5, <1>6, <1>7, <1>8 DEF SessionInv, CallsInv

\* The call of a line is over: no other can be the check.
LEMMA DoneKeeps ==
  ASSUME SessionInv, NEW l \in Lines, SessionDone(l), line[l] # Free, tab' \in Tab,
         SignedInHoldsSession'
  PROVE  SessionInv'
<1>1. /\ line' = [line EXCEPT ![l] = Free]
      /\ UNCHANGED <<cookie, gone, issuer, sessionTally>>
      /\ line \in [Lines -> SessionCall \cup {Free}]
  BY DEF SessionInv, SessionTypeOK, SessionDone
<1>2. SessionTypeOK'
  BY <1>1 DEF SessionInv, SessionTypeOK, Tab
<1>3. \A m \in Lines : GoesOn(m) /\ (line'[m] # Free => line'[m].kind # "me")
  BY <1>1 DEF SessionInv, CallsInv, CheckIsAlone, GoesOn
<1>4. CallsInv'
  BY <1>1, <1>3, CallsKept
<1> QED  BY <1>2, <1>4 DEF SessionInv

\* Each step of the session keeps its invariant.
LEMMA SessionInvStep == SessionInv /\ [SessionNext]_sessionVars => SessionInv'
<1> SUFFICES ASSUME SessionInv, [SessionNext]_sessionVars PROVE SessionInv'
  OBVIOUS
<1>a. /\ cookie \in Token /\ gone \in {"expired", "logout", "crossed"}
      /\ issuer \in [issued : Token, expired : SUBSET Token]
      /\ tab \in Tab /\ line \in [Lines -> SessionCall \cup {Free}]
      /\ sessionTally \in [calls : 0..MaxSessionCalls, faults : 0..MaxSessionFaults]
      /\ SessionTypeOK /\ CallsInv /\ SignedInHoldsSession
      /\ CheckIsAlone /\ GrantedHasToken /\ HalfReadHasCookie /\ HeadersAreOfAnswers
  BY DEF SessionInv, CallsInv, SessionTypeOK, Tab
<1>1. CASE Reload
  <2>1. tab' \in Tab /\ tab'.status = "loading" /\ UNCHANGED <<cookie, gone, issuer>>
    BY <1>a, <1>1 DEF Reload, Tab
  <2>2. line' \in [Lines -> SessionCall \cup {Free}] /\ CallsInv'
    <3> DEFINE call == NewSessionCall("me", TRUE)
               first == CHOOSE l \in Lines : TRUE
    <3>1. /\ call \in SessionCall /\ call.kind = "me" /\ call.cookie = cookie
          /\ call.answer = "none" /\ call.headers = FALSE
      BY <1>a, SentCall
    <3>2. line' = [l \in Lines |-> IF l = first THEN call ELSE Free]
      BY <1>1 DEF Reload
    <3> HIDE DEF call, first
    <3> QED  BY <2>1, <3>1, <3>2 DEF CallsInv, CheckIsAlone, GrantedHasToken,
                                     HalfReadHasCookie, LoginHalfRead, HeadersAreOfAnswers
  <2>3. sessionTally' \in [calls : 0..MaxSessionCalls, faults : 0..MaxSessionFaults]
    BY <1>a, <1>1, SpendCounted DEF Reload
  <2>4. SessionTypeOK'
    BY <1>a, <2>1, <2>2, <2>3 DEF SessionTypeOK, Tab
  <2> QED  BY <2>1, <2>2, <2>4 DEF SessionInv, SignedInHoldsSession
<1>2. CASE Redirect \/ Navigate
  BY <1>2, GoKeeps DEF Redirect, Navigate
<1>3. CASE Logout
  <2>1. tab' \in Tab /\ tab'.status = tab.status
    BY <1>a, <1>3 DEF Logout, Tab
  <2> QED  BY <1>3, <2>1, AskKeeps DEF Logout
<1>4. CASE LoadPage
  <2>1. tab' \in Tab /\ tab'.status = tab.status
    BY <1>a, <1>4 DEF LoadPage
  <2> QED  BY <1>4, <2>1, AskKeeps DEF LoadPage
<1>5. ASSUME NEW right \in BOOLEAN, Login(right) PROVE SessionInv'
  <2>1. tab' \in Tab /\ tab'.status = tab.status
    BY <1>a, <1>5 DEF Login, Tab
  <2> QED  BY <1>5, <2>1, AskKeeps DEF Login
<1>6. CASE Expire
  <2>1. PICK token \in 1..issuer.issued : issuer' = [issuer EXCEPT !.expired = @ \cup {token}]
    BY <1>6 DEF Expire
  <2>2. UNCHANGED <<cookie, gone, tab, line, sessionTally>>
    BY <1>6 DEF Expire
  <2>3. token \in Token
    BY <1>a, <2>1, SessionBounds DEF Token
  <2>4. SessionTypeOK'
    BY <1>a, <2>1, <2>2, <2>3 DEF SessionTypeOK, Tab
  <2>5. CallsInv'
    BY <1>a, <2>2, CallsKept DEF GoesOn
  <2> QED  BY <1>a, <2>2, <2>4, <2>5 DEF SessionInv, SignedInHoldsSession
<1>7. ASSUME NEW l \in Lines, ServeSession(l) PROVE SessionInv'
  <2>1. /\ UNCHANGED <<cookie, gone, tab, sessionTally>>
        /\ line[l] \in SessionCall /\ line[l] # Free /\ line[l].headers = FALSE
    BY <1>a, <1>7 DEF ServeSession, HeadersAreOfAnswers, SessionCall
  <2>2. PICK answer \in {"ok", "denied"}, token \in Token :
          /\ line' = [line EXCEPT ![l] = [line[l] EXCEPT !.answer = answer, !.token = token]]
          /\ issuer' \in [issued : Token, expired : SUBSET Token]
          /\ answer = "ok" /\ line[l].kind = "me" => line[l].cookie # 0
          /\ answer = "ok" /\ line[l].kind = "login" => token # 0
    <3>1. CASE line[l].kind = "login" /\ line[l].right
      <4>1. issuer.issued + 1 \in Token /\ issuer.issued + 1 # 0
        BY <1>a, <1>7, <3>1, SessionBounds DEF ServeSession, Token
      <4>2. line' = [line EXCEPT ![l] = [line[l] EXCEPT !.answer = "ok",
                                                        !.token = issuer.issued + 1]]
        BY <1>a, <1>7, <2>1, <3>1 DEF ServeSession
      <4>3. issuer' = [issuer EXCEPT !.issued = issuer.issued + 1]
        BY <1>a, <1>7, <2>1, <3>1 DEF ServeSession
      <4> QED  BY <1>a, <3>1, <4>1, <4>2, <4>3
    <3>2. ASSUME NEW answer \in {"ok", "denied"}, ~(line[l].kind = "login" /\ answer = "ok"),
                 answer = "ok" /\ line[l].kind = "me" => line[l].cookie # 0,
                 line' = [line EXCEPT ![l].answer = answer], issuer' = issuer
          PROVE  \E a \in {"ok", "denied"}, token \in Token :
                   /\ line' = [line EXCEPT ![l] = [line[l] EXCEPT !.answer = a, !.token = token]]
                   /\ issuer' \in [issued : Token, expired : SUBSET Token]
                   /\ a = "ok" /\ line[l].kind = "me" => line[l].cookie # 0
                   /\ a = "ok" /\ line[l].kind = "login" => token # 0
      <4>1. line[l].token \in Token
        BY <2>1 DEF SessionCall
      <4>2. [line[l] EXCEPT !.answer = answer]
              = [line[l] EXCEPT !.answer = answer, !.token = line[l].token]
        BY <2>1 DEF SessionCall
      <4> QED  BY <1>a, <3>2, <4>1, <4>2
    <3>3. CASE ~(line[l].kind = "login" /\ line[l].right)
      <4>1. issuer' = issuer
        BY <1>7, <2>1, <3>3 DEF ServeSession
      <4>2. CASE line[l].kind = "login"
        <5>1. line' = [line EXCEPT ![l].answer = "denied"]
          BY <1>7, <2>1, <3>3, <4>2 DEF ServeSession
        <5> QED  BY <3>2, <4>1, <5>1
      <4>3. CASE line[l].kind = "logout"
        <5>1. line' = [line EXCEPT ![l].answer = "ok"]
          BY <1>7, <2>1, <4>3 DEF ServeSession
        <5> QED  BY <3>2, <4>1, <4>3, <5>1
      <4>4. CASE line[l].kind \notin {"login", "logout"}
        <5>1. line' = [line EXCEPT ![l].answer =
                         IF Admitted(line[l].cookie) THEN "ok" ELSE "denied"]
          BY <1>7, <2>1, <4>4 DEF ServeSession
        <5>2. CASE Admitted(line[l].cookie)
          BY <3>2, <4>1, <4>4, <5>1, <5>2 DEF Admitted
        <5>3. CASE ~Admitted(line[l].cookie)
          BY <3>2, <4>1, <4>4, <5>1, <5>3
        <5> QED  BY <5>2, <5>3
      <4> QED  BY <4>2, <4>3, <4>4
    <3> QED  BY <3>1, <3>3
  <2> DEFINE served == [line[l] EXCEPT !.answer = answer, !.token = token]
  <2>3. /\ served \in SessionCall /\ served.kind = line[l].kind /\ served.cookie = line[l].cookie
        /\ served.answer = answer /\ served.token = token /\ served.headers = FALSE
    BY <2>1 DEF SessionCall
  <2>4. line' = [line EXCEPT ![l] = served]
    BY <2>2
  <2> HIDE DEF served
  <2>5. line' \in [Lines -> SessionCall \cup {Free}]
    BY <1>a, <2>3, <2>4
  <2>6. SessionTypeOK'
    BY <1>a, <2>1, <2>2, <2>5 DEF SessionTypeOK, Tab
  <2>7. CheckIsAlone'
    BY <1>a, <2>1, <2>3, <2>4 DEF CheckIsAlone
  <2>8. GrantedHasToken' /\ HeadersAreOfAnswers'
    BY <1>a, <2>1, <2>2, <2>3, <2>4 DEF GrantedHasToken, HeadersAreOfAnswers
  <2>9. HalfReadHasCookie'
    BY <1>a, <2>1, <2>3, <2>4 DEF HalfReadHasCookie, LoginHalfRead
  <2>10. SignedInHoldsSession'
    BY <1>a, <2>1, <2>3, <2>4 DEF SignedInHoldsSession
  <2> QED  BY <2>6, <2>7, <2>8, <2>9, <2>10 DEF SessionInv, CallsInv
<1>8. ASSUME NEW l \in Lines, LoseSessionCall(l) PROVE SessionInv'
  <2> DEFINE lost == [line[l] EXCEPT !.answer = "failed"]
  <2>1. /\ line[l] \in SessionCall /\ line[l] # Free /\ line' = [line EXCEPT ![l] = lost]
        /\ UNCHANGED <<cookie, gone, issuer, tab>>
    BY <1>a, <1>8 DEF LoseSessionCall
  <2>2. /\ lost \in SessionCall /\ lost # Free
        /\ lost.kind = line[l].kind /\ lost.cookie = line[l].cookie
        /\ lost.headers = line[l].headers /\ lost.answer = "failed"
    BY <2>1, FreeIsNoCall DEF SessionCall
  <2>3. sessionTally' \in [calls : 0..MaxSessionCalls, faults : 0..MaxSessionFaults]
    BY <1>a, <1>8, SessionBounds DEF LoseSessionCall
  <2> HIDE DEF lost
  <2>4. SessionTypeOK'
    BY <1>a, <2>1, <2>2, <2>3 DEF SessionTypeOK, Tab
  <2>5. CallsInv'
    BY <1>a, <2>1, <2>2 DEF CallsInv, CheckIsAlone, GrantedHasToken, HalfReadHasCookie,
                            LoginHalfRead, HeadersAreOfAnswers
  <2>6. SignedInHoldsSession'
    BY <1>a, <2>1, <2>2 DEF SignedInHoldsSession
  <2> QED  BY <2>4, <2>5, <2>6 DEF SessionInv
<1>9. ASSUME NEW l \in Lines, SessionChecked(l) PROVE SessionInv'
  <2>1. /\ line[l] # Free /\ line[l].kind = "me" /\ SessionDone(l)
        /\ tab' \in Tab /\ UNCHANGED <<cookie, gone>>
        /\ tab'.status = "authenticated" => line[l].answer = "ok"
    BY <1>a, <1>9 DEF SessionChecked, SessionAnswered, SessionDone, Tab
  <2>2. SignedInHoldsSession'
    BY <1>a, <2>1 DEF SignedInHoldsSession, CheckIsAlone, GrantedHasToken
  <2> QED  BY <2>1, <2>2, DoneKeeps
<1>10. ASSUME NEW l \in Lines, LoggedIn(l) PROVE SessionInv'
  <2>1. line[l] # Free /\ line[l].kind = "login" /\ line[l] \in SessionCall
    BY <1>a, <1>10 DEF LoggedIn, SessionAnswered
  <2>2. CASE line[l].answer = "ok"
    <3>1. /\ tab' \in Tab /\ UNCHANGED <<cookie, gone, issuer, sessionTally>>
          /\ line' = [m \in Lines |-> IF m = l \/ line[m] = Free THEN Free
                                      ELSE [line[m] EXCEPT !.mounted = FALSE]]
      BY <1>a, <1>10, <2>2 DEF LoggedIn, Tab
    <3>2. ASSUME NEW m \in Lines
          PROVE  /\ GoesOn(m) /\ line'[m] \in SessionCall \cup {Free}
                 /\ line'[m] # Free => line'[m].kind # "me"
      <4>1. CASE m = l \/ line[m] = Free
        BY <3>1, <4>1 DEF GoesOn
      <4>2. CASE m # l /\ line[m] # Free
        <5>1. line[m] \in SessionCall /\ line[m].kind # "me"
          BY <1>a, <2>1, <4>2 DEF CheckIsAlone
        <5>2. line'[m] = [line[m] EXCEPT !.mounted = FALSE]
          BY <3>1, <4>2
        <5> QED  BY <4>2, <5>1, <5>2, Unmounted DEF GoesOn
      <4> QED  BY <4>1, <4>2
    <3>3. line' \in [Lines -> SessionCall \cup {Free}]
      BY <3>1, <3>2
    <3>4. SessionTypeOK'
      BY <1>a, <3>1, <3>3 DEF SessionTypeOK, Tab
    <3>5. CallsInv'
      BY <3>1, <3>2, CallsKept
    <3>6. LoginHalfRead
      BY <1>10, <2>1, <2>2 DEF LoggedIn, SessionAnswered, LoginHalfRead
    <3> QED  BY <1>a, <3>1, <3>4, <3>5, <3>6 DEF SessionInv, SignedInHoldsSession,
                                                 HalfReadHasCookie
  <2>3. CASE line[l].answer # "ok"
    <3>1. SessionDone(l) /\ tab' \in Tab /\ tab'.status = tab.status
      BY <1>a, <1>10, <2>3 DEF LoggedIn, Tab, SessionCall
    <3>2. SignedInHoldsSession'
      BY <1>a, <2>1, <3>1 DEF SignedInHoldsSession, SessionDone
    <3> QED  BY <2>1, <3>1, <3>2, DoneKeeps
  <2> QED  BY <2>2, <2>3
<1>11. ASSUME NEW l \in Lines, LoggedOut(l) PROVE SessionInv'
  <2>1. /\ line[l] # Free /\ SessionDone(l)
        /\ tab' \in Tab /\ tab'.status = "unauthenticated"
    BY <1>a, <1>11 DEF LoggedOut, SessionAnswered, Tab
  <2> QED  BY <2>1, DoneKeeps DEF SignedInHoldsSession
<1>12. ASSUME NEW l \in Lines, PageLoaded(l) PROVE SessionInv'
  <2>1. /\ line[l] # Free /\ line[l].kind = "data" /\ SessionDone(l) /\ tab' \in Tab
        /\ tab'.status = tab.status \/ tab'.status = "unauthenticated"
    BY <1>a, <1>12 DEF PageLoaded, SessionAnswered, Tab
  <2>2. SignedInHoldsSession'
    BY <1>a, <2>1 DEF SignedInHoldsSession, SessionDone
  <2> QED  BY <2>1, <2>2, DoneKeeps
<1>13. CASE CookieExpires
  <2>1. cookie' = 0 /\ gone' = "expired" /\ UNCHANGED <<issuer, tab, line, sessionTally>>
    BY <1>13 DEF CookieExpires
  <2>2. SessionTypeOK'
    BY <1>a, <2>1, SessionBounds DEF SessionTypeOK, Token, Tab
  <2> QED  BY <1>a, <2>1, <2>2 DEF SessionInv, CallsInv, CheckIsAlone, GrantedHasToken,
                                  HalfReadHasCookie, HeadersAreOfAnswers, SignedInHoldsSession
<1>14. ASSUME NEW l \in Lines, HeadersArrive(l) PROVE SessionInv'
  <2> DEFINE heard == [line[l] EXCEPT !.headers = TRUE]
  <2>1. /\ line[l] \in SessionCall /\ line[l] # Free /\ line[l].kind \in {"login", "logout"}
        /\ line[l].answer = "ok" /\ line' = [line EXCEPT ![l] = heard]
        /\ UNCHANGED <<issuer, tab, sessionTally>>
    BY <1>a, <1>14 DEF HeadersArrive
  <2>2. /\ heard \in SessionCall /\ heard # Free /\ heard.kind = line[l].kind
        /\ heard.cookie = line[l].cookie /\ heard.answer = "ok"
        /\ heard.token = line[l].token /\ heard.headers = TRUE
    BY <2>1, FreeIsNoCall DEF SessionCall
  <2> HIDE DEF heard
  <2>3. \A m \in Lines : line[m] # Free => line[m].kind # "me"
    BY <1>a, <2>1 DEF CheckIsAlone
  <2>4. CheckIsAlone' /\ GrantedHasToken' /\ HeadersAreOfAnswers'
    BY <1>a, <2>1, <2>2, <2>3 DEF CheckIsAlone, GrantedHasToken, HeadersAreOfAnswers
  <2>5. CASE line[l].kind = "login"
    <3>1. cookie' = line[l].token /\ gone' = gone
      BY <1>14, <2>5 DEF HeadersArrive
    <3>2. line[l].token \in Token /\ line[l].token # 0
      BY <1>a, <2>1, <2>5 DEF GrantedHasToken, SessionCall
    <3>3. SessionTypeOK'
      BY <1>a, <2>1, <2>2, <3>1, <3>2 DEF SessionTypeOK, Tab
    <3> QED  BY <2>4, <3>1, <3>2, <3>3 DEF SessionInv, CallsInv, HalfReadHasCookie,
                                           SignedInHoldsSession
  <2>6. CASE line[l].kind = "logout"
    <3>1. /\ cookie' = 0
          /\ gone' = IF cookie = 0 THEN gone ELSE IF LoginHalfRead THEN "crossed" ELSE "logout"
      BY <1>14, <2>6 DEF HeadersArrive
    <3>2. SessionTypeOK'
      BY <1>a, <2>1, <2>2, <3>1, SessionBounds DEF SessionTypeOK, Token, Tab
    <3>3. LoginHalfRead' => LoginHalfRead
      BY <1>a, <2>1, <2>2, <2>6 DEF LoginHalfRead
    <3>4. HalfReadHasCookie'
      BY <1>a, <3>1, <3>3 DEF HalfReadHasCookie
    <3>5. SignedInHoldsSession'
      BY <1>a, <2>1, <2>2, <2>6 DEF SignedInHoldsSession
    <3> QED  BY <2>4, <3>2, <3>4, <3>5 DEF SessionInv, CallsInv
  <2> QED  BY <2>1, <2>5, <2>6
<1>15. CASE UNCHANGED sessionVars
  <2>1. UNCHANGED <<cookie, gone, issuer, tab, line, sessionTally>>
    BY <1>15 DEF sessionVars
  <2>2. SessionTypeOK'
    BY <1>a, <2>1 DEF SessionTypeOK, Tab
  <2>3. CallsInv'
    BY <1>a, <2>1, CallsKept DEF GoesOn
  <2> QED  BY <1>a, <2>1, <2>2, <2>3 DEF SessionInv, SignedInHoldsSession
<1> QED  BY <1>1, <1>2, <1>3, <1>4, <1>5, <1>6, <1>7, <1>8, <1>9, <1>10, <1>11, <1>12, <1>13,
            <1>14, <1>15 DEF SessionNext

\* The invariant of the session holds throughout.
LEMMA SessionInvHolds == SessionSpec => []SessionInv
BY SessionInvInit, SessionInvStep, PTL DEF SessionSpec

\* Whatever calls are lost or overtake each other, headers before bodies, a
\* signed-in tab holds a session, unless its cookie ran out or a logout crossed
\* the login: AuthProvider over login, logout and me of auth.controller.ts.
THEOREM SignedInTabHoldsSession == SessionSpec => []SignedInHoldsSession
<1>1. SessionInv => SignedInHoldsSession
  BY DEF SessionInv
<1> QED  BY <1>1, SessionInvHolds, PTL

\* And it is signed out by nothing else than a reload, a logout or a denial:
\* the 401 event of api.ts, and logout of auth-context.tsx.
THEOREM SignedOutByDenial == SessionSpec => OnlyDenialSignsOut
<1> DEFINE Allowed ==
      tab.status = "authenticated" /\ tab'.status # "authenticated" =>
       \/ tab'.status = "loading"
       \/ \E l \in Lines : /\ line[l] # Free /\ line'[l] = Free
                           /\ \/ line[l].kind = "logout"
                              \/ line[l].kind = "data" /\ line[l].answer = "denied"
<1>1. SessionInv /\ [SessionNext]_sessionVars => [Allowed]_sessionVars
  <2> SUFFICES ASSUME SessionInv, SessionNext, tab.status = "authenticated",
                      tab'.status # "authenticated", tab'.status # "loading"
               PROVE  \E l \in Lines : /\ line[l] # Free /\ line'[l] = Free
                                       /\ \/ line[l].kind = "logout"
                                          \/ line[l].kind = "data" /\ line[l].answer = "denied"
    OBVIOUS
  <2>a. /\ tab \in [status : {"loading", "authenticated", "unauthenticated"},
                    path : {"app", "login"}, submitting : BOOLEAN, loggingOut : BOOLEAN]
        /\ line \in [Lines -> SessionCall \cup {Free}] /\ CheckIsAlone
    BY DEF SessionInv, SessionTypeOK, CallsInv
  <2>1. /\ ~Reload /\ ~Redirect /\ ~Navigate /\ ~Logout /\ ~LoadPage
        /\ ~Expire /\ ~CookieExpires
    BY <2>a DEF Reload, Redirect, Navigate, GoTo, Logout, LoadPage, Expire, CookieExpires
  <2>2. \A right \in BOOLEAN : ~Login(right)
    BY <2>a DEF Login
  <2>3. \A l \in Lines : ~ServeSession(l) /\ ~LoseSessionCall(l) /\ ~HeadersArrive(l)
    BY DEF ServeSession, LoseSessionCall, HeadersArrive
  <2>4. \A l \in Lines : ~SessionChecked(l) /\ ~LoggedIn(l)
    BY <2>a DEF SessionChecked, LoggedIn, SessionAnswered, CheckIsAlone
  <2>5. ASSUME NEW l \in Lines, LoggedOut(l) \/ PageLoaded(l)
        PROVE  /\ line[l] # Free /\ line'[l] = Free
               /\ line[l].kind = "logout" \/ (line[l].kind = "data" /\ line[l].answer = "denied")
    BY <2>a, <2>5 DEF LoggedOut, PageLoaded, SessionAnswered, SessionDone
  <2> QED  BY <2>1, <2>2, <2>3, <2>4, <2>5 DEF SessionNext
<1> QED  BY <1>1, SessionInvHolds, PTL DEF SessionSpec, OnlyDenialSignsOut

-----------------------------------------------------------------------------
(* The connection page.                                                    *)

TestCall == [at : {"sent", "decided"}, number : TypedNumbers, mode : {"text", "template"},
             verdict : Verdict]
GatewayShape ==
  /\ gatewayConfig \in Config
  /\ connection \in [status : {gatewayConfig, Unheard}, loading : BOOLEAN, refreshing : BOOLEAN,
                     error : BOOLEAN]
  /\ testForm \in [number : TypedNumbers \cup {Unheard}, template : BOOLEAN]
  /\ test \in [call : TestCall \cup {NoTest}, result : TestResult \cup {Unheard}]
  /\ testUsed \in [tests : Nat, refreshes : Nat, lost : Nat]

\* Only a gateway that is live and configured is asked, and what Meta took is known.
Ready == gatewayConfig.live /\ gatewayConfig.configured
ReachedWhenReady ==
  /\ reached # {} => Ready
  /\ test.call.at = "decided" =>
       Ready /\ (test.call.verdict = "accepted" => testUsed.tests \in reached)

\* What a result that did not fail on the page's own call says.
SaysWhatWasDone(result) ==
  IF ~gatewayConfig.live THEN result.ok /\ result.mode = "dry"
  ELSE IF ~gatewayConfig.configured THEN ~result.ok
  ELSE result.mode # "dry" /\ (result.ok => testUsed.tests \in reached)
ResultIsTrue ==
  test.result # Unheard /\ test.result.mode # "none" => SaysWhatWasDone(test.result)

GatewayInv == GatewayShape /\ ReachedWhenReady /\ ResultIsTrue

\* The connection page starts with its status call.
LEMMA GatewayInvInit == GatewayPageInit => GatewayInv
<1> SUFFICES ASSUME GatewayPageInit PROVE GatewayInv
  OBVIOUS
<1>1. GatewayShape
  BY DEF GatewayPageInit, GatewayPageStart, GatewayShape
<1> QED  BY <1>1 DEF GatewayPageInit, GatewayPageStart, GatewayInv, ReachedWhenReady, ResultIsTrue,
                     NoTest

\* The call of a test ends with a result that is true, or that says nothing.
LEMMA ShownKeeps ==
  ASSUME GatewayInv, NEW ok \in BOOLEAN, NEW mode \in TestMode \cup {"none"}, TestShows(ok, mode),
         mode # "none" => SaysWhatWasDone([ok |-> ok, mode |-> mode]),
         UNCHANGED <<gatewayConfig, connection, testForm, reached>>,
         testUsed' \in [tests : Nat, refreshes : Nat, lost : Nat], testUsed'.tests = testUsed.tests
  PROVE  GatewayInv'
<1> DEFINE shown == [ok |-> ok, mode |-> mode]
<1>1. shown \in TestResult /\ shown.ok = ok /\ shown.mode = mode
  BY DEF TestResult
<1>2. test' = [call |-> NoTest, result |-> shown]
  BY DEF TestShows
<1>3. GatewayShape'
  BY <1>1, <1>2 DEF GatewayInv, GatewayShape
<1>4. ReachedWhenReady'
  BY <1>2 DEF GatewayInv, ReachedWhenReady, Ready, NoTest
<1>5. ResultIsTrue'
  BY <1>1, <1>2 DEF GatewayInv, ResultIsTrue, SaysWhatWasDone
<1> QED  BY <1>3, <1>4, <1>5 DEF GatewayInv

\* The page's status, its form, or a count changes, and no test.
LEMMA OtherKeeps ==
  ASSUME GatewayInv, GatewayShape', UNCHANGED <<gatewayConfig, test, reached>>,
         testUsed'.tests = testUsed.tests
  PROVE  GatewayInv'
BY DEF GatewayInv, ReachedWhenReady, Ready, ResultIsTrue, SaysWhatWasDone

\* A status call that is over leaves the page in shape.
LEMMA SettledShape ==
  ASSUME GatewayShape, NEW call, NEW page, StatusSettles(call, page),
         page \in [status : {gatewayConfig, Unheard}, loading : BOOLEAN, refreshing : BOOLEAN,
                   error : BOOLEAN],
         testUsed' \in [tests : Nat, refreshes : Nat, lost : Nat]
  PROVE  GatewayShape'
<1>1. (page.refreshing /\ call = "initial") \in BOOLEAN
  OBVIOUS
<1>2. connection' = [page EXCEPT !.loading = FALSE,
                                 !.refreshing = page.refreshing /\ call = "initial"]
  BY DEF StatusSettles
<1> QED  BY <1>1, <1>2 DEF StatusSettles, GatewayShape

\* What the gateway answers without a request, and with one.
LEMMA StaysHereSays ==
  ASSUME GatewayShape, NEW mode \in {"text", "template"}
  PROVE  LET ok == WithoutRequest(gatewayConfig).ok
         IN /\ ok \in BOOLEAN
            /\ SaysWhatWasDone([ok |-> ok, mode |-> IF gatewayConfig.live THEN mode ELSE "dry"])
BY DEF GatewayShape, WithoutRequest, Failed, Accepted, SaysWhatWasDone, Config

\* Each step of the connection page keeps its invariant.
LEMMA GatewayInvStep == GatewayInv /\ [GatewayPageNext]_gatewayPageVars => GatewayInv'
<1> SUFFICES ASSUME GatewayInv, [GatewayPageNext]_gatewayPageVars PROVE GatewayInv'
  OBVIOUS
<1>a. /\ gatewayConfig \in Config
      /\ connection \in [status : {gatewayConfig, Unheard}, loading : BOOLEAN,
                         refreshing : BOOLEAN, error : BOOLEAN]
      /\ testForm \in [number : TypedNumbers \cup {Unheard}, template : BOOLEAN]
      /\ test \in [call : TestCall \cup {NoTest}, result : TestResult \cup {Unheard}]
      /\ testUsed \in [tests : Nat, refreshes : Nat, lost : Nat]
      /\ GatewayShape /\ ReachedWhenReady /\ ResultIsTrue
  BY DEF GatewayInv, GatewayShape
<1>b. ASSUME CallLost
      PROVE  /\ testUsed' \in [tests : Nat, refreshes : Nat, lost : Nat]
             /\ testUsed'.tests = testUsed.tests
  BY <1>a, <1>b DEF CallLost
<1>1. CASE RefreshStatus
  <2>1. testUsed' = [testUsed EXCEPT !.refreshes = testUsed.refreshes + 1]
    BY <1>1 DEF RefreshStatus
  <2>2. GatewayShape'
    <3>1. testUsed' \in [tests : Nat, refreshes : Nat, lost : Nat]
      BY <1>a, <2>1
    <3>2. connection' = [connection EXCEPT !.refreshing = TRUE]
      BY <1>1 DEF RefreshStatus
    <3>3. connection' \in [status : {gatewayConfig, Unheard}, loading : BOOLEAN,
                           refreshing : BOOLEAN, error : BOOLEAN]
      BY <1>a, <3>2
    <3> QED  BY <1>a, <1>1, <3>1, <3>3 DEF RefreshStatus, GatewayShape
  <2> QED  BY <1>a, <1>1, <2>1, <2>2, OtherKeeps DEF RefreshStatus
<1>2. ASSUME NEW call \in {"initial", "refresh"}, StatusHeard(call) PROVE GatewayInv'
  <2> DEFINE page == [connection EXCEPT !.status = gatewayConfig,
                                        !.error = @ /\ call = "initial"]
  <2>1. (connection.error /\ call = "initial") \in BOOLEAN
    OBVIOUS
  <2>2. page \in [status : {gatewayConfig, Unheard}, loading : BOOLEAN, refreshing : BOOLEAN,
                  error : BOOLEAN]
    BY <1>a, <2>1
  <2>3. StatusSettles(call, page) /\ testUsed' = testUsed
    BY <1>2 DEF StatusHeard
  <2> HIDE DEF page
  <2>4. GatewayShape'
    BY <1>a, <2>2, <2>3, SettledShape
  <2> QED  BY <2>3, <2>4, OtherKeeps DEF StatusSettles
<1>3. ASSUME NEW call \in {"initial", "refresh"}, StatusFails(call) PROVE GatewayInv'
  <2> DEFINE page == [connection EXCEPT !.error = TRUE]
  <2>1. page \in [status : {gatewayConfig, Unheard}, loading : BOOLEAN, refreshing : BOOLEAN,
                  error : BOOLEAN]
    BY <1>a
  <2>2. StatusSettles(call, page) /\ CallLost
    BY <1>3 DEF StatusFails
  <2> HIDE DEF page
  <2>3. GatewayShape'
    BY <1>a, <1>b, <2>1, <2>2, SettledShape
  <2> QED  BY <1>b, <2>2, <2>3, OtherKeeps DEF StatusSettles
<1>4. CASE FillTestForm
  <2>1. GatewayShape'
    BY <1>a, <1>4 DEF FillTestForm, GatewayShape
  <2> QED  BY <1>4, <2>1, OtherKeeps DEF FillTestForm
<1>5. CASE HandleSendTestMessage
  <2> DEFINE call == [at |-> "sent", number |-> testForm.number, verdict |-> "client",
                      mode |-> IF testForm.template THEN "template" ELSE "text"]
  <2>1. call \in TestCall /\ call.at = "sent"
    BY <1>a, <1>5 DEF HandleSendTestMessage, TestCall, Verdict
  <2>2. test' = [call |-> call, result |-> Unheard]
    BY <1>5 DEF HandleSendTestMessage
  <2>3. testUsed' \in [tests : Nat, refreshes : Nat, lost : Nat]
    BY <1>a, <1>5 DEF HandleSendTestMessage
  <2> HIDE DEF call
  <2>4. GatewayShape'
    BY <1>a, <1>5, <2>1, <2>2, <2>3 DEF HandleSendTestMessage, GatewayShape
  <2>5. ReachedWhenReady' /\ ResultIsTrue'
    BY <1>a, <1>5, <2>1, <2>2 DEF HandleSendTestMessage, ReachedWhenReady, Ready, ResultIsTrue
  <2> QED  BY <2>4, <2>5 DEF GatewayInv
<1>6. CASE TestStaysHere
  <2>1. /\ UNCHANGED <<gatewayConfig, connection, testForm, reached, testUsed>>
        /\ test.call \in TestCall
    BY <1>a, <1>6 DEF TestStaysHere, NoTest
  <2>2. \/ TestShows(FALSE, "none")
        \/ TestShows(WithoutRequest(gatewayConfig).ok,
                     IF gatewayConfig.live THEN test.call.mode ELSE "dry")
    BY <1>6 DEF TestStaysHere
  <2>3. test.call.mode \in {"text", "template"}
    BY <2>1 DEF TestCall
  <2>4. CASE TestShows(FALSE, "none")
    BY <1>a, <2>1, <2>4, ShownKeeps
  <2>5. CASE TestShows(WithoutRequest(gatewayConfig).ok,
                       IF gatewayConfig.live THEN test.call.mode ELSE "dry")
    <3>1. /\ WithoutRequest(gatewayConfig).ok \in BOOLEAN
          /\ SaysWhatWasDone([ok |-> WithoutRequest(gatewayConfig).ok,
                              mode |-> IF gatewayConfig.live THEN test.call.mode ELSE "dry"])
      BY <1>a, <2>3, StaysHereSays
    <3>2. (IF gatewayConfig.live THEN test.call.mode ELSE "dry") \in TestMode
      BY <2>3 DEF TestMode
    <3> QED  BY <1>a, <2>1, <2>5, <3>1, <3>2, ShownKeeps
  <2> QED  BY <2>2, <2>4, <2>5
<1>7. CASE MetaTakesTest
  <2>1. /\ UNCHANGED <<gatewayConfig, connection, testForm, testUsed>>
        /\ test.call \in TestCall /\ Ready
    BY <1>a, <1>7 DEF MetaTakesTest, NoTest, GoesOut, Ready
  <2>2. PICK verdict \in Verdict :
          /\ test' = [test EXCEPT !.call.at = "decided", !.call.verdict = verdict]
          /\ reached' = IF verdict = "accepted" THEN reached \cup {testUsed.tests} ELSE reached
    BY <1>7 DEF MetaTakesTest
  <2> DEFINE call == [test.call EXCEPT !.at = "decided", !.verdict = verdict]
  <2>3. call \in TestCall /\ call.verdict = verdict
    BY <2>1 DEF TestCall
  <2>4. test' = [test EXCEPT !.call = call]
    BY <1>a, <2>2
  <2> HIDE DEF call
  <2>5. GatewayShape'
    BY <1>a, <2>1, <2>3, <2>4 DEF GatewayShape
  <2>6. ReachedWhenReady'
    BY <1>a, <2>1, <2>2, <2>3, <2>4 DEF ReachedWhenReady, Ready
  <2>7. ResultIsTrue'
    BY <1>a, <2>1, <2>2, <2>4 DEF ResultIsTrue, SaysWhatWasDone
  <2> QED  BY <2>5, <2>6, <2>7 DEF GatewayInv
<1>8. CASE TestAnswered
  <2>1. /\ UNCHANGED <<gatewayConfig, connection, testForm, reached, testUsed>>
        /\ test.call \in TestCall /\ test.call.at = "decided" /\ Ready
    BY <1>a, <1>8 DEF TestAnswered, NoTest, ReachedWhenReady
  <2>2. PICK result \in FromResponse(test.call.verdict) \cup WithoutResponse :
          TestShows(result.ok, test.call.mode)
    BY <1>8 DEF TestAnswered
  <2>3. result.ok \in BOOLEAN /\ (result.ok => test.call.verdict = "accepted")
    <3>1. CASE test.call.verdict = "accepted"
      <4>1. result \in {Accepted(TRUE), Accepted(FALSE), Failed("timeout"), Failed("network")}
        BY <2>2, <3>1 DEF FromResponse, WithoutResponse
      <4>2. Accepted(TRUE).ok = TRUE /\ Accepted(FALSE).ok = TRUE
        BY DEF Accepted
      <4>3. Failed("timeout").ok = FALSE /\ Failed("network").ok = FALSE
        BY DEF Failed
      <4>4. result.ok = TRUE \/ result.ok = FALSE
        BY <4>1, <4>2, <4>3
      <4> QED  BY <3>1, <4>4
    <3>2. CASE test.call.verdict # "accepted"
      <4>1. result \in {Failed(test.call.verdict), Failed("timeout"), Failed("network")}
        BY <2>2, <3>2 DEF FromResponse, WithoutResponse
      <4>2. /\ Failed("timeout").ok = FALSE /\ Failed("network").ok = FALSE
            /\ Failed(test.call.verdict).ok = FALSE
        BY DEF Failed
      <4>3. result.ok = FALSE
        BY <4>1, <4>2
      <4> QED  BY <4>3
    <3> QED  BY <3>1, <3>2
  <2>4. test.call.mode \in TestMode /\ test.call.mode # "dry"
    BY <2>1 DEF TestCall, TestMode
  <2>5. SaysWhatWasDone([ok |-> result.ok, mode |-> test.call.mode])
    BY <1>a, <2>1, <2>3, <2>4 DEF SaysWhatWasDone, Ready, ReachedWhenReady
  <2> QED  BY <1>a, <2>1, <2>2, <2>3, <2>4, <2>5, ShownKeeps
<1>9. CASE TestLost
  BY <1>a, <1>b, <1>9, ShownKeeps DEF TestLost
<1>10. CASE UNCHANGED gatewayPageVars
  BY <1>a, <1>10 DEF gatewayPageVars, GatewayInv, GatewayShape, ReachedWhenReady, Ready,
                     ResultIsTrue, SaysWhatWasDone
<1> QED  BY <1>1, <1>2, <1>3, <1>4, <1>5, <1>6, <1>7, <1>8, <1>9, <1>10 DEF GatewayPageNext

\* The label of the connection page and what its test sends did agree under every
\* configuration, whatever calls fail: whatsapp/page.tsx over sendText and
\* sendTemplate of whatsapp.service.ts.
THEOREM LabelIsTrue == GatewayPageSpec => []LabelTellsWhatSendsDo
<1>1. GatewayInv => LabelTellsWhatSendsDo
  <2> SUFFICES ASSUME GatewayInv, connection.status # Unheard PROVE LabelTellsWhatSendsDo
    BY DEF LabelTellsWhatSendsDo
  <2>1. /\ connection.status = gatewayConfig
        /\ gatewayConfig.live \in BOOLEAN /\ gatewayConfig.configured \in BOOLEAN
        /\ ReachedWhenReady /\ ResultIsTrue
    BY DEF GatewayInv, GatewayShape, Config
  <2>2. EngineMode = CASE gatewayConfig.live /\ ~gatewayConfig.configured -> "NOT CONFIGURED"
                       [] ~gatewayConfig.live -> "DRY-RUN SIMULATOR"
                       [] OTHER -> "LIVE GATEWAY"
    BY <2>1 DEF EngineMode, IsDryRun, IsConfigured
  <2>3. CASE ~gatewayConfig.live
    BY <2>1, <2>2, <2>3
    DEF LabelTellsWhatSendsDo, ReachedWhenReady, ResultIsTrue, Ready, SaysWhatWasDone
  <2>4. CASE gatewayConfig.live /\ ~gatewayConfig.configured
    BY <2>1, <2>2, <2>4
    DEF LabelTellsWhatSendsDo, ReachedWhenReady, ResultIsTrue, Ready, SaysWhatWasDone
  <2>5. CASE gatewayConfig.live /\ gatewayConfig.configured
    BY <2>1, <2>2, <2>5
    DEF LabelTellsWhatSendsDo, ReachedWhenReady, ResultIsTrue, Ready, SaysWhatWasDone
  <2> QED  BY <2>1, <2>3, <2>4, <2>5
<1> QED  BY <1>1, GatewayInvInit, GatewayInvStep, PTL DEF GatewayPageSpec

-----------------------------------------------------------------------------
(* The campaign wizard.                                                    *)

\* One submission is under way at most, and it is of an opening there was; one that
\* starts knows the campaign it made.
OneFlight ==
  \A f \in Flights : flight[f] # Nothing =>
    /\ wizard.creating
    /\ \A g \in Flights : flight[g] # Nothing => g = f
FlightIsOfOpening ==
  \A f \in Flights : flight[f] # Nothing =>
    /\ flight[f].opening <= wizard.opening
    /\ flight[f].pc = "starting" =>
         /\ flight[f].id \in Campaigns /\ made[flight[f].id] \in CampaignRow
         /\ made[flight[f].id].opening = flight[f].opening

\* A campaign the wizard has started, and the page knows it.
SentBy(id) ==
  made[id] # Nothing /\ made[id].by = "wizard" /\ made[id].opening \notin pageFaults.lost

\* Then its opening is over, and submits nothing any more.
OpeningIsOver ==
  \A id \in Campaigns : SentBy(id) =>
    /\ made[id].opening <= wizard.opening
    /\ wizard.open => made[id].opening # wizard.opening
    /\ \A f \in Flights : flight[f] # Nothing /\ flight[f].opening = made[id].opening =>
         flight[f].pc = "fetching"
SentOnce ==
  \A id, other \in Campaigns :
    SentBy(id) /\ SentBy(other) /\ made[id].opening = made[other].opening => id = other

WasOpened == wizard.open => wizard.opening # 0

WizardInv ==
  /\ PageTypeOK /\ WasOpened /\ OneFlight /\ FlightIsOfOpening /\ OpeningIsOver /\ SentOnce

\* The wizard starts closed, and there are no campaigns.
LEMMA WizardInvInit == PageInit => WizardInv
<1> SUFFICES ASSUME PageInit PROVE WizardInv
  OBVIOUS
<1>1. PageTypeOK
  BY PageAssumption DEF PageInit, PageTypeOK
<1> QED  BY <1>1 DEF PageInit, WizardInv, WasOpened, OneFlight, FlightIsOfOpening,
                     OpeningIsOver, SentOnce, SentBy

\* The wizard is clicked through: no submission, campaign or fault changes, and an
\* opening that begins is a new one.
LEMMA ClickKeeps ==
  ASSUME WizardInv, UNCHANGED <<flight, made, pageFaults>>, listed' \subseteq People,
         wizard' \in [open : BOOLEAN, opening : 0..MaxOpenings, step : 1..4, named : BOOLEAN,
                      template : BOOLEAN, picked : SUBSET People, creating : BOOLEAN,
                      error : BOOLEAN],
         wizard'.creating = wizard.creating,
         \/ wizard'.opening = wizard.opening /\ (wizard'.open => wizard.open)
         \/ wizard'.opening = wizard.opening + 1
  PROVE  WizardInv'
<1>1. PageTypeOK'
  BY DEF WizardInv, PageTypeOK
<1>2. wizard.opening \in Int
  BY DEF WizardInv, PageTypeOK
<1>3. \A f \in Flights : flight[f] # Nothing => flight[f].opening \in Int
  BY DEF WizardInv, PageTypeOK, Flight
<1>4. \A id \in Campaigns : made[id] # Nothing => made[id].opening \in Int
  BY DEF WizardInv, PageTypeOK, CampaignRow
<1>5. OneFlight' /\ SentOnce' /\ WasOpened'
  BY <1>2 DEF WizardInv, OneFlight, SentOnce, SentBy, WasOpened, PageTypeOK
<1>6. FlightIsOfOpening'
  BY <1>2, <1>3 DEF WizardInv, FlightIsOfOpening
<1>7. OpeningIsOver'
  BY <1>2, <1>4 DEF WizardInv, OpeningIsOver, SentBy
<1> QED  BY <1>1, <1>5, <1>6, <1>7 DEF WizardInv

\* The submission under way ends or goes on, and the campaigns stay, or one is made
\* that nobody has started, or one is started by the table.
LEMMA SubmissionGoesOn ==
  ASSUME WizardInv, PageTypeOK', NEW f \in Flights, flight[f] # Nothing, NEW r,
         flight' = [flight EXCEPT ![f] = r],
         r # Nothing =>
           /\ r.opening = flight[f].opening
           /\ wizard'.creating
           /\ r.pc # "fetching" => flight[f].pc # "fetching"
           /\ r.pc = "starting" =>
                /\ r.id \in Campaigns /\ made'[r.id] \in CampaignRow
                /\ made'[r.id].opening = r.opening,
         wizard'.opening = wizard.opening, wizard'.open => wizard.open,
         pageFaults.lost \subseteq pageFaults'.lost,
         \A id \in Campaigns : made'[id] = made[id] \/ ~SentBy(id)'
  PROVE  WizardInv'
<1>1. \A g \in Flights : flight'[g] = IF g = f THEN r ELSE flight[g]
  BY DEF WizardInv, PageTypeOK
<1>2. \A g \in Flights : g # f => flight[g] = Nothing
  BY DEF WizardInv, OneFlight
<1>3. OneFlight'
  BY <1>1, <1>2 DEF OneFlight
<1>4. FlightIsOfOpening'
  BY <1>1, <1>2 DEF WizardInv, FlightIsOfOpening
<1>5. \A id \in Campaigns : SentBy(id)' => SentBy(id) /\ made'[id] = made[id]
  BY DEF SentBy
<1>6. SentOnce'
  BY <1>5 DEF WizardInv, SentOnce
<1>7. OpeningIsOver'
  BY <1>1, <1>2, <1>5 DEF WizardInv, OpeningIsOver
<1> QED  BY <1>3, <1>4, <1>6, <1>7 DEF WizardInv, WasOpened

\* Each step of the wizard keeps its invariant.
LEMMA WizardInvStep == WizardInv /\ [PageNext]_pageVars => WizardInv'
<1> SUFFICES ASSUME WizardInv, [PageNext]_pageVars PROVE WizardInv'
  OBVIOUS
<1> DEFINE Wizard == [open : BOOLEAN, opening : 0..MaxOpenings, step : 1..4, named : BOOLEAN,
                      template : BOOLEAN, picked : SUBSET People, creating : BOOLEAN,
                      error : BOOLEAN]
<1>a. /\ listed \subseteq People /\ wizard \in Wizard
      /\ flight \in [Flights -> Flight \cup {Nothing}]
      /\ made \in [Campaigns -> CampaignRow \cup {Nothing}]
      /\ pageFaults \in [count : 0..MaxPageFaults, lost : SUBSET (1..MaxOpenings)]
      /\ PageTypeOK /\ WasOpened /\ OneFlight /\ FlightIsOfOpening /\ OpeningIsOver /\ SentOnce
  BY DEF WizardInv, PageTypeOK
<1>b. ListedPeople \subseteq People
  BY PageAssumption
<1>1. CASE ListLoaded
  BY <1>a, <1>b, <1>1, ClickKeeps DEF ListLoaded
<1>2. CASE HandleOpenWizard
  <2>1. PICK template \in BOOLEAN :
          wizard' = [wizard EXCEPT !.open = TRUE, !.opening = wizard.opening + 1, !.step = 1,
                                   !.named = TRUE, !.template = template, !.picked = listed,
                                   !.error = FALSE]
    BY <1>a, <1>2 DEF HandleOpenWizard
  <2>2. wizard.opening + 1 \in 0..MaxOpenings
    BY <1>a, <1>2, PageAssumption DEF HandleOpenWizard
  <2>3. wizard' \in Wizard
    <3>1. listed \in SUBSET People /\ 1 \in 1..4
      BY <1>a
    <3> QED  BY <1>a, <2>1, <2>2, <3>1
  <2>4. wizard'.creating = wizard.creating /\ wizard'.opening = wizard.opening + 1
    BY <1>a, <2>1
  <2> QED  BY <1>a, <1>2, <2>3, <2>4, ClickKeeps DEF HandleOpenWizard
<1>3. CASE CloseWizard
  BY <1>a, <1>3, ClickKeeps DEF CloseWizard
<1>4. CASE EditStep1
  <2>1. (~wizard.named) \in BOOLEAN
    OBVIOUS
  <2>2. /\ wizard' \in Wizard /\ wizard'.creating = wizard.creating
        /\ wizard'.opening = wizard.opening /\ wizard'.open = wizard.open
    BY <1>a, <1>4, <2>1 DEF EditStep1
  <2> QED  BY <1>a, <1>4, <2>2, ClickKeeps DEF EditStep1
<1>5. ASSUME NEW filtered \in SUBSET listed, ToggleCustomers(filtered) PROVE WizardInv'
  <2>1. PICK picked \in SUBSET People : wizard' = [wizard EXCEPT !.picked = picked]
    BY <1>a, <1>5 DEF ToggleCustomers
  <2>2. /\ wizard' \in Wizard /\ wizard'.creating = wizard.creating
        /\ wizard'.opening = wizard.opening /\ wizard'.open = wizard.open
    BY <1>a, <2>1
  <2> QED  BY <1>a, <1>5, <2>2, ClickKeeps DEF ToggleCustomers
<1>6. CASE NextStep
  <2>1. wizard.step < 4 => wizard.step + 1 \in 1..4
    BY <1>a
  <2>2. /\ wizard' \in Wizard /\ wizard'.creating = wizard.creating
        /\ wizard'.opening = wizard.opening /\ wizard'.open = wizard.open
    BY <1>a, <1>6, <2>1 DEF NextStep
  <2> QED  BY <1>a, <1>6, <2>2, ClickKeeps DEF NextStep
<1>7. CASE Back
  <2>1. wizard.step - 1 \in 1..4
    BY <1>a, <1>7 DEF Back
  <2>2. /\ wizard' \in Wizard /\ wizard'.creating = wizard.creating
        /\ wizard'.opening = wizard.opening /\ wizard'.open = wizard.open
    BY <1>a, <1>7, <2>1 DEF Back
  <2> QED  BY <1>a, <1>7, <2>2, ClickKeeps DEF Back
<1>8. ASSUME NEW auto \in BOOLEAN, HandleCreateAndStart(auto) PROVE WizardInv'
  <2>1. UNCHANGED <<listed, made, pageFaults>> /\ wizard.open /\ ~wizard.creating
    BY <1>8 DEF HandleCreateAndStart, SubmitEnabled
  <2>2. CASE wizard' = [wizard EXCEPT !.error = TRUE] /\ flight' = flight
    <3>1. /\ wizard' \in Wizard /\ wizard'.creating = wizard.creating
          /\ wizard'.opening = wizard.opening /\ wizard'.open = wizard.open
      BY <1>a, <2>2
    <3> QED  BY <1>a, <2>1, <2>2, <3>1, ClickKeeps
  <2>3. ASSUME wizard' = [wizard EXCEPT !.creating = TRUE, !.error = FALSE],
               NEW f \in Flights,
               flight' = [flight EXCEPT ![f] =
                  [pc |-> "creating", auto |-> auto, people |-> wizard.picked,
                   opening |-> wizard.opening, id |-> Nothing]]
        PROVE  WizardInv'
    <3> DEFINE r == [pc |-> "creating", auto |-> auto, people |-> wizard.picked,
                     opening |-> wizard.opening, id |-> Nothing]
    <3>0. wizard.opening \in 1..MaxOpenings
      BY <1>a, <2>1, PageAssumption DEF WasOpened
    <3>1. r \in Flight /\ r.pc = "creating" /\ r.opening = wizard.opening
      BY <1>a, <3>0 DEF Flight
    <3>2. /\ wizard' \in Wizard /\ wizard'.creating
          /\ wizard'.opening = wizard.opening /\ wizard'.open = wizard.open
      BY <1>a, <2>3
    <3>3. \A g \in Flights : flight[g] = Nothing
      BY <1>a, <2>1 DEF OneFlight
    <3>4. \A g \in Flights : flight'[g] = IF g = f THEN r ELSE Nothing
      BY <1>a, <2>3, <3>3
    <3> HIDE DEF r
    <3>5. PageTypeOK'
      BY <1>a, <2>1, <2>3, <3>1, <3>2 DEF PageTypeOK, r
    <3>6. OneFlight' /\ SentOnce' /\ WasOpened'
      BY <1>a, <2>1, <3>2, <3>4 DEF OneFlight, SentOnce, SentBy, WasOpened
    <3>7. FlightIsOfOpening'
      BY <1>a, <3>1, <3>2, <3>4 DEF FlightIsOfOpening
    <3>8. OpeningIsOver'
      BY <1>a, <2>1, <3>1, <3>2, <3>4 DEF OpeningIsOver, SentBy
    <3> QED  BY <3>5, <3>6, <3>7, <3>8 DEF WizardInv
  <2> QED  BY <1>8, <2>2, <2>3 DEF HandleCreateAndStart
<1>9. ASSUME NEW f \in Flights, flight[f] # Nothing, Created(f) PROVE WizardInv'
  <2>1. flight[f] \in Flight /\ flight[f].pc = "creating" /\ UNCHANGED <<listed, pageFaults>>
    BY <1>a, <1>9 DEF Created
  <2>2. PICK id \in Campaigns :
          /\ made[id] = Nothing /\ Insert(f, id)
          /\ IF flight[f].auto
             THEN /\ flight' = [flight EXCEPT ![f].pc = "starting", ![f].id = id]
                  /\ UNCHANGED wizard
             ELSE Fetch(f, id)
    BY <1>9 DEF Created
  <2>3. PICK pc \in {"starting", "fetching"} :
          /\ flight' = [flight EXCEPT ![f] = [flight[f] EXCEPT !.pc = pc, !.id = id]]
          /\ wizard' \in Wizard /\ wizard'.opening = wizard.opening
          /\ wizard'.creating = wizard.creating /\ (wizard'.open => wizard.open)
    <3>1. CASE flight[f].auto
      BY <1>a, <2>1, <2>2, <3>1
    <3>2. CASE ~flight[f].auto
      BY <1>a, <2>1, <2>2, <3>2 DEF Fetch
    <3> QED  BY <3>1, <3>2
  <2> DEFINE r == [flight[f] EXCEPT !.pc = pc, !.id = id]
             row == [people |-> flight[f].people, opening |-> flight[f].opening, by |-> "nobody"]
  <2>4. /\ r \in Flight /\ r.opening = flight[f].opening /\ r.pc = pc /\ r.id = id
    BY <2>1 DEF Flight
  <2>5. row \in CampaignRow /\ row.opening = flight[f].opening /\ row.by = "nobody"
    BY <2>1 DEF Flight, CampaignRow
  <2>6. made' = [made EXCEPT ![id] = row] /\ flight' = [flight EXCEPT ![f] = r]
    BY <2>2, <2>3 DEF Insert
  <2> HIDE DEF r, row
  <2>7. PageTypeOK'
    BY <1>a, <2>1, <2>3, <2>4, <2>5, <2>6 DEF PageTypeOK
  <2>8. \A other \in Campaigns : made'[other] = made[other] \/ ~SentBy(other)'
    BY <1>a, <2>5, <2>6 DEF SentBy
  <2>9. made'[r.id] \in CampaignRow /\ made'[r.id].opening = r.opening
    <3>1. made'[id] = row
      BY <1>a, <2>6
    <3> QED  BY <2>4, <2>5, <3>1
  <2>10. wizard'.creating
    BY <1>a, <1>9, <2>3 DEF OneFlight
  <2> QED  BY <1>9, <2>1, <2>3, <2>4, <2>6, <2>7, <2>8, <2>9, <2>10, SubmissionGoesOn
<1>10. ASSUME NEW f \in Flights, flight[f] # Nothing, Started(f) PROVE WizardInv'
  <2> DEFINE id == flight[f].id
  <2>1. /\ flight[f] \in Flight /\ flight[f].pc = "starting" /\ UNCHANGED <<listed, pageFaults>>
        /\ id \in Campaigns /\ made[id] \in CampaignRow /\ made[id].opening = flight[f].opening
    BY <1>a, <1>10 DEF Started, FlightIsOfOpening
  <2>2. CASE made[id].by = "nobody"
    <3> DEFINE r == [flight[f] EXCEPT !.pc = "fetching", !.id = id]
               row == [made[id] EXCEPT !.by = "wizard"]
    <3>1. /\ r \in Flight /\ r.opening = flight[f].opening /\ r.pc = "fetching"
          /\ row \in CampaignRow /\ row.opening = made[id].opening
      BY <2>1 DEF Flight, CampaignRow
    <3>2. /\ made' = [made EXCEPT ![id] = row] /\ flight' = [flight EXCEPT ![f] = r]
          /\ wizard' = [wizard EXCEPT !.open = FALSE]
      BY <1>a, <1>10, <2>1, <2>2 DEF Started, Fetch
    <3> HIDE DEF r, row, id
    <3>3. PageTypeOK'
      BY <1>a, <2>1, <3>1, <3>2 DEF PageTypeOK
    <3>4. /\ \A g \in Flights : flight'[g] = IF g = f THEN r ELSE flight[g]
          /\ \A other \in Campaigns : made'[other] = IF other = id THEN row ELSE made[other]
          /\ ~wizard'.open /\ wizard'.opening = wizard.opening /\ wizard'.creating = wizard.creating
      BY <1>a, <3>2
    <3>5. OneFlight' /\ WasOpened'
      BY <1>a, <1>10, <3>4 DEF OneFlight, WasOpened
    <3>6. FlightIsOfOpening'
      BY <1>a, <1>10, <3>1, <3>4 DEF FlightIsOfOpening, OneFlight
    <3>7. \A other \in Campaigns : other # id /\ SentBy(other)' => SentBy(other)
      BY <2>1, <3>4 DEF SentBy
    <3>8. \A other \in Campaigns : SentBy(other) => made[other].opening # made[id].opening
      BY <1>a, <1>10, <2>1 DEF OpeningIsOver
    <3>9. SentOnce'
      BY <1>a, <3>1, <3>4, <3>7, <3>8 DEF SentOnce
    <3>10. OpeningIsOver'
      BY <1>a, <1>10, <2>1, <3>1, <3>4, <3>7 DEF OpeningIsOver, OneFlight, FlightIsOfOpening
    <3> QED  BY <3>3, <3>5, <3>6, <3>9, <3>10 DEF WizardInv
  <2>3. CASE made[id].by # "nobody"
    <3>1. /\ made' = made /\ flight' = [flight EXCEPT ![f] = Nothing]
          /\ wizard' = [wizard EXCEPT !.error = TRUE, !.creating = FALSE]
      BY <1>10, <2>3 DEF Started, SubmissionFails
    <3>2. PageTypeOK' /\ wizard'.opening = wizard.opening /\ wizard'.open = wizard.open
      BY <1>a, <2>1, <3>1 DEF PageTypeOK
    <3> HIDE DEF id
    <3> QED  BY <1>10, <2>1, <3>1, <3>2, SubmissionGoesOn
  <2> QED  BY <2>2, <2>3
<1>11. ASSUME NEW f \in Flights, flight[f] # Nothing, CallFails(f) PROVE WizardInv'
  <2>1. /\ flight[f] \in Flight /\ flight[f].opening \in 1..MaxOpenings
        /\ listed' = listed /\ flight' = [flight EXCEPT ![f] = Nothing]
        /\ wizard' = [wizard EXCEPT !.error = TRUE, !.creating = FALSE]
    BY <1>a, <1>11 DEF CallFails, SubmissionFails, Flight
  <2>2. wizard' \in Wizard /\ wizard'.opening = wizard.opening /\ wizard'.open = wizard.open
    BY <1>a, <2>1
  <2>3. pageFaults.count + 1 \in 0..MaxPageFaults
    BY <1>a, <1>11, PageAssumption DEF CallFails
  <2>4. CASE made' = made /\ pageFaults' = [pageFaults EXCEPT !.count = @ + 1]
    <3>1. PageTypeOK' /\ pageFaults'.lost = pageFaults.lost
      BY <1>a, <2>1, <2>2, <2>3, <2>4 DEF PageTypeOK
    <3> QED  BY <1>11, <2>1, <2>2, <2>4, <3>1, SubmissionGoesOn
  <2>5. ASSUME NEW id \in Campaigns, made[id] = Nothing, Insert(f, id),
               pageFaults' = [pageFaults EXCEPT !.count = @ + 1]
        PROVE  WizardInv'
    <3> DEFINE row == [people |-> flight[f].people, opening |-> flight[f].opening,
                       by |-> "nobody"]
    <3>1. row \in CampaignRow /\ row.by = "nobody"
      BY <2>1 DEF Flight, CampaignRow
    <3>2. made' = [made EXCEPT ![id] = row]
      BY <2>5 DEF Insert
    <3> HIDE DEF row
    <3>3. PageTypeOK' /\ pageFaults'.lost = pageFaults.lost
      BY <1>a, <2>1, <2>2, <2>3, <2>5, <3>1, <3>2 DEF PageTypeOK
    <3>4. \A other \in Campaigns : made'[other] = made[other] \/ ~SentBy(other)'
      BY <1>a, <3>1, <3>2 DEF SentBy
    <3> QED  BY <1>11, <2>1, <2>2, <3>3, <3>4, SubmissionGoesOn
  <2>6. CASE /\ flight[f].pc = "starting" /\ made[flight[f].id].by = "nobody"
             /\ made' = [made EXCEPT ![flight[f].id].by = "wizard"]
             /\ pageFaults' = [count |-> pageFaults.count + 1,
                               lost |-> pageFaults.lost \cup {flight[f].opening}]
    <3> DEFINE id == flight[f].id
               row == [made[id] EXCEPT !.by = "wizard"]
    <3>1. id \in Campaigns /\ made[id] \in CampaignRow /\ made[id].opening = flight[f].opening
      BY <1>a, <1>11, <2>6 DEF FlightIsOfOpening
    <3>2. row \in CampaignRow /\ row.opening = flight[f].opening
      BY <3>1 DEF CampaignRow
    <3>3. made' = [made EXCEPT ![id] = row]
      BY <1>a, <2>6
    <3> HIDE DEF row, id
    <3>4. /\ pageFaults' \in [count : 0..MaxPageFaults, lost : SUBSET (1..MaxOpenings)]
          /\ pageFaults'.lost = pageFaults.lost \cup {flight[f].opening}
      BY <1>a, <2>1, <2>3, <2>6
    <3>6. made' \in [Campaigns -> CampaignRow \cup {Nothing}]
      BY <1>a, <3>1, <3>2, <3>3
    <3>7. PageTypeOK'
      BY <1>a, <2>1, <2>2, <3>4, <3>6 DEF PageTypeOK
    <3>5. \A other \in Campaigns : made'[other] = made[other] \/ ~SentBy(other)'
      BY <1>a, <3>2, <3>3, <3>4 DEF SentBy
    <3> QED  BY <1>11, <2>1, <2>2, <3>4, <3>5, <3>7, SubmissionGoesOn
  <2> QED  BY <1>11, <2>4, <2>5, <2>6 DEF CallFails
<1>12. ASSUME NEW f \in Flights, flight[f] # Nothing, Fetched(f) PROVE WizardInv'
  <2>1. /\ listed' \subseteq People /\ flight' = [flight EXCEPT ![f] = Nothing]
        /\ wizard' = [wizard EXCEPT !.creating = FALSE] /\ made' = made /\ pageFaults' = pageFaults
    BY <1>a, <1>b, <1>12 DEF Fetched
  <2>2. PageTypeOK' /\ wizard'.opening = wizard.opening /\ wizard'.open = wizard.open
    BY <1>a, <2>1 DEF PageTypeOK
  <2> QED  BY <1>12, <2>1, <2>2, SubmissionGoesOn
<1>13. ASSUME NEW id \in Campaigns, StartFromTable(id) PROVE WizardInv'
  <2> DEFINE row == [made[id] EXCEPT !.by = "table"]
  <2>1. /\ made[id] \in CampaignRow /\ made' = [made EXCEPT ![id] = row]
        /\ UNCHANGED <<listed, wizard, flight, pageFaults>>
    BY <1>a, <1>13 DEF StartFromTable
  <2>2. row \in CampaignRow /\ row.by = "table" /\ row.opening = made[id].opening
    BY <2>1 DEF CampaignRow
  <2> HIDE DEF row
  <2>3. PageTypeOK'
    BY <1>a, <2>1, <2>2 DEF PageTypeOK
  <2>4. \A other \in Campaigns : made'[other] = IF other = id THEN row ELSE made[other]
    BY <1>a, <2>1
  <2>5. OneFlight' /\ FlightIsOfOpening' /\ WasOpened'
    BY <1>a, <2>1, <2>2, <2>4 DEF OneFlight, FlightIsOfOpening, WasOpened
  <2>6. \A other \in Campaigns : SentBy(other)' => SentBy(other) /\ made'[other] = made[other]
    BY <2>1, <2>2, <2>4 DEF SentBy
  <2>7. OpeningIsOver' /\ SentOnce'
    BY <1>a, <2>1, <2>6 DEF OpeningIsOver, SentOnce
  <2> QED  BY <2>3, <2>5, <2>7 DEF WizardInv
<1>14. CASE UNCHANGED pageVars
  BY <1>a, <1>14 DEF pageVars, WizardInv, PageTypeOK, WasOpened, OneFlight, FlightIsOfOpening,
                     OpeningIsOver, SentOnce, SentBy
<1> QED  BY <1>1, <1>2, <1>3, <1>4, <1>5, <1>6, <1>7, <1>8, <1>9, <1>10, <1>11, <1>12, <1>13, <1>14
         DEF PageNext

\* However the wizard is closed and opened again under a submission, and however
\* calls fail and are repeated, one opening starts one broadcast at most, unless
\* the answer to its start was lost: handleCreateAndStartCampaign.
THEOREM OpeningSendsOnce == PageSpec => []WizardSendsOnce
<1>1. WizardInv => WizardSendsOnce
  <2> SUFFICES ASSUME WizardInv, NEW opening \in 1..MaxOpenings \ pageFaults.lost
               PROVE  Cardinality({id \in Campaigns :
                        /\ made[id] # Nothing
                        /\ made[id].opening = opening /\ made[id].by = "wizard"}) <= 1
    BY DEF WizardSendsOnce
  <2> DEFINE S == {id \in Campaigns : /\ made[id] # Nothing
                                      /\ made[id].opening = opening /\ made[id].by = "wizard"}
  <2>1. \A id, other \in S : id = other
    BY DEF WizardInv, SentOnce, SentBy
  <2>2. CASE S = {}
    <3>1. Cardinality(S) = 0
      BY <2>2, FS_EmptySet, Zenon
    <3> QED  BY <3>1
  <2>3. ASSUME NEW id \in S PROVE Cardinality(S) <= 1
    <3>1. S = {id}
      BY <2>1
    <3>2. Cardinality(S) = 1
      BY <3>1, FS_Singleton, Zenon
    <3> QED  BY <3>2
  <2> QED  BY <2>2, <2>3
<1> QED  BY <1>1, WizardInvInit, WizardInvStep, PTL DEF PageSpec

-----------------------------------------------------------------------------
(* The customers page.                                                     *)

\* The newest list call asks for the query that is set; what it has counted and read
\* is what the table holds; and what is shown is the answer to the query once
\* no newest call is under way.
NewestAsksQuery ==
  ~due /\ ~mixed => \A s \in ListSlots : lists[s] # Missing /\ lists[s].newest => lists[s].q = query
CountsTable(call) ==
  /\ call.at \in {"counted", "answered"} => call.total = found[call.q.filter]
  /\ call.at = "answered" => call.got = IF call.q.page <= found[call.q.filter] THEN 1 ELSE 0
NewestCounts ==
  ~mixed => \A s \in ListSlots : lists[s] # Missing /\ lists[s].newest => CountsTable(lists[s])
ShownIsAnswer ==
  ~due /\ ~mixed /\ ~rows.error /\ (\A s \in ListSlots : lists[s] # Missing => ~lists[s].newest) =>
    rows.q = query /\ (rows.total > 0 => rows.got > 0)
ListInv == CustomersTypeOK /\ NewestAsksQuery /\ NewestCounts /\ ShownIsAnswer

\* While no other file was chosen under a preview, the report is on the file chosen, and
\* so will be the one under way.
ReportOfFile ==
  ~swapped =>
    /\ upload.report # Missing => upload.report = upload.file
    /\ work.preview # Missing => work.preview = upload.file
CustomersInv == ListInv /\ ReportOfFile

PageTypes ==
  /\ found \in [Filters -> 0..MaxFound]
  /\ query \in Query /\ due \in BOOLEAN /\ rows \in Rows
  /\ lists \in [ListSlots -> ListCall \cup {Missing}] /\ mixed \in BOOLEAN
DialogTypes ==
  /\ upload \in [open : BOOLEAN, file : File, report : File, result : BOOLEAN]
  /\ work \in [preview : File, import : Query \cup {Missing}, send : Query \cup {Missing}]
  /\ swapped \in BOOLEAN
ActsTypes == acts \in [page : 0..MaxActs, dialog : 0..MaxDialogActs, changes : 0..MaxRowChanges]

LEMMA TypesSplit == CustomersTypeOK <=> PageTypes /\ DialogTypes /\ ActsTypes
  BY DEF CustomersTypeOK, PageTypes, DialogTypes, ActsTypes

\* What the operator does is counted within the bounds.
LEMMA ActsCounted ==
  ASSUME CustomersTypeOK, Act \/ DialogAct \/ Change \/ UNCHANGED acts
  PROVE  ActsTypes'
  BY CustomersAssumption DEF CustomersTypeOK, ActsTypes, Act, DialogAct, Change

\* The page starts with the query due and nothing shown.
LEMMA CustomersInvInit == CustomersInit => CustomersInv
  <1>. SUFFICES ASSUME CustomersInit PROVE CustomersInv  OBVIOUS
  <1>. USE DEF CustomersInit, CustomersStart
  <1>1. query \in Query  BY CustomersAssumption DEF Query
  <1>2. rows \in Rows  BY <1>1, CustomersAssumption DEF Rows
  <1>3. PageTypes  BY <1>1, <1>2 DEF PageTypes
  <1>4. DialogTypes  BY DEF DialogTypes, NoReport, File
  <1>5. ActsTypes  BY CustomersAssumption DEF ActsTypes
  <1>6. \A s \in ListSlots : lists[s] = Missing  OBVIOUS
  <1>7. ReportOfFile  BY DEF ReportOfFile, NoReport
  <1>. QED  BY <1>3, <1>4, <1>5, <1>6, <1>7, TypesSplit
       DEF CustomersInv, ListInv, NewestAsksQuery, NewestCounts, ShownIsAnswer

\* A call that begins is the only newest one, and asks for the query of the render
\* that began it.
LEMMA FetchBegins ==
  ASSUME CustomersTypeOK, NEW q \in Query, FetchCustomers(q)
  PROVE  /\ lists' \in [ListSlots -> ListCall \cup {Missing}] /\ mixed' \in BOOLEAN
         /\ ~mixed' => q = query
         /\ \E s \in ListSlots : lists'[s] # Missing /\ lists'[s].newest
         /\ \A s \in ListSlots : lists'[s] # Missing /\ lists'[s].newest =>
              lists'[s].q = q /\ lists'[s].at = "sent"
  <1>. DEFINE new == [q |-> q, total |-> 0, got |-> 0, newest |-> TRUE, at |-> "sent"]
              free == CHOOSE t \in ListSlots : lists[t] = Missing
              old(t) == [lists[t] EXCEPT !.newest = FALSE]
  <1>1. free \in ListSlots  BY DEF FetchCustomers, Listing
  <1>2. new \in ListCall  BY CustomersAssumption DEF ListCall
  <1>3. ASSUME NEW t \in ListSlots, lists[t] # Missing
        PROVE  old(t) \in ListCall /\ ~old(t).newest
    <2>1. lists[t] \in ListCall  BY <1>3 DEF CustomersTypeOK
    <2>. QED  BY <2>1 DEF ListCall
  <1>4. lists' = [t \in ListSlots |-> IF t = free THEN new
                                      ELSE IF lists[t] = Missing THEN Missing ELSE old(t)]
    BY DEF FetchCustomers
  <1>5. mixed' = (q # query \/ (mixed /\ Listing # {}))  BY DEF FetchCustomers
  <1>6. new.q = q /\ new.at = "sent" /\ new.newest  OBVIOUS
  <1>. HIDE DEF new, free, old
  <1>7. lists' \in [ListSlots -> ListCall \cup {Missing}]  BY <1>2, <1>3, <1>4
  <1>8. lists'[free] = new /\ new # Missing  BY <1>1, <1>2, <1>4, MissingAssumption
  <1>9. ASSUME NEW s \in ListSlots, lists'[s] # Missing, lists'[s].newest
        PROVE  lists'[s] = new
    BY <1>3, <1>4, <1>9
  <1>. QED  BY <1>1, <1>5, <1>6, <1>7, <1>8, <1>9

\* So it begins with the invariant kept, while the query stays.
LEMMA FetchKeeps ==
  ASSUME CustomersTypeOK, NEW q \in Query, FetchCustomers(q), query' = query, due' \in BOOLEAN,
         rows' = rows, found' \in [Filters -> 0..MaxFound]
  PROVE  PageTypes' /\ NewestAsksQuery' /\ NewestCounts' /\ ShownIsAnswer'
  <1>1. PageTypes'  BY FetchBegins DEF CustomersTypeOK, PageTypes
  <1>2. NewestAsksQuery'  BY FetchBegins DEF NewestAsksQuery
  <1>3. NewestCounts'
    <2>. SUFFICES ASSUME NEW s \in ListSlots, lists'[s] # Missing, lists'[s].newest
                  PROVE  CountsTable(lists[s])'
      BY DEF NewestCounts
    <2>1. lists'[s].at = "sent"  BY FetchBegins
    <2>. QED  BY <2>1 DEF CountsTable
  <1>4. ShownIsAnswer'  BY FetchBegins DEF ShownIsAnswer
  <1>. QED  BY <1>1, <1>2, <1>3, <1>4

\* A change of the query alone keeps it: the effect is due, or nothing has changed.
LEMMA QueryKeeps ==
  ASSUME ListInv, NEW filter \in Filters, NEW page \in 1..MaxFound, SetQuery(filter, page),
         UNCHANGED <<found, rows, lists, mixed>>
  PROVE  PageTypes' /\ NewestAsksQuery' /\ NewestCounts' /\ ShownIsAnswer'
  <1>1. query' \in Query /\ due' \in BOOLEAN
    BY DEF SetQuery, Query, ListInv, CustomersTypeOK
  <1>2. ~due' => ~due /\ query' = query  BY DEF SetQuery
  <1>3. PageTypes'  BY <1>1 DEF ListInv, CustomersTypeOK, PageTypes
  <1>. QED  BY <1>2, <1>3 DEF ListInv, NewestAsksQuery, NewestCounts, CountsTable, ShownIsAnswer

\* An answer is shown; the newest one is about the query that is set, unless that
\* changes with it.
LEMMA AnswerKeeps ==
  ASSUME ListInv, NEW s \in ListSlots, lists[s] # Missing, CustomersFetched(s)
  PROVE  PageTypes' /\ NewestAsksQuery' /\ NewestCounts' /\ ShownIsAnswer'
  <1>t. PageTypes /\ lists[s] \in ListCall  BY TypesSplit DEF ListInv, CustomersTypeOK
  <1>. DEFINE c == lists[s]
              last == TotalPages(c.total)
  <1>1. /\ rows' = [q |-> c.q, total |-> c.total, got |-> c.got, error |-> FALSE]
        /\ mixed' = (mixed \/ ~c.newest)
        /\ lists' = [lists EXCEPT ![s] = Missing]
        /\ found' = found
    BY DEF CustomersFetched
  <1>2. c.q \in Query /\ c.total \in 0..MaxFound /\ c.got \in 0..1 /\ c.newest \in BOOLEAN
    BY <1>t DEF ListCall
  <1>3. last \in 1..MaxFound  BY <1>2, CustomersAssumption DEF TotalPages
  <1>4. \/ c.q.page > last /\ query' = [filter |-> query.filter, page |-> last] /\ due' = (due \/ query' # query)
        \/ ~(c.q.page > last) /\ query' = query /\ due' = due
    BY DEF CustomersFetched, SetQuery
  <1>5. query' \in Query /\ due' \in BOOLEAN
    <2>1. query' \in Query
      <3>. HIDE DEF last
      <3>. QED  BY <1>t, <1>3, <1>4 DEF PageTypes, Query
    <2>2. due' \in BOOLEAN  BY <1>t, <1>4 DEF PageTypes
    <2>. QED  BY <2>1, <2>2
  <1>6. ~due' => ~due /\ query' = query  BY <1>4
  <1>7. \A t \in ListSlots : lists'[t] # Missing => lists'[t] = lists[t]  BY <1>t, <1>1 DEF PageTypes
  <1>8. lists' \in [ListSlots -> ListCall \cup {Missing}]  BY <1>t, <1>1 DEF PageTypes
  <1>9. rows' \in Rows  BY <1>1, <1>2 DEF Rows
  <1>10. mixed' \in BOOLEAN  BY <1>t, <1>1, <1>2 DEF PageTypes
  <1>11. PageTypes'  BY <1>t, <1>1, <1>5, <1>8, <1>9, <1>10 DEF PageTypes
  <1>12. NewestAsksQuery'  BY <1>1, <1>6, <1>7 DEF ListInv, NewestAsksQuery
  <1>13. NewestCounts'  BY <1>1, <1>7 DEF ListInv, NewestCounts, CountsTable
  <1>14. ASSUME ~due', ~mixed'
         PROVE  rows'.q = query' /\ (rows'.total > 0 => rows'.got > 0)
    <2>1. ~due /\ ~mixed /\ c.newest /\ query' = query  BY <1>1, <1>6, <1>14
    <2>2. c.q = query /\ CountsTable(c)  BY <2>1 DEF ListInv, NewestAsksQuery, NewestCounts
    <2>3. ~(c.q.page > last)
      <3>1. CASE c.q.page > last
        <4>1. query'.page = last /\ query'.page = c.q.page  BY <1>4, <2>1, <2>2, <3>1
        <4>2. last \in Int /\ c.q.page \in Int  BY <1>2, <1>3 DEF Query
        <4>. QED  BY <3>1, <4>1, <4>2
      <3>. QED  BY <3>1
    <2>4. c.at = "answered"  BY DEF CustomersFetched
    <2>5. c.total = found[c.q.filter] /\ c.got = IF c.q.page <= found[c.q.filter] THEN 1 ELSE 0
      BY <2>2, <2>4 DEF CountsTable
    <2>6. c.total > 0 => c.got > 0
      <3>. HIDE DEF c
      <3>. QED  BY <1>2, <2>3, <2>5 DEF TotalPages, Query
    <2>. QED  BY <1>1, <2>1, <2>2, <2>6
  <1>15. ShownIsAnswer'  BY <1>14 DEF ShownIsAnswer
  <1>. QED  BY <1>11, <1>12, <1>13, <1>15

\* The service works on a call.
LEMMA ServiceKeeps ==
  ASSUME ListInv, NEW s \in ListSlots, lists[s] # Missing, CountRows(s) \/ ReadRows(s)
  PROVE  PageTypes' /\ NewestAsksQuery' /\ NewestCounts' /\ ShownIsAnswer'
  <1>t. PageTypes /\ lists[s] \in ListCall  BY TypesSplit DEF ListInv, CustomersTypeOK
  <1>. DEFINE c == lists[s]
              n == found[c.q.filter]
              got == IF c.q.page <= n THEN 1 ELSE 0
  <1>0. n \in 0..MaxFound /\ got \in 0..1  BY <1>t DEF PageTypes, ListCall, Query
  <1>1. PICK d \in ListCall : /\ lists' = [lists EXCEPT ![s] = d]
                              /\ d.q = c.q /\ d.newest = c.newest
                              /\ ~mixed /\ c.newest => CountsTable(d)
    <2>1. CASE CountRows(s)
      <3>. DEFINE d == [c EXCEPT !.at = "counted", !.total = n]
      <3>1. lists' = [lists EXCEPT ![s] = d]  BY <1>t, <2>1 DEF CountRows, PageTypes
      <3>. HIDE DEF n, c
      <3>2. d \in ListCall /\ d.q = c.q /\ d.newest = c.newest /\ d.total = n /\ d.at = "counted"
        BY <1>t, <1>0 DEF ListCall, c
      <3>. HIDE DEF d
      <3>3. CountsTable(d)  BY <3>2 DEF CountsTable, n
      <3>. QED  BY <3>1, <3>2, <3>3
    <2>2. CASE ReadRows(s)
      <3>. DEFINE d == [c EXCEPT !.at = "answered", !.got = got]
      <3>1. lists' = [lists EXCEPT ![s] = d] /\ c.at = "counted"  BY <1>t, <2>2 DEF ReadRows, PageTypes
      <3>2. ~mixed /\ c.newest => CountsTable(c)  BY DEF ListInv, NewestCounts
      <3>. HIDE DEF got, c
      <3>3. /\ d \in ListCall /\ d.q = c.q /\ d.newest = c.newest
            /\ d.total = c.total /\ d.got = got /\ d.at = "answered"
        BY <1>t, <1>0 DEF ListCall, c
      <3>. HIDE DEF d
      <3>4. ~mixed /\ c.newest => CountsTable(d)  BY <3>1, <3>2, <3>3 DEF CountsTable, got, n
      <3>. QED  BY <3>1, <3>3, <3>4
    <2>. QED  BY <2>1, <2>2
  <1>2. UNCHANGED <<found, query, due, rows, mixed>>  BY DEF CountRows, ReadRows
  <1>. HIDE DEF c
  <1>3. lists'[s] = d /\ \A t \in ListSlots : t # s => lists'[t] = lists[t]
    BY <1>t, <1>1 DEF PageTypes
  <1>4. d # Missing  BY MissingAssumption
  <1>5. PageTypes'
    <2>1. lists' \in [ListSlots -> ListCall \cup {Missing}]  BY <1>t, <1>1 DEF PageTypes
    <2>. QED  BY <1>t, <1>2, <2>1 DEF PageTypes
  <1>6. NewestAsksQuery'  BY <1>1, <1>2, <1>3 DEF ListInv, NewestAsksQuery, c
  <1>7. NewestCounts'
    <2>. SUFFICES ASSUME ~mixed, NEW t \in ListSlots, lists'[t] # Missing, lists'[t].newest
                  PROVE  CountsTable(lists[t])'
      BY <1>2 DEF NewestCounts
    <2>1. CASE t = s
      <3>1. CountsTable(d)  BY <1>1, <1>3, <2>1
      <3>. QED  BY <1>2, <1>3, <2>1, <3>1 DEF CountsTable
    <2>2. CASE t # s  BY <1>2, <1>3, <2>2 DEF ListInv, NewestCounts, CountsTable
    <2>. QED  BY <2>1, <2>2
  <1>8. ShownIsAnswer'
    <2>1. (\A t \in ListSlots : lists'[t] # Missing => ~lists'[t].newest) =>
            \A t \in ListSlots : lists[t] # Missing => ~lists[t].newest
      BY <1>1, <1>3, <1>4 DEF c
    <2>. QED  BY <1>2, <2>1 DEF ListInv, ShownIsAnswer
  <1>. QED  BY <1>5, <1>6, <1>7, <1>8

\* A call fails, or the table changes under the calls.
LEMMA TroubleKeeps ==
  ASSUME ListInv, RowsChange \/ \E s \in ListSlots : lists[s] # Missing /\ FetchFails(s)
  PROVE  PageTypes' /\ NewestAsksQuery' /\ NewestCounts' /\ ShownIsAnswer'
  <1>t. PageTypes  BY TypesSplit DEF ListInv
  <1>1. CASE RowsChange
    <2>1. found' \in [Filters -> 0..MaxFound]  BY <1>t, <1>1 DEF RowsChange, PageTypes
    <2>2. mixed' = TRUE /\ UNCHANGED <<query, due, rows, lists>>  BY <1>1 DEF RowsChange, dialogVars
    <2>. QED  BY <1>t, <2>1, <2>2 DEF PageTypes, NewestAsksQuery, NewestCounts, ShownIsAnswer
  <1>2. ASSUME NEW s \in ListSlots, FetchFails(s)
        PROVE  PageTypes' /\ NewestAsksQuery' /\ NewestCounts' /\ ShownIsAnswer'
    <2>1. /\ rows' = [rows EXCEPT !.error = TRUE] /\ lists' = [lists EXCEPT ![s] = Missing]
          /\ UNCHANGED <<found, query, due, mixed>>
      BY <1>2 DEF FetchFails
    <2>2. rows' \in Rows /\ rows'.error  BY <1>t, <2>1 DEF PageTypes, Rows
    <2>3. lists' \in [ListSlots -> ListCall \cup {Missing}]  BY <1>t, <2>1 DEF PageTypes
    <2>4. \A t \in ListSlots : lists'[t] # Missing => lists'[t] = lists[t]  BY <1>t, <2>1 DEF PageTypes
    <2>5. PageTypes'  BY <1>t, <2>1, <2>2, <2>3 DEF PageTypes
    <2>6. NewestAsksQuery'  BY <2>1, <2>4 DEF ListInv, NewestAsksQuery
    <2>7. NewestCounts'  BY <2>1, <2>4 DEF ListInv, NewestCounts, CountsTable
    <2>8. ShownIsAnswer'  BY <2>2 DEF ShownIsAnswer
    <2>. QED  BY <2>5, <2>6, <2>7, <2>8
  <1>. QED  BY <1>1, <1>2

\* What leaves the list and its query alone leaves their invariant alone.
LEMMA ListStays ==
  ASSUME ListInv, UNCHANGED <<found, query, due, rows, lists, mixed>>
  PROVE  PageTypes' /\ NewestAsksQuery' /\ NewestCounts' /\ ShownIsAnswer'
  BY TypesSplit DEF ListInv, PageTypes, NewestAsksQuery, NewestCounts, CountsTable, ShownIsAnswer

\* Every step keeps the part of the invariant that is about the list.
LEMMA ListStep ==
  ASSUME ListInv, CustomersNext
  PROVE  PageTypes' /\ NewestAsksQuery' /\ NewestCounts' /\ ShownIsAnswer'
  <1>t. CustomersTypeOK /\ PageTypes /\ DialogTypes  BY TypesSplit DEF ListInv
  <1>p. query.filter \in Filters /\ query.page \in 1..MaxFound /\ rows.total \in 0..MaxFound
    BY <1>t DEF PageTypes, Query, Rows
  <1>1. ASSUME NEW filter \in Filters, ApplyFilter(filter)
        PROVE  PageTypes' /\ NewestAsksQuery' /\ NewestCounts' /\ ShownIsAnswer'
    <2>1. 1 \in 1..MaxFound  BY CustomersAssumption
    <2>. QED  BY <1>1, <2>1, QueryKeeps DEF ApplyFilter
  <1>2. CASE PrevPage
    <2>. DEFINE page == IF query.page > 1 THEN query.page - 1 ELSE 1
    <2>1. page \in 1..MaxFound  BY <1>p, CustomersAssumption
    <2>2. SetQuery(query.filter, page) /\ UNCHANGED <<found, rows, lists, mixed>>  BY <1>2 DEF PrevPage
    <2>. HIDE DEF page
    <2>. QED  BY <1>p, <2>1, <2>2, QueryKeeps
  <1>3. CASE NextPage
    <2>. DEFINE page == IF query.page < TotalPages(rows.total) THEN query.page + 1
                        ELSE TotalPages(rows.total)
    <2>1. page \in 1..MaxFound  BY <1>p, CustomersAssumption DEF TotalPages
    <2>2. SetQuery(query.filter, page) /\ UNCHANGED <<found, rows, lists, mixed>>  BY <1>3 DEF NextPage
    <2>. HIDE DEF page
    <2>. QED  BY <1>p, <2>1, <2>2, QueryKeeps
  <1>4. CASE FetchEffect  BY <1>t, <1>4, FetchKeeps DEF FetchEffect, PageTypes
  <1>5. CASE RefreshCustomers  BY <1>t, <1>5, FetchKeeps DEF RefreshCustomers, PageTypes
  <1>6. CASE Imported
    <2>1. found' \in [Filters -> 0..MaxFound]  BY <1>t, <1>6 DEF Imported, PageTypes
    <2>2. work.import \in Query  BY <1>t, <1>6 DEF Imported, DialogTypes
    <2>. QED  BY <1>t, <1>6, <2>1, <2>2, FetchKeeps DEF Imported, PageTypes
  <1>7. ASSUME NEW ok \in BOOLEAN, SentSingle(ok)
        PROVE  PageTypes' /\ NewestAsksQuery' /\ NewestCounts' /\ ShownIsAnswer'
    <2>1. work.send \in Query /\ found' = found  BY <1>t, <1>7 DEF SentSingle, DialogTypes
    <2>2. CASE ok  BY <1>t, <1>7, <2>1, <2>2, FetchKeeps DEF SentSingle, PageTypes
    <2>3. CASE ~ok  BY <1>7, <2>1, <2>3, ListStays DEF SentSingle, listVars
    <2>. QED  BY <2>2, <2>3
  <1>8. ASSUME NEW s \in Listing, CountRows(s) \/ ReadRows(s) \/ CustomersFetched(s) \/ FetchFails(s)
        PROVE  PageTypes' /\ NewestAsksQuery' /\ NewestCounts' /\ ShownIsAnswer'
    BY <1>8, ServiceKeeps, AnswerKeeps, TroubleKeeps DEF Listing
  <1>9. CASE RowsChange  BY <1>9, TroubleKeeps
  <1>10. CASE \/ OpenUpload \/ ReopenUpload \/ CloseUpload \/ HandlePreview \/ HandleConfirmImport
              \/ ImportFails \/ HandleSendSingleMessage
              \/ \E file \in SheetFiles : HandleFileChange(file)
              \/ \E ok \in BOOLEAN : Previewed(ok)
    <2>1. UNCHANGED <<found, query, due, rows, lists, mixed>>
      BY <1>10 DEF OpenUpload, ReopenUpload, CloseUpload, HandlePreview, HandleConfirmImport,
           ImportFails, HandleSendSingleMessage, HandleFileChange, Previewed, listVars
    <2>. QED  BY <2>1, ListStays
  <1>. QED  BY <1>1, <1>2, <1>3, <1>4, <1>5, <1>6, <1>7, <1>8, <1>9, <1>10 DEF CustomersNext

\* Every step keeps the dialog well typed and its report on its file.
LEMMA DialogStep ==
  ASSUME CustomersInv, CustomersNext
  PROVE  DialogTypes' /\ ReportOfFile'
  <1>t. DialogTypes /\ ReportOfFile /\ query \in Query
    BY TypesSplit DEF CustomersInv, ListInv, PageTypes
  <1>1. CASE UNCHANGED <<upload, work, swapped>>  BY <1>t, <1>1 DEF DialogTypes, ReportOfFile
  <1>2. CASE OpenUpload
    <2>1. upload' = NoReport /\ work' = work /\ swapped' = (swapped \/ work.preview # Missing)
      BY <1>2 DEF OpenUpload
    <2>. QED  BY <1>t, <2>1 DEF DialogTypes, ReportOfFile, NoReport, File
  <1>3. CASE ReopenUpload \/ CloseUpload
    <2>1. PICK open \in BOOLEAN : upload' = [upload EXCEPT !.open = open]
      BY <1>3 DEF ReopenUpload, CloseUpload
    <2>2. UNCHANGED <<work, swapped>>  BY <1>3 DEF ReopenUpload, CloseUpload
    <2>. QED  BY <1>t, <2>1, <2>2 DEF DialogTypes, ReportOfFile
  <1>4. ASSUME NEW file \in SheetFiles, HandleFileChange(file) PROVE DialogTypes' /\ ReportOfFile'
    <2>1. /\ upload' = [NoReport EXCEPT !.file = file] /\ work' = work
          /\ swapped' = (swapped \/ work.preview # Missing)
      BY <1>4 DEF HandleFileChange
    <2>. QED  BY <1>t, <2>1 DEF DialogTypes, ReportOfFile, NoReport, File
  <1>5. CASE HandlePreview
    <2>1. work' = [work EXCEPT !.preview = upload.file] /\ UNCHANGED <<upload, swapped>>
      BY <1>5 DEF HandlePreview, dialogVars
    <2>. QED  BY <1>t, <2>1 DEF DialogTypes, ReportOfFile
  <1>6. ASSUME NEW ok \in BOOLEAN, Previewed(ok) PROVE DialogTypes' /\ ReportOfFile'
    <2>1. work' = [work EXCEPT !.preview = Missing]  BY <1>6 DEF Previewed
    <2>2. CASE ok
      <3>1. /\ upload' = [upload EXCEPT !.report = work.preview]
            /\ swapped' = (swapped /\ work.preview # upload.file)
            /\ work.preview # Missing
        BY <1>6, <2>2 DEF Previewed
      <3>2. swapped' \in BOOLEAN /\ (~swapped' => work.preview = upload.file)
        BY <1>t, <3>1 DEF DialogTypes, ReportOfFile
      <3>3. work.preview \in File  BY <1>t DEF DialogTypes
      <3>4. DialogTypes'  BY <1>t, <2>1, <3>1, <3>2, <3>3 DEF DialogTypes, File
      <3>5. ReportOfFile'
        <4>1. upload'.report = work.preview /\ upload'.file = upload.file /\ work'.preview = Missing
          BY <1>t, <2>1, <3>1 DEF DialogTypes
        <4>. QED  BY <3>2, <4>1 DEF ReportOfFile
      <3>. QED  BY <3>4, <3>5
    <2>3. CASE ~ok
      <3>1. UNCHANGED <<upload, swapped>>  BY <1>6, <2>3 DEF Previewed, dialogVars
      <3>. QED  BY <1>t, <2>1, <3>1 DEF DialogTypes, File, ReportOfFile
    <2>. QED  BY <2>2, <2>3
  <1>7. CASE \/ HandleConfirmImport \/ Imported \/ ImportFails \/ HandleSendSingleMessage
             \/ \E ok \in BOOLEAN : SentSingle(ok)
    <2>1. swapped' = swapped /\ (upload' = upload \/ upload' = [upload EXCEPT !.result = TRUE])
      BY <1>7 DEF HandleConfirmImport, Imported, ImportFails, HandleSendSingleMessage, SentSingle, dialogVars
    <2>2. \/ \E q \in {query, Missing} : work' = [work EXCEPT !.import = q]
          \/ \E q \in {query, Missing} : work' = [work EXCEPT !.send = q]
      BY <1>7 DEF HandleConfirmImport, Imported, ImportFails, HandleSendSingleMessage, SentSingle
    <2>3. upload' \in [open : BOOLEAN, file : File, report : File, result : BOOLEAN]
          /\ upload'.file = upload.file /\ upload'.report = upload.report
      BY <1>t, <2>1 DEF DialogTypes
    <2>4. work' \in [preview : File, import : Query \cup {Missing}, send : Query \cup {Missing}]
          /\ work'.preview = work.preview
      BY <1>t, <2>2 DEF DialogTypes
    <2>. QED  BY <1>t, <2>1, <2>3, <2>4 DEF DialogTypes, ReportOfFile
  <1>8. ASSUME ~(\/ OpenUpload \/ ReopenUpload \/ CloseUpload \/ HandlePreview \/ HandleConfirmImport
                 \/ Imported \/ ImportFails \/ HandleSendSingleMessage
                 \/ \E file \in SheetFiles : HandleFileChange(file)
                 \/ \E ok \in BOOLEAN : Previewed(ok) \/ SentSingle(ok))
        PROVE  UNCHANGED <<upload, work, swapped>>
    BY <1>8 DEF CustomersNext, ApplyFilter, PrevPage, NextPage, FetchEffect, RefreshCustomers, RowsChange,
         CountRows, ReadRows, CustomersFetched, FetchFails, dialogVars
  <1>. QED  BY <1>1, <1>2, <1>3, <1>4, <1>5, <1>6, <1>7, <1>8

\* Every step of the page keeps its invariant.
LEMMA CustomersInvStep == CustomersInv /\ [CustomersNext]_customersVars => CustomersInv'
  <1>. SUFFICES ASSUME CustomersInv, [CustomersNext]_customersVars PROVE CustomersInv'  OBVIOUS
  <1>1. CASE CustomersNext
    <2>1. Act \/ DialogAct \/ Change \/ UNCHANGED acts
      BY <1>1 DEF CustomersNext, ApplyFilter, PrevPage, NextPage, FetchEffect, RefreshCustomers, RowsChange,
           CountRows, ReadRows, CustomersFetched, FetchFails, OpenUpload, ReopenUpload, CloseUpload,
           HandlePreview, HandleConfirmImport, Imported, ImportFails, HandleFileChange, Previewed,
           SentSingle, HandleSendSingleMessage
    <2>2. ActsTypes'  BY <2>1, ActsCounted DEF CustomersInv, ListInv
    <2>3. CustomersTypeOK'
      BY <1>1, <2>2, ListStep, DialogStep
         DEF CustomersInv, CustomersTypeOK, PageTypes, DialogTypes, ActsTypes
    <2>. QED  BY <1>1, <2>3, ListStep, DialogStep DEF CustomersInv, ListInv
  <1>2. CASE UNCHANGED customersVars
    <2>1. UNCHANGED <<found, query, due, rows, lists, upload, work, mixed, swapped, acts>>
      BY <1>2 DEF customersVars
    <2>2. CustomersTypeOK'  BY <2>1 DEF CustomersInv, ListInv, CustomersTypeOK
    <2>. QED  BY <2>1, <2>2, ListStays DEF CustomersInv, ListInv, ReportOfFile
  <1>. QED  BY <1>1, <1>2

\* Once nothing is under way the list answers the query that is set, for any numbers of
\* filters, customers, calls in flight and acts of the operator.
THEOREM ListAnswersQuery == CustomersSpec => []ListFollowsQuery
  <1>1. CustomersInv => ListFollowsQuery
    BY DEF CustomersInv, ListInv, ShownIsAnswer, ListFollowsQuery, Listing
  <1>. QED  BY <1>1, CustomersInvInit, CustomersInvStep, PTL DEF CustomersSpec

\* What is imported is what was previewed, unless a file was chosen under a preview.
THEOREM ReportBeforeImport == CustomersSpec => ImportedWasPreviewed
  <1>1. ASSUME CustomersInv, [CustomersNext]_customersVars, work.import = Missing,
               work'.import # Missing, ~swapped
        PROVE  upload.report = upload.file
    <2>1. HandleConfirmImport
      <3>1. DialogTypes  BY <1>1, TypesSplit DEF CustomersInv, ListInv
      <3>2. work'.import # work.import  BY <1>1
      <3>. QED  BY <1>1, <3>1, <3>2
             DEF DialogTypes, customersVars, CustomersNext, ApplyFilter, PrevPage, NextPage, FetchEffect,
               RefreshCustomers, RowsChange, CountRows, ReadRows, CustomersFetched, FetchFails,
               OpenUpload, ReopenUpload, CloseUpload, HandlePreview, Imported, ImportFails,
               HandleFileChange, Previewed, SentSingle, HandleSendSingleMessage
    <2>2. upload.report # Missing  BY <2>1 DEF HandleConfirmImport, DialogShows
    <2>. QED  BY <1>1, <2>2 DEF CustomersInv, ReportOfFile
  <1>2. CustomersInv /\ [CustomersNext]_customersVars =>
          [work.import = Missing /\ work'.import # Missing /\ ~swapped =>
             upload.report = upload.file]_customersVars
    BY <1>1
  <1>. QED  BY <1>2, CustomersInvInit, CustomersInvStep, PTL DEF CustomersSpec, ImportedWasPreviewed
=============================================================================
