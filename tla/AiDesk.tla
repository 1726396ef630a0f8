-------------------------------- MODULE AiDesk --------------------------------
(***************************************************************************)
(* The AI assistant: src/frontend/src/app/ai/page.tsx, and on the server   *)
(* src/backend/src/ai (service, provider registry, OpenAI-compatible       *)
(* client).                                                                *)
(*                                                                         *)
(* A text is the set of {{placeholders}} in it, and a customer the set of  *)
(* those it has values for; the wording and the prompts are left out.  The *)
(* model that writes the drafts is free to keep, drop and invent.          *)
(***************************************************************************)
EXTENDS Integers

CONSTANTS
  Placeholders,   \* names of template variables
  Profiles,       \* the customers' variables
  MaxDrafts,      \* bound: drafts asked for
  NoText          \* an empty field, or null

ASSUME AiAssumption == Profiles \subseteq SUBSET Placeholders /\ MaxDrafts \in Nat

VARIABLES
  assistant,   \* the fields of the form, the draft, the text as edited, and flags
  asked,       \* the request in flight
  origin,      \* history: the placeholders the text started from that neither the
               \* operator nor a personalization took out
  drafts       \* drafts asked for so far

aiVars == <<assistant, asked, origin, drafts>>

Text == SUBSET Placeholders
Action == {"generate", "improve", "personalize"}
NoRequest == [mode |-> "none", source |-> NoText, customer |-> NoText, again |-> FALSE]

\* loadInitial: both lists, or an error and no choice in either select.
ListsLoaded ==
  /\ assistant.dataLoading
  /\ \E ok \in BOOLEAN : assistant' = [assistant EXCEPT !.dataLoading = FALSE, !.dataError = ~ok]
  /\ UNCHANGED <<asked, origin, drafts>>

-----------------------------------------------------------------------------
(* The form, which stays open for changes while a draft is written.        *)

SetAction(action) ==
  /\ assistant.action # action
  /\ assistant' = [assistant EXCEPT !.action = action]
  /\ UNCHANGED <<asked, origin, drafts>>

\* The selects are there in generate mode only, and the text area in improve mode.
FillForm ==
  /\ \/ /\ assistant.action = "generate" /\ ~assistant.dataLoading /\ ~assistant.dataError
        /\ \/ \E body \in Text \cup {NoText} : assistant' = [assistant EXCEPT !.template = body]
           \/ \E c \in Profiles \cup {NoText} : assistant' = [assistant EXCEPT !.customer = c]
     \/ /\ assistant.action = "improve"
        /\ \E text \in Text \cup {NoText} : assistant' = [assistant EXCEPT !.message = text]
  /\ UNCHANGED <<asked, origin, drafts>>

-----------------------------------------------------------------------------
(* Asking for a draft.                                                     *)

Submit(mode, source, customer, again) ==
  /\ drafts < MaxDrafts /\ drafts' = drafts + 1
  /\ asked' = [mode |-> mode, source |-> source, customer |-> customer, again |-> again]
  /\ assistant' = [assistant EXCEPT !.busy = TRUE, !.error = FALSE]

Refuse == assistant' = [assistant EXCEPT !.error = TRUE] /\ UNCHANGED <<asked, drafts>>

\* The text personalize starts from: the message typed, else the template.
Source == IF assistant.message # NoText THEN assistant.message ELSE assistant.template

\* runDraft, by the action selected at the moment of the click.
RunDraft ==
  LET nobody == assistant.customer \in {NoText, {}}
  IN CASE assistant.action = "generate" ->
            IF assistant.template = NoText \/ nobody THEN Refuse
            ELSE Submit("generate", assistant.template, assistant.customer, FALSE)
       [] assistant.action = "personalize" ->
            IF nobody \/ Source = NoText THEN Refuse
            ELSE Submit("personalize", Source, assistant.customer, FALSE)
       [] assistant.action = "improve" ->
            IF assistant.message = NoText THEN Refuse
            ELSE Submit("improve", assistant.message, NoText, FALSE)

\* Only generate mode has a button of its own; the others are reached by
\* Regenerate, once there is a draft.
HandleGenerate ==
  /\ assistant.action = "generate" /\ ~assistant.busy /\ ~assistant.dataLoading
  /\ RunDraft
  /\ UNCHANGED origin

HandleRegenerate ==
  /\ assistant.draft # NoText /\ ~assistant.busy
  /\ RunDraft
  /\ UNCHANGED origin

HandleImproveDraft ==
  /\ assistant.draft # NoText /\ ~assistant.busy
  /\ assistant.edited # NoText
  /\ Submit("improve", assistant.edited, NoText, TRUE)
  /\ UNCHANGED origin

-----------------------------------------------------------------------------
(* The server.                                                             *)

\* Mutant: only generate compares the placeholders.
AcceptsGenerated(request, content) ==
  request.mode = "generate" => request.source \subseteq content

\* assertVariablesPreserved for generate and improve, assertNoInventedVariables
\* for personalize.
Accepts(request, content) ==
  IF request.mode = "personalize"
  THEN content \subseteq request.source \cup request.customer
  ELSE request.source \subseteq content

\* The source of a draft of a draft is what was left of the first source.
Roots(request, content) ==
  IF request.again THEN origin \cap request.source
  ELSE IF request.mode = "personalize" THEN request.source \cap content ELSE request.source

\* complete answers, and the draft passes the check: applyDraft.
DraftArrives ==
  /\ asked # NoRequest
  /\ \E content \in Text :
       /\ Accepts(asked, content)
       /\ assistant' = [assistant EXCEPT !.draft = content, !.edited = content, !.busy = FALSE]
       /\ origin' = Roots(asked, content)
  /\ asked' = NoRequest
  /\ UNCHANGED drafts

\* The provider is unknown or has no key, the request is refused or times out,
\* the answer is empty, or the draft does not pass the check: mapAiError.
DraftFails ==
  /\ asked # NoRequest
  /\ assistant' = [assistant EXCEPT !.busy = FALSE, !.error = TRUE]
  /\ asked' = NoRequest
  /\ UNCHANGED <<origin, drafts>>

-----------------------------------------------------------------------------
(* The draft panel, hidden while a draft is written.                       *)

EditDraft(text) ==
  /\ assistant.draft # NoText /\ ~assistant.busy /\ text # assistant.edited
  /\ assistant' = [assistant EXCEPT !.edited = text]
  /\ origin' = IF text = NoText THEN {} ELSE origin \cap text
  /\ UNCHANGED <<asked, drafts>>

\* Shown when the text differs from the draft.
ResetDraft ==
  /\ assistant.draft # NoText /\ ~assistant.busy /\ assistant.edited # assistant.draft
  /\ assistant' = [assistant EXCEPT !.edited = assistant.draft]
  /\ UNCHANGED <<asked, origin, drafts>>

AiInit ==
  /\ assistant = [action |-> "generate", template |-> NoText, customer |-> NoText,
                  message |-> NoText, draft |-> NoText, edited |-> NoText,
                  busy |-> FALSE, error |-> FALSE, dataLoading |-> TRUE, dataError |-> FALSE]
  /\ asked = NoRequest
  /\ origin = {}
  /\ drafts = 0

AiNext ==
  \/ ListsLoaded \/ FillForm
  \/ HandleGenerate \/ HandleRegenerate \/ HandleImproveDraft
  \/ DraftArrives \/ DraftFails \/ ResetDraft
  \/ \E action \in Action : SetAction(action)
  \/ \E text \in Text \cup {NoText} : EditDraft(text)

AiSpec == AiInit /\ [][AiNext]_aiVars

-----------------------------------------------------------------------------
(* Properties.                                                             *)

AiTypeOK ==
  /\ assistant \in [action : Action, template : Text \cup {NoText},
                    customer : Profiles \cup {NoText}, message : Text \cup {NoText},
                    draft : Text \cup {NoText}, edited : Text \cup {NoText},
                    busy : BOOLEAN, error : BOOLEAN, dataLoading : BOOLEAN, dataError : BOOLEAN]
  /\ asked \in [mode : Action, source : Text, customer : Profiles \cup {NoText}, again : BOOLEAN]
               \cup {NoRequest}
  /\ origin \in Text
  /\ drafts \in 0..MaxDrafts

\* However often a draft is generated, improved, edited, reset and improved
\* again, and whatever is changed in the form meanwhile, a placeholder of the text
\* it stems from leaves it by the operator's own edit or by a personalization
\* only, never by the model.
PlaceholdersSurvive ==
  assistant.edited # NoText => origin \subseteq assistant.edited
=============================================================================
