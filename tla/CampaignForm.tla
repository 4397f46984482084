---------------------------- MODULE CampaignForm ----------------------------
(***************************************************************************)
(* Composing a campaign (frontend/src/pages/Broadcast.jsx,                 *)
(* components/BroadcastForm.jsx, BroadcastTemplateSelector.jsx) and        *)
(* creating it (backend/src/modules/broadcast/broadcast.service.js,        *)
(* infra/db/broadcastRepository.js), for one user whose templates others   *)
(* may delete.                                                             *)
(*                                                                         *)
(* The page knows which template is selected, the form what it took from   *)
(* one, and files come in when the browser has read them.  A template is   *)
(* named by its id, and so are its text and its attachment; the texts are  *)
(* those, Own and NoText.  The rows of a campaign count its messages per   *)
(* number; numbers too short for one are not among Numbers, which the      *)
(* server drops.  Of the types, `image` stands for `file` too and `text`   *)
(* for `tts`.  Left out: the name, the delays and which connections,       *)
(* whose checks only refuse (any order may be refused), the sheet's own    *)
(* texts, and the preview.  Files, timers and validators are external.     *)
(***************************************************************************)
EXTENDS Naturals, FiniteSets

CONSTANTS
  Templates,
  Pictures,    \* templates with an attachment, of type image; the others are of type text
  Files,       \* attachments that the user has
  Numbers,
  Lists,       \* typed recipients: how often each number is there
  Sheets,      \* spreadsheets
  Listing,     \* the rows of a sheet: how often each number is there
  Fits,        \* <<text, sheet>>: the text holds the variables of the sheet
  Own, NoText, None,
  Orders,      \* clicks that the server may have in hand at once
  MaxEdits,    \* bound: what the user and others do to the form and the templates
  MaxSends     \* bound: orders

ASSUME FormAssumption ==
  /\ Pictures \subseteq Templates
  /\ Lists \subseteq [Numbers -> Nat] /\ Listing \in [Sheets -> [Numbers -> Nat]]
  /\ Fits \subseteq (Templates \cup {Own, NoText}) \X Sheets
  /\ None \notin Templates \cup Files \cup Sheets \cup Orders
  /\ Own # NoText /\ {Own, NoText} \cap Templates = {}
  /\ {MaxEdits, MaxSends} \subseteq Nat

VARIABLES
  stored, fresh,  \* broadcast_templates, and ids of none so far
  templates, selected,  \* the page: its list, and selectedTemplateId
  creating,   \* handleCreate under way: the template, and whether the server has it
  deletions,  \* handleTemplateDelete under way: the template, what was selected at the click,
              \* and whether the server has answered
  form,       \* form: text, messageType, templateId, typed recipients
  file, sheet,          \* file and xlsxFile
  reading,    \* files and sheets that the browser reads
  fields,     \* the sheet whose columns are xlsxVars
  parser,     \* import('xlsx'): whether it is here, and the last sheet that awaits it
  sending,    \* the order whose answer the page awaits
  orders,     \* per order under way: its step, what it asks for, and what the form showed
  campaigns,  \* per order, its campaign: message rows, text, attachment
  taken,      \* history: templates that the form took, since it was last emptied
  edits, sends

formPage   == <<templates, selected, creating, deletions>>
sheets == <<sheet, fields, parser>>
formInputs == <<form, file, reading, sheets, taken>>
formServer == <<stored, fresh, orders, campaigns>>
formCounts == <<edits, sends>>
formVars   == <<formPage, formInputs, sending, formServer, formCounts>>

NoRows  == [n \in Numbers |-> 0]
NoOrder == [at |-> "none"]
NoCampaign == [rows |-> NoRows, text |-> NoText, media |-> None]
TypeOf(t) == IF t \in Pictures THEN "image" ELSE "text"
Emptied(f) == [f EXCEPT !.text = NoText, !.type = "text", !.template = None, !.typed = NoRows]

(* The form is shown once the page has loaded the templates.               *)
loadData == templates = stored /\ selected = None

FormInit ==
  /\ stored \in SUBSET Templates /\ fresh = Templates \ stored
  /\ loadData
  /\ creating = None /\ deletions = {}
  /\ form = [text |-> NoText, type |-> "text", template |-> None, typed |-> NoRows]
  /\ file = None /\ sheet = None /\ reading = {} /\ fields = None
  /\ parser = [here |-> FALSE, awaits |-> None]
  /\ sending = None
  /\ orders = [o \in Orders |-> NoOrder] /\ campaigns = [o \in Orders |-> NoCampaign]
  /\ taken = {} /\ edits = 0 /\ sends = 0

Edit == edits < MaxEdits /\ edits' = edits + 1 /\ UNCHANGED sends

-----------------------------------------------------------------------------
(* The fields.                                                             *)
TypeText ==
  /\ Edit
  /\ \E t \in {Own, NoText} : form' = [form EXCEPT !.text = t]
  /\ UNCHANGED <<formPage, file, reading, sheets, taken, sending, formServer>>

(* A variable of the sheet goes into the text, which is the user's then.   *)
insertVariable ==
  /\ Edit /\ fields # None
  /\ form' = [form EXCEPT !.text = Own]
  /\ UNCHANGED <<formPage, file, reading, sheets, taken, sending, formServer>>

ChooseType ==
  /\ Edit
  /\ \E t \in {"text", "image"} : form' = [form EXCEPT !.type = t]
  /\ UNCHANGED <<formPage, file, reading, sheets, taken, sending, formServer>>

(* The field is disabled while there is a sheet.                           *)
TypeRecipients ==
  /\ Edit /\ sheet = None
  /\ \E r \in Lists : form' = [form EXCEPT !.typed = r]
  /\ UNCHANGED <<formPage, file, reading, sheets, taken, sending, formServer>>

(* The effect of selectedTemplate, the one of the list that is selected: a *)
(* new one fills the form.                                                 *)
Shown(t, list) == IF t \in list THEN t ELSE None

Effect(list, t) ==
  /\ templates' = list /\ selected' = t
  /\ LET now == Shown(t, list) IN
     IF now \in {None, Shown(selected, templates)} THEN UNCHANGED <<form, file, taken>>
     ELSE /\ form' = [form EXCEPT !.text = now, !.type = TypeOf(now), !.template = now]
          /\ file' = None
          /\ taken' = taken \cup {now}

Use(t) ==
  /\ Edit /\ t \in templates /\ sending = None
  /\ Effect(templates, t)
  /\ UNCHANGED <<creating, deletions, reading, sheets, sending, formServer>>

(* `Quitar template` takes the template from the page, not from the form.  *)
onTemplateClear ==
  /\ Edit /\ Shown(selected, templates) # None
  /\ Effect(templates, None)
  /\ UNCHANGED <<creating, deletions, reading, sheets, sending, formServer>>

-----------------------------------------------------------------------------
(* Files: chosen, and there once they are read, in any order.              *)
FileChosen(f) ==
  /\ Edit /\ (f \in Files => form.type = "image")
  /\ reading' = reading \cup {f}
  /\ UNCHANGED <<formPage, form, file, sheets, taken, sending, formServer>>

FileRead(f) ==
  /\ f \in reading \cap Files /\ reading' = reading \ {f} /\ file' = f
  /\ UNCHANGED <<formPage, form, sheets, taken, sending, formServer, formCounts>>

(* The effect of xlsxFile reads the columns once the parser is here, which *)
(* may be when that sheet is gone.                                         *)
SheetRead(s) ==
  /\ s \in reading \cap Sheets /\ reading' = reading \ {s} /\ sheet' = s
  /\ IF parser.here THEN fields' = s /\ UNCHANGED parser
     ELSE parser' = [parser EXCEPT !.awaits = s] /\ UNCHANGED fields
  /\ UNCHANGED <<formPage, form, file, taken, sending, formServer, formCounts>>

ParserLoads ==
  /\ ~parser.here /\ parser.awaits # None
  /\ parser' = [here |-> TRUE, awaits |-> None]
  /\ fields' = parser.awaits
  /\ UNCHANGED <<formPage, form, file, sheet, reading, taken, sending, formServer, formCounts>>

handleXlsxDelete ==
  /\ Edit /\ sheet # None
  /\ sheet' = None /\ fields' = None
  /\ UNCHANGED <<formPage, form, file, reading, parser, taken, sending, formServer>>

-----------------------------------------------------------------------------
(* Templates.  Saving disables its button, so one is created at a time.    *)
handleCreate(t) ==
  /\ Edit /\ creating = None /\ t \in fresh /\ fresh' = fresh \ {t}
  /\ creating' = [template |-> t, made |-> FALSE]
  /\ UNCHANGED <<templates, selected, deletions, formInputs, sending, stored, orders, campaigns>>

createTemplateService ==
  /\ creating # None /\ ~creating.made
  /\ stored' = stored \cup {creating.template}
  /\ creating' = [creating EXCEPT !.made = TRUE]
  /\ UNCHANGED <<templates, selected, deletions, formInputs, sending, fresh, orders, campaigns, formCounts>>

(* The answer puts it first in the list and selects it, whatever the user  *)
(* did meanwhile; an error or a timeout is shown, and that is all.         *)
Created ==
  /\ creating # None /\ creating' = None
  /\ \/ creating.made /\ Effect(templates \cup {creating.template}, creating.template)
     \/ UNCHANGED <<templates, selected, form, file, taken>>
  /\ UNCHANGED <<deletions, reading, sheets, sending, formServer, formCounts>>

handleTemplateDelete(t) ==
  /\ Edit /\ t \in templates /\ sending = None
  /\ deletions' = deletions \cup {[template |-> t, selected |-> selected, answered |-> FALSE]}
  /\ UNCHANGED <<templates, selected, creating, formInputs, sending, formServer>>

(* The foreign keys to a deleted template become null.                     *)
deleteTemplateService(d) ==
  /\ d \in deletions /\ ~d.answered
  /\ stored' = stored \ {d.template}
  /\ deletions' = (deletions \ {d}) \cup
                  (IF d.template \in stored THEN {[d EXCEPT !.answered = TRUE]} ELSE {})
  /\ UNCHANGED <<templates, selected, creating, formInputs, sending, fresh, orders, campaigns, formCounts>>

(* The selection goes if the template was selected when it was deleted,    *)
(* whatever is selected now; a request that timed out leaves the list.     *)
TemplateDeleted(d) ==
  /\ d \in deletions /\ d.answered /\ deletions' = deletions \ {d}
  /\ \/ Effect(templates \ {d.template}, IF d.selected = d.template THEN None ELSE selected)
     \/ UNCHANGED <<templates, selected, form, file, taken>>
  /\ UNCHANGED <<creating, reading, sheets, sending, formServer, formCounts>>

DeletedElsewhere(t) ==
  /\ Edit /\ t \in stored /\ stored' = stored \ {t}
  /\ UNCHANGED <<formPage, formInputs, sending, fresh, orders, campaigns>>

-----------------------------------------------------------------------------
(* handleSubmit.  The typed recipients do not go with a sheet.             *)
RecipientsAnyway == form.typed  \* mutant

Recipients == IF sheet # None THEN NoRows ELSE form.typed

Submittable ==
  /\ sheet # None \/ form.typed # NoRows
  /\ fields # None => <<form.text, fields>> \in Fits

Attached == IF form.type = "image" THEN file ELSE None

Once(rows) == [n \in Numbers |-> IF rows[n] > 0 THEN 1 ELSE 0]

(* `hours` tells whether both hours of the campaign are set.               *)
handleSubmit(o, hours) ==
  /\ sending = None /\ sends < MaxSends /\ orders[o] = NoOrder
  /\ Submittable
  /\ sends' = sends + 1 /\ sending' = o
  /\ orders' = [orders EXCEPT ![o] =
       [at |-> "asked", recipients |-> Recipients, sheet |-> sheet, text |-> form.text,
        type |-> form.type, template |-> form.template, file |-> Attached, hours |-> hours,
        shown |-> [rows |-> IF sheet # None THEN Listing[sheet] ELSE Once(form.typed),
                   text |-> form.text, file |-> Attached, taken |-> taken]]]
  /\ campaigns' = [campaigns EXCEPT ![o] = NoCampaign]
  /\ UNCHANGED <<formPage, formInputs, stored, fresh, edits>>

(* handleSend keeps errors and timeouts to itself, so that the form is     *)
(* emptied however the order ended, of what it holds by now; the order may *)
(* be under way still.                                                     *)
OrderAnswered ==
  /\ sending # None /\ sending' = None
  /\ form' = Emptied(form) /\ file' = None /\ taken' = {}
  /\ sheet' = None /\ fields' = IF sheet # None THEN None ELSE fields
  /\ UNCHANGED <<formPage, reading, parser, formServer, formCounts>>

-----------------------------------------------------------------------------
(* createBroadcastCampaignService.  The validator takes null for an hour   *)
(* that is no date.  The template is read; one that is gone is none.       *)
InStep(o, step) == orders[o].at = step
ToStep(o, step) == orders' = [orders EXCEPT ![o].at = step]

Valid(o) == orders[o].hours

ReadTemplate(o) ==
  /\ InStep(o, "asked") /\ Valid(o)
  /\ orders' = [orders EXCEPT ![o].at = "read", ![o].template = Shown(@, stored)]
  /\ UNCHANGED <<formPage, formInputs, sending, stored, fresh, campaigns, formCounts>>

(* buildPayload and the recipients: those typed once each, and those of    *)
(* the sheet row by row.                                                   *)
TextOf(r) == IF r.text # NoText THEN r.text ELSE IF r.template # None THEN r.template ELSE NoText

MediaOf(r) == IF r.file # None THEN r.file
              ELSE IF r.template \in Pictures THEN r.template ELSE None

allTargets(r) ==
  [n \in Numbers |-> Once(r.recipients)[n] + IF r.sheet # None THEN Listing[r.sheet][n] ELSE 0]

Acceptable(r) ==
  /\ r.type = "image" => MediaOf(r) # None
  /\ allTargets(r) # NoRows

(* The insert of the campaign: its foreign key wants the template.         *)
createBroadcastCampaign(o) ==
  LET r == orders[o] IN
  /\ InStep(o, "read") /\ Acceptable(r) /\ r.template \in stored \cup {None}
  /\ ToStep(o, "created")
  /\ campaigns' = [campaigns EXCEPT ![o] =
                     [rows |-> NoRows, text |-> TextOf(r), media |-> MediaOf(r)]]
  /\ UNCHANGED <<formPage, formInputs, sending, stored, fresh, formCounts>>

(* All messages in one transaction, which wants the template too.          *)
insertBroadcastMessages(o) ==
  LET r == orders[o] IN
  /\ InStep(o, "created") /\ r.template \in stored \cup {None}
  /\ ToStep(o, "over")
  /\ campaigns' = [campaigns EXCEPT ![o].rows = allTargets(r)]
  /\ UNCHANGED <<formPage, formInputs, sending, stored, fresh, formCounts>>

(* Refused, or a statement that failed: a campaign may stay without        *)
(* messages.                                                               *)
Refused(o) ==
  /\ orders[o].at \in {"asked", "read", "created"} /\ ToStep(o, "over")
  /\ UNCHANGED <<formPage, formInputs, sending, stored, fresh, campaigns, formCounts>>

Forget(o) ==
  /\ InStep(o, "over") /\ sending # o
  /\ orders' = [orders EXCEPT ![o] = NoOrder]
  /\ campaigns' = [campaigns EXCEPT ![o] = NoCampaign]
  /\ UNCHANGED <<formPage, formInputs, sending, stored, fresh, formCounts>>

-----------------------------------------------------------------------------
FormUser ==
  \/ TypeText \/ insertVariable \/ ChooseType \/ TypeRecipients \/ onTemplateClear \/ handleXlsxDelete
  \/ \E t \in Templates : Use(t) \/ handleCreate(t) \/ handleTemplateDelete(t)
  \/ \E f \in Files \cup Sheets : FileChosen(f)
  \/ \E o \in Orders, hours \in BOOLEAN : handleSubmit(o, hours)

FormPage ==
  \/ ParserLoads \/ Created \/ OrderAnswered
  \/ \E f \in Files : FileRead(f)
  \/ \E s \in Sheets : SheetRead(s)
  \/ \E d \in deletions : TemplateDeleted(d)

FormServer ==
  \/ createTemplateService
  \/ \E d \in deletions : deleteTemplateService(d)
  \/ \E t \in Templates : DeletedElsewhere(t)
  \/ \E o \in Orders : \/ ReadTemplate(o) \/ createBroadcastCampaign(o)
                       \/ insertBroadcastMessages(o) \/ Refused(o) \/ Forget(o)

FormNext == FormUser \/ FormPage \/ FormServer

FormSpec == FormInit /\ [][FormNext]_formVars

-----------------------------------------------------------------------------
(* Types.                                                                  *)
FormTypeOK ==
  /\ stored \subseteq Templates /\ templates \subseteq Templates
  /\ selected \in Templates \cup {None} /\ form.template \in taken \cup {None}
  /\ file \in Files \cup {None} /\ sheet \in Sheets \cup {None}
  /\ reading \subseteq Files \cup Sheets /\ fields \in Sheets \cup {None}
  /\ \A o \in Orders : campaigns[o].rows \in [Numbers -> Nat]

(* A campaign is what the form showed when it was sent, whatever happened  *)
(* to the form, to its files and to the templates before the server was    *)
(* done: all the recipients it showed, those of the sheet and no others if *)
(* there was one, or none at all; its text; its file.  What it did not     *)
(* show comes from a template that the form took since it was emptied,     *)
(* even if the page no longer shows one.                                   *)
CampaignIsAsShown ==
  \A o \in Orders : orders[o] # NoOrder /\ campaigns[o] # NoCampaign =>
    LET c == campaigns[o]
        s == orders[o].shown IN
    /\ c.rows \in {NoRows, s.rows}
    /\ c.text = s.text \/ (s.text = NoText /\ c.text \in s.taken)
    /\ c.media = s.file \/ (s.file = None /\ c.media \in s.taken)
    /\ orders[o].type = "image" => c.media # None

=============================================================================
