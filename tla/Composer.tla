------------------------------ MODULE Composer ------------------------------
(***************************************************************************)
(* What a user writes, attaches and records at the foot of a chat          *)
(* (frontend/src/components/chatExclusive/ChatWindow.jsx,                  *)
(* MessageInput.jsx) and sends (pages/ChatView.jsx, handleSend;            *)
(* services/chat.service.js, sendMedia).  The window stays mounted when    *)
(* another chat is opened.                                                 *)
(*                                                                         *)
(* A text is the chat where it was typed, a file the chat where it was     *)
(* chosen, a voice note the recordings it is made of; a file also has the  *)
(* chat that was open when it came among the files.  Left out: quick       *)
(* replies (QuickReplies), the progress shown, and leaving the page, which *)
(* stops the recording.  Microphone, timers and server are external.       *)
(***************************************************************************)
EXTENDS Naturals, SequencesExt

CONSTANTS
  Threads, NoThread, NoInput,
  Takes,      \* recordings, one per click that starts one
  MaxFiles,   \* bound: files chosen at once
  MaxClicks   \* bound: what the user does and others do to the chats

ASSUME ComposerAssumption ==
  /\ NoThread \notin Threads /\ NoInput \notin Threads \cup Takes
  /\ {MaxFiles, MaxClicks} \subseteq Nat

VARIABLES
  open,         \* the chat, which is gone while the list has none such
  may,          \* chats where permissions.canSend
  text, files,
  takes,        \* per recording its step, the chat where it began, and whether it was
                \* crossed: by another chat, or by another recording
  chunks,       \* recordings whose sound is in chunksRef
  recorderRef, recording,
  preview,      \* recordUrl is set
  timers, lastTimer,  \* limits that run, and stopTimeoutRef
  request,      \* what is being sent (uploading), or NoInput
  clicks

footVars == <<open, may, text, files, takes, chunks, recorderRef, recording, preview, timers, lastTimer,
              request, clicks>>

input    == <<text, files>>
recorder == <<takes, chunks, recorderRef, recording, timers, lastTimer>>

NoTake == [at |-> "none", from |-> NoThread, crossed |-> FALSE]
TakesAt(step) == {t \in Takes : takes[t].at = step}
UnderWay == {t \in Takes : takes[t].at \notin {"none", "done"}}
Crossed(ts) == [t \in Takes |-> IF t \in ts THEN [takes[t] EXCEPT !.crossed = TRUE] ELSE takes[t]]

FootInit ==
  /\ open = NoThread /\ may = Threads
  /\ text = NoInput /\ files = <<>>
  /\ takes = [t \in Takes |-> NoTake] /\ chunks = {}
  /\ recorderRef = NoInput /\ recording = FALSE /\ preview = FALSE
  /\ timers = {} /\ lastTimer = NoInput
  /\ request = NoInput /\ clicks = 0

Click == clicks < MaxClicks /\ clicks' = clicks + 1

(* The controls, but for the progress of a message, are disabled where the *)
(* user may not send; those of a recording and of files lie beside it.     *)
Enabled == open \in may /\ request = NoInput

-----------------------------------------------------------------------------
(* Another chat, or none: the effect of chat.id empties text and files,    *)
(* and leaves recording and preview alone.                                 *)
KeepsFiles == text' = NoInput /\ UNCHANGED files  \* mutant

Empty == text' = NoInput /\ files' = <<>>

OpenChat(c) ==
  /\ Click /\ c # open /\ open' = c
  /\ Empty
  /\ takes' = Crossed(UnderWay)
  /\ UNCHANGED <<may, chunks, recorderRef, recording, preview, timers, lastTimer, request>>

(* permissions: an agent may send while the chat is OPEN and its own.      *)
PermissionChanges(c) ==
  /\ Click
  /\ may' = IF c \in may THEN may \ {c} ELSE may \cup {c}
  /\ UNCHANGED <<open, input, recorder, preview, request>>

handleTextChange ==
  /\ Click /\ Enabled
  /\ text' \in {open, NoInput}
  /\ UNCHANGED <<open, may, files, recorder, preview, request>>

(* onFilesSelected: what is too large is left out, and any choice takes    *)
(* the place of the files before.                                          *)
handleFileChange ==
  /\ Click /\ Enabled /\ ~recording
  /\ \E n \in 0..MaxFiles :
       files' = [i \in 1..n |-> [kind |-> "file", from |-> open, takes |-> {}, in |-> open]]
  /\ UNCHANGED <<open, may, text, recorder, preview, request>>

onRemoveAttachment ==
  /\ Click /\ open # NoThread
  /\ \E i \in DOMAIN files : files' = RemoveAt(files, i)
  /\ UNCHANGED <<open, may, text, recorder, preview, request>>

(* `Cancelar` takes the preview away; the voice note stays attached.       *)
cleanupRecordingPreview ==
  /\ Click /\ open # NoThread /\ preview /\ ~recording /\ preview' = FALSE
  /\ UNCHANGED <<open, may, input, recorder, request>>

-----------------------------------------------------------------------------
(* startRecording, up to the question for the microphone: until it is      *)
(* answered the button starts another one.                                 *)
startRecording(t) ==
  /\ Click /\ Enabled /\ ~recording /\ takes[t].at = "none"
  /\ takes' = [takes EXCEPT ![t] = [at |-> "asking", from |-> open, crossed |-> FALSE]]
  /\ preview' = FALSE /\ files' = <<>>
  /\ UNCHANGED <<open, may, text, chunks, recorderRef, recording, timers, lastTimer, request>>

(* The recorder runs, with a limit of its own; one before it, of another   *)
(* click, is held by nobody, and the sound of one that stops still comes   *)
(* among the chunks of this one.                                           *)
Granted(t) ==
  /\ takes[t].at = "asking"
  /\ takes' = [Crossed(IF UnderWay = {t} THEN {} ELSE UnderWay) EXCEPT ![t].at = "on"]
  /\ chunks' = {}
  /\ recorderRef' = t /\ recording' = TRUE
  /\ timers' = timers \cup {t} /\ lastTimer' = t
  /\ UNCHANGED <<open, may, input, preview, request, clicks>>

(* stopRecording: the last limit is cleared.                               *)
stopRecording(ts) ==
  /\ takes' = [t \in Takes |->
                 IF t = recorderRef THEN [ts[t] EXCEPT !.at = "stopping"] ELSE ts[t]]
  /\ timers' = timers \ {lastTimer}
  /\ recorderRef' = NoInput /\ recording' = FALSE
  /\ UNCHANGED <<chunks, lastTimer>>

Denied(t) ==
  /\ takes[t].at = "asking"
  /\ stopRecording([takes EXCEPT ![t].at = "done"])
  /\ UNCHANGED <<open, may, input, preview, request, clicks>>

onToggleRecording ==
  /\ Click /\ Enabled /\ recording
  /\ stopRecording(takes)
  /\ UNCHANGED <<open, may, input, preview, request>>

(* The limit of a recording stops the one that runs by now.                *)
LimitReached(t) ==
  /\ t \in timers
  /\ recorderRef' = NoInput /\ recording' = FALSE
  /\ takes' = [s \in Takes |-> IF s = recorderRef THEN [takes[s] EXCEPT !.at = "stopping"] ELSE takes[s]]
  /\ timers' = timers \ {t, lastTimer}
  /\ UNCHANGED <<open, may, input, chunks, lastTimer, preview, request, clicks>>

(* recorder.onstop: the sound that there is becomes the only file of the   *)
(* chat open now.                                                          *)
Stopped(t) ==
  /\ takes[t].at = "stopping"
  /\ takes' = [takes EXCEPT ![t].at = "done"]
  /\ \E sound \in BOOLEAN :
       LET heard == chunks \cup (IF sound THEN {t} ELSE {}) IN
       /\ chunks' = heard
       /\ IF heard = {} THEN UNCHANGED <<files, preview>>
          ELSE /\ files' = <<[kind |-> "voice", from |-> NoThread, takes |-> heard, in |-> open]>>
               /\ preview' = TRUE
  /\ UNCHANGED <<open, may, text, recorderRef, recording, timers, lastTimer, request, clicks>>

-----------------------------------------------------------------------------
(* handleSend of the window: the text and the first file.  A preview lets  *)
(* the button be pressed; alone it sends nothing.                          *)
Payload == [text |-> text, file |-> IF files = <<>> THEN NoInput ELSE Head(files)]

(* A file and its caption go in one request of the chat, as a text does.   *)
sendMedia(chat, payload) == [chat |-> chat, text |-> payload.text, file |-> payload.file]

handleSend ==
  /\ Click /\ Enabled /\ ~recording
  /\ text # NoInput \/ files # <<>>
  /\ request' = sendMedia(open, Payload)
  /\ UNCHANGED <<open, may, input, recorder, preview>>

(* The answer empties the input of whatever chat is open now; an error     *)
(* leaves it, though the message may be out.                               *)
SendAnswered ==
  /\ request # NoInput /\ request' = NoInput
  /\ \/ Empty /\ preview' = FALSE
     \/ UNCHANGED <<input, preview>>
  /\ UNCHANGED <<open, may, recorder, clicks>>

-----------------------------------------------------------------------------
FootUser ==
  \/ handleTextChange \/ handleFileChange \/ onRemoveAttachment \/ cleanupRecordingPreview
  \/ onToggleRecording \/ handleSend
  \/ \E c \in Threads \cup {NoThread} : OpenChat(c)
  \/ \E t \in Takes : startRecording(t)

FootWorld ==
  \/ SendAnswered
  \/ \E c \in Threads : PermissionChanges(c)
  \/ \E t \in Takes : Granted(t) \/ Denied(t) \/ LimitReached(t) \/ Stopped(t)

FootNext == FootUser \/ FootWorld

FootSpec == FootInit /\ [][FootNext]_footVars

-----------------------------------------------------------------------------
(* Types.                                                                  *)
ComposerTypeOK ==
  /\ open \in Threads \cup {NoThread} /\ text \in {open, NoInput}
  /\ \A i \in DOMAIN files : files[i].kind \in {"file", "voice"}
  /\ recorderRef \in TakesAt("on") \cup {NoInput} /\ recording = (recorderRef # NoInput)
  /\ timers \subseteq Takes

(* What goes to a client was composed in the chat with that client: the    *)
(* text was typed there, the file was chosen there or is a voice note      *)
(* recorded there.  A voice note may hold what was recorded elsewhere only *)
(* if another chat was opened meanwhile, or if two recordings were under   *)
(* way at once.                                                            *)
ComposedIn(c, f) ==
  /\ f.in = c
  /\ f.kind = "file" => f.from = c
  /\ \A t \in f.takes : takes[t].from = c \/ takes[t].crossed

SentWhereComposed ==
  request # NoInput =>
    /\ request.text \in {request.chat, NoInput}
    /\ request.file # NoInput => ComposedIn(request.chat, request.file)

=============================================================================
