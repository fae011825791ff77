------------------------------- MODULE Composer -------------------------------
(***************************************************************************)
(* ChatRoom, the composer of a room's page: the draft and the files to be  *)
(* sent, UploadWrap, which shows the files, and useTyping, which tells     *)
(* when the user types.                                                    *)
(*                                                                         *)
(* useTyping counts down while no key is down.  Its effect runs after each *)
(* change and starts the interval anew; it goes on below zero.             *)
(***************************************************************************)
EXTENDS Integers

CONSTANTS Files,
          Below      \* bound on how far below zero the countdown is followed

ComposerAssumption == Below \in Nat \ {0}

VARIABLES inqueryMessage,                      \* whether there is a draft
          uploadedFiles, fileList,             \* ChatRoom's files, and those UploadWrap shows
          uploads,                             \* requests in flight
          isTyping, isKeyPressed, countdown,   \* useTyping
          effect                               \* what its effect saw

draft == <<inqueryMessage, uploadedFiles, fileList, uploads>>
typing == <<isTyping, isKeyPressed, countdown>>
composerVars == <<draft, typing, effect>>

Init ==
  /\ inqueryMessage = FALSE
  /\ uploadedFiles = {} /\ fileList = {} /\ uploads = {}
  /\ isTyping = FALSE /\ isKeyPressed = FALSE /\ countdown = 5
  /\ effect = [isKeyPressed |-> FALSE, countdown |-> 5]

seen == [isKeyPressed |-> isKeyPressed, countdown |-> countdown]

\* A render of ChatRoom gives UploadWrap a new array, and so back the files of ChatRoom.
rendered == fileList' = uploadedFiles'

-----------------------------------------------------------------------------
\* useTyping.  React runs its effect before the next key or tick.
Effect ==
  /\ seen # effect /\ effect' = seen
  /\ isTyping' = (isTyping /\ countdown # 0)
  /\ fileList' = IF isTyping' # isTyping THEN uploadedFiles ELSE fileList
  /\ UNCHANGED <<inqueryMessage, uploadedFiles, uploads, isKeyPressed, countdown>>

mutantOnlyWhileTyping == ~effect.isKeyPressed /\ effect.countdown > 1
\* The effect that saw no key down has started it.
intervalRuns == ~effect.isKeyPressed

\* setCountdown(c => c - 1).  The state keeps at -Below what only counts on.
Interval ==
  /\ intervalRuns /\ seen = effect
  /\ countdown' = IF countdown = -Below THEN countdown ELSE countdown - 1
  /\ UNCHANGED <<inqueryMessage, uploadedFiles, uploads, isTyping, isKeyPressed, effect>>
  /\ rendered

-----------------------------------------------------------------------------
\* The user's keys.  A key that is held presses again and again.
OnKeyPress ==
  /\ seen = effect
  /\ isKeyPressed' = TRUE /\ countdown' = 5 /\ isTyping' = TRUE     \* startTyping
  /\ inqueryMessage' \in BOOLEAN    \* onChangeMessage: tags, and all that is deleted, go
  /\ UNCHANGED <<uploadedFiles, uploads, effect>>
  /\ rendered

\* stopTyping.  It does not come when the field loses the focus.
OnKeyUp ==
  /\ seen = effect /\ isKeyPressed /\ isKeyPressed' = FALSE
  /\ UNCHANGED <<inqueryMessage, uploadedFiles, uploads, isTyping, countdown, effect>>
  /\ rendered

\* onSendMessageToServer, by Enter or the button: cancelTyping, one message for the files
\* and one for the text.
OnSend ==
  /\ seen = effect /\ countdown' = 0
  /\ inqueryMessage' = FALSE /\ uploadedFiles' = {}
  /\ UNCHANGED <<uploads, isTyping, isKeyPressed, effect>>
  /\ rendered

\* UploadWrap shows the file at once, and ChatRoom uploads it.
HandleChangeFile(f) ==
  /\ fileList' = fileList \cup {f} /\ uploads' = uploads \cup {f}
  /\ UNCHANGED <<inqueryMessage, uploadedFiles, typing, effect>>

\* The route does not exist: no upload succeeds, and the error is only told.
UploadFails(f) ==
  /\ f \in uploads /\ uploads' = uploads \ {f}
  /\ UNCHANGED <<inqueryMessage, uploadedFiles, typing, effect>>
  /\ rendered

OnRemoveFile(f) ==
  /\ f \in fileList /\ uploadedFiles' = uploadedFiles \ {f}
  /\ UNCHANGED <<inqueryMessage, uploads, typing, effect>>
  /\ rendered

Next ==
  \/ Effect \/ Interval \/ OnKeyPress \/ OnKeyUp \/ OnSend
  \/ \E f \in Files : HandleChangeFile(f) \/ UploadFails(f) \/ OnRemoveFile(f)

Spec == Init /\ [][Next]_composerVars

\* React runs effects, and the browser its timers.
Fairness == WF_composerVars(Effect) /\ WF_composerVars(Interval)

-----------------------------------------------------------------------------
TypeOK ==
  /\ {inqueryMessage, isTyping, isKeyPressed} \subseteq BOOLEAN
  /\ {uploadedFiles, fileList, uploads} \subseteq SUBSET Files
  /\ countdown \in -Below..5
  /\ effect \in [isKeyPressed : BOOLEAN, countdown : -Below..5]

\* Who types with no key down is told to have stopped before long, whatever is sent, typed
\* or uploaded meanwhile, or has a key down again.  A key whose release is never told keeps
\* the user typing.
TypingEnds == isTyping /\ ~isKeyPressed ~> ~isTyping \/ isKeyPressed
=============================================================================
