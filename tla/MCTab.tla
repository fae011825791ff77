-------------------------------- MODULE MCTab --------------------------------
(* On small sets: the calls of VideoCall, between tabs, and what else a room's *)
(* page shows: RoomViews, RoomForms and Composer, in one of them.  They read   *)
(* nothing of each other (RoomViews lets windows come and go at any time), so  *)
(* a behaviour takes the steps of one.                                         *)
(*                                                                             *)
(* Users and rooms are interchangeable, which TLC may not use as symmetry in a *)
(* run with a liveness property; one tab is given its user and room, and the   *)
(* others have every choice.                                                   *)
EXTENDS VideoCall, FiniteSets

CONSTANTS firstTab, firstUser, firstRoom,
          undefined, value, MaxAnswers,
          Names, Members, noName, unknown,
          Files, Below

VARIABLES isGroup, stored, room, messages, results, sidebar, panels, windows, answers, crashed,
          forms, isMenuOpen, isMembersOpen, name, detailName, submits, gone,
          inqueryMessage, uploadedFiles, fileList, uploads,
          isTyping, isKeyPressed, countdown, effect,
          part

V == INSTANCE RoomViews
F == INSTANCE RoomForms WITH Users <- Members, requests <- submits
C == INSTANCE Composer

ASSUME RoomViewsAssumption == V!RoomViewsAssumption
ASSUME RoomFormsAssumption == F!RoomFormsAssumption
ASSUME ComposerAssumption == C!ComposerAssumption

views == <<isGroup, stored, room, messages, results, sidebar, panels, windows, answers, crashed>>
modals == <<forms, isMenuOpen, isMembersOpen, name, detailName, submits, gone>>
composer == <<inqueryMessage, uploadedFiles, fileList, uploads,
              isTyping, isKeyPressed, countdown, effect>>
mcVars == <<vars, views, modals, composer, part>>

\* What is given is only varied for the part it matters to.
MCInit ==
  /\ part \in {"calls", "views", "modals", "composer"}
  /\ Init /\ V!Init /\ F!Init /\ C!Init
  /\ user[firstTab] = firstUser /\ viewing[firstTab] = firstRoom
  /\ part # "calls" => \A c \in Clients : user[c] = firstUser /\ viewing[c] = firstRoom
  /\ part # "views" => ~isGroup /\ stored = {}

\* A request that only ever is refused, which nothing in VideoCall waits for or sees, is
\* refused at once.  At most MaxAnswers answers are under way to the views at a time, and
\* of the two modals a behaviour opens one.
MCNext ==
  \/ part = "calls" /\ Next /\ (\A q \in requests \cap requests' : q.event = "startCall")
     /\ UNCHANGED <<views, modals, composer, part>>
  \/ part = "views" /\ V!Next /\ Cardinality(answers') <= MaxAnswers
     /\ UNCHANGED <<vars, modals, composer, part>>
  \/ part = "modals" /\ F!Next /\ (\E f \in DOMAIN forms : ~forms'[f].isMounted)
     /\ UNCHANGED <<vars, views, composer, part>>
  \/ part = "composer" /\ C!Next /\ UNCHANGED <<vars, views, modals, part>>

\* The fairness of VideoCall, and of Composer where it runs.
MCFairness ==
  /\ Fairness
  /\ WF_composer(part = "composer" /\ C!Effect)
  /\ WF_composer(part = "composer" /\ C!Interval)

MCSpec == MCInit /\ [][MCNext]_mcVars /\ MCFairness

\* The types of the part that takes steps.
MCTypeOK ==
  CASE part = "calls"    -> TypeOK
    [] part = "views"    -> V!TypeOK
    [] part = "modals"   -> F!TypeOK
    [] part = "composer" -> C!TypeOK

\* What renders of a room's page read: see RoomViews.
NothingElseThrows == V!NothingElseThrows

\* The requests of the modals and the fields they show: see RoomForms.
FormsSendWhatTheyShow == F!FormsSendWhatTheyShow

\* The typing of the composer: see Composer.
TypingEnds == C!TypingEnds
=============================================================================
