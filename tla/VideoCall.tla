------------------------------ MODULE VideoCall -----------------------------
(***************************************************************************)
(* Starting and answering a call: the call windows of MessageContent with  *)
(* the hook useChat behind them, and the call handlers of VideoCallGateway.*)
(*                                                                         *)
(* A client is a browser tab that shows one room; RoomItem has joined all  *)
(* rooms of its user, so it hears the START_CALL_EVENT of every room.  The *)
(* windows are modal: nothing behind an open one can be clicked.  The      *)
(* clients are on one server process and stay connected.                   *)
(*                                                                         *)
(* What an event or a timer sets, React renders in a task of its own, and  *)
(* it runs the effect `monitoring call' after that, in another: an event,  *)
(* a timer or a click may come between.  What a click sets is rendered at  *)
(* once, ahead of what waits (which stays as it was set before the click), *)
(* and the effect that was due runs then, after the handler of the click.  *)
(***************************************************************************)
EXTENDS Naturals, Sequences

CONSTANTS Clients, Users, Rooms,
          MaxCalls,   \* bound on the clicks that start a call
          null        \* a state variable of React that is not set

ASSUME MaxCallsAssumption == MaxCalls \in Nat

VARIABLES user,       \* user[c]: who is logged in (currentUser)
          viewing,    \* viewing[c]: the room on the page (prop roomId)
          ui,         \* ui[c]: the call state of the tab as it is set, see Ui
          committed,  \* committed[c]: as it was last rendered, what clicks and effects see
          arrived,    \* tabs in which a call is set that was not rendered yet
          monitoring, \* tabs in which a call was rendered and the effect is due
          timerId,    \* timerId[c]: the number of the click that set the last timer
          timers,     \* timers[c]: timeouts of onStartCall that run, see Timer
          late,       \* history: tabs with a window that was opened for a call that was over
          calls,      \* clicks so far
          requests,   \* call requests on their way to a handler or in one
          published,  \* START_CALL_EVENTs in Redis, not consumed yet
          bells       \* bells[c]: START_CALL_EVENTs emitted to c, not handled yet

given == <<user, viewing>>
react == <<ui, committed, arrived, monitoring, late>>
timeouts == <<timerId, timers>>
server == <<requests, published, bells>>
vars == <<given, react, timeouts, calls, server>>

VideoStart == [ownerId : Users, roomId : Rooms, from : Clients]

ASSUME NullAssumption == null \notin VideoStart

Request == [event : {"startCall", "joinCall", "rejectCall"}, from : Clients, roomId : Rooms]

\* Its callback is the onEndCall of the render that set it, which knows the timerId of before.
Timer == [id : 1..MaxCalls, oldId : 0..MaxCalls]

Ui == [roomTalkingInJitsi     : VideoStart \cup {null},
       joinedMeeting          : BOOLEAN,
       isOpenWaitingVideoCall : BOOLEAN,
       isOpenIncomingCall     : BOOLEAN,
       isOpenMeeting          : BOOLEAN]

noCall == [roomTalkingInJitsi |-> null, joinedMeeting |-> FALSE,
           isOpenWaitingVideoCall |-> FALSE, isOpenIncomingCall |-> FALSE,
           isOpenMeeting |-> FALSE]

Init ==
  /\ user \in [Clients -> Users]
  /\ viewing \in [Clients -> Rooms]
  /\ ui = [c \in Clients |-> noCall] /\ committed = ui
  /\ arrived = {} /\ monitoring = {} /\ late = {}
  /\ timerId = [c \in Clients |-> 0]
  /\ timers = [c \in Clients |-> {}]
  /\ calls = 0
  /\ requests = {}
  /\ published = <<>>
  /\ bells = [c \in Clients |-> <<>>]

\* The Jitsi window is rendered only with a call to show.
meetingShown(u) == u.isOpenMeeting /\ u.roomTalkingInJitsi # null
windowOpen(u) == u.isOpenWaitingVideoCall \/ u.isOpenIncomingCall \/ meetingShown(u)

-----------------------------------------------------------------------------
(* React. *)

mutantBoth(u, own) == [u EXCEPT !.isOpenWaitingVideoCall = @ \/ own, !.isOpenIncomingCall = TRUE]

\* The effect `monitoring call' of a call, whatever became of that call since its render.
monitorCall(u, own) == [u EXCEPT !.isOpenWaitingVideoCall = own, !.isOpenIncomingCall = ~own]

ownCall(c) == committed[c].roomTalkingInJitsi.ownerId = user[c]

\* The render of what events, timers and effects have set.  An effect that is due runs first.
Render(c) ==
  /\ c \notin monitoring
  /\ ui[c] # committed[c] \/ c \in arrived
  /\ committed' = [committed EXCEPT ![c] = ui[c]]
  /\ monitoring' = monitoring \cup ({c} \cap arrived)
  /\ arrived' = arrived \ {c}
  /\ UNCHANGED <<given, ui, late, timeouts, calls, server>>

Effect(c) ==
  /\ c \in monitoring
  /\ ui' = [ui EXCEPT ![c] = monitorCall(@, ownCall(c))]
  /\ monitoring' = monitoring \ {c}
  /\ UNCHANGED <<given, committed, arrived, late, timeouts, calls, server>>

\* A click has made u of what is set and k of what was rendered.  With nothing to render
\* for it, the effect that is due waits on.
clicked(c, u, k) ==
  /\ committed' = [committed EXCEPT ![c] = k]
  /\ IF c \in monitoring /\ k # committed[c]
     THEN /\ ui' = [ui EXCEPT ![c] = monitorCall(u, ownCall(c))]
          /\ monitoring' = monitoring \ {c}
     ELSE /\ ui' = [ui EXCEPT ![c] = u]
          /\ UNCHANGED monitoring

-----------------------------------------------------------------------------
(* The tab. *)

emit(c, event) ==
  /\ requests' = requests \cup {[event |-> event, from |-> c, roomId |-> viewing[c]]}
  /\ UNCHANGED <<published, bells>>

mutantKeepTimers(ts, id) == ts
clearTimeout(ts, id) == {t \in ts : t.id # id}

mutantStillJoined(u) == [u EXCEPT !.roomTalkingInJitsi = null]
mutantNullJoined(u) == [u EXCEPT !.joinedMeeting = null, !.roomTalkingInJitsi = null]

\* useChat.rejectCall, which emits whatever the state of the call.
rejectCall(u) == [u EXCEPT !.joinedMeeting = FALSE, !.roomTalkingInJitsi = null]

mutantWaitOn(u) == [rejectCall(u) EXCEPT !.isOpenIncomingCall = FALSE, !.isOpenMeeting = FALSE]
closeAll(u) == [rejectCall(u) EXCEPT !.isOpenWaitingVideoCall = FALSE,
                                     !.isOpenIncomingCall     = FALSE,
                                     !.isOpenMeeting          = FALSE]

\* The effect that is due while a call ends opens a window for it after its end.
overtaken(c) == {c} \cap monitoring

\* The button of a window that ends its call
clickEnds(c) ==
  /\ clicked(c, closeAll(ui[c]), closeAll(committed[c]))
  /\ arrived' = arrived \ {c}
  /\ late' = (late \ {c}) \cup overtaken(c)
  /\ emit(c, "rejectCall")

clearOwnTimeout(c) ==
  /\ timers' = [timers EXCEPT ![c] = clearTimeout(@, timerId[c])]
  /\ UNCHANGED <<given, timerId, calls>>

\* The click on the phone.  The window and the timer come up even when useChat
\* sends nothing because the tab is in a call.
OnStartCall(c) ==
  /\ ~windowOpen(committed[c])
  /\ calls < MaxCalls
  /\ calls' = calls + 1
  /\ clicked(c, [ui[c] EXCEPT !.isOpenWaitingVideoCall = TRUE],
                [committed[c] EXCEPT !.isOpenWaitingVideoCall = TRUE])
  /\ timerId' = [timerId EXCEPT ![c] = calls']
  /\ timers' = [timers EXCEPT ![c] = @ \cup {[id |-> calls', oldId |-> timerId[c]]}]
  /\ IF committed[c].joinedMeeting THEN UNCHANGED server ELSE emit(c, "startCall")
  /\ UNCHANGED <<given, arrived, late>>

\* onEndCall from the button of the waiting window
OnEndCall(c) ==
  /\ committed[c].isOpenWaitingVideoCall
  /\ clickEnds(c) /\ clearOwnTimeout(c)

\* onEndCall from the timer: TIMEOUT_CALL has passed.
Timeout(c) ==
  \E t \in timers[c] :
    /\ ui' = [ui EXCEPT ![c] = closeAll(@)]
    /\ arrived' = arrived \ {c}
    /\ late' = late \cup overtaken(c)
    /\ timers' = [timers EXCEPT ![c] = clearTimeout(@ \ {t}, t.oldId)]
    /\ emit(c, "rejectCall")
    /\ UNCHANGED <<given, committed, monitoring, timerId, calls>>

OnCancelIncomingCall(c) ==
  /\ committed[c].isOpenIncomingCall
  /\ IF committed[c].roomTalkingInJitsi # null THEN clickEnds(c) ELSE UNCHANGED <<react, server>>
  /\ clearOwnTimeout(c)

\* useChat.joinCall returns early in a tab that has joined a meeting.
OnOkayIncomingCall(c) ==
  /\ committed[c].isOpenIncomingCall
  /\ LET joins == ~committed[c].joinedMeeting
         okay(u) == [u EXCEPT !.isOpenIncomingCall = FALSE,
                              !.isOpenMeeting      = TRUE,
                              !.joinedMeeting      = @ \/ joins]
     IN /\ clicked(c, okay(ui[c]), okay(committed[c]))
        /\ IF joins THEN emit(c, "joinCall") ELSE UNCHANGED server
  /\ late' = IF ui[c].roomTalkingInJitsi = null THEN late \cup {c} ELSE late
  /\ clearOwnTimeout(c)
  /\ UNCHANGED arrived

\* The user hangs up in Jitsi.  The window of the meeting stays, see the TODO there.
OnLeaveCall(c) ==
  /\ meetingShown(committed[c])
  /\ LET left(u) == [u EXCEPT !.isOpenIncomingCall = FALSE, !.isOpenWaitingVideoCall = FALSE]
     IN clicked(c, left(ui[c]), left(committed[c]))
  /\ clearOwnTimeout(c)
  /\ UNCHANGED <<arrived, late, server>>

\* handleStartCallEvent, whatever room the call is in and whatever the tab is doing.
HandleStartCallEvent(c) ==
  /\ bells[c] # <<>>
  /\ ui' = [ui EXCEPT ![c].roomTalkingInJitsi = Head(bells[c]), ![c].joinedMeeting = TRUE]
  /\ arrived' = arrived \cup {c}
  /\ bells' = [bells EXCEPT ![c] = Tail(@)]
  /\ UNCHANGED <<given, committed, monitoring, late, timeouts, calls, requests, published>>

-----------------------------------------------------------------------------
(* The server.  What setRoomState stores for a room is never changed: the       *)
(* methods that would store a token, or who joined, have no caller.             *)
roomDB == [jitsiToken |-> ""]

\* The guard `Room started with room call.`
mayStart(q) == roomDB.jitsiToken = ""

\* startCall: the token is made, the sender gets the echo, Redis the event.
StartCall(q) ==
  /\ q \in requests /\ q.event = "startCall" /\ mayStart(q)
  /\ LET data == [ownerId |-> user[q.from], roomId |-> q.roomId, from |-> q.from] IN
     /\ published' = Append(published, data)
     /\ bells' = [bells EXCEPT ![q.from] = Append(@, data)]
  /\ requests' = requests \ {q}
  /\ UNCHANGED <<given, react, timeouts, calls>>

\* joinCall and rejectCall find no token ('The call has ended'), or a lookup of
\* startCall fails.  The client does not listen to 'error'.
Refuse(q) ==
  /\ q \in requests
  /\ q.event = "startCall" \/ roomDB.jitsiToken = ""
  /\ requests' = requests \ {q}
  /\ UNCHANGED <<given, react, timeouts, calls, published, bells>>

\* consumeSendEvent, for everybody else in the room (see ChatServer).
ConsumeStart ==
  /\ published # <<>>
  /\ bells' = [c \in Clients |-> IF c = Head(published).from THEN bells[c]
                                 ELSE Append(bells[c], Head(published))]
  /\ published' = Tail(published)
  /\ UNCHANGED <<given, react, timeouts, calls, requests>>

Next ==
  \/ \E c \in Clients : \/ OnStartCall(c)
                        \/ OnEndCall(c)
                        \/ Timeout(c)
                        \/ OnCancelIncomingCall(c)
                        \/ OnOkayIncomingCall(c)
                        \/ OnLeaveCall(c)
                        \/ HandleStartCallEvent(c)
                        \/ Render(c)
                        \/ Effect(c)
  \/ \E q \in requests : StartCall(q) \/ Refuse(q)
  \/ ConsumeStart

Spec == Init /\ [][Next]_vars

\* Timers fire and React does its tasks; users and the network may be as slow as they like.
Fairness == \A c \in Clients : WF_vars(Timeout(c)) /\ WF_vars(Render(c)) /\ WF_vars(Effect(c))

FairSpec == Spec /\ Fairness

-----------------------------------------------------------------------------
TypeOK ==
  /\ user \in [Clients -> Users]
  /\ viewing \in [Clients -> Rooms]
  /\ ui \in [Clients -> Ui]
  /\ committed \in [Clients -> Ui]
  /\ {arrived, monitoring, late} \subseteq SUBSET Clients
  /\ timerId \in [Clients -> 0..MaxCalls]
  /\ timers \in [Clients -> SUBSET Timer]
  /\ calls \in 0..MaxCalls
  /\ requests \in SUBSET Request
  /\ published \in Seq(VideoStart)
  /\ bells \in [Clients -> Seq(VideoStart)]

\* The calls that came to the tab were rendered, and the effect has seen them.
seen(c) == c \notin arrived \cup monitoring

\* A tab that takes itself to be in a call (it can then start no other and answers none)
\* knows which call, and shows a window for it once the effect has seen it, whatever was
\* cancelled, timed out or came late.  A tab that has opened a window for a call that was
\* over is in order again when its user ends the next.
JoinedCallsAreShown ==
  \A c \in Clients \ late :
    /\ ui[c].joinedMeeting <=> ui[c].roomTalkingInJitsi # null
    /\ ui[c].joinedMeeting /\ seen(c) => windowOpen(ui[c])

\* The window that rings belongs to a call, of somebody else once the effect has seen it:
\* the button to refuse has a call to refuse.
IncomingCallsAreOthers ==
  \A c \in Clients \ late :
    ui[c].isOpenIncomingCall => /\ ui[c].roomTalkingInJitsi # null
                                /\ seen(c) => ui[c].roomTalkingInJitsi.ownerId # user[c]

\* A timer that still runs is the one timerId names, so that the button pressed next
\* stops it; and none runs once the user is in a meeting, which it would close (but for
\* a meeting that never was, see JoinedCallsAreShown).
TimersCanBeCleared ==
  \A c \in Clients : \A t \in timers[c] :
    /\ t.id = timerId[c]
    /\ c \notin late => ~ui[c].isOpenMeeting

\* The window of a tab that waits with its timer running does not stay for ever, unless it
\* is opened again for the call that the timer ended, or the user goes into a meeting (a
\* call that came with the click rings beside it; to accept that call stops the timer).
WaitingEnds ==
  \A c \in Clients : committed[c].isOpenWaitingVideoCall /\ timers[c] # {}
                     ~> \/ ~committed[c].isOpenWaitingVideoCall
                        \/ c \in late
                        \/ meetingShown(committed[c])

\* useChat.joinCall is there to "Join an existing video call": the tab that accepts a
\* call should tell the server.
AcceptingSendsJoinCall ==
  [][\A c \in Clients :
       ~committed[c].isOpenMeeting /\ committed'[c].isOpenMeeting
       => [event |-> "joinCall", from |-> c, roomId |-> viewing[c]] \in requests']_vars

\* "Room started with room call.": no call should start in a room while somebody is
\* in a meeting of that room.
OneCallPerRoom ==
  [][\A c \in Clients :
       Len(published') > Len(published) /\ meetingShown(committed[c])
       => committed[c].roomTalkingInJitsi.roomId # published'[Len(published')].roomId]_vars

-----------------------------------------------------------------------------
(* What makes the invariants above inductive, for TabProofs. *)

\* A call that is still to be rendered is set, and an effect is due for one that was
\* rendered: for the call that is set, if no other came and it is not over.
CallsArrive ==
  \A c \in Clients :
    /\ c \in arrived => ui[c].roomTalkingInJitsi # null
    /\ c \in monitoring => committed[c].roomTalkingInJitsi # null
    /\ c \in monitoring \ late =>
         /\ ui[c].roomTalkingInJitsi # null
         /\ c \in arrived \/ ui[c].roomTalkingInJitsi = committed[c].roomTalkingInJitsi

\* A window that rings was rendered with a call.  A meeting has one, and its window was
\* rendered; one that is shown no more is over, or another call came since.
WindowsHaveCalls ==
  \A c \in Clients :
    /\ c \notin late /\ committed[c].isOpenIncomingCall => committed[c].roomTalkingInJitsi # null
    /\ c \notin late /\ ui[c].isOpenMeeting => /\ ui[c].roomTalkingInJitsi # null
                                              /\ meetingShown(committed[c])
    /\ meetingShown(committed[c]) /\ ~ui[c].isOpenMeeting
       => ui[c].roomTalkingInJitsi = null \/ c \in arrived

\* A timer runs only behind a window that waits or rings, and alone: the click that would
\* set another needs all windows closed.
TimersHaveWindows ==
  \A c \in Clients :
    /\ timers[c] # {} => \A u \in {ui[c], committed[c]} : \/ u.isOpenWaitingVideoCall
                                                        \/ u.isOpenIncomingCall
    /\ \A t, s \in timers[c] : t = s

IInv == /\ TypeOK
        /\ JoinedCallsAreShown
        /\ IncomingCallsAreOthers
        /\ TimersCanBeCleared
        /\ CallsArrive
        /\ WindowsHaveCalls
        /\ TimersHaveWindows
=============================================================================
