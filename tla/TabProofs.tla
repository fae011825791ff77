------------------------------ MODULE TabProofs ------------------------------
(***************************************************************************)
(* For any tabs, users, rooms and number of calls: VideoCall, its types    *)
(* and the safety invariants about the windows and timers of a tab.  For   *)
(* what else a room's page shows: when a render of RoomViews throws, what  *)
(* RoomForms sends, and the types of Composer.  And for what MCTab puts    *)
(* together of them, that it takes the steps of each.                      *)
(***************************************************************************)
EXTENDS MCTab, Integers, TLAPS

\* The invariants, as what they say of tab c, whose user is me: u is its call state as set,
\* k as rendered, ts its timers; in the tabs of A a call has arrived, in those of M the effect
\* is due, and in those of L a window was opened late.
TabInv(c, u, k, A, M, L, ts, me) ==
  /\ c \in L \/ (u.joinedMeeting <=> u.roomTalkingInJitsi # null)
  /\ u.joinedMeeting /\ c \notin A /\ c \notin M => c \in L \/ windowOpen(u)
  /\ u.isOpenIncomingCall => c \in L \/ u.roomTalkingInJitsi # null
  /\ u.isOpenIncomingCall /\ c \notin A /\ c \notin M
       => c \in L \/ u.roomTalkingInJitsi.ownerId # me
  /\ ts # {} => c \in L \/ ~u.isOpenMeeting
  /\ c \in A => u.roomTalkingInJitsi # null
  /\ c \in M => k.roomTalkingInJitsi # null
  /\ c \in M => c \in L \/ u.roomTalkingInJitsi # null
  /\ c \in M => c \in L \/ c \in A \/ u.roomTalkingInJitsi = k.roomTalkingInJitsi
  /\ k.isOpenIncomingCall => c \in L \/ k.roomTalkingInJitsi # null
  /\ u.isOpenMeeting => c \in L \/ (u.roomTalkingInJitsi # null /\ meetingShown(k))
  /\ meetingShown(k) /\ ~u.isOpenMeeting => u.roomTalkingInJitsi = null \/ c \in A
  /\ ts # {} => u.isOpenWaitingVideoCall \/ u.isOpenIncomingCall
  /\ ts # {} => k.isOpenWaitingVideoCall \/ k.isOpenIncomingCall

\* There is one timer at most, and its number is id.
TimersFit(ts, id) == \A t \in ts : t.id = id /\ \A s \in ts : t = s

Tab(c) == /\ TabInv(c, ui[c], committed[c], arrived, monitoring, late, timers[c], user[c])
          /\ TimersFit(timers[c], timerId[c])

\* The invariant is the types and what it says of every tab.
LEMMA InvariantOfTabs == IInv <=> TypeOK /\ \A c \in Clients : Tab(c)
<1> USE DEF Tab, TabInv, TimersFit, seen
<1>1. (\A c \in Clients : Tab(c)) =>
        /\ JoinedCallsAreShown /\ IncomingCallsAreOthers /\ TimersCanBeCleared
        /\ CallsArrive /\ WindowsHaveCalls /\ TimersHaveWindows
  <2> SUFFICES ASSUME \A c \in Clients : Tab(c)
               PROVE  /\ JoinedCallsAreShown /\ IncomingCallsAreOthers /\ TimersCanBeCleared
                      /\ CallsArrive /\ WindowsHaveCalls /\ TimersHaveWindows
    OBVIOUS
  <2>1. JoinedCallsAreShown
    BY DEF JoinedCallsAreShown
  <2>2. IncomingCallsAreOthers
    BY DEF IncomingCallsAreOthers
  <2>3. TimersCanBeCleared
    BY DEF TimersCanBeCleared
  <2>4. CallsArrive
    BY DEF CallsArrive
  <2>5. WindowsHaveCalls
    BY DEF WindowsHaveCalls
  <2>6. TimersHaveWindows
    BY DEF TimersHaveWindows
  <2>. QED
    BY <2>1, <2>2, <2>3, <2>4, <2>5, <2>6
<1>2. ASSUME IInv, NEW c \in Clients PROVE Tab(c)
  <2> USE <1>2 DEF IInv
  <2>1. /\ c \in late \/ (ui[c].joinedMeeting <=> ui[c].roomTalkingInJitsi # null)
        /\ ui[c].joinedMeeting /\ seen(c) => c \in late \/ windowOpen(ui[c])
    BY DEF JoinedCallsAreShown
  <2>2. /\ ui[c].isOpenIncomingCall => c \in late \/ ui[c].roomTalkingInJitsi # null
        /\ ui[c].isOpenIncomingCall /\ seen(c) =>
             c \in late \/ ui[c].roomTalkingInJitsi.ownerId # user[c]
    BY DEF IncomingCallsAreOthers
  <2>3. /\ timers[c] # {} => c \in late \/ ~ui[c].isOpenMeeting
        /\ \A t \in timers[c] : t.id = timerId[c]
    BY DEF TimersCanBeCleared
  <2>4. /\ c \in arrived => ui[c].roomTalkingInJitsi # null
        /\ c \in monitoring => committed[c].roomTalkingInJitsi # null
        /\ c \in monitoring => c \in late \/ ui[c].roomTalkingInJitsi # null
        /\ c \in monitoring =>
             c \in late \/ c \in arrived
             \/ ui[c].roomTalkingInJitsi = committed[c].roomTalkingInJitsi
    BY DEF CallsArrive
  <2>5. /\ committed[c].isOpenIncomingCall => c \in late \/ committed[c].roomTalkingInJitsi # null
        /\ ui[c].isOpenMeeting =>
             c \in late \/ (ui[c].roomTalkingInJitsi # null /\ meetingShown(committed[c]))
        /\ meetingShown(committed[c]) /\ ~ui[c].isOpenMeeting
             => ui[c].roomTalkingInJitsi = null \/ c \in arrived
    BY DEF WindowsHaveCalls
  <2>6. /\ timers[c] # {} => ui[c].isOpenWaitingVideoCall \/ ui[c].isOpenIncomingCall
        /\ timers[c] # {} => committed[c].isOpenWaitingVideoCall \/ committed[c].isOpenIncomingCall
        /\ \A t, s \in timers[c] : t = s
    BY DEF TimersHaveWindows
  <2>. QED
    BY <2>1, <2>2, <2>3, <2>4, <2>5, <2>6 DEF seen
<1>. HIDE DEF Tab
<1>. QED
  BY <1>1, <1>2 DEF IInv

LEMMA InvariantOfTabsNext == IInv' <=> TypeOK' /\ (\A c \in Clients : Tab(c))'
BY InvariantOfTabs, PTL

-----------------------------------------------------------------------------
(* What the steps make of one tab. *)

\* rejectCall and the closing of the windows leave a tab without a call or window.
LEMMA CloseAll ==
  ASSUME NEW u \in Ui
  PROVE  /\ closeAll(u) \in Ui
         /\ ~closeAll(u).isOpenWaitingVideoCall
         /\ ~closeAll(u).isOpenIncomingCall
         /\ ~closeAll(u).isOpenMeeting
         /\ ~closeAll(u).joinedMeeting
         /\ closeAll(u).roomTalkingInJitsi = null
BY DEF closeAll, rejectCall, Ui

\* The effect opens one of two windows, and leaves the rest.
LEMMA MonitorCall ==
  ASSUME NEW u \in Ui, NEW own \in BOOLEAN
  PROVE  /\ monitorCall(u, own) \in Ui
         /\ monitorCall(u, own).isOpenWaitingVideoCall = own
         /\ monitorCall(u, own).isOpenIncomingCall = ~own
         /\ monitorCall(u, own).isOpenMeeting = u.isOpenMeeting
         /\ monitorCall(u, own).joinedMeeting = u.joinedMeeting
         /\ monitorCall(u, own).roomTalkingInJitsi = u.roomTalkingInJitsi
BY DEF monitorCall, Ui

\* The effect opens a window by whose call was rendered, which is the one that is set
\* unless that is over or another came.
LEMMA EffectRuns ==
  ASSUME NEW c, NEW u \in Ui, NEW k \in Ui, NEW A, NEW M, NEW L, NEW ts, NEW me,
         TabInv(c, u, k, A, M, L, ts, me), c \in M
  PROVE  LET v == monitorCall(u, k.roomTalkingInJitsi.ownerId = me)
         IN v \in Ui /\ TabInv(c, v, k, A, M \ {c}, L, ts, me)
<1> DEFINE own == k.roomTalkingInJitsi.ownerId = me
           v == monitorCall(u, own)
<1>1. /\ v \in Ui /\ v.isOpenWaitingVideoCall = own /\ v.isOpenIncomingCall = ~own
      /\ v.isOpenMeeting = u.isOpenMeeting /\ v.joinedMeeting = u.joinedMeeting
      /\ v.roomTalkingInJitsi = u.roomTalkingInJitsi
  BY MonitorCall
<1>. HIDE DEF v
<1>2. TabInv(c, v, k, A, M \ {c}, L, ts, me)
  BY <1>1 DEF TabInv, windowOpen
<1>. QED
  BY <1>1, <1>2 DEF v

\* What is set is what was rendered, and the effect is due for a call that had arrived.
LEMMA Renders ==
  ASSUME NEW c, NEW u \in Ui, NEW k \in Ui, NEW A, NEW M, NEW L, NEW ts, NEW me,
         TabInv(c, u, k, A, M, L, ts, me), c \notin M
  PROVE  TabInv(c, u, u, A \ {c}, M \cup ({c} \cap A), L, ts, me)
BY DEF TabInv, meetingShown

LEMMA CallArrives ==
  ASSUME NEW c, NEW u \in Ui, NEW k \in Ui, NEW A, NEW M, NEW L, NEW ts, NEW me,
         TabInv(c, u, k, A, M, L, ts, me), NEW data \in VideoStart
  PROVE  LET v == [u EXCEPT !.roomTalkingInJitsi = data, !.joinedMeeting = TRUE]
         IN v \in Ui /\ TabInv(c, v, k, A \cup {c}, M, L, ts, me)
<1> DEFINE v == [u EXCEPT !.roomTalkingInJitsi = data, !.joinedMeeting = TRUE]
<1>1. /\ v \in Ui /\ v.roomTalkingInJitsi = data /\ v.joinedMeeting
      /\ v.isOpenWaitingVideoCall = u.isOpenWaitingVideoCall
      /\ v.isOpenIncomingCall = u.isOpenIncomingCall /\ v.isOpenMeeting = u.isOpenMeeting
  BY DEF Ui
<1>2. data # null
  BY NullAssumption
<1>. HIDE DEF v
<1>3. TabInv(c, v, k, A \cup {c}, M, L, ts, me)
  BY <1>1, <1>2 DEF TabInv
<1>. QED
  BY <1>1, <1>3 DEF v

\* A timeout closes what is set; what was rendered, and an effect that is due, remain.
LEMMA TimesOut ==
  ASSUME NEW c, NEW u \in Ui, NEW k \in Ui, NEW A, NEW M, NEW L, NEW ts, NEW me,
         TabInv(c, u, k, A, M, L, ts, me)
  PROVE  TabInv(c, closeAll(u), k, A \ {c}, M, L \cup ({c} \cap M), {}, me)
<1> DEFINE v == closeAll(u)
<1>1. /\ v \in Ui /\ ~v.isOpenWaitingVideoCall /\ ~v.isOpenIncomingCall /\ ~v.isOpenMeeting
      /\ ~v.joinedMeeting /\ v.roomTalkingInJitsi = null
  BY CloseAll
<1>. HIDE DEF v
<1>2. TabInv(c, v, k, A \ {c}, M, L \cup ({c} \cap M), {}, me)
  BY <1>1 DEF TabInv
<1>. QED
  BY <1>2 DEF v

\* A click that ends the call closes what was rendered too.  The effect that was due opens
\* a window after that.
LEMMA ClickEnds ==
  ASSUME NEW c, NEW u \in Ui, NEW k \in Ui, NEW A, NEW M, NEW L, NEW me
  PROVE  /\ closeAll(u) \in Ui /\ closeAll(k) \in Ui
         /\ c \notin M => TabInv(c, closeAll(u), closeAll(k), A \ {c}, M, L, {}, me)
         /\ c \in L => \A own \in BOOLEAN :
              /\ monitorCall(closeAll(u), own) \in Ui
              /\ TabInv(c, monitorCall(closeAll(u), own), closeAll(k), A \ {c}, M \ {c}, L, {}, me)
<1> DEFINE v == closeAll(u)
           w == closeAll(k)
<1>1. /\ v \in Ui /\ ~v.isOpenWaitingVideoCall /\ ~v.isOpenIncomingCall /\ ~v.isOpenMeeting
      /\ ~v.joinedMeeting /\ v.roomTalkingInJitsi = null
  BY CloseAll
<1>2. /\ w \in Ui /\ ~w.isOpenWaitingVideoCall /\ ~w.isOpenIncomingCall /\ ~w.isOpenMeeting
      /\ ~w.joinedMeeting /\ w.roomTalkingInJitsi = null
  BY CloseAll
<1>. HIDE DEF v, w
<1>3. c \notin M => TabInv(c, v, w, A \ {c}, M, L, {}, me)
  BY <1>1, <1>2 DEF TabInv
<1>4. ASSUME c \in L, NEW own \in BOOLEAN
      PROVE  /\ monitorCall(v, own) \in Ui
             /\ TabInv(c, monitorCall(v, own), w, A \ {c}, M \ {c}, L, {}, me)
  <2> DEFINE x == monitorCall(v, own)
  <2>1. x \in Ui /\ x.roomTalkingInJitsi = null /\ ~x.isOpenMeeting
    BY <1>1, MonitorCall
  <2>. HIDE DEF x
  <2>2. TabInv(c, x, w, A \ {c}, M \ {c}, L, {}, me)
    BY <1>2, <1>4, <2>1 DEF TabInv, meetingShown
  <2>. QED
    BY <2>1, <2>2 DEF x
<1>. QED
  BY <1>1, <1>2, <1>3, <1>4 DEF v, w

\* All windows are closed, so that no timer runs; the new one runs behind a window.
LEMMA ClickStarts ==
  ASSUME NEW c, NEW u \in Ui, NEW k \in Ui, NEW A, NEW M, NEW L, NEW ts, NEW me,
         TabInv(c, u, k, A, M, L, ts, me), ~windowOpen(k),
         NEW started, started # {}
  PROVE  LET v == [u EXCEPT !.isOpenWaitingVideoCall = TRUE]
             w == [k EXCEPT !.isOpenWaitingVideoCall = TRUE]
         IN /\ ts = {} /\ v \in Ui /\ w \in Ui
            /\ w.roomTalkingInJitsi = k.roomTalkingInJitsi
            /\ TabInv(c, v, w, A, M, L, started, me)
<1> DEFINE v == [u EXCEPT !.isOpenWaitingVideoCall = TRUE]
           w == [k EXCEPT !.isOpenWaitingVideoCall = TRUE]
<1>1. /\ v \in Ui /\ v.isOpenWaitingVideoCall /\ v.isOpenIncomingCall = u.isOpenIncomingCall
      /\ v.isOpenMeeting = u.isOpenMeeting /\ v.joinedMeeting = u.joinedMeeting
      /\ v.roomTalkingInJitsi = u.roomTalkingInJitsi
  BY DEF Ui
<1>2. /\ w \in Ui /\ w.isOpenWaitingVideoCall /\ w.isOpenIncomingCall = k.isOpenIncomingCall
      /\ w.isOpenMeeting = k.isOpenMeeting
      /\ w.roomTalkingInJitsi = k.roomTalkingInJitsi
  BY DEF Ui
<1>. HIDE DEF v, w
<1>3. ts = {} /\ TabInv(c, v, w, A, M, L, started, me)
  BY <1>1, <1>2 DEF TabInv, windowOpen, meetingShown
<1>. QED
  BY <1>1, <1>2, <1>3 DEF v, w

\* The call that is accepted is there, unless it ended since the render.  u and k become
\* v and w.
LEMMA ClickAccepts ==
  ASSUME NEW c, NEW u \in Ui, NEW k \in Ui, NEW A, NEW M, NEW L, NEW ts, NEW me,
         TabInv(c, u, k, A, M, L, ts, me), k.isOpenIncomingCall,
         NEW N, c \in N <=> c \in L \/ u.roomTalkingInJitsi = null,
         NEW v, ~v.isOpenIncomingCall, v.isOpenMeeting,
         v.roomTalkingInJitsi = u.roomTalkingInJitsi,
         v.joinedMeeting <=> u.joinedMeeting \/ ~k.joinedMeeting,
         NEW w, ~w.isOpenIncomingCall, w.isOpenMeeting,
         w.roomTalkingInJitsi = k.roomTalkingInJitsi
  PROVE  TabInv(c, v, w, A, M, N, {}, me)
BY DEF TabInv, windowOpen, meetingShown

\* The window of the meeting stays, so that the call is still shown.
LEMMA ClickLeaves ==
  ASSUME NEW c, NEW u \in Ui, NEW k \in Ui, NEW A, NEW M, NEW L, NEW ts, NEW me,
         TabInv(c, u, k, A, M, L, ts, me), meetingShown(k)
  PROVE  LET v == [u EXCEPT !.isOpenIncomingCall = FALSE, !.isOpenWaitingVideoCall = FALSE]
             w == [k EXCEPT !.isOpenIncomingCall = FALSE, !.isOpenWaitingVideoCall = FALSE]
         IN /\ v \in Ui /\ w \in Ui
            /\ w.roomTalkingInJitsi = k.roomTalkingInJitsi
            /\ TabInv(c, v, w, A, M, L, {}, me)
<1> DEFINE v == [u EXCEPT !.isOpenIncomingCall = FALSE, !.isOpenWaitingVideoCall = FALSE]
           w == [k EXCEPT !.isOpenIncomingCall = FALSE, !.isOpenWaitingVideoCall = FALSE]
<1>1. /\ v \in Ui /\ ~v.isOpenWaitingVideoCall /\ ~v.isOpenIncomingCall
      /\ v.isOpenMeeting = u.isOpenMeeting /\ v.joinedMeeting = u.joinedMeeting
      /\ v.roomTalkingInJitsi = u.roomTalkingInJitsi
  BY DEF Ui
<1>2. /\ w \in Ui /\ ~w.isOpenIncomingCall /\ w.isOpenMeeting = k.isOpenMeeting
      /\ w.roomTalkingInJitsi = k.roomTalkingInJitsi
  BY DEF Ui
<1>. HIDE DEF v, w
<1>3. TabInv(c, v, w, A, M, L, {}, me)
  BY <1>1, <1>2 DEF TabInv, windowOpen, meetingShown
<1>. QED
  BY <1>1, <1>2, <1>3 DEF v, w

\* The button pressed in a window stops the timer behind it, if there is one; a timer that
\* fires was the only one.
LEMMA Timers ==
  ASSUME NEW ts, NEW id, TimersFit(ts, id)
  PROVE  /\ clearTimeout(ts, id) = {}
         /\ \A t \in ts : \A old : clearTimeout(ts \ {t}, old) = {}
         /\ TimersFit({}, id)
BY DEF TimersFit, clearTimeout

-----------------------------------------------------------------------------
LEMMA InitInvariant == Init => IInv
<1> SUFFICES ASSUME Init PROVE IInv
  OBVIOUS
<1>1. TypeOK
  BY MaxCallsAssumption DEF Init, TypeOK, Ui, noCall
<1>2. ASSUME NEW c \in Clients PROVE Tab(c)
  <2>1. /\ ui[c] = noCall /\ committed[c] = noCall /\ timers[c] = {}
        /\ c \notin arrived /\ c \notin monitoring /\ c \notin late
    BY DEF Init
  <2>2. /\ ~noCall.isOpenWaitingVideoCall /\ ~noCall.isOpenIncomingCall /\ ~noCall.isOpenMeeting
        /\ ~noCall.joinedMeeting /\ noCall.roomTalkingInJitsi = null
    BY DEF noCall
  <2>. QED
    BY <2>1, <2>2 DEF Tab, TabInv, TimersFit
<1>. QED
  BY <1>1, <1>2, InvariantOfTabs

\* A step of one tab leaves the others as they are.
LEMMA TabStep ==
  ASSUME IInv, NEW c \in Clients,
         NEW v \in Ui, ui' = [ui EXCEPT ![c] = v],
         NEW w \in Ui, committed' = [committed EXCEPT ![c] = w],
         NEW ts \in SUBSET Timer, timers' = [timers EXCEPT ![c] = ts],
         NEW id \in 0..MaxCalls, timerId' = [timerId EXCEPT ![c] = id],
         arrived' \ {c} = arrived \ {c}, monitoring' \ {c} = monitoring \ {c},
         late' \ {c} = late \ {c},
         UNCHANGED given, calls' \in 0..MaxCalls, requests' \in SUBSET Request,
         published' = published, bells' \in [Clients -> Seq(VideoStart)],
         TabInv(c, v, w, arrived', monitoring', late', ts, user[c]),
         TimersFit(ts, id)
  PROVE  IInv'
<1>0. /\ TypeOK /\ \A d \in Clients : Tab(d)
  BY InvariantOfTabs
<1>1. UNCHANGED user
  BY DEF given
<1>2. TypeOK'
  <2>1. {arrived', monitoring', late'} \subseteq SUBSET Clients
    BY <1>0 DEF TypeOK
  <2>. QED
    BY <1>0, <2>1 DEF TypeOK, given
<1>3. /\ ui'[c] = v /\ committed'[c] = w /\ timers'[c] = ts /\ timerId'[c] = id
      /\ user'[c] = user[c]
  BY <1>0, <1>1 DEF TypeOK
<1>4. Tab(c)'
  <2>1. TabInv(c, ui'[c], committed'[c], arrived', monitoring', late', timers'[c], user'[c])
    BY <1>3
  <2>2. TimersFit(timers'[c], timerId'[c])
    BY <1>3
  <2>. QED
    BY <2>1, <2>2 DEF Tab, TabInv, TimersFit, windowOpen, meetingShown
<1>5. ASSUME NEW d \in Clients \ {c} PROVE Tab(d)'
  <2>1. /\ ui'[d] = ui[d] /\ committed'[d] = committed[d] /\ timers'[d] = timers[d]
        /\ timerId'[d] = timerId[d] /\ user'[d] = user[d]
    BY <1>0, <1>1 DEF TypeOK
  <2>2. /\ d \in arrived' <=> d \in arrived
        /\ d \in monitoring' <=> d \in monitoring
        /\ d \in late' <=> d \in late
    OBVIOUS
  <2>3. Tab(d)
    BY <1>0
  <2>. QED
    BY <2>1, <2>2, <2>3 DEF Tab, TabInv, TimersFit, windowOpen, meetingShown
<1>6. (\A d \in Clients : Tab(d))'
  BY <1>4, <1>5
<1>. QED
  BY <1>2, <1>6, InvariantOfTabsNext

\* What a tab emits is a request, and leaves them requests.
LEMMA Emit ==
  ASSUME TypeOK, NEW c \in Clients, NEW e \in {"startCall", "joinCall", "rejectCall"},
         emit(c, e)
  PROVE  requests' \in SUBSET Request /\ UNCHANGED <<published, bells>>
BY DEF TypeOK, emit, Request

\* A tab that a click leaves in order is so after the effect that was due.
LEMMA Clicked ==
  ASSUME IInv, NEW c \in Clients, NEW u \in Ui, NEW w \in Ui, clicked(c, u, w),
         w.roomTalkingInJitsi = committed[c].roomTalkingInJitsi, NEW L, NEW ts,
         TabInv(c, u, w, arrived, monitoring, L, ts, user[c])
  PROVE  /\ committed' = [committed EXCEPT ![c] = w]
         /\ monitoring' \ {c} = monitoring \ {c}
         /\ \E v \in Ui : /\ ui' = [ui EXCEPT ![c] = v]
                          /\ TabInv(c, v, w, arrived, monitoring', L, ts, user[c])
<1> DEFINE v == monitorCall(u, w.roomTalkingInJitsi.ownerId = user[c])
<1>1. CASE c \in monitoring /\ w # committed[c]
  <2>1. /\ ui' = [ui EXCEPT ![c] = v]
        /\ committed' = [committed EXCEPT ![c] = w] /\ monitoring' = monitoring \ {c}
    BY <1>1 DEF clicked, ownCall
  <2>2. v \in Ui /\ TabInv(c, v, w, arrived, monitoring \ {c}, L, ts, user[c])
    BY <1>1, EffectRuns
  <2>. HIDE DEF v
  <2>. QED
    BY <2>1, <2>2
<1>2. CASE ~(c \in monitoring /\ w # committed[c])
  BY <1>2 DEF clicked
<1>. QED
  BY <1>1, <1>2

-----------------------------------------------------------------------------
(* The steps of a tab. *)

LEMMA StartCallClick ==
  ASSUME IInv, NEW c \in Clients, OnStartCall(c)
  PROVE  IInv'
<1> DEFINE timer == [id |-> calls + 1, oldId |-> timerId[c]]
           u == [ui[c] EXCEPT !.isOpenWaitingVideoCall = TRUE]
           w == [committed[c] EXCEPT !.isOpenWaitingVideoCall = TRUE]
           ts == {timer}
<1>0. TypeOK /\ ui[c] \in Ui /\ committed[c] \in Ui /\ Tab(c)
  BY InvariantOfTabs DEF TypeOK
<1>1. /\ calls + 1 \in 0..MaxCalls /\ calls' = calls + 1 /\ ts \in SUBSET Timer
      /\ clicked(c, u, w)
      /\ timers' = [timers EXCEPT ![c] = @ \cup ts]
      /\ timerId' = [timerId EXCEPT ![c] = calls + 1]
      /\ UNCHANGED <<given, arrived, late>>
  BY <1>0, MaxCallsAssumption DEF OnStartCall, TypeOK, Timer
<1>2. /\ timers[c] = {} /\ u \in Ui /\ w \in Ui
      /\ w.roomTalkingInJitsi = committed[c].roomTalkingInJitsi
      /\ TabInv(c, u, w, arrived, monitoring, late, ts, user[c])
  <2>1. TabInv(c, ui[c], committed[c], arrived, monitoring, late, timers[c], user[c])
    BY <1>0 DEF Tab
  <2>2. ~windowOpen(committed[c]) /\ ts # {}
    BY DEF OnStartCall
  <2>. HIDE DEF ts
  <2>. QED
    BY <1>0, <2>1, <2>2, ClickStarts
<1>3. timers' = [timers EXCEPT ![c] = ts] /\ TimersFit(ts, calls + 1)
  <2>1. timer.id = calls + 1
    OBVIOUS
  <2>. HIDE DEF timer
  <2>. QED
    BY <1>0, <1>1, <1>2, <2>1 DEF TypeOK, TimersFit
<1>4. /\ requests' \in SUBSET Request /\ published' = published
      /\ bells' \in [Clients -> Seq(VideoStart)]
  BY <1>0, Emit DEF OnStartCall, TypeOK, server
<1>. HIDE DEF u, w, timer, ts
<1>5. /\ committed' = [committed EXCEPT ![c] = w]
      /\ monitoring' \ {c} = monitoring \ {c}
      /\ \E v \in Ui : /\ ui' = [ui EXCEPT ![c] = v]
                       /\ TabInv(c, v, w, arrived, monitoring', late, ts, user[c])
  BY <1>1, <1>2, Clicked
<1>6. PICK v \in Ui : /\ ui' = [ui EXCEPT ![c] = v]
                      /\ TabInv(c, v, w, arrived, monitoring', late, ts, user[c])
  BY <1>5
<1>7. arrived' = arrived /\ late' = late
  BY <1>1
<1>8. TabInv(c, v, w, arrived', monitoring', late', ts, user[c])
  BY <1>6, <1>7
<1>. QED
  BY <1>1, <1>2, <1>3, <1>4, <1>5, <1>6, <1>7, <1>8, TabStep

\* A click that stops its own timer, if there is one, and starts none.
LEMMA StoppedTimers ==
  ASSUME IInv, NEW c \in Clients, clearOwnTimeout(c)
  PROVE  /\ timers' = [timers EXCEPT ![c] = {}] /\ timerId' = [timerId EXCEPT ![c] = timerId[c]]
         /\ {} \in SUBSET Timer /\ timerId[c] \in 0..MaxCalls /\ TimersFit({}, timerId[c])
         /\ UNCHANGED given /\ calls' \in 0..MaxCalls
<1>1. TypeOK /\ TimersFit(timers[c], timerId[c])
  BY InvariantOfTabs DEF Tab
<1>2. clearTimeout(timers[c], timerId[c]) = {} /\ TimersFit({}, timerId[c])
  BY <1>1, Timers
<1>. QED
  BY <1>1, <1>2 DEF clearOwnTimeout, TypeOK

\* A click that leaves the call as it is, and stops its timer.
LEMMA OtherClick ==
  ASSUME IInv, NEW c \in Clients, NEW u \in Ui, NEW w \in Ui, clicked(c, u, w),
         w.roomTalkingInJitsi = committed[c].roomTalkingInJitsi,
         TabInv(c, u, w, arrived, monitoring, late', {}, user[c]),
         clearOwnTimeout(c), UNCHANGED arrived, late' \ {c} = late \ {c},
         requests' \in SUBSET Request, UNCHANGED <<published, bells>>
  PROVE  IInv'
<1>1. TypeOK
  BY DEF IInv
<1>2. /\ timers' = [timers EXCEPT ![c] = {}] /\ timerId' = [timerId EXCEPT ![c] = timerId[c]]
      /\ {} \in SUBSET Timer /\ timerId[c] \in 0..MaxCalls /\ TimersFit({}, timerId[c])
      /\ UNCHANGED given /\ calls' \in 0..MaxCalls
  BY StoppedTimers
<1>3. /\ committed' = [committed EXCEPT ![c] = w]
      /\ monitoring' \ {c} = monitoring \ {c}
      /\ \E v \in Ui : /\ ui' = [ui EXCEPT ![c] = v]
                       /\ TabInv(c, v, w, arrived, monitoring', late', {}, user[c])
  <2>1. ASSUME NEW L, TabInv(c, u, w, arrived, monitoring, L, {}, user[c])
        PROVE  /\ committed' = [committed EXCEPT ![c] = w]
               /\ monitoring' \ {c} = monitoring \ {c}
               /\ \E v \in Ui : /\ ui' = [ui EXCEPT ![c] = v]
                                /\ TabInv(c, v, w, arrived, monitoring', L, {}, user[c])
    BY <2>1, Clicked
  <2>. QED
    BY <2>1
<1>4. PICK v \in Ui : /\ ui' = [ui EXCEPT ![c] = v]
                      /\ TabInv(c, v, w, arrived, monitoring', late', {}, user[c])
  BY <1>3
<1>5. TabInv(c, v, w, arrived', monitoring', late', {}, user[c]) /\ arrived' = arrived
  BY <1>4
<1>6. bells' \in [Clients -> Seq(VideoStart)]
  BY <1>1 DEF TypeOK
<1>. QED
  BY <1>2, <1>3, <1>4, <1>5, <1>6, TabStep


\* The click that ends a call leaves no call and no timer; only the effect that was due may
\* open a window after it.
LEMMA EndCall ==
  ASSUME IInv, NEW c \in Clients, clickEnds(c), clearOwnTimeout(c),
         committed[c].isOpenWaitingVideoCall \/ committed[c].roomTalkingInJitsi # null
  PROVE  IInv'
<1>0. TypeOK /\ ui[c] \in Ui /\ committed[c] \in Ui
  BY InvariantOfTabs DEF TypeOK
<1> DEFINE u == closeAll(ui[c])
           w == closeAll(committed[c])
           own == ownCall(c)
           x == monitorCall(u, own)
<1>1. /\ timers' = [timers EXCEPT ![c] = {}] /\ timerId' = [timerId EXCEPT ![c] = timerId[c]]
      /\ {} \in SUBSET Timer /\ timerId[c] \in 0..MaxCalls /\ TimersFit({}, timerId[c])
      /\ UNCHANGED given /\ calls' \in 0..MaxCalls
  BY StoppedTimers
<1>2. /\ clicked(c, u, w)
      /\ arrived' = arrived \ {c} /\ late' = (late \ {c}) \cup ({c} \cap monitoring)
      /\ committed' = [committed EXCEPT ![c] = w]
  BY DEF clickEnds, clicked, overtaken
<1>3. /\ requests' \in SUBSET Request /\ published' = published
      /\ bells' \in [Clients -> Seq(VideoStart)]
  BY <1>0, Emit DEF clickEnds, TypeOK
<1>4. w # committed[c]
  BY <1>0, CloseAll
<1>5. own \in BOOLEAN
  BY DEF ownCall
<1>6. \A L : /\ u \in Ui /\ w \in Ui
             /\ c \notin monitoring => TabInv(c, u, w, arrived \ {c}, monitoring, L, {}, user[c])
             /\ c \in L => /\ x \in Ui
                           /\ TabInv(c, x, w, arrived \ {c}, monitoring \ {c}, L, {}, user[c])
  <2> SUFFICES ASSUME NEW L
               PROVE  /\ u \in Ui /\ w \in Ui
                      /\ c \notin monitoring =>
                           TabInv(c, u, w, arrived \ {c}, monitoring, L, {}, user[c])
                      /\ c \in L =>
                           /\ x \in Ui
                           /\ TabInv(c, x, w, arrived \ {c}, monitoring \ {c}, L, {}, user[c])
    OBVIOUS
  <2>. HIDE DEF own
  <2>. QED
    BY <1>0, <1>5, ClickEnds
<1>7. u \in Ui /\ w \in Ui
  BY <1>6
<1>. HIDE DEF u, w, own, x
<1>8. CASE c \in monitoring
  <2>1. ui' = [ui EXCEPT ![c] = x] /\ monitoring' = monitoring \ {c}
    BY <1>2, <1>4, <1>8 DEF clicked, x, own
  <2>2. c \in late' /\ late' \ {c} = late \ {c}
    BY <1>2, <1>8
  <2>3. x \in Ui /\ TabInv(c, x, w, arrived \ {c}, monitoring \ {c}, late', {}, user[c])
    BY <1>6, <2>2
  <2>4. TabInv(c, x, w, arrived', monitoring', late', {}, user[c])
    BY <1>2, <2>1, <2>3
  <2>. QED
    BY <1>1, <1>2, <1>3, <1>7, <2>1, <2>2, <2>3, <2>4, TabStep
<1>9. CASE c \notin monitoring
  <2>1. ui' = [ui EXCEPT ![c] = u] /\ monitoring' = monitoring
    BY <1>2, <1>9 DEF clicked
  <2>2. late' \ {c} = late \ {c}
    BY <1>2
  <2>3. TabInv(c, u, w, arrived \ {c}, monitoring, late', {}, user[c])
    BY <1>6, <1>9
  <2>4. TabInv(c, u, w, arrived', monitoring', late', {}, user[c])
    BY <1>2, <2>1, <2>3
  <2>. QED
    BY <1>1, <1>2, <1>3, <1>7, <2>1, <2>2, <2>4, TabStep
<1>. QED
  BY <1>8, <1>9

\* Where the call is over the window stays, and the timer is stopped all the same.
LEMMA CancelIncomingCall ==
  ASSUME IInv, NEW c \in Clients, OnCancelIncomingCall(c)
  PROVE  IInv'
<1>1. clearOwnTimeout(c)
  BY DEF OnCancelIncomingCall
<1>2. CASE committed[c].roomTalkingInJitsi # null
  BY <1>1, <1>2, EndCall DEF OnCancelIncomingCall
<1>3. CASE committed[c].roomTalkingInJitsi = null
  <2>0. TypeOK /\ ui[c] \in Ui /\ committed[c] \in Ui /\ Tab(c)
    BY InvariantOfTabs DEF TypeOK
  <2>1. UNCHANGED <<ui, committed, arrived, monitoring, late, requests, published, bells>>
    BY <1>3 DEF OnCancelIncomingCall, react, server
  <2>2. /\ ui' = [ui EXCEPT ![c] = ui[c]] /\ committed' = [committed EXCEPT ![c] = committed[c]]
        /\ requests' \in SUBSET Request /\ bells' \in [Clients -> Seq(VideoStart)]
    BY <2>0, <2>1 DEF TypeOK
  <2>3. /\ timers' = [timers EXCEPT ![c] = {}]
        /\ timerId' = [timerId EXCEPT ![c] = timerId[c]]
        /\ {} \in SUBSET Timer /\ timerId[c] \in 0..MaxCalls /\ TimersFit({}, timerId[c])
        /\ UNCHANGED given /\ calls' \in 0..MaxCalls
    BY <1>1, StoppedTimers
  <2>4. TabInv(c, ui[c], committed[c], arrived', monitoring', late', {}, user[c])
    BY <2>0, <2>1 DEF Tab, TabInv
  <2>. QED
    BY <2>0, <2>1, <2>2, <2>3, <2>4, TabStep
<1>. QED
  BY <1>2, <1>3

\* The timer that fires was the only one.  What its onEndCall stops is the timer of before,
\* which is none any more.
LEMMA TimeoutStep ==
  ASSUME IInv, NEW c \in Clients, Timeout(c)
  PROVE  IInv'
<1>0. TypeOK /\ ui[c] \in Ui /\ committed[c] \in Ui /\ Tab(c)
  BY InvariantOfTabs DEF TypeOK
<1>1. PICK t \in timers[c] :
        /\ ui' = [ui EXCEPT ![c] = closeAll(ui[c])]
        /\ arrived' = arrived \ {c} /\ late' = late \cup ({c} \cap monitoring)
        /\ timers' = [timers EXCEPT ![c] = clearTimeout(timers[c] \ {t}, t.oldId)]
        /\ emit(c, "rejectCall")
        /\ UNCHANGED <<given, committed, monitoring, timerId, calls>>
  BY DEF Timeout, overtaken
<1>2. clearTimeout(timers[c] \ {t}, t.oldId) = {} /\ TimersFit({}, timerId[c])
  BY <1>0, Timers DEF Tab
<1>3. timers' = [timers EXCEPT ![c] = {}] /\ {} \in SUBSET Timer
  BY <1>1, <1>2
<1>4. closeAll(ui[c]) \in Ui
  BY <1>0, CloseAll
<1>5. TabInv(c, closeAll(ui[c]), committed[c], arrived \ {c}, monitoring,
             late \cup ({c} \cap monitoring), {}, user[c])
  BY <1>0, TimesOut DEF Tab
<1>6. TabInv(c, closeAll(ui[c]), committed[c], arrived', monitoring', late', {}, user[c])
  BY <1>1, <1>5
<1>7. /\ committed' = [committed EXCEPT ![c] = committed[c]]
      /\ timerId' = [timerId EXCEPT ![c] = timerId[c]] /\ timerId[c] \in 0..MaxCalls
      /\ calls' \in 0..MaxCalls
      /\ arrived' \ {c} = arrived \ {c} /\ monitoring' \ {c} = monitoring \ {c}
      /\ late' \ {c} = late \ {c}
  BY <1>0, <1>1 DEF TypeOK
<1>8. /\ requests' \in SUBSET Request /\ published' = published
      /\ bells' \in [Clients -> Seq(VideoStart)]
  BY <1>0, <1>1, Emit DEF TypeOK
<1>. QED
  BY <1>0, <1>1, <1>2, <1>3, <1>4, <1>6, <1>7, <1>8, TabStep

LEMMA OkayIncomingCall ==
  ASSUME IInv, NEW c \in Clients, OnOkayIncomingCall(c)
  PROVE  IInv'
<1>0. TypeOK /\ ui[c] \in Ui /\ committed[c] \in Ui /\ Tab(c)
  BY InvariantOfTabs DEF TypeOK
<1> DEFINE joins == ~committed[c].joinedMeeting
           u == [ui[c] EXCEPT !.isOpenIncomingCall = FALSE, !.isOpenMeeting = TRUE,
                              !.joinedMeeting = ui[c].joinedMeeting \/ joins]
           w == [committed[c] EXCEPT !.isOpenIncomingCall = FALSE, !.isOpenMeeting = TRUE,
                                     !.joinedMeeting = committed[c].joinedMeeting \/ joins]
<1>1. clicked(c, u, w) /\ clearOwnTimeout(c) /\ UNCHANGED arrived
  BY <1>0 DEF OnOkayIncomingCall, Ui
<1>2. requests' \in SUBSET Request /\ UNCHANGED <<published, bells>>
  BY <1>0, Emit DEF OnOkayIncomingCall, server, TypeOK
<1>3. /\ late' \ {c} = late \ {c}
      /\ c \in late' <=> c \in late \/ ui[c].roomTalkingInJitsi = null
  BY DEF OnOkayIncomingCall
<1>4. /\ u \in Ui /\ ~u.isOpenIncomingCall /\ u.isOpenMeeting
      /\ u.roomTalkingInJitsi = ui[c].roomTalkingInJitsi
      /\ u.joinedMeeting <=> ui[c].joinedMeeting \/ ~committed[c].joinedMeeting
  BY <1>0 DEF Ui
<1>5. /\ w \in Ui /\ ~w.isOpenIncomingCall /\ w.isOpenMeeting
      /\ w.roomTalkingInJitsi = committed[c].roomTalkingInJitsi
  BY <1>0 DEF Ui
<1>. HIDE DEF u, w
<1>6. \A N : (c \in N <=> c \in late \/ ui[c].roomTalkingInJitsi = null) =>
        TabInv(c, u, w, arrived, monitoring, N, {}, user[c])
  <2>1. TabInv(c, ui[c], committed[c], arrived, monitoring, late, timers[c], user[c])
    BY <1>0 DEF Tab
  <2>2. committed[c].isOpenIncomingCall
    BY DEF OnOkayIncomingCall
  <2>. QED
    BY <1>0, <1>4, <1>5, <2>1, <2>2, ClickAccepts
<1>7. TabInv(c, u, w, arrived, monitoring, late', {}, user[c])
  BY <1>3, <1>6
<1>. QED
  BY <1>1, <1>2, <1>3, <1>4, <1>5, <1>7, OtherClick

LEMMA LeaveCall ==
  ASSUME IInv, NEW c \in Clients, OnLeaveCall(c)
  PROVE  IInv'
<1>0. TypeOK /\ ui[c] \in Ui /\ committed[c] \in Ui /\ Tab(c)
  BY InvariantOfTabs DEF TypeOK
<1> DEFINE u == [ui[c] EXCEPT !.isOpenIncomingCall = FALSE, !.isOpenWaitingVideoCall = FALSE]
           w == [committed[c] EXCEPT !.isOpenIncomingCall = FALSE,
                                     !.isOpenWaitingVideoCall = FALSE]
<1>1. /\ clicked(c, u, w) /\ clearOwnTimeout(c) /\ UNCHANGED <<arrived, late, server>>
  BY DEF OnLeaveCall
<1>2. requests' \in SUBSET Request /\ UNCHANGED <<published, bells>>
  BY <1>0, <1>1 DEF server, TypeOK
<1>3. /\ u \in Ui /\ w \in Ui
      /\ w.roomTalkingInJitsi = committed[c].roomTalkingInJitsi
      /\ TabInv(c, u, w, arrived, monitoring, late, {}, user[c])
  <2>1. TabInv(c, ui[c], committed[c], arrived, monitoring, late, timers[c], user[c])
    BY <1>0 DEF Tab
  <2>2. meetingShown(committed[c])
    BY DEF OnLeaveCall
  <2>. QED
    BY <1>0, <2>1, <2>2, ClickLeaves
<1>. HIDE DEF u, w
<1>4. TabInv(c, u, w, arrived, monitoring, late', {}, user[c])
  BY <1>1, <1>3
<1>. QED
  BY <1>1, <1>2, <1>3, <1>4, OtherClick

-----------------------------------------------------------------------------
(* The steps of React, and an event. *)

\* A step of React leaves the timers and all that is outside of the tab.
LEMMA Outside ==
  ASSUME IInv, NEW c \in Clients, UNCHANGED <<given, timeouts, calls, server>>
  PROVE  /\ timers' = [timers EXCEPT ![c] = timers[c]] /\ timers[c] \in SUBSET Timer
         /\ timerId' = [timerId EXCEPT ![c] = timerId[c]] /\ timerId[c] \in 0..MaxCalls
         /\ TimersFit(timers[c], timerId[c])
         /\ UNCHANGED given /\ calls' \in 0..MaxCalls /\ requests' \in SUBSET Request
         /\ published' = published /\ bells' \in [Clients -> Seq(VideoStart)]
<1>1. TypeOK /\ Tab(c)
  BY InvariantOfTabs
<1>. QED
  BY <1>1 DEF Tab, TypeOK, timeouts, server

LEMMA RenderStep ==
  ASSUME IInv, NEW c \in Clients, Render(c)
  PROVE  IInv'
<1>0. TypeOK /\ ui[c] \in Ui /\ committed[c] \in Ui /\ Tab(c)
  BY InvariantOfTabs DEF TypeOK
<1>1. UNCHANGED <<given, ui, late, timeouts, calls, server>>
  BY DEF Render
<1>2. /\ timers' = [timers EXCEPT ![c] = timers[c]] /\ timers[c] \in SUBSET Timer
      /\ timerId' = [timerId EXCEPT ![c] = timerId[c]] /\ timerId[c] \in 0..MaxCalls
      /\ TimersFit(timers[c], timerId[c])
      /\ UNCHANGED given /\ calls' \in 0..MaxCalls /\ requests' \in SUBSET Request
      /\ published' = published /\ bells' \in [Clients -> Seq(VideoStart)]
  BY <1>1, Outside
<1>3. /\ ui' = [ui EXCEPT ![c] = ui[c]] /\ committed' = [committed EXCEPT ![c] = ui[c]]
      /\ arrived' \ {c} = arrived \ {c} /\ monitoring' \ {c} = monitoring \ {c}
      /\ late' \ {c} = late \ {c}
  BY <1>0 DEF Render, TypeOK
<1>4. TabInv(c, ui[c], ui[c], arrived \ {c}, monitoring \cup ({c} \cap arrived), late,
             timers[c], user[c])
  <2>1. TabInv(c, ui[c], committed[c], arrived, monitoring, late, timers[c], user[c])
    BY <1>0 DEF Tab
  <2>2. c \notin monitoring
    BY DEF Render
  <2>. QED
    BY <1>0, <2>1, <2>2, Renders
<1>5. TabInv(c, ui[c], ui[c], arrived', monitoring', late', timers[c], user[c])
  BY <1>4 DEF Render
<1>. QED
  BY <1>0, <1>2, <1>3, <1>5, TabStep

LEMMA EffectStep ==
  ASSUME IInv, NEW c \in Clients, Effect(c)
  PROVE  IInv'
<1>0. TypeOK /\ ui[c] \in Ui /\ committed[c] \in Ui /\ Tab(c)
  BY InvariantOfTabs DEF TypeOK
<1> DEFINE v == monitorCall(ui[c], committed[c].roomTalkingInJitsi.ownerId = user[c])
<1>1. UNCHANGED <<given, committed, arrived, late, timeouts, calls, server>>
  BY DEF Effect
<1>2. /\ timers' = [timers EXCEPT ![c] = timers[c]] /\ timers[c] \in SUBSET Timer
      /\ timerId' = [timerId EXCEPT ![c] = timerId[c]] /\ timerId[c] \in 0..MaxCalls
      /\ TimersFit(timers[c], timerId[c])
      /\ UNCHANGED given /\ calls' \in 0..MaxCalls /\ requests' \in SUBSET Request
      /\ published' = published /\ bells' \in [Clients -> Seq(VideoStart)]
  BY <1>1, Outside
<1>3. ui' = [ui EXCEPT ![c] = v]
  BY DEF Effect, ownCall
<1>4. /\ committed' = [committed EXCEPT ![c] = committed[c]]
      /\ arrived' \ {c} = arrived \ {c} /\ monitoring' \ {c} = monitoring \ {c}
      /\ late' \ {c} = late \ {c}
  BY <1>0 DEF Effect, TypeOK
<1>5. v \in Ui /\ TabInv(c, v, committed[c], arrived, monitoring \ {c}, late, timers[c], user[c])
  <2>1. TabInv(c, ui[c], committed[c], arrived, monitoring, late, timers[c], user[c])
    BY <1>0 DEF Tab
  <2>2. c \in monitoring
    BY DEF Effect
  <2>. QED
    BY <1>0, <2>1, <2>2, EffectRuns
<1>. HIDE DEF v
<1>6. TabInv(c, v, committed[c], arrived', monitoring', late', timers[c], user[c])
  BY <1>5 DEF Effect
<1>. QED
  BY <1>0, <1>2, <1>3, <1>4, <1>5, <1>6, TabStep

LEMMA StartCallEvent ==
  ASSUME IInv, NEW c \in Clients, HandleStartCallEvent(c)
  PROVE  IInv'
<1>0. TypeOK /\ ui[c] \in Ui /\ committed[c] \in Ui /\ Tab(c)
  BY InvariantOfTabs DEF TypeOK
<1> DEFINE data == Head(bells[c])
           v == [ui[c] EXCEPT !.roomTalkingInJitsi = data, !.joinedMeeting = TRUE]
<1>1. data \in VideoStart /\ Tail(bells[c]) \in Seq(VideoStart)
  BY <1>0 DEF HandleStartCallEvent, TypeOK
<1>2. ui' = [ui EXCEPT ![c] = v]
  BY <1>0 DEF HandleStartCallEvent, TypeOK
<1>3. /\ timers' = [timers EXCEPT ![c] = timers[c]] /\ timers[c] \in SUBSET Timer
      /\ timerId' = [timerId EXCEPT ![c] = timerId[c]] /\ timerId[c] \in 0..MaxCalls
      /\ TimersFit(timers[c], timerId[c]) /\ UNCHANGED given /\ calls' \in 0..MaxCalls
      /\ requests' \in SUBSET Request /\ published' = published
  BY <1>0 DEF HandleStartCallEvent, Tab, TypeOK, timeouts
<1>4. /\ committed' = [committed EXCEPT ![c] = committed[c]]
      /\ arrived' \ {c} = arrived \ {c} /\ monitoring' \ {c} = monitoring \ {c}
      /\ late' \ {c} = late \ {c}
  BY <1>0 DEF HandleStartCallEvent, TypeOK
<1>5. bells' \in [Clients -> Seq(VideoStart)]
  BY <1>0, <1>1 DEF HandleStartCallEvent, TypeOK
<1>6. v \in Ui /\ TabInv(c, v, committed[c], arrived \cup {c}, monitoring, late, timers[c], user[c])
  <2>1. TabInv(c, ui[c], committed[c], arrived, monitoring, late, timers[c], user[c])
    BY <1>0 DEF Tab
  <2>. HIDE DEF data
  <2>. QED
    BY <1>0, <1>1, <2>1, CallArrives
<1>. HIDE DEF v
<1>7. TabInv(c, v, committed[c], arrived', monitoring', late', timers[c], user[c])
  BY <1>6 DEF HandleStartCallEvent
<1>. QED
  BY <1>0, <1>2, <1>3, <1>4, <1>5, <1>6, <1>7, TabStep

-----------------------------------------------------------------------------
(* The steps of the server. *)

\* What leaves all of the tabs as they are keeps the invariant, but for the types.
LEMMA TabsUnchanged ==
  ASSUME IInv, UNCHANGED <<given, react, timeouts>>, TypeOK'
  PROVE  IInv'
<1>1. UNCHANGED <<user, ui, committed, arrived, monitoring, late, timerId, timers>>
  BY DEF given, react, timeouts
<1>2. ASSUME NEW c \in Clients PROVE Tab(c)'
  <2>1. Tab(c)
    BY InvariantOfTabs
  <2>. QED
    BY <1>1, <2>1 DEF Tab, TabInv, TimersFit, windowOpen, meetingShown
<1>3. (\A c \in Clients : Tab(c))'
  BY <1>2
<1>. QED
  BY <1>3, InvariantOfTabsNext

\* What the server does to requests and events changes no tab.
LEMMA ServerStep ==
  ASSUME IInv,
         (\E q \in requests : StartCall(q) \/ Refuse(q)) \/ ConsumeStart
  PROVE  IInv'
<1>1. UNCHANGED <<given, react, timeouts, calls>>
  BY DEF StartCall, Refuse, ConsumeStart
<1>2. UNCHANGED <<user, viewing, ui, committed, arrived, monitoring, late, timerId, timers, calls>>
  BY <1>1 DEF given, react, timeouts
<1>3. TypeOK'
  <2>0. TypeOK
    BY DEF IInv
  <2>1. ASSUME NEW q \in requests, StartCall(q) PROVE TypeOK'
    <3> DEFINE data == [ownerId |-> user[q.from], roomId |-> q.roomId, from |-> q.from]
    <3>1. data \in VideoStart /\ q.from \in Clients
      BY <2>0 DEF TypeOK, Request, VideoStart
    <3>2. /\ published' = Append(published, data)
          /\ bells' = [bells EXCEPT ![q.from] = Append(@, data)]
          /\ requests' = requests \ {q}
      BY <2>1 DEF StartCall
    <3>. HIDE DEF data
    <3>. QED
      BY <1>2, <2>0, <3>1, <3>2 DEF TypeOK
  <2>2. ASSUME NEW q \in requests, Refuse(q) PROVE TypeOK'
    BY <1>2, <2>0, <2>2 DEF Refuse, TypeOK
  <2>3. ASSUME ConsumeStart PROVE TypeOK'
    <3>1. Head(published) \in VideoStart /\ Tail(published) \in Seq(VideoStart)
      BY <2>0, <2>3 DEF ConsumeStart, TypeOK
    <3>. QED
      BY <1>2, <2>0, <2>3, <3>1 DEF ConsumeStart, TypeOK
  <2>. QED
    BY <2>1, <2>2, <2>3
<1>. QED
  BY <1>1, <1>3, TabsUnchanged

-----------------------------------------------------------------------------
\* Types, windows and timers stay in order.
THEOREM Invariance == Spec => []IInv
<1>1. IInv /\ [Next]_vars => IInv'
  <2> SUFFICES ASSUME IInv, [Next]_vars PROVE IInv'
    OBVIOUS
  <2>1. ASSUME NEW c \in Clients, OnStartCall(c) PROVE IInv'
    BY <2>1, StartCallClick
  <2>2. ASSUME NEW c \in Clients, OnEndCall(c) PROVE IInv'
    BY <2>2, EndCall DEF OnEndCall
  <2>3. ASSUME NEW c \in Clients, Timeout(c) PROVE IInv'
    BY <2>3, TimeoutStep
  <2>4. ASSUME NEW c \in Clients, OnCancelIncomingCall(c) PROVE IInv'
    BY <2>4, CancelIncomingCall
  <2>5. ASSUME NEW c \in Clients, OnOkayIncomingCall(c) PROVE IInv'
    BY <2>5, OkayIncomingCall
  <2>6. ASSUME NEW c \in Clients, OnLeaveCall(c) PROVE IInv'
    BY <2>6, LeaveCall
  <2>7. ASSUME NEW c \in Clients, HandleStartCallEvent(c) PROVE IInv'
    BY <2>7, StartCallEvent
  <2>8. ASSUME NEW c \in Clients, Render(c) PROVE IInv'
    BY <2>8, RenderStep
  <2>9. ASSUME NEW c \in Clients, Effect(c) PROVE IInv'
    BY <2>9, EffectStep
  <2>10. CASE UNCHANGED vars
    <3>1. TypeOK'
      BY <2>10 DEF IInv, TypeOK, vars, given, react, timeouts, server
    <3>. QED
      BY <2>10, <3>1, TabsUnchanged DEF vars
  <2>. QED
    BY <2>1, <2>2, <2>3, <2>4, <2>5, <2>6, <2>7, <2>8, <2>9, <2>10, ServerStep DEF Next
<1>. QED
  BY InitInvariant, <1>1, PTL DEF Spec

\* Every variable has its type: no more calls than clicks, and requests, events and
\* windows of calls that somebody started.
THEOREM TypeCorrect == Spec => []TypeOK
<1>1. IInv => TypeOK
  BY DEF IInv
<1>. QED
  BY Invariance, <1>1, PTL

\* A tab that takes itself to be in a call knows which, and shows a window for it once the
\* effect has seen it, unless an effect or a click of its user came too late for a call.
THEOREM CallsAreShown == Spec => []JoinedCallsAreShown
<1>1. IInv => JoinedCallsAreShown
  BY DEF IInv
<1>. QED
  BY Invariance, <1>1, PTL

\* A window rings for a call that is there, and of somebody else, with the same exception.
THEOREM RingsForOthers == Spec => []IncomingCallsAreOthers
<1>1. IInv => IncomingCallsAreOthers
  BY DEF IInv
<1>. QED
  BY Invariance, <1>1, PTL

\* The timer that runs is the one the next button stops, without exception, and none runs
\* in a meeting that has a call.
THEOREM TimersAreKnown == Spec => []TimersCanBeCleared
<1>1. IInv => TimersCanBeCleared
  BY DEF IInv
<1>. QED
  BY Invariance, <1>1, PTL

-----------------------------------------------------------------------------
(* The views of a room. *)

\* What renders throw with, of a page that is in order.
LEMMA RenderThrows ==
  ASSUME V!TypeOK', V!RoomIsThere', undefined \in V!MessageContent'
  PROVE  \/ "Link" \in messages'
         \/ "members" \in panels' /\ V!get(room', "participants") = undefined
<1>1. undefined # value
  BY RoomViewsAssumption DEF V!RoomViewsAssumption
<1>2. ASSUME NEW type \in messages', undefined \in V!MessageItem(type)
      PROVE  type = "Link"
  BY <1>1, <1>2 DEF V!TypeOK, V!Type, V!MessageItem, V!MessageText
<1>3. undefined \notin V!avatar' /\ undefined \notin V!MessageList(results')
  BY <1>1 DEF V!avatar, V!AvatarGroupWrap, V!AvatarWrap, V!MessageList
<1>4. ASSUME undefined \in V!Collapse'
      PROVE  "members" \in panels' /\ V!get(room', "participants") = undefined
  BY <1>4 DEF V!Collapse, V!MemberList, V!groupShown, V!get
<1>5. ASSUME undefined \in V!SidebarMenu'
      PROVE  undefined \in V!Collapse'
  <2>1. sidebar' = "menu" \/ sidebar' = "media" \/ sidebar' = "closed"
    BY DEF V!TypeOK
  <2>2. CASE sidebar' = "menu"
    BY <1>3, <1>5, <2>2 DEF V!SidebarMenu
  <2>3. CASE sidebar' = "media"
    BY <1>5, <2>3 DEF V!SidebarMenu, V!MediaContainer, V!RoomIsThere
  <2>4. CASE sidebar' = "closed"
    BY <1>5, <2>4 DEF V!SidebarMenu
  <2>. QED
    BY <2>1, <2>2, <2>3, <2>4
<1>6. undefined \in V!SidebarMenu' \/ \E type \in messages' : undefined \in V!MessageItem(type)
  BY <1>3 DEF V!MessageContent, V!WaitingCall, V!IncomingCall
<1>. QED
  BY <1>2, <1>4, <1>5, <1>6

\* The room of a page that asks to upload an avatar is there.
LEMMA Requested ==
  ASSUME V!TypeOK, NEW kind \in {"detail", "messages", "search", "update", "avatar"},
         kind = "avatar" => room # undefined
  PROVE  /\ V!request(kind) \in [kind : {"detail", "messages", "search", "update", "avatar"},
                                 room : V!Shape \cup {undefined}]
         /\ V!request(kind).kind = "avatar" => V!request(kind).room # undefined
BY DEF V!TypeOK, V!request

LEMMA FirstAnswers ==
  /\ {[kind |-> k, room |-> undefined] : k \in {"detail", "messages"}}
       \subseteq [kind : {"detail", "messages", "search", "update", "avatar"},
                  room : V!Shape \cup {undefined}]
  /\ \A a \in {[kind |-> k, room |-> undefined] : k \in {"detail", "messages"}} :
       a.kind # "avatar"
OBVIOUS

LEMMA ViewsInit == V!Init => V!IInv
<1> SUFFICES ASSUME V!Init PROVE V!IInv
  OBVIOUS
<1>1. V!TypeOK
  BY FirstAnswers DEF V!Init, V!TypeOK, V!Type
<1>2. V!RoomIsThere
  BY FirstAnswers DEF V!Init, V!RoomIsThere
<1>3. V!NothingElseThrows
  BY DEF V!Init, V!NothingElseThrows
<1>. QED
  BY <1>1, <1>2, <1>3 DEF V!IInv

\* An answer is of the shape of its kind.
LEMMA ViewsArrive ==
  ASSUME V!TypeOK, V!RoomIsThere, NEW a \in answers, V!Arrives(a), crashed' \in BOOLEAN
  PROVE  V!TypeOK' /\ V!RoomIsThere'
<1>0. /\ a.kind \in {"detail", "messages", "search", "update", "avatar"}
      /\ a.room \in V!Shape \cup {undefined} /\ room \in V!Shape \cup {undefined}
  BY DEF V!TypeOK
<1>1. V!detail \in V!Shape /\ V!document \in V!Shape /\ undefined \notin V!Shape
  <2>1. V!detail \in V!Shape
    BY DEF V!detail, V!Shape
  <2>2. V!document \in V!Shape
    BY DEF V!document, V!Shape
  <2>. QED
    BY <2>1, <2>2, RoomViewsAssumption DEF V!RoomViewsAssumption
<1>2. a.kind = "avatar" => [a.room EXCEPT !.avatarUrl = undefined] \in V!Shape
  BY <1>0 DEF V!RoomIsThere, V!Shape
<1>3. room' \in V!Shape \cup {undefined} /\ (room # undefined => room' # undefined)
  BY <1>0, <1>1, <1>2 DEF V!Arrives
<1>4. answers' \subseteq answers \cup {V!request("messages")}
  BY DEF V!Arrives
<1>5. stored \subseteq V!Type /\ messages \subseteq V!Type /\ results \subseteq V!Type
  BY DEF V!TypeOK
<1>6. messages' \subseteq V!Type /\ results' \subseteq V!Type
  BY <1>5 DEF V!Arrives
<1>7. UNCHANGED <<isGroup, stored, sidebar, panels, windows>>
  BY DEF V!Arrives
<1>8. /\ V!request("messages") \in
           [kind : {"detail", "messages", "search", "update", "avatar"},
            room : V!Shape \cup {undefined}]
      /\ V!request("messages").kind # "avatar"
  BY Requested DEF V!request
<1>. QED
  BY <1>3, <1>4, <1>5, <1>6, <1>7, <1>8 DEF V!TypeOK, V!RoomIsThere

\* The other steps change the room no more.
LEMMA ViewsChange ==
  ASSUME V!TypeOK, V!RoomIsThere, V!step, ~\E a \in answers : V!Arrives(a),
         crashed' \in BOOLEAN
  PROVE  V!TypeOK' /\ V!RoomIsThere'
<1>1. ASSUME UNCHANGED <<isGroup, room, answers>>,
             stored' \subseteq V!Type, messages' \subseteq V!Type, results' \subseteq V!Type,
             sidebar' \in {"closed", "menu", "media"},
             sidebar' = "media" => room # undefined,
             panels' \subseteq {"customize", "members", "media"},
             windows' \subseteq {"waiting", "incoming"}
      PROVE  V!TypeOK' /\ V!RoomIsThere'
  BY <1>1 DEF V!TypeOK, V!RoomIsThere
<1>0. /\ stored \subseteq V!Type /\ messages \subseteq V!Type /\ results \subseteq V!Type
      /\ sidebar \in {"closed", "menu", "media"}
      /\ sidebar = "media" => room # undefined
      /\ panels \subseteq {"customize", "members", "media"}
      /\ windows \subseteq {"waiting", "incoming"}
  BY DEF V!TypeOK, V!RoomIsThere
<1>2. ASSUME NEW type \in V!Type, V!Store(type)
      PROVE  V!TypeOK' /\ V!RoomIsThere'
  BY <1>0, <1>1, <1>2 DEF V!Store
<1>3. ASSUME NEW w \in {"waiting", "incoming"}, V!OpenWindow(w) \/ V!CloseWindows
      PROVE  V!TypeOK' /\ V!RoomIsThere'
  BY <1>0, <1>1, <1>3 DEF V!OpenWindow, V!CloseWindows
<1>4. ASSUME NEW p \in {"customize", "members", "media"},
             V!OpenPanel(p) \/ V!CloseRoomDetail \/ V!HandleMediaClick \/ V!OnBack
      PROVE  V!TypeOK' /\ V!RoomIsThere'
  BY <1>0, <1>1, <1>4 DEF V!OpenPanel, V!CloseRoomDetail, V!HandleMediaClick, V!OnBack
<1>5. ASSUME NEW kind \in {"detail", "messages", "search", "update", "avatar"},
             kind = "avatar" => room # undefined,
             answers' \subseteq answers \cup {V!request(kind)},
             UNCHANGED <<isGroup, stored, room, messages, results, panels, windows>>,
             sidebar' \in {sidebar, "menu"}
      PROVE  V!TypeOK' /\ V!RoomIsThere'
  <2> DEFINE asked == V!request(kind)
  <2>1. /\ asked \in [kind : {"detail", "messages", "search", "update", "avatar"},
                      room : V!Shape \cup {undefined}]
        /\ asked.kind = "avatar" => asked.room # undefined
    BY <1>5, Requested
  <2>2. answers' \subseteq answers \cup {asked}
    BY <1>5
  <2>. HIDE DEF asked
  <2>3. answers' \subseteq [kind : {"detail", "messages", "search", "update", "avatar"},
                           room : V!Shape \cup {undefined}]
    BY <2>1, <2>2 DEF V!TypeOK
  <2>4. sidebar' \in {"closed", "menu", "media"} /\ (sidebar' = "media" => room' # undefined)
    BY <1>0, <1>5
  <2>5. \A a \in answers' : a.kind = "avatar" => a.room # undefined
    BY <2>1, <2>2 DEF V!RoomIsThere
  <2>6. V!TypeOK'
    BY <1>5, <2>3, <2>4 DEF V!TypeOK
  <2>. QED
    BY <2>4, <2>5, <2>6 DEF V!RoomIsThere
<1>6. CASE V!OpenRoomDetail
  BY <1>5, <1>6 DEF V!OpenRoomDetail
<1>7. CASE V!HandleSearchMessages
  BY <1>5, <1>7 DEF V!HandleSearchMessages, V!view
<1>8. CASE V!OnSubmit
  BY <1>5, <1>8 DEF V!OnSubmit, V!view
<1>9. CASE V!UploadAvatar
  BY <1>5, <1>9 DEF V!UploadAvatar, V!view, V!groupShown
<1>10. ASSUME NEW a \in answers, V!Fails(a)
       PROVE  V!TypeOK' /\ V!RoomIsThere'
  BY <1>5, <1>10 DEF V!Fails, V!view
<1>. QED
  BY <1>2, <1>3, <1>4, <1>6, <1>7, <1>8, <1>9, <1>10 DEF V!step

THEOREM ViewsInvariance == V!Spec => []V!IInv
<1>1. V!IInv /\ [V!Next]_(V!viewVars) => V!IInv'
  <2>1. ASSUME V!IInv, ~crashed, V!step, crashed' = (undefined \in V!MessageContent)'
        PROVE  V!IInv'
    <3>1. V!TypeOK' /\ V!RoomIsThere'
      BY <2>1, ViewsArrive, ViewsChange DEF V!IInv
    <3>2. V!NothingElseThrows'
      BY <2>1, <3>1, RenderThrows DEF V!NothingElseThrows, V!get
    <3>. QED
      BY <3>1, <3>2 DEF V!IInv
  <2>2. ASSUME V!IInv, V!Load
        PROVE  V!IInv'
    <3>1. V!TypeOK'
      BY <2>2, FirstAnswers DEF V!IInv, V!TypeOK, V!Load, V!loaded, V!Type
    <3>2. V!RoomIsThere'
      BY <2>2, FirstAnswers DEF V!RoomIsThere, V!Load, V!loaded
    <3>3. V!NothingElseThrows'
      BY <2>2 DEF V!NothingElseThrows, V!Load
    <3>. QED
      BY <3>1, <3>2, <3>3 DEF V!IInv
  <2>3. ASSUME V!IInv, UNCHANGED V!viewVars
        PROVE  V!IInv'
    BY <2>3 DEF V!viewVars, V!view, V!IInv, V!TypeOK, V!RoomIsThere, V!NothingElseThrows,
                V!get
  <2>. QED
    BY <2>1, <2>2, <2>3 DEF V!Next
<1>. QED
  BY ViewsInit, <1>1, PTL DEF V!Spec

\* A render throws for two reasons only: a link was written in the room, or the tab's own
\* update was answered while its list of members was open.
THEOREM ViewsThrow == V!Spec => []NothingElseThrows
<1>1. V!IInv => NothingElseThrows
  BY DEF V!IInv, NothingElseThrows
<1>. QED
  BY ViewsInvariance, <1>1, PTL

-----------------------------------------------------------------------------
(* The modals. *)

LEMMA Named ==
  ASSUME NEW n \in F!Name, NEW members \in SUBSET Members
  PROVE  F!nameOf(n, members) \in F!Name
BY DEF F!nameOf, F!getRoomName, F!Name

\* A form that is new, or that a step leaves behind, has its types.
LEMMA NewForm ==
  ASSUME NEW n \in F!Name
  PROVE  /\ F!newForm(n) \in F!Form
         /\ F!fits("update", F!newForm(n))
         /\ n = noName => F!fits("create", F!newForm(n))
<1>1. noName \in F!Name
  BY DEF F!Name
<1>2. F!newForm(n) \in F!Form
  BY <1>1 DEF F!newForm, F!Form
<1>. QED
  BY <1>2 DEF F!newForm, F!fits

LEMMA FormsInit == F!Init => F!IInv
<1> SUFFICES ASSUME F!Init PROVE F!IInv
  OBVIOUS
<1>1. noName \in F!Name /\ F!newForm(noName) \in F!Form
  BY NewForm DEF F!Name
<1>2. forms = [f \in {"create", "update"} |-> F!newForm(noName)]
  BY DEF F!Init
<1>3. F!TypeOK
  BY <1>1, <1>2 DEF F!Init, F!TypeOK, F!Name
<1>4. F!FieldsAreState
  BY <1>1, <1>2, NewForm DEF F!FieldsAreState
<1>. QED
  BY <1>3, <1>4 DEF F!IInv

\* One form is replaced.
LEMMA FormChanges ==
  ASSUME F!IInv, NEW f \in {"create", "update"}, NEW form \in F!Form, F!fits(f, form),
         forms' = [forms EXCEPT ![f] = form]
  PROVE  forms' \in [{"create", "update"} -> F!Form] /\ F!FieldsAreState'
<1>1. forms \in [{"create", "update"} -> F!Form] /\ \A g \in DOMAIN forms : F!fits(g, forms[g])
  BY DEF F!IInv, F!TypeOK, F!FieldsAreState
<1>2. forms' \in [{"create", "update"} -> F!Form]
  BY <1>1
<1>3. \A g \in DOMAIN forms' : F!fits(g, forms'[g])
  <2> SUFFICES ASSUME NEW g \in {"create", "update"} PROVE F!fits(g, forms'[g])
    BY <1>2
  <2>1. CASE g = f
    BY <1>1, <2>1
  <2>2. CASE g # f
    <3>1. forms'[g] = forms[g]
      BY <1>1, <2>2
    <3>. QED
      BY <1>1, <3>1
  <2>. QED
    BY <2>1, <2>2
<1>. QED
  BY <1>2, <1>3 DEF F!FieldsAreState

\* What the handlers make of a form.
LEMMA FormEdits ==
  ASSUME NEW f \in {"create", "update"}, NEW form \in F!Form, F!fits(f, form),
         NEW new,
         \/ new = [form EXCEPT !.isOpen = TRUE, !.isMounted = TRUE,
                     !.shownName = IF f = "update" /\ ~form.isMounted THEN form.roomName
                                   ELSE form.shownName]
         \/ /\ form.isOpen
            /\ \E n \in F!Name :
                 new = [form EXCEPT !.shownName = n, !.roomName = n, !.nameLeft = FALSE]
         \/ /\ form.isOpen
            /\ \E members \in SUBSET Members :
                 new = [form EXCEPT !.shownMembers = members, !.selectedMembers = members,
                                    !.membersLeft = FALSE]
         \/ f = "create" /\ new = F!cancelled(form)
         \/ new = F!HandleCancel(form)
         \/ new = F!succeeded(form)
  PROVE  new \in F!Form /\ F!fits(f, new)
<1> DEFINE Goal == new \in F!Form /\ F!fits(f, new)
<1>0. noName \in F!Name
  BY DEF F!Name
<1>1. ASSUME new = [form EXCEPT !.isOpen = TRUE, !.isMounted = TRUE,
                      !.shownName = IF f = "update" /\ ~form.isMounted THEN form.roomName
                                    ELSE form.shownName]
      PROVE  Goal
  BY <1>1 DEF F!Form, F!fits
<1>2. ASSUME form.isOpen, NEW n \in F!Name,
             new = [form EXCEPT !.shownName = n, !.roomName = n, !.nameLeft = FALSE]
      PROVE  Goal
  BY <1>2 DEF F!Form, F!fits
<1>3. ASSUME form.isOpen, NEW members \in SUBSET Members,
             new = [form EXCEPT !.shownMembers = members, !.selectedMembers = members,
                                !.membersLeft = FALSE]
      PROVE  Goal
  BY <1>3 DEF F!Form, F!fits
<1>4. ASSUME f = "create" /\ new = F!cancelled(form) PROVE Goal
  BY <1>4 DEF F!Form, F!fits, F!cancelled
<1>5. ASSUME new = F!HandleCancel(form) PROVE Goal
  BY <1>0, <1>5 DEF F!Form, F!fits, F!HandleCancel
<1>6. ASSUME new = F!succeeded(form) PROVE Goal
  BY <1>0, <1>6 DEF F!Form, F!fits, F!succeeded
<1>. HIDE DEF Goal
<1>7. Goal
  BY <1>1, <1>2, <1>3, <1>4, <1>5, <1>6
<1>. QED
  BY <1>7 DEF Goal

\* What steps do to the forms.
LEMMA FormsStep ==
  ASSUME F!IInv, F!Next
  PROVE  forms' \in [{"create", "update"} -> F!Form] /\ F!FieldsAreState'
<1> DEFINE Goal == forms' \in [{"create", "update"} -> F!Form] /\ F!FieldsAreState'
<1>0. /\ forms \in [{"create", "update"} -> F!Form] /\ detailName \in F!Name
      /\ \A f \in {"create", "update"} : forms[f] \in F!Form /\ F!fits(f, forms[f])
      /\ noName \in F!Name /\ Names \cup {noName} \subseteq F!Name
  BY DEF F!IInv, F!TypeOK, F!FieldsAreState, F!Name
<1>1. ASSUME UNCHANGED forms PROVE Goal
  BY <1>1 DEF F!IInv, F!TypeOK, F!FieldsAreState
<1>2. ASSUME NEW f \in {"create", "update"}, NEW new, F!changed(f, new),
             new \in F!Form, F!fits(f, new)
      PROVE  Goal
  BY <1>2, FormChanges DEF F!changed
<1>3. ASSUME NEW f \in {"create", "update"}, F!Open(f) PROVE Goal
  <2> DEFINE new == [forms[f] EXCEPT !.isOpen = TRUE, !.isMounted = TRUE,
                       !.shownName = IF f = "update" /\ ~forms[f].isMounted
                                     THEN forms[f].roomName ELSE forms[f].shownName]
  <2>1. F!changed(f, new)
    BY <1>3 DEF F!Open
  <2>2. new \in F!Form /\ F!fits(f, new)
    BY <1>0, FormEdits
  <2>. HIDE DEF new
  <2>. QED
    BY <1>2, <2>1, <2>2
<1>4. ASSUME NEW f \in {"create", "update"}, NEW n \in Names \cup {noName},
             F!HandleRoomNameChange(f, n)
      PROVE  Goal
  <2> DEFINE new == [forms[f] EXCEPT !.shownName = n, !.roomName = n, !.nameLeft = FALSE]
  <2>1. F!changed(f, new)
    BY <1>4 DEF F!HandleRoomNameChange
  <2>2. new \in F!Form /\ F!fits(f, new)
    BY <1>0, <1>4, FormEdits DEF F!HandleRoomNameChange
  <2>. HIDE DEF new
  <2>. QED
    BY <1>2, <2>1, <2>2
<1>5. ASSUME NEW f \in {"create", "update"}, NEW members \in SUBSET Members,
             F!HandleMemberSelectChange(f, members)
      PROVE  Goal
  <2> DEFINE new == [forms[f] EXCEPT !.shownMembers = members, !.selectedMembers = members,
                                     !.membersLeft = FALSE]
  <2>1. F!changed(f, new)
    BY <1>5 DEF F!HandleMemberSelectChange
  <2>2. new \in F!Form /\ F!fits(f, new)
    BY <1>0, <1>5, FormEdits DEF F!HandleMemberSelectChange
  <2>. HIDE DEF new
  <2>. QED
    BY <1>2, <2>1, <2>2
<1>6. ASSUME NEW f \in {"create", "update"}, F!Cancel(f) PROVE Goal
  <2> DEFINE new == IF f = "create" THEN F!cancelled(forms[f]) ELSE F!HandleCancel(forms[f])
  <2>1. F!changed(f, new)
    BY <1>6 DEF F!Cancel
  <2>2. new \in F!Form /\ F!fits(f, new)
    BY <1>0, FormEdits
  <2>. HIDE DEF new
  <2>. QED
    BY <1>2, <2>1, <2>2
<1>7. ASSUME F!OpenMenu PROVE Goal
  BY <1>0, <1>7, NewForm, FormChanges DEF F!OpenMenu
<1>8. ASSUME F!LeaveMenu PROVE Goal
  BY <1>0, <1>8, NewForm, FormChanges DEF F!LeaveMenu
<1>9. ASSUME F!Load PROVE Goal
  <2>1. /\ F!newForm(noName) \in F!Form
        /\ \A f \in {"create", "update"} : F!fits(f, F!newForm(noName))
    BY <1>0, NewForm
  <2>2. forms' = [f \in {"create", "update"} |-> F!newForm(noName)]
    BY <1>9 DEF F!Load
  <2>3. \A f \in DOMAIN forms' : F!fits(f, forms'[f])
    BY <2>1, <2>2
  <2>. QED
    BY <2>1, <2>2, <2>3 DEF F!FieldsAreState
<1>10. ASSUME NEW r \in submits, F!Updated(r) PROVE Goal
  <2> DEFINE new == F!succeeded(forms["update"])
  <2>1. new \in F!Form /\ F!fits("update", new)
    BY <1>0, FormEdits
  <2>2. CASE r.isOwn
    <3>1. forms' = [forms EXCEPT !["update"] = new]
      BY <1>10, <2>2 DEF F!Updated
    <3>. HIDE DEF new
    <3>. QED
      BY <2>1, <3>1, FormChanges
  <2>3. CASE ~r.isOwn
    BY <1>1, <1>10, <2>3 DEF F!Updated
  <2>. QED
    BY <2>2, <2>3
<1>11. \/ F!OpenMenu \/ F!LeaveMenu \/ F!Load \/ UNCHANGED forms
       \/ \E f \in {"create", "update"} :
            \/ F!Open(f) \/ F!Cancel(f)
            \/ \E n \in Names \cup {noName} : F!HandleRoomNameChange(f, n)
            \/ \E members \in SUBSET Members : F!HandleMemberSelectChange(f, members)
       \/ \E r \in submits : F!Updated(r)
  <2>1. DOMAIN forms = {"create", "update"}
    BY <1>0
  <2>. QED
    BY <2>1 DEF F!Next, F!OthersRename, F!DetailArrives, F!OpenMembers, F!Submit,
                F!RoomCreated, F!Fails
<1>. HIDE DEF Goal
<1>12. Goal
  BY <1>1, <1>3, <1>4, <1>5, <1>6, <1>7, <1>8, <1>9, <1>10, <1>11
<1>. QED
  BY <1>12 DEF Goal

\* What steps do to the rest.
LEMMA FormsType ==
  ASSUME F!IInv, F!Next, forms' \in [{"create", "update"} -> F!Form]
  PROVE  F!TypeOK'
<1> DEFINE Rest == /\ {isMenuOpen', isMembersOpen', gone'} \subseteq BOOLEAN
                   /\ name' \in Names \cup {unknown} /\ detailName' \in F!Name
                   /\ submits' \subseteq F!Request
<1>0. /\ forms \in [{"create", "update"} -> F!Form]
      /\ {isMenuOpen, isMembersOpen, gone} \subseteq BOOLEAN
      /\ name \in Names \cup {unknown} /\ detailName \in F!Name
      /\ submits \subseteq F!Request
      /\ Names \cup {unknown, noName} \subseteq F!Name
  BY DEF F!IInv, F!TypeOK, F!Name
<1>1. ASSUME {isMenuOpen', isMembersOpen', gone'} \subseteq BOOLEAN,
             name' \in Names \cup {unknown}, detailName' \in F!Name,
             submits' \subseteq submits
      PROVE  Rest
  BY <1>0, <1>1
<1>2. ASSUME NEW f \in {"create", "update"}, F!Submit(f) PROVE Rest
  <2> DEFINE r == [form |-> f,
                   name |-> F!nameOf(forms[f].roomName, forms[f].selectedMembers),
                   members |-> forms[f].selectedMembers, isOwn |-> TRUE]
  <2>1. forms[f].roomName \in F!Name /\ forms[f].selectedMembers \in SUBSET Members
    BY <1>0 DEF F!Form
  <2>2. r \in F!Request
    BY <2>1, Named DEF F!Request
  <2>3. submits' = submits \cup {r}
    BY <1>2 DEF F!Submit
  <2>4. UNCHANGED <<isMenuOpen, isMembersOpen, name, detailName, gone>>
    BY <1>2 DEF F!Submit, F!page
  <2>. HIDE DEF r
  <2>. QED
    BY <1>0, <2>2, <2>3, <2>4
<1>3. ASSUME F!LeaveMenu PROVE Rest
  <2>1. ASSUME NEW r \in F!Request
        PROVE  [r EXCEPT !.isOwn = r.isOwn /\ r.form = "create"] \in F!Request
    BY DEF F!Request
  <2>2. submits' = {[r EXCEPT !.isOwn = r.isOwn /\ r.form = "create"] : r \in submits}
    BY <1>3 DEF F!LeaveMenu
  <2>3. submits' \subseteq F!Request
    BY <1>0, <2>1, <2>2
  <2>. QED
    BY <1>0, <1>3, <2>3 DEF F!LeaveMenu
<1>4. ASSUME NEW r \in submits, F!Updated(r) PROVE Rest
  <2>1. r.name \in Names \cup {unknown} /\ r.name \in F!Name
    BY <1>0, <1>4 DEF F!Updated, F!isValid, F!Request, F!Name
  <2>2. (gone \/ isMembersOpen) \in BOOLEAN
    OBVIOUS
  <2>. QED
    BY <1>0, <1>1, <1>4, <2>1, <2>2 DEF F!Updated, F!page
<1>5. ASSUME NEW n \in Names, F!OthersRename(n) PROVE Rest
  BY <1>0, <1>1, <1>5 DEF F!OthersRename, F!page
<1>6. ASSUME F!DetailArrives \/ F!OpenMenu \/ F!OpenMembers PROVE Rest
  BY <1>0, <1>1, <1>6 DEF F!DetailArrives, F!OpenMenu, F!OpenMembers, F!page
<1>7. ASSUME F!Load PROVE Rest
  BY <1>0, <1>7 DEF F!Load
<1>8. ASSUME NEW r \in submits, F!RoomCreated(r) \/ F!Fails(r) PROVE Rest
  BY <1>0, <1>1, <1>8 DEF F!RoomCreated, F!Fails, F!page
<1>9. ASSUME UNCHANGED <<isMenuOpen, isMembersOpen, name, detailName, submits, gone>>
      PROVE  Rest
  BY <1>0, <1>9
<1>10. \/ F!DetailArrives \/ F!OpenMenu \/ F!OpenMembers \/ F!LeaveMenu \/ F!Load
       \/ \E n \in Names : F!OthersRename(n)
       \/ \E f \in {"create", "update"} : F!Submit(f)
       \/ \E r \in submits : F!RoomCreated(r) \/ F!Updated(r) \/ F!Fails(r)
       \/ UNCHANGED <<isMenuOpen, isMembersOpen, name, detailName, submits, gone>>
  <2>1. DOMAIN forms = {"create", "update"}
    BY <1>0
  <2>. QED
    BY <2>1 DEF F!Next, F!Open, F!Cancel, F!HandleRoomNameChange,
                F!HandleMemberSelectChange, F!changed, F!page
<1>. HIDE DEF Rest
<1>11. Rest
  BY <1>2, <1>3, <1>4, <1>5, <1>6, <1>7, <1>8, <1>9, <1>10
<1>. QED
  BY <1>11 DEF Rest, F!TypeOK

\* Types and fields stay in order.
THEOREM FormsInvariance == F!Spec => []F!IInv
<1>1. F!IInv /\ [F!Next]_(F!formVars) => F!IInv'
  <2>1. ASSUME F!IInv, F!Next PROVE F!IInv'
    BY <2>1, FormsStep, FormsType DEF F!IInv
  <2>2. ASSUME F!IInv, UNCHANGED F!formVars PROVE F!IInv'
    BY <2>2 DEF F!IInv, F!formVars, F!page, F!TypeOK, F!FieldsAreState
  <2>. QED
    BY <2>1, <2>2
<1>. QED
  BY FormsInit, <1>1, PTL DEF F!Spec

\* Each modal sends what its fields show at that moment, UpdateRoom unless it was closed
\* since the name was typed, or has updated the room since the members were chosen.
THEOREM FormsSend == F!Spec => FormsSendWhatTheyShow
<1> DEFINE Shows == \A r \in submits' \ submits :
                      LET form == forms[r.form]
                      IN r.isOwn =>
                         /\ r.members = form.shownMembers \/ form.membersLeft
                         /\ r.name = F!nameOf(form.shownName, r.members) \/ form.nameLeft
<1>1. ASSUME F!IInv, F!Next PROVE Shows
  <2>0. /\ forms \in [{"create", "update"} -> F!Form] /\ submits \subseteq F!Request
        /\ \A f \in {"create", "update"} : F!fits(f, forms[f])
    BY <1>1 DEF F!IInv, F!TypeOK, F!FieldsAreState
  <2>1. ASSUME NEW f \in {"create", "update"}, F!Submit(f) PROVE Shows
    <3> DEFINE form == forms[f]
    <3>1. form.isOpen /\ F!fits(f, form)
      BY <2>0, <2>1 DEF F!Submit
    <3>2. /\ form.shownMembers = form.selectedMembers \/ form.membersLeft
          /\ form.shownName = form.roomName \/ form.nameLeft
      BY <3>1 DEF F!fits
    <3>3. \A r \in submits' \ submits :
            /\ r.form = f /\ r.members = form.selectedMembers
            /\ r.name = F!nameOf(form.roomName, form.selectedMembers)
      BY <2>1 DEF F!Submit
    <3>. QED
      BY <3>2, <3>3
  <2>2. CASE F!LeaveMenu
    <3> SUFFICES ASSUME NEW r \in submits' \ submits PROVE ~r.isOwn
      OBVIOUS
    <3>1. PICK q \in submits : r = [q EXCEPT !.isOwn = q.isOwn /\ q.form = "create"]
      BY <2>2 DEF F!LeaveMenu
    <3>2. q \in F!Request
      BY <2>0
    <3>3. CASE q.form = "create"
      <4>1. r = q
        BY <3>1, <3>2, <3>3 DEF F!Request
      <4>. QED
        BY <4>1
    <3>4. CASE q.form # "create"
      BY <3>1, <3>2, <3>4 DEF F!Request
    <3>. QED
      BY <3>3, <3>4
  <2>3. CASE submits' \subseteq submits
    BY <2>3
  <2>4. \/ F!LeaveMenu \/ submits' \subseteq submits
        \/ \E f \in {"create", "update"} : F!Submit(f)
    <3>1. DOMAIN forms = {"create", "update"}
      BY <2>0
    <3>. QED
      BY <1>1, <3>1 DEF F!Next, F!Open, F!Cancel, F!HandleRoomNameChange,
           F!HandleMemberSelectChange, F!changed, F!OthersRename, F!DetailArrives,
           F!OpenMenu, F!OpenMembers, F!Load, F!RoomCreated, F!Updated, F!Fails
  <2>. HIDE DEF Shows
  <2>. QED
    BY <2>1, <2>2, <2>3, <2>4
<1>2. F!IInv /\ [F!Next]_(F!formVars) => [Shows]_(F!formVars)
  BY <1>1
<1>. QED
  BY <1>2, FormsInvariance, PTL DEF F!Spec, FormsSendWhatTheyShow, F!FormsSendWhatTheyShow

-----------------------------------------------------------------------------
(* The composer. *)

\* The interval stops counting at the bound of what is followed.
LEMMA ComposerStep == C!TypeOK /\ [C!Next]_(C!composerVars) => C!TypeOK'
<1> SUFFICES ASSUME C!TypeOK, [C!Next]_(C!composerVars) PROVE C!TypeOK'
  OBVIOUS
<1> DEFINE Seen == [isKeyPressed : BOOLEAN, countdown : -Below..5]
<1>0. Below \in Nat \ {0}
  BY ComposerAssumption DEF C!ComposerAssumption
<1>1. /\ inqueryMessage \in BOOLEAN /\ isTyping \in BOOLEAN /\ isKeyPressed \in BOOLEAN
      /\ uploadedFiles \subseteq Files /\ fileList \subseteq Files /\ uploads \subseteq Files
      /\ countdown \in -Below..5 /\ effect \in Seen
  BY DEF C!TypeOK
<1>2. 0 \in -Below..5 /\ 5 \in -Below..5
  BY <1>0
<1>3. C!seen \in Seen
  BY <1>1 DEF C!seen
<1>. HIDE DEF Seen
<1>4. inqueryMessage' \in BOOLEAN /\ isTyping' \in BOOLEAN /\ isKeyPressed' \in BOOLEAN
  <2> USE <1>1 DEF C!typing, C!draft, C!composerVars
  <2>1. CASE C!Effect
    BY <2>1 DEF C!Effect
  <2>2. CASE C!Interval \/ C!OnKeyPress \/ C!OnKeyUp \/ C!OnSend
    BY <2>2 DEF C!Interval, C!OnKeyPress, C!OnKeyUp, C!OnSend
  <2>3. ASSUME NEW f \in Files, C!HandleChangeFile(f) \/ C!UploadFails(f) \/ C!OnRemoveFile(f)
        PROVE  inqueryMessage' \in BOOLEAN /\ isTyping' \in BOOLEAN /\ isKeyPressed' \in BOOLEAN
    BY <2>3 DEF C!HandleChangeFile, C!UploadFails, C!OnRemoveFile
  <2>4. CASE UNCHANGED C!composerVars
    BY <2>4
  <2>. QED
    BY <2>1, <2>2, <2>3, <2>4 DEF C!Next
<1>5. uploadedFiles' \subseteq Files /\ fileList' \subseteq Files /\ uploads' \subseteq Files
  BY <1>1 DEF C!Next, C!Effect, C!Interval, C!OnKeyPress, C!OnKeyUp, C!OnSend,
              C!HandleChangeFile, C!UploadFails, C!OnRemoveFile, C!rendered,
              C!typing, C!draft, C!composerVars
<1>6. countdown' \in -Below..5
  <2>1. CASE C!Interval
    BY <1>0, <1>1, <2>1 DEF C!Interval
  <2>2. countdown' \in {countdown, 0, 5} \/ C!Interval
    BY DEF C!Next, C!Effect, C!OnKeyPress, C!OnKeyUp, C!OnSend, C!HandleChangeFile,
           C!UploadFails, C!OnRemoveFile, C!typing, C!composerVars
  <2>. QED
    BY <1>1, <1>2, <2>1, <2>2
<1>7. effect' \in Seen
  <2>1. effect' \in {effect, C!seen}
    BY DEF C!Next, C!Effect, C!Interval, C!OnKeyPress, C!OnKeyUp, C!OnSend,
           C!HandleChangeFile, C!UploadFails, C!OnRemoveFile, C!composerVars
  <2>. QED
    BY <1>1, <1>3, <2>1
<1>. QED
  BY <1>4, <1>5, <1>6, <1>7 DEF Seen, C!TypeOK

THEOREM ComposerTypes == C!Spec => []C!TypeOK
<1>1. C!Init => C!TypeOK
  <2> SUFFICES ASSUME C!Init PROVE C!TypeOK
    OBVIOUS
  <2>1. countdown \in -Below..5
    BY ComposerAssumption DEF C!ComposerAssumption, C!Init
  <2>2. effect = [isKeyPressed |-> FALSE, countdown |-> countdown]
    BY DEF C!Init
  <2>3. effect \in [isKeyPressed : BOOLEAN, countdown : -Below..5]
    BY <2>1, <2>2
  <2>4. {inqueryMessage, isTyping, isKeyPressed} \subseteq BOOLEAN
    BY DEF C!Init
  <2>5. {uploadedFiles, fileList, uploads} \subseteq SUBSET Files
    BY DEF C!Init
  <2>. QED
    BY <2>1, <2>3, <2>4, <2>5 DEF C!TypeOK
<1>. QED
  BY <1>1, ComposerStep, PTL DEF C!Spec

-----------------------------------------------------------------------------
(* The tab. *)

\* A behaviour of the four parts is one of each of them: what is shown of a part alone
\* holds of the tab.
THEOREM PartsAreImplemented == MCSpec => Spec /\ V!Spec /\ F!Spec /\ C!Spec
<1>1. MCInit => Init /\ V!Init /\ F!Init /\ C!Init
  BY DEF MCInit
<1>2. [MCNext]_mcVars => /\ [Next]_vars /\ [V!Next]_(V!viewVars)
                         /\ [F!Next]_(F!formVars) /\ [C!Next]_(C!composerVars)
  <2> USE DEF mcVars, views, modals, composer, V!viewVars, V!view, F!formVars, F!page,
              C!composerVars, C!draft, C!typing
  <2>1. CASE Next /\ UNCHANGED <<views, modals, composer>>
    BY <2>1
  <2>2. CASE V!Next /\ UNCHANGED <<vars, modals, composer>>
    BY <2>2
  <2>3. CASE F!Next /\ UNCHANGED <<vars, views, composer>>
    BY <2>3
  <2>4. CASE C!Next /\ UNCHANGED <<vars, views, modals>>
    BY <2>4
  <2>5. CASE UNCHANGED mcVars
    BY <2>5
  <2>. QED
    BY <2>1, <2>2, <2>3, <2>4, <2>5 DEF MCNext
<1>. QED
  BY <1>1, <1>2, PTL DEF MCSpec, Spec, V!Spec, F!Spec, C!Spec

\* Whichever part takes its steps, what it keeps has its types.
THEOREM TabTypes == MCSpec => []MCTypeOK
<1> DEFINE Part == part \in {"calls", "views", "modals", "composer"}
<1>1. MCInit => Part
  BY DEF MCInit
<1>2. Part /\ [MCNext]_mcVars => Part'
  BY DEF MCNext, mcVars
<1>3. TypeOK /\ V!TypeOK /\ F!TypeOK /\ C!TypeOK /\ Part => MCTypeOK
  BY DEF MCTypeOK
<1>4. (IInv => TypeOK) /\ (V!IInv => V!TypeOK) /\ (F!IInv => F!TypeOK)
  BY DEF IInv, V!IInv, F!IInv
<1>. HIDE DEF Part
<1>. QED
  BY PartsAreImplemented, Invariance, ViewsInvariance, FormsInvariance, ComposerTypes,
     <1>1, <1>2, <1>3, <1>4, PTL DEF MCSpec
=============================================================================
