------------------------------ MODULE RoomViews ------------------------------
(***************************************************************************)
(* What the views of a room's page read of the server's answers.           *)
(*                                                                         *)
(* The room comes in several shapes: the detail has its participants, the  *)
(* answer to an update is the document without them, and an avatar that    *)
(* was uploaded takes the avatar away until the detail comes again.  There *)
(* is no error boundary: a render that reads from undefined, without `?.', *)
(* takes the page away until it is loaded again.                           *)
(*                                                                         *)
(* An operator with the name of a view is the set of what that view reads  *)
(* from without a guard.  When things come, and whose, is RoomPage's; here *)
(* only what they are matters.                                             *)
(***************************************************************************)
CONSTANTS undefined, value    \* `value': anything that is there

VARIABLES isGroup,      \* of the room; nothing changes it
          stored,       \* types of its messages in the database
          room,         \* roomCurrentSelected
          messages,     \* types in officialMessages,
          results,      \*   and in those of SidebarMenu
          sidebar,      \* what SidebarMenu shows, or "closed"
          panels,       \* panels of its Collapse that have been opened: they stay mounted
          windows,      \* windows of calls
          answers,      \* answers under way: to what, and the room it closes over
          crashed

view == <<room, messages, results, sidebar, panels, windows>>
viewVars == <<isGroup, stored, view, answers, crashed>>

Type == {"Text", "Link"}    \* those buildMessageRequest gives: nothing stores another

\* The fields that are not always there.
Shape == [participants : {undefined, value}, avatarUrl : {undefined, value}]

RoomViewsAssumption == undefined # value /\ undefined \notin Shape

detail == [participants |-> value, avatarUrl |-> value]        \* findById
document == [participants |-> undefined, avatarUrl |-> value]  \* updateRoom

\* room?.field
get(r, field) == IF r = undefined THEN undefined ELSE r[field]
groupShown == room # undefined /\ isGroup

-----------------------------------------------------------------------------
\* The views.
AvatarGroupWrap(users) == {}    \* users?.slice; a user is never undefined
AvatarWrap(src) == {}           \* getImage has an image for undefined

\* The avatar of the room, in the header and in the sidebar.
avatar == IF groupShown /\ get(room, "avatarUrl") = undefined
          THEN AvatarGroupWrap(get(room, "participants"))
          ELSE AvatarWrap(get(room, "avatarUrl"))

mutantNoDefault == {get(room, "participants")}
\* room?.participants, or []
WaitingCall == {}
IncomingCall == {}

\* participants.map
MemberList(participants) == {participants}

\* A link's content is the text, and link[0].url of a text undefined; a call's and a file's
\* are read with `?.'.
MessageText(type) == CASE type = "Link" -> {undefined}
                       [] type = "Text" -> {value}
                       [] OTHER         -> {}

\* Sender and content are there; no message has a messageRepy, so no ReplyMessage is
\* shown; and the participants default to [].
MessageItem(type) == {value} \cup MessageText(type)

\* Only texts are shown, the content of others is left out.
MessageList(types) == {value : type \in types}

\* Only files are asked for, and there are none: the list stays empty.
MediaContainer == {room}

Collapse == IF groupShown /\ "members" \in panels THEN MemberList(room.participants) ELSE {}

SidebarMenu == CASE sidebar = "menu"  -> avatar \cup MessageList(results) \cup Collapse
                 [] sidebar = "media" -> MediaContainer
                 [] OTHER             -> {}

MessageContent ==
  UNION {IF "waiting" \in windows THEN WaitingCall ELSE {},
         IF "incoming" \in windows THEN IncomingCall ELSE {},
         avatar, UNION {MessageItem(type) : type \in messages}, SidebarMenu}

-----------------------------------------------------------------------------
\* Only handleUploadSuccess closes over the room.
request(kind) == [kind |-> kind, room |-> IF kind = "avatar" THEN room ELSE undefined]

loaded ==
  /\ room' = undefined /\ messages' = {} /\ results' = {} /\ sidebar' = "closed"
  /\ panels' = {} /\ windows' = {}
  /\ answers' = {[kind |-> k, room |-> undefined] : k \in {"detail", "messages"}}

Init ==
  /\ isGroup \in BOOLEAN /\ stored \in SUBSET Type
  /\ room = undefined /\ messages = {} /\ results = {} /\ sidebar = "closed"
  /\ panels = {} /\ windows = {}
  /\ answers = {[kind |-> k, room |-> undefined] : k \in {"detail", "messages"}}
  /\ crashed = FALSE

\* A message is stored, by its text as one type or the other; its event comes or is lost.
Store(type) ==
  /\ stored' = stored \cup {type}
  /\ messages' \in {messages, messages \cup {type}}
  /\ UNCHANGED <<isGroup, room, results, sidebar, panels, windows, answers>>

\* Messages are asked for with the detail; types that a keyword is not found in are left out.
Arrives(a) ==
  /\ a \in answers
  /\ room' = CASE a.kind = "detail" -> detail
               [] a.kind = "update" -> document
               [] a.kind = "avatar" -> [a.room EXCEPT !.avatarUrl = undefined]
               [] OTHER -> room
  /\ messages' = IF a.kind = "messages" THEN messages \cup stored ELSE messages
  /\ results' \in IF a.kind = "search" /\ sidebar = "menu" THEN SUBSET stored ELSE {results}
  /\ answers' = (answers \ {a}) \cup
                IF a.kind = "detail" /\ sidebar = "closed" THEN {request("messages")} ELSE {}
  /\ UNCHANGED <<isGroup, stored, sidebar, panels, windows>>

Fails(a) ==
  /\ a \in answers /\ answers' = answers \ {a}
  /\ UNCHANGED <<isGroup, stored, view>>

\* Calls come and end: see VideoCall.
OpenWindow(w) ==
  /\ windows' = {w}
  /\ UNCHANGED <<isGroup, stored, room, messages, results, sidebar, panels, answers>>

CloseWindows ==
  /\ windows' = {}
  /\ UNCHANGED <<isGroup, stored, room, messages, results, sidebar, panels, answers>>

OpenRoomDetail ==
  /\ sidebar = "closed" /\ sidebar' = "menu"
  /\ answers' = answers \cup {request("detail")}
  /\ UNCHANGED <<isGroup, stored, room, messages, results, panels, windows>>

\* The menu is unmounted, with the panels that were open; the whole sidebar with its
\* results, too.
CloseRoomDetail ==
  /\ sidebar # "closed" /\ sidebar' = "closed"
  /\ panels' = {} /\ results' = {}
  /\ UNCHANGED <<isGroup, stored, room, messages, windows, answers>>

\* The panels there are: Customize and Member in the chat for groups, Media for all.
OpenPanel(p) ==
  /\ sidebar = "menu" /\ room # undefined /\ (p # "media" => isGroup)
  /\ panels' = panels \cup {p}
  /\ UNCHANGED <<isGroup, stored, room, messages, results, sidebar, windows, answers>>

HandleMediaClick ==
  /\ sidebar = "menu" /\ room # undefined /\ "media" \in panels
  /\ sidebar' = "media" /\ panels' = {}
  /\ UNCHANGED <<isGroup, stored, room, messages, results, windows, answers>>

OnBack ==
  /\ sidebar = "media" /\ sidebar' = "menu"
  /\ UNCHANGED <<isGroup, stored, room, messages, results, panels, windows, answers>>

\* Without a room the query throws, which only fails it.
HandleSearchMessages ==
  /\ sidebar = "menu" /\ room # undefined
  /\ answers' = answers \cup {request("search")}
  /\ UNCHANGED <<isGroup, stored, view>>

\* Rename and Add members open the same modal.
OnSubmit ==
  /\ sidebar = "menu" /\ groupShown /\ panels \cap {"customize", "members"} # {}
  /\ answers' = answers \cup {request("update")}
  /\ UNCHANGED <<isGroup, stored, view>>

UploadAvatar ==
  /\ sidebar = "menu" /\ groupShown /\ "customize" \in panels
  /\ answers' = answers \cup {request("avatar")}
  /\ UNCHANGED <<isGroup, stored, view>>

step ==
  \/ \E type \in Type : Store(type)
  \/ \E a \in answers : Arrives(a) \/ Fails(a)
  \/ \E w \in {"waiting", "incoming"} : OpenWindow(w)
  \/ \E p \in {"customize", "members", "media"} : OpenPanel(p)
  \/ CloseWindows \/ OpenRoomDetail \/ CloseRoomDetail
  \/ HandleMediaClick \/ OnBack \/ HandleSearchMessages \/ OnSubmit \/ UploadAvatar

\* Every step is followed by a render.
Load == crashed' = FALSE /\ loaded /\ UNCHANGED <<isGroup, stored>>
Next ==
  \/ ~crashed /\ step /\ crashed' = (undefined \in MessageContent)'
  \/ crashed /\ Load

Spec == Init /\ [][Next]_viewVars

-----------------------------------------------------------------------------
TypeOK ==
  /\ isGroup \in BOOLEAN /\ crashed \in BOOLEAN
  /\ {stored, messages, results} \subseteq SUBSET Type
  /\ room \in Shape \cup {undefined}
  /\ sidebar \in {"closed", "menu", "media"}
  /\ panels \subseteq {"customize", "members", "media"}
  /\ windows \subseteq {"waiting", "incoming"}
  /\ answers \subseteq [kind : {"detail", "messages", "search", "update", "avatar"},
                        room : Shape \cup {undefined}]

\* In whatever order things come, a window before the room, an answer without participants
\* or without avatar while a window or the media are shown, a render throws for two
\* reasons only: a link was written in the room, or the tab's own update was answered
\* while its list of members was open.
NothingElseThrows ==
  crashed => \/ "Link" \in messages
             \/ "members" \in panels /\ get(room, "participants") = undefined

\* The media, and the avatar that is uploaded, come from a menu with a room, and a room
\* that has come only gives way to another shape of it.
RoomIsThere ==
  /\ sidebar = "media" => room # undefined
  /\ \A a \in answers : a.kind = "avatar" => a.room # undefined

IInv == TypeOK /\ RoomIsThere /\ NothingElseThrows
=============================================================================
