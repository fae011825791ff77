------------------------------ MODULE RoomForms ------------------------------
(***************************************************************************)
(* The modals CreateRoom and UpdateRoom.  Each keeps its fields twice: in  *)
(* the store of its antd Form, which is what the fields show, and in React *)
(* state, which is what the request is built from.  Typing sets both;      *)
(* cancelling, a request that succeeds, and the menu that is left set one  *)
(* or the other.                                                           *)
(*                                                                         *)
(* UpdateRoom lives in the menu of SidebarMenu; for how its room comes and *)
(* what a render takes away see RoomPage and RoomViews.                    *)
(***************************************************************************)
CONSTANTS Names, Users,
          noName,       \* '' and undefined
          unknown       \* a name with 'Unknown' in it

RoomFormsAssumption == noName \notin Names \cup {unknown} /\ unknown \notin Names

VARIABLES forms,
          isMenuOpen,         \* the menu, with UpdateRoom in it, is mounted
          isMembersOpen,      \*   and has its list of members open
          name, detailName,   \* of the room: in the database, and in roomCurrentSelected
          requests,
          gone                \* a render threw

page == <<isMenuOpen, isMembersOpen>>
formVars == <<forms, page, name, detailName, requests, gone>>

Name == Names \cup {noName, unknown}
Form == [isOpen : BOOLEAN,
         isMounted : BOOLEAN,                            \* its fields are, once it was open
         shownName : Name, shownMembers : SUBSET Users,  \* the store
         roomName : Name, selectedMembers : SUBSET Users,
         \* history: closed by a cancel or a success since the name was typed; and
         \* succeeded since the members were chosen
         nameLeft : BOOLEAN, membersLeft : BOOLEAN]

newForm(n) == [isOpen |-> FALSE, isMounted |-> FALSE,
               shownName |-> noName, shownMembers |-> {},
               roomName |-> n, selectedMembers |-> {},
               nameLeft |-> FALSE, membersLeft |-> FALSE]

\* `isOwn': the form that sent it is still mounted.
Request == [form : {"create", "update"}, name : Name, members : SUBSET Users, isOwn : BOOLEAN]

\* Users come without a `name'.
getRoomName(members) == IF members = {} THEN noName ELSE unknown

\* The name that is sent for one that is typed.
nameOf(n, members) == IF n = noName THEN getRoomName(members) ELSE n

Init ==
  /\ forms = [f \in {"create", "update"} |-> newForm(noName)]
  /\ isMenuOpen = FALSE /\ isMembersOpen = FALSE
  /\ name \in Names /\ detailName = noName
  /\ requests = {} /\ gone = FALSE

isCovered == \E f \in DOMAIN forms : forms[f].isOpen
isLoading(f) == \E r \in requests : r.form = f /\ r.isOwn

-----------------------------------------------------------------------------
\* The page around the modals, which cover it.
\* Its rename is answered or seen by others: in the database.
OthersRename(n) ==
  /\ name' = n
  /\ UNCHANGED <<forms, page, detailName, requests, gone>>

DetailArrives ==
  /\ ~gone /\ detailName' = name
  /\ UNCHANGED <<forms, page, name, requests, gone>>

\* UpdateRoom is mounted with the room's name.
OpenMenu ==
  /\ ~gone /\ ~isCovered /\ ~isMenuOpen /\ isMenuOpen' = TRUE
  /\ forms' = [forms EXCEPT !["update"] = newForm(detailName)]
  /\ UNCHANGED <<isMembersOpen, name, detailName, requests, gone>>

OpenMembers ==
  /\ ~gone /\ ~isCovered /\ isMenuOpen /\ detailName # noName /\ isMembersOpen' = TRUE
  /\ UNCHANGED <<forms, isMenuOpen, name, detailName, requests, gone>>

\* The sidebar is closed, or shows the media: UpdateRoom is unmounted.
LeaveMenu ==
  /\ ~gone /\ ~isCovered /\ isMenuOpen
  /\ isMenuOpen' = FALSE /\ isMembersOpen' = FALSE
  /\ forms' = [forms EXCEPT !["update"] = newForm(noName)]
  /\ requests' = {[r EXCEPT !.isOwn = @ /\ r.form = "create"] : r \in requests}
  /\ UNCHANGED <<name, detailName, gone>>

Load ==
  /\ forms' = [f \in {"create", "update"} |-> newForm(noName)]
  /\ isMenuOpen' = FALSE /\ isMembersOpen' = FALSE
  /\ detailName' = noName /\ requests' = {} /\ gone' = FALSE
  /\ UNCHANGED name

-----------------------------------------------------------------------------
\* The modals.
changed(f, form) ==
  /\ ~gone /\ forms' = [forms EXCEPT ![f] = form]
  /\ UNCHANGED <<page, name, detailName, requests, gone>>

\* Its fields are mounted with initialValue when it is opened first.  The buttons for
\* UpdateRoom, Rename and Add members, are there when the room is; the sidebar covers
\* that for CreateRoom.
Open(f) ==
  /\ ~isCovered /\ isMenuOpen = (f = "update") /\ (f = "update" => detailName # noName)
  /\ LET form == forms[f]
     IN changed(f, [form EXCEPT !.isOpen = TRUE, !.isMounted = TRUE,
                      !.shownName = IF f = "update" /\ ~form.isMounted THEN form.roomName ELSE @])

HandleRoomNameChange(f, n) ==
  /\ forms[f].isOpen
  /\ changed(f, [forms[f] EXCEPT !.shownName = n, !.roomName = n, !.nameLeft = FALSE])

HandleMemberSelectChange(f, members) ==
  /\ forms[f].isOpen
  /\ changed(f, [forms[f] EXCEPT !.shownMembers = members, !.selectedMembers = members,
                                 !.membersLeft = FALSE])

mutantLikeUpdate(form) == [form EXCEPT !.isOpen = FALSE, !.roomName = noName]
\* CreateRoom keeps everything; UpdateRoom's handleCancel forgets the name, in its state.
cancelled(form) == [form EXCEPT !.isOpen = FALSE]
HandleCancel(form) == [form EXCEPT !.isOpen = FALSE, !.roomName = noName, !.nameLeft = TRUE]

Cancel(f) ==
  /\ forms[f].isOpen
  /\ changed(f, IF f = "create" THEN cancelled(forms[f]) ELSE HandleCancel(forms[f]))

\* mutateCreateRoom, and onSubmit.
Submit(f) ==
  /\ ~gone /\ forms[f].isOpen /\ ~isLoading(f)
  /\ requests' = requests \cup
       {[form |-> f, name |-> nameOf(forms[f].roomName, forms[f].selectedMembers),
         members |-> forms[f].selectedMembers, isOwn |-> TRUE]}
  /\ UNCHANGED <<forms, page, name, detailName, gone>>

\* The ValidationPipe: CreateRoomDto, ChangeRoomNameDto.
isValid(r) == r.name # noName /\ (r.form = "create" => r.members # {})

\* resetFields sets the fields to the initialValue of the last render; the members of the
\* state stay.
succeeded(form) ==
  [form EXCEPT !.isOpen = FALSE, !.shownName = form.roomName, !.shownMembers = {},
               !.roomName = noName, !.nameLeft = TRUE, !.membersLeft = TRUE]

\* The new room's row takes the page away: see RoomList.
RoomCreated(r) ==
  /\ r \in requests /\ r.form = "create" /\ isValid(r)
  /\ requests' = requests \ {r} /\ gone' = TRUE
  /\ UNCHANGED <<forms, page, name, detailName>>

\* The answer has no participants: the list of them, if it is open, takes the page away.
Updated(r) ==
  /\ r \in requests /\ r.form = "update" /\ isValid(r)
  /\ requests' = requests \ {r}
  /\ name' = r.name /\ detailName' = r.name
  /\ forms' = IF r.isOwn THEN [forms EXCEPT !["update"] = succeeded(@)] ELSE forms
  /\ gone' = (gone \/ isMembersOpen)
  /\ UNCHANGED page

Fails(r) ==
  /\ r \in requests /\ requests' = requests \ {r}
  /\ UNCHANGED <<forms, page, name, detailName, gone>>

Next ==
  \/ \E n \in Names : OthersRename(n)
  \/ DetailArrives \/ OpenMenu \/ OpenMembers \/ LeaveMenu
  \/ gone /\ Load
  \/ \E f \in DOMAIN forms :
       \/ Open(f) \/ Cancel(f) \/ Submit(f)
       \/ \E n \in Names \cup {noName} : HandleRoomNameChange(f, n)
       \/ \E members \in SUBSET Users : HandleMemberSelectChange(f, members)
  \/ \E r \in requests : RoomCreated(r) \/ Updated(r) \/ Fails(r)

Spec == Init /\ [][Next]_formVars

-----------------------------------------------------------------------------
TypeOK ==
  /\ forms \in [{"create", "update"} -> Form]
  /\ {isMenuOpen, isMembersOpen, gone} \subseteq BOOLEAN
  /\ name \in Names \cup {unknown} /\ detailName \in Name
  /\ requests \subseteq Request

\* What is sent is what the fields show at that moment, a name that is left empty made
\* of the members.  CreateRoom always sends what it shows, also after it was cancelled and
\* opened again; UpdateRoom does unless it was closed since the name was typed, when the
\* field shows the name and none is sent, or has updated the room since the members were
\* chosen, when none are shown and they are sent again.
FormsSendWhatTheyShow ==
  [][\A r \in requests' \ requests :
       LET form == forms[r.form]
       IN r.isOwn =>
          /\ r.members = form.shownMembers \/ form.membersLeft
          /\ r.name = nameOf(form.shownName, r.members) \/ form.nameLeft]_formVars

\* A form that was opened shows what its state has, but for what a history variable
\* names; CreateRoom does from the start.
fits(f, form) ==
  /\ form.isOpen => form.isMounted
  /\ form.membersLeft \/ form.shownMembers = form.selectedMembers
  /\ form.isMounted \/ f = "create" => form.nameLeft \/ form.shownName = form.roomName

FieldsAreState == \A f \in DOMAIN forms : fits(f, forms[f])

IInv == TypeOK /\ FieldsAreState
=============================================================================
