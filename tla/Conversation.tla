----------------------------- MODULE Conversation -----------------------------
(***************************************************************************)
(* One conversation, direct or of a group: its document, its messages, its *)
(* room; the requests of chat.service and collab.service that change them  *)
(* and the job that cleans the conversation up.  Requests load the         *)
(* document, work on their copy and save it; one step per await.           *)
(*                                                                         *)
(* A mongoose document that is saved writes the fields it changed; when an *)
(* array among them was replaced, only if nobody else has replaced one     *)
(* since it was loaded.  A conversation that was cleaned up is gone: one   *)
(* made later is another one.                                              *)
(***************************************************************************)
EXTENDS Integers, FiniteSets

CONSTANTS
    Users,
    Requests,       \* requests that run at the same time
    None,
    MaxStarts,      \* bound: requests started, so also messages
    MaxGone         \* bound: accounts that are deleted

ASSUME StartsAssumption == MaxStarts \in Nat /\ MaxGone \in Nat
ASSUME UsersAssumption == IsFiniteSet(Users)

VARIABLES
    isGroup,
    order,          \* the first two participants; who made a group is the first
    gone,           \* users who have deleted their account
    conv,           \* the document, None when it is gone
    messages,
    tasks,          \* what every request is doing
    asked,          \* collaboration requests
    room,           \* the conversation has a room
    accepted,       \* COLLAB_ACCEPTED notifications
    job,            \* progress of cleanupConversation
    started,        \* requests started so far
    created,        \* messages created so far
    pending,        \* history: messages that wait for a user who has not looked since
    overlooked,     \* history: users who looked while a message was being counted
    abandoned,      \* history: the admin left a group that nobody else was in
    crossed,        \* history: an unsend ran beside another request
    reopened,       \* history: somebody came back while a deletion was under way
    late            \* history: a room was made after the cleanup had listed the rooms

collab == <<asked, room, accepted>>
history == <<pending, overlooked, abandoned, crossed, reopened, late>>
vars == <<isGroup, order, gone, conv, messages, tasks, collab, job, started, created, history>>

----------------------------------------------------------------------------
\* Messages are numbered; 0 stands for none.
Document == [participants: SUBSET Users, hiddenBy: SUBSET Users, admins: SUBSET Users, lastMessage: Nat,
             unread: [Users -> Nat], v: Nat]
Message == [n: Nat, sender: Users]

\* read is the document as it was loaded, doc the copy that is worked on.
Task == [op: {"send", "accept", "enter", "invite", "remove", "mark", "unsend", "hide"},
         pc: {"create", "save", "delete", "latest", "findRoom", "makeRoom", "other", "enqueue"},
         after: {"done", "create", "findRoom", "other"},
         user: Users, target: Users, n: Nat, system: BOOLEAN, known: SUBSET Nat,
         read: Document, doc: Document]

CollabRequest == [from: Users, to: Users, n: 1..MaxStarts]
CollabTask == [op: {"ask", "agree"}, user: Users, request: CollabRequest,
               pc: {"check", "ask", "find", "make", "forget", "announce"}, found: BOOLEAN]

ASSUME NoneAssumption == None \notin Document \union Task \union CollabTask

TypeOK ==
    /\ isGroup \in BOOLEAN /\ order \in Users \X Users /\ gone \in SUBSET Users
    /\ conv \in Document \union {None}
    /\ messages \subseteq Message
    /\ tasks \in [Requests -> Task \union CollabTask \union {None}]
    /\ asked \subseteq CollabRequest /\ room \in BOOLEAN /\ accepted \in Nat
    /\ job \in {"none", "queued", "started", "roomless", "cleared", "messagesGone", "conversationGone", "done"}
    /\ started \in 0..MaxStarts /\ created \in Nat
    /\ pending \in [Users -> SUBSET Nat] /\ overlooked \in SUBSET Users
    /\ abandoned \in BOOLEAN /\ crossed \in BOOLEAN /\ reopened \in BOOLEAN /\ late \in BOOLEAN

\* getVisibleParticipantIds
Visible(doc) == doc.participants \ doc.hiddenBy

\* A direct conversation of two or a group of which some members have accepted, with or
\* without a room: createGroup makes it after the group.
Init ==
    /\ isGroup \in BOOLEAN
    /\ \E creator \in Users, participants \in SUBSET Users :
        /\ creator \in participants
        /\ \E other \in participants \ {creator} : order = <<creator, other>>
        /\ IF isGroup THEN Cardinality(participants) >= 3 ELSE Cardinality(participants) = 2
        /\ \E hiddenBy \in SUBSET (participants \ {creator}) :
            /\ ~isGroup => hiddenBy = {}
            /\ conv = [participants |-> participants, hiddenBy |-> hiddenBy,
                       admins |-> IF isGroup THEN {creator} ELSE {}, lastMessage |-> 0,
                       unread |-> [u \in Users |-> 0], v |-> 0]
    /\ messages = {} /\ created = 0
    /\ tasks = [r \in Requests |-> None]
    /\ asked = {} /\ room \in BOOLEAN /\ accepted = 0
    /\ job = "none" /\ started = 0 /\ gone = {}
    /\ pending = [u \in Users |-> {}] /\ overlooked = {}
    /\ abandoned = FALSE /\ crossed = FALSE /\ reopened = FALSE /\ late = FALSE

----------------------------------------------------------------------------
(* Starting a request: it loads the document.                              *)

Others(r) == {tasks[q] : q \in Requests \ {r}} \ {None}

\* Request r of user u, with doc for the copy it goes on with.
Start(r, u, op, target, n, pc, after, doc) ==
    /\ tasks[r] = None /\ started < MaxStarts
    /\ started' = started + 1
    /\ tasks' = [tasks EXCEPT ![r] =
        [op |-> op, pc |-> pc, after |-> after, user |-> u, target |-> target, n |-> n, system |-> FALSE,
         known |-> pending[u], read |-> conv', doc |-> doc]]
    /\ crossed' = (crossed \/ \E t \in Others(r) : op = "unsend" \/ t.op = "unsend")
    /\ UNCHANGED <<isGroup, order, gone, messages, collab, job, created, pending, overlooked, abandoned, late>>

Load(r, u, op, target, n, pc, after, doc) ==
    /\ UNCHANGED <<conv, reopened>>
    /\ Start(r, u, op, target, n, pc, after, doc)

\* findGroupConversationForUser, findConversationForUser
IsIn(u) == conv # None /\ u \in conv.participants
Sees(u) == conv # None /\ u \in Visible(conv)

\* The receiver of a direct message still has an account.
ReceiverIsThere(u) == isGroup \/ conv.participants \ {u} \subseteq Users \ gone

\* saveMessage to a conversation by its id
SaveMessage(r, u) ==
    /\ IsIn(u) /\ (isGroup => Sees(u)) /\ ReceiverIsThere(u)
    /\ Load(r, u, "send", u, 0, "create", "done", conv)

Deciding(r) == job # "none" \/ \E t \in Others(r) : t.op = "hide"

\* Whoever sees the conversation now and did not before has come back.
ComesBack(r) == reopened' = (reopened \/ (Deciding(r) /\ Visible(conv') \ Visible(conv) # {}))

\* saveMessage to a receiver: findOrCreateConversation shows the conversation to both.
SaveMessageTo(r, u) ==
    /\ ~isGroup /\ IsIn(u) /\ ReceiverIsThere(u)
    /\ conv' = [conv EXCEPT !.hiddenBy = {}]
    /\ Start(r, u, "send", u, 0, "create", "done", conv')
    /\ ComesBack(r)

AcceptGroupInvite(r, u) ==
    /\ isGroup /\ IsIn(u) /\ ~Sees(u)
    /\ Load(r, u, "accept", u, 0, "save", "findRoom", [conv EXCEPT !.hiddenBy = @ \ {u}])

\* A member who sees the group looks for its room: acceptGroupInvite once more, and
\* checkCollabRequestStatus.
EnterGroup(r, u) ==
    /\ isGroup /\ Sees(u)
    /\ Load(r, u, "enter", u, 0, "findRoom", "done", conv)

InviteGroupMembers(r, u, member) ==
    /\ isGroup /\ Sees(u) /\ u \in conv.admins
    /\ member \notin conv.participants \union gone
    /\ Load(r, u, "invite", member, 0, "save", "create",
            [conv EXCEPT !.participants = @ \union {member}, !.hiddenBy = @ \union {member}])

\* An admin leaves last.
MayRemove(u, member) ==
    IF u = member THEN u \in conv.admins => Cardinality(Visible(conv)) <= 1 ELSE u \in conv.admins

\* The admins after member is gone: somebody who is left when there is none.
NextAdmins(member) ==
    LET admins == conv.admins \ {member}
        left == Visible(conv) \ {member}
    IN  IF admins = {} /\ left # {} THEN {{u} : u \in left} ELSE {admins}

RemoveGroupMember(r, u, member) ==
    /\ isGroup /\ Sees(u) /\ member \in conv.participants
    /\ MayRemove(u, member)
    /\ \E admins \in NextAdmins(member) :
        Load(r, u, "remove", member, 0, "save", "create",
             [conv EXCEPT !.hiddenBy = @ \union {member}, !.admins = admins])

MarkAsRead(r, u) ==
    /\ Sees(u)
    /\ Load(r, u, "mark", u, 0, "save", "done", [conv EXCEPT !.unread[u] = 0])

UnsendMessage(r, message) ==
    /\ message \in messages /\ Sees(message.sender) /\ message.sender \notin gone
    /\ Load(r, message.sender, "unsend", message.sender, message.n, "delete", "done", conv)

\* The last one in a group who is its admin deletes it at once.
DeleteGroup(r, u) ==
    /\ isGroup /\ Sees(u) /\ u \in conv.admins /\ Visible(conv) = {u}
    /\ Load(r, u, "hide", u, 0, "enqueue", "done", conv)

DeleteConversationForUser(r, u) ==
    /\ Sees(u) /\ ~(isGroup /\ u \in conv.admins)
    /\ Load(r, u, "hide", u, 0, "save", "other", [conv EXCEPT !.hiddenBy = @ \union {u}, !.unread[u] = 0])

----------------------------------------------------------------------------
(* The rest of a request.                                                  *)

Go(r, task) == tasks' = [tasks EXCEPT ![r] = task]
Finish(r) == Go(r, None)

\* The other of a direct conversation, hidden or not; whoever sees a group; nobody for a
\* system message.
Recipients(task) ==
    IF task.system THEN {}
    ELSE (IF isGroup THEN Visible(task.read) ELSE task.read.participants) \ {task.user}

\* Variant with a bug: a message begins the counts anew.
CountsAnew(task, u) == IF u \in Recipients(task) THEN 1 ELSE 0

CountOf(task, u) ==
    IF u = task.user THEN 0
    ELSE IF u \in Recipients(task) THEN task.doc.unread[u] + 1 ELSE task.doc.unread[u]

\* createMessage: the message is stored, then the document is worked on.
CreateMessage(r) ==
    LET task == tasks[r]
        n == created + 1
        doc == [task.doc EXCEPT
                    !.lastMessage = n,
                    !.unread = [u \in Users |-> CountOf(task, u)],
                    !.hiddenBy = IF isGroup THEN @ ELSE {}]
    IN  /\ task # None /\ task.pc = "create"
        /\ created' = n
        /\ messages' = messages \union {[n |-> n, sender |-> task.user]}
        /\ Go(r, [task EXCEPT !.pc = "save", !.after = "done", !.n = n, !.doc = doc])
        /\ UNCHANGED <<isGroup, order, gone, conv, collab, job, started, history>>

Arrays(doc) == <<doc.participants, doc.hiddenBy, doc.admins>>

Replaces(task) == Arrays(task.doc) # Arrays(task.read)

\* Variant with a bug: the version is not looked at.
NeverOutdated(task) == FALSE

\* VersionError
Outdated(task) == Replaces(task) /\ conv.v # task.read.v

Saves(task) == conv # None /\ ~Outdated(task)

\* What was changed is written, the rest is left as it is.
Written(task) ==
    LET read == task.read
        doc == task.doc
    IN  [participants |-> IF doc.participants # read.participants THEN doc.participants ELSE conv.participants,
         hiddenBy |-> IF doc.hiddenBy # read.hiddenBy THEN doc.hiddenBy ELSE conv.hiddenBy,
         admins |-> IF doc.admins # read.admins THEN doc.admins ELSE conv.admins,
         lastMessage |-> IF doc.lastMessage # read.lastMessage THEN doc.lastMessage ELSE conv.lastMessage,
         unread |-> [u \in Users |-> IF doc.unread[u] # read.unread[u] THEN doc.unread[u] ELSE conv.unread[u]],
         v |-> IF Replaces(task) THEN conv.v + 1 ELSE conv.v]

\* The user has looked at what was there when the request began; others wait for them.
Attends(task) == task.op # "unsend" /\ (task.op \in {"mark", "hide"} \/ task.after = "done")

Looks(task) ==
    /\ pending' = [u \in Users |-> IF u = task.user /\ Attends(task) THEN pending[u] \ task.known
                                   ELSE IF task.op = "send" /\ u \in Recipients(task) THEN pending[u] \union {task.n}
                                   ELSE pending[u]]
    /\ overlooked' = IF Attends(task) /\ pending'[task.user] # {} THEN overlooked \union {task.user} ELSE overlooked

LeavesNobody(task) == task.op = "remove" /\ task.user = task.target /\ task.user \in conv.admins /\ Visible(conv) = {task.user}

\* After the save a request is done, says so in the group, looks for the room, or looks up
\* the other participant.
Save(r) ==
    LET task == tasks[r]
    IN  /\ task # None /\ task.pc = "save" /\ Saves(task)
        /\ conv' = Written(task)
        /\ LET doc == [task.doc EXCEPT !.v = IF Replaces(task) THEN @ + 1 ELSE @]
           IN  IF task.after = "done" THEN Finish(r)
               ELSE Go(r, [task EXCEPT !.pc = task.after, !.system = TRUE, !.read = doc, !.doc = doc])
        /\ Looks(task)
        /\ abandoned' = (abandoned \/ LeavesNobody(task))
        /\ ComesBack(r)
        /\ UNCHANGED <<isGroup, order, gone, messages, collab, job, started, created, crossed, late>>

\* The document is gone or another request has replaced an array: the request fails.
SaveFails(r) ==
    LET task == tasks[r]
    IN  /\ task # None /\ task.pc = "save" /\ ~Saves(task)
        /\ Finish(r)
        /\ UNCHANGED <<isGroup, order, gone, conv, messages, collab, job, started, created, history>>

\* Variant with a bug: the conversation goes on to name the message.
NeverLast(task) == FALSE

WasLastMessage(task) == task.read.lastMessage = task.n

DeleteMessage(r) ==
    LET task == tasks[r]
    IN  /\ task # None /\ task.pc = "delete"
        /\ messages' = {message \in messages : message.n # task.n}
        /\ IF WasLastMessage(task) THEN Go(r, [task EXCEPT !.pc = "latest"]) ELSE Finish(r)
        /\ UNCHANGED <<isGroup, order, gone, conv, collab, job, started, created, history>>

IsLatest(n) ==
    /\ n = 0 \/ \E message \in messages : message.n = n
    /\ \A message \in messages : message.n <= n

FindLatestMessage(r) ==
    LET task == tasks[r]
    IN  /\ task # None /\ task.pc = "latest"
        /\ \E n \in 0..created : IsLatest(n) /\ Go(r, [task EXCEPT !.pc = "save", !.doc.lastMessage = n])
        /\ UNCHANGED <<isGroup, order, gone, conv, messages, collab, job, started, created, history>>

\* The first participant who is not the user, in a group as well.
FirstOther(u) == IF order[1] # u THEN order[1] ELSE order[2]

\* Variant with a bug: the first to hide the conversation destroys it.
AnyoneHid(task) == TRUE

HiddenForEveryone(task) == FirstOther(task.user) \in gone \/ task.doc.participants \subseteq task.doc.hiddenBy

LookUpOther(r) ==
    LET task == tasks[r]
    IN  /\ task # None /\ task.pc = "other"
        /\ IF HiddenForEveryone(task) THEN Go(r, [task EXCEPT !.pc = "enqueue"]) ELSE Finish(r)
        /\ UNCHANGED <<isGroup, order, gone, conv, messages, collab, job, started, created, history>>

EnqueueConversationCleanup(r) ==
    /\ tasks[r] # None /\ tasks[r].pc = "enqueue"
    /\ job' = IF job = "none" THEN "queued" ELSE job
    /\ Finish(r)
    /\ UNCHANGED <<isGroup, order, gone, conv, messages, collab, started, created, history>>

----------------------------------------------------------------------------
(* The room of a group.                                                    *)

At(r, pc) == tasks[r] # None /\ tasks[r].pc = pc
GoTo(r, pc) == Go(r, [tasks[r] EXCEPT !.pc = pc])
Same == UNCHANGED <<isGroup, order, gone, conv, messages, job, started, created, history>>

\* Who has just accepted says so, unless their account was gone when it was looked up,
\* which happens while the room is found or made.
Enters(r) ==
    \/ tasks[r].op = "accept" /\ GoTo(r, "create")
    \/ (tasks[r].op = "accept" => tasks[r].user \in gone) /\ Finish(r)

FindGroupRoom(r) ==
    /\ At(r, "findRoom")
    /\ IF room THEN Enters(r) ELSE GoTo(r, "makeRoom")
    /\ Same /\ UNCHANGED collab

\* The index on the conversation of a room is unique.
RoomIsTaken == room

RoomsAreListed == job \notin {"none", "queued"}

\* CollabRoomModel.create
MakesRoom ==
    /\ room' = TRUE
    /\ late' = (late \/ (RoomsAreListed /\ ~RoomIsTaken))
    /\ UNCHANGED <<isGroup, order, gone, conv, messages, asked, accepted, job, started, created>>
    /\ UNCHANGED <<pending, overlooked, abandoned, crossed, reopened>>

MakeGroupRoom(r) ==
    /\ At(r, "makeRoom")
    /\ IF RoomIsTaken THEN Finish(r) ELSE Enters(r)
    /\ MakesRoom

----------------------------------------------------------------------------
(* Collaboration requests of a direct conversation; its room.              *)

StartCollab(r, task) ==
    /\ tasks[r] = None /\ started < MaxStarts
    /\ started' = started + 1
    /\ Go(r, task)
    /\ UNCHANGED <<isGroup, order, gone, conv, messages, collab, job, created, history>>

SendCollabRequest(r, u, other) ==
    /\ ~isGroup /\ IsIn(u) /\ other \in conv.participants \ {u}
    /\ asked = {}
    /\ StartCollab(r, [op |-> "ask", pc |-> "check", user |-> u, found |-> FALSE,
                       request |-> [from |-> u, to |-> other, n |-> started + 1]])

\* getConversationParticipantIds
CheckConversation(r) ==
    /\ At(r, "check")
    /\ IF Sees(tasks[r].user) THEN GoTo(r, "ask") ELSE Finish(r)
    /\ Same /\ UNCHANGED collab

CreateRequest(r) ==
    /\ At(r, "ask")
    /\ asked' = asked \union {tasks[r].request}
    /\ Finish(r)
    /\ Same /\ UNCHANGED <<room, accepted>>

AcceptCollabRequest(r, request) ==
    /\ request \in asked /\ request.to \notin gone
    /\ StartCollab(r, [op |-> "agree", pc |-> "find", user |-> request.to, found |-> FALSE, request |-> request])

FindRoom(r) ==
    /\ At(r, "find")
    /\ Go(r, [tasks[r] EXCEPT !.found = room, !.pc = IF room THEN "forget" ELSE "make"])
    /\ Same /\ UNCHANGED collab

CreateSharedRoom(r) ==
    /\ At(r, "make")
    /\ IF RoomIsTaken THEN Finish(r) ELSE GoTo(r, "forget")
    /\ MakesRoom

DeleteRequest(r) ==
    /\ At(r, "forget")
    /\ asked' = asked \ {tasks[r].request}
    /\ IF tasks[r].found THEN Finish(r) ELSE GoTo(r, "announce")
    /\ Same /\ UNCHANGED <<room, accepted>>

Announce(r) ==
    /\ At(r, "announce")
    /\ accepted' = accepted + 1
    /\ Finish(r)
    /\ Same /\ UNCHANGED <<asked, room>>

\* Requests live for 24 hours.
RequestExpires(request) ==
    /\ asked' = asked \ {request}
    /\ UNCHANGED <<tasks, room, accepted>> /\ Same

----------------------------------------------------------------------------
(* cleanupConversation: first the room, then the messages and the document *)
(* in either order.                                                        *)

JobStep(from, to) == job = from /\ job' = to /\ UNCHANGED <<isGroup, order, gone, tasks, asked, accepted, started, created, history>>

StartCleanup ==
    /\ JobStep("queued", IF room THEN "started" ELSE "roomless")
    /\ UNCHANGED <<conv, messages, room>>

\* Variant with a bug: rooms are kept.
KeepsRooms == room

RoomsLeft == FALSE

\* The rooms that were found at the start.
DeleteRooms ==
    /\ \/ JobStep("started", "cleared") /\ room' = RoomsLeft
       \/ JobStep("roomless", "cleared") /\ UNCHANGED room
    /\ UNCHANGED <<conv, messages>>

DeleteMessages ==
    /\ JobStep("cleared", "messagesGone") \/ JobStep("conversationGone", "done")
    /\ messages' = {} /\ UNCHANGED <<conv, room>>

DeleteConversation ==
    /\ JobStep("cleared", "conversationGone") \/ JobStep("messagesGone", "done")
    /\ conv' = None /\ UNCHANGED <<messages, room>>

----------------------------------------------------------------------------
\* deleteUserAccount: conversations keep who is in them.
DeleteAccount(u) ==
    /\ u \notin gone /\ Cardinality(gone) < MaxGone
    /\ gone' = gone \union {u}
    /\ UNCHANGED <<isGroup, order, conv, messages, tasks, collab, job, started, created, history>>

Begin(r, u) ==
    \/ SaveMessage(r, u) \/ SaveMessageTo(r, u)
    \/ AcceptGroupInvite(r, u) \/ EnterGroup(r, u)
    \/ \E member \in Users : InviteGroupMembers(r, u, member) \/ RemoveGroupMember(r, u, member)
    \/ MarkAsRead(r, u)
    \/ DeleteGroup(r, u) \/ DeleteConversationForUser(r, u)
    \/ \E other \in Users : SendCollabRequest(r, u, other)

Next ==
    \/ \E r \in Requests, u \in Users \ gone : Begin(r, u)
    \/ \E r \in Requests, message \in messages : UnsendMessage(r, message)
    \/ \E r \in Requests : CreateMessage(r) \/ Save(r) \/ SaveFails(r) \/ DeleteMessage(r)
                           \/ FindLatestMessage(r) \/ LookUpOther(r) \/ EnqueueConversationCleanup(r)
                           \/ FindGroupRoom(r) \/ MakeGroupRoom(r)
                           \/ CheckConversation(r) \/ CreateRequest(r) \/ FindRoom(r)
                           \/ CreateSharedRoom(r) \/ DeleteRequest(r) \/ Announce(r)
    \/ \E request \in asked : RequestExpires(request) \/ \E r \in Requests : AcceptCollabRequest(r, request)
    \/ StartCleanup \/ DeleteRooms \/ DeleteMessages \/ DeleteConversation
    \/ \E u \in Users : DeleteAccount(u)

Spec == Init /\ [][Next]_vars

----------------------------------------------------------------------------
(* Properties.                                                             *)

\* A group whose admin did not leave it empty has one admin, who is in it, whatever
\* requests of its members run at the same time (removeGroupMember, acceptGroupInvite).
GroupKeepsAdmin ==
    isGroup /\ conv # None /\ ~abandoned =>
        \E u \in Visible(conv) : conv.admins = {u}

\* Whoever is in a group stays in it until they hide it, leave it or are removed: no
\* request writes a list of members back that it loaded before somebody accepted.
MembersStay ==
    [][isGroup /\ conv # None /\ conv' # None =>
        \A u \in Visible(conv) \ Visible(conv') :
            \E r \in Requests : /\ tasks[r] # None /\ tasks[r].pc = "save" /\ tasks'[r] # tasks[r]
                                /\ tasks[r].op \in {"remove", "hide"} /\ tasks[r].target = u]_vars

\* A user with a message they have not looked at has it counted, unless it was being
\* counted while they looked (createMessage, markAsRead, deleteConversationForUser).
UnreadIsCounted ==
    conv # None => \A u \in Users : pending[u] # {} => conv.unread[u] > 0 \/ u \in overlooked

\* The conversation's last message is there, unless an unsend ran beside another request
\* (unsendMessage).
LastMessageIsThere ==
    conv # None /\ job \in {"none", "queued"} /\ ~crossed /\ (\A r \in Requests : tasks[r] = None) =>
        conv.lastMessage \in {0} \union {message.n : message \in messages}

\* HiddenForEveryone goes by the first other participant: in a group one account decides for all.
FirstIsGone == isGroup /\ \E i \in 1..2 : order[i] \in gone

\* A cleanup is only queued for a conversation that nobody who still has an account lists,
\* but the last admin who deletes it: unless somebody came back while the deletion was under
\* way, or it is a group and one of its first two participants has deleted their account.
\* Then whoever hides the group destroys it for all (deleteConversationForUser).
OnlyHiddenIsDestroyed ==
    job # "none" /\ conv # None => Visible(conv) \ gone \subseteq conv.admins \/ reopened \/ FirstIsGone

RoomsAreDeleted == job \in {"cleared", "messagesGone", "conversationGone", "done"}

\* A conversation's room is announced once, whoever asks whom how often at the same time, and
\* goes with its conversation, unless it was made after the cleanup had listed the rooms:
\* for a request accepted late, or for a member of the group who entered it meanwhile
\* (acceptCollabRequest, acceptGroupInvite, checkCollabRequestStatus, cleanupConversation).
RoomHasConversation == IF RoomsAreDeleted THEN room => late ELSE accepted <= 1
==============================================================================
