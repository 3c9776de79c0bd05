------------------------- MODULE Conversation_proofs -------------------------
(***************************************************************************)
(* For any number of users and requests at the same time: the conversation *)
(* keeps its types; a group keeps its admin and its members; only what     *)
(* everybody has hidden is destroyed; the room is announced once and goes  *)
(* with its conversation; what a user has not seen is counted, and the     *)
(* last message is there.                                                  *)
(***************************************************************************)
EXTENDS Conversation, FiniteSetTheorems, TLAPS

----------------------------------------------------------------------------
(* Types.                                                                  *)

ChatOK ==
    /\ isGroup \in BOOLEAN /\ conv \in Document \union {None}
    /\ messages \subseteq Message /\ created \in Nat
PeopleOK == order \in Users \X Users /\ gone \in SUBSET Users
TasksOK == tasks \in [Requests -> Task \union CollabTask \union {None}]
CollabOK == asked \subseteq CollabRequest /\ room \in BOOLEAN /\ accepted \in Nat
JobOK == job \in {"none", "queued", "started", "roomless", "cleared", "messagesGone", "conversationGone", "done"}
StartedOK == started \in 0..MaxStarts
HistoryOK ==
    /\ pending \in [Users -> SUBSET Nat] /\ overlooked \in SUBSET Users
    /\ abandoned \in BOOLEAN /\ crossed \in BOOLEAN /\ reopened \in BOOLEAN /\ late \in BOOLEAN

LEMMA TypeParts ==
  TypeOK <=> ChatOK /\ PeopleOK /\ TasksOK /\ CollabOK /\ JobOK /\ StartedOK /\ HistoryOK
  BY DEF TypeOK, ChatOK, PeopleOK, TasksOK, CollabOK, JobOK, StartedOK, HistoryOK

LEMMA TypePartsNext ==
  TypeOK' <=> ChatOK' /\ PeopleOK' /\ TasksOK' /\ CollabOK' /\ JobOK' /\ StartedOK' /\ HistoryOK'
  BY DEF TypeOK, ChatOK, PeopleOK, TasksOK, CollabOK, JobOK, StartedOK, HistoryOK

\* What a step leaves alone keeps its types.
LEMMA Frame ==
  ASSUME TypeOK
  PROVE  /\ UNCHANGED <<isGroup, conv, messages, created>> => ChatOK'
         /\ UNCHANGED <<order, gone>> => PeopleOK'
         /\ UNCHANGED tasks => TasksOK'
         /\ UNCHANGED collab => CollabOK'
         /\ UNCHANGED job => JobOK'
         /\ UNCHANGED started => StartedOK'
         /\ UNCHANGED history => HistoryOK'
  BY TypeParts DEF ChatOK, PeopleOK, TasksOK, CollabOK, JobOK, StartedOK, HistoryOK, collab, history

\* Tasks of chat requests and of collaboration requests are told apart by their step.
ChatPc == {"create", "save", "delete", "latest", "findRoom", "makeRoom", "other", "enqueue"}

LEMMA ChatTask ==
  ASSUME TypeOK, NEW r \in Requests, tasks[r] # None, tasks[r].pc \in ChatPc
  PROVE  tasks[r] \in Task
  BY TypeParts DEF TasksOK, CollabTask, ChatPc

LEMMA RoomTask ==
  ASSUME TypeOK, NEW r \in Requests, tasks[r] # None, tasks[r].pc \notin ChatPc
  PROVE  tasks[r] \in CollabTask
  BY TypeParts DEF TasksOK, Task, ChatPc

LEMMA TaskFields ==
  ASSUME NEW t \in Task
  PROVE  /\ t.user \in Users /\ t.target \in Users /\ t.n \in Nat /\ t.read \in Document /\ t.doc \in Document
         /\ t.known \in SUBSET Nat /\ t # None
  BY NoneAssumption DEF Task

LEMMA DocumentFields ==
  ASSUME NEW doc \in Document
  PROVE  /\ doc.participants \in SUBSET Users /\ doc.hiddenBy \in SUBSET Users /\ doc.admins \in SUBSET Users
         /\ doc.lastMessage \in Nat /\ doc.unread \in [Users -> Nat] /\ doc.v \in Nat /\ doc # None
  BY NoneAssumption DEF Document

LEMMA GoType ==
  ASSUME TypeOK, NEW r \in Requests, NEW t \in Task \union CollabTask \union {None}, Go(r, t)
  PROVE  TasksOK'
  BY TypeParts DEF TasksOK, Go

LEMMA InitType == Init => TypeOK
  <1> SUFFICES ASSUME Init PROVE TypeOK
    OBVIOUS
  <1>1. ChatOK
    BY DEF Init, ChatOK, Document
  <1>2. TasksOK /\ CollabOK /\ JobOK /\ HistoryOK
    BY DEF Init, TasksOK, CollabOK, JobOK, HistoryOK
  <1>3. StartedOK
    BY StartsAssumption DEF Init, StartedOK
  <1>4. PeopleOK
    <2>1. PICK creator \in Users, other \in Users : order = <<creator, other>> /\ gone = {}
      BY DEF Init
    <2> QED
      BY <2>1 DEF PeopleOK
  <1> QED
    BY <1>1, <1>2, <1>3, <1>4, TypeParts

----------------------------------------------------------------------------
(* A chat request that begins: its task, made of the document it loaded.   *)

Began(u, op, target, n, pc, after, read, doc) ==
    [op |-> op, pc |-> pc, after |-> after, user |-> u, target |-> target, n |-> n, system |-> FALSE,
     known |-> pending[u], read |-> read, doc |-> doc]

Ops == {"send", "accept", "enter", "invite", "remove", "mark", "unsend", "hide"}
Afters == {"done", "create", "findRoom", "other"}

LEMMA BeganType ==
  ASSUME TypeOK, NEW u \in Users, NEW op \in Ops, NEW target \in Users, NEW n \in Nat, NEW pc \in ChatPc,
         NEW after \in Afters, NEW read \in Document, NEW doc \in Document
  PROVE  Began(u, op, target, n, pc, after, read, doc) \in Task
  BY TypeParts DEF HistoryOK, Began, Task, Ops, ChatPc, Afters

LEMMA StartType ==
  ASSUME TypeOK, NEW r \in Requests, NEW u \in Users, NEW op \in Ops, NEW target \in Users, NEW n \in Nat, NEW pc \in ChatPc,
         NEW after \in Afters, NEW doc \in Document,
         conv' \in Document, reopened' \in BOOLEAN, Start(r, u, op, target, n, pc, after, doc)
  PROVE  TypeOK'
  <1>1. Began(u, op, target, n, pc, after, conv', doc) \in Task
    BY BeganType
  <1>2. TasksOK'
    BY <1>1, TypeParts DEF TasksOK, Start, Began
  <1>3. StartedOK'
    BY TypeParts, StartsAssumption DEF StartedOK, Start
  <1>4. HistoryOK'
    <2>1. crossed' \in BOOLEAN
      BY TypeParts DEF HistoryOK, Start
    <2> QED
      BY <2>1, TypeParts DEF HistoryOK, Start
  <1>5. ChatOK' /\ PeopleOK' /\ CollabOK' /\ JobOK'
    BY TypeParts, Frame DEF ChatOK, Start
  <1> QED
    BY <1>2, <1>3, <1>4, <1>5, TypePartsNext

\* What a request works on.
LEMMA Copies ==
  ASSUME NEW doc \in Document, NEW u \in Users, NEW S \in SUBSET Users, NEW T \in SUBSET Users, NEW n \in Nat
  PROVE  /\ [doc EXCEPT !.hiddenBy = S] \in Document
         /\ [doc EXCEPT !.participants = S, !.hiddenBy = T] \in Document
         /\ [doc EXCEPT !.hiddenBy = S, !.admins = T] \in Document
         /\ [doc EXCEPT !.unread[u] = 0] \in Document
         /\ [doc EXCEPT !.hiddenBy = S, !.unread[u] = 0] \in Document
         /\ [doc EXCEPT !.lastMessage = n] \in Document
  BY DEF Document

----------------------------------------------------------------------------
(* What a request's copy may differ in from the document it loaded.        *)

HasAdmin(doc) == \E u \in Visible(doc) : doc.admins = {u}

\* The admin leaves a group in which nobody else is.
LeavesLast(t) == t.op = "remove" /\ t.user = t.target /\ t.target \in t.read.admins /\ Visible(t.read) = {t.target}

\* Only who is removed or hides the group goes, its admin stays or is followed by another.
GoodCopy(t) ==
    /\ Visible(t.read) \subseteq Visible(t.doc) \/ (t.op \in {"remove", "hide"} /\ Visible(t.read) \ Visible(t.doc) = {t.target})
    /\ HasAdmin(t.read) => HasAdmin(t.doc) \/ LeavesLast(t)
    /\ Visible(t.doc) \intersect t.read.admins \subseteq t.doc.admins

\* A request that will look up the other participant has hidden the conversation from its user.
Hiding(t) ==
    /\ t.pc = "enqueue" => t.op = "hide"
    /\ t.pc \in {"delete", "latest"} => t.after = "done"
    /\ t.pc = "other" \/ (t.pc = "save" /\ t.after = "other") =>
        t.op = "hide" /\ t.user \in t.doc.participants /\ t.user \in t.doc.hiddenBy
    /\ t.pc = "save" /\ t.after = "other" => t.doc.hiddenBy # t.read.hiddenBy

Shape(t) ==
    /\ t.doc.v = t.read.v
    /\ isGroup => GoodCopy(t) /\ (t.pc # "save" => Arrays(t.doc) = Arrays(t.read))
    /\ ~isGroup => t.doc.admins = t.read.admins /\ t.doc.participants = t.read.participants
    /\ Hiding(t)

Opens(r, t) ==
    /\ t \in Task /\ t.pc \in ChatPc
    /\ tasks[r] = None /\ tasks' = [tasks EXCEPT ![r] = t]
    /\ conv # None /\ t.read = conv' /\ Shape(t)
    /\ t.pc # "other" /\ (t.pc = "enqueue" => Visible(t.read) \subseteq t.read.admins)
    /\ UNCHANGED <<isGroup, order, gone, collab, job, abandoned, late>>
    /\ \/ UNCHANGED <<conv, reopened>>
       \/ ~isGroup /\ conv' = [conv EXCEPT !.hiddenBy = {}] /\ ComesBack(r)

LEMMA SameArrays ==
  ASSUME NEW t, Arrays(t.doc) = Arrays(t.read)
  PROVE  GoodCopy(t) /\ Visible(t.doc) = Visible(t.read) /\ t.doc.admins = t.read.admins /\ t.doc.participants = t.read.participants
  BY DEF Arrays, GoodCopy, HasAdmin, Visible

LEMMA LoadOpens ==
  ASSUME TypeOK, NEW r \in Requests, NEW u \in Users, NEW op \in Ops, NEW target \in Users, NEW n \in Nat, NEW pc \in ChatPc,
         NEW after \in Afters, NEW doc \in Document, conv # None,
         Load(r, u, op, target, n, pc, after, doc), Shape(Began(u, op, target, n, pc, after, conv, doc)),
         pc # "other", pc = "enqueue" => Visible(conv) \subseteq conv.admins
  PROVE  TypeOK' /\ \E t : Opens(r, t)
  <1> DEFINE t == Began(u, op, target, n, pc, after, conv, doc)
  <1>1. conv \in Document /\ conv' = conv /\ reopened' = reopened /\ reopened \in BOOLEAN
    BY TypeParts DEF ChatOK, HistoryOK, Load
  <1>2. TypeOK'
    BY <1>1, StartType DEF Load
  <1>3. t \in Task /\ t.pc = pc /\ t.read = conv
    BY <1>1, BeganType DEF Began
  <1>4. /\ tasks[r] = None /\ tasks' = [tasks EXCEPT ![r] = t]
        /\ UNCHANGED <<isGroup, order, gone, collab, job, abandoned, late>>
    BY <1>1 DEF Load, Start, Began
  <1>5. Opens(r, t)
    BY <1>1, <1>3, <1>4 DEF Opens
  <1> QED
    BY <1>2, <1>5

\* Whoever is the only one of a set is all of it.
LEMMA OnlyOne ==
  ASSUME NEW S \in SUBSET Users, NEW u \in S, Cardinality(S) <= 1
  PROVE  S = {u}
  <1> SUFFICES ASSUME NEW x \in S, x # u PROVE FALSE
    OBVIOUS
  <1>1. IsFiniteSet(S)
    BY UsersAssumption, FS_Subset
  <1>2. Cardinality({u}) = 1 /\ IsFiniteSet({u})
    BY FS_Singleton
  <1>3. Cardinality({u} \union {x}) = 2 /\ IsFiniteSet({u} \union {x})
    BY <1>2, FS_AddElement
  <1>4. Cardinality({u} \union {x}) <= Cardinality(S)
    BY <1>1, FS_Subset
  <1>5. Cardinality(S) \in Nat
    BY <1>1, FS_CardinalityType
  <1> QED
    BY <1>3, <1>4, <1>5

\* A request that changes nothing of who is in the conversation, when it loads it.
LEMMA LoadSame ==
  ASSUME TypeOK, NEW r \in Requests, NEW u \in Users, NEW op \in Ops, NEW target \in Users, NEW n \in Nat,
         NEW pc \in ChatPc, pc \notin {"enqueue", "other"}, NEW doc \in Document, conv # None, Arrays(doc) = Arrays(conv), doc.v = conv.v,
         Load(r, u, op, target, n, pc, "done", doc)
  PROVE  TypeOK' /\ \E t : Opens(r, t)
  <1> DEFINE t == Began(u, op, target, n, pc, "done", conv, doc)
  <1>1. t.read = conv /\ t.doc = doc /\ t.pc = pc /\ t.after = "done"
    BY DEF Began
  <1>2. Shape(t)
    BY <1>1, SameArrays DEF Shape, Hiding
  <1>3. "done" \in Afters
    BY DEF Afters
  <1> QED
    BY <1>2, <1>3, LoadOpens

LEMMA EnterOpens ==
  ASSUME TypeOK, NEW r \in Requests, NEW u \in Users, EnterGroup(r, u)
  PROVE  TypeOK' /\ \E t : Opens(r, t)
  <1>1. conv \in Document /\ conv # None /\ 0 \in Nat
    BY TypeParts DEF ChatOK, EnterGroup, Sees
  <1> QED
    BY <1>1, LoadSame DEF EnterGroup, Ops, ChatPc, Afters

LEMMA SaveMessageOpens ==
  ASSUME TypeOK, NEW r \in Requests, NEW u \in Users, SaveMessage(r, u) \/ SaveMessageTo(r, u)
  PROVE  TypeOK' /\ \E t : Opens(r, t)
  <1>0. conv \in Document /\ conv # None /\ 0 \in Nat
    BY TypeParts DEF ChatOK, SaveMessage, SaveMessageTo, IsIn
  <1>1. CASE SaveMessage(r, u)
    BY <1>0, <1>1, LoadSame DEF SaveMessage, Ops, ChatPc, Afters
  <1>2. CASE SaveMessageTo(r, u)
    <2> DEFINE t == Began(u, "send", u, 0, "create", "done", conv', conv')
    <2>1. conv' \in Document /\ ~isGroup /\ conv' = [conv EXCEPT !.hiddenBy = {}]
      BY <1>0, <1>2, Copies DEF SaveMessageTo
    <2>2. reopened' \in BOOLEAN
      BY <1>2, TypeParts DEF SaveMessageTo, ComesBack, HistoryOK
    <2>3. Start(r, u, "send", u, 0, "create", "done", conv') /\ ComesBack(r)
      BY <1>2 DEF SaveMessageTo
    <2>4. TypeOK'
      BY <1>0, <2>1, <2>2, <2>3, StartType DEF Ops, ChatPc, Afters
    <2>5. t \in Task
      BY <1>0, <2>1, BeganType DEF Ops, ChatPc, Afters
    <2>6. t.read = conv' /\ t.doc = conv' /\ t.pc = "create" /\ t.after = "done"
      BY DEF Began
    <2>7. tasks[r] = None /\ tasks' = [tasks EXCEPT ![r] = t] /\ UNCHANGED <<isGroup, order, gone, collab, job, abandoned, late>>
      BY <2>3 DEF Start, Began
    <2>8. Shape(t)
      BY <2>1, <2>6 DEF Shape, Hiding
    <2>9. Opens(r, t)
      BY <1>0, <2>1, <2>3, <2>5, <2>7, <2>8, <2>6 DEF Opens, ChatPc
    <2> QED
      BY <2>4, <2>9
  <1> QED
    BY <1>1, <1>2

LEMMA AcceptOpens ==
  ASSUME TypeOK, NEW r \in Requests, NEW u \in Users, AcceptGroupInvite(r, u)
  PROVE  TypeOK' /\ \E t : Opens(r, t)
  <1> DEFINE doc == [conv EXCEPT !.hiddenBy = @ \ {u}]
             t == Began(u, "accept", u, 0, "save", "findRoom", conv, doc)
  <1>1. conv \in Document /\ conv # None /\ isGroup
    BY TypeParts DEF ChatOK, AcceptGroupInvite, IsIn
  <1>2. doc \in Document
    BY <1>1, DocumentFields, Copies
  <1>3. /\ doc.participants = conv.participants /\ doc.admins = conv.admins /\ doc.v = conv.v
        /\ doc.hiddenBy = conv.hiddenBy \ {u}
    BY <1>1 DEF Document
  <1>4. t.read = conv /\ t.doc = doc /\ t.pc = "save" /\ t.after = "findRoom" /\ t.op = "accept" /\ t.target = u
    BY DEF Began
  <1>6. GoodCopy(t)
    BY <1>1, <1>3, <1>4 DEF GoodCopy, HasAdmin, Visible
  <1>7. Shape(t)
    BY <1>1, <1>3, <1>4, <1>6 DEF Shape, Hiding
  <1> QED
    BY <1>1, <1>2, <1>7, LoadOpens DEF AcceptGroupInvite, Ops, ChatPc, Afters

LEMMA InviteOpens ==
  ASSUME TypeOK, NEW r \in Requests, NEW u \in Users, NEW member \in Users, InviteGroupMembers(r, u, member)
  PROVE  TypeOK' /\ \E t : Opens(r, t)
  <1> DEFINE doc == [conv EXCEPT !.participants = @ \union {member}, !.hiddenBy = @ \union {member}]
             t == Began(u, "invite", member, 0, "save", "create", conv, doc)
  <1>1. conv \in Document /\ conv # None /\ isGroup /\ member \notin conv.participants
    BY TypeParts DEF ChatOK, InviteGroupMembers, Sees
  <1>2. doc \in Document
    BY <1>1, DocumentFields, Copies
  <1>3. /\ doc.participants = conv.participants \union {member} /\ doc.admins = conv.admins /\ doc.v = conv.v
        /\ doc.hiddenBy = conv.hiddenBy \union {member}
    BY <1>1 DEF Document
  <1>4. t.read = conv /\ t.doc = doc /\ t.pc = "save" /\ t.after = "create" /\ t.op = "invite" /\ t.target = member
    BY DEF Began
  <1>5. Visible(doc) = Visible(conv)
    BY <1>1, <1>3 DEF Visible
  <1>6. GoodCopy(t)
    BY <1>3, <1>4, <1>5 DEF GoodCopy, HasAdmin
  <1>7. Shape(t)
    BY <1>1, <1>3, <1>4, <1>6 DEF Shape, Hiding
  <1> QED
    BY <1>1, <1>2, <1>7, LoadOpens DEF InviteGroupMembers, Ops, ChatPc, Afters

LEMMA RemoveOpens ==
  ASSUME TypeOK, NEW r \in Requests, NEW u \in Users, NEW member \in Users, RemoveGroupMember(r, u, member)
  PROVE  TypeOK' /\ \E t : Opens(r, t)
  <1>1. conv \in Document /\ conv # None /\ isGroup /\ u \in Visible(conv) /\ MayRemove(u, member)
    BY TypeParts DEF ChatOK, RemoveGroupMember, Sees
  <1>2. PICK admins \in NextAdmins(member) :
          Load(r, u, "remove", member, 0, "save", "create", [conv EXCEPT !.hiddenBy = @ \union {member}, !.admins = admins])
    BY DEF RemoveGroupMember
  <1> DEFINE doc == [conv EXCEPT !.hiddenBy = @ \union {member}, !.admins = admins]
             t == Began(u, "remove", member, 0, "save", "create", conv, doc)
  <1>3. admins \in SUBSET Users /\ Visible(conv) \in SUBSET Users
    BY <1>1, DocumentFields DEF NextAdmins, Visible
  <1>4. doc \in Document
    BY <1>1, <1>3, DocumentFields, Copies
  <1>5. /\ doc.participants = conv.participants /\ doc.admins = admins /\ doc.v = conv.v
        /\ doc.hiddenBy = conv.hiddenBy \union {member}
    BY <1>1 DEF Document
  <1>6. t.read = conv /\ t.doc = doc /\ t.pc = "save" /\ t.after = "create" /\ t.op = "remove" /\ t.target = member /\ t.user = u
    BY DEF Began
  <1>7. Visible(doc) = Visible(conv) \ {member}
    BY <1>5 DEF Visible
  <1>8. HasAdmin(conv) => HasAdmin(doc) \/ LeavesLast(t)
    <2> SUFFICES ASSUME NEW a \in Visible(conv), conv.admins = {a} PROVE HasAdmin(doc) \/ LeavesLast(t)
      BY DEF HasAdmin
    <2>1. CASE a # member
      <3>1. admins = {a}
        BY <2>1 DEF NextAdmins
      <3> QED
        BY <1>5, <1>7, <2>1, <3>1 DEF HasAdmin
    <2>2. CASE a = member
      <3>1. CASE u = member
        <4>1. Cardinality(Visible(conv)) <= 1
          BY <1>1, <2>2, <3>1 DEF MayRemove
        <4>2. Visible(conv) = {u}
          BY <1>1, <1>3, <4>1, OnlyOne
        <4> QED
          BY <1>6, <2>2, <3>1, <4>2 DEF LeavesLast
      <3>2. CASE u # member
        BY <1>1, <2>2, <3>2 DEF MayRemove
      <3> QED
        BY <3>1, <3>2
    <2> QED
      BY <2>1, <2>2
  <1>9. Visible(doc) \intersect conv.admins \subseteq admins
    BY <1>7 DEF NextAdmins
  <1> HIDE DEF doc, t
  <1>10. GoodCopy(t)
    <2>1. Visible(conv) \subseteq Visible(doc) \/ Visible(conv) \ Visible(doc) = {member}
      BY <1>7
    <2> QED
      BY <1>5, <1>6, <1>8, <1>9, <2>1 DEF GoodCopy
  <1>11. Shape(t)
    BY <1>1, <1>5, <1>6, <1>10 DEF Shape, Hiding
  <1> QED
    BY <1>1, <1>2, <1>4, <1>11, LoadOpens DEF Ops, ChatPc, Afters, doc, t

LEMMA ReadOpens ==
  ASSUME TypeOK, NEW r \in Requests, NEW u \in Users,
         MarkAsRead(r, u) \/ DeleteGroup(r, u) \/ \E message \in messages : UnsendMessage(r, message)
  PROVE  TypeOK' /\ \E t : Opens(r, t)
  <1>0. conv \in Document /\ conv # None
    BY TypeParts DEF ChatOK, MarkAsRead, DeleteGroup, UnsendMessage, Sees
  <1>1. CASE MarkAsRead(r, u)
    <2> DEFINE doc == [conv EXCEPT !.unread[u] = 0]
    <2>1. doc \in Document
      BY <1>0, Copies
    <2>2. Arrays(doc) = Arrays(conv) /\ doc.v = conv.v
      BY <1>0 DEF Arrays, Document
    <2> QED
      BY <1>0, <1>1, <2>1, <2>2, LoadSame DEF MarkAsRead, Ops, ChatPc, Afters
  <1>2. CASE DeleteGroup(r, u)
    <2> DEFINE t == Began(u, "hide", u, 0, "enqueue", "done", conv, conv)
    <2>1. t.read = conv /\ t.doc = conv /\ t.pc = "enqueue" /\ t.op = "hide"
      BY DEF Began
    <2>2. Shape(t)
      BY <2>1, SameArrays DEF Shape, Hiding
    <2> QED
      BY <1>0, <1>2, <2>2, LoadOpens DEF DeleteGroup, Ops, ChatPc, Afters
  <1>3. ASSUME NEW message \in messages, UnsendMessage(r, message) PROVE TypeOK' /\ \E t : Opens(r, t)
    <2>1. message.sender \in Users /\ message.n \in Nat
      BY TypeParts DEF ChatOK, Message
    <2> QED
      BY <1>0, <1>3, <2>1, LoadSame DEF UnsendMessage, Ops, ChatPc, Afters
  <1> QED
    BY <1>1, <1>2, <1>3

LEMMA HideOpens ==
  ASSUME TypeOK, NEW r \in Requests, NEW u \in Users, DeleteConversationForUser(r, u)
  PROVE  TypeOK' /\ \E t : Opens(r, t)
  <1> DEFINE doc == [conv EXCEPT !.hiddenBy = @ \union {u}, !.unread[u] = 0]
             t == Began(u, "hide", u, 0, "save", "other", conv, doc)
  <1>1. conv \in Document /\ conv # None /\ u \in Visible(conv) /\ ~(isGroup /\ u \in conv.admins)
    BY TypeParts DEF ChatOK, DeleteConversationForUser, Sees
  <1>2. doc \in Document
    BY <1>1, DocumentFields, Copies
  <1>3. /\ doc.participants = conv.participants /\ doc.admins = conv.admins /\ doc.v = conv.v
        /\ doc.hiddenBy = conv.hiddenBy \union {u}
    BY <1>1 DEF Document
  <1>4. t.read = conv /\ t.doc = doc /\ t.pc = "save" /\ t.op = "hide" /\ t.user = u /\ t.target = u /\ t.after = "other"
    BY DEF Began
  <1>5. Visible(doc) = Visible(conv) \ {u}
    BY <1>3 DEF Visible
  <1>6. u \in doc.participants /\ u \in doc.hiddenBy
    BY <1>1, <1>3 DEF Visible
  <1> HIDE DEF doc, t
  <1>8. isGroup => GoodCopy(t)
    <2>1. Visible(t.read) \ Visible(t.doc) = {u}
      BY <1>1, <1>4, <1>5
    <2>2. isGroup /\ HasAdmin(conv) => HasAdmin(doc)
      BY <1>1, <1>3, <1>5 DEF HasAdmin
    <2> QED
      BY <1>3, <1>4, <2>1, <2>2 DEF GoodCopy
  <1>9. u \notin conv.hiddenBy
    BY <1>1 DEF Visible
  <1>10. Hiding(t)
    BY <1>3, <1>4, <1>6, <1>9 DEF Hiding
  <1>11. Shape(t)
    BY <1>3, <1>4, <1>8, <1>10 DEF Shape
  <1> QED
    BY <1>1, <1>2, <1>11, LoadOpens DEF DeleteConversationForUser, Ops, ChatPc, Afters, doc, t

----------------------------------------------------------------------------
(* Types, for the rest of a chat request.                                  *)

\* The document a message is worked into.
Noted(t, n) == [t.doc EXCEPT !.lastMessage = n, !.unread = [u \in Users |-> CountOf(t, u)],
                             !.hiddenBy = IF isGroup THEN @ ELSE {}]

LEMMA NotedType ==
  ASSUME NEW t \in Task, NEW n \in Nat
  PROVE  /\ Noted(t, n) \in Document
         /\ Noted(t, n).participants = t.doc.participants /\ Noted(t, n).admins = t.doc.admins /\ Noted(t, n).v = t.doc.v
         /\ Noted(t, n).hiddenBy = IF isGroup THEN t.doc.hiddenBy ELSE {}
  <1>1. t.doc \in Document
    BY TaskFields
  <1>2. \A u \in Users : t.doc.unread[u] \in Nat
    BY <1>1 DEF Document
  <1>3. [u \in Users |-> CountOf(t, u)] \in [Users -> Nat]
    BY <1>2 DEF CountOf
  <1> QED
    BY <1>1, <1>3 DEF Noted, Document

LEMMA CreateTask ==
  ASSUME NEW t \in Task, NEW n \in Nat
  PROVE  [t EXCEPT !.pc = "save", !.after = "done", !.n = n, !.doc = Noted(t, n)] \in Task
  BY NotedType DEF Task

LEMMA CreateType ==
  ASSUME TypeOK, NEW r \in Requests, CreateMessage(r)
  PROVE  TypeOK'
  <1> DEFINE t == tasks[r]
             n == created + 1
  <1>1. t \in Task /\ n \in Nat /\ t.user \in Users
    BY ChatTask, TaskFields, TypeParts DEF CreateMessage, ChatPc, ChatOK
  <1>2. TasksOK'
    BY <1>1, CreateTask, GoType DEF CreateMessage, Noted
  <1>3. ChatOK'
    BY <1>1, TypeParts DEF CreateMessage, ChatOK, Message
  <1> QED
    BY <1>2, <1>3, Frame, TypePartsNext DEF CreateMessage, collab, history

LEMMA WrittenType ==
  ASSUME NEW t \in Task, conv \in Document
  PROVE  Written(t) \in Document
  <1>1. t.doc \in Document
    BY TaskFields
  <1>2. \A u \in Users : t.doc.unread[u] \in Nat /\ conv.unread[u] \in Nat
    BY <1>1 DEF Document
  <1> DEFINE unread == [u \in Users |-> IF t.doc.unread[u] # t.read.unread[u] THEN t.doc.unread[u] ELSE conv.unread[u]]
  <1>3. unread \in [Users -> Nat]
    BY <1>2
  <1> HIDE DEF unread
  <1> QED
    BY <1>1, <1>3 DEF Written, Document, unread

\* The copy a request goes on with after its save.
Saved(t) == [t.doc EXCEPT !.v = IF Replaces(t) THEN @ + 1 ELSE @]

After(t) == [t EXCEPT !.pc = t.after, !.system = TRUE, !.read = Saved(t), !.doc = Saved(t)]

LEMMA AfterType ==
  ASSUME NEW t \in Task, t.after # "done"
  PROVE  /\ Saved(t) \in Document
         /\ Saved(t).participants = t.doc.participants /\ Saved(t).hiddenBy = t.doc.hiddenBy
         /\ Saved(t).admins = t.doc.admins /\ Saved(t).v = IF Replaces(t) THEN t.doc.v + 1 ELSE t.doc.v
         /\ After(t) \in Task /\ After(t).pc = t.after /\ After(t).read = Saved(t) /\ After(t).doc = Saved(t)
         /\ After(t).op = t.op /\ After(t).user = t.user /\ After(t).pc \in {"create", "findRoom", "other"}
  <1>1. t.doc \in Document
    BY TaskFields
  <1>2. /\ Saved(t) \in Document
        /\ Saved(t).participants = t.doc.participants /\ Saved(t).hiddenBy = t.doc.hiddenBy
        /\ Saved(t).admins = t.doc.admins /\ Saved(t).v = IF Replaces(t) THEN t.doc.v + 1 ELSE t.doc.v
    BY <1>1 DEF Saved, Document
  <1>3. t.after \in {"create", "findRoom", "other"}
    BY DEF Task
  <1> QED
    BY <1>2, <1>3 DEF After, Task

LEMMA LooksType ==
  ASSUME TypeOK, NEW t \in Task, Looks(t)
  PROVE  pending' \in [Users -> SUBSET Nat] /\ overlooked' \in SUBSET Users
  <1>1. t.user \in Users /\ t.n \in Nat
    BY TaskFields
  <1>2. pending \in [Users -> SUBSET Nat] /\ overlooked \in SUBSET Users
    BY TypeParts DEF HistoryOK
  <1> QED
    BY <1>1, <1>2 DEF Looks

LEMMA SaveType ==
  ASSUME TypeOK, NEW r \in Requests, Save(r)
  PROVE  /\ TypeOK' /\ tasks[r] \in Task /\ conv \in Document /\ conv' = Written(tasks[r])
         /\ IF tasks[r].after = "done" THEN Finish(r) ELSE Go(r, After(tasks[r]))
  <1> DEFINE t == tasks[r]
  <1>1. t \in Task /\ conv \in Document
    BY ChatTask, TypeParts DEF Save, Saves, ChatPc, ChatOK
  <1>2. conv' = Written(t) /\ conv' \in Document
    BY <1>1, WrittenType DEF Save
  <1>3. IF t.after = "done" THEN Finish(r) ELSE Go(r, After(t))
    BY DEF Save, After, Saved
  <1>4. TasksOK'
    BY <1>1, <1>3, AfterType, GoType DEF Finish
  <1>5. HistoryOK'
    <2>1. pending' \in [Users -> SUBSET Nat] /\ overlooked' \in SUBSET Users
      BY <1>1, LooksType DEF Save
    <2>2. abandoned' \in BOOLEAN /\ crossed' \in BOOLEAN /\ reopened' \in BOOLEAN /\ late' \in BOOLEAN
      BY TypeParts DEF HistoryOK, Save, ComesBack
    <2> QED
      BY <2>1, <2>2 DEF HistoryOK
  <1>6. ChatOK'
    BY <1>2, TypeParts DEF Save, ChatOK
  <1> QED
    BY <1>1, <1>2, <1>3, <1>4, <1>5, <1>6, Frame, TypePartsNext DEF Save

LEMMA UnsendType ==
  ASSUME TypeOK, NEW r \in Requests,
         SaveFails(r) \/ DeleteMessage(r) \/ FindLatestMessage(r) \/ EnqueueConversationCleanup(r)
  PROVE  TypeOK'
  <1>1. tasks[r] # None /\ tasks[r].pc \in ChatPc
    BY DEF SaveFails, DeleteMessage, FindLatestMessage, EnqueueConversationCleanup, ChatPc
  <1>2. tasks[r] \in Task
    BY <1>1, ChatTask
  <1>3. Finish(r) => TasksOK'
    BY GoType DEF Finish
  <1>4. CASE SaveFails(r)
    BY <1>3, <1>4, Frame, TypePartsNext DEF SaveFails
  <1>5. CASE DeleteMessage(r)
    <2>1. [tasks[r] EXCEPT !.pc = "latest"] \in Task
      BY <1>2 DEF Task
    <2>2. TasksOK'
      BY <1>3, <1>5, <2>1, GoType DEF DeleteMessage
    <2>3. ChatOK'
      BY <1>5, TypeParts DEF DeleteMessage, ChatOK
    <2> QED
      BY <1>5, <2>2, <2>3, Frame, TypePartsNext DEF DeleteMessage
  <1>6. CASE FindLatestMessage(r)
    <2>1. PICK n \in 0..created : Go(r, [tasks[r] EXCEPT !.pc = "save", !.doc.lastMessage = n])
      BY <1>6 DEF FindLatestMessage
    <2>2. n \in Nat
      BY TypeParts DEF ChatOK
    <2>3. [tasks[r] EXCEPT !.pc = "save", !.doc.lastMessage = n] \in Task
      BY <1>2, <2>2 DEF Task, Document
    <2>4. TasksOK'
      BY <2>1, <2>3, GoType
    <2> QED
      BY <1>6, <2>4, Frame, TypePartsNext DEF FindLatestMessage
  <1>7. CASE EnqueueConversationCleanup(r)
    <2>1. JobOK'
      BY <1>7, TypeParts DEF EnqueueConversationCleanup, JobOK
    <2> QED
      BY <1>3, <1>7, <2>1, Frame, TypePartsNext DEF EnqueueConversationCleanup
  <1> QED
    BY <1>4, <1>5, <1>6, <1>7

\* A request that looks for the room or for the other participant.
Goes(r) == LookUpOther(r) \/ FindGroupRoom(r) \/ MakeGroupRoom(r)

\* The same request at another step.
SameTask(s, t) ==
    /\ s.op = t.op /\ s.after = t.after /\ s.user = t.user /\ s.target = t.target /\ s.system = t.system
    /\ s.read = t.read /\ s.doc = t.doc

LEMMA GoesFacts ==
  ASSUME TypeOK, NEW r \in Requests, Goes(r)
  PROVE  /\ tasks[r] \in Task /\ tasks[r] # None /\ tasks[r].pc \in {"other", "findRoom", "makeRoom"}
         /\ UNCHANGED <<isGroup, order, gone, conv, messages, asked, accepted, job, started, created>>
         /\ UNCHANGED <<pending, overlooked, abandoned, crossed, reopened>>
         /\ \E t \in Task \union {None} :
              /\ tasks' = [tasks EXCEPT ![r] = t]
              /\ t # None => /\ SameTask(t, tasks[r]) /\ t.pc \in {"makeRoom", "create", "enqueue"}
                             /\ t.pc = "enqueue" => tasks[r].pc = "other" /\ HiddenForEveryone(tasks[r])
  <1> DEFINE t == tasks[r]
  <1>1. t # None /\ t.pc \in {"other", "findRoom", "makeRoom"}
    BY DEF Goes, LookUpOther, FindGroupRoom, MakeGroupRoom, At
  <1>2. t \in Task
    BY <1>1, ChatTask DEF ChatPc
  <1>3. /\ UNCHANGED <<isGroup, order, gone, conv, messages, asked, accepted, job, started, created>>
        /\ UNCHANGED <<pending, overlooked, abandoned, crossed, reopened>>
    BY DEF Goes, LookUpOther, FindGroupRoom, MakeGroupRoom, MakesRoom, Same, collab, history
  <1>4. ASSUME NEW pc \in {"makeRoom", "create", "enqueue"}
        PROVE  LET s == [t EXCEPT !.pc = pc] IN s \in Task /\ s.pc = pc /\ SameTask(s, t)
    BY <1>2, <1>4 DEF Task, SameTask
  <1> DEFINE Result == \E s \in Task \union {None} :
              /\ tasks' = [tasks EXCEPT ![r] = s]
              /\ s # None => /\ SameTask(s, t) /\ s.pc \in {"makeRoom", "create", "enqueue"}
                             /\ s.pc = "enqueue" => t.pc = "other" /\ HiddenForEveryone(t)
  <1>5. ASSUME Finish(r) PROVE Result
    BY <1>5 DEF Finish, Go
  <1>6. ASSUME NEW pc \in {"makeRoom", "create", "enqueue"}, Go(r, [t EXCEPT !.pc = pc]),
               pc = "enqueue" => t.pc = "other" /\ HiddenForEveryone(t)
        PROVE  Result
    <2> DEFINE s == [t EXCEPT !.pc = pc]
    <2>1. s \in Task /\ s.pc = pc /\ SameTask(s, t) /\ tasks' = [tasks EXCEPT ![r] = s]
      BY <1>4, <1>6 DEF Go
    <2> HIDE DEF s, t
    <2> QED
      BY <1>6, <2>1
  <1>7. CASE LookUpOther(r)
    <2>1. t.pc = "other" /\ IF HiddenForEveryone(t) THEN Go(r, [t EXCEPT !.pc = "enqueue"]) ELSE Finish(r)
      BY <1>7 DEF LookUpOther
    <2>2. Result
      BY <1>5, <1>6, <2>1
    <2> QED
      BY <1>1, <1>2, <1>3, <2>2
  <1>8. CASE FindGroupRoom(r) \/ MakeGroupRoom(r)
    <2>1. Finish(r) \/ Go(r, [t EXCEPT !.pc = "makeRoom"]) \/ Go(r, [t EXCEPT !.pc = "create"])
      BY <1>8 DEF FindGroupRoom, MakeGroupRoom, Enters, GoTo
    <2>2. Result
      BY <1>5, <1>6, <2>1
    <2> QED
      BY <1>1, <1>2, <1>3, <2>2
  <1> QED
    BY <1>7, <1>8 DEF Goes

LEMMA GoesType ==
  ASSUME TypeOK, NEW r \in Requests, Goes(r)
  PROVE  TypeOK'
  <1>1. PICK t \in Task \union {None} : tasks' = [tasks EXCEPT ![r] = t]
    BY GoesFacts
  <1>2. TasksOK'
    BY <1>1, GoType DEF Go
  <1>3. UNCHANGED <<isGroup, order, gone, conv, messages, asked, accepted, job, started, created>>
    BY GoesFacts
  <1>4. room' \in {room, TRUE} /\ late' \in {late, late \/ (RoomsAreListed /\ ~RoomIsTaken)}
    BY DEF Goes, LookUpOther, FindGroupRoom, MakeGroupRoom, MakesRoom, Same, collab, history
  <1>5. CollabOK'
    <2>1. room' \in BOOLEAN
      BY <1>4, TypeParts DEF CollabOK
    <2> QED
      BY <1>3, <2>1, TypeParts DEF CollabOK
  <1>6. HistoryOK'
    <2>1. late' \in BOOLEAN
      BY <1>4, TypeParts DEF HistoryOK
    <2>2. UNCHANGED <<pending, overlooked, abandoned, crossed, reopened>>
      BY GoesFacts
    <2> QED
      BY <2>1, <2>2, TypeParts DEF HistoryOK
  <1> QED
    BY <1>2, <1>3, <1>5, <1>6, Frame, TypePartsNext

----------------------------------------------------------------------------
(* Types, for collaboration requests and the cleanup.                      *)

CollabBegins(r) ==
    \/ \E u, other \in Users : SendCollabRequest(r, u, other)
    \/ \E request \in asked : AcceptCollabRequest(r, request)

CollabGoesOn(r) ==
    CheckConversation(r) \/ CreateRequest(r) \/ FindRoom(r) \/ CreateSharedRoom(r) \/ DeleteRequest(r) \/ Announce(r)

\* A request that begins asks or has found a request; it has no room yet.
LEMMA CollabBeginsType ==
  ASSUME TypeOK, NEW r \in Requests, CollabBegins(r)
  PROVE  /\ TypeOK' /\ tasks[r] = None
         /\ \E t \in CollabTask : t.pc \in {"check", "find"} /\ tasks' = [tasks EXCEPT ![r] = t]
         /\ UNCHANGED <<isGroup, order, gone, conv, messages, collab, job, created, history>>
  <1>1. \E t \in CollabTask : t.pc \in {"check", "find"} /\ StartCollab(r, t)
    <2>1. ASSUME NEW u \in Users, NEW other \in Users, SendCollabRequest(r, u, other)
          PROVE  \E t \in CollabTask : t.pc \in {"check", "find"} /\ StartCollab(r, t)
      <3>1. started + 1 \in 1..MaxStarts
        BY <2>1, TypeParts, StartsAssumption DEF StartedOK, SendCollabRequest, StartCollab
      <3> DEFINE request == [from |-> u, to |-> other, n |-> started + 1]
                 t == [op |-> "ask", pc |-> "check", user |-> u, found |-> FALSE, request |-> request]
      <3>2. request \in CollabRequest
        BY <3>1 DEF CollabRequest
      <3>3. t \in CollabTask
        BY <3>2 DEF CollabTask
      <3> QED
        BY <2>1, <3>3 DEF SendCollabRequest
    <2>2. ASSUME NEW request \in asked, AcceptCollabRequest(r, request)
          PROVE  \E t \in CollabTask : t.pc \in {"check", "find"} /\ StartCollab(r, t)
      <3> DEFINE t == [op |-> "agree", pc |-> "find", user |-> request.to, found |-> FALSE, request |-> request]
      <3>1. request \in CollabRequest /\ request.to \in Users
        BY TypeParts DEF CollabOK, CollabRequest
      <3>2. t \in CollabTask
        BY <3>1 DEF CollabTask
      <3> QED
        BY <2>2, <3>2 DEF AcceptCollabRequest
    <2> QED
      BY <2>1, <2>2 DEF CollabBegins
  <1>2. PICK t \in CollabTask : t.pc \in {"check", "find"} /\ StartCollab(r, t)
    BY <1>1
  <1>3. TasksOK'
    BY <1>2, GoType DEF StartCollab
  <1>4. StartedOK'
    BY <1>2, TypeParts, StartsAssumption DEF StartedOK, StartCollab
  <1> QED
    BY <1>2, <1>3, <1>4, Frame, TypePartsNext DEF StartCollab, Go

LEMMA CollabGoesOnType ==
  ASSUME TypeOK, NEW r \in Requests, CollabGoesOn(r)
  PROVE  /\ TypeOK' /\ tasks[r] \in CollabTask
         /\ \E t \in CollabTask \union {None} : tasks' = [tasks EXCEPT ![r] = t]
  <1>1. tasks[r] # None /\ tasks[r].pc \in {"check", "ask", "find", "make", "forget", "announce"}
    BY DEF CollabGoesOn, CheckConversation, CreateRequest, FindRoom, CreateSharedRoom, MakesRoom, DeleteRequest, Announce, At
  <1>2. tasks[r] \in CollabTask
    BY <1>1, RoomTask DEF ChatPc
  <1>3. \A pc \in {"ask", "forget", "announce"} : [tasks[r] EXCEPT !.pc = pc] \in CollabTask
    BY <1>2 DEF CollabTask
  <1>4. room \in BOOLEAN
    BY TypeParts DEF CollabOK
  <1>5. [tasks[r] EXCEPT !.found = room, !.pc = IF room THEN "forget" ELSE "make"] \in CollabTask
    BY <1>2, <1>4 DEF CollabTask
  <1>6. PICK t \in CollabTask \union {None} : Go(r, t)
    BY <1>3, <1>5 DEF CollabGoesOn, CheckConversation, CreateRequest, FindRoom, CreateSharedRoom, MakesRoom, DeleteRequest, Announce, GoTo, Finish
  <1>7. TasksOK' /\ tasks' = [tasks EXCEPT ![r] = t]
    BY <1>6, GoType DEF Go
  <1>8. tasks[r].request \in CollabRequest
    BY <1>2 DEF CollabTask
  <1>9. CollabOK'
    <2>1. asked' \subseteq asked \union {tasks[r].request} /\ accepted' \in {accepted, accepted + 1}
      BY DEF CollabGoesOn, CheckConversation, CreateRequest, FindRoom, CreateSharedRoom, MakesRoom, DeleteRequest, Announce, collab
    <2>2. room' \in {room, TRUE}
      BY DEF CollabGoesOn, CheckConversation, CreateRequest, FindRoom, CreateSharedRoom, MakesRoom, DeleteRequest, Announce, collab
    <2>3. accepted' \in Nat /\ asked' \subseteq CollabRequest
      BY <1>8, <2>1, TypeParts DEF CollabOK
    <2>4. room' \in BOOLEAN
      BY <2>2, TypeParts DEF CollabOK
    <2> QED
      BY <2>3, <2>4 DEF CollabOK
  <1>10. HistoryOK'
    BY TypeParts, Frame DEF CollabGoesOn, CheckConversation, CreateRequest, FindRoom, CreateSharedRoom, MakesRoom, DeleteRequest, Announce, Same, HistoryOK
  <1>11. UNCHANGED <<isGroup, order, gone, conv, messages, created, job, started>>
    BY DEF CollabGoesOn, CheckConversation, CreateRequest, FindRoom, CreateSharedRoom, MakesRoom, DeleteRequest, Announce, Same
  <1> QED
    BY <1>2, <1>7, <1>9, <1>10, <1>11, Frame, TypePartsNext

Expires == \E request \in asked : RequestExpires(request)
Cleanup == StartCleanup \/ DeleteRooms \/ DeleteMessages \/ DeleteConversation
Leaves == \E u \in Users : DeleteAccount(u)

LEMMA LeavesType ==
  ASSUME TypeOK, Leaves
  PROVE  /\ TypeOK' /\ gone \subseteq gone'
         /\ UNCHANGED <<isGroup, order, conv, messages, tasks, collab, job, started, created, history>>
  <1>1. PICK u \in Users : DeleteAccount(u)
    BY DEF Leaves
  <1>2. PeopleOK'
    BY <1>1, TypeParts DEF DeleteAccount, PeopleOK
  <1>3. ChatOK'
    BY <1>1, TypeParts DEF DeleteAccount, ChatOK
  <1> QED
    BY <1>1, <1>2, <1>3, Frame, TypePartsNext DEF DeleteAccount

LEMMA CleanupType ==
  ASSUME TypeOK, Expires \/ Cleanup
  PROVE  TypeOK' /\ UNCHANGED <<isGroup, order, gone, tasks, accepted, history>> /\ (conv' = conv \/ conv' = None)
  <1>1. CASE Expires
    <2>1. CollabOK' /\ UNCHANGED <<isGroup, order, gone, conv, messages, job, started, created, history, tasks, accepted>>
      BY <1>1, TypeParts DEF Expires, RequestExpires, Same, CollabOK
    <2> QED
      BY <2>1, Frame, TypePartsNext
  <1>2. CASE Cleanup
    <2>1. UNCHANGED <<isGroup, order, gone, tasks, asked, accepted, started, created, history>>
      BY <1>2 DEF Cleanup, StartCleanup, DeleteRooms, DeleteMessages, DeleteConversation, JobStep
    <2>2. JobOK'
      BY <1>2 DEF Cleanup, StartCleanup, DeleteRooms, DeleteMessages, DeleteConversation, JobStep, JobOK
    <2>3. CollabOK'
      BY <1>2, <2>1, TypeParts DEF Cleanup, StartCleanup, DeleteRooms, DeleteMessages, DeleteConversation, CollabOK, RoomsLeft
    <2>4. ChatOK' /\ (conv' = conv \/ conv' = None)
      BY <1>2, <2>1, TypeParts DEF Cleanup, StartCleanup, DeleteRooms, DeleteMessages, DeleteConversation, ChatOK
    <2> QED
      BY <2>1, <2>2, <2>3, <2>4, Frame, TypePartsNext
  <1> QED
    BY <1>1, <1>2

----------------------------------------------------------------------------
(* The steps of the specification, by what they do.                        *)

Replies(r) == SaveFails(r) \/ DeleteMessage(r) \/ FindLatestMessage(r) \/ EnqueueConversationCleanup(r)

LEMMA Steps ==
  ASSUME TypeOK, [Next]_vars
  PROVE  /\ TypeOK'
         /\ \/ \E r \in Requests, t \in Task : Opens(r, t)
            \/ \E r \in Requests : CreateMessage(r) \/ Save(r) \/ Replies(r) \/ Goes(r) \/ CollabBegins(r) \/ CollabGoesOn(r)
            \/ Expires \/ Cleanup \/ Leaves \/ UNCHANGED vars
  <1>1. CASE UNCHANGED vars
    BY <1>1, Frame, TypePartsNext DEF vars
  <1>2. ASSUME NEW r \in Requests, NEW u \in Users, Begin(r, u)
        PROVE  TypeOK' /\ ((\E t \in Task : Opens(r, t)) \/ CollabBegins(r))
    <2>1. CASE \E other \in Users : SendCollabRequest(r, u, other)
      BY <2>1, CollabBeginsType DEF CollabBegins
    <2>2. CASE ~\E other \in Users : SendCollabRequest(r, u, other)
      <3>1. TypeOK' /\ \E t : Opens(r, t)
        BY <1>2, <2>2, SaveMessageOpens, EnterOpens, AcceptOpens, InviteOpens, RemoveOpens, ReadOpens, HideOpens DEF Begin
      <3> QED
        BY <3>1 DEF Opens
    <2> QED
      BY <2>1, <2>2
  <1>3. ASSUME NEW r \in Requests, NEW message \in messages, UnsendMessage(r, message)
        PROVE  TypeOK' /\ \E t \in Task : Opens(r, t)
    <2>1. message.sender \in Users
      BY TypeParts DEF ChatOK, Message
    <2>2. TypeOK' /\ \E t : Opens(r, t)
      BY <1>3, <2>1, ReadOpens
    <2> QED
      BY <2>2 DEF Opens
  <1>4. ASSUME NEW r \in Requests, CreateMessage(r) \/ Save(r) \/ Replies(r) \/ Goes(r) \/ CollabBegins(r) \/ CollabGoesOn(r)
        PROVE  TypeOK'
    BY <1>4, CreateType, SaveType, UnsendType, GoesType, CollabBeginsType, CollabGoesOnType DEF Replies
  <1>5. CASE Expires \/ Cleanup \/ Leaves
    BY <1>5, CleanupType, LeavesType
  <1> QED
    BY <1>1, <1>2, <1>3, <1>4, <1>5 DEF Next, Replies, Goes, CollabBegins, CollabGoesOn, Expires, Cleanup, Leaves

LEMMA AlwaysTypes == Spec => []TypeOK
  BY InitType, Steps, PTL DEF Spec

\* TypeCorrect: documents, messages, tasks and histories keep their types.
THEOREM TypeCorrect == Spec => []TypeOK
  BY AlwaysTypes

----------------------------------------------------------------------------
(* The room.                                                               *)

Announces(t) == t # None /\ (t.pc = "announce" \/ (t.pc = "forget" /\ ~t.found))
Announcing == {r \in Requests : Announces(tasks[r])}

\* Who made the room is the only one to announce it.
RoomInv ==
    /\ (job = "roomless" \/ RoomsAreDeleted) /\ room => late
    /\ ~RoomsAreDeleted =>
        /\ accepted <= 1 /\ (accepted # 0 => Announcing = {} /\ room)
        /\ Announcing # {} => room
        /\ \A q, r \in Announcing : q = r

LEMMA ChatMoves ==
  ASSUME TypeOK, NEW r \in Requests, CreateMessage(r) \/ Save(r) \/ Replies(r)
  PROVE  /\ tasks[r] \in Task /\ UNCHANGED <<isGroup, collab, late>>
         /\ \E t \in Task \union {None} : tasks' = [tasks EXCEPT ![r] = t]
         /\ job' = job \/ (job = "none" /\ job' = "queued")
  <1>1. tasks[r] \in Task
    BY ChatTask DEF CreateMessage, Save, Replies, SaveFails, DeleteMessage, FindLatestMessage, EnqueueConversationCleanup, ChatPc
  <1>2. UNCHANGED <<isGroup, collab, late>> /\ (job' = job \/ (job = "none" /\ job' = "queued"))
    BY DEF CreateMessage, Save, Replies, SaveFails, DeleteMessage, FindLatestMessage, EnqueueConversationCleanup, collab, history
  <1>3. CASE CreateMessage(r)
    <2> DEFINE t == tasks[r]
               n == created + 1
    <2>1. n \in Nat
      BY TypeParts DEF ChatOK
    <2>2. tasks' = [tasks EXCEPT ![r] = [t EXCEPT !.pc = "save", !.after = "done", !.n = n, !.doc = Noted(t, n)]]
      BY <1>3 DEF CreateMessage, Go, Noted
    <2> QED
      BY <1>1, <1>2, <2>1, <2>2, CreateTask
  <1>4. CASE Save(r)
    BY <1>1, <1>2, <1>4, SaveType, AfterType DEF Go, Finish
  <1>5. CASE DeleteMessage(r)
    <2>1. [tasks[r] EXCEPT !.pc = "latest"] \in Task
      BY <1>1 DEF Task
    <2> QED
      BY <1>1, <1>2, <1>5, <2>1 DEF DeleteMessage, Go, Finish
  <1>6. CASE FindLatestMessage(r)
    <2>1. PICK n \in 0..created : Go(r, [tasks[r] EXCEPT !.pc = "save", !.doc.lastMessage = n])
      BY <1>6 DEF FindLatestMessage
    <2>2. n \in Nat
      BY TypeParts DEF ChatOK
    <2>3. [tasks[r] EXCEPT !.pc = "save", !.doc.lastMessage = n] \in Task
      BY <1>1, <2>2 DEF Task, Document
    <2> QED
      BY <1>1, <1>2, <2>1, <2>3 DEF Go
  <1>7. CASE SaveFails(r) \/ EnqueueConversationCleanup(r)
    BY <1>1, <1>2, <1>7 DEF SaveFails, EnqueueConversationCleanup, Go, Finish
  <1> QED
    BY <1>3, <1>4, <1>5, <1>6, <1>7 DEF Replies

\* A step of one request, seen from the announcements.
LEMMA Announcers ==
  ASSUME TypeOK, NEW r \in Requests, NEW t, tasks' = [tasks EXCEPT ![r] = t]
  PROVE  Announcing' = (Announcing \ {r}) \union (IF Announces(t) THEN {r} ELSE {})
  BY TypeParts DEF TasksOK, Announcing, Announces

LEMMA RoomKept ==
  ASSUME RoomInv, UNCHANGED <<collab, late>>, Announcing' = Announcing,
         job' = job \/ (job = "none" /\ job' = "queued")
  PROVE  RoomInv'
  BY DEF RoomInv, RoomsAreDeleted, collab

LEMMA RoomStep ==
  ASSUME TypeOK, RoomInv, [Next]_vars
  PROVE  RoomInv'
  <1>1. ASSUME NEW r \in Requests, NEW t \in Task, Opens(r, t)
        PROVE  RoomInv'
    <2>1. ~Announces(t) /\ ~Announces(tasks[r])
      BY <1>1 DEF Opens, Announces, ChatPc
    <2>2. Announcing' = Announcing
      BY <1>1, <2>1, Announcers DEF Opens, Announcing
    <2> QED
      BY <1>1, <2>2, RoomKept DEF Opens
  <1>2. ASSUME NEW r \in Requests, CreateMessage(r) \/ Save(r) \/ Replies(r)
        PROVE  RoomInv'
    <2>1. PICK t \in Task \union {None} : tasks' = [tasks EXCEPT ![r] = t]
      BY <1>2, ChatMoves
    <2>2. ~Announces(t) /\ ~Announces(tasks[r])
      BY <1>2, ChatMoves DEF Announces, Task
    <2>3. Announcing' = Announcing
      BY <2>1, <2>2, Announcers DEF Announcing
    <2> QED
      BY <1>2, <2>3, ChatMoves, RoomKept
  <1>3. ASSUME NEW r \in Requests, Goes(r)
        PROVE  RoomInv'
    <2>1. PICK t \in Task \union {None} : tasks' = [tasks EXCEPT ![r] = t] /\ (t # None => t.pc \in {"makeRoom", "create", "enqueue"})
      BY <1>3, GoesFacts
    <2>2. ~Announces(t) /\ ~Announces(tasks[r]) /\ UNCHANGED <<asked, accepted, job>>
      BY <1>3, <2>1, GoesFacts DEF Announces
    <2>3. Announcing' = Announcing
      BY <2>1, <2>2, Announcers DEF Announcing
    <2>4. CASE LookUpOther(r) \/ FindGroupRoom(r)
      <3>1. UNCHANGED <<collab, late>>
        BY <2>4 DEF LookUpOther, FindGroupRoom, Same, history
      <3> QED
        BY <2>2, <2>3, <3>1, RoomKept
    <2>5. CASE MakeGroupRoom(r)
      <3>1. room' = TRUE /\ late' = (late \/ (RoomsAreListed /\ ~room))
        BY <2>5 DEF MakeGroupRoom, MakesRoom, RoomIsTaken
      <3>2. (job = "roomless" \/ RoomsAreDeleted) => late'
        BY <3>1 DEF RoomsAreListed, RoomsAreDeleted, RoomInv
      <3> QED
        BY <2>2, <2>3, <3>1, <3>2 DEF RoomInv, RoomsAreDeleted
    <2> QED
      BY <1>3, <2>4, <2>5 DEF Goes
  <1>4. ASSUME NEW r \in Requests, CollabBegins(r)
        PROVE  RoomInv'
    <2>1. PICK t \in CollabTask : t.pc \in {"check", "find"} /\ tasks' = [tasks EXCEPT ![r] = t]
      BY <1>4, CollabBeginsType
    <2>2. tasks[r] = None /\ UNCHANGED <<collab, job, late>>
      BY <1>4, CollabBeginsType DEF history
    <2>3. Announcing' = Announcing
      BY <2>1, <2>2, Announcers DEF Announcing, Announces
    <2> QED
      BY <2>2, <2>3, RoomKept
  <1>5. ASSUME NEW r \in Requests, CollabGoesOn(r)
        PROVE  RoomInv'
    <2>0. tasks[r] # None /\ tasks[r] \in CollabTask /\ job' = job
      BY <1>5, CollabGoesOnType DEF CollabGoesOn, CheckConversation, CreateRequest, FindRoom, CreateSharedRoom, MakesRoom, DeleteRequest, Announce, At, Same
    <2>1. CASE CheckConversation(r) \/ CreateRequest(r)
      <3>1. PICK t : tasks' = [tasks EXCEPT ![r] = t] /\ (t = None \/ t = [tasks[r] EXCEPT !.pc = "ask"])
        BY <2>1 DEF CheckConversation, CreateRequest, GoTo, Finish, Go
      <3>2. ~Announces(t) /\ ~Announces(tasks[r])
        BY <2>0, <2>1, <3>1 DEF Announces, CollabTask, CheckConversation, CreateRequest, At
      <3>3. Announcing' = Announcing /\ UNCHANGED <<room, accepted, late>>
        BY <2>1, <3>1, <3>2, Announcers DEF Announcing, CheckConversation, CreateRequest, Same, collab, history
      <3> QED
        BY <2>0, <3>3 DEF RoomInv, RoomsAreDeleted
    <2>2. CASE FindRoom(r)
      <3> DEFINE t == [tasks[r] EXCEPT !.found = room, !.pc = IF room THEN "forget" ELSE "make"]
      <3>1. tasks' = [tasks EXCEPT ![r] = t]
        BY <2>2 DEF FindRoom, Go
      <3>2. ~Announces(t) /\ ~Announces(tasks[r])
        BY <2>0, <2>2 DEF Announces, CollabTask, FindRoom, At
      <3>3. Announcing' = Announcing /\ UNCHANGED <<collab, late>>
        BY <2>2, <3>1, <3>2, Announcers DEF Announcing, FindRoom, Same, history
      <3> QED
        BY <2>0, <3>3, RoomKept
    <2>3. CASE CreateSharedRoom(r)
      <3>1. ~Announces(tasks[r])
        BY <2>3 DEF Announces, CreateSharedRoom, At
      <3>2. /\ room' = TRUE /\ accepted' = accepted /\ late' = (late \/ (RoomsAreListed /\ ~room))
            /\ \E t : tasks' = [tasks EXCEPT ![r] = t] /\ (room => t = None)
        BY <2>3 DEF CreateSharedRoom, MakesRoom, RoomIsTaken, Finish, GoTo, Go
      <3>3. Announcing' \subseteq Announcing \union {r} /\ (room => Announcing' = Announcing)
        BY <3>1, <3>2, Announcers DEF Announcing, Announces
      <3>4. (job = "roomless" \/ RoomsAreDeleted) => late'
        BY <3>2 DEF RoomsAreListed, RoomsAreDeleted, RoomInv
      <3> QED
        BY <2>0, <3>2, <3>3, <3>4 DEF RoomInv, RoomsAreDeleted
    <2>4. CASE DeleteRequest(r)
      <3>1. PICK t : /\ tasks' = [tasks EXCEPT ![r] = t]
                     /\ t = IF tasks[r].found THEN None ELSE [tasks[r] EXCEPT !.pc = "announce"]
        BY <2>4 DEF DeleteRequest, GoTo, Finish, Go
      <3>2. Announces(t) <=> Announces(tasks[r])
        BY <2>0, <2>4, <3>1, NoneAssumption DEF Announces, CollabTask, DeleteRequest, At
      <3>3. Announcing' = Announcing /\ UNCHANGED <<room, accepted, late>>
        BY <2>4, <3>1, <3>2, Announcers DEF Announcing, DeleteRequest, Same, history
      <3> QED
        BY <2>0, <3>3 DEF RoomInv, RoomsAreDeleted
    <2>5. CASE Announce(r)
      <3>1. r \in Announcing
        BY <2>5 DEF Announcing, Announces, Announce, At
      <3>2. Announcing' = Announcing \ {r}
        BY <2>5, Announcers DEF Announces, Announce, Finish, Go
      <3>3. UNCHANGED <<room, late>> /\ accepted' = accepted + 1
        BY <2>5 DEF Announce, Same, history
      <3>4. ~RoomsAreDeleted => accepted = 0 /\ room /\ Announcing' = {}
        BY <3>1, <3>2 DEF RoomInv
      <3> QED
        BY <2>0, <3>3, <3>4 DEF RoomInv, RoomsAreDeleted
    <2> QED
      BY <1>5, <2>1, <2>2, <2>3, <2>4, <2>5 DEF CollabGoesOn
  <1>6. CASE Expires
    <2>1. UNCHANGED <<tasks, room, accepted, job, late>>
      BY <1>6 DEF Expires, RequestExpires, Same, history
    <2> QED
      BY <2>1 DEF RoomInv, RoomsAreDeleted, Announcing
  <1>7. CASE Cleanup
    <2>1. UNCHANGED <<tasks, accepted, late>>
      BY <1>7, CleanupType DEF history
    <2>2. CASE StartCleanup
      BY <2>1, <2>2 DEF StartCleanup, JobStep, RoomInv, RoomsAreDeleted, Announcing
    <2>3. CASE DeleteRooms
      BY <2>1, <2>3 DEF DeleteRooms, JobStep, RoomInv, RoomsAreDeleted, RoomsLeft
    <2>4. CASE DeleteMessages \/ DeleteConversation
      BY <2>1, <2>4 DEF DeleteMessages, DeleteConversation, JobStep, RoomInv, RoomsAreDeleted
    <2> QED
      BY <1>7, <2>2, <2>3, <2>4 DEF Cleanup
  <1>8. CASE Leaves \/ UNCHANGED vars
    BY <1>8, LeavesType DEF vars, collab, history, RoomInv, RoomsAreDeleted, Announcing
  <1> QED
    BY <1>1, <1>2, <1>4, <1>5, <1>6, <1>7, <1>8, <1>3, Steps

\* RoomHasConversation: however many requests ask and accept at the same time, the room is
\* announced once; after the cleanup there is none, but one that was made after the cleanup
\* had listed the rooms, for a request accepted late or a member who entered the group.
THEOREM RoomGoes == Spec => []RoomHasConversation
  <1>1. Init => RoomInv
    BY DEF Init, RoomInv, RoomsAreDeleted, Announcing, Announces
  <1>2. RoomInv => RoomHasConversation
    BY DEF RoomInv, RoomHasConversation
  <1> QED
    BY <1>1, <1>2, RoomStep, AlwaysTypes, PTL DEF Spec

----------------------------------------------------------------------------
(* The copies requests work on.  In a group whoever saves an array has the *)
(* arrays as they are; in a direct conversation only hiddenBy changes.     *)

Current(t, doc) ==
    IF isGroup THEN t.read.v <= doc.v /\ (t.read.v = doc.v => Arrays(t.read) = Arrays(doc))
    ELSE t.read.participants = doc.participants /\ t.read.admins = doc.admins

IsChat(t) == t # None /\ t.pc \in ChatPc

CopiesInv == \A r \in Requests : IsChat(tasks[r]) => Shape(tasks[r]) /\ (conv # None => Current(tasks[r], conv))
AdminInv == conv # None => IF isGroup THEN abandoned \/ HasAdmin(conv) ELSE conv.admins = {}

Decided == job # "none" \/ \E r \in Requests : IsChat(tasks[r]) /\ tasks[r].pc = "enqueue"
HideInv == Decided /\ conv # None => Visible(conv) \ gone \subseteq conv.admins \/ reopened \/ FirstIsGone

\* Whoever looks up the other participant has hidden the conversation from those it knows of.
Looking(r) == IsChat(tasks[r]) /\ tasks[r].pc = "other"
LookInv == \A r \in Requests : Looking(r) /\ conv # None => Visible(conv) \subseteq Visible(tasks[r].doc) \/ reopened

DirectInv == ~isGroup /\ conv # None => conv.participants = {order[1], order[2]}

ChatInv == CopiesInv /\ AdminInv /\ HideInv /\ LookInv /\ DirectInv

\* What a save does to who is in the conversation.
LEMMA SaveFacts ==
  ASSUME TypeOK, CopiesInv, NEW r \in Requests, Save(r)
  PROVE  /\ IsChat(tasks[r]) /\ tasks[r].pc = "save" /\ Shape(tasks[r]) /\ Current(tasks[r], conv)
         /\ conv \in Document /\ conv' \in Document /\ conv # None /\ conv' # None
         /\ conv'.hiddenBy = IF tasks[r].doc.hiddenBy # tasks[r].read.hiddenBy THEN tasks[r].doc.hiddenBy ELSE conv.hiddenBy
         /\ isGroup /\ Replaces(tasks[r]) =>
              /\ tasks[r].read.v = conv.v /\ conv'.v = conv.v + 1
              /\ Arrays(tasks[r].read) = Arrays(conv) /\ Arrays(conv') = Arrays(tasks[r].doc)
         /\ isGroup /\ ~Replaces(tasks[r]) => conv'.v = conv.v /\ Arrays(conv') = Arrays(conv)
         /\ ~isGroup => conv'.participants = conv.participants /\ conv'.admins = conv.admins
  <1> DEFINE t == tasks[r]
  <1>1. t \in Task /\ conv \in Document /\ conv' = Written(t) /\ conv' \in Document
    BY SaveType, WrittenType
  <1>2. IsChat(t) /\ t.pc = "save" /\ Saves(t) /\ conv # None /\ conv' # None
    BY <1>1, TaskFields, DocumentFields DEF Save, Saves, IsChat, ChatPc
  <1>3. Shape(t) /\ Current(t, conv)
    BY <1>2 DEF CopiesInv
  <1>4. /\ conv'.participants = IF t.doc.participants # t.read.participants THEN t.doc.participants ELSE conv.participants
        /\ conv'.hiddenBy = IF t.doc.hiddenBy # t.read.hiddenBy THEN t.doc.hiddenBy ELSE conv.hiddenBy
        /\ conv'.admins = IF t.doc.admins # t.read.admins THEN t.doc.admins ELSE conv.admins
        /\ conv'.v = IF Replaces(t) THEN conv.v + 1 ELSE conv.v
    BY <1>1 DEF Written
  <1>5. ASSUME isGroup, Replaces(t)
        PROVE  t.read.v = conv.v /\ Arrays(t.read) = Arrays(conv) /\ Arrays(conv') = Arrays(t.doc)
    <2>1. t.read.v = conv.v
      BY <1>2, <1>5 DEF Saves, Outdated
    <2>2. Arrays(t.read) = Arrays(conv)
      BY <1>3, <1>5, <2>1 DEF Current
    <2> QED
      BY <1>4, <2>1, <2>2 DEF Arrays
  <1>6. ASSUME ~Replaces(t) PROVE Arrays(conv') = Arrays(conv)
    BY <1>4, <1>6 DEF Replaces, Arrays
  <1>7. ASSUME ~isGroup PROVE conv'.participants = conv.participants /\ conv'.admins = conv.admins
    BY <1>3, <1>4, <1>7 DEF Shape
  <1> QED
    BY <1>1, <1>2, <1>3, <1>4, <1>5, <1>6, <1>7

\* The copies of the others stay current, whatever one request does.
LEMMA CopiesStep ==
  ASSUME TypeOK, CopiesInv, NEW r \in Requests, NEW t, isGroup' = isGroup, tasks' = [tasks EXCEPT ![r] = t],
         IsChat(t) => Shape(t) /\ (conv' # None => Current(t, conv')),
         conv' # None => conv # None,
         \A q \in Requests : conv' # None /\ IsChat(tasks[q]) /\ q # r /\ Current(tasks[q], conv) => Current(tasks[q], conv')
  PROVE  CopiesInv'
  <1> SUFFICES ASSUME NEW q \in Requests
               PROVE  (IsChat(tasks[q]) => Shape(tasks[q]) /\ (conv # None => Current(tasks[q], conv)))'
    BY DEF CopiesInv
  <1>1. CASE q = r
    <2>1. tasks'[q] = t
      BY <1>1, TypeParts DEF TasksOK
    <2> QED
      BY <2>1 DEF IsChat, Shape, Current
  <1>2. CASE q # r
    <2>1. tasks'[q] = tasks[q]
      BY <1>2, TypeParts DEF TasksOK
    <2>2. IsChat(tasks[q]) => Shape(tasks[q]) /\ (conv # None => Current(tasks[q], conv))
      BY DEF CopiesInv
    <2>3. IsChat(tasks[q]) /\ conv' # None => Current(tasks[q], conv')
      BY <1>2, <2>2
    <2> QED
      BY <2>1, <2>2, <2>3 DEF IsChat, Shape, Current
  <1> QED
    BY <1>1, <1>2

\* A step after which nobody new destroys the conversation.
LEMMA DecidedStep ==
  ASSUME TypeOK, NEW r \in Requests, NEW t, tasks' = [tasks EXCEPT ![r] = t], Decided'
  PROVE  Decided \/ job' # "none" \/ (IsChat(t) /\ t.pc = "enqueue")
  <1>1. CASE job' # "none"
    BY <1>1
  <1>2. CASE \E q \in Requests : IsChat(tasks'[q]) /\ tasks'[q].pc = "enqueue"
    <2>1. PICK q \in Requests : IsChat(tasks'[q]) /\ tasks'[q].pc = "enqueue"
      BY <1>2
    <2>2. tasks'[q] = IF q = r THEN t ELSE tasks[q]
      BY TypeParts DEF TasksOK
    <2> QED
      BY <2>1, <2>2 DEF Decided
  <1> QED
    BY <1>1, <1>2 DEF Decided, IsChat

\* The conversation is left as it is, or is gone.
LEMMA Quiet ==
  ASSUME AdminInv, HideInv, DirectInv, conv' = conv \/ conv' = None, UNCHANGED <<isGroup, order, abandoned, reopened>>,
         gone \subseteq gone', Decided' => Decided
  PROVE  AdminInv' /\ HideInv' /\ DirectInv'
  <1>1. AdminInv' /\ DirectInv'
    BY DEF AdminInv, HasAdmin, Visible, DirectInv
  <1>2. FirstIsGone => FirstIsGone'
    BY DEF FirstIsGone
  <1>3. HideInv'
    BY <1>2 DEF HideInv, Visible
  <1> QED
    BY <1>1, <1>3

\* Whoever has not decided comes back to a conversation somebody else is deleting.
LEMMA Returns ==
  ASSUME TypeOK, CopiesInv, HideInv, NEW r \in Requests, ComesBack(r), Decided, conv # None,
         ~(IsChat(tasks[r]) /\ tasks[r].pc = "enqueue")
  PROVE  \/ reopened' \/ FirstIsGone
         \/ Visible(conv') \subseteq Visible(conv) /\ Visible(conv) \ gone \subseteq conv.admins
  <1>1. Deciding(r)
    <2>1. ASSUME NEW q \in Requests, IsChat(tasks[q]), tasks[q].pc = "enqueue"
          PROVE  Deciding(r)
      <3>1. q # r
        BY <2>1
      <3>2. tasks[q].op = "hide" /\ tasks[q] # None
        BY <2>1 DEF CopiesInv, Shape, Hiding, IsChat
      <3> QED
        BY <3>1, <3>2 DEF Deciding, Others
    <2> QED
      BY <2>1 DEF Decided, Deciding
  <1> QED
    BY <1>1 DEF ComesBack, HideInv

\* A conversation that somebody is deleting is not shown again but to who comes back.
LEMMA LookStep ==
  ASSUME TypeOK, CopiesInv, LookInv, NEW r \in Requests, NEW t, tasks' = [tasks EXCEPT ![r] = t], conv' # None => conv # None,
         ComesBack(r) \/ UNCHANGED <<conv, reopened>>,
         IsChat(t) /\ t.pc = "other" /\ conv' # None => Visible(conv') \subseteq Visible(t.doc) \/ reopened'
  PROVE  LookInv'
  <1>1. \A q \in Requests : tasks'[q] = IF q = r THEN t ELSE tasks[q]
    BY TypeParts DEF TasksOK
  <1> SUFFICES ASSUME NEW q \in Requests, IsChat(tasks'[q]), tasks'[q].pc = "other", conv' # None
               PROVE  Visible(conv') \subseteq Visible(tasks'[q].doc) \/ reopened'
    BY DEF LookInv, Looking, IsChat, Visible
  <1>2. CASE q = r
    BY <1>1, <1>2
  <1>3. CASE q # r
    <2>1. tasks'[q] = tasks[q]
      BY <1>1, <1>3
    <2>2. tasks[q].op = "hide" /\ tasks[q] # None
      BY <2>1 DEF CopiesInv, Shape, Hiding, IsChat
    <2>3. Deciding(r)
      BY <1>3, <2>2 DEF Deciding, Others
    <2>4. reopened' \/ (Visible(conv') \subseteq Visible(conv) /\ (reopened => reopened'))
      BY <2>3 DEF ComesBack, Visible
    <2>5. Visible(conv) \subseteq Visible(tasks[q].doc) \/ reopened
      BY <2>1 DEF LookInv, Looking
    <2> QED
      BY <2>1, <2>4, <2>5
  <1> QED
    BY <1>2, <1>3

LEMMA OpensStep ==
  ASSUME TypeOK, ChatInv, NEW r \in Requests, NEW t \in Task, Opens(r, t)
  PROVE  ChatInv'
  <1>1. /\ conv \in Document /\ conv # None /\ conv' \in Document /\ conv' # None
        /\ conv' = conv \/ (~isGroup /\ conv'.participants = conv.participants /\ conv'.admins = conv.admins)
    <2>1. conv \in Document /\ conv # None
      BY TypeParts DEF ChatOK, Opens
    <2>2. conv' = conv \/ (~isGroup /\ conv' = [conv EXCEPT !.hiddenBy = {}])
      BY DEF Opens
    <2>3. [conv EXCEPT !.hiddenBy = {}] \in Document
      BY <2>1 DEF Document
    <2> QED
      BY <2>1, <2>2, <2>3, DocumentFields DEF Document
  <1>2. CopiesInv'
    <2>1. \A q \in Requests : Current(tasks[q], conv) => Current(tasks[q], conv')
      BY <1>1 DEF Current
    <2>2. Current(t, conv') /\ Shape(t)
      BY <1>1, DocumentFields DEF Opens, Current
    <2>3. isGroup' = isGroup /\ tasks' = [tasks EXCEPT ![r] = t] /\ CopiesInv
      BY DEF Opens, ChatInv
    <2> QED
      BY <1>1, <2>1, <2>2, <2>3, CopiesStep
  <1>3. AdminInv'
    BY <1>1 DEF ChatInv, AdminInv, Opens, HasAdmin, Visible
  <1>4. HideInv'
    <2>0. gone' = gone /\ FirstIsGone' = FirstIsGone
      BY DEF Opens, FirstIsGone
    <2> SUFFICES ASSUME Decided' PROVE Visible(conv') \ gone \subseteq conv'.admins \/ reopened' \/ FirstIsGone
      BY <2>0 DEF HideInv, Visible
    <2>1. CASE t.pc = "enqueue"
      BY <2>1 DEF Opens
    <2>2. CASE t.pc # "enqueue"
      <3>1. Decided
        BY <2>2, DecidedStep DEF Opens, Decided
      <3>2. CASE UNCHANGED <<conv, reopened>>
        BY <1>1, <3>1, <3>2 DEF ChatInv, HideInv
      <3>3. CASE ComesBack(r)
        BY <1>1, <3>1, <3>3, Returns DEF ChatInv, Opens, IsChat
      <3> QED
        BY <3>2, <3>3 DEF Opens
    <2> QED
      BY <2>1, <2>2
  <1>5. LookInv'
    BY <1>1, LookStep DEF ChatInv, Opens
  <1>6. DirectInv'
    BY <1>1 DEF ChatInv, DirectInv, Opens
  <1> QED
    BY <1>2, <1>3, <1>4, <1>5, <1>6 DEF ChatInv

LEMMA SaveStep ==
  ASSUME TypeOK, ChatInv, NEW r \in Requests, Save(r)
  PROVE  ChatInv'
  <1> DEFINE t == tasks[r]
  <1>0. CopiesInv /\ AdminInv /\ HideInv /\ LookInv /\ DirectInv
    BY DEF ChatInv
  <1>1. t \in Task /\ IF t.after = "done" THEN Finish(r) ELSE Go(r, After(t))
    BY SaveType
  <1>2. /\ UNCHANGED <<isGroup, order, gone, job>> /\ ComesBack(r) /\ abandoned' = (abandoned \/ LeavesNobody(t))
    BY DEF Save
  <1>3. conv.v \in Nat /\ conv'.v \in Nat /\ t.read.v \in Nat
    BY <1>0, <1>1, SaveFacts, TaskFields, DocumentFields
  <1>4. CopiesInv'
    <2>1. ASSUME NEW q \in Requests, Current(tasks[q], conv), IsChat(tasks[q])
          PROVE  Current(tasks[q], conv')
      <3>1. tasks[q].read.v \in Nat
        BY <2>1, ChatTask, TaskFields, DocumentFields DEF IsChat
      <3> QED
        BY <1>0, <1>3, <2>1, <3>1, SaveFacts DEF Current
    <2>2. CASE t.after = "done"
      BY <1>0, <1>1, <1>2, <2>1, <2>2, SaveFacts, CopiesStep DEF Finish, Go, IsChat
    <2>3. CASE t.after # "done"
      <3>1. tasks' = [tasks EXCEPT ![r] = After(t)]
        BY <1>1, <2>3 DEF Go
      <3>2. Arrays(After(t).read) = Arrays(After(t).doc) /\ After(t).read.v = After(t).doc.v
        BY <1>1, <2>3, AfterType DEF Arrays
      <3>3. Hiding(After(t))
        BY <1>0, <1>1, <2>3, AfterType, SaveFacts DEF Shape, Hiding
      <3>4. Shape(After(t))
        BY <1>1, <3>2, <3>3, SameArrays DEF Shape
      <3>5. Current(After(t), conv')
        <4>1. CASE isGroup /\ Replaces(t)
          <5>1. After(t).read.v = t.doc.v + 1 /\ Arrays(After(t).read) = Arrays(t.doc) /\ t.doc.v = t.read.v
            BY <1>0, <1>1, <2>3, <4>1, AfterType, SaveFacts DEF Arrays, Shape
          <5> QED
            BY <1>0, <1>3, <4>1, <5>1, SaveFacts DEF Current
        <4>2. CASE isGroup /\ ~Replaces(t)
          <5>1. After(t).read.v = t.read.v /\ Arrays(After(t).read) = Arrays(t.read)
            BY <1>0, <1>1, <2>3, <4>2, AfterType, SaveFacts DEF Arrays, Shape, Replaces
          <5> QED
            BY <1>0, <4>2, <5>1, SaveFacts DEF Current
        <4>3. CASE ~isGroup
          BY <1>0, <1>1, <2>3, <4>3, AfterType, SaveFacts DEF Current, Shape
        <4> QED
          BY <4>1, <4>2, <4>3
      <3> QED
        BY <1>0, <1>2, <2>1, <3>1, <3>4, <3>5, SaveFacts, CopiesStep
    <2> QED
      BY <2>2, <2>3
  <1>5. AdminInv'
    <2>1. CASE isGroup /\ Replaces(t)
      <3>1. HasAdmin(t.read) <=> HasAdmin(conv)
        BY <1>0, <2>1, SaveFacts DEF HasAdmin, Visible, Arrays
      <3>2. HasAdmin(t.doc) => HasAdmin(conv')
        BY <1>0, <2>1, SaveFacts DEF HasAdmin, Visible, Arrays
      <3>3. LeavesLast(t) => LeavesNobody(t)
        BY <1>0, <2>1, SaveFacts DEF LeavesLast, LeavesNobody, Visible, Arrays
      <3>4. abandoned \/ HasAdmin(conv)
        BY <1>0, <2>1, SaveFacts DEF AdminInv
      <3>5. HasAdmin(t.read) => HasAdmin(t.doc) \/ LeavesLast(t)
        BY <1>0, <2>1, SaveFacts DEF Shape, GoodCopy
      <3> QED
        BY <1>2, <2>1, <3>1, <3>2, <3>3, <3>4, <3>5 DEF AdminInv, HasAdmin, Visible
    <2>2. CASE isGroup /\ ~Replaces(t)
      BY <1>0, <1>2, <2>2, SaveFacts DEF AdminInv, HasAdmin, Visible, Arrays
    <2>3. CASE ~isGroup
      BY <1>0, <1>2, <2>3, SaveFacts DEF AdminInv
    <2> QED
      BY <2>1, <2>2, <2>3
  <1>6. HideInv'
    <2>0. gone' = gone /\ FirstIsGone' = FirstIsGone
      BY <1>2 DEF FirstIsGone
    <2> SUFFICES ASSUME Decided' PROVE Visible(conv') \ gone \subseteq conv'.admins \/ reopened' \/ FirstIsGone
      BY <2>0 DEF HideInv, Visible
    <2>1. Decided
      <3>1. CASE t.after = "done"
        BY <1>1, <1>2, <3>1, DecidedStep DEF Finish, Go, IsChat, Decided
      <3>2. CASE t.after # "done"
        <4>1. After(t).pc # "enqueue" /\ tasks' = [tasks EXCEPT ![r] = After(t)]
          BY <1>1, <3>2, AfterType DEF Go
        <4> QED
          BY <1>2, <4>1, DecidedStep DEF Decided
      <3> QED
        BY <3>1, <3>2
    <2>2. \/ reopened' \/ FirstIsGone
          \/ Visible(conv') \subseteq Visible(conv) /\ Visible(conv) \ gone \subseteq conv.admins
      BY <1>0, <1>2, <2>1, SaveFacts, Returns
    <2>3. CASE isGroup /\ Replaces(t)
      <3>1. Visible(t.read) = Visible(conv) /\ t.read.admins = conv.admins /\ Visible(t.doc) = Visible(conv') /\ t.doc.admins = conv'.admins
        BY <1>0, <2>3, SaveFacts DEF Arrays, Visible
      <3>2. Visible(t.doc) \intersect t.read.admins \subseteq t.doc.admins
        BY <1>0, <2>3, SaveFacts DEF Shape, GoodCopy
      <3> QED
        BY <2>2, <3>1, <3>2
    <2>4. CASE ~(isGroup /\ Replaces(t))
      <3>1. conv'.admins = conv.admins
        BY <1>0, <2>4, SaveFacts DEF Arrays
      <3> QED
        BY <2>2, <3>1
    <2> QED
      BY <2>3, <2>4
  <1>7. LookInv'
    <2>1. CASE t.after = "other"
      <3>1. tasks' = [tasks EXCEPT ![r] = After(t)] /\ Visible(After(t).doc) = Visible(t.doc)
        BY <1>1, <2>1, AfterType DEF Go, Visible
      <3>2. t.doc.hiddenBy # t.read.hiddenBy
        BY <1>0, <2>1, SaveFacts DEF Shape, Hiding
      <3>3. conv'.hiddenBy = t.doc.hiddenBy
        BY <1>0, <3>2, SaveFacts
      <3>4. conv'.participants = t.doc.participants
        <4>1. CASE isGroup
          BY <1>0, <3>2, <4>1, SaveFacts DEF Replaces, Arrays
        <4>2. CASE ~isGroup
          BY <1>0, <4>2, SaveFacts DEF Shape, Current
        <4> QED
          BY <4>1, <4>2
      <3>5. Visible(conv') \subseteq Visible(After(t).doc)
        BY <3>1, <3>3, <3>4 DEF Visible
      <3> QED
        BY <1>0, <1>2, <3>1, <3>5, SaveFacts, LookStep
    <2>2. CASE t.after = "done"
      BY <1>0, <1>1, <1>2, <2>2, SaveFacts, LookStep DEF Finish, Go, IsChat
    <2>3. CASE t.after \notin {"done", "other"}
      <3>1. tasks' = [tasks EXCEPT ![r] = After(t)] /\ After(t).pc # "other"
        BY <1>1, <2>3, AfterType DEF Go
      <3> QED
        BY <1>0, <1>2, <3>1, SaveFacts, LookStep
    <2> QED
      BY <2>1, <2>2, <2>3
  <1>8. DirectInv'
    BY <1>0, <1>2, SaveFacts DEF DirectInv
  <1> QED
    BY <1>4, <1>5, <1>6, <1>7, <1>8 DEF ChatInv

\* A request that leaves the conversation as it is and does not decide to destroy it.
LEMMA QuietStep ==
  ASSUME TypeOK, ChatInv, NEW r \in Requests, NEW t, tasks' = [tasks EXCEPT ![r] = t],
         UNCHANGED <<isGroup, order, gone, conv, abandoned, reopened>>, job' # "none" => Decided,
         IsChat(t) => t.pc \notin {"enqueue", "other"} /\ Shape(t) /\ (conv # None => Current(t, conv))
  PROVE  ChatInv'
  <1>1. CopiesInv'
    BY CopiesStep DEF ChatInv
  <1>2. Decided' => Decided
    BY DecidedStep
  <1>3. AdminInv' /\ HideInv' /\ DirectInv'
    BY <1>2, Quiet DEF ChatInv
  <1>4. LookInv'
    BY LookStep DEF ChatInv
  <1> QED
    BY <1>1, <1>3, <1>4 DEF ChatInv

LEMMA CreateStep ==
  ASSUME TypeOK, ChatInv, NEW r \in Requests, CreateMessage(r)
  PROVE  ChatInv'
  <1> DEFINE t == tasks[r]
             n == created + 1
             next == [t EXCEPT !.pc = "save", !.after = "done", !.n = n, !.doc = Noted(t, n)]
  <1>1. t \in Task /\ n \in Nat /\ IsChat(t) /\ t.pc = "create"
    BY ChatTask, TypeParts DEF CreateMessage, ChatPc, ChatOK, IsChat
  <1>2. Shape(t) /\ (conv # None => Current(t, conv))
    BY <1>1 DEF ChatInv, CopiesInv
  <1>3. tasks' = [tasks EXCEPT ![r] = next] /\ UNCHANGED <<isGroup, order, gone, conv, job, abandoned, reopened>>
    BY DEF CreateMessage, Go, Noted, history
  <1>4. next.read = t.read /\ next.doc = Noted(t, n) /\ next.pc = "save" /\ next.after = "done"
    BY <1>1 DEF Task
  <1> HIDE DEF next
  <1>5. isGroup => Arrays(next.doc) = Arrays(next.read)
    BY <1>1, <1>2, <1>4, NotedType DEF Shape, Arrays
  <1>6. Shape(next)
    BY <1>1, <1>2, <1>4, <1>5, NotedType, SameArrays DEF Shape, Hiding
  <1>7. conv # None => Current(next, conv)
    BY <1>2, <1>4 DEF Current
  <1> QED
    BY <1>3, <1>4, <1>6, <1>7, QuietStep DEF Decided

LEMMA RepliesStep ==
  ASSUME TypeOK, ChatInv, NEW r \in Requests, Replies(r)
  PROVE  ChatInv'
  <1> DEFINE t == tasks[r]
  <1>1. t \in Task /\ IsChat(t) /\ UNCHANGED <<isGroup, order, gone, conv, abandoned, reopened>>
    BY ChatTask DEF Replies, SaveFails, DeleteMessage, FindLatestMessage, EnqueueConversationCleanup, ChatPc, IsChat, history
  <1>2. Shape(t) /\ (conv # None => Current(t, conv))
    BY <1>1 DEF ChatInv, CopiesInv
  <1>3. ASSUME Finish(r), job' = job \/ t.pc = "enqueue"
        PROVE  ChatInv'
    <2>1. job' # "none" => Decided
      BY <1>1, <1>3 DEF Decided
    <2>2. tasks' = [tasks EXCEPT ![r] = None] /\ ~IsChat(None)
      BY <1>3 DEF Finish, Go, IsChat
    <2> QED
      BY <1>1, <2>1, <2>2, QuietStep
  <1>4. CASE SaveFails(r) \/ EnqueueConversationCleanup(r)
    BY <1>3, <1>4 DEF SaveFails, EnqueueConversationCleanup
  <1>5. CASE DeleteMessage(r)
    <2> DEFINE next == [t EXCEPT !.pc = "latest"]
    <2>1. t.pc = "delete" /\ job' = job /\ (Finish(r) \/ tasks' = [tasks EXCEPT ![r] = next])
      BY <1>5 DEF DeleteMessage, Go
    <2>2. next.read = t.read /\ next.doc = t.doc /\ next.pc = "latest" /\ next.after = t.after
      BY <1>1 DEF Task
    <2> HIDE DEF next
    <2>3. isGroup => Arrays(next.doc) = Arrays(next.read)
      BY <1>2, <2>1, <2>2 DEF Shape
    <2>4. Shape(next)
      BY <1>2, <2>1, <2>2, <2>3, SameArrays DEF Shape, Hiding
    <2>5. conv # None => Current(next, conv)
      BY <1>2, <2>2 DEF Current
    <2>6. CASE tasks' = [tasks EXCEPT ![r] = next]
      BY <1>1, <2>1, <2>2, <2>4, <2>5, <2>6, QuietStep DEF Decided
    <2> QED
      BY <1>3, <2>1, <2>6
  <1>6. CASE FindLatestMessage(r)
    <2>1. PICK n \in 0..created : tasks' = [tasks EXCEPT ![r] = [t EXCEPT !.pc = "save", !.doc.lastMessage = n]]
      BY <1>6 DEF FindLatestMessage, Go
    <2> DEFINE next == [t EXCEPT !.pc = "save", !.doc.lastMessage = n]
    <2>2. t.pc = "latest" /\ job' = job
      BY <1>6 DEF FindLatestMessage
    <2>3. t.doc \in Document
      BY <1>1, TaskFields
    <2>4. /\ next.read = t.read /\ next.pc = "save" /\ next.after = t.after
          /\ next.doc = [t.doc EXCEPT !.lastMessage = n]
      BY <1>1 DEF Task
    <2> HIDE DEF next
    <2>5. Arrays(next.doc) = Arrays(t.doc) /\ next.doc.v = t.doc.v
      BY <2>3, <2>4 DEF Arrays, Document
    <2>6. next.doc.admins = t.doc.admins /\ next.doc.participants = t.doc.participants
      BY <2>5 DEF Arrays
    <2>7. Shape(next)
      BY <1>2, <2>2, <2>4, <2>5, <2>6, SameArrays DEF Shape, Hiding
    <2>8. conv # None => Current(next, conv)
      BY <1>2, <2>4 DEF Current
    <2>9. tasks' = [tasks EXCEPT ![r] = next]
      BY <2>1 DEF next
    <2> QED
      BY <1>1, <2>2, <2>4, <2>7, <2>8, <2>9, QuietStep DEF Decided
  <1> QED
    BY <1>4, <1>5, <1>6 DEF Replies

\* The other participant is gone, or everybody has hidden the conversation.
LEMMA NobodyLeft ==
  ASSUME TypeOK, ChatInv, NEW r \in Requests, Looking(r), HiddenForEveryone(tasks[r]), conv # None
  PROVE  Visible(conv) \ gone \subseteq conv.admins \/ reopened \/ FirstIsGone
  <1> DEFINE t == tasks[r]
  <1>1. /\ Shape(t) /\ Current(t, conv) /\ t.user \in t.doc.participants /\ t.user \in t.doc.hiddenBy
        /\ Visible(conv) \subseteq Visible(t.doc) \/ reopened
    BY DEF ChatInv, CopiesInv, LookInv, Looking, Shape, Hiding
  <1>2. CASE t.doc.participants \subseteq t.doc.hiddenBy
    BY <1>1, <1>2 DEF Visible
  <1>3. CASE FirstOther(t.user) \in gone
    <2>1. CASE isGroup
      BY <1>3, <2>1 DEF FirstOther, FirstIsGone
    <2>2. CASE ~isGroup
      <3>1. t.doc.participants = {order[1], order[2]}
        BY <1>1, <2>2 DEF Shape, Current, ChatInv, DirectInv
      <3>2. Visible(t.doc) \subseteq {FirstOther(t.user)}
        BY <1>1, <3>1 DEF FirstOther, Visible
      <3> QED
        BY <1>1, <1>3, <3>2
    <2> QED
      BY <2>1, <2>2
  <1> QED
    BY <1>2, <1>3 DEF HiddenForEveryone

LEMMA GoesStep ==
  ASSUME TypeOK, ChatInv, NEW r \in Requests, Goes(r)
  PROVE  ChatInv'
  <1> DEFINE t == tasks[r]
  <1>1. /\ t \in Task /\ t # None /\ t.pc \in {"other", "findRoom", "makeRoom"}
        /\ UNCHANGED <<isGroup, order, gone, conv, job, abandoned, reopened>>
    BY GoesFacts
  <1>2. PICK s \in Task \union {None} :
          /\ tasks' = [tasks EXCEPT ![r] = s]
          /\ s # None => /\ SameTask(s, t) /\ s.pc \in {"makeRoom", "create", "enqueue"}
                         /\ s.pc = "enqueue" => t.pc = "other" /\ HiddenForEveryone(t)
    BY GoesFacts
  <1>3. IsChat(t) /\ Shape(t) /\ (conv # None => Current(t, conv))
    BY <1>1 DEF IsChat, ChatPc, ChatInv, CopiesInv
  <1>4. ASSUME s # None PROVE Shape(s) /\ (conv # None => Current(s, conv))
    <2>1. SameTask(s, t) /\ s.pc \in {"makeRoom", "create", "enqueue"} /\ (s.pc = "enqueue" => t.pc = "other")
      BY <1>2, <1>4
    <2>2. isGroup => Arrays(s.doc) = Arrays(s.read)
      BY <1>1, <1>3, <2>1 DEF Shape, SameTask
    <2>3. Hiding(s)
      BY <1>3, <2>1 DEF Shape, Hiding, SameTask
    <2>4. Shape(s)
      BY <1>3, <2>1, <2>2, <2>3, SameArrays DEF Shape, SameTask
    <2> QED
      BY <1>3, <2>1, <2>4 DEF Current, SameTask
  <1>5. CASE s = None
    BY <1>1, <1>2, <1>5, QuietStep DEF IsChat, Decided
  <1>6. CASE s # None /\ s.pc # "enqueue"
    BY <1>1, <1>2, <1>4, <1>6, QuietStep DEF Decided
  <1>7. CASE s # None /\ s.pc = "enqueue"
    <2>1. CopiesInv'
      BY <1>1, <1>2, <1>4, <1>7, CopiesStep DEF ChatInv
    <2>2. LookInv'
      BY <1>1, <1>2, <1>7, LookStep DEF ChatInv
    <2>3. AdminInv' /\ DirectInv'
      BY <1>1 DEF ChatInv, AdminInv, DirectInv, HasAdmin, Visible
    <2>4. conv # None => Visible(conv) \ gone \subseteq conv.admins \/ reopened \/ FirstIsGone
      BY <1>2, <1>3, <1>7, NobodyLeft DEF Looking
    <2>5. HideInv'
      BY <1>1, <2>4 DEF HideInv, Visible, FirstIsGone
    <2> QED
      BY <2>1, <2>2, <2>3, <2>5 DEF ChatInv
  <1> QED
    BY <1>2, <1>5, <1>6, <1>7

\* Collaboration requests, the cleanup, deleted accounts and steps that change nothing.
LEMMA OtherStep ==
  ASSUME TypeOK, ChatInv,
         (\E r \in Requests : CollabBegins(r) \/ CollabGoesOn(r)) \/ Expires \/ Cleanup \/ Leaves \/ UNCHANGED vars
  PROVE  ChatInv'
  <1>1. ASSUME NEW r \in Requests, CollabBegins(r) \/ CollabGoesOn(r)
        PROVE  ChatInv'
    <2>1. PICK t \in CollabTask \union {None} : tasks' = [tasks EXCEPT ![r] = t]
      BY <1>1, CollabBeginsType, CollabGoesOnType
    <2>2. UNCHANGED <<isGroup, order, gone, conv, job, abandoned, reopened>>
      <3>1. CASE CollabBegins(r)
        BY <3>1, CollabBeginsType DEF history
      <3>2. CASE CollabGoesOn(r)
        BY <3>2 DEF CollabGoesOn, CheckConversation, CreateRequest, FindRoom, CreateSharedRoom, MakesRoom, DeleteRequest, Announce, Same, history
      <3> QED
        BY <1>1, <3>1, <3>2
    <2>3. ~IsChat(t)
      BY DEF IsChat, CollabTask, ChatPc
    <2> QED
      BY <2>1, <2>2, <2>3, QuietStep DEF Decided
  <1>2. CASE Expires \/ Cleanup \/ Leaves \/ UNCHANGED vars
    <2>1. UNCHANGED <<isGroup, order, tasks, history>> /\ gone \subseteq gone' /\ (conv' = conv \/ conv' = None)
      BY <1>2, CleanupType, LeavesType DEF vars
    <2>2. job' # "none" => job # "none"
      BY <1>2, LeavesType DEF Expires, RequestExpires, Same, Cleanup, StartCleanup, DeleteRooms, DeleteMessages, DeleteConversation,
                              JobStep, vars
    <2>3. Decided' => Decided
      BY <2>1, <2>2 DEF Decided, IsChat
    <2>4. CopiesInv'
      BY <2>1 DEF ChatInv, CopiesInv, IsChat, Shape, Current
    <2>5. AdminInv' /\ HideInv' /\ DirectInv'
      BY <2>1, <2>3, Quiet DEF ChatInv, history
    <2>6. LookInv'
      BY <2>1 DEF ChatInv, LookInv, Looking, IsChat, Visible, history
    <2> QED
      BY <2>4, <2>5, <2>6 DEF ChatInv
  <1> QED
    BY <1>1, <1>2

\* Whoever is one of two is followed by the other.
LEMMA OnlyTwo ==
  ASSUME NEW S \in SUBSET Users, Cardinality(S) = 2, NEW a \in S, NEW b \in S \ {a}
  PROVE  S = {a, b}
  <1>1. IsFiniteSet(S)
    BY UsersAssumption, FS_Subset
  <1>2. Cardinality(S \ {a}) = 1
    BY <1>1, FS_RemoveElement
  <1>3. S \ {a} = {b}
    BY <1>2, OnlyOne
  <1> QED
    BY <1>3

LEMMA ChatInit == Init => ChatInv
  <1> SUFFICES ASSUME Init PROVE ChatInv
    OBVIOUS
  <1>1. (\A r \in Requests : tasks[r] = None) /\ job = "none"
    BY DEF Init
  <1>2. CopiesInv /\ HideInv /\ LookInv
    BY <1>1 DEF CopiesInv, HideInv, LookInv, Looking, Decided, IsChat
  <1>3. AdminInv
    BY DEF Init, AdminInv, HasAdmin, Visible
  <1>4. DirectInv
    <2> SUFFICES ASSUME ~isGroup PROVE conv.participants = {order[1], order[2]}
      BY DEF DirectInv
    <2>1. PICK creator \in Users, participants \in SUBSET Users :
            /\ creator \in participants /\ Cardinality(participants) = 2 /\ conv.participants = participants
            /\ \E other \in participants \ {creator} : order = <<creator, other>>
      BY DEF Init
    <2>2. PICK other \in participants \ {creator} : order = <<creator, other>>
      BY <2>1
    <2>3. participants = {creator, other}
      BY <2>1, <2>2, OnlyTwo
    <2> QED
      BY <2>1, <2>2, <2>3
  <1> QED
    BY <1>2, <1>3, <1>4 DEF ChatInv

LEMMA ChatStep ==
  ASSUME TypeOK, ChatInv, [Next]_vars
  PROVE  ChatInv'
  BY Steps, OpensStep, CreateStep, SaveStep, RepliesStep, GoesStep, OtherStep

LEMMA AlwaysChat == Spec => [](TypeOK /\ ChatInv)
  BY InitType, ChatInit, Steps, ChatStep, PTL DEF Spec

----------------------------------------------------------------------------
(* What requests that run at the same time keep.                           *)

\* GroupKeepsAdmin: removals, invitations and acceptances that run at the same time leave a
\* group its one admin, unless the admin left while nobody else was in it.
THEOREM GroupHasAdmin == Spec => []GroupKeepsAdmin
  <1>1. ChatInv => GroupKeepsAdmin
    BY DEF ChatInv, AdminInv, HasAdmin, GroupKeepsAdmin
  <1> QED
    BY <1>1, AlwaysChat, PTL

\* OnlyHiddenIsDestroyed: a cleanup is for a conversation that nobody with an account lists,
\* or only the admin who deletes it, unless somebody came back meanwhile or one of the first
\* two participants of a group is gone.
THEOREM OnlyHiddenGoes == Spec => []OnlyHiddenIsDestroyed
  <1>1. ChatInv => OnlyHiddenIsDestroyed
    BY DEF ChatInv, HideInv, Decided, OnlyHiddenIsDestroyed
  <1> QED
    BY <1>1, AlwaysChat, PTL

\* MembersStay: only a removal or a hiding of a member takes them out of a group.
THEOREM MembersAreKept == Spec => MembersStay
  <1> DEFINE Stays == isGroup /\ conv # None /\ conv' # None =>
               \A u \in Visible(conv) \ Visible(conv') :
                 \E r \in Requests : /\ tasks[r] # None /\ tasks[r].pc = "save" /\ tasks'[r] # tasks[r]
                                     /\ tasks[r].op \in {"remove", "hide"} /\ tasks[r].target = u
  <1>1. ASSUME TypeOK, ChatInv, NEW r \in Requests, Save(r)
        PROVE  Stays
    <2> SUFFICES ASSUME isGroup, NEW u \in Visible(conv) \ Visible(conv')
                 PROVE  /\ tasks[r] # None /\ tasks[r].pc = "save" /\ tasks'[r] # tasks[r]
                        /\ tasks[r].op \in {"remove", "hide"} /\ tasks[r].target = u
      OBVIOUS
    <2> DEFINE t == tasks[r]
    <2>1. /\ IsChat(t) /\ t.pc = "save" /\ Shape(t) /\ t \in Task
          /\ IF t.after = "done" THEN Finish(r) ELSE Go(r, After(t))
      BY <1>1, SaveFacts, SaveType DEF ChatInv
    <2>2. tasks'[r] # t
      <3>1. CASE t.after = "done"
        BY <1>1, <2>1, <3>1, TypeParts DEF Finish, Go, TasksOK, IsChat
      <3>2. CASE t.after # "done"
        <4>1. After(t).pc # "save"
          BY <2>1, <3>2, AfterType
        <4> QED
          BY <1>1, <2>1, <3>2, <4>1, TypeParts DEF Go, TasksOK
      <3> QED
        BY <3>1, <3>2
    <2>3. Replaces(t)
      BY <1>1, SaveFacts DEF ChatInv, Arrays, Visible
    <2>4. Visible(t.read) = Visible(conv) /\ Visible(t.doc) = Visible(conv')
      BY <1>1, <2>3, SaveFacts DEF ChatInv, Arrays, Visible
    <2>5. t.op \in {"remove", "hide"} /\ t.target = u
      BY <2>1, <2>4 DEF Shape, GoodCopy
    <2> QED
      BY <2>1, <2>2, <2>5 DEF IsChat
  <1>2. ASSUME TypeOK, [Next]_vars, ~\E r \in Requests : Save(r)
        PROVE  Stays
    <2>1. isGroup => conv' = conv \/ conv' = None
      <3>1. ASSUME NEW r \in Requests, CollabBegins(r) \/ CollabGoesOn(r) PROVE conv' = conv
        BY <1>2, <3>1, CollabBeginsType DEF CollabGoesOn, CheckConversation, CreateRequest, FindRoom, CreateSharedRoom, MakesRoom, DeleteRequest, Announce, Same
      <3>2. ASSUME NEW r \in Requests, CreateMessage(r) \/ Replies(r) PROVE conv' = conv
        BY <3>2 DEF CreateMessage, Replies, SaveFails, DeleteMessage, FindLatestMessage, EnqueueConversationCleanup
      <3>3. ASSUME NEW r \in Requests, NEW t \in Task, Opens(r, t), isGroup PROVE conv' = conv
        BY <3>3 DEF Opens
      <3>4. CASE Expires \/ Cleanup \/ Leaves \/ UNCHANGED vars
        BY <1>2, <3>4, CleanupType, LeavesType DEF vars
      <3>5. ASSUME NEW r \in Requests, Goes(r) PROVE conv' = conv
        BY <1>2, <3>5, GoesFacts
      <3> QED
        BY <1>2, <3>1, <3>2, <3>3, <3>4, <3>5, Steps
    <2> QED
      BY <2>1 DEF Visible
  <1>3. TypeOK /\ ChatInv /\ [Next]_vars => Stays
    BY <1>1, <1>2
  <1>4. [][Stays]_vars => MembersStay
    BY PTL DEF MembersStay
  <1> QED
    BY <1>3, <1>4, AlwaysChat, PTL DEF Spec

----------------------------------------------------------------------------
(* What a copy says of the counts and of the last message.                 *)

\* A chat request that begins has changed no count but its user's own, and no last message.
Fresh(t) ==
    /\ t \in Task /\ t.pc \in {"create", "save", "delete", "findRoom", "enqueue"}
    /\ t.doc.lastMessage = t.read.lastMessage
    /\ t.op = "unsend" <=> t.pc = "delete"
    /\ t.op = "unsend" => t.doc = t.read /\ t.after = "done"
    /\ t.op = "send" => t.pc = "create" /\ t.after = "done"
    /\ t.pc # "save" => t.doc.unread = t.read.unread
    /\ \A u \in Users : t.doc.unread[u] # t.read.unread[u] => u = t.user /\ Attends(t)

Starts(r, t) ==
    /\ tasks[r] = None /\ tasks' = [tasks EXCEPT ![r] = t] /\ Fresh(t)
    /\ conv # None /\ conv' \in Document /\ t.read = conv'
    /\ conv'.unread = conv.unread /\ conv'.lastMessage = conv.lastMessage
    /\ crossed' = (crossed \/ \E o \in Others(r) : t.op = "unsend" \/ o.op = "unsend")
    /\ UNCHANGED <<isGroup, messages, job, created, pending, overlooked>>

LEMMA StartStarts ==
  ASSUME TypeOK, NEW r \in Requests, NEW u \in Users, NEW op \in Ops, NEW target \in Users, NEW n \in Nat,
         NEW pc \in ChatPc, pc \notin {"latest", "makeRoom", "other"}, NEW after \in Afters, NEW doc \in Document,
         conv # None, conv' \in Document, conv'.unread = conv.unread, conv'.lastMessage = conv.lastMessage,
         Start(r, u, op, target, n, pc, after, doc),
         doc.lastMessage = conv'.lastMessage, op = "unsend" <=> pc = "delete",
         op = "unsend" => doc = conv' /\ after = "done",
         op = "send" => pc = "create" /\ after = "done",
         pc # "save" => doc.unread = conv'.unread,
         doc.unread = conv'.unread \/ (op \in {"mark", "hide"} /\ \A v \in Users : v # u => doc.unread[v] = conv'.unread[v])
  PROVE  \E t : Starts(r, t)
  <1> DEFINE t == Began(u, op, target, n, pc, after, conv', doc)
  <1>1. t \in Task
    BY BeganType
  <1>2. /\ t.op = op /\ t.pc = pc /\ t.after = after /\ t.user = u /\ t.read = conv' /\ t.doc = doc
        /\ tasks[r] = None /\ tasks' = [tasks EXCEPT ![r] = t]
    BY DEF Began, Start
  <1>3. /\ crossed' = (crossed \/ \E o \in Others(r) : op = "unsend" \/ o.op = "unsend")
        /\ UNCHANGED <<isGroup, messages, job, created, pending, overlooked>>
    BY DEF Start
  <1> HIDE DEF t
  <1>4. Fresh(t)
    BY <1>1, <1>2 DEF Fresh, Attends, ChatPc
  <1> QED
    BY <1>2, <1>3, <1>4 DEF Starts

LEMMA LoadStarts ==
  ASSUME TypeOK, NEW r \in Requests, NEW u \in Users, NEW op \in Ops, NEW target \in Users, NEW n \in Nat,
         NEW pc \in ChatPc, pc \notin {"latest", "makeRoom", "other"}, NEW after \in Afters, NEW doc \in Document,
         conv # None, Load(r, u, op, target, n, pc, after, doc),
         doc.lastMessage = conv.lastMessage, op = "unsend" <=> pc = "delete",
         op = "unsend" => doc = conv /\ after = "done",
         op = "send" => pc = "create" /\ after = "done",
         pc # "save" => doc.unread = conv.unread,
         doc.unread = conv.unread \/ (op \in {"mark", "hide"} /\ \A v \in Users : v # u => doc.unread[v] = conv.unread[v])
  PROVE  \E t : Starts(r, t)
  <1>1. conv \in Document /\ conv' = conv
    BY TypeParts DEF ChatOK, Load
  <1> QED
    BY <1>1, StartStarts DEF Load

LEMMA BeginStarts ==
  ASSUME TypeOK, NEW r \in Requests, NEW u \in Users, Begin(r, u), ~\E other \in Users : SendCollabRequest(r, u, other)
  PROVE  \E t : Starts(r, t)
  <1>0. conv \in Document /\ conv # None /\ 0 \in Nat
    BY TypeParts DEF Begin, SaveMessage, SaveMessageTo, AcceptGroupInvite, EnterGroup, InviteGroupMembers, RemoveGroupMember, MarkAsRead,
                     DeleteGroup, DeleteConversationForUser, IsIn, Sees, ChatOK
  <1>1. CASE SaveMessage(r, u)
    BY <1>0, <1>1, LoadStarts DEF SaveMessage, Ops, ChatPc, Afters
  <1>2. CASE SaveMessageTo(r, u)
    <2>1. conv' = [conv EXCEPT !.hiddenBy = {}] /\ Start(r, u, "send", u, 0, "create", "done", conv')
      BY <1>2 DEF SaveMessageTo
    <2>2. conv' \in Document /\ conv'.unread = conv.unread /\ conv'.lastMessage = conv.lastMessage
      <3>1. conv' \in Document
        BY <1>0, <2>1, Copies
      <3> QED
        BY <1>0, <2>1, <3>1 DEF Document
    <2> QED
      BY <1>0, <2>1, <2>2, StartStarts DEF Ops, ChatPc, Afters
  <1>3. CASE AcceptGroupInvite(r, u)
    <2> DEFINE doc == [conv EXCEPT !.hiddenBy = @ \ {u}]
    <2>1. doc \in Document /\ doc.unread = conv.unread /\ doc.lastMessage = conv.lastMessage
      <3>1. doc \in Document
        BY <1>0, DocumentFields, Copies
      <3> QED
        BY <1>0, <3>1 DEF Document
    <2>2. Load(r, u, "accept", u, 0, "save", "findRoom", doc)
      BY <1>3 DEF AcceptGroupInvite
    <2> HIDE DEF doc
    <2> QED
      BY <1>0, <2>1, <2>2, LoadStarts DEF Ops, ChatPc, Afters
  <1>4. ASSUME NEW member \in Users, InviteGroupMembers(r, u, member)
        PROVE  \E t : Starts(r, t)
    <2> DEFINE doc == [conv EXCEPT !.participants = @ \union {member}, !.hiddenBy = @ \union {member}]
    <2>1. doc \in Document /\ doc.unread = conv.unread /\ doc.lastMessage = conv.lastMessage
      <3>1. doc \in Document
        BY <1>0, DocumentFields, Copies
      <3> QED
        BY <1>0, <3>1 DEF Document
    <2>2. Load(r, u, "invite", member, 0, "save", "create", doc)
      BY <1>4 DEF InviteGroupMembers
    <2> HIDE DEF doc
    <2> QED
      BY <1>0, <2>1, <2>2, LoadStarts DEF Ops, ChatPc, Afters
  <1>5. ASSUME NEW member \in Users, RemoveGroupMember(r, u, member)
        PROVE  \E t : Starts(r, t)
    <2>1. PICK admins \in NextAdmins(member) :
            Load(r, u, "remove", member, 0, "save", "create", [conv EXCEPT !.hiddenBy = @ \union {member}, !.admins = admins])
      BY <1>5 DEF RemoveGroupMember
    <2> DEFINE doc == [conv EXCEPT !.hiddenBy = @ \union {member}, !.admins = admins]
    <2>2. admins \in SUBSET Users
      BY <1>0, DocumentFields DEF NextAdmins, Visible
    <2>3. doc \in Document /\ doc.unread = conv.unread /\ doc.lastMessage = conv.lastMessage
      <3>1. doc \in Document
        BY <1>0, <2>2, DocumentFields, Copies
      <3> QED
        BY <1>0, <3>1 DEF Document
    <2>4. Load(r, u, "remove", member, 0, "save", "create", doc)
      BY <2>1
    <2> HIDE DEF doc
    <2> QED
      BY <1>0, <2>3, <2>4, LoadStarts DEF Ops, ChatPc, Afters
  <1>6. CASE MarkAsRead(r, u)
    <2> DEFINE doc == [conv EXCEPT !.unread[u] = 0]
    <2>1. /\ doc \in Document /\ doc.lastMessage = conv.lastMessage
          /\ \A v \in Users : v # u => doc.unread[v] = conv.unread[v]
      <3>1. doc \in Document
        BY <1>0, Copies
      <3> QED
        BY <1>0, <3>1 DEF Document
    <2>2. Load(r, u, "mark", u, 0, "save", "done", doc)
      BY <1>6 DEF MarkAsRead
    <2> HIDE DEF doc
    <2> QED
      BY <1>0, <2>1, <2>2, LoadStarts DEF Ops, ChatPc, Afters
  <1>7. CASE DeleteGroup(r, u)
    BY <1>0, <1>7, LoadStarts DEF DeleteGroup, Ops, ChatPc, Afters
  <1>8. CASE DeleteConversationForUser(r, u)
    <2> DEFINE doc == [conv EXCEPT !.hiddenBy = @ \union {u}, !.unread[u] = 0]
    <2>1. /\ doc \in Document /\ doc.lastMessage = conv.lastMessage
          /\ \A v \in Users : v # u => doc.unread[v] = conv.unread[v]
      <3>1. doc \in Document
        BY <1>0, DocumentFields, Copies
      <3> QED
        BY <1>0, <3>1 DEF Document
    <2>2. Load(r, u, "hide", u, 0, "save", "other", doc)
      BY <1>8 DEF DeleteConversationForUser
    <2> HIDE DEF doc
    <2> QED
      BY <1>0, <2>1, <2>2, LoadStarts DEF Ops, ChatPc, Afters
  <1>9. CASE EnterGroup(r, u)
    BY <1>0, <1>9, LoadStarts DEF EnterGroup, Ops, ChatPc, Afters
  <1> QED
    BY <1>1, <1>2, <1>3, <1>4, <1>5, <1>6, <1>7, <1>8, <1>9 DEF Begin

\* The steps of the specification, seen from the counts and the messages.
LEMMA Talks ==
  ASSUME TypeOK, [Next]_vars
  PROVE  \/ \E r \in Requests : \E t : Starts(r, t)
         \/ \E r \in Requests : \/ CreateMessage(r) \/ Save(r) \/ Replies(r) \/ Goes(r)
                                \/ \E t \in CollabTask \union {None} :
                                     /\ tasks' = [tasks EXCEPT ![r] = t] /\ (tasks[r] = None \/ tasks[r] \in CollabTask)
                                     /\ UNCHANGED <<isGroup, conv, messages, job, created, pending, overlooked, crossed>>
         \/ Expires \/ Cleanup \/ Leaves \/ UNCHANGED vars
  <1>1. ASSUME NEW r \in Requests, NEW u \in Users, Begin(r, u)
        PROVE  (\E t : Starts(r, t)) \/ CollabBegins(r)
    BY <1>1, BeginStarts DEF CollabBegins
  <1>2. ASSUME NEW r \in Requests, NEW message \in messages, UnsendMessage(r, message)
        PROVE  \E t : Starts(r, t)
    <2>1. message.sender \in Users /\ message.n \in Nat
      BY TypeParts DEF ChatOK, Message
    <2>2. conv \in Document /\ conv # None
      BY <1>2, TypeParts DEF UnsendMessage, Sees, ChatOK
    <2> QED
      BY <1>2, <2>1, <2>2, LoadStarts DEF UnsendMessage, Ops, ChatPc, Afters
  <1>3. ASSUME NEW r \in Requests, CollabBegins(r)
        PROVE  \E t \in CollabTask \union {None} :
                 /\ tasks' = [tasks EXCEPT ![r] = t] /\ (tasks[r] = None \/ tasks[r] \in CollabTask)
                 /\ UNCHANGED <<isGroup, conv, messages, job, created, pending, overlooked, crossed>>
    BY <1>3, CollabBeginsType DEF history
  <1>4. ASSUME NEW r \in Requests, CollabGoesOn(r)
        PROVE  \E t \in CollabTask \union {None} :
                 /\ tasks' = [tasks EXCEPT ![r] = t] /\ (tasks[r] = None \/ tasks[r] \in CollabTask)
                 /\ UNCHANGED <<isGroup, conv, messages, job, created, pending, overlooked, crossed>>
    <2>1. UNCHANGED <<isGroup, conv, messages, job, created, pending, overlooked, crossed>>
      BY <1>4 DEF CollabGoesOn, CheckConversation, CreateRequest, FindRoom, CreateSharedRoom, MakesRoom, DeleteRequest, Announce, Same, history
    <2> QED
      BY <1>4, <2>1, CollabGoesOnType
  <1> QED
    BY <1>1, <1>2, <1>3, <1>4 DEF Next, Replies, Goes, CollabBegins, CollabGoesOn, Expires, Cleanup, Leaves

\* A request that is not a send counts nothing but what its user has looked at, until its
\* own message is counted; a send counts its message for everybody who is to get it.
CountsWell(t) ==
    /\ t.pc # "save" \/ t.op = "unsend" => t.doc.unread = t.read.unread
    /\ t.pc \in {"delete", "latest"} => t.op = "unsend"
    /\ t.op = "unsend" => t.pc \in {"delete", "latest", "save"} /\ t.after = "done"
    /\ t.op = "send" => t.pc \in {"create", "save"} /\ t.after = "done"
    /\ t.pc = "save" =>
        /\ \A u \in Users : t.doc.unread[u] # t.read.unread[u] => t.doc.unread[u] > 0 \/ (u = t.user /\ Attends(t))
        /\ t.op = "send" => \A u \in Recipients(t) : t.doc.unread[u] # t.read.unread[u] /\ t.doc.unread[u] > 0

CountsInv == UnreadIsCounted /\ \A r \in Requests : IsChat(tasks[r]) => CountsWell(tasks[r])

LEMMA OneTask ==
  ASSUME TypeOK, NEW r \in Requests, NEW t, tasks' = [tasks EXCEPT ![r] = t]
  PROVE  \A q \in Requests : tasks'[q] = IF q = r THEN t ELSE tasks[q]
  BY TypeParts DEF TasksOK

LEMMA CountsStay ==
  ASSUME TypeOK, CountsInv, NEW r \in Requests, NEW t, tasks' = [tasks EXCEPT ![r] = t], isGroup' = isGroup,
         IsChat(t) => CountsWell(t)
  PROVE  (\A q \in Requests : IsChat(tasks[q]) => CountsWell(tasks[q]))'
  <1> SUFFICES ASSUME NEW q \in Requests PROVE (IsChat(tasks[q]) => CountsWell(tasks[q]))'
    OBVIOUS
  <1>1. tasks'[q] = t \/ tasks'[q] = tasks[q]
    BY OneTask
  <1>2. IsChat(tasks[q]) => CountsWell(tasks[q])
    BY DEF CountsInv
  <1> QED
    BY <1>1, <1>2 DEF IsChat, CountsWell, Recipients, Visible, Attends

LEMMA UnreadStays ==
  ASSUME UnreadIsCounted, conv' # None => conv # None /\ conv'.unread = conv.unread, UNCHANGED <<pending, overlooked>>
  PROVE  UnreadIsCounted'
  BY DEF UnreadIsCounted

LEMMA SaveUnread ==
  ASSUME TypeOK, CountsInv, NEW r \in Requests, Save(r)
  PROVE  UnreadIsCounted'
  <1> DEFINE t == tasks[r]
  <1>1. t \in Task /\ conv \in Document /\ conv' = Written(t) /\ conv # None
    BY SaveType DEF Save, Saves
  <1>2. IsChat(t) /\ t.pc = "save" /\ CountsWell(t)
    BY DEF Save, IsChat, ChatPc, CountsInv
  <1>3. Looks(t) /\ t.user \in Users
    BY <1>1, TaskFields DEF Save
  <1>4. pending \in [Users -> SUBSET Nat]
    BY TypeParts DEF HistoryOK
  <1> SUFFICES ASSUME NEW u \in Users, pending'[u] # {}
               PROVE  conv'.unread[u] > 0 \/ u \in overlooked'
    BY DEF UnreadIsCounted
  <1>5. conv'.unread[u] = IF t.doc.unread[u] # t.read.unread[u] THEN t.doc.unread[u] ELSE conv.unread[u]
    BY <1>1 DEF Written
  <1>6. CASE u = t.user /\ Attends(t)
    BY <1>3, <1>6 DEF Looks
  <1>7. CASE ~(u = t.user /\ Attends(t)) /\ t.op = "send" /\ u \in Recipients(t)
    BY <1>2, <1>5, <1>7 DEF CountsWell
  <1>8. CASE ~(u = t.user /\ Attends(t)) /\ ~(t.op = "send" /\ u \in Recipients(t))
    <2>1. pending'[u] = pending[u]
      BY <1>3, <1>4, <1>8 DEF Looks
    <2>2. conv.unread[u] > 0 \/ u \in overlooked
      BY <1>1, <2>1 DEF CountsInv, UnreadIsCounted
    <2>3. overlooked \subseteq overlooked'
      BY <1>3 DEF Looks
    <2> QED
      BY <1>2, <1>5, <1>8, <2>2, <2>3 DEF CountsWell
  <1> QED
    BY <1>6, <1>7, <1>8

LEMMA CreateCounts ==
  ASSUME NEW t \in Task, NEW n \in Nat, CountsWell(t), t.pc = "create"
  PROVE  CountsWell([t EXCEPT !.pc = "save", !.after = "done", !.n = n, !.doc = Noted(t, n)])
  <1> DEFINE next == [t EXCEPT !.pc = "save", !.after = "done", !.n = n, !.doc = Noted(t, n)]
  <1>1. t.doc \in Document /\ t.doc.unread = t.read.unread /\ t.op # "unsend"
    BY TaskFields DEF CountsWell
  <1>2. /\ next.pc = "save" /\ next.after = "done" /\ next.op = t.op /\ next.user = t.user /\ next.system = t.system
        /\ next.read = t.read /\ next.doc = Noted(t, n)
    BY DEF Task
  <1> HIDE DEF next
  <1>3. \A u \in Users : next.doc.unread[u] = CountOf(t, u)
    BY <1>1, <1>2 DEF Noted, Document
  <1>4. Recipients(next) = Recipients(t)
    BY <1>2 DEF Recipients
  <1>5. \A u \in Users : t.doc.unread[u] \in Nat /\ t.doc.unread[u] = t.read.unread[u]
    BY <1>1, DocumentFields
  <1>6. Recipients(t) \subseteq Users \ {t.user}
    BY TaskFields, DocumentFields DEF Recipients, Visible
  <1>7. \A u \in Users : next.doc.unread[u] # next.read.unread[u] => next.doc.unread[u] > 0 \/ (u = next.user /\ Attends(next))
    BY <1>1, <1>2, <1>3, <1>5 DEF CountOf, Attends
  <1>8. \A u \in Recipients(next) : next.doc.unread[u] # next.read.unread[u] /\ next.doc.unread[u] > 0
    BY <1>2, <1>3, <1>4, <1>5, <1>6 DEF CountOf
  <1> QED
    BY <1>1, <1>2, <1>7, <1>8 DEF CountsWell, next

\* What the requests that do not create or save do to their task.
LEMMA ReplyTasks ==
  ASSUME TypeOK, NEW r \in Requests, Replies(r)
  PROVE  /\ tasks[r] \in Task /\ IsChat(tasks[r])
         /\ UNCHANGED <<isGroup, conv, created, pending, overlooked, crossed>>
         /\ \/ tasks' = [tasks EXCEPT ![r] = None]
            \/ /\ DeleteMessage(r) /\ WasLastMessage(tasks[r]) /\ tasks[r].pc = "delete"
               /\ tasks' = [tasks EXCEPT ![r] = [tasks[r] EXCEPT !.pc = "latest"]]
            \/ \E n \in Nat : /\ IsLatest(n) /\ messages' = messages /\ job' = job /\ tasks[r].pc = "latest"
                              /\ tasks' = [tasks EXCEPT ![r] = [tasks[r] EXCEPT !.pc = "save", !.doc.lastMessage = n]]
  <1>1. tasks[r] \in Task /\ IsChat(tasks[r])
    BY ChatTask DEF Replies, SaveFails, DeleteMessage, FindLatestMessage, EnqueueConversationCleanup, ChatPc, IsChat
  <1>2. UNCHANGED <<isGroup, conv, created, pending, overlooked, crossed>>
    BY DEF Replies, SaveFails, DeleteMessage, FindLatestMessage, EnqueueConversationCleanup, history
  <1>3. 0..created \subseteq Nat
    BY TypeParts DEF ChatOK
  <1> QED
    BY <1>1, <1>2, <1>3 DEF Replies, SaveFails, DeleteMessage, FindLatestMessage, EnqueueConversationCleanup, Go, Finish

LEMMA LatestTask ==
  ASSUME NEW t \in Task, NEW n \in Nat
  PROVE  /\ LET d == [t EXCEPT !.pc = "latest"]
            IN  d.doc = t.doc /\ d.pc = "latest" /\ d.op = t.op /\ d.after = t.after /\ d.read = t.read /\ d # None
         /\ LET s == [t EXCEPT !.pc = "save", !.doc.lastMessage = n]
            IN  /\ s.pc = "save" /\ s.op = t.op /\ s.after = t.after /\ s.read = t.read
                /\ s.doc.lastMessage = n /\ s.doc.unread = t.doc.unread /\ Arrays(s.doc) = Arrays(t.doc)
  <1>1. [t EXCEPT !.pc = "latest"] \in Task
    BY DEF Task
  <1>2. t.doc \in Document
    BY TaskFields
  <1>3. [t EXCEPT !.pc = "save", !.doc.lastMessage = n].doc = [t.doc EXCEPT !.lastMessage = n]
    BY DEF Task
  <1> QED
    BY <1>1, <1>2, <1>3, TaskFields DEF Task, Document, Arrays

LEMMA FoundTask ==
  ASSUME NEW t \in Task, NEW n \in Nat
  PROVE  [t EXCEPT !.pc = "save", !.doc.lastMessage = n] # None
  <1>1. t.doc \in Document
    BY TaskFields
  <1>2. [t EXCEPT !.pc = "save", !.doc.lastMessage = n] \in Task
    BY <1>1 DEF Task, Document
  <1> QED
    BY <1>2, TaskFields

LEMMA CountsStep ==
  ASSUME TypeOK, CountsInv, [Next]_vars
  PROVE  CountsInv'
  <1>0. UnreadIsCounted
    BY DEF CountsInv
  <1>1. ASSUME NEW r \in Requests, NEW t, Starts(r, t)
        PROVE  CountsInv'
    <2>1. CountsWell(t)
      BY <1>1 DEF Starts, Fresh, CountsWell
    <2>2. UnreadIsCounted'
      BY <1>0, <1>1, UnreadStays DEF Starts
    <2> QED
      BY <1>1, <2>1, <2>2, CountsStay DEF Starts, CountsInv
  <1>2. ASSUME NEW r \in Requests, CreateMessage(r)
        PROVE  CountsInv'
    <2> DEFINE t == tasks[r]
               n == created + 1
    <2>1. t \in Task /\ n \in Nat /\ IsChat(t) /\ t.pc = "create" /\ CountsWell(t)
      BY <1>2, ChatTask, TypeParts DEF CreateMessage, ChatPc, ChatOK, IsChat, CountsInv
    <2>2. tasks' = [tasks EXCEPT ![r] = [t EXCEPT !.pc = "save", !.after = "done", !.n = n, !.doc = Noted(t, n)]]
      BY <1>2 DEF CreateMessage, Go, Noted
    <2>3. UNCHANGED <<isGroup, conv, pending, overlooked>>
      BY <1>2 DEF CreateMessage, history
    <2> QED
      BY <1>0, <2>1, <2>2, <2>3, CreateCounts, CountsStay, UnreadStays DEF CountsInv
  <1>3. ASSUME NEW r \in Requests, Save(r)
        PROVE  CountsInv'
    <2> DEFINE t == tasks[r]
    <2>1. t \in Task /\ IsChat(t) /\ CountsWell(t) /\ isGroup' = isGroup
      BY <1>3, SaveType DEF Save, IsChat, ChatPc, CountsInv
    <2>2. IF t.after = "done" THEN Finish(r) ELSE Go(r, After(t))
      BY <1>3, SaveType
    <2>3. CASE t.after = "done"
      BY <1>3, <2>1, <2>2, <2>3, SaveUnread, CountsStay DEF Finish, Go, IsChat, CountsInv
    <2>4. CASE t.after # "done"
      <3>1. After(t).pc \in {"create", "findRoom", "other"} /\ After(t).doc = After(t).read /\ After(t).op = t.op
        BY <2>1, <2>4, AfterType
      <3>2. CountsWell(After(t))
        BY <2>1, <2>4, <3>1 DEF CountsWell
      <3> QED
        BY <1>3, <2>1, <2>2, <2>4, <3>2, SaveUnread, CountsStay DEF Go, CountsInv
    <2> QED
      BY <2>3, <2>4
  <1>4. ASSUME NEW r \in Requests, Replies(r)
        PROVE  CountsInv'
    <2> DEFINE t == tasks[r]
    <2>1. t \in Task /\ IsChat(t) /\ CountsWell(t) /\ UNCHANGED <<isGroup, conv, pending, overlooked>>
      BY <1>4, ReplyTasks DEF CountsInv
    <2>2. PICK next : tasks' = [tasks EXCEPT ![r] = next] /\ (IsChat(next) => CountsWell(next))
      <3>1. CASE tasks' = [tasks EXCEPT ![r] = None]
        BY <3>1 DEF IsChat
      <3>2. CASE tasks[r].pc = "delete" /\ tasks' = [tasks EXCEPT ![r] = [t EXCEPT !.pc = "latest"]]
        <4> DEFINE next == [t EXCEPT !.pc = "latest"]
        <4>1. next.doc = t.doc /\ next.pc = "latest" /\ next.op = t.op /\ next.after = t.after /\ next.read = t.read
          BY <2>1, LatestTask
        <4> HIDE DEF next
        <4>2. CountsWell(next)
          BY <2>1, <3>2, <4>1 DEF CountsWell
        <4> QED
          BY <3>2, <4>2 DEF next
      <3>3. ASSUME NEW n \in Nat, t.pc = "latest",
                   tasks' = [tasks EXCEPT ![r] = [t EXCEPT !.pc = "save", !.doc.lastMessage = n]]
            PROVE  \E next : tasks' = [tasks EXCEPT ![r] = next] /\ (IsChat(next) => CountsWell(next))
        <4> DEFINE next == [t EXCEPT !.pc = "save", !.doc.lastMessage = n]
        <4>1. /\ next.pc = "save" /\ next.op = t.op /\ next.after = t.after /\ next.read = t.read
              /\ next.doc.unread = t.doc.unread
          BY <2>1, LatestTask
        <4> HIDE DEF next
        <4>2. CountsWell(next)
          BY <2>1, <3>3, <4>1 DEF CountsWell
        <4> QED
          BY <3>3, <4>2 DEF next
      <3> QED
        BY <1>4, <3>1, <3>2, <3>3, ReplyTasks
    <2> QED
      BY <1>0, <2>1, <2>2, CountsStay, UnreadStays DEF CountsInv
  <1>5. ASSUME NEW r \in Requests, NEW t \in CollabTask \union {None}, tasks' = [tasks EXCEPT ![r] = t],
               UNCHANGED <<isGroup, conv, messages, job, created, pending, overlooked, crossed>>
        PROVE  CountsInv'
    <2>1. ~IsChat(t)
      BY DEF IsChat, CollabTask, ChatPc
    <2> QED
      BY <1>0, <1>5, <2>1, CountsStay, UnreadStays DEF CountsInv
  <1>6. CASE Expires \/ Cleanup \/ Leaves \/ UNCHANGED vars
    <2>1. UNCHANGED <<isGroup, tasks, pending, overlooked>> /\ (conv' = conv \/ conv' = None)
      BY <1>6, CleanupType, LeavesType DEF vars, history
    <2>2. UnreadIsCounted'
      BY <1>0, <2>1, UnreadStays
    <2> QED
      BY <2>1, <2>2 DEF CountsInv, IsChat, CountsWell, Recipients, Visible, Attends
  <1>7. ASSUME NEW r \in Requests, Goes(r)
        PROVE  CountsInv'
    <2> DEFINE t == tasks[r]
    <2>1. /\ IsChat(t) /\ CountsWell(t) /\ t.pc \in {"other", "findRoom", "makeRoom"}
          /\ UNCHANGED <<isGroup, conv, pending, overlooked>>
      BY <1>7, GoesFacts DEF IsChat, ChatPc, CountsInv
    <2>2. PICK s : /\ tasks' = [tasks EXCEPT ![r] = s]
                   /\ s # None => SameTask(s, t) /\ s.pc \in {"makeRoom", "create", "enqueue"}
      BY <1>7, GoesFacts
    <2>3. IsChat(s) => CountsWell(s)
      BY <2>1, <2>2 DEF IsChat, CountsWell, SameTask
    <2> QED
      BY <1>0, <2>1, <2>2, <2>3, CountsStay, UnreadStays DEF CountsInv
  <1> QED
    BY <1>1, <1>2, <1>3, <1>4, <1>5, <1>6, <1>7, Talks

LEMMA AlwaysCounts == Spec => [](TypeOK /\ CountsInv)
  <1>1. Init => CountsInv
    BY DEF Init, CountsInv, UnreadIsCounted, IsChat
  <1> QED
    BY <1>1, InitType, Steps, CountsStep, PTL DEF Spec

\* UnreadIsCounted: whatever requests run at the same time, a user with a message they have
\* not looked at has it counted, unless it was being counted while they looked.
THEOREM UnreadStaysCounted == Spec => []UnreadIsCounted
  <1>1. CountsInv => UnreadIsCounted
    BY DEF CountsInv
  <1> QED
    BY <1>1, AlwaysCounts, PTL

----------------------------------------------------------------------------
(* The last message.                                                       *)

Named == {0} \union {message.n : message \in messages}

Unsends(t) == IsChat(t) /\ t.op = "unsend"

\* A request sets the last message to one that is there.  An unsend works on what is stored.
LastWell(t, last, named) ==
    IF t.op = "unsend"
    THEN /\ t.read.lastMessage = last /\ Arrays(t.doc) = Arrays(t.read)
         /\ t.pc # "save" => t.doc.lastMessage = t.read.lastMessage
         /\ t.pc = "save" => t.doc.lastMessage \in named
         /\ t.pc = "delete" => last \in named
    ELSE t.doc.lastMessage = t.read.lastMessage \/ (t.pc = "save" /\ t.doc.lastMessage \in named)

Intact == conv # None /\ job \in {"none", "queued", "started", "roomless", "cleared"} /\ ~crossed

LastInv == Intact =>
    /\ \A r \in Requests : IsChat(tasks[r]) => LastWell(tasks[r], conv.lastMessage, Named)
    /\ \A q, r \in Requests : IsChat(tasks[q]) /\ Unsends(tasks[r]) => q = r
    /\ conv.lastMessage \in Named \/ \E r \in Requests : Unsends(tasks[r])

\* A step of one request that is not an unsend, or of the only request.
LEMMA LastStays ==
  ASSUME TypeOK, LastInv, NEW r \in Requests, NEW t, tasks' = [tasks EXCEPT ![r] = t], Intact' => Intact,
         Intact' => /\ IsChat(t) => LastWell(t, conv'.lastMessage, Named')
                    /\ \A q \in Requests \ {r} : IsChat(tasks[q]) => LastWell(tasks[q], conv'.lastMessage, Named')
                    /\ \A q \in Requests \ {r} : IsChat(tasks[q]) /\ IsChat(t) => ~Unsends(t) /\ ~Unsends(tasks[q])
                    /\ conv'.lastMessage \in Named' \/ Unsends(t) \/ \E q \in Requests \ {r} : Unsends(tasks[q])
  PROVE  LastInv'
  <1>1. \A q \in Requests : tasks'[q] = IF q = r THEN t ELSE tasks[q]
    BY TypeParts DEF TasksOK
  <1> SUFFICES ASSUME Intact'
               PROVE  /\ (\A q \in Requests : IsChat(tasks[q]) => LastWell(tasks[q], conv.lastMessage, Named))'
                      /\ (\A q, o \in Requests : IsChat(tasks[q]) /\ Unsends(tasks[o]) => q = o)'
                      /\ (conv.lastMessage \in Named \/ \E o \in Requests : Unsends(tasks[o]))'
    BY DEF LastInv
  <1>2. (\A q \in Requests : IsChat(tasks[q]) => LastWell(tasks[q], conv.lastMessage, Named))'
    <2> SUFFICES ASSUME NEW q \in Requests, IsChat(tasks'[q]) PROVE LastWell(tasks'[q], conv'.lastMessage, Named')
      BY DEF IsChat, LastWell
    <2>1. CASE q = r
      BY <1>1, <2>1 DEF LastWell
    <2>2. CASE q # r
      BY <1>1, <2>2 DEF LastWell
    <2> QED
      BY <2>1, <2>2
  <1>3. (\A q, o \in Requests : IsChat(tasks[q]) /\ Unsends(tasks[o]) => q = o)'
    <2> SUFFICES ASSUME NEW q \in Requests, NEW o \in Requests, IsChat(tasks'[q]), Unsends(tasks'[o]) PROVE q = o
      BY DEF IsChat, Unsends
    <2> QED
      BY <1>1 DEF LastInv, Unsends
  <1>4. (conv.lastMessage \in Named \/ \E o \in Requests : Unsends(tasks[o]))'
    BY <1>1 DEF Unsends, IsChat
  <1> QED
    BY <1>2, <1>3, <1>4

LEMMA StartsLast ==
  ASSUME TypeOK, LastInv, NEW r \in Requests, NEW t, Starts(r, t)
  PROVE  LastInv'
  <1>1. /\ Fresh(t) /\ tasks[r] = None /\ tasks' = [tasks EXCEPT ![r] = t] /\ t.read = conv'
        /\ conv'.lastMessage = conv.lastMessage /\ messages' = messages /\ Named' = Named /\ (Intact' => Intact)
    BY DEF Starts, Intact, Named
  <1> SUFFICES ASSUME Intact', Intact
               PROVE  /\ IsChat(t) => LastWell(t, conv'.lastMessage, Named')
                      /\ \A q \in Requests \ {r} : IsChat(tasks[q]) => LastWell(tasks[q], conv'.lastMessage, Named')
                      /\ \A q \in Requests \ {r} : IsChat(tasks[q]) /\ IsChat(t) => ~Unsends(t) /\ ~Unsends(tasks[q])
                      /\ conv'.lastMessage \in Named' \/ Unsends(t) \/ \E q \in Requests \ {r} : Unsends(tasks[q])
    BY <1>1, LastStays
  <1>2. \A q \in Requests \ {r} : IsChat(tasks[q]) => t.op # "unsend" /\ tasks[q].op # "unsend"
    BY DEF Starts, Intact, Others, IsChat
  <1>3. \A q \in Requests : Unsends(tasks[q]) => q # r
    BY <1>1 DEF Unsends, IsChat
  <1>4. conv.lastMessage \in Named \/ \E q \in Requests \ {r} : Unsends(tasks[q])
    BY <1>3 DEF LastInv
  <1>5. t.op = "unsend" => conv.lastMessage \in Named
    BY <1>2, <1>4 DEF Unsends
  <1>6. LastWell(t, conv'.lastMessage, Named')
    BY <1>1, <1>5 DEF LastWell, Fresh
  <1>7. \A q \in Requests : IsChat(tasks[q]) => LastWell(tasks[q], conv'.lastMessage, Named')
    BY <1>1 DEF LastInv, Named
  <1> QED
    BY <1>1, <1>2, <1>4, <1>6, <1>7 DEF Unsends

LEMMA CreateLast ==
  ASSUME TypeOK, CountsInv, LastInv, NEW r \in Requests, CreateMessage(r)
  PROVE  LastInv'
  <1> DEFINE t == tasks[r]
             n == created + 1
             next == [t EXCEPT !.pc = "save", !.after = "done", !.n = n, !.doc = Noted(t, n)]
  <1>1. t \in Task /\ n \in Nat /\ IsChat(t) /\ t.pc = "create" /\ t.op # "unsend"
    BY ChatTask, TypeParts DEF CreateMessage, ChatPc, ChatOK, IsChat, CountsInv, CountsWell
  <1>2. tasks' = [tasks EXCEPT ![r] = next] /\ UNCHANGED <<conv, job, crossed>>
    BY DEF CreateMessage, Go, Noted, history
  <1>3. messages' = messages \union {[n |-> n, sender |-> t.user]}
    BY DEF CreateMessage
  <1>4. n \in Named' /\ Named \subseteq Named'
    <2>1. [n |-> n, sender |-> t.user].n = n
      OBVIOUS
    <2> HIDE DEF n, t
    <2> QED
      BY <1>3, <2>1 DEF Named
  <1>5. next.pc = "save" /\ next.op = t.op /\ next.doc.lastMessage = n
    <2>1. t.doc \in Document
      BY <1>1, TaskFields
    <2>2. Noted(t, n).lastMessage = n
      BY <2>1 DEF Noted, Document
    <2> QED
      BY <1>1, <2>2 DEF Task
  <1> HIDE DEF next
  <1>6. Intact' => Intact
    BY <1>2 DEF Intact
  <1> SUFFICES ASSUME Intact', Intact
               PROVE  /\ IsChat(next) => LastWell(next, conv'.lastMessage, Named')
                      /\ \A q \in Requests \ {r} : IsChat(tasks[q]) => LastWell(tasks[q], conv'.lastMessage, Named')
                      /\ \A q \in Requests \ {r} : IsChat(tasks[q]) /\ IsChat(next) => ~Unsends(next) /\ ~Unsends(tasks[q])
                      /\ conv'.lastMessage \in Named' \/ Unsends(next) \/ \E q \in Requests \ {r} : Unsends(tasks[q])
    BY <1>2, <1>6, LastStays
  <1>7. \A q \in Requests : Unsends(tasks[q]) => FALSE
    BY <1>1 DEF LastInv, Unsends
  <1>8. conv.lastMessage \in Named
    BY <1>7 DEF LastInv
  <1>9. \A q \in Requests : IsChat(tasks[q]) => LastWell(tasks[q], conv'.lastMessage, Named')
    <2> SUFFICES ASSUME NEW q \in Requests, IsChat(tasks[q]) PROVE LastWell(tasks[q], conv'.lastMessage, Named')
      OBVIOUS
    <2>1. LastWell(tasks[q], conv.lastMessage, Named) /\ tasks[q].op # "unsend"
      BY <1>7 DEF LastInv, Unsends
    <2> QED
      BY <1>4, <2>1 DEF LastWell
  <1>10. LastWell(next, conv'.lastMessage, Named')
    BY <1>1, <1>4, <1>5 DEF LastWell
  <1> QED
    BY <1>1, <1>2, <1>4, <1>5, <1>7, <1>8, <1>9, <1>10 DEF Unsends

LEMMA SaveLast ==
  ASSUME TypeOK, CountsInv, LastInv, NEW r \in Requests, Save(r)
  PROVE  LastInv'
  <1> DEFINE t == tasks[r]
  <1>1. t \in Task /\ conv \in Document /\ conv' = Written(t)
    BY SaveType
  <1>2. IsChat(t) /\ t.pc = "save" /\ CountsWell(t) /\ conv # None
    BY DEF Save, Saves, IsChat, ChatPc, CountsInv
  <1>3. UNCHANGED <<messages, job, crossed>> /\ Named' = Named /\ (Intact' => Intact)
    BY <1>2 DEF Save, Intact, Named
  <1>4. PICK next : /\ tasks' = [tasks EXCEPT ![r] = next]
                    /\ IsChat(next) => next.op = t.op /\ next.doc = next.read /\ t.op # "unsend"
    <2>1. CASE t.after = "done"
      BY <2>1, SaveType DEF Finish, Go, IsChat
    <2>2. CASE t.after # "done"
      <3>1. After(t).op = t.op /\ After(t).doc = After(t).read
        BY <1>1, <2>2, AfterType
      <3>2. t.op # "unsend"
        BY <1>2, <2>2 DEF CountsWell
      <3>3. tasks' = [tasks EXCEPT ![r] = After(t)]
        BY <2>2, SaveType DEF Go
      <3> QED
        BY <3>1, <3>2, <3>3
    <2> QED
      BY <2>1, <2>2
  <1> SUFFICES ASSUME Intact', Intact
               PROVE  /\ IsChat(next) => LastWell(next, conv'.lastMessage, Named')
                      /\ \A q \in Requests \ {r} : IsChat(tasks[q]) => LastWell(tasks[q], conv'.lastMessage, Named')
                      /\ \A q \in Requests \ {r} : IsChat(tasks[q]) /\ IsChat(next) => ~Unsends(next) /\ ~Unsends(tasks[q])
                      /\ conv'.lastMessage \in Named' \/ Unsends(next) \/ \E q \in Requests \ {r} : Unsends(tasks[q])
    BY <1>3, <1>4, LastStays
  <1>5. \A q \in Requests \ {r} : ~Unsends(tasks[q])
    BY <1>2 DEF LastInv, Unsends
  <1>6. LastWell(t, conv.lastMessage, Named)
    BY <1>2 DEF LastInv
  <1>7. conv'.lastMessage = IF t.doc.lastMessage # t.read.lastMessage THEN t.doc.lastMessage ELSE conv.lastMessage
    BY <1>1 DEF Written
  <1>8. conv'.lastMessage \in Named
    <2>1. CASE t.op = "unsend"
      BY <1>2, <1>6, <1>7, <2>1 DEF LastWell
    <2>2. CASE t.op # "unsend"
      <3>1. conv.lastMessage \in Named
        BY <1>5, <2>2 DEF LastInv, Unsends
      <3> QED
        BY <1>6, <1>7, <2>2, <3>1 DEF LastWell
    <2> QED
      BY <2>1, <2>2
  <1>9. \A q \in Requests \ {r} : IsChat(tasks[q]) => LastWell(tasks[q], conv'.lastMessage, Named')
    <2> SUFFICES ASSUME NEW q \in Requests \ {r}, IsChat(tasks[q]) PROVE LastWell(tasks[q], conv'.lastMessage, Named')
      OBVIOUS
    <2>1. LastWell(tasks[q], conv.lastMessage, Named) /\ tasks[q].op # "unsend"
      BY <1>5 DEF LastInv, Unsends
    <2> QED
      BY <1>3, <2>1 DEF LastWell
  <1>10. IsChat(next) => LastWell(next, conv'.lastMessage, Named') /\ ~Unsends(next)
    BY <1>4 DEF LastWell, Unsends
  <1> QED
    BY <1>3, <1>5, <1>8, <1>9, <1>10

LEMMA RepliesLast ==
  ASSUME TypeOK, CountsInv, LastInv, NEW r \in Requests, Replies(r)
  PROVE  LastInv'
  <1> DEFINE t == tasks[r]
  <1>1. t \in Task /\ IsChat(t) /\ CountsWell(t) /\ UNCHANGED <<conv, crossed>>
    BY ReplyTasks DEF CountsInv
  <1>2. job' = job \/ (job = "none" /\ job' = "queued")
    BY DEF Replies, SaveFails, DeleteMessage, FindLatestMessage, EnqueueConversationCleanup
  <1>3. Intact' => Intact
    BY <1>1, <1>2 DEF Intact
  <1>4. ASSUME messages' = messages
        PROVE  Intact => \A q \in Requests : IsChat(tasks[q]) => LastWell(tasks[q], conv'.lastMessage, Named')
    BY <1>1, <1>4 DEF LastInv, Named
  <1>5. CASE SaveFails(r) \/ EnqueueConversationCleanup(r)
    <2>1. tasks' = [tasks EXCEPT ![r] = None] /\ ~IsChat(None) /\ messages' = messages /\ Named' = Named
      BY <1>5 DEF SaveFails, EnqueueConversationCleanup, Finish, Go, IsChat, Named
    <2> SUFFICES ASSUME Intact
                 PROVE  conv.lastMessage \in Named \/ \E q \in Requests \ {r} : Unsends(tasks[q])
      BY <1>1, <1>3, <1>4, <2>1, LastStays
    <2>2. ~Unsends(t)
      <3>1. CASE SaveFails(r)
        <4>1. conv # None => Replaces(t)
          BY <3>1 DEF SaveFails, Saves, Outdated
        <4>2. Unsends(t) => ~Replaces(t)
          BY DEF LastInv, LastWell, Unsends, Replaces
        <4> QED
          BY <4>1, <4>2 DEF Intact
      <3>2. CASE EnqueueConversationCleanup(r)
        BY <1>1, <3>2 DEF EnqueueConversationCleanup, CountsWell, Unsends
      <3> QED
        BY <1>5, <3>1, <3>2
    <2> QED
      BY <2>2 DEF LastInv
  <1>6. CASE DeleteMessage(r)
    <2>1. /\ t.pc = "delete" /\ t.op = "unsend" /\ messages' = {message \in messages : message.n # t.n}
          /\ IF WasLastMessage(t) THEN tasks' = [tasks EXCEPT ![r] = [t EXCEPT !.pc = "latest"]]
             ELSE tasks' = [tasks EXCEPT ![r] = None]
      BY <1>1, <1>6 DEF DeleteMessage, Go, Finish, CountsWell
    <2>2. Intact => \A q \in Requests \ {r} : ~IsChat(tasks[q])
      BY <1>1, <2>1 DEF LastInv, Unsends
    <2>3. Intact => LastWell(t, conv.lastMessage, Named) /\ t.read.lastMessage = conv.lastMessage /\ conv.lastMessage \in Named
      BY <1>1, <2>1 DEF LastInv, LastWell
    <2>4. CASE WasLastMessage(t)
      <3> DEFINE next == [t EXCEPT !.pc = "latest"]
      <3>1. next.doc = t.doc /\ next.pc = "latest" /\ next.op = t.op /\ next.read = t.read /\ next # None
        BY <1>1, LatestTask
      <3>2. tasks' = [tasks EXCEPT ![r] = next]
        BY <2>1, <2>4
      <3> HIDE DEF next
      <3>3. Intact => LastWell(next, conv'.lastMessage, Named')
        BY <1>1, <2>1, <2>3, <3>1 DEF LastWell, Arrays
      <3>4. Unsends(next)
        BY <2>1, <3>1 DEF Unsends, IsChat, ChatPc
      <3> QED
        BY <1>3, <2>2, <3>2, <3>3, <3>4, LastStays
    <2>5. CASE ~WasLastMessage(t)
      <3>1. Intact => conv'.lastMessage \in Named'
        BY <1>1, <2>1, <2>3, <2>5 DEF WasLastMessage, Named
      <3>2. tasks' = [tasks EXCEPT ![r] = None] /\ ~IsChat(None)
        BY <2>1, <2>5 DEF IsChat
      <3> QED
        BY <1>3, <2>2, <3>1, <3>2, LastStays
    <2> QED
      BY <2>4, <2>5
  <1>7. CASE FindLatestMessage(r)
    <2>1. PICK n \in 0..created : IsLatest(n) /\ tasks' = [tasks EXCEPT ![r] = [t EXCEPT !.pc = "save", !.doc.lastMessage = n]]
      BY <1>7 DEF FindLatestMessage, Go
    <2> DEFINE next == [t EXCEPT !.pc = "save", !.doc.lastMessage = n]
    <2>2. n \in Nat /\ n \in Named
      BY <2>1, TypeParts DEF ChatOK, IsLatest, Named
    <2>3. t.pc = "latest" /\ t.op = "unsend" /\ messages' = messages /\ Named' = Named
      BY <1>1, <1>7 DEF FindLatestMessage, CountsWell, Named
    <2>4. /\ next.pc = "save" /\ next.op = t.op /\ next.read = t.read
          /\ next.doc.lastMessage = n /\ Arrays(next.doc) = Arrays(t.doc)
      BY <1>1, <2>2, LatestTask
    <2>10. next # None
      BY <1>1, <2>2, FoundTask
    <2>5. tasks' = [tasks EXCEPT ![r] = next]
      BY <2>1
    <2> HIDE DEF next
    <2>6. Intact => \A q \in Requests \ {r} : ~IsChat(tasks[q])
      BY <1>1, <2>3 DEF LastInv, Unsends
    <2>7. Intact => LastWell(t, conv.lastMessage, Named)
      BY <1>1 DEF LastInv
    <2>8. Intact => LastWell(next, conv'.lastMessage, Named')
      BY <1>1, <2>2, <2>3, <2>4, <2>7 DEF LastWell, Arrays
    <2>9. IsChat(next) => Unsends(next)
      BY <2>3, <2>4 DEF Unsends
    <2> QED
      BY <1>3, <2>4, <2>5, <2>6, <2>8, <2>9, <2>10, LastStays DEF IsChat, ChatPc
  <1> QED
    BY <1>5, <1>6, <1>7 DEF Replies

LEMMA GoesLast ==
  ASSUME TypeOK, CountsInv, LastInv, NEW r \in Requests, Goes(r)
  PROVE  LastInv'
  <1> DEFINE t == tasks[r]
  <1>1. /\ IsChat(t) /\ CountsWell(t) /\ t.pc \in {"other", "findRoom", "makeRoom"}
        /\ UNCHANGED <<conv, messages, job, crossed>>
    BY GoesFacts DEF IsChat, ChatPc, CountsInv
  <1>2. PICK s : /\ tasks' = [tasks EXCEPT ![r] = s]
                 /\ s # None => SameTask(s, t) /\ s.pc \in {"makeRoom", "create", "enqueue"}
    BY GoesFacts
  <1>3. Named' = Named /\ (Intact' => Intact) /\ t.op # "unsend" /\ ~Unsends(t)
    BY <1>1 DEF Named, Intact, CountsWell, Unsends
  <1> SUFFICES ASSUME Intact
               PROVE  /\ IsChat(s) => LastWell(s, conv'.lastMessage, Named')
                      /\ \A q \in Requests \ {r} : IsChat(tasks[q]) => LastWell(tasks[q], conv'.lastMessage, Named')
                      /\ \A q \in Requests \ {r} : IsChat(tasks[q]) /\ IsChat(s) => ~Unsends(s) /\ ~Unsends(tasks[q])
                      /\ conv'.lastMessage \in Named' \/ Unsends(s) \/ \E q \in Requests \ {r} : Unsends(tasks[q])
    BY <1>2, <1>3, LastStays
  <1>4. LastWell(t, conv.lastMessage, Named)
    BY <1>1 DEF LastInv
  <1>5. IsChat(s) => LastWell(s, conv'.lastMessage, Named') /\ ~Unsends(s)
    BY <1>1, <1>2, <1>3, <1>4 DEF LastWell, IsChat, Unsends, SameTask
  <1>6. \A q \in Requests : IsChat(tasks[q]) => LastWell(tasks[q], conv'.lastMessage, Named') /\ ~Unsends(tasks[q])
    BY <1>1, <1>3 DEF LastInv, Unsends, Named
  <1>7. conv'.lastMessage \in Named'
    BY <1>1, <1>3, <1>6 DEF LastInv, Unsends
  <1> QED
    BY <1>5, <1>6, <1>7

LEMMA LastStep ==
  ASSUME TypeOK, CountsInv, LastInv, [Next]_vars
  PROVE  LastInv'
  <1>1. ASSUME NEW r \in Requests, NEW t \in CollabTask \union {None}, tasks' = [tasks EXCEPT ![r] = t],
               tasks[r] = None \/ tasks[r] \in CollabTask,
               UNCHANGED <<isGroup, conv, messages, job, created, pending, overlooked, crossed>>
        PROVE  LastInv'
    <2>1. ~IsChat(t) /\ ~IsChat(tasks[r])
      BY <1>1 DEF IsChat, CollabTask, ChatPc
    <2>2. Named' = Named /\ (Intact' => Intact)
      BY <1>1 DEF Named, Intact
    <2>3. Intact => \A q \in Requests : IsChat(tasks[q]) => LastWell(tasks[q], conv'.lastMessage, Named')
      BY <1>1 DEF LastInv, Named
    <2>4. Intact => conv'.lastMessage \in Named' \/ \E q \in Requests \ {r} : Unsends(tasks[q])
      BY <1>1, <2>1, <2>2 DEF LastInv, Unsends
    <2> QED
      BY <1>1, <2>1, <2>2, <2>3, <2>4, LastStays
  <1>2. CASE Expires \/ Cleanup \/ Leaves \/ UNCHANGED vars
    <2>1. UNCHANGED <<tasks, crossed>> /\ (conv' = conv \/ conv' = None)
      BY <1>2, CleanupType, LeavesType DEF vars, history
    <2>2. Intact' => Intact /\ messages' = messages /\ conv' = conv
      BY <1>2, <2>1, LeavesType DEF Intact, Expires, RequestExpires, Same, Cleanup, StartCleanup, DeleteRooms, DeleteMessages,
                        DeleteConversation, JobStep, vars
    <2> QED
      BY <2>1, <2>2 DEF LastInv, LastWell, Named, Unsends, IsChat
  <1> QED
    BY <1>1, <1>2, StartsLast, CreateLast, SaveLast, RepliesLast, GoesLast, Talks

LEMMA AlwaysLast == Spec => [](TypeOK /\ CountsInv /\ LastInv)
  <1>1. Init => CountsInv /\ LastInv
    BY DEF Init, CountsInv, UnreadIsCounted, IsChat, LastInv, Unsends, Named
  <1> QED
    BY <1>1, InitType, Steps, CountsStep, LastStep, PTL DEF Spec

\* LastMessageIsThere: when no request runs, the conversation names a message that is there,
\* or none, unless an unsend ran beside another request.
THEOREM LastMessageStays == Spec => []LastMessageIsThere
  <1>1. LastInv => LastMessageIsThere
    BY DEF LastInv, Intact, Unsends, IsChat, Named, LastMessageIsThere
  <1> QED
    BY <1>1, AlwaysLast, PTL
=============================================================================
