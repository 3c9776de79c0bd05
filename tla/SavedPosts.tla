------------------------------ MODULE SavedPosts ------------------------------
(***************************************************************************)
(* The posts one user has saved and the collections they are in: the       *)
(* requests of save.service and the part of cleanupPost that removes the   *)
(* saves of a post and refreshes covers.  One step per await; the branches *)
(* of a Promise.all take effect in any order.                              *)
(***************************************************************************)
EXTENDS Integers, FiniteSets

CONSTANTS
    Posts,
    Plain,          \* posts without media
    Names,          \* names a user gives to collections
    Requests,       \* requests that run at the same time
    None,
    MaxCollections, \* bound: collections made
    MaxStarts       \* bound: requests started, so also saves made

\* DEFAULT_SAVE_COLLECTION_NAME, DEFAULT_SAVE_COVER
CONSTANTS AllSaved, DefaultCover

ASSUME PlainAssumption == Plain \subseteq Posts
ASSUME CoverAssumption == DefaultCover \notin Posts
ASSUME BoundsAssumption == MaxCollections \in Nat /\ MaxStarts \in Nat

VARIABLES
    collections,    \* by id; ids are given in turn and not again
    saves,
    visible,        \* posts that are visible
    cleanup,        \* progress of the cleanup of every post
    affected,       \* collections whose covers a cleanup still refreshes, with the cover it has found
    req,            \* what every request is doing
    ids, stamps,    \* collections and saves made so far
    started,        \* requests started so far
    mixed,          \* history: two requests ran at the same time
    late,           \* history: a post was cleaned up while a request or another cleanup ran
    raced           \* history: collections that were saved into and deleted at the same time

history == <<mixed, late, raced>>
posts == <<visible, cleanup, affected>>
vars == <<collections, saves, posts, req, ids, stamps, started, history>>

----------------------------------------------------------------------------
Ids == 1..MaxCollections
Collection == [name: Names \union {AllSaved}, system: BOOLEAN, selected: BOOLEAN, cover: Posts \union {DefaultCover}]

\* There is one save of a post: the index on post and user is unique.
Save == [n: Nat, post: Posts, collection: Ids]

\* collection is the collection asked for, then the one that is used; 0 stands for none.
Request == [op: {"save", "unsave", "move", "create", "rename", "delete", "list"},
            pc: {"owned", "selected", "default", "select", "cover", "existing", "update", "insert", "latest", "media",
                 "refresh", "target", "previous", "upsert", "make", "name", "remove"},
            post: Posts \union {None}, collection: 0..MaxCollections, source: 0..MaxCollections, n: Nat,
            name: Names \union {AllSaved}, left: SUBSET {"first", "second"}, image: Posts \union {DefaultCover}]

ASSUME NoneAssumption == None \notin Posts \union {DefaultCover} \union Collection \union Request

TypeOK ==
    /\ collections \in [Ids -> Collection \union {None}]
    /\ saves \subseteq Save
    /\ visible \subseteq Posts /\ cleanup \in [Posts -> {"none", "hidden", "read", "refresh", "done"}]
    /\ affected \in [Posts -> SUBSET (Ids \X (Posts \union {DefaultCover, None}))]
    /\ req \in [Requests -> Request \union {None}]
    /\ ids \in 0..MaxCollections /\ stamps \in Nat /\ started \in 0..MaxStarts
    /\ mixed \in BOOLEAN /\ late \in BOOLEAN /\ raced \subseteq Ids

\* A user who has saved nothing yet.
Init ==
    /\ collections = [c \in Ids |-> None] /\ saves = {}
    /\ visible = Posts /\ cleanup = [p \in Posts |-> "none"] /\ affected = [p \in Posts |-> {}]
    /\ req = [r \in Requests |-> None]
    /\ ids = 0 /\ stamps = 0 /\ started = 0
    /\ mixed = FALSE /\ late = FALSE /\ raced = {}

----------------------------------------------------------------------------
(* Collections.                                                            *)

Exists(c) == c \in Ids /\ collections[c] # None
Existing == {c \in Ids : Exists(c)}
Taken(name) == \E c \in Existing : collections[c].name = name

\* getMediaCoverImage
CoverImage(p) == IF p \in Plain THEN DefaultCover ELSE p

New(name, system) == [name |-> name, system |-> system, selected |-> TRUE, cover |-> DefaultCover]

\* A collection that is new, or nothing happens where ids are bounded.
Make(collection) ==
    /\ ids < MaxCollections
    /\ ids' = ids + 1
    /\ collections' = [collections EXCEPT ![ids + 1] = collection]

WithCover(c, image) == IF Exists(c) THEN [collections EXCEPT ![c].cover = image] ELSE collections

\* Variant with a bug: the others stay selected.
ClearsNone(kept) == collections

\* clearSelected, selectOnly
Cleared(kept) ==
    [c \in Ids |-> IF Exists(c) /\ c # kept THEN [collections[c] EXCEPT !.selected = FALSE] ELSE collections[c]]

----------------------------------------------------------------------------
(* Requests.                                                               *)

Running(q) == {r \in Requests : q[r] # None}

\* Collections that one request deletes while another saves a post into them.
Contested(q) ==
    {c \in Ids : \E d, r \in Running(q) : /\ q[d].op = "delete" /\ q[d].collection = c
                                          /\ q[r].op \in {"save", "move"} /\ q[r].collection = c}

Go(r, task) ==
    /\ req' = [req EXCEPT ![r] = task]
    /\ raced' = raced \union Contested(req')

Finish(r) == Go(r, None)
GoTo(r, pc) == Go(r, [req[r] EXCEPT !.pc = pc])
At(r, pc) == req[r] # None /\ req[r].pc = pc
Rest == UNCHANGED <<posts, started, mixed, late>>

Cleaning == {p \in Posts : cleanup[p] \in {"read", "refresh"}}

Task(op, pc, p, c, source, name) ==
    [op |-> op, pc |-> pc, post |-> p, collection |-> c, source |-> source, n |-> 0, name |-> name,
     left |-> {"first", "second"}, image |-> DefaultCover]

\* A request that begins, with what its first await has read.
Start(r, task) ==
    /\ req[r] = None /\ started < MaxStarts
    /\ started' = started + 1
    /\ Go(r, task)
    /\ mixed' = (mixed \/ Running(req) # {})
    /\ late' = (late \/ Cleaning # {})
    /\ UNCHANGED posts

Nothing == UNCHANGED <<collections, saves, ids, stamps>>

\* savePost, with or without a collection: getPostActionTarget
SavePost(r, p, c) ==
    /\ p \in visible
    /\ Start(r, Task("save", IF c = 0 THEN "selected" ELSE "owned", p, c, 0, AllSaved))
    /\ Nothing

\* changeSavedPostCollection
ChangeSavedPostCollection(r, p, c) ==
    /\ p \in visible /\ c # 0
    /\ Start(r, Task("move", "target", p, c, 0, AllSaved))
    /\ Nothing

\* What is to be done with the collection as it was read: it is selected, given a cover, or
\* left as it is.
Activate(r, c) ==
    LET pc == IF ~collections[c].selected THEN "select"
              ELSE IF collections[c].cover = DefaultCover THEN "cover" ELSE "existing"
    IN  Go(r, [req[r] EXCEPT !.collection = c, !.pc = pc])

\* getActiveCollection: the collection asked for, else the selected one, else the default.
FindOwned(r) ==
    /\ At(r, "owned")
    /\ IF Exists(req[r].collection) THEN Activate(r, req[r].collection)
       ELSE Go(r, [req[r] EXCEPT !.collection = 0, !.pc = "selected"])
    /\ Rest /\ Nothing

FindSelected(r) ==
    /\ At(r, "selected")
    /\ LET selected == {c \in Existing : collections[c].selected}
       IN  IF selected = {} THEN GoTo(r, "default") ELSE \E c \in selected : Activate(r, c)
    /\ Rest /\ Nothing

\* After ensureDefaultCollection has returned c.
HasDefault(r, c, cover) ==
    CASE req[r].op = "save" ->
            Go(r, [req[r] EXCEPT !.collection = c, !.pc = IF cover = DefaultCover THEN "cover" ELSE "existing"])
      [] req[r].op = "delete" -> GoTo(r, "remove")
      [] OTHER -> Finish(r)

\* The default is selected, or made; it cannot be made when its name is taken.
EnsureDefaultCollection(r) ==
    /\ At(r, "default")
    /\ \/ \E c \in Existing :
            /\ collections[c].system
            /\ collections' = [collections EXCEPT ![c].selected = TRUE]
            /\ HasDefault(r, c, collections[c].cover) /\ UNCHANGED ids
       \/ /\ \A c \in Existing : ~collections[c].system
          /\ IF Taken(AllSaved) THEN Finish(r) /\ UNCHANGED <<collections, ids>>
             ELSE Make(New(AllSaved, TRUE)) /\ HasDefault(r, ids + 1, DefaultCover)
    /\ Rest /\ UNCHANGED <<saves, stamps>>

\* Variant with a bug: the collection a post was moved out of keeps its cover.
NeverLeft(task) == FALSE

HasLeft(task) == task.source \notin {0, task.collection}

\* What follows the two updates of selectOnly.
Selected(r) ==
    IF req[r].op = "save" THEN GoTo(r, "existing")
    ELSE IF HasLeft(req[r]) THEN GoTo(r, "latest") ELSE Finish(r)

SelectOnly(r) ==
    LET task == req[r]
        c == task.collection
    IN  /\ At(r, "select")
        /\ \E write \in task.left :
            /\ collections' =
                IF write = "second" THEN Cleared(c)
                ELSE IF Exists(c)
                THEN [collections EXCEPT ![c].selected = TRUE, ![c].cover = CoverImage(task.post)] ELSE collections
            /\ IF task.left = {write} THEN Selected(r) ELSE Go(r, [task EXCEPT !.left = @ \ {write}])
        /\ Rest /\ UNCHANGED <<saves, ids, stamps>>

UpdateCover(r) ==
    /\ At(r, "cover")
    /\ collections' = WithCover(req[r].collection, CoverImage(req[r].post))
    /\ GoTo(r, "existing")
    /\ Rest /\ UNCHANGED <<saves, ids, stamps>>

SavesOf(p) == {s \in saves : s.post = p}

\* findByUserAndPost
FindSave(r) ==
    LET task == req[r]
    IN  /\ At(r, "existing")
        /\ \/ SavesOf(task.post) = {} /\ GoTo(r, "insert")
           \/ \E s \in SavesOf(task.post) :
                IF s.collection = task.collection THEN Finish(r)
                ELSE Go(r, [task EXCEPT !.source = s.collection, !.n = s.n, !.pc = "update"])
        /\ Rest /\ Nothing

Moved(moved, c) == {IF s \in moved THEN [s EXCEPT !.collection = c] ELSE s : s \in saves}

\* saves.updateCollection, by the id of the save
UpdateCollection(r) ==
    /\ At(r, "update")
    /\ saves' = Moved({s \in saves : s.n = req[r].n}, req[r].collection)
    /\ GoTo(r, "latest")
    /\ Rest /\ UNCHANGED <<collections, ids, stamps>>

Insert(p, c) ==
    /\ stamps' = stamps + 1
    /\ saves' = saves \union {[n |-> stamps + 1, post |-> p, collection |-> c]}

\* A duplicate is ignored.
CreateSave(r) ==
    /\ At(r, "insert")
    /\ IF SavesOf(req[r].post) = {} THEN Insert(req[r].post, req[r].collection) ELSE UNCHANGED <<saves, stamps>>
    /\ Finish(r)
    /\ Rest /\ UNCHANGED <<collections, ids>>

----------------------------------------------------------------------------
(* refreshCollectionCover: the cover of the latest post that is left.      *)

SavesIn(c) == {s \in saves : s.collection = c}
Latest(c) == {s \in SavesIn(c) : \A t \in SavesIn(c) : t.n <= s.n}

FindLatest(r) ==
    /\ At(r, "latest")
    /\ \/ Latest(req[r].source) = {} /\ Go(r, [req[r] EXCEPT !.image = DefaultCover, !.pc = "refresh"])
       \/ \E s \in Latest(req[r].source) : Go(r, [req[r] EXCEPT !.post = s.post, !.pc = "media"])
    /\ Rest /\ Nothing

CoverMedia(p) == IF p \in visible THEN CoverImage(p) ELSE DefaultCover

FindCoverMedia(r) ==
    /\ At(r, "media")
    /\ Go(r, [req[r] EXCEPT !.image = CoverMedia(req[r].post), !.pc = "refresh"])
    /\ Rest /\ Nothing

RefreshCover(r) ==
    /\ At(r, "refresh")
    /\ collections' = WithCover(req[r].source, req[r].image)
    /\ Finish(r)
    /\ Rest /\ UNCHANGED <<saves, ids, stamps>>

----------------------------------------------------------------------------
(* The other requests.                                                     *)

\* findOneAndDelete; then the cover of the collection it was in is refreshed.
UnsavePost(r, p) ==
    /\ \E s \in SavesOf(p) :
        /\ Start(r, Task("unsave", "latest", p, 0, s.collection, AllSaved))
        /\ saves' = saves \ {s}
    /\ UNCHANGED <<collections, ids, stamps>>

\* changeSavedPostCollection, after the post was found
FindTarget(r) ==
    /\ At(r, "target")
    /\ IF Exists(req[r].collection) THEN GoTo(r, "previous") ELSE Finish(r)
    /\ Rest /\ Nothing

FindPrevious(r) ==
    /\ At(r, "previous")
    /\ \/ SavesOf(req[r].post) = {} /\ GoTo(r, "upsert")
       \/ \E s \in SavesOf(req[r].post) : Go(r, [req[r] EXCEPT !.source = s.collection, !.pc = "upsert"])
    /\ Rest /\ Nothing

UpsertCollection(r) ==
    LET p == req[r].post
        c == req[r].collection
    IN  /\ At(r, "upsert")
        /\ IF SavesOf(p) = {} THEN Insert(p, c) ELSE saves' = Moved(SavesOf(p), c) /\ UNCHANGED stamps
        /\ GoTo(r, "select")
        /\ Rest /\ UNCHANGED <<collections, ids>>

\* createCollection: what was selected is not any more, whether the name is taken or not.
CreateCollection(r, name) ==
    /\ Start(r, Task("create", "make", None, 0, 0, name))
    /\ collections' = Cleared(0)
    /\ UNCHANGED <<saves, ids, stamps>>

MakeCollection(r) ==
    /\ At(r, "make")
    /\ IF Taken(req[r].name) THEN UNCHANGED <<collections, ids>> ELSE Make(New(req[r].name, FALSE))
    /\ Finish(r)
    /\ Rest /\ UNCHANGED <<saves, stamps>>

\* updateCollection: not the default, not to a name that is taken.
RenameCollection(r, c, name) ==
    /\ Exists(c) /\ ~collections[c].system
    /\ Start(r, Task("rename", "name", None, c, 0, name))
    /\ Nothing

UpdateName(r) ==
    LET c == req[r].collection
    IN  /\ At(r, "name")
        /\ collections' = IF Exists(c) /\ ~Taken(req[r].name) THEN [collections EXCEPT ![c].name = req[r].name]
                          ELSE collections
        /\ Finish(r)
        /\ Rest /\ UNCHANGED <<saves, ids, stamps>>

\* deleteCollection: the default is selected in place of a selected collection.
DeleteCollection(r, c) ==
    /\ Exists(c) /\ ~collections[c].system
    /\ Start(r, Task("delete", IF collections[c].selected THEN "default" ELSE "remove", None, c, 0, AllSaved))
    /\ Nothing

\* Variant with a bug: the saves are kept.
KeepsSaves(c) == {}

DeletedWith(c) == SavesIn(c)

RemoveCollection(r) ==
    LET task == req[r]
        c == task.collection
    IN  /\ At(r, "remove")
        /\ \E write \in task.left :
            /\ IF write = "first" THEN collections' = [collections EXCEPT ![c] = None] /\ UNCHANGED saves
               ELSE saves' = saves \ DeletedWith(c) /\ UNCHANGED collections
            /\ IF task.left = {write} THEN Finish(r) ELSE Go(r, [task EXCEPT !.left = @ \ {write}])
        /\ Rest /\ UNCHANGED <<ids, stamps>>

\* getSavedPostsCollections of a user who has none
ListCollections(r) ==
    /\ Existing = {}
    /\ Start(r, Task("list", "default", None, 0, 0, AllSaved))
    /\ Nothing

----------------------------------------------------------------------------
(* The deletion of a post: it is hidden, then its cleanup finds its saves, *)
(* deletes them and refreshes the covers of the collections they were in.  *)

CleanupGoesOn == UNCHANGED <<visible, req, ids, stamps, started, mixed, raced>>

HidePost(p) ==
    /\ p \in visible
    /\ visible' = visible \ {p} /\ cleanup' = [cleanup EXCEPT ![p] = "hidden"]
    /\ UNCHANGED <<collections, saves, affected, req, ids, stamps, started, history>>

FindAffectedSaves(p) ==
    /\ cleanup[p] = "hidden"
    /\ cleanup' = [cleanup EXCEPT ![p] = "read"]
    /\ affected' = [affected EXCEPT ![p] = {<<s.collection, None>> : s \in SavesOf(p)}]
    /\ late' = (late \/ Running(req) # {} \/ Cleaning # {})
    /\ CleanupGoesOn /\ UNCHANGED <<collections, saves>>

DeleteSaves(p) ==
    /\ cleanup[p] = "read"
    /\ cleanup' = [cleanup EXCEPT ![p] = IF affected[p] = {} THEN "done" ELSE "refresh"]
    /\ saves' = saves \ SavesOf(p)
    /\ CleanupGoesOn /\ UNCHANGED <<collections, affected, late>>

FindNextCover(p) ==
    /\ cleanup[p] = "refresh"
    /\ \E todo \in affected[p] :
        /\ todo[2] = None
        /\ \E image \in IF Latest(todo[1]) = {} THEN {DefaultCover} ELSE {CoverMedia(s.post) : s \in Latest(todo[1])} :
             affected' = [affected EXCEPT ![p] = (@ \ {todo}) \union {<<todo[1], image>>}]
    /\ CleanupGoesOn /\ UNCHANGED <<collections, saves, cleanup, late>>

UpdateNextCover(p) ==
    /\ cleanup[p] = "refresh"
    /\ \E todo \in affected[p] :
        /\ todo[2] # None
        /\ collections' = WithCover(todo[1], todo[2])
        /\ affected' = [affected EXCEPT ![p] = @ \ {todo}]
        /\ cleanup' = [cleanup EXCEPT ![p] = IF affected[p] = {todo} THEN "done" ELSE "refresh"]
    /\ CleanupGoesOn /\ UNCHANGED <<saves, late>>

----------------------------------------------------------------------------
Begin(r) ==
    \/ \E p \in Posts, c \in 0..MaxCollections : SavePost(r, p, c) \/ ChangeSavedPostCollection(r, p, c)
    \/ \E p \in Posts : UnsavePost(r, p)
    \/ \E name \in Names \union {AllSaved} :
        CreateCollection(r, name) \/ \E c \in Ids : RenameCollection(r, c, name)
    \/ \E c \in Ids : DeleteCollection(r, c)
    \/ ListCollections(r)

GoOn(r) ==
    \/ FindOwned(r) \/ FindSelected(r) \/ EnsureDefaultCollection(r) \/ SelectOnly(r) \/ UpdateCover(r)
    \/ FindSave(r) \/ UpdateCollection(r) \/ CreateSave(r)
    \/ FindLatest(r) \/ FindCoverMedia(r) \/ RefreshCover(r)
    \/ FindTarget(r) \/ FindPrevious(r) \/ UpsertCollection(r)
    \/ MakeCollection(r) \/ UpdateName(r) \/ RemoveCollection(r)

Next ==
    \/ \E r \in Requests : Begin(r) \/ GoOn(r)
    \/ \E p \in Posts : HidePost(p) \/ FindAffectedSaves(p) \/ DeleteSaves(p) \/ FindNextCover(p) \/ UpdateNextCover(p)

Spec == Init /\ [][Next]_vars

----------------------------------------------------------------------------
(* Properties.                                                             *)

\* At most one collection is selected when nothing runs, unless two requests ran at the same
\* time (selectOnly, clearSelected, ensureDefaultCollection).
OneSelected ==
    Running(req) = {} /\ ~mixed => \A c, d \in Existing : collections[c].selected /\ collections[d].selected => c = d

\* A save is in a collection that exists, whatever runs at the same time, unless the post was
\* being saved into it while it was deleted (savePost, changeSavedPostCollection,
\* deleteCollection).
SavesHaveCollection ==
    \A s \in saves : \/ Exists(s.collection) \/ s.collection \in raced
                     \/ \E r \in Running(req) : req[r].op = "delete" /\ req[r].collection = s.collection

\* A collection shows a post that is in it, or the default when it is empty, once the posts
\* that went are cleaned up and unless requests or cleanups ran at the same time
\* (refreshCollectionCover, refreshAffectedCollectionCovers, savePost).
CoversAreSaved ==
    Running(req) = {} /\ ~mixed /\ ~late /\ (\A p \in Posts : cleanup[p] \in {"none", "done"}) =>
        \A c \in Existing :
            collections[c].cover \in IF SavesIn(c) = {} THEN {DefaultCover} ELSE {CoverImage(s.post) : s \in SavesIn(c)}
=============================================================================
