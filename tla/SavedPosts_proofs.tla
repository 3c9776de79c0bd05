-------------------------- MODULE SavedPosts_proofs --------------------------
(***************************************************************************)
(* For any posts, requests and bounds: collections, saves and requests     *)
(* keep their types; a save is in a collection that exists, whatever runs  *)
(* at the same time; requests one after the other leave one collection     *)
(* selected, and covers of posts that are saved.                           *)
(***************************************************************************)
EXTENDS SavedPosts, WellFoundedInduction, TLAPS

----------------------------------------------------------------------------
(* What every request looks like at every step.                            *)

Both == {"first", "second"}

\* The collection a request is about to put a post into was found, or made.
Wants(t) ==
    /\ t.op \in {"save", "move"}
    /\ t.pc \in {"select", "cover", "existing", "update", "insert", "previous", "upsert"}

\* The awaits of every operation.
OnItsWay(t) ==
    /\ t.op = "save" => t.pc \in {"owned", "selected", "default", "select", "cover", "existing", "update", "insert",
                                  "latest", "media", "refresh"}
    /\ t.op = "move" => t.pc \in {"target", "previous", "upsert", "select", "latest", "media", "refresh"}
    /\ t.op = "unsave" => t.pc \in {"latest", "media", "refresh"}
    /\ t.op = "delete" => t.pc \in {"default", "remove"}
    /\ t.op = "create" => t.pc = "make"
    /\ t.op = "rename" => t.pc = "name"
    /\ t.op = "list" => t.pc = "default"

Well(t) ==
    /\ OnItsWay(t)
    /\ t.op \in {"save", "move", "unsave"} => t.post \in Posts
    /\ Wants(t) \/ t.op \in {"delete", "rename"} => t.collection \in Ids
    /\ t.pc \in {"owned", "selected", "default", "target", "previous", "upsert"} => t.left = Both

TypeInv == TypeOK /\ \A r \in Requests : req[r] # None => Well(req[r])

\* The parts of TypeOK.
CollectionsOK == collections \in [Ids -> Collection \union {None}] /\ ids \in 0..MaxCollections
SavesOK == saves \subseteq Save /\ stamps \in Nat
PostsOK ==
    /\ visible \subseteq Posts /\ cleanup \in [Posts -> {"none", "hidden", "read", "refresh", "done"}]
    /\ affected \in [Posts -> SUBSET (Ids \X (Posts \union {DefaultCover, None}))]
RequestsOK == req \in [Requests -> Request \union {None}] /\ started \in 0..MaxStarts
HistoryOK == mixed \in BOOLEAN /\ late \in BOOLEAN /\ raced \subseteq Ids

LEMMA TypeParts == TypeOK <=> CollectionsOK /\ SavesOK /\ PostsOK /\ RequestsOK /\ HistoryOK
  BY DEF TypeOK, CollectionsOK, SavesOK, PostsOK, RequestsOK, HistoryOK

LEMMA TypePartsNext == TypeOK' <=> CollectionsOK' /\ SavesOK' /\ PostsOK' /\ RequestsOK' /\ HistoryOK'
  BY DEF TypeOK, CollectionsOK, SavesOK, PostsOK, RequestsOK, HistoryOK

Ops == {"save", "unsave", "move", "create", "rename", "delete", "list"}
Pcs == {"owned", "selected", "default", "select", "cover", "existing", "update", "insert", "latest", "media",
        "refresh", "target", "previous", "upsert", "make", "name", "remove"}

LEMMA RequestFields ==
  ASSUME NEW t \in Request
  PROVE  /\ t.op \in Ops /\ t.pc \in Pcs /\ t.post \in Posts \union {None} /\ t.collection \in 0..MaxCollections
         /\ t.source \in 0..MaxCollections /\ t.n \in Nat /\ t.name \in Names \union {AllSaved}
         /\ t.left \subseteq Both /\ t.image \in Posts \union {DefaultCover} /\ t # None
  BY NoneAssumption DEF Request, Ops, Pcs, Both

LEMMA TaskType ==
  ASSUME NEW op \in Ops, NEW pc \in Pcs, NEW p \in Posts \union {None}, NEW c \in 0..MaxCollections,
         NEW source \in 0..MaxCollections, NEW name \in Names \union {AllSaved}
  PROVE  LET t == Task(op, pc, p, c, source, name)
         IN  /\ t \in Request /\ t.op = op /\ t.pc = pc /\ t.post = p /\ t.collection = c
             /\ t.source = source /\ t.left = Both
  BY DEF Task, Request, Ops, Pcs, Both

\* The ways a request goes on.
LEMMA Updated ==
  ASSUME NEW t \in Request, NEW pc \in Pcs
  PROVE  /\ [t EXCEPT !.pc = pc] \in Request
         /\ \A c \in 0..MaxCollections : [t EXCEPT !.collection = c, !.pc = pc] \in Request
         /\ \A c \in 0..MaxCollections, n \in Nat : [t EXCEPT !.source = c, !.n = n, !.pc = pc] \in Request
         /\ \A c \in 0..MaxCollections : [t EXCEPT !.source = c, !.pc = pc] \in Request
         /\ \A p \in Posts : [t EXCEPT !.post = p, !.pc = pc] \in Request
         /\ \A image \in Posts \union {DefaultCover} : [t EXCEPT !.image = image, !.pc = pc] \in Request
  <1>1. [t EXCEPT !.pc = pc] \in Request
    BY DEF Request, Pcs
  <1>2. \A c \in 0..MaxCollections : [t EXCEPT !.collection = c, !.pc = pc] \in Request
    BY DEF Request, Pcs
  <1>3. \A c \in 0..MaxCollections, n \in Nat : [t EXCEPT !.source = c, !.n = n, !.pc = pc] \in Request
    BY DEF Request, Pcs
  <1>4. \A c \in 0..MaxCollections : [t EXCEPT !.source = c, !.pc = pc] \in Request
    BY DEF Request, Pcs
  <1>5. \A p \in Posts : [t EXCEPT !.post = p, !.pc = pc] \in Request
    BY DEF Request, Pcs
  <1>6. \A image \in Posts \union {DefaultCover} : [t EXCEPT !.image = image, !.pc = pc] \in Request
    BY DEF Request, Pcs
  <1> QED
    BY <1>1, <1>2, <1>3, <1>4, <1>5, <1>6

LEMMA LeftOver ==
  ASSUME NEW t \in Request, NEW left \in SUBSET Both
  PROVE  [t EXCEPT !.left = left] \in Request
  BY DEF Request, Both

LEMMA IdRange == Ids \subseteq 0..MaxCollections /\ 0 \notin Ids /\ 0 \in 0..MaxCollections
  BY BoundsAssumption DEF Ids

LEMMA CollectionFields ==
  ASSUME NEW x \in Collection
  PROVE  /\ x.name \in Names \union {AllSaved} /\ x.system \in BOOLEAN /\ x.selected \in BOOLEAN
         /\ x.cover \in Posts \union {DefaultCover} /\ x # None
  BY NoneAssumption DEF Collection

----------------------------------------------------------------------------
(* What a step of a request does, but the removal of a collection.         *)

\* Collections keep their types and stay.
KeepsCollections ==
    /\ CollectionsOK'
    /\ \A c \in Ids : Exists(c) => Exists(c)'

LEMMA SameCollections ==
  ASSUME TypeOK, UNCHANGED <<collections, ids>>
  PROVE  KeepsCollections
  BY TypeParts DEF CollectionsOK, KeepsCollections, Exists

LEMMA MakeKeeps ==
  ASSUME TypeOK, NEW x \in Collection, Make(x)
  PROVE  KeepsCollections /\ ids + 1 \in Ids /\ collections'[ids + 1] # None
  <1>1. ids + 1 \in Ids /\ ids' \in 0..MaxCollections
    BY TypeParts, BoundsAssumption DEF CollectionsOK, Make, Ids
  <1>2. x # None
    BY CollectionFields
  <1>3. collections \in [Ids -> Collection \union {None}] /\ collections' = [collections EXCEPT ![ids + 1] = x]
    BY TypeParts DEF CollectionsOK, Make
  <1>4. collections' \in [Ids -> Collection \union {None}] /\ collections'[ids + 1] = x
    BY <1>1, <1>3
  <1>5. \A c \in Ids : collections[c] # None => collections'[c] # None
    BY <1>2, <1>3
  <1>6. CollectionsOK'
    BY <1>1, <1>4 DEF CollectionsOK
  <1>7. collections'[ids + 1] # None
    BY <1>2, <1>4
  <1>8. \A c \in Ids : Exists(c) => Exists(c)'
    BY <1>5 DEF Exists
  <1> QED
    BY <1>1, <1>6, <1>7, <1>8 DEF KeepsCollections

LEMMA ChangeKeeps ==
  ASSUME TypeOK, ids' = ids, collections' \in [Ids -> Collection \union {None}],
         \A c \in Ids : collections[c] # None => collections'[c] # None
  PROVE  KeepsCollections
  BY TypeParts DEF CollectionsOK, KeepsCollections, Exists

LEMMA CoverKeeps ==
  ASSUME TypeOK, NEW c, NEW image \in Posts \union {DefaultCover}, ids' = ids, collections' = WithCover(c, image)
  PROVE  KeepsCollections
  <1>1. \A d \in Ids : collections[d] # None => [collections[d] EXCEPT !.cover = image] \in Collection
    BY TypeParts DEF CollectionsOK, Collection
  <1>2. \A x \in Collection : x # None
    BY CollectionFields
  <1> QED
    BY <1>1, <1>2, TypeParts, ChangeKeeps DEF CollectionsOK, WithCover, Exists

LEMMA ClearKeeps ==
  ASSUME TypeOK, NEW c, ids' = ids, collections' = Cleared(c)
  PROVE  KeepsCollections
  <1>1. \A d \in Ids : collections[d] # None => [collections[d] EXCEPT !.selected = FALSE] \in Collection
    BY TypeParts DEF CollectionsOK, Collection
  <1>2. \A x \in Collection : x # None
    BY CollectionFields
  <1> QED
    BY <1>1, <1>2, TypeParts, ChangeKeeps DEF CollectionsOK, Cleared, Exists

\* Saves keep their type, and none is put into a collection but one the request wants.
WritesSaves(r) ==
    /\ SavesOK'
    /\ \A s \in saves' : \/ \E old \in saves : old.collection = s.collection
                         \/ req[r] # None /\ Wants(req[r]) /\ s.collection = req[r].collection

Step(r, t) ==
    /\ t \in Request \union {None} /\ (t # None => Well(t)) /\ Go(r, t)
    /\ req[r] # None => req[r].pc # "remove"
    /\ t # None /\ Wants(t) => \/ t.collection \in Ids /\ collections'[t.collection] # None
                               \/ req[r] # None /\ Wants(req[r]) /\ req[r].collection = t.collection
    /\ t # None /\ t.op = "delete" => t.left = Both
    /\ KeepsCollections /\ WritesSaves(r)
    /\ UNCHANGED posts
    /\ started' \in 0..MaxStarts /\ mixed' \in BOOLEAN /\ late' \in BOOLEAN

\* A request that begins.
LEMMA StartStep ==
  ASSUME TypeInv, NEW r \in Requests, NEW t \in Request, Start(r, t), Well(t), ~Wants(t), t.left = Both,
         KeepsCollections, saves' \subseteq saves, stamps' = stamps
  PROVE  Step(r, t)
  <1>1. started' \in 0..MaxStarts /\ mixed' \in BOOLEAN /\ late' \in BOOLEAN
    BY TypeParts, BoundsAssumption DEF TypeInv, RequestsOK, HistoryOK, Start
  <1>2. SavesOK'
    BY TypeParts DEF TypeInv, SavesOK
  <1> QED
    BY <1>1, <1>2 DEF Start, Step, WritesSaves

LEMMA BeginSteps ==
  ASSUME TypeInv, NEW r \in Requests, Begin(r)
  PROVE  \E t : Step(r, t)
  <1>0. /\ Ids \subseteq 0..MaxCollections /\ 0 \in 0..MaxCollections /\ 0 \notin Ids
        /\ AllSaved \in Names \union {AllSaved} /\ visible \subseteq Posts
    BY IdRange, TypeParts DEF TypeInv, PostsOK
  <1>1. ASSUME NEW p \in Posts, NEW c \in 0..MaxCollections, SavePost(r, p, c)
        PROVE  \E t : Step(r, t)
    <2> DEFINE pc == IF c = 0 THEN "selected" ELSE "owned"
               t == Task("save", pc, p, c, 0, AllSaved)
    <2>1. pc \in Pcs /\ "save" \in Ops
      BY DEF Pcs, Ops
    <2>2. t \in Request /\ t.op = "save" /\ t.pc = pc /\ t.post = p /\ t.left = Both
      BY <1>0, <2>1, TaskType
    <2>3. Well(t) /\ ~Wants(t)
      BY <2>2 DEF Well, OnItsWay, Wants
    <2>4. Start(r, t) /\ Nothing
      BY <1>1 DEF SavePost
    <2> QED
      BY <2>2, <2>3, <2>4, StartStep, SameCollections DEF Nothing, TypeInv
  <1>2. ASSUME NEW p \in Posts, NEW c \in 0..MaxCollections, ChangeSavedPostCollection(r, p, c)
        PROVE  \E t : Step(r, t)
    <2> DEFINE t == Task("move", "target", p, c, 0, AllSaved)
    <2>1. t \in Request /\ t.op = "move" /\ t.pc = "target" /\ t.post = p /\ t.left = Both
      BY <1>0, TaskType DEF Pcs, Ops
    <2>2. Well(t) /\ ~Wants(t)
      BY <2>1 DEF Well, OnItsWay, Wants
    <2>3. Start(r, t) /\ Nothing
      BY <1>2 DEF ChangeSavedPostCollection
    <2> QED
      BY <2>1, <2>2, <2>3, StartStep, SameCollections DEF Nothing, TypeInv
  <1>3. ASSUME NEW p \in Posts, UnsavePost(r, p)
        PROVE  \E t : Step(r, t)
    <2>1. PICK s \in SavesOf(p) : Start(r, Task("unsave", "latest", p, 0, s.collection, AllSaved)) /\ saves' = saves \ {s}
      BY <1>3 DEF UnsavePost
    <2> DEFINE t == Task("unsave", "latest", p, 0, s.collection, AllSaved)
    <2>2. s.collection \in 0..MaxCollections
      BY <1>0, TypeParts DEF TypeInv, SavesOK, SavesOf, Save
    <2>3. t \in Request /\ t.op = "unsave" /\ t.pc = "latest" /\ t.post = p /\ t.left = Both
      BY <1>0, <2>2, TaskType DEF Pcs, Ops
    <2>4. Well(t) /\ ~Wants(t)
      BY <2>3 DEF Well, OnItsWay, Wants
    <2>5. UNCHANGED <<collections, ids, stamps>>
      BY <1>3 DEF UnsavePost
    <2> QED
      BY <2>1, <2>3, <2>4, <2>5, StartStep, SameCollections DEF TypeInv
  <1>4. ASSUME NEW name \in Names \union {AllSaved}, CreateCollection(r, name)
        PROVE  \E t : Step(r, t)
    <2> DEFINE t == Task("create", "make", None, 0, 0, name)
    <2>0. "create" \in Ops /\ "make" \in Pcs
      BY DEF Ops, Pcs
    <2>1. t \in Request /\ t.op = "create" /\ t.pc = "make" /\ t.left = Both
      BY <1>0, <2>0, TaskType
    <2>2. Well(t) /\ ~Wants(t)
      BY <2>1 DEF Well, OnItsWay, Wants
    <2>3. Start(r, t) /\ collections' = Cleared(0) /\ UNCHANGED <<saves, ids, stamps>>
      BY <1>4 DEF CreateCollection
    <2>4. KeepsCollections
      BY <2>3, ClearKeeps DEF TypeInv
    <2> QED
      BY <2>1, <2>2, <2>3, <2>4, StartStep
  <1>5. ASSUME NEW c \in Ids, NEW name \in Names \union {AllSaved}, RenameCollection(r, c, name)
        PROVE  \E t : Step(r, t)
    <2> DEFINE t == Task("rename", "name", None, c, 0, name)
    <2>0. "rename" \in Ops /\ "name" \in Pcs
      BY DEF Ops, Pcs
    <2>1. t \in Request /\ t.op = "rename" /\ t.pc = "name" /\ t.collection = c /\ t.left = Both
      BY <1>0, <2>0, TaskType
    <2>2. Well(t) /\ ~Wants(t)
      BY <2>1 DEF Well, OnItsWay, Wants
    <2>3. Start(r, t) /\ Nothing
      BY <1>5 DEF RenameCollection
    <2> QED
      BY <2>1, <2>2, <2>3, StartStep, SameCollections DEF Nothing, TypeInv
  <1>6. ASSUME NEW c \in Ids, DeleteCollection(r, c)
        PROVE  \E t : Step(r, t)
    <2> DEFINE pc == IF collections[c].selected THEN "default" ELSE "remove"
               t == Task("delete", pc, None, c, 0, AllSaved)
    <2>1. pc \in Pcs /\ pc \in {"default", "remove"} /\ "delete" \in Ops
      BY DEF Pcs, Ops
    <2>2. t \in Request /\ t.op = "delete" /\ t.pc = pc /\ t.collection = c /\ t.left = Both
      BY <1>0, <2>1, TaskType
    <2>3. Start(r, t) /\ Nothing
      BY <1>6 DEF DeleteCollection
    <2> HIDE DEF pc, t
    <2>4. Well(t) /\ ~Wants(t)
      BY <2>1, <2>2 DEF Well, OnItsWay, Wants
    <2> QED
      BY <2>2, <2>3, <2>4, StartStep, SameCollections DEF Nothing, TypeInv
  <1>7. CASE ListCollections(r)
    <2> DEFINE t == Task("list", "default", None, 0, 0, AllSaved)
    <2>1. t \in Request /\ t.op = "list" /\ t.pc = "default" /\ t.left = Both
      BY <1>0, TaskType DEF Pcs, Ops
    <2>2. Well(t) /\ ~Wants(t)
      BY <2>1 DEF Well, OnItsWay, Wants
    <2>3. Start(r, t) /\ Nothing
      BY <1>7 DEF ListCollections
    <2> QED
      BY <2>1, <2>2, <2>3, StartStep, SameCollections DEF Nothing, TypeInv
  <1> QED
    BY <1>1, <1>2, <1>3, <1>4, <1>5, <1>6, <1>7 DEF Begin
\* A request that goes on.
LEMMA GoStep ==
  ASSUME TypeInv, NEW r \in Requests, req[r] # None, req[r].pc # "remove", NEW t \in Request \union {None}, Go(r, t),
         t # None => Well(t),
         t # None /\ Wants(t) => \/ t.collection \in Ids /\ collections'[t.collection] # None
                                 \/ Wants(req[r]) /\ req[r].collection = t.collection,
         t # None /\ t.op = "delete" => t.left = Both,
         KeepsCollections, UNCHANGED <<saves, stamps>> \/ WritesSaves(r), Rest
  PROVE  Step(r, t)
  <1>1. started' \in 0..MaxStarts /\ mixed' \in BOOLEAN /\ late' \in BOOLEAN
    BY TypeParts DEF TypeInv, RequestsOK, HistoryOK, Rest
  <1>2. WritesSaves(r)
    BY TypeParts DEF TypeInv, SavesOK, WritesSaves
  <1> QED
    BY <1>1, <1>2 DEF Step, Rest

LEMMA FinishStep ==
  ASSUME TypeInv, NEW r \in Requests, req[r] # None, req[r].pc # "remove", Finish(r),
         KeepsCollections, UNCHANGED <<saves, stamps>> \/ WritesSaves(r), Rest
  PROVE  \E t : Step(r, t)
  BY GoStep DEF Finish

\* What is known of a request at an await.
LEMMA AtWell ==
  ASSUME TypeInv, NEW r \in Requests, NEW pc, At(r, pc)
  PROVE  req[r] \in Request /\ req[r] # None /\ req[r].pc = pc /\ Well(req[r])
  BY TypeParts DEF TypeInv, RequestsOK, At

LEMMA PcStep ==
  ASSUME TypeInv, NEW r \in Requests, req[r] # None, req[r].pc # "remove", NEW pc \in Pcs, GoTo(r, pc),
         LET t == [req[r] EXCEPT !.pc = pc] IN
            /\ OnItsWay(t)
            /\ Wants(t) \/ t.op \in {"delete", "rename"} => t.collection \in Ids
            /\ t.pc \in {"owned", "selected", "default", "target", "previous", "upsert"} => t.left = Both
            /\ Wants(t) => Wants(req[r]) \/ collections'[t.collection] # None
            /\ t.op = "delete" => t.left = Both,
         KeepsCollections, UNCHANGED <<saves, stamps>> \/ WritesSaves(r), Rest
  PROVE  \E t : Step(r, t)
  <1> DEFINE t == [req[r] EXCEPT !.pc = pc]
  <1>1. req[r] \in Request /\ Well(req[r])
    BY TypeParts DEF TypeInv, RequestsOK
  <1>2. t \in Request /\ t.op = req[r].op /\ t.post = req[r].post /\ t.collection = req[r].collection
    <2>1. t \in Request
      BY <1>1, Updated
    <2> QED
      BY <1>1, <2>1 DEF Request
  <1>3. Go(r, t)
    BY DEF GoTo
  <1> HIDE DEF t
  <1>4. Well(t)
    BY <1>1, <1>2 DEF Well, t
  <1>5. Wants(t) => t.collection \in Ids
    BY <1>4 DEF Well
  <1>6. Step(r, t)
    BY <1>2, <1>3, <1>4, <1>5, GoStep DEF t
  <1> QED
    BY <1>6

LEMMA ActivateStep ==
  ASSUME TypeInv, NEW r \in Requests, req[r] # None, req[r].op = "save", req[r].pc \in {"owned", "selected"}, NEW c \in Ids,
         collections[c] # None, Activate(r, c), Rest, Nothing
  PROVE  \E t : Step(r, t)
  <1> DEFINE pc == IF ~collections[c].selected THEN "select"
                   ELSE IF collections[c].cover = DefaultCover THEN "cover" ELSE "existing"
             t == [req[r] EXCEPT !.collection = c, !.pc = pc]
  <1>1. req[r] \in Request /\ Well(req[r]) /\ c \in 0..MaxCollections
    BY TypeParts, IdRange DEF TypeInv, RequestsOK
  <1>2. pc \in Pcs /\ pc \in {"select", "cover", "existing"}
    BY DEF Pcs
  <1>3. Go(r, t)
    BY DEF Activate
  <1>4. t \in Request /\ t.op = "save" /\ t.post = req[r].post /\ t.collection = c /\ t.pc = pc
    <2>1. t \in Request
      BY <1>1, <1>2, Updated
    <2> QED
      BY <1>1, <2>1 DEF Request
  <1> HIDE DEF t, pc
  <1>5. Well(t)
    BY <1>1, <1>2, <1>4 DEF Well, OnItsWay
  <1>6. KeepsCollections /\ collections' = collections /\ UNCHANGED <<saves, stamps>>
    BY SameCollections DEF Nothing, TypeInv
  <1>7. Step(r, t)
    BY <1>2, <1>3, <1>4, <1>5, <1>6, GoStep
  <1> QED
    BY <1>7

\* savePost, until it knows its collection; the default collection.
LEMMA FindSteps ==
  ASSUME TypeInv, NEW r \in Requests, FindOwned(r) \/ FindSelected(r)
  PROVE  \E t : Step(r, t)
  <1>1. CASE FindOwned(r)
    <2>1. req[r] \in Request /\ req[r] # None /\ req[r].pc = "owned" /\ req[r].op = "save" /\ Well(req[r]) /\ Rest /\ Nothing
      BY <1>1, AtWell, RequestFields DEF FindOwned, Well, OnItsWay, Ops
    <2>2. CASE Exists(req[r].collection)
      BY <1>1, <2>1, <2>2, ActivateStep DEF FindOwned, Exists
    <2>3. CASE ~Exists(req[r].collection)
      <3> DEFINE t == [req[r] EXCEPT !.collection = 0, !.pc = "selected"]
      <3>1. t \in Request /\ t.op = "save" /\ t.post = req[r].post /\ t.pc = "selected" /\ t.left = req[r].left
        <4>1. "selected" \in Pcs /\ 0 \in 0..MaxCollections
          BY IdRange DEF Pcs
        <4>2. t \in Request
          BY <2>1, <4>1, Updated
        <4> QED
          BY <2>1, <4>2 DEF Request
      <3>2. Go(r, t)
        BY <1>1, <2>3 DEF FindOwned
      <3> HIDE DEF t
      <3>3. Well(t) /\ ~Wants(t)
        BY <2>1, <3>1 DEF Well, OnItsWay, Wants
      <3>4. KeepsCollections /\ UNCHANGED <<saves, stamps>>
        BY <2>1, SameCollections DEF Nothing, TypeInv
      <3>5. Step(r, t)
        BY <2>1, <3>1, <3>2, <3>3, <3>4, GoStep
      <3> QED
        BY <3>5
    <2> QED
      BY <2>2, <2>3
  <1>2. CASE FindSelected(r)
    <2>1. req[r] \in Request /\ req[r] # None /\ req[r].pc = "selected" /\ req[r].op = "save" /\ Well(req[r]) /\ Rest /\ Nothing
      BY <1>2, AtWell, RequestFields DEF FindSelected, Well, OnItsWay, Ops
    <2>2. ASSUME NEW c \in Existing, Activate(r, c) PROVE \E t : Step(r, t)
      BY <2>1, <2>2, ActivateStep DEF Existing, Exists
    <2>3. CASE GoTo(r, "default")
      <3>1. [req[r] EXCEPT !.pc = "default"].pc = "default" /\ [req[r] EXCEPT !.pc = "default"].op = "save"
            /\ [req[r] EXCEPT !.pc = "default"].left = Both
        BY <2>1 DEF Request, Well
      <3>2. KeepsCollections /\ UNCHANGED <<saves, stamps>> /\ "default" \in Pcs
        BY <2>1, SameCollections DEF Nothing, TypeInv, Pcs
      <3> QED
        BY <2>1, <2>3, <3>1, <3>2, PcStep DEF OnItsWay, Wants
    <2> QED
      BY <1>2, <2>2, <2>3 DEF FindSelected
  <1> QED
    BY <1>1, <1>2

LEMMA HasDefaultStep ==
  ASSUME TypeInv, NEW r \in Requests, At(r, "default"), NEW c \in Ids, NEW cover, HasDefault(r, c, cover), KeepsCollections,
         collections'[c] # None, UNCHANGED <<saves, stamps>>, Rest
  PROVE  \E t : Step(r, t)
  <1>1. req[r] \in Request /\ req[r] # None /\ req[r].pc = "default" /\ Well(req[r]) /\ c \in 0..MaxCollections
    BY AtWell, IdRange
  <1>2. CASE req[r].op = "save"
    <2> DEFINE pc == IF cover = DefaultCover THEN "cover" ELSE "existing"
               t == [req[r] EXCEPT !.collection = c, !.pc = pc]
    <2>1. pc \in Pcs /\ pc \in {"cover", "existing"}
      BY DEF Pcs
    <2>2. Go(r, t)
      BY <1>2 DEF HasDefault
    <2>3. t \in Request /\ t.op = "save" /\ t.post = req[r].post /\ t.collection = c /\ t.pc = pc
      <3>1. t \in Request
        BY <1>1, <2>1, Updated
      <3> QED
        BY <1>1, <1>2, <3>1 DEF Request
    <2> HIDE DEF t, pc
    <2>4. Well(t)
      BY <1>1, <1>2, <2>1, <2>3 DEF Well, OnItsWay
    <2>5. Step(r, t)
      BY <1>1, <2>2, <2>3, <2>4, GoStep
    <2> QED
      BY <2>5
  <1>3. CASE req[r].op = "delete"
    <2>1. GoTo(r, "remove") /\ "remove" \in Pcs
      BY <1>3 DEF HasDefault, Pcs
    <2>2. /\ [req[r] EXCEPT !.pc = "remove"].pc = "remove" /\ [req[r] EXCEPT !.pc = "remove"].op = "delete"
          /\ [req[r] EXCEPT !.pc = "remove"].left = Both /\ [req[r] EXCEPT !.pc = "remove"].collection \in Ids
      BY <1>1, <1>3 DEF Request, Well
    <2> QED
      BY <1>1, <2>1, <2>2, PcStep DEF OnItsWay, Wants
  <1>4. CASE req[r].op \notin {"save", "delete"}
    BY <1>1, <1>4, FinishStep DEF HasDefault
  <1> QED
    BY <1>2, <1>3, <1>4

LEMMA DefaultSteps ==
  ASSUME TypeInv, NEW r \in Requests, EnsureDefaultCollection(r)
  PROVE  \E t : Step(r, t)
  <1>1. At(r, "default") /\ Rest /\ UNCHANGED <<saves, stamps>> /\ req[r] # None /\ req[r].pc # "remove"
    BY DEF EnsureDefaultCollection, At
  <1>2. ASSUME NEW c \in Existing, collections' = [collections EXCEPT ![c].selected = TRUE],
               HasDefault(r, c, collections[c].cover), UNCHANGED ids
        PROVE  \E t : Step(r, t)
    <2>1. c \in Ids /\ collections[c] \in Collection /\ collections \in [Ids -> Collection \union {None}]
      BY TypeParts DEF TypeInv, CollectionsOK, Existing, Exists
    <2>2. [collections[c] EXCEPT !.selected = TRUE] \in Collection
      BY <2>1 DEF Collection
    <2>3. collections'[c] # None /\ KeepsCollections
      BY <1>2, <2>1, <2>2, CollectionFields, ChangeKeeps DEF TypeInv
    <2> QED
      BY <1>1, <1>2, <2>1, <2>3, HasDefaultStep
  <1>3. CASE Finish(r) /\ UNCHANGED <<collections, ids>>
    BY <1>1, <1>3, FinishStep, SameCollections DEF TypeInv
  <1>4. CASE Make(New(AllSaved, TRUE)) /\ HasDefault(r, ids + 1, DefaultCover)
    <2>1. New(AllSaved, TRUE) \in Collection
      BY DEF New, Collection
    <2>2. KeepsCollections /\ ids + 1 \in Ids /\ collections'[ids + 1] # None
      BY <1>4, <2>1, MakeKeeps DEF TypeInv
    <2> QED
      BY <1>1, <1>4, <2>2, HasDefaultStep
  <1> QED
    BY <1>2, <1>3, <1>4 DEF EnsureDefaultCollection

\* The two updates of selectOnly, and the cover of a collection that had none.
LEMMA SelectStep ==
  ASSUME TypeInv, NEW r \in Requests, SelectOnly(r)
  PROVE  \E t : Step(r, t)
  <1>1. req[r] \in Request /\ req[r] # None /\ req[r].pc = "select" /\ Well(req[r]) /\ req[r].op \in {"save", "move"} /\ Rest
        /\ UNCHANGED <<saves, ids, stamps>> /\ req[r].post \in Posts /\ req[r].collection \in Ids /\ Wants(req[r])
    BY AtWell, RequestFields DEF SelectOnly, Well, OnItsWay, Wants, Ops
  <1>2. PICK write \in req[r].left :
           /\ collections' = IF write = "second" THEN Cleared(req[r].collection)
                             ELSE IF Exists(req[r].collection)
                             THEN [collections EXCEPT ![req[r].collection].selected = TRUE,
                                                      ![req[r].collection].cover = CoverImage(req[r].post)] ELSE collections
           /\ IF req[r].left = {write} THEN Selected(r) ELSE Go(r, [req[r] EXCEPT !.left = @ \ {write}])
    BY DEF SelectOnly
  <1>3. KeepsCollections
    <2>1. CASE write = "second"
      BY <1>1, <1>2, <2>1, ClearKeeps DEF TypeInv
    <2>2. CASE write # "second" /\ Exists(req[r].collection)
      <3> DEFINE c == req[r].collection
      <3>1. c \in Ids /\ collections[c] \in Collection /\ collections \in [Ids -> Collection \union {None}]
        BY <2>2, TypeParts DEF TypeInv, CollectionsOK, Exists
      <3>2. CoverImage(req[r].post) \in Posts \union {DefaultCover}
        BY <1>1 DEF CoverImage
      <3>3. [[collections[c] EXCEPT !.selected = TRUE] EXCEPT !.cover = CoverImage(req[r].post)] \in Collection
        BY <3>1, <3>2 DEF Collection
      <3>4. collections' = [collections EXCEPT ![c] =
                              [[collections[c] EXCEPT !.selected = TRUE] EXCEPT !.cover = CoverImage(req[r].post)]]
        BY <1>2, <2>2, <3>1
      <3> HIDE DEF c
      <3> QED
        BY <1>1, <3>1, <3>3, <3>4, CollectionFields, ChangeKeeps DEF TypeInv
    <2>3. CASE write # "second" /\ ~Exists(req[r].collection)
      BY <1>1, <1>2, <2>3, SameCollections DEF TypeInv
    <2> QED
      BY <2>1, <2>2, <2>3
  <1>4. CASE req[r].left = {write}
    <2>1. CASE GoTo(r, "existing") /\ req[r].op = "save"
      <3>1. /\ [req[r] EXCEPT !.pc = "existing"].pc = "existing" /\ [req[r] EXCEPT !.pc = "existing"].op = "save"
            /\ [req[r] EXCEPT !.pc = "existing"].collection \in Ids /\ "existing" \in Pcs
        BY <1>1, <2>1 DEF Request, Pcs
      <3> QED
        BY <1>1, <1>3, <2>1, <3>1, PcStep DEF OnItsWay
    <2>2. CASE GoTo(r, "latest") /\ req[r].op = "move"
      <3>1. /\ [req[r] EXCEPT !.pc = "latest"].pc = "latest" /\ [req[r] EXCEPT !.pc = "latest"].op = "move" /\ "latest" \in Pcs
        BY <1>1, <2>2 DEF Request, Pcs
      <3> QED
        BY <1>1, <1>3, <2>2, <3>1, PcStep DEF OnItsWay, Wants
    <2>3. CASE Finish(r)
      BY <1>1, <1>3, <2>3, FinishStep
    <2> QED
      BY <1>1, <1>2, <1>4, <2>1, <2>2, <2>3 DEF Selected
  <1>5. CASE req[r].left # {write}
    <2> DEFINE t == [req[r] EXCEPT !.left = @ \ {write}]
    <2>1. t \in Request
      <3>1. req[r].left \ {write} \in SUBSET Both
        BY <1>1, RequestFields
      <3>2. [req[r] EXCEPT !.left = req[r].left \ {write}] \in Request
        BY <1>1, <3>1, LeftOver
      <3> QED
        BY <1>1, <3>2
    <2>2. t.pc = "select" /\ t.op = req[r].op /\ t.post = req[r].post /\ t.collection = req[r].collection
      BY <1>1, <2>1 DEF Request
    <2>3. Go(r, t)
      BY <1>2, <1>5
    <2> HIDE DEF t
    <2>4. Well(t) /\ Wants(t)
      BY <1>1, <2>2 DEF Well, OnItsWay, Wants
    <2>5. Step(r, t)
      BY <1>1, <1>3, <2>1, <2>2, <2>3, <2>4, GoStep
    <2> QED
      BY <2>5
  <1> QED
    BY <1>4, <1>5

LEMMA CoverStep ==
  ASSUME TypeInv, NEW r \in Requests, UpdateCover(r)
  PROVE  \E t : Step(r, t)
  <1>1. req[r] \in Request /\ req[r] # None /\ req[r].pc = "cover" /\ Well(req[r]) /\ req[r].op = "save" /\ Rest
        /\ UNCHANGED <<saves, ids, stamps>> /\ req[r].post \in Posts /\ req[r].collection \in Ids /\ Wants(req[r])
    BY AtWell, RequestFields DEF UpdateCover, Well, OnItsWay, Wants, Ops
  <1>2. KeepsCollections
    BY <1>1, CoverKeeps DEF UpdateCover, TypeInv, CoverImage
  <1>3. /\ [req[r] EXCEPT !.pc = "existing"].pc = "existing" /\ [req[r] EXCEPT !.pc = "existing"].op = "save"
        /\ [req[r] EXCEPT !.pc = "existing"].collection \in Ids /\ "existing" \in Pcs
    BY <1>1 DEF Request, Pcs
  <1>4. GoTo(r, "existing")
    BY DEF UpdateCover
  <1> QED
    BY <1>1, <1>2, <1>3, <1>4, PcStep DEF OnItsWay

\* savePost, when it knows its collection.
LEMMA FindSaveStep ==
  ASSUME TypeInv, NEW r \in Requests, FindSave(r)
  PROVE  \E t : Step(r, t)
  <1>1. req[r] \in Request /\ req[r] # None /\ req[r].pc = "existing" /\ Well(req[r]) /\ req[r].op = "save" /\ Rest /\ Nothing
        /\ req[r].post \in Posts /\ req[r].collection \in Ids /\ Wants(req[r])
    <2>1. req[r] \in Request /\ req[r] # None /\ req[r].pc = "existing" /\ Well(req[r]) /\ Rest /\ Nothing /\ req[r].op \in Ops
      BY AtWell, RequestFields DEF FindSave
    <2>2. req[r].op = "save"
      BY <2>1 DEF Well, OnItsWay, Ops
    <2> QED
      BY <2>1, <2>2 DEF Well, Wants
  <1>2. KeepsCollections /\ UNCHANGED <<saves, stamps>>
    BY <1>1, SameCollections DEF Nothing, TypeInv
  <1>3. CASE GoTo(r, "insert")
    <2>1. /\ [req[r] EXCEPT !.pc = "insert"].pc = "insert" /\ [req[r] EXCEPT !.pc = "insert"].op = "save"
          /\ [req[r] EXCEPT !.pc = "insert"].collection \in Ids /\ "insert" \in Pcs
      BY <1>1 DEF Request, Pcs
    <2> QED
      BY <1>1, <1>2, <1>3, <2>1, PcStep DEF OnItsWay
  <1>4. CASE Finish(r)
    BY <1>1, <1>2, <1>4, FinishStep
  <1>5. ASSUME NEW s \in SavesOf(req[r].post),
               Go(r, [req[r] EXCEPT !.source = s.collection, !.n = s.n, !.pc = "update"])
        PROVE  \E t : Step(r, t)
    <2> DEFINE t == [req[r] EXCEPT !.source = s.collection, !.n = s.n, !.pc = "update"]
    <2>1. s.collection \in 0..MaxCollections /\ s.n \in Nat /\ "update" \in Pcs
      BY TypeParts, IdRange DEF TypeInv, SavesOK, SavesOf, Save, Pcs
    <2>2. t \in Request
      BY <1>1, <2>1, Updated
    <2>3. t.pc = "update" /\ t.op = "save" /\ t.post = req[r].post /\ t.collection = req[r].collection
      BY <1>1, <2>2 DEF Request
    <2>4. Go(r, t)
      BY <1>5
    <2> HIDE DEF t
    <2>5. Well(t) /\ Wants(t)
      BY <1>1, <2>3 DEF Well, OnItsWay, Wants
    <2>6. Step(r, t)
      BY <1>1, <1>2, <2>2, <2>3, <2>4, <2>5, GoStep
    <2> QED
      BY <2>6
  <1> QED
    BY <1>3, <1>4, <1>5 DEF FindSave

LEMMA InsertWrites ==
  ASSUME TypeInv, NEW r \in Requests, req[r] # None, Wants(req[r]), Insert(req[r].post, req[r].collection)
  PROVE  WritesSaves(r)
  <1>1. req[r].post \in Posts /\ req[r].collection \in Ids
    BY DEF TypeInv, Well, Wants
  <1>2. saves \subseteq Save /\ stamps \in Nat
    BY TypeParts DEF TypeInv, SavesOK
  <1>3. [n |-> stamps + 1, post |-> req[r].post, collection |-> req[r].collection] \in Save
    BY <1>1, <1>2 DEF Save
  <1> QED
    BY <1>2, <1>3 DEF Insert, WritesSaves, SavesOK

LEMMA MovedWrites ==
  ASSUME TypeInv, NEW r \in Requests, req[r] # None, Wants(req[r]), NEW moved, saves' = Moved(moved, req[r].collection),
         stamps' = stamps
  PROVE  WritesSaves(r)
  <1>1. req[r].collection \in Ids
    BY DEF TypeInv, Well, Wants
  <1>2. saves \subseteq Save /\ stamps \in Nat
    BY TypeParts DEF TypeInv, SavesOK
  <1>3. \A s \in saves : LET m == [s EXCEPT !.collection = req[r].collection]
                        IN  m \in Save /\ m.collection = req[r].collection
    BY <1>1, <1>2 DEF Save
  <1> QED
    BY <1>2, <1>3 DEF Moved, WritesSaves, SavesOK

LEMMA SaveSteps ==
  ASSUME TypeInv, NEW r \in Requests, UpdateCollection(r) \/ CreateSave(r)
  PROVE  \E t : Step(r, t)
  <1>0. UNCHANGED <<collections, ids>> /\ Rest /\ (At(r, "update") \/ At(r, "insert"))
    BY DEF UpdateCollection, CreateSave
  <1>1. req[r] \in Request /\ req[r] # None /\ req[r].pc \in {"update", "insert"} /\ Well(req[r]) /\ req[r].op = "save"
        /\ req[r].post \in Posts /\ req[r].collection \in Ids /\ Wants(req[r])
    BY <1>0, AtWell, RequestFields DEF Well, OnItsWay, Wants, Ops
  <1>2. KeepsCollections
    BY <1>0, SameCollections DEF TypeInv
  <1>3. CASE UpdateCollection(r)
    <2>1. WritesSaves(r)
      BY <1>1, <1>3, MovedWrites DEF UpdateCollection
    <2>2. /\ [req[r] EXCEPT !.pc = "latest"].pc = "latest" /\ [req[r] EXCEPT !.pc = "latest"].op = "save" /\ "latest" \in Pcs
      BY <1>1 DEF Request, Pcs
    <2>3. GoTo(r, "latest")
      BY <1>3 DEF UpdateCollection
    <2> QED
      BY <1>0, <1>1, <1>2, <2>1, <2>2, <2>3, PcStep DEF OnItsWay, Wants
  <1>4. CASE CreateSave(r)
    <2>1. UNCHANGED <<saves, stamps>> \/ WritesSaves(r)
      BY <1>1, <1>4, InsertWrites DEF CreateSave
    <2>2. Finish(r)
      BY <1>4 DEF CreateSave
    <2> QED
      BY <1>0, <1>1, <1>2, <2>1, <2>2, FinishStep
  <1> QED
    BY <1>3, <1>4

\* The cover of the collection a post has left.
LEMMA RefreshSteps ==
  ASSUME TypeInv, NEW r \in Requests, FindLatest(r) \/ FindCoverMedia(r) \/ RefreshCover(r)
  PROVE  \E t : Step(r, t)
  <1>1. PICK pc \in {"latest", "media", "refresh"} : At(r, pc)
    BY DEF FindLatest, FindCoverMedia, RefreshCover
  <1>2. req[r] \in Request /\ req[r] # None /\ req[r].pc = pc /\ Well(req[r]) /\ req[r].op \in Ops /\ req[r].image \in Posts \union {DefaultCover}
        /\ req[r].post \in Posts \union {None}
    BY <1>1, AtWell, RequestFields
  <1>3. req[r].op \in {"save", "move", "unsave"} /\ req[r].pc # "remove"
    BY <1>2 DEF Well, OnItsWay, Ops
  <1>4. Rest
    BY DEF FindLatest, FindCoverMedia, RefreshCover
  <1>5. ASSUME NEW t \in Request, Go(r, t), t.op = req[r].op, t.pc \in {"media", "refresh"}, t.post \in Posts,
               KeepsCollections, UNCHANGED <<saves, stamps>>
        PROVE  \E u : Step(r, u)
    <2>1. Well(t) /\ ~Wants(t)
      BY <1>3, <1>5 DEF Well, OnItsWay, Wants
    <2>2. Step(r, t)
      BY <1>2, <1>3, <1>4, <1>5, <2>1, GoStep
    <2> QED
      BY <2>2
  <1>6. CASE FindLatest(r)
    <2>1. KeepsCollections /\ UNCHANGED <<saves, stamps>>
      BY <1>6, SameCollections DEF FindLatest, Nothing, TypeInv
    <2>2. CASE Go(r, [req[r] EXCEPT !.image = DefaultCover, !.pc = "refresh"])
      <3> DEFINE t == [req[r] EXCEPT !.image = DefaultCover, !.pc = "refresh"]
      <3>1. t \in Request
        BY <1>2, Updated DEF Pcs
      <3>2. t.op = req[r].op /\ t.pc = "refresh" /\ t.post = req[r].post
        BY <1>2, <3>1 DEF Request
      <3>3. Go(r, t)
        BY <2>2
      <3> HIDE DEF t
      <3>4. t.post \in Posts
        BY <1>2, <1>3, <3>2 DEF Well
      <3> QED
        BY <1>5, <2>1, <3>1, <3>2, <3>3, <3>4
    <2>3. ASSUME NEW s \in Latest(req[r].source), Go(r, [req[r] EXCEPT !.post = s.post, !.pc = "media"])
          PROVE  \E t : Step(r, t)
      <3> DEFINE t == [req[r] EXCEPT !.post = s.post, !.pc = "media"]
      <3>1. s.post \in Posts
        BY TypeParts DEF Latest, SavesIn, TypeInv, SavesOK, Save
      <3>2. t \in Request
        BY <1>2, <3>1, Updated DEF Pcs
      <3>3. t.op = req[r].op /\ t.pc = "media" /\ t.post = s.post
        BY <1>2, <3>2 DEF Request
      <3>4. Go(r, t)
        BY <2>3
      <3> HIDE DEF t
      <3> QED
        BY <1>5, <2>1, <3>1, <3>2, <3>3, <3>4
    <2> QED
      BY <1>6, <2>2, <2>3 DEF FindLatest
  <1>7. CASE FindCoverMedia(r)
    <2>1. KeepsCollections /\ UNCHANGED <<saves, stamps>>
      BY <1>7, SameCollections DEF FindCoverMedia, Nothing, TypeInv
    <2> DEFINE t == [req[r] EXCEPT !.image = CoverMedia(req[r].post), !.pc = "refresh"]
    <2>2. req[r].post \in Posts /\ CoverMedia(req[r].post) \in Posts \union {DefaultCover}
      BY <1>2, <1>3 DEF Well, CoverMedia, CoverImage
    <2>3. t \in Request
      BY <1>2, <2>2, Updated DEF Pcs
    <2>4. t.op = req[r].op /\ t.pc = "refresh" /\ t.post = req[r].post
      BY <1>2, <2>3 DEF Request
    <2>5. Go(r, t)
      BY <1>7 DEF FindCoverMedia
    <2> HIDE DEF t
    <2> QED
      BY <1>5, <2>1, <2>2, <2>3, <2>4, <2>5
  <1>8. CASE RefreshCover(r)
    <2>1. KeepsCollections
      BY <1>2, <1>8, CoverKeeps DEF RefreshCover, TypeInv
    <2> QED
      BY <1>2, <1>3, <1>8, <2>1, FinishStep DEF RefreshCover
  <1> QED
    BY <1>6, <1>7, <1>8

\* changeSavedPostCollection
LEMMA MoveSteps ==
  ASSUME TypeInv, NEW r \in Requests, FindTarget(r) \/ FindPrevious(r) \/ UpsertCollection(r)
  PROVE  \E t : Step(r, t)
  <1>1. PICK pc \in {"target", "previous", "upsert"} : At(r, pc)
    BY DEF FindTarget, FindPrevious, UpsertCollection
  <1>2. req[r] \in Request /\ req[r] # None /\ req[r].pc = pc /\ Well(req[r]) /\ req[r].op \in Ops
    BY <1>1, AtWell, RequestFields
  <1>3. req[r].op = "move" /\ req[r].pc # "remove" /\ req[r].left = Both
    BY <1>2 DEF Well, OnItsWay, Ops
  <1>4. Rest /\ UNCHANGED <<collections, ids>>
    BY DEF FindTarget, FindPrevious, UpsertCollection, Nothing
  <1>5. KeepsCollections
    BY <1>4, SameCollections DEF TypeInv
  <1>6. CASE FindTarget(r)
    <2>1. UNCHANGED <<saves, stamps>>
      BY <1>6 DEF FindTarget, Nothing
    <2>2. CASE Exists(req[r].collection) /\ GoTo(r, "previous")
      <3> DEFINE t == [req[r] EXCEPT !.pc = "previous"]
      <3>1. "previous" \in Pcs
        BY DEF Pcs
      <3>2. t \in Request
        BY <1>2, <3>1, Updated
      <3>3. t.op = "move" /\ t.pc = "previous" /\ t.left = Both /\ t.collection = req[r].collection
        BY <1>2, <1>3, <3>2 DEF Request
      <3>4. t.collection \in Ids /\ collections'[t.collection] # None
        BY <1>4, <2>2, <3>3 DEF Exists
      <3> HIDE DEF t
      <3> QED
        BY <1>2, <1>3, <1>4, <1>5, <2>1, <2>2, <3>1, <3>3, <3>4, PcStep DEF OnItsWay, t
    <2>3. CASE Finish(r)
      BY <1>2, <1>3, <1>4, <1>5, <2>1, <2>3, FinishStep
    <2> QED
      BY <1>6, <2>2, <2>3 DEF FindTarget
  <1>7. CASE FindPrevious(r)
    <2>1. UNCHANGED <<saves, stamps>> /\ Wants(req[r]) /\ req[r].collection \in Ids
      BY <1>2, <1>3, <1>7 DEF FindPrevious, At, Nothing, Wants, Well
    <2>2. ASSUME NEW t \in Request, Go(r, t), t.op = "move", t.pc = "upsert", t.post = req[r].post,
                 t.collection = req[r].collection, t.left = Both
          PROVE  \E u : Step(r, u)
      <3>1. Well(t) /\ Wants(t)
        BY <1>2, <1>3, <2>1, <2>2 DEF Well, OnItsWay, Wants
      <3>2. Step(r, t)
        BY <1>2, <1>3, <1>4, <1>5, <2>1, <2>2, <3>1, GoStep
      <3> QED
        BY <3>2
    <2>3. CASE GoTo(r, "upsert")
      <3> DEFINE t == [req[r] EXCEPT !.pc = "upsert"]
      <3>1. "upsert" \in Pcs
        BY DEF Pcs
      <3>2. t \in Request
        BY <1>2, <3>1, Updated
      <3>3. t.op = "move" /\ t.pc = "upsert" /\ t.left = Both /\ t.collection = req[r].collection /\ t.post = req[r].post
        BY <1>2, <1>3, <3>2 DEF Request
      <3>4. Go(r, t)
        BY <2>3 DEF GoTo
      <3> HIDE DEF t
      <3> QED
        BY <2>2, <3>2, <3>3, <3>4
    <2>4. ASSUME NEW s \in SavesOf(req[r].post), Go(r, [req[r] EXCEPT !.source = s.collection, !.pc = "upsert"])
          PROVE  \E t : Step(r, t)
      <3> DEFINE t == [req[r] EXCEPT !.source = s.collection, !.pc = "upsert"]
      <3>1. "upsert" \in Pcs /\ s.collection \in 0..MaxCollections
        BY TypeParts, IdRange DEF TypeInv, SavesOK, SavesOf, Save, Pcs
      <3>2. t \in Request
        BY <1>2, <3>1, Updated
      <3>3. t.op = "move" /\ t.pc = "upsert" /\ t.left = Both /\ t.collection = req[r].collection /\ t.post = req[r].post
        BY <1>2, <1>3, <3>2 DEF Request
      <3>4. Go(r, t)
        BY <2>4
      <3> HIDE DEF t
      <3> QED
        BY <2>2, <3>2, <3>3, <3>4
    <2> QED
      BY <1>7, <2>3, <2>4 DEF FindPrevious
  <1>8. CASE UpsertCollection(r)
    <2>1. Wants(req[r]) /\ req[r].collection \in Ids
      BY <1>2, <1>3, <1>8 DEF UpsertCollection, At, Wants, Well
    <2>2. WritesSaves(r)
      BY <1>2, <1>8, <2>1, InsertWrites, MovedWrites DEF UpsertCollection
    <2> DEFINE t == [req[r] EXCEPT !.pc = "select"]
    <2>3. "select" \in Pcs
      BY DEF Pcs
    <2>4. t \in Request
      BY <1>2, <2>3, Updated
    <2>5. t.op = "move" /\ t.pc = "select" /\ t.left = Both /\ t.collection = req[r].collection
      BY <1>2, <1>3, <2>4 DEF Request
    <2>6. GoTo(r, "select")
      BY <1>8 DEF UpsertCollection
    <2> HIDE DEF t
    <2> QED
      BY <1>2, <1>3, <1>4, <1>5, <2>1, <2>2, <2>3, <2>5, <2>6, PcStep DEF OnItsWay, t
  <1> QED
    BY <1>6, <1>7, <1>8

\* createCollection and updateCollection
LEMMA NameSteps ==
  ASSUME TypeInv, NEW r \in Requests, MakeCollection(r) \/ UpdateName(r)
  PROVE  \E t : Step(r, t)
  <1>1. PICK pc \in {"make", "name"} : At(r, pc)
    BY DEF MakeCollection, UpdateName
  <1>2. req[r] \in Request /\ req[r] # None /\ req[r].pc = pc /\ req[r].name \in Names \union {AllSaved}
    BY <1>1, AtWell, RequestFields
  <1>3. Rest /\ Finish(r) /\ UNCHANGED <<saves, stamps>>
    BY DEF MakeCollection, UpdateName
  <1>4. CASE MakeCollection(r)
    <2>1. New(req[r].name, FALSE) \in Collection
      BY <1>2 DEF New, Collection
    <2>2. KeepsCollections
      BY <1>4, <2>1, MakeKeeps, SameCollections DEF MakeCollection, TypeInv
    <2> QED
      BY <1>2, <1>3, <2>2, FinishStep
  <1>5. CASE UpdateName(r)
    <2>1. \A d \in Ids : collections[d] # None => [collections[d] EXCEPT !.name = req[r].name] \in Collection
      BY <1>2, TypeParts DEF TypeInv, CollectionsOK, Collection
    <2>2. \A x \in Collection : x # None
      BY CollectionFields
    <2>3. collections \in [Ids -> Collection \union {None}]
      BY TypeParts DEF TypeInv, CollectionsOK
    <2>4. ids' = ids /\ collections' \in [Ids -> Collection \union {None}] /\ \A d \in Ids : collections[d] # None => collections'[d] # None
      BY <1>5, <2>1, <2>2, <2>3 DEF UpdateName, Exists
    <2>5. KeepsCollections
      BY <2>4, ChangeKeeps DEF TypeInv
    <2> QED
      BY <1>2, <1>3, <2>5, FinishStep
  <1> QED
    BY <1>4, <1>5

LEMMA GoOnSteps ==
  ASSUME TypeInv, NEW r \in Requests, GoOn(r), ~RemoveCollection(r)
  PROVE  \E t : Step(r, t)
  BY FindSteps, DefaultSteps, SelectStep, CoverStep, FindSaveStep, SaveSteps, RefreshSteps, MoveSteps, NameSteps DEF GoOn

----------------------------------------------------------------------------
(* The other steps, and the type invariant.                                *)

\* The removal of a collection and of its saves, in either order.
Removal(r, t, write) ==
    /\ req[r] \in Request /\ Well(req[r]) /\ req[r].op = "delete" /\ req[r].pc = "remove" /\ req[r].collection \in Ids
    /\ write \in req[r].left
    /\ \/ write = "first" /\ collections' = [collections EXCEPT ![req[r].collection] = None] /\ UNCHANGED saves
       \/ write = "second" /\ saves' = saves \ SavesIn(req[r].collection) /\ UNCHANGED collections
    /\ Go(r, t)
    /\ \/ req[r].left = {write} /\ t = None
       \/ /\ req[r].left # {write} /\ t \in Request /\ Well(t) /\ t.op = "delete" /\ t.pc = "remove"
          /\ t.collection = req[r].collection /\ t.left = req[r].left \ {write}
    /\ Rest /\ UNCHANGED <<ids, stamps>>

LEMMA RemoveStep ==
  ASSUME TypeInv, NEW r \in Requests, RemoveCollection(r)
  PROVE  \E t, write : Removal(r, t, write)
  <1>1. req[r] \in Request /\ req[r] # None /\ req[r].pc = "remove" /\ Well(req[r]) /\ req[r].op \in Ops /\ req[r].left \subseteq Both
    BY AtWell, RequestFields DEF RemoveCollection
  <1>2. req[r].op = "delete"
    BY <1>1 DEF Well, OnItsWay, Ops
  <1>3. req[r].collection \in Ids
    BY <1>1, <1>2 DEF Well
  <1>4. PICK write \in req[r].left :
           /\ IF write = "first" THEN collections' = [collections EXCEPT ![req[r].collection] = None] /\ UNCHANGED saves
              ELSE saves' = saves \ SavesIn(req[r].collection) /\ UNCHANGED collections
           /\ IF req[r].left = {write} THEN Finish(r) ELSE Go(r, [req[r] EXCEPT !.left = @ \ {write}])
    BY DEF RemoveCollection, DeletedWith
  <1>5. write \in {"first", "second"}
    BY <1>1 DEF Both
  <1>6. Rest /\ UNCHANGED <<ids, stamps>>
    BY DEF RemoveCollection
  <1>7. CASE req[r].left = {write}
    <2>1. Removal(r, None, write)
      BY <1>1, <1>2, <1>3, <1>4, <1>5, <1>6, <1>7 DEF Removal, Finish
    <2> QED
      BY <2>1
  <1>8. CASE req[r].left # {write}
    <2> DEFINE t == [req[r] EXCEPT !.left = req[r].left \ {write}]
    <2>1. t \in Request
      BY <1>1, LeftOver
    <2>2. t.op = "delete" /\ t.pc = "remove" /\ t.collection = req[r].collection /\ t.left = req[r].left \ {write}
      BY <1>1, <1>2, <2>1 DEF Request
    <2>3. Go(r, t)
      BY <1>4, <1>8
    <2> HIDE DEF t
    <2>4. Well(t)
      BY <1>3, <2>2 DEF Well, OnItsWay, Wants
    <2>5. Removal(r, t, write)
      BY <1>1, <1>2, <1>3, <1>4, <1>5, <1>6, <1>8, <2>1, <2>2, <2>3, <2>4 DEF Removal
    <2> QED
      BY <2>5
  <1> QED
    BY <1>7, <1>8

\* A step of the cleanup of a post, or none.
CleanStep ==
    /\ KeepsCollections /\ saves' \subseteq saves /\ UNCHANGED stamps /\ PostsOK'
    /\ UNCHANGED <<req, started, mixed, raced>> /\ late' \in BOOLEAN

LEMMA CleanSteps ==
  ASSUME TypeInv, NEW p \in Posts,
         HidePost(p) \/ FindAffectedSaves(p) \/ DeleteSaves(p) \/ FindNextCover(p) \/ UpdateNextCover(p)
  PROVE  CleanStep
  <1> DEFINE Todo == Ids \X (Posts \union {DefaultCover, None})
  <1>0. /\ visible \subseteq Posts /\ cleanup \in [Posts -> {"none", "hidden", "read", "refresh", "done"}]
        /\ affected \in [Posts -> SUBSET Todo] /\ saves \subseteq Save /\ late \in BOOLEAN /\ TypeOK
    BY TypeParts DEF TypeInv, PostsOK, SavesOK, HistoryOK
  <1>1. \A image : \A todo \in Todo : image \in Posts \union {DefaultCover} => <<todo[1], image>> \in Todo
    OBVIOUS
  <1>2. CASE HidePost(p)
    <2>1. visible' \subseteq Posts /\ cleanup' \in [Posts -> {"none", "hidden", "read", "refresh", "done"}] /\ UNCHANGED affected
      BY <1>0, <1>2 DEF HidePost
    <2>2. UNCHANGED <<collections, saves, affected, req, ids, stamps, started, mixed, late, raced>>
      BY <1>2 DEF HidePost, history
    <2>3. KeepsCollections
      BY <1>0, <2>2, SameCollections
    <2> QED
      BY <1>0, <2>1, <2>2, <2>3 DEF CleanStep, PostsOK
  <1>3. CASE FindAffectedSaves(p)
    <2>1. {<<s.collection, None>> : s \in SavesOf(p)} \in SUBSET Todo
      BY <1>0 DEF SavesOf, Save
    <2>2. cleanup' \in [Posts -> {"none", "hidden", "read", "refresh", "done"}] /\ affected' \in [Posts -> SUBSET Todo]
      BY <1>0, <1>3, <2>1 DEF FindAffectedSaves
    <2>3. UNCHANGED <<collections, saves, visible, req, ids, stamps, started, mixed, raced>> /\ late' \in BOOLEAN
      BY <1>0, <1>3 DEF FindAffectedSaves, CleanupGoesOn
    <2>4. KeepsCollections
      BY <1>0, <2>3, SameCollections
    <2> QED
      BY <1>0, <2>2, <2>3, <2>4 DEF CleanStep, PostsOK
  <1>4. CASE DeleteSaves(p)
    <2>1. cleanup' \in [Posts -> {"none", "hidden", "read", "refresh", "done"}]
      BY <1>0, <1>4 DEF DeleteSaves
    <2>2. UNCHANGED <<collections, affected, late, visible, req, ids, stamps, started, mixed, raced>> /\ saves' \subseteq saves
      BY <1>4 DEF DeleteSaves, CleanupGoesOn
    <2>3. KeepsCollections
      BY <1>0, <2>2, SameCollections
    <2> QED
      BY <1>0, <2>1, <2>2, <2>3 DEF CleanStep, PostsOK
  <1>5. CASE FindNextCover(p)
    <2>0. PICK todo \in affected[p] :
             \E image \in IF Latest(todo[1]) = {} THEN {DefaultCover} ELSE {CoverMedia(s.post) : s \in Latest(todo[1])} :
                affected' = [affected EXCEPT ![p] = (@ \ {todo}) \union {<<todo[1], image>>}]
      BY <1>5 DEF FindNextCover
    <2>1. PICK image \in IF Latest(todo[1]) = {} THEN {DefaultCover} ELSE {CoverMedia(s.post) : s \in Latest(todo[1])} :
             affected' = [affected EXCEPT ![p] = (@ \ {todo}) \union {<<todo[1], image>>}]
      BY <2>0
    <2>2. image \in Posts \union {DefaultCover}
      BY <1>0 DEF Latest, SavesIn, Save, CoverMedia, CoverImage
    <2>3. todo \in Todo /\ <<todo[1], image>> \in Todo
      <3>1. todo \in Todo
        BY <1>0, <2>0
      <3> QED
        BY <1>1, <2>2, <3>1
    <2>4. affected' \in [Posts -> SUBSET Todo]
      <3>1. (affected[p] \ {todo}) \union {<<todo[1], image>>} \in SUBSET Todo
        BY <1>0, <2>3
      <3> HIDE DEF Todo
      <3> QED
        BY <1>0, <2>1, <3>1
    <2>5. UNCHANGED <<collections, saves, cleanup, late, visible, req, ids, stamps, started, mixed, raced>>
      BY <1>5 DEF FindNextCover, CleanupGoesOn
    <2>6. KeepsCollections
      BY <1>0, <2>5, SameCollections
    <2> QED
      BY <1>0, <2>4, <2>5, <2>6 DEF CleanStep, PostsOK
  <1>6. CASE UpdateNextCover(p)
    <2>1. PICK todo \in affected[p] : /\ todo[2] # None
                                     /\ collections' = WithCover(todo[1], todo[2])
                                     /\ affected' = [affected EXCEPT ![p] = @ \ {todo}]
                                     /\ cleanup' = [cleanup EXCEPT ![p] = IF affected[p] = {todo} THEN "done" ELSE "refresh"]
      BY <1>6 DEF UpdateNextCover
    <2>2. todo[2] \in Posts \union {DefaultCover}
      <3>1. todo \in Todo
        BY <1>0, <2>1
      <3> QED
        BY <2>1, <3>1
    <2>3. affected' \in [Posts -> SUBSET Todo]
      <3>1. affected[p] \ {todo} \in SUBSET Todo
        BY <1>0
      <3> HIDE DEF Todo
      <3> QED
        BY <1>0, <2>1, <3>1
    <2>4. cleanup' \in [Posts -> {"none", "hidden", "read", "refresh", "done"}]
      BY <1>0, <2>1
    <2>5. UNCHANGED <<saves, late, visible, req, ids, stamps, started, mixed, raced>>
      BY <1>6 DEF UpdateNextCover, CleanupGoesOn
    <2>6. KeepsCollections
      BY <1>0, <2>1, <2>2, <2>5, CoverKeeps
    <2> QED
      BY <1>0, <2>3, <2>4, <2>5, <2>6 DEF CleanStep, PostsOK
  <1> QED
    BY <1>2, <1>3, <1>4, <1>5, <1>6

LEMMA StepKinds ==
  ASSUME TypeInv, [Next]_vars
  PROVE  \/ \E r \in Requests : \E t : Step(r, t)
         \/ \E r \in Requests : \E t, write : Removal(r, t, write)
         \/ CleanStep
  <1>1. CASE UNCHANGED vars
    <2>1. UNCHANGED <<collections, saves, visible, cleanup, affected, req, ids, stamps, started, mixed, late, raced>>
      BY <1>1 DEF vars, posts, history
    <2>2. KeepsCollections
      BY <2>1, SameCollections DEF TypeInv
    <2> QED
      BY <2>1, <2>2, TypeParts DEF TypeInv, CleanStep, PostsOK, HistoryOK
  <1>2. CASE Next
    BY <1>2, BeginSteps, GoOnSteps, RemoveStep, CleanSteps DEF Next, GoOn
  <1> QED
    BY <1>1, <1>2

\* What a step of a request does to the others.
LEMMA GoEffect ==
  ASSUME TypeInv, NEW r \in Requests, NEW t \in Request \union {None}, Go(r, t)
  PROVE  /\ req' \in [Requests -> Request \union {None}] /\ req'[r] = t
         /\ \A q \in Requests : q # r => req'[q] = req[q]
         /\ raced \subseteq raced' /\ raced' \subseteq Ids
         /\ Contested(req)' \subseteq raced'
  <1>1. req \in [Requests -> Request \union {None}] /\ raced \subseteq Ids
    BY TypeParts DEF TypeInv, RequestsOK, HistoryOK
  <1>2. req' = [req EXCEPT ![r] = t] /\ raced' = raced \union Contested(req')
    BY DEF Go
  <1>3. Contested(req') \subseteq Ids
    BY DEF Contested
  <1> QED
    BY <1>1, <1>2, <1>3

LEMMA TypeInit == Init => TypeInv
  <1> SUFFICES ASSUME Init PROVE TypeInv
    OBVIOUS
  <1>1. TypeOK
    <2>1. CollectionsOK
      BY BoundsAssumption DEF Init, CollectionsOK
    <2>2. SavesOK
      BY DEF Init, SavesOK
    <2>3. PostsOK
      BY DEF Init, PostsOK
    <2>4. RequestsOK
      BY BoundsAssumption DEF Init, RequestsOK
    <2>5. HistoryOK
      BY DEF Init, HistoryOK
    <2> QED
      BY <2>1, <2>2, <2>3, <2>4, <2>5, TypeParts
  <1>2. \A r \in Requests : req[r] = None
    BY DEF Init
  <1> QED
    BY <1>1, <1>2 DEF TypeInv

LEMMA TypeStep == TypeInv /\ [Next]_vars => TypeInv'
  <1> SUFFICES ASSUME TypeInv, [Next]_vars PROVE TypeInv'
    OBVIOUS
  <1>1. ASSUME NEW r \in Requests, NEW t, Step(r, t) PROVE TypeInv'
    <2>1. req' \in [Requests -> Request \union {None}] /\ raced' \subseteq Ids
          /\ \A q \in Requests : req'[q] # None => Well(req'[q])
      BY <1>1, GoEffect DEF Step, TypeInv
    <2>2. PostsOK'
      BY <1>1, TypeParts DEF Step, posts, TypeInv, PostsOK
    <2>3. TypeOK'
      BY <1>1, <2>1, <2>2, TypePartsNext DEF Step, KeepsCollections, WritesSaves, RequestsOK, HistoryOK
    <2> QED
      BY <2>1, <2>3 DEF TypeInv, Well, OnItsWay, Wants
  <1>2. ASSUME NEW r \in Requests, NEW t, NEW write, Removal(r, t, write) PROVE TypeInv'
    <2>1. t \in Request \union {None} /\ Go(r, t) /\ (t # None => Well(t))
      BY <1>2 DEF Removal
    <2>2. req' \in [Requests -> Request \union {None}] /\ raced' \subseteq Ids
          /\ \A q \in Requests : req'[q] # None => Well(req'[q])
      BY <2>1, GoEffect DEF TypeInv
    <2>3. CollectionsOK'
      BY <1>2, TypeParts DEF Removal, TypeInv, CollectionsOK
    <2>4. SavesOK'
      BY <1>2, TypeParts DEF Removal, TypeInv, SavesOK
    <2>5. PostsOK' /\ started' \in 0..MaxStarts /\ mixed' \in BOOLEAN /\ late' \in BOOLEAN
      BY <1>2, TypeParts DEF Removal, Rest, posts, TypeInv, PostsOK, RequestsOK, HistoryOK
    <2>6. TypeOK'
      BY <2>2, <2>3, <2>4, <2>5, TypePartsNext DEF RequestsOK, HistoryOK
    <2> QED
      BY <2>2, <2>6 DEF TypeInv, Well, OnItsWay, Wants
  <1>3. CASE CleanStep
    <2>1. CollectionsOK' /\ SavesOK' /\ PostsOK' /\ RequestsOK' /\ HistoryOK'
      BY <1>3, TypeParts DEF CleanStep, KeepsCollections, TypeInv, SavesOK, RequestsOK, HistoryOK
    <2>2. \A q \in Requests : req'[q] # None => Well(req'[q])
      BY <1>3 DEF CleanStep, TypeInv
    <2> QED
      BY <2>1, <2>2, TypePartsNext DEF TypeInv, Well, OnItsWay, Wants
  <1> QED
    BY <1>1, <1>2, <1>3, StepKinds

\* Collections, saves, requests and cleanups keep their types (TypeOK), at every await of
\* every request.
THEOREM TypeCorrect == Spec => []TypeOK
  <1>1. TypeInv => TypeOK
    BY DEF TypeInv
  <1> QED
    BY TypeInit, TypeStep, <1>1, PTL DEF Spec

----------------------------------------------------------------------------
(* Saves and the collections they are in.                                  *)

\* The collection a request is about to put a post into is there, or is raced.
WantedStays ==
    \A r \in Running(req) : Wants(req[r]) => Exists(req[r].collection) \/ req[r].collection \in raced

\* A deletion that has deleted the saves leaves none.
DeletedIsEmpty ==
    \A d \in Running(req) :
        req[d].op = "delete" /\ "second" \notin req[d].left => SavesIn(req[d].collection) = {} \/ req[d].collection \in raced

\* A save outlives its collection only while the deletion still has the saves to delete.
SavesStay ==
    \A s \in saves :
        \/ Exists(s.collection) \/ s.collection \in raced
        \/ \E d \in Running(req) : /\ req[d].op = "delete" /\ req[d].pc = "remove" /\ "second" \in req[d].left
                                  /\ req[d].collection = s.collection

RaceInv == Contested(req) \subseteq raced /\ WantedStays /\ DeletedIsEmpty /\ SavesStay

LEMMA RaceInit == Init => RaceInv
  BY DEF Init, RaceInv, WantedStays, DeletedIsEmpty, SavesStay, Contested, Running

\* Two requests at one collection.
LEMMA Meet ==
  ASSUME TypeInv, NEW d \in Requests, NEW r \in Requests, req[d] # None, req[r] # None, req[d].op = "delete",
         Wants(req[r]), req[r].collection = req[d].collection
  PROVE  req[d].collection \in Contested(req)
  <1>1. req[d].collection \in Ids
    BY DEF TypeInv, Well
  <1> QED
    BY <1>1 DEF Contested, Running, Wants

LEMMA RaceGoes ==
  ASSUME TypeInv, RaceInv, NEW r \in Requests, NEW t, Step(r, t)
  PROVE  RaceInv'
  <1>1. /\ req'[r] = t /\ (\A q \in Requests : q # r => req'[q] = req[q]) /\ raced \subseteq raced'
        /\ Contested(req)' \subseteq raced' /\ \A c \in Ids : Exists(c) => Exists(c)'
    BY GoEffect DEF Step, KeepsCollections
  <1>2. \A c : Exists(c) => Exists(c)'
    BY <1>1 DEF Exists
  <1>3. WantedStays'
    <2> SUFFICES ASSUME NEW q \in Requests, req'[q] # None, Wants(req'[q])
                 PROVE  \/ req'[q].collection \in Ids /\ collections'[req'[q].collection] # None
                        \/ req'[q].collection \in raced'
      BY DEF WantedStays, Running, Wants, Exists
    <2>1. CASE q # r
      BY <1>1, <1>2, <2>1 DEF RaceInv, WantedStays, Running, Exists
    <2>2. CASE q = r
      <3>1. \/ t.collection \in Ids /\ collections'[t.collection] # None
            \/ req[r] # None /\ Wants(req[r]) /\ req[r].collection = t.collection
        BY <1>1, <2>2 DEF Step
      <3> QED
        BY <1>1, <1>2, <2>2, <3>1 DEF RaceInv, WantedStays, Running, Exists
    <2> QED
      BY <2>1, <2>2
  <1>4. DeletedIsEmpty'
    <2> SUFFICES ASSUME NEW d \in Requests, req'[d] # None, req'[d].op = "delete", "second" \notin req'[d].left,
                        req'[d].collection \notin raced', NEW s \in saves', s.collection = req'[d].collection
                 PROVE  FALSE
      BY DEF DeletedIsEmpty, Running, SavesIn
    <2>1. d # r /\ req'[d] = req[d]
      BY <1>1 DEF Step, Both
    <2>2. CASE \E old \in saves : old.collection = s.collection
      BY <1>1, <2>1, <2>2 DEF RaceInv, DeletedIsEmpty, Running, SavesIn
    <2>3. CASE req[r] # None /\ Wants(req[r]) /\ s.collection = req[r].collection
      BY <1>1, <2>1, <2>3, Meet DEF RaceInv
    <2> QED
      BY <2>2, <2>3 DEF Step, WritesSaves
  <1>5. SavesStay'
    <2> SUFFICES ASSUME NEW s \in saves'
                 PROVE  \/ Exists(s.collection)' \/ s.collection \in raced'
                        \/ \E d \in Requests : /\ req'[d] # None /\ req'[d].op = "delete" /\ req'[d].pc = "remove"
                                               /\ "second" \in req'[d].left /\ req'[d].collection = s.collection
      BY DEF SavesStay, Running, Exists
    <2>1. ASSUME NEW old \in saves, old.collection = s.collection
          PROVE  \/ Exists(s.collection)' \/ s.collection \in raced'
                 \/ \E d \in Requests : /\ req'[d] # None /\ req'[d].op = "delete" /\ req'[d].pc = "remove"
                                        /\ "second" \in req'[d].left /\ req'[d].collection = s.collection
      <3>1. CASE \E d \in Running(req) : /\ req[d].op = "delete" /\ req[d].pc = "remove" /\ "second" \in req[d].left
                                        /\ req[d].collection = old.collection
        <4>1. PICK d \in Running(req) : /\ req[d].op = "delete" /\ req[d].pc = "remove" /\ "second" \in req[d].left
                                       /\ req[d].collection = old.collection
          BY <3>1
        <4>2. d \in Requests /\ req[d] # None /\ d # r
          BY <4>1 DEF Running, Step
        <4> QED
          BY <1>1, <2>1, <4>1, <4>2
      <3> QED
        BY <1>1, <1>2, <2>1, <3>1 DEF RaceInv, SavesStay
    <2>2. CASE req[r] # None /\ Wants(req[r]) /\ s.collection = req[r].collection
      BY <1>1, <1>2, <2>2 DEF RaceInv, WantedStays, Running
    <2> QED
      BY <2>1, <2>2 DEF Step, WritesSaves
  <1> QED
    BY <1>1, <1>3, <1>4, <1>5 DEF RaceInv

LEMMA RaceRemoves ==
  ASSUME TypeInv, RaceInv, NEW r \in Requests, NEW t, NEW write, Removal(r, t, write)
  PROVE  RaceInv'
  <1>0. t \in Request \union {None} /\ Go(r, t) /\ req[r] # None /\ req[r].op = "delete" /\ req[r].pc = "remove" /\ saves' \subseteq saves
    BY RequestFields DEF Removal
  <1>1. /\ req'[r] = t /\ (\A q \in Requests : q # r => req'[q] = req[q]) /\ raced \subseteq raced'
        /\ Contested(req)' \subseteq raced'
    BY <1>0, GoEffect
  <1>2. \A c : Exists(c) /\ (write # "first" \/ c # req[r].collection) => Exists(c)'
    <2>1. collections \in [Ids -> Collection \union {None}]
      BY TypeParts DEF TypeInv, CollectionsOK
    <2> QED
      BY <2>1 DEF Removal, Exists
  <1>3. WantedStays'
    <2> SUFFICES ASSUME NEW q \in Requests, req'[q] # None, Wants(req'[q])
                 PROVE  \/ req'[q].collection \in Ids /\ collections'[req'[q].collection] # None
                        \/ req'[q].collection \in raced'
      BY DEF WantedStays, Running, Wants, Exists
    <2>1. q # r /\ req'[q] = req[q]
      BY <1>1 DEF Removal, Wants
    <2>2. CASE req[q].collection = req[r].collection
      BY <1>0, <1>1, <2>1, <2>2, Meet DEF RaceInv
    <2> QED
      BY <1>1, <1>2, <2>1, <2>2 DEF RaceInv, WantedStays, Running, Exists
  <1>4. DeletedIsEmpty'
    <2> SUFFICES ASSUME NEW d \in Requests, req'[d] # None, req'[d].op = "delete", "second" \notin req'[d].left,
                        req'[d].collection \notin raced', NEW s \in saves', s.collection = req'[d].collection
                 PROVE  FALSE
      BY DEF DeletedIsEmpty, Running, SavesIn
    <2>1. CASE d # r
      BY <1>0, <1>1, <2>1 DEF RaceInv, DeletedIsEmpty, Running, SavesIn
    <2>2. CASE d = r /\ write = "second"
      BY <1>1, <2>2 DEF Removal, SavesIn
    <2>3. CASE d = r /\ write = "first"
      <3>1. "second" \notin req[r].left /\ req'[d].collection = req[r].collection
        BY <1>1, <2>3 DEF Removal
      <3> QED
        BY <1>0, <1>1, <2>3, <3>1 DEF RaceInv, DeletedIsEmpty, Running, SavesIn
    <2> QED
      BY <2>1, <2>2, <2>3 DEF Removal
  <1>5. SavesStay'
    <2> SUFFICES ASSUME NEW s \in saves', ~Exists(s.collection)', s.collection \notin raced'
                 PROVE  \E d \in Requests : /\ req'[d] # None /\ req'[d].op = "delete" /\ req'[d].pc = "remove"
                                            /\ "second" \in req'[d].left /\ req'[d].collection = s.collection
      BY DEF SavesStay, Running, Exists
    <2>1. CASE s.collection = req[r].collection
      <3>1. write = "first"
        BY <2>1 DEF Removal, SavesIn
      <3>2. "second" \in req[r].left
        BY <1>0, <1>1, <2>1 DEF RaceInv, DeletedIsEmpty, Running, SavesIn
      <3>3. req[r].left # {write}
        BY <3>1, <3>2
      <3>4. t \in Request /\ t.op = "delete" /\ t.pc = "remove" /\ t.collection = req[r].collection /\ "second" \in t.left
        BY <3>1, <3>2, <3>3 DEF Removal
      <3>5. t # None
        BY <3>4, RequestFields
      <3> QED
        BY <1>1, <2>1, <3>4, <3>5
    <2>2. CASE s.collection # req[r].collection
      <3>1. s \in saves /\ ~Exists(s.collection) /\ s.collection \notin raced
        BY <1>0, <1>1, <1>2, <2>2
      <3>2. PICK d \in Running(req) : /\ req[d].op = "delete" /\ req[d].pc = "remove" /\ "second" \in req[d].left
                                     /\ req[d].collection = s.collection
        BY <3>1 DEF RaceInv, SavesStay
      <3>3. d \in Requests /\ req[d] # None /\ d # r
        BY <2>2, <3>2 DEF Running
      <3> QED
        BY <1>1, <3>2, <3>3
    <2> QED
      BY <2>1, <2>2
  <1> QED
    BY <1>1, <1>3, <1>4, <1>5 DEF RaceInv

LEMMA RaceStep == TypeInv /\ RaceInv /\ [Next]_vars => RaceInv'
  <1> SUFFICES ASSUME TypeInv, RaceInv, [Next]_vars PROVE RaceInv'
    OBVIOUS
  <1>1. CASE CleanStep
    <2>1. req' = req /\ raced' = raced /\ saves' \subseteq saves /\ \A c : Exists(c) => Exists(c)'
      BY <1>1 DEF CleanStep, KeepsCollections, Exists
    <2>2. Contested(req)' \subseteq raced' /\ Running(req)' = Running(req)
      BY <2>1 DEF RaceInv, Contested, Running
    <2>3. WantedStays'
      BY <2>1, <2>2 DEF RaceInv, WantedStays, Wants
    <2>4. DeletedIsEmpty'
      BY <2>1, <2>2 DEF RaceInv, DeletedIsEmpty, SavesIn
    <2>5. SavesStay'
      BY <2>1, <2>2 DEF RaceInv, SavesStay
    <2> QED
      BY <2>2, <2>3, <2>4, <2>5 DEF RaceInv
  <1> QED
    BY <1>1, StepKinds, RaceGoes, RaceRemoves

\* However savePost, changeSavedPostCollection, deleteCollection and the cleanups of posts
\* interleave, no save is left in a collection that is gone, unless it was put there while the
\* collection was being deleted.
THEOREM SavesAreSomewhere == Spec => []SavesHaveCollection
  <1>1. RaceInv => SavesHaveCollection
    BY DEF RaceInv, SavesStay, SavesHaveCollection
  <1> QED
    BY TypeInit, TypeStep, RaceInit, RaceStep, <1>1, PTL DEF Spec

----------------------------------------------------------------------------
(* The collection that is selected.                                        *)

Chosen(all) == {c \in Ids : all[c] # None /\ all[c].selected}
AtMostOne(S) == \A c, d \in S : c = d

\* What a request that runs alone finds selected at every await.
Fits(t, S) ==
    /\ t.pc = "select" /\ t.left = {"first"} => S \subseteq {t.collection}
    /\ t.pc = "make" => S = {}
    /\ t.pc = "default" => IF t.op = "delete" THEN S \subseteq {t.collection} ELSE S = {}
    /\ t.pc = "remove" => AtMostOne(S \ {t.collection}) /\ ("first" \notin t.left => t.collection \notin S)
    /\ t.pc # "remove" /\ ~(t.pc = "select" /\ t.left = {"second"}) => AtMostOne(S)

SelectInv ==
    ~mixed => /\ \A q, r \in Running(req) : q = r
              /\ Running(req) = {} => AtMostOne(Chosen(collections))
              /\ \A r \in Running(req) : Fits(req[r], Chosen(collections))

LEMMA SelectInit == Init => SelectInv
  BY DEF Init, SelectInv, Running, Chosen, AtMostOne

\* r is the only request that runs, then and after.
Alone(r) == ~mixed' => ~mixed /\ \A q \in Requests : q # r => req[q] = None

LEMMA GoesAlone ==
  ASSUME TypeInv, SelectInv, NEW r \in Requests, req[r] # None, Rest
  PROVE  Alone(r)
  BY DEF SelectInv, Running, Rest, Alone

LEMMA StartsAlone ==
  ASSUME SelectInv, NEW r \in Requests, NEW t, Start(r, t)
  PROVE  Alone(r) /\ (~mixed' => AtMostOne(Chosen(collections)))
  BY DEF SelectInv, Start, Alone, Running

LEMMA SelectNext ==
  ASSUME TypeInv, NEW r \in Requests, NEW t, Alone(r), Go(r, t),
         ~mixed' => IF t = None THEN AtMostOne(Chosen(collections')) ELSE Fits(t, Chosen(collections'))
  PROVE  SelectInv'
  <1>1. req \in [Requests -> Request \union {None}]
    BY TypeParts DEF TypeInv, RequestsOK
  <1>2. req'[r] = t /\ \A q \in Requests : q # r => req'[q] = req[q]
    BY <1>1 DEF Go
  <1> SUFFICES ASSUME ~mixed'
               PROVE  /\ \A p, q \in Running(req') : p = q
                      /\ Running(req') = {} => AtMostOne(Chosen(collections'))
                      /\ \A q \in Running(req') : Fits(req'[q], Chosen(collections'))
    BY DEF SelectInv
  <1>3. \A q \in Running(req') : q = r
    BY <1>2 DEF Alone, Running
  <1>4. Running(req') = {} => t = None
    BY <1>2 DEF Running
  <1>5. r \in Running(req') => t # None
    BY <1>2 DEF Running
  <1> QED
    BY <1>2, <1>3, <1>4, <1>5

\* Steps to an await that asks for no more than one collection that is selected.
Easy(t) ==
    \/ t.pc \notin {"select", "make", "default", "remove"}
    \/ t.pc = "select" /\ t.left = Both

LEMMA EasyNext ==
  ASSUME TypeInv, NEW r \in Requests, NEW t, Alone(r), Go(r, t), t # None => Easy(t),
         ~mixed' => AtMostOne(Chosen(collections'))
  PROVE  SelectInv'
  <1>1. t # None /\ ~mixed' => Fits(t, Chosen(collections'))
    BY DEF Easy, Fits, Both
  <1> QED
    BY <1>1, SelectNext

\* What is selected after every kind of write.
LEMMA ChosenCover ==
  ASSUME TypeInv, KeepsCollections, NEW c, NEW image, collections' = WithCover(c, image)
  PROVE  Chosen(collections') = Chosen(collections)
  <1>1. collections \in [Ids -> Collection \union {None}]
    BY TypeParts DEF TypeInv, CollectionsOK
  <1>2. CASE Exists(c)
    <2>1. c \in Ids /\ collections[c] \in Collection /\ collections[c] # None /\ collections'[c] # None
      BY <1>1, <1>2 DEF Exists, KeepsCollections
    <2>2. [collections[c] EXCEPT !.cover = image].selected = collections[c].selected
      BY <2>1 DEF Collection
    <2> QED
      BY <1>1, <1>2, <2>1, <2>2 DEF WithCover, Chosen
  <1> QED
    BY <1>2 DEF WithCover

LEMMA ChosenCleared ==
  ASSUME TypeInv, NEW c, collections' = Cleared(c)
  PROVE  Chosen(collections') \subseteq {c} /\ Chosen(collections') \subseteq Chosen(collections)
  <1>1. collections \in [Ids -> Collection \union {None}]
    BY TypeParts DEF TypeInv, CollectionsOK
  <1>2. \A d \in Ids : collections[d] # None => [collections[d] EXCEPT !.selected = FALSE].selected = FALSE
    BY <1>1 DEF Collection
  <1> QED
    BY <1>1, <1>2 DEF Cleared, Chosen, Exists

LEMMA ChosenOne ==
  ASSUME TypeInv, NEW c, NEW x, collections' = [collections EXCEPT ![c] = x]
  PROVE  Chosen(collections') \subseteq Chosen(collections) \union {c}
  BY TypeParts DEF TypeInv, CollectionsOK, Chosen

LEMMA AlwaysSteps ==
  ASSUME TypeInv, NEW r \in Requests, Begin(r) \/ (GoOn(r) /\ ~RemoveCollection(r))
  PROVE  KeepsCollections
  BY BeginSteps, GoOnSteps DEF Step

LEMMA EasyTask ==
  ASSUME NEW op, NEW pc, NEW p, NEW c, NEW source, NEW name, pc \notin {"select", "make", "default", "remove"}
  PROVE  Easy(Task(op, pc, p, c, source, name))
  <1>1. Task(op, pc, p, c, source, name).pc = pc
    BY DEF Task
  <1> QED
    BY <1>1 DEF Easy

\* Requests that begin.
LEMMA SelectBegins ==
  ASSUME TypeInv, SelectInv, NEW r \in Requests, Begin(r)
  PROVE  SelectInv'
  <1>1. ASSUME NEW t, Start(r, t), collections' = collections, Easy(t)
        PROVE  SelectInv'
    <2>1. Alone(r) /\ (~mixed' => AtMostOne(Chosen(collections'))) /\ Go(r, t)
      BY <1>1, StartsAlone DEF Start
    <2> QED
      BY <1>1, <2>1, EasyNext
  <1>2. ASSUME NEW p \in Posts, NEW c \in 0..MaxCollections, SavePost(r, p, c)
        PROVE  SelectInv'
    <2>1. Start(r, Task("save", IF c = 0 THEN "selected" ELSE "owned", p, c, 0, AllSaved)) /\ collections' = collections
      BY <1>2 DEF SavePost, Nothing
    <2>2. Easy(Task("save", IF c = 0 THEN "selected" ELSE "owned", p, c, 0, AllSaved))
      BY EasyTask
    <2> QED
      BY <1>1, <2>1, <2>2
  <1>3. ASSUME NEW p \in Posts, NEW c \in 0..MaxCollections, ChangeSavedPostCollection(r, p, c)
        PROVE  SelectInv'
    <2>1. Start(r, Task("move", "target", p, c, 0, AllSaved)) /\ collections' = collections
      BY <1>3 DEF ChangeSavedPostCollection, Nothing
    <2>2. Easy(Task("move", "target", p, c, 0, AllSaved))
      BY EasyTask
    <2> QED
      BY <1>1, <2>1, <2>2
  <1>4. ASSUME NEW p \in Posts, UnsavePost(r, p)
        PROVE  SelectInv'
    <2>1. PICK s \in SavesOf(p) : Start(r, Task("unsave", "latest", p, 0, s.collection, AllSaved))
      BY <1>4 DEF UnsavePost
    <2>2. collections' = collections
      BY <1>4 DEF UnsavePost
    <2>3. Easy(Task("unsave", "latest", p, 0, s.collection, AllSaved))
      BY EasyTask
    <2> QED
      BY <1>1, <2>1, <2>2, <2>3
  <1>5. ASSUME NEW c \in Ids, NEW name, RenameCollection(r, c, name)
        PROVE  SelectInv'
    <2>1. Start(r, Task("rename", "name", None, c, 0, name)) /\ collections' = collections
      BY <1>5 DEF RenameCollection, Nothing
    <2>2. Easy(Task("rename", "name", None, c, 0, name))
      BY EasyTask
    <2> QED
      BY <1>1, <2>1, <2>2
  <1>6. ASSUME NEW name, CreateCollection(r, name)
        PROVE  SelectInv'
    <2> DEFINE t == Task("create", "make", None, 0, 0, name)
    <2>1. Start(r, t) /\ collections' = Cleared(0)
      BY <1>6 DEF CreateCollection
    <2>2. Chosen(collections') = {}
      BY <2>1, ChosenCleared, IdRange DEF Chosen
    <2>3. Fits(t, {}) /\ AtMostOne({})
      BY DEF Fits, Task, AtMostOne
    <2>4. Alone(r) /\ Go(r, t)
      BY <2>1, StartsAlone DEF Start
    <2> HIDE DEF t
    <2> QED
      BY <2>2, <2>3, <2>4, SelectNext
  <1>7. ASSUME NEW c \in Ids, DeleteCollection(r, c)
        PROVE  SelectInv'
    <2> DEFINE pc == IF collections[c].selected THEN "default" ELSE "remove"
               t == Task("delete", pc, None, c, 0, AllSaved)
    <2>1. Start(r, t) /\ collections' = collections /\ collections[c] # None
      BY <1>7 DEF DeleteCollection, Nothing, Exists
    <2>2. Alone(r) /\ Go(r, t) /\ (~mixed' => AtMostOne(Chosen(collections')))
      BY <2>1, StartsAlone DEF Start
    <2>3. t.pc = pc /\ t.op = "delete" /\ t.collection = c /\ t.left = Both
      BY DEF Task, Both
    <2>4. pc = "default" => c \in Chosen(collections')
      BY <2>1 DEF Chosen
    <2>5. pc \in {"default", "remove"} /\ "first" \in Both
      BY DEF Both
    <2> HIDE DEF t, pc
    <2>6. ~mixed' => Fits(t, Chosen(collections')) /\ AtMostOne(Chosen(collections'))
      BY <2>2, <2>3, <2>4, <2>5 DEF Fits, AtMostOne
    <2> QED
      BY <2>2, <2>6, SelectNext
  <1>8. CASE ListCollections(r)
    <2> DEFINE t == Task("list", "default", None, 0, 0, AllSaved)
    <2>1. Start(r, t) /\ collections' = collections /\ Existing = {}
      BY <1>8 DEF ListCollections, Nothing
    <2>2. Chosen(collections') = {}
      BY <2>1 DEF Chosen, Existing, Exists
    <2>3. Fits(t, {}) /\ AtMostOne({})
      BY DEF Fits, Task, AtMostOne
    <2>4. Alone(r) /\ Go(r, t)
      BY <2>1, StartsAlone DEF Start
    <2> HIDE DEF t
    <2> QED
      BY <2>2, <2>3, <2>4, SelectNext
  <1> QED
    BY <1>2, <1>3, <1>4, <1>5, <1>6, <1>7, <1>8 DEF Begin

\* Awaits that select nothing.
LEMMA EasyGoes ==
  ASSUME TypeInv, SelectInv, NEW r \in Requests, NEW pc, At(r, pc), pc \notin {"select", "make", "default", "remove"},
         Rest, Chosen(collections') = Chosen(collections), NEW t, Go(r, t), t # None => Easy(t)
  PROVE  SelectInv'
  <1>1. req[r] # None /\ Alone(r)
    BY GoesAlone DEF At
  <1>2. ~mixed' => AtMostOne(Chosen(collections'))
    BY <1>1 DEF SelectInv, Rest, Running, Fits, At
  <1> QED
    BY <1>1, <1>2, EasyNext

LEMMA EasyPc ==
  ASSUME NEW t \in Request, NEW pc, pc \notin {"select", "make", "default", "remove"}
  PROVE  /\ Easy([t EXCEPT !.pc = pc])
         /\ \A image : Easy([t EXCEPT !.image = image, !.pc = pc])
         /\ \A p : Easy([t EXCEPT !.post = p, !.pc = pc])
         /\ \A c : Easy([t EXCEPT !.source = c, !.pc = pc])
         /\ \A c, n : Easy([t EXCEPT !.source = c, !.n = n, !.pc = pc])
  <1>1. Easy([t EXCEPT !.pc = pc])
    <2>1. [t EXCEPT !.pc = pc].pc = pc
      BY DEF Request
    <2> QED
      BY <2>1 DEF Easy
  <1>2. \A image : Easy([t EXCEPT !.image = image, !.pc = pc])
    <2>1. \A image : [t EXCEPT !.image = image, !.pc = pc].pc = pc
      BY DEF Request
    <2> QED
      BY <2>1 DEF Easy
  <1>3. \A p : Easy([t EXCEPT !.post = p, !.pc = pc])
    <2>1. \A p : [t EXCEPT !.post = p, !.pc = pc].pc = pc
      BY DEF Request
    <2> QED
      BY <2>1 DEF Easy
  <1>4. \A c : Easy([t EXCEPT !.source = c, !.pc = pc])
    <2>1. \A c : [t EXCEPT !.source = c, !.pc = pc].pc = pc
      BY DEF Request
    <2> QED
      BY <2>1 DEF Easy
  <1>5. \A c, n : Easy([t EXCEPT !.source = c, !.n = n, !.pc = pc])
    <2>1. \A c, n : [t EXCEPT !.source = c, !.n = n, !.pc = pc].pc = pc
      BY DEF Request
    <2> QED
      BY <2>1 DEF Easy
  <1> QED
    BY <1>1, <1>2, <1>3, <1>4, <1>5

LEMMA EasySelect ==
  ASSUME NEW t \in Request, t.left = Both
  PROVE  /\ Easy([t EXCEPT !.pc = "select"])
         /\ \A pc, c : pc \notin {"make", "default", "remove"} => Easy([t EXCEPT !.collection = c, !.pc = pc])
  <1>1. Easy([t EXCEPT !.pc = "select"])
    BY DEF Request, Easy
  <1>2. ASSUME NEW pc, NEW c, pc \notin {"make", "default", "remove"}
        PROVE  Easy([t EXCEPT !.collection = c, !.pc = pc])
    <2>1. [t EXCEPT !.collection = c, !.pc = pc].pc = pc /\ [t EXCEPT !.collection = c, !.pc = pc].left = t.left
      BY DEF Request
    <2> QED
      BY <1>2, <2>1 DEF Easy
  <1> QED
    BY <1>1, <1>2

LEMMA SelectEasily ==
  ASSUME TypeInv, SelectInv, NEW r \in Requests,
         \/ FindOwned(r) \/ UpdateCover(r) \/ FindSave(r) \/ UpdateCollection(r) \/ CreateSave(r) \/ FindLatest(r)
         \/ FindCoverMedia(r) \/ RefreshCover(r) \/ FindTarget(r) \/ FindPrevious(r) \/ UpsertCollection(r)
  PROVE  SelectInv'
  <1>1. PICK pc : At(r, pc) /\ pc \notin {"select", "make", "default", "remove"} /\ Rest
    BY DEF FindOwned, UpdateCover, FindSave, UpdateCollection, CreateSave, FindLatest, FindCoverMedia, RefreshCover,
           FindTarget, FindPrevious, UpsertCollection
  <1>2. req[r] \in Request /\ (req[r].pc \in {"owned", "upsert"} => req[r].left = Both)
    BY <1>1, AtWell DEF Well
  <1>3. GoOn(r) /\ ~RemoveCollection(r)
    BY <1>1 DEF GoOn, RemoveCollection, At
  <1>4. KeepsCollections
    BY <1>3, AlwaysSteps
  <1>5. Chosen(collections') = Chosen(collections)
    BY <1>4, ChosenCover DEF FindOwned, UpdateCover, FindSave, UpdateCollection, CreateSave, FindLatest, FindCoverMedia,
           RefreshCover, FindTarget, FindPrevious, UpsertCollection, Nothing
  <1>6. ASSUME NEW t, Go(r, t), t # None => Easy(t) PROVE SelectInv'
    BY <1>1, <1>5, <1>6, EasyGoes
  <1>7. CASE FindOwned(r)
    <2>1. req[r].left = Both
      BY <1>2, <1>7 DEF FindOwned, At
    <2>2. CASE Activate(r, req[r].collection)
      BY <1>2, <1>6, <2>1, <2>2, EasySelect DEF Activate
    <2>3. CASE Go(r, [req[r] EXCEPT !.collection = 0, !.pc = "selected"])
      BY <1>2, <1>6, <2>1, <2>3, EasySelect
    <2> QED
      BY <1>7, <2>2, <2>3 DEF FindOwned
  <1>8. CASE UpdateCover(r)
    BY <1>2, <1>6, <1>8, EasyPc DEF UpdateCover, GoTo
  <1>9. CASE FindSave(r)
    BY <1>2, <1>6, <1>9, EasyPc DEF FindSave, GoTo, Finish
  <1>10. CASE UpdateCollection(r) \/ CreateSave(r) \/ RefreshCover(r) \/ FindTarget(r)
    BY <1>2, <1>6, <1>10, EasyPc DEF UpdateCollection, CreateSave, RefreshCover, FindTarget, GoTo, Finish
  <1>11. CASE FindLatest(r)
    BY <1>2, <1>6, <1>11, EasyPc DEF FindLatest
  <1>12. CASE FindCoverMedia(r)
    BY <1>2, <1>6, <1>12, EasyPc DEF FindCoverMedia
  <1>13. CASE FindPrevious(r)
    BY <1>2, <1>6, <1>13, EasyPc DEF FindPrevious, GoTo
  <1>14. CASE UpsertCollection(r)
    BY <1>2, <1>6, <1>14, EasySelect DEF UpsertCollection, GoTo, At
  <1> QED
    BY <1>7, <1>8, <1>9, <1>10, <1>11, <1>12, <1>13, <1>14

\* What a request that runs alone knows at an await.
LEMMA FitsAt ==
  ASSUME SelectInv, NEW r \in Requests, NEW pc, At(r, pc), Rest, ~mixed'
  PROVE  Fits(req[r], Chosen(collections))
  BY DEF SelectInv, Rest, Running, At

LEMMA SelectFinds ==
  ASSUME TypeInv, SelectInv, NEW r \in Requests, FindSelected(r)
  PROVE  SelectInv'
  <1>1. At(r, "selected") /\ Rest /\ collections' = collections
    BY DEF FindSelected, Nothing
  <1>2. req[r] \in Request /\ req[r] # None /\ req[r].left = Both /\ req[r].op = "save"
    BY <1>1, AtWell, RequestFields DEF Well, OnItsWay, Ops
  <1>3. ASSUME NEW c, Activate(r, c) PROVE SelectInv'
    BY <1>1, <1>2, <1>3, EasyGoes, EasySelect DEF Activate
  <1>4. CASE GoTo(r, "default") /\ Chosen(collections) = {}
    <2> DEFINE t == [req[r] EXCEPT !.pc = "default"]
    <2>1. Go(r, t) /\ t.pc = "default" /\ t.op = "save"
      BY <1>2, <1>4 DEF GoTo, Request
    <2> HIDE DEF t
    <2>2. Fits(t, {}) /\ AtMostOne({})
      BY <2>1 DEF Fits, AtMostOne
    <2> QED
      BY <1>1, <1>2, <1>4, <2>1, <2>2, SelectNext, GoesAlone
  <1> QED
    BY <1>3, <1>4 DEF FindSelected, Chosen, Existing, Exists

\* What follows an update that leaves one collection selected: an easy await, or the end.
LEMMA DefaultIsSelected ==
  ASSUME TypeInv, SelectInv, NEW r \in Requests, At(r, "default"), Rest, NEW c \in Ids, NEW cover, HasDefault(r, c, cover),
         Chosen(collections') \subseteq Chosen(collections) \union {c}
  PROVE  SelectInv'
  <1>1. req[r] \in Request /\ req[r] # None /\ req[r].left = Both /\ Alone(r)
    BY AtWell, GoesAlone DEF Well
  <1>2. ~mixed' => IF req[r].op = "delete" THEN Chosen(collections) \subseteq {req[r].collection} ELSE Chosen(collections) = {}
    BY FitsAt DEF Fits, At
  <1>3. CASE req[r].op = "delete"
    <2> DEFINE t == [req[r] EXCEPT !.pc = "remove"]
    <2>1. Go(r, t) /\ t.pc = "remove" /\ t.collection = req[r].collection /\ t.left = Both /\ "first" \in Both
      BY <1>1, <1>3 DEF HasDefault, GoTo, Request, Both
    <2> HIDE DEF t
    <2>2. ~mixed' => Fits(t, Chosen(collections'))
      BY <1>2, <1>3, <2>1 DEF Fits, AtMostOne
    <2>3. t # None
      BY <2>1, RequestFields, Updated, <1>1 DEF t, Pcs
    <2> QED
      BY <1>1, <2>1, <2>2, <2>3, SelectNext
  <1>4. CASE req[r].op # "delete"
    <2>1. ~mixed' => AtMostOne(Chosen(collections'))
      BY <1>2, <1>4 DEF AtMostOne
    <2>2. CASE req[r].op = "save"
      <3>1. Easy([req[r] EXCEPT !.collection = c, !.pc = IF cover = DefaultCover THEN "cover" ELSE "existing"])
        BY <1>1, EasySelect
      <3> QED
        BY <1>1, <2>1, <2>2, <3>1, EasyNext DEF HasDefault
    <2>3. CASE Go(r, None)
      BY <1>1, <2>1, <2>3, EasyNext
    <2> QED
      BY <1>4, <2>2, <2>3 DEF HasDefault, Finish
  <1> QED
    BY <1>3, <1>4

LEMMA SelectDefault ==
  ASSUME TypeInv, SelectInv, NEW r \in Requests, EnsureDefaultCollection(r)
  PROVE  SelectInv'
  <1>1. At(r, "default") /\ Rest
    BY DEF EnsureDefaultCollection
  <1>2. req[r] # None /\ Alone(r)
    BY <1>1, GoesAlone DEF At
  <1>3. ASSUME NEW c \in Existing, collections' = [collections EXCEPT ![c].selected = TRUE],
               HasDefault(r, c, collections[c].cover)
        PROVE  SelectInv'
    <2>1. c \in Ids /\ Chosen(collections') \subseteq Chosen(collections) \union {c}
      BY <1>3, ChosenOne DEF Existing
    <2> QED
      BY <1>1, <1>3, <2>1, DefaultIsSelected
  <1>4. CASE Make(New(AllSaved, TRUE)) /\ HasDefault(r, ids + 1, DefaultCover)
    <2>1. Chosen(collections') \subseteq Chosen(collections) \union {ids + 1}
      BY <1>4, ChosenOne DEF Make
    <2>2. ids + 1 \in Ids
      BY <1>4, TypeParts, BoundsAssumption DEF TypeInv, CollectionsOK, Make, Ids
    <2> QED
      BY <1>1, <1>4, <2>1, <2>2, DefaultIsSelected
  <1>5. CASE Finish(r) /\ UNCHANGED collections
    <2>1. ~mixed' => AtMostOne(Chosen(collections'))
      BY <1>1, <1>5, FitsAt DEF Fits, At, AtMostOne
    <2> QED
      BY <1>2, <1>5, <2>1, EasyNext DEF Finish
  <1> QED
    BY <1>3, <1>4, <1>5 DEF EnsureDefaultCollection

LEMMA SelectSelects ==
  ASSUME TypeInv, SelectInv, NEW r \in Requests, SelectOnly(r)
  PROVE  SelectInv'
  <1> DEFINE c == req[r].collection
  <1>1. At(r, "select") /\ Rest
    BY DEF SelectOnly
  <1>2. req[r] \in Request /\ req[r] # None /\ req[r].pc = "select" /\ req[r].left \subseteq {"first", "second"} /\ c \in Ids /\ Alone(r)
    <2>1. req[r] \in Request /\ req[r] # None /\ req[r].pc = "select" /\ Well(req[r]) /\ req[r].op \in Ops /\ req[r].left \subseteq Both
      BY <1>1, AtWell, RequestFields
    <2>2. req[r].op \in {"save", "move"}
      BY <2>1 DEF Well, OnItsWay, Ops
    <2> QED
      BY <1>1, <2>1, <2>2, GoesAlone DEF Well, Wants, Both
  <1>3. ~mixed' => Fits(req[r], Chosen(collections))
    BY <1>1, FitsAt
  <1>4. PICK write \in req[r].left :
           /\ collections' = IF write = "second" THEN Cleared(c)
                             ELSE IF Exists(c)
                             THEN [collections EXCEPT ![c].selected = TRUE, ![c].cover = CoverImage(req[r].post)] ELSE collections
           /\ IF req[r].left = {write} THEN Selected(r) ELSE Go(r, [req[r] EXCEPT !.left = @ \ {write}])
    BY DEF SelectOnly
  <1>5. write \in {"first", "second"}
    BY <1>2
  <1>6. write = "second" => Chosen(collections') \subseteq {c}
    BY <1>4, ChosenCleared
  <1>7. write = "first" => Chosen(collections') \subseteq Chosen(collections) \union {c}
    <2> SUFFICES ASSUME write = "first" PROVE Chosen(collections') \subseteq Chosen(collections) \union {c}
      OBVIOUS
    <2>1. collections \in [Ids -> Collection \union {None}]
      BY TypeParts DEF TypeInv, CollectionsOK
    <2>2. \A d \in Ids : d # c => collections'[d] = collections[d]
      BY <1>4, <2>1
    <2> QED
      BY <2>2 DEF Chosen
  <1>8. CASE req[r].left = {write}
    <2>1. ~mixed' => AtMostOne(Chosen(collections'))
      BY <1>2, <1>3, <1>5, <1>6, <1>7, <1>8 DEF Fits, AtMostOne
    <2>2. Easy([req[r] EXCEPT !.pc = "existing"]) /\ Easy([req[r] EXCEPT !.pc = "latest"])
      BY <1>2, EasyPc
    <2> QED
      BY <1>2, <1>4, <1>8, <2>1, <2>2, EasyNext DEF Selected, GoTo, Finish
  <1>9. CASE req[r].left # {write}
    <2>1. req[r].left = {"first", "second"}
      BY <1>2, <1>4, <1>5, <1>9
    <2> DEFINE t == [req[r] EXCEPT !.left = @ \ {write}]
    <2>2. Go(r, t) /\ t.pc = "select" /\ t.left = {"first", "second"} \ {write} /\ t.collection = c
      BY <1>2, <1>4, <1>9, <2>1 DEF Request
    <2>3. t # None
      <3>1. req[r].left \ {write} \in SUBSET Both
        BY <2>1 DEF Both
      <3>2. t \in Request
        BY <1>2, <3>1, LeftOver
      <3> QED
        BY <3>2, RequestFields
    <2> HIDE DEF t, c
    <2>4. CASE write = "first"
      <3>1. t.left = {"second"}
        BY <2>2, <2>4
      <3> QED
        BY <1>2, <2>2, <2>3, <3>1, SelectNext DEF Fits
    <2>5. CASE write = "second"
      <3>1. t.left = {"first"}
        BY <2>2, <2>5
      <3>2. Fits(t, Chosen(collections'))
        BY <1>6, <2>2, <2>5, <3>1 DEF Fits, AtMostOne
      <3> QED
        BY <1>2, <2>2, <2>3, <3>2, SelectNext
    <2> QED
      BY <1>5, <2>4, <2>5
  <1> QED
    BY <1>8, <1>9

LEMMA SelectNames ==
  ASSUME TypeInv, SelectInv, NEW r \in Requests, MakeCollection(r) \/ UpdateName(r)
  PROVE  SelectInv'
  <1>1. Rest /\ Go(r, None) /\ req[r] # None /\ Alone(r)
    BY GoesAlone DEF MakeCollection, UpdateName, At, Finish
  <1>2. CASE MakeCollection(r)
    <2>1. ~mixed' => Chosen(collections) = {}
      BY <1>1, <1>2, FitsAt DEF MakeCollection, Fits, At
    <2>2. Chosen(collections') \subseteq Chosen(collections) \union {ids + 1}
      BY <1>2, ChosenOne DEF MakeCollection, Make
    <2>3. ~mixed' => AtMostOne(Chosen(collections'))
      BY <2>1, <2>2 DEF AtMostOne
    <2> QED
      BY <1>1, <2>3, EasyNext
  <1>3. CASE UpdateName(r)
    <2>1. ~mixed' => AtMostOne(Chosen(collections))
      BY <1>1, <1>3, FitsAt DEF UpdateName, Fits, At
    <2>2. collections \in [Ids -> Collection \union {None}]
      BY TypeParts DEF TypeInv, CollectionsOK
    <2>3. \A d \in Ids : collections[d] # None => [collections[d] EXCEPT !.name = req[r].name].selected = collections[d].selected
      BY <2>2 DEF Collection
    <2>4. Chosen(collections') \subseteq Chosen(collections)
      BY <1>3, <2>2, <2>3 DEF UpdateName, Chosen, Exists
    <2>5. ~mixed' => AtMostOne(Chosen(collections'))
      BY <2>1, <2>4 DEF AtMostOne
    <2> QED
      BY <1>1, <2>5, EasyNext
  <1> QED
    BY <1>2, <1>3

LEMMA SelectRemoves ==
  ASSUME TypeInv, SelectInv, NEW r \in Requests, NEW t, NEW write, Removal(r, t, write)
  PROVE  SelectInv'
  <1> DEFINE c == req[r].collection
  <1>1. req[r] \in Request /\ req[r] # None /\ req[r].pc = "remove" /\ Rest /\ Go(r, t) /\ req[r].left \subseteq Both
    BY RequestFields DEF Removal
  <1>2. Alone(r)
    BY <1>1, GoesAlone
  <1>3. ~mixed' => AtMostOne(Chosen(collections) \ {c}) /\ ("first" \notin req[r].left => c \notin Chosen(collections))
    BY <1>1, FitsAt DEF Fits, At
  <1>4. write = "first" => Chosen(collections') = Chosen(collections) \ {c}
    <2>1. collections \in [Ids -> Collection \union {None}]
      BY TypeParts DEF TypeInv, CollectionsOK
    <2> QED
      BY <2>1 DEF Removal, Chosen
  <1>5. write # "first" => collections' = collections
    BY DEF Removal
  <1>6. CASE t = None
    <2>1. req[r].left = {write}
      BY <1>6, RequestFields DEF Removal
    <2>2. ~mixed' => AtMostOne(Chosen(collections'))
      BY <1>3, <1>4, <1>5, <2>1 DEF AtMostOne
    <2> QED
      BY <1>1, <1>2, <1>6, <2>2, EasyNext
  <1>7. CASE t # None
    <2>1. t.pc = "remove" /\ t.collection = c /\ t.left = req[r].left \ {write}
      BY <1>7 DEF Removal
    <2>2. ~mixed' => Fits(t, Chosen(collections'))
      BY <1>3, <1>4, <1>5, <2>1 DEF Fits, AtMostOne
    <2> QED
      BY <1>1, <1>2, <1>7, <2>2, SelectNext
  <1> QED
    BY <1>6, <1>7

\* The cleanup of a post, and no step at all.
LEMMA SelectCleans ==
  ASSUME TypeInv, SelectInv,
         \/ \E p \in Posts : HidePost(p) \/ FindAffectedSaves(p) \/ DeleteSaves(p) \/ FindNextCover(p) \/ UpdateNextCover(p)
         \/ UNCHANGED vars
  PROVE  SelectInv'
  <1>1. UNCHANGED <<req, mixed>>
    BY DEF HidePost, FindAffectedSaves, DeleteSaves, FindNextCover, UpdateNextCover, CleanupGoesOn, vars, history
  <1>2. Chosen(collections') = Chosen(collections)
    BY CleanSteps, ChosenCover
       DEF HidePost, FindAffectedSaves, DeleteSaves, FindNextCover, UpdateNextCover, CleanStep, vars
  <1> QED
    BY <1>1, <1>2 DEF SelectInv, Running

LEMMA SelectionStays == TypeInv /\ SelectInv /\ [Next]_vars => SelectInv'
  <1> SUFFICES ASSUME TypeInv, SelectInv, [Next]_vars PROVE SelectInv'
    OBVIOUS
  <1>1. ASSUME NEW r \in Requests, GoOn(r) PROVE SelectInv'
    BY <1>1, SelectEasily, SelectFinds, SelectDefault, SelectSelects, SelectNames, RemoveStep, SelectRemoves DEF GoOn
  <1> QED
    BY <1>1, SelectBegins, SelectCleans DEF Next

\* When nothing runs, at most one collection is selected, unless two requests ran at the same
\* time: each of selectOnly, createCollection, ensureDefaultCollection and deleteCollection
\* puts the selection right again, whichever of its two updates takes effect first.
THEOREM OneIsSelected == Spec => []OneSelected
  <1>1. SelectInv => OneSelected
    BY DEF SelectInv, OneSelected, Chosen, AtMostOne, Existing, Exists
  <1> QED
    BY TypeInit, TypeStep, SelectInit, SelectionStays, <1>1, PTL DEF Spec

----------------------------------------------------------------------------
(* The covers of collections.                                              *)

\* The posts in S that are in c allow c to have this cover: it is the cover of one of them, or
\* the default, when there is none or one that is hidden (and not yet cleaned up).
Shows(c, image, S, V) ==
    \/ \E s \in S : s.collection = c /\ image = CoverImage(s.post)
    \/ image = DefaultCover /\ (\/ \A s \in S : s.collection # c
                                \/ \E s \in S : s.collection = c /\ s.post \notin V)

\* All collections but those in X have a cover they may have.
Fine(X, C, S, V) == \A c \in Ids \ X : C[c] # None => Shows(c, C[c].cover, S, V)

\* The collection a post is about to be put into.
Ready(t, C, S, V) ==
    /\ Fine({t.collection}, C, S, V)
    /\ C[t.collection] # None =>
        \/ C[t.collection].cover = CoverImage(t.post)
        \/ C[t.collection].cover # DefaultCover /\ Shows(t.collection, C[t.collection].cover, S, V)

\* What a request that runs alone finds at every await.
Serves(t, C, S, V) ==
    /\ t.pc \in {"owned", "selected", "default", "cover", "target", "previous", "upsert", "make", "name"} => Fine({}, C, S, V)
    /\ t.pc = "upsert" => \A s \in S : s.post = t.post => s.collection = t.source
    /\ t.pc = "select" /\ t.op = "save" => IF "first" \in t.left THEN Fine({}, C, S, V) ELSE Ready(t, C, S, V)
    /\ t.pc = "select" /\ t.op = "move" =>
        /\ Fine({t.collection, t.source}, C, S, V)
        /\ \E s \in S : s.post = t.post /\ s.collection = t.collection
        /\ "first" \notin t.left /\ C[t.collection] # None => Shows(t.collection, C[t.collection].cover, S, V)
    /\ t.pc \in {"existing", "update", "insert"} => Ready(t, C, S, V)
    /\ t.pc = "insert" => \A s \in S : s.post # t.post
    /\ t.pc = "update" => \E s \in S : s.n = t.n /\ s.post = t.post /\ s.collection = t.source
    /\ t.pc \in {"latest", "media", "refresh"} => Fine({t.source}, C, S, V)
    /\ t.pc = "media" => \E s \in S : s.collection = t.source /\ s.post = t.post
    /\ t.pc = "refresh" => Shows(t.source, t.image, S, V)
    /\ t.pc = "remove" => Fine({t.collection}, C, S, V) /\ ("first" \notin t.left => C[t.collection] = None)

\* What the only cleanup finds: where its post was is on its list, and so are the covers it has found.
Mends(p, stage, A, C, S, V) ==
    /\ stage = "read" => /\ Fine({}, C, S, V)
                         /\ \A s \in S : s.post = p => <<s.collection, None>> \in A
                         /\ \A todo \in A : todo[2] = None
    /\ stage = "refresh" => /\ Fine({todo[1] : todo \in A}, C, S, V)
                            /\ \A todo \in A : todo[2] # None => Shows(todo[1], todo[2], S, V)

\* Before a request has put its post where it goes.
Puts(t) == t.op \in {"save", "move"} /\ t.pc \notin {"latest", "media", "refresh"}

\* A post is saved once, and every save has a number of its own.
Distinct(S) == \A s, t \in S : s.n = t.n \/ s.post = t.post => s = t
SavesInv == Distinct(saves) /\ \A s \in saves : s.n <= stamps

HiddenInv == \A p \in Posts : p \in visible <=> cleanup[p] = "none"
RacedInv == ~mixed => raced = {}
IdsInv == \A c \in Ids : collections[c] # None => c <= ids

\* The saves of posts that are cleaned up are gone.
Swept(clean, S) == \A s \in S : clean[s.post] \notin {"refresh", "done"}

CoverInv ==
    ~mixed /\ ~late =>
        /\ \A r \in Running(req) : /\ Cleaning = {} /\ Serves(req[r], collections, saves, visible)
                                   /\ Puts(req[r]) => cleanup[req[r].post] # "done"
        /\ Swept(cleanup, saves)
        /\ \A p, q \in Cleaning : p = q
        /\ \A p \in Cleaning : Mends(p, cleanup[p], affected[p], collections, saves, visible)
        /\ Running(req) = {} /\ Cleaning = {} => Fine({}, collections, saves, visible)

LEMMA CoverInit == Init => SavesInv /\ HiddenInv /\ RacedInv /\ IdsInv /\ CoverInv
  <1> SUFFICES ASSUME Init PROVE SavesInv /\ HiddenInv /\ RacedInv /\ IdsInv /\ CoverInv
    OBVIOUS
  <1>1. SavesInv /\ HiddenInv /\ RacedInv /\ IdsInv
    BY DEF Init, SavesInv, HiddenInv, RacedInv, IdsInv, Distinct
  <1>2. Running(req) = {} /\ Cleaning = {} /\ Swept(cleanup, saves) /\ Fine({}, collections, saves, visible)
    BY DEF Init, Running, Cleaning, Swept, Fine
  <1> QED
    BY <1>1, <1>2 DEF CoverInv

----------------------------------------------------------------------------
(* How covers and saves change.                                            *)

\* But for Y, the collections in C2 were in C1, with the same cover.
SameCovers(Y, C1, C2) == \A c \in Ids \ Y : C2[c] # None => C1[c] # None /\ C2[c].cover = C1[c].cover

\* But for Y, a cover that was shown still is.
SameShows(Y, S1, V1, S2, V2) == \A c \in Ids \ Y : \A image : Shows(c, image, S1, V1) => Shows(c, image, S2, V2)

LEMMA FineMoves ==
  ASSUME NEW X, NEW C1, NEW S1, NEW V1, NEW C2, NEW S2, NEW V2, NEW Y, Fine(X, C1, S1, V1),
         SameCovers(Y, C1, C2), SameShows(Y, S1, V1, S2, V2), \A c \in X \ Y : c \in Ids => C2[c] = None
  PROVE  Fine(Y, C2, S2, V2)
  BY DEF Fine, SameCovers, SameShows

LEMMA FineAlso ==
  ASSUME NEW X, NEW C, NEW S, NEW V, NEW Y, Fine(Y, C, S, V),
         \A c \in Y \ X : c \in Ids /\ C[c] # None => Shows(c, C[c].cover, S, V)
  PROVE  Fine(X, C, S, V)
  BY DEF Fine

LEMMA NothingShows ==
  ASSUME NEW C, NEW S, NEW V, NEW Y
  PROVE  SameCovers(Y, C, C) /\ SameShows(Y, S, V, S, V)
  BY DEF SameCovers, SameShows

\* Posts are hidden.
LEMMA HidingShows ==
  ASSUME NEW S, NEW V1, NEW V2, V2 \subseteq V1
  PROVE  \A c, image : Shows(c, image, S, V1) => Shows(c, image, S, V2)
  BY DEF Shows

\* Only the saves of the collections in Y change.
LEMMA ElsewhereShows ==
  ASSUME NEW Y, NEW S1, NEW S2, NEW V, \A s : s \in S1 /\ s.collection \notin Y => s \in S2,
         \A s : s \in S2 /\ s.collection \notin Y => s \in S1
  PROVE  SameShows(Y, S1, V, S2, V)
  <1> SUFFICES ASSUME NEW c \in Ids \ Y, NEW image, Shows(c, image, S1, V) PROVE Shows(c, image, S2, V)
    BY DEF SameShows
  <1>1. \A s : s.collection = c => (s \in S1 <=> s \in S2)
    OBVIOUS
  <1> QED
    BY <1>1 DEF Shows

LEMMA CoverWritten ==
  ASSUME TypeInv, NEW c, NEW image, collections' = WithCover(c, image)
  PROVE  /\ SameCovers({c}, collections, collections')
         /\ c \in Ids /\ collections'[c] # None => collections[c] # None /\ collections'[c].cover = image
  <1>1. collections \in [Ids -> Collection \union {None}]
    BY TypeParts DEF TypeInv, CollectionsOK
  <1>2. CASE Exists(c)
    <2>1. c \in Ids /\ collections[c] \in Collection /\ collections[c] # None
      BY <1>1, <1>2 DEF Exists
    <2>2. collections' = [collections EXCEPT ![c] = [collections[c] EXCEPT !.cover = image]]
      BY <1>1, <1>2, <2>1 DEF WithCover
    <2>3. [collections[c] EXCEPT !.cover = image].cover = image
      BY <2>1 DEF Collection
    <2> QED
      BY <1>1, <2>1, <2>2, <2>3 DEF SameCovers
  <1>3. CASE ~Exists(c)
    BY <1>3 DEF WithCover, Exists, SameCovers
  <1> QED
    BY <1>2, <1>3

LEMMA CoverCleared ==
  ASSUME TypeInv, NEW c, collections' = Cleared(c)
  PROVE  SameCovers({}, collections, collections')
  <1>1. collections \in [Ids -> Collection \union {None}]
    BY TypeParts DEF TypeInv, CollectionsOK
  <1>2. \A d \in Ids : collections[d] # None => [collections[d] EXCEPT !.selected = FALSE].cover = collections[d].cover
    BY <1>1 DEF Collection
  <1> QED
    BY <1>1, <1>2 DEF Cleared, Exists, SameCovers

\* One collection is replaced.
LEMMA CoverReplaced ==
  ASSUME TypeInv, NEW c, NEW x, collections' = [collections EXCEPT ![c] = x]
  PROVE  /\ SameCovers({c}, collections, collections')
         /\ c \in Ids => collections'[c] = x
         /\ c \in Ids /\ (x = None \/ (collections[c] # None /\ x.cover = collections[c].cover)) =>
                SameCovers({}, collections, collections')
  <1>1. collections \in [Ids -> Collection \union {None}]
    BY TypeParts DEF TypeInv, CollectionsOK
  <1> QED
    BY <1>1 DEF SameCovers

----------------------------------------------------------------------------
(* Every save has a number and a post of its own; a hidden post is being   *)
(* cleaned up or was; requests one after the other race for nothing.       *)

LEMMA InsertKeeps ==
  ASSUME TypeInv, SavesInv, NEW p, NEW c, SavesOf(p) = {}, Insert(p, c)
  PROVE  SavesInv'
  <1>1. saves \subseteq Save /\ stamps \in Nat
    BY TypeParts DEF TypeInv, SavesOK
  <1> DEFINE new == [n |-> stamps + 1, post |-> p, collection |-> c]
  <1>2. new.n = stamps + 1 /\ new.post = p
    OBVIOUS
  <1>3. saves' = saves \union {new} /\ stamps' = stamps + 1
    BY DEF Insert
  <1> HIDE DEF new
  <1>4. \A s \in saves : s.n \in Nat /\ s.n <= stamps /\ s.post # p
    BY <1>1 DEF SavesInv, Save, SavesOf
  <1>5. \A s \in saves : s.n # new.n /\ s.post # new.post
    BY <1>1, <1>2, <1>4
  <1>6. Distinct(saves')
    BY <1>3, <1>5 DEF SavesInv, Distinct
  <1>7. \A s \in saves' : s.n <= stamps'
    BY <1>1, <1>2, <1>3, <1>4
  <1> QED
    BY <1>6, <1>7 DEF SavesInv

\* Saves that are moved are still the same saves.
LEMMA MovedSaves ==
  ASSUME TypeInv, NEW moved, NEW c, NEW m \in Moved(moved, c)
  PROVE  \E s \in saves : /\ m.n = s.n /\ m.post = s.post
                          /\ m = IF s \in moved THEN [s EXCEPT !.collection = c] ELSE s
                          /\ m.collection = IF s \in moved THEN c ELSE s.collection
  <1>1. PICK s \in saves : m = IF s \in moved THEN [s EXCEPT !.collection = c] ELSE s
    BY DEF Moved
  <1>2. s \in Save
    BY TypeParts DEF TypeInv, SavesOK
  <1>3. /\ [s EXCEPT !.collection = c].n = s.n /\ [s EXCEPT !.collection = c].post = s.post
        /\ [s EXCEPT !.collection = c].collection = c
    BY <1>2 DEF Save
  <1> QED
    BY <1>1, <1>3

LEMMA MoveKeeps ==
  ASSUME TypeInv, SavesInv, NEW moved, NEW c, saves' = Moved(moved, c), stamps' = stamps
  PROVE  SavesInv'
  <1>1. Distinct(saves')
    <2> SUFFICES ASSUME NEW k \in saves', NEW m \in saves', k.n = m.n \/ k.post = m.post PROVE k = m
      BY DEF Distinct
    <2>1. PICK s \in saves : /\ k.n = s.n /\ k.post = s.post /\ k = IF s \in moved THEN [s EXCEPT !.collection = c] ELSE s
      BY MovedSaves
    <2>2. PICK t \in saves : /\ m.n = t.n /\ m.post = t.post /\ m = IF t \in moved THEN [t EXCEPT !.collection = c] ELSE t
      BY MovedSaves
    <2>3. s = t
      BY <2>1, <2>2 DEF SavesInv, Distinct
    <2> QED
      BY <2>1, <2>2, <2>3
  <1>2. \A m \in saves' : m.n <= stamps'
    BY MovedSaves DEF SavesInv
  <1> QED
    BY <1>1, <1>2 DEF SavesInv

\* The ways the saves change.
LEMMA SavesChange ==
  ASSUME [Next]_vars
  PROVE  \/ saves' \subseteq saves /\ stamps' = stamps
         \/ \E p, c : SavesOf(p) = {} /\ Insert(p, c)
         \/ \E moved, c : saves' = Moved(moved, c) /\ stamps' = stamps
  <1>1. CASE UNCHANGED vars
    BY <1>1 DEF vars
  <1>2. ASSUME NEW r \in Requests, Begin(r) PROVE saves' \subseteq saves /\ stamps' = stamps
    BY <1>2 DEF Begin, SavePost, ChangeSavedPostCollection, UnsavePost, CreateCollection, RenameCollection, DeleteCollection,
                ListCollections, Nothing
  <1>3. ASSUME NEW r \in Requests, UpdateCollection(r) \/ CreateSave(r) \/ UpsertCollection(r)
        PROVE  \/ saves' \subseteq saves /\ stamps' = stamps
               \/ \E p, c : SavesOf(p) = {} /\ Insert(p, c)
               \/ \E moved, c : saves' = Moved(moved, c) /\ stamps' = stamps
    BY <1>3 DEF UpdateCollection, CreateSave, UpsertCollection
  <1>4. ASSUME NEW r \in Requests, GoOn(r), ~UpdateCollection(r), ~CreateSave(r), ~UpsertCollection(r)
        PROVE  saves' \subseteq saves /\ stamps' = stamps
    BY <1>4 DEF GoOn, FindOwned, FindSelected, EnsureDefaultCollection, SelectOnly, UpdateCover, FindSave, FindLatest,
                FindCoverMedia, RefreshCover, FindTarget, FindPrevious, MakeCollection, UpdateName, RemoveCollection, Nothing
  <1>5. ASSUME NEW p \in Posts,
               HidePost(p) \/ FindAffectedSaves(p) \/ DeleteSaves(p) \/ FindNextCover(p) \/ UpdateNextCover(p)
        PROVE  saves' \subseteq saves /\ stamps' = stamps
    BY <1>5 DEF HidePost, FindAffectedSaves, DeleteSaves, FindNextCover, UpdateNextCover, CleanupGoesOn
  <1> QED
    BY <1>1, <1>2, <1>3, <1>4, <1>5 DEF Next

LEMMA SavesStep == TypeInv /\ SavesInv /\ [Next]_vars => SavesInv'
  <1> SUFFICES ASSUME TypeInv, SavesInv, [Next]_vars PROVE SavesInv'
    OBVIOUS
  <1>1. CASE saves' \subseteq saves /\ stamps' = stamps
    BY <1>1 DEF SavesInv, Distinct
  <1> QED
    BY <1>1, InsertKeeps, MoveKeeps, SavesChange

LEMMA HiddenStep == TypeInv /\ HiddenInv /\ [Next]_vars => HiddenInv'
  <1> SUFFICES ASSUME TypeInv, HiddenInv, [Next]_vars PROVE HiddenInv'
    OBVIOUS
  <1>0. cleanup \in [Posts -> {"none", "hidden", "read", "refresh", "done"}]
    BY TypeParts DEF TypeInv, PostsOK
  <1>1. CASE UNCHANGED vars
    BY <1>1 DEF vars, posts, HiddenInv
  <1>2. ASSUME NEW r \in Requests, Begin(r) \/ GoOn(r) PROVE HiddenInv'
    <2>1. UNCHANGED posts
      BY <1>2 DEF Begin, SavePost, ChangeSavedPostCollection, UnsavePost, CreateCollection, RenameCollection, DeleteCollection,
                ListCollections, Start, GoOn, FindOwned, FindSelected, EnsureDefaultCollection, SelectOnly, UpdateCover,
                FindSave, UpdateCollection, CreateSave, FindLatest, FindCoverMedia, RefreshCover, FindTarget, FindPrevious,
                UpsertCollection, MakeCollection, UpdateName, RemoveCollection, Rest
    <2> QED
      BY <2>1 DEF posts, HiddenInv
  <1>3. ASSUME NEW p \in Posts, HidePost(p) PROVE HiddenInv'
    BY <1>0, <1>3 DEF HidePost, HiddenInv
  <1>4. ASSUME NEW p \in Posts, FindAffectedSaves(p) \/ DeleteSaves(p) \/ FindNextCover(p) \/ UpdateNextCover(p)
        PROVE  HiddenInv'
    <2>1. visible' = visible
      BY <1>4 DEF FindAffectedSaves, DeleteSaves, FindNextCover, UpdateNextCover, CleanupGoesOn
    <2>2. \A q \in Posts : cleanup'[q] = "none" <=> cleanup[q] = "none"
      BY <1>0, <1>4 DEF FindAffectedSaves, DeleteSaves, FindNextCover, UpdateNextCover
    <2> QED
      BY <2>1, <2>2 DEF HiddenInv
  <1> QED
    BY <1>1, <1>2, <1>3, <1>4 DEF Next

LEMMA GoingPosts ==
  ASSUME NEW r \in Requests, GoOn(r)
  PROVE  Rest /\ req[r] # None /\ \E t : Go(r, t)
  <1>1. Rest /\ req[r] # None
    BY DEF GoOn, FindOwned, FindSelected, EnsureDefaultCollection, SelectOnly, UpdateCover,
           FindSave, UpdateCollection, CreateSave, FindLatest, FindCoverMedia, RefreshCover, FindTarget, FindPrevious,
           UpsertCollection, MakeCollection, UpdateName, RemoveCollection, At
  <1>2. \E t : Go(r, t)
    BY DEF GoOn, FindOwned, FindSelected, EnsureDefaultCollection, SelectOnly, UpdateCover, Activate, HasDefault, Selected,
           FindSave, UpdateCollection, CreateSave, FindLatest, FindCoverMedia, RefreshCover, FindTarget, FindPrevious,
           UpsertCollection, MakeCollection, UpdateName, RemoveCollection, Finish, GoTo
  <1> QED
    BY <1>1, <1>2

LEMMA RacedStep == TypeInv /\ SelectInv /\ RacedInv /\ [Next]_vars => RacedInv'
  <1> SUFFICES ASSUME TypeInv, SelectInv, RacedInv, [Next]_vars, ~mixed' PROVE raced' = {}
    BY DEF RacedInv
  <1>0. req \in [Requests -> Request \union {None}]
    BY TypeParts DEF TypeInv, RequestsOK
  <1>1. ASSUME NEW r \in Requests, NEW t, Go(r, t), Alone(r) PROVE raced' = {}
    <2>1. \A q \in Requests : q # r => req'[q] = None
      BY <1>0, <1>1 DEF Go, Alone
    <2>2. Contested(req') = {}
      BY <2>1 DEF Contested, Running
    <2> QED
      BY <1>1, <2>2 DEF Go, Alone, RacedInv
  <1>2. ASSUME NEW r \in Requests, Begin(r) PROVE raced' = {}
    <2>1. \E t : Start(r, t)
      BY <1>2 DEF Begin, SavePost, ChangeSavedPostCollection, UnsavePost, CreateCollection, RenameCollection, DeleteCollection,
                ListCollections
    <2> QED
      BY <1>1, <2>1, StartsAlone DEF Start
  <1>3. ASSUME NEW r \in Requests, GoOn(r) PROVE raced' = {}
    BY <1>1, <1>3, GoingPosts, GoesAlone
  <1>4. CASE UNCHANGED <<mixed, raced>>
    BY <1>4 DEF RacedInv
  <1>5. ASSUME NEW p \in Posts,
               HidePost(p) \/ FindAffectedSaves(p) \/ DeleteSaves(p) \/ FindNextCover(p) \/ UpdateNextCover(p)
        PROVE  UNCHANGED <<mixed, raced>>
    BY <1>5 DEF HidePost, FindAffectedSaves, DeleteSaves, FindNextCover, UpdateNextCover, CleanupGoesOn, history
  <1>6. CASE UNCHANGED vars
    BY <1>4, <1>6 DEF vars, history
  <1> QED
    BY <1>2, <1>3, <1>4, <1>5, <1>6 DEF Next

LEMMA IdsStep == TypeInv /\ IdsInv /\ [Next]_vars => IdsInv'
  <1> SUFFICES ASSUME TypeInv, IdsInv, [Next]_vars PROVE IdsInv'
    OBVIOUS
  <1>0. collections \in [Ids -> Collection \union {None}] /\ ids \in Nat
    BY TypeParts, BoundsAssumption DEF TypeInv, CollectionsOK
  <1>1. ASSUME \A c \in Ids : collections'[c] # None => collections[c] # None, ids' = ids PROVE IdsInv'
    BY <1>1 DEF IdsInv
  <1>2. ASSUME NEW c, NEW image, collections' = WithCover(c, image), ids' = ids PROVE IdsInv'
    <2>1. \A d \in Ids : collections'[d] # None => collections[d] # None
      BY <1>0, <1>2, CoverWritten DEF SameCovers
    <2> QED
      BY <1>1, <1>2, <2>1
  <1>3. ASSUME NEW c, collections' = Cleared(c), ids' = ids PROVE IdsInv'
    <2>1. \A d \in Ids : collections'[d] # None => collections[d] # None
      BY <1>3, CoverCleared DEF SameCovers
    <2> QED
      BY <1>1, <1>3, <2>1
  <1>4. ASSUME NEW x, Make(x) PROVE IdsInv'
    BY <1>0, <1>4 DEF Make, IdsInv, Ids
  <1>5. ASSUME UNCHANGED <<collections, ids>> PROVE IdsInv'
    BY <1>5 DEF IdsInv
  <1>6. ASSUME NEW r \in Requests, Begin(r) PROVE IdsInv'
    <2>1. CASE \E name : CreateCollection(r, name)
      BY <1>3, <2>1 DEF CreateCollection
    <2>2. CASE ~\E name : CreateCollection(r, name)
      BY <1>5, <1>6, <2>2 DEF Begin, SavePost, ChangeSavedPostCollection, UnsavePost, RenameCollection, DeleteCollection,
                    ListCollections, Nothing
    <2> QED
      BY <2>1, <2>2
  <1>7. ASSUME NEW r \in Requests, EnsureDefaultCollection(r) PROVE IdsInv'
    <2>1. ASSUME NEW c \in Existing, collections' = [collections EXCEPT ![c].selected = TRUE], ids' = ids PROVE IdsInv'
      <3>1. c \in Ids /\ collections[c] # None
        BY DEF Existing, Exists
      <3>2. \A d \in Ids : collections'[d] # None => collections[d] # None
        BY <1>0, <2>1, <3>1
      <3> QED
        BY <1>1, <2>1, <3>2
    <2> QED
      BY <1>4, <1>5, <1>7, <2>1 DEF EnsureDefaultCollection
  <1>8. ASSUME NEW r \in Requests, SelectOnly(r) PROVE IdsInv'
    <2> DEFINE c == req[r].collection
    <2>1. ids' = ids
      BY <1>8 DEF SelectOnly
    <2>2. CASE collections' = Cleared(c)
      BY <1>3, <2>1, <2>2
    <2>3. CASE collections' = collections
      BY <1>5, <2>1, <2>3
    <2>4. CASE Exists(c) /\ collections' = [collections EXCEPT ![c].selected = TRUE, ![c].cover = CoverImage(req[r].post)]
      <3>1. c \in Ids /\ collections[c] # None
        BY <2>4 DEF Exists
      <3> HIDE DEF c
      <3>2. \A d \in Ids : d # c => collections'[d] = collections[d]
        BY <1>0, <2>4, <3>1
      <3> QED
        BY <1>1, <2>1, <3>1, <3>2
    <2> QED
      BY <1>8, <2>2, <2>3, <2>4 DEF SelectOnly
  <1>9. ASSUME NEW r \in Requests, MakeCollection(r) \/ UpdateName(r) PROVE IdsInv'
    <2>1. CASE MakeCollection(r)
      BY <1>4, <1>5, <2>1 DEF MakeCollection
    <2>2. CASE UpdateName(r)
      <3>1. \A d \in Ids : collections'[d] # None => collections[d] # None
        BY <1>0, <2>2 DEF UpdateName, Exists
      <3> QED
        BY <1>1, <2>2, <3>1 DEF UpdateName
    <2> QED
      BY <1>9, <2>1, <2>2
  <1>10. ASSUME NEW r \in Requests, RemoveCollection(r) PROVE IdsInv'
    <2>1. \A d \in Ids : collections'[d] # None => collections[d] # None
      BY <1>0, <1>10 DEF RemoveCollection
    <2> QED
      BY <1>1, <1>10, <2>1 DEF RemoveCollection
  <1>11. ASSUME NEW r \in Requests, UpdateCover(r) \/ RefreshCover(r) PROVE IdsInv'
    BY <1>2, <1>11 DEF UpdateCover, RefreshCover
  <1>12. ASSUME NEW r \in Requests,
                \/ FindOwned(r) \/ FindSelected(r) \/ FindSave(r) \/ UpdateCollection(r) \/ CreateSave(r)
                \/ FindLatest(r) \/ FindCoverMedia(r) \/ FindTarget(r) \/ FindPrevious(r) \/ UpsertCollection(r)
         PROVE  IdsInv'
    BY <1>5, <1>12 DEF FindOwned, FindSelected, FindSave, UpdateCollection, CreateSave, FindLatest, FindCoverMedia,
                       FindTarget, FindPrevious, UpsertCollection, Nothing
  <1>13. ASSUME NEW r \in Requests, GoOn(r) PROVE IdsInv'
    BY <1>7, <1>8, <1>9, <1>10, <1>11, <1>12, <1>13 DEF GoOn
  <1>14. ASSUME NEW p \in Posts, UpdateNextCover(p) PROVE IdsInv'
    BY <1>2, <1>14 DEF UpdateNextCover, CleanupGoesOn
  <1>15. ASSUME NEW p \in Posts, HidePost(p) \/ FindAffectedSaves(p) \/ DeleteSaves(p) \/ FindNextCover(p) PROVE IdsInv'
    BY <1>5, <1>15 DEF HidePost, FindAffectedSaves, DeleteSaves, FindNextCover, CleanupGoesOn
  <1>16. CASE UNCHANGED vars
    BY <1>5, <1>16 DEF vars
  <1> QED
    BY <1>6, <1>13, <1>14, <1>15, <1>16 DEF Next

----------------------------------------------------------------------------
(* Covers, from await to await.                                            *)

\* What a request that runs alone, beside no cleanup, leaves behind.
Leaves(t, C, S) ==
    /\ Swept(cleanup, S)
    /\ IF t = None THEN Fine({}, C, S, visible)
       ELSE Serves(t, C, S, visible) /\ (Puts(t) => cleanup[t.post] # "done")

LEMMA CoverNext ==
  ASSUME TypeInv, NEW r \in Requests, NEW t, Alone(r), Go(r, t), UNCHANGED posts,
         ~mixed' /\ ~late' => ~late /\ Cleaning = {} /\ Leaves(t, collections', saves')
  PROVE  CoverInv'
  <1>1. req \in [Requests -> Request \union {None}]
    BY TypeParts DEF TypeInv, RequestsOK
  <1>2. req'[r] = t /\ \A q \in Requests : q # r => req'[q] = req[q]
    BY <1>1 DEF Go
  <1>3. visible' = visible /\ cleanup' = cleanup /\ affected' = affected /\ Cleaning' = Cleaning
    BY DEF posts, Cleaning
  <1> SUFFICES ASSUME ~mixed', ~late' PROVE CoverInv'
    BY DEF CoverInv
  <1>4. \A q \in Running(req') : q = r
    BY <1>2 DEF Alone, Running
  <1>5. r \in Running(req') <=> t # None
    BY <1>2 DEF Running
  <1>6. Cleaning' = {} /\ Leaves(t, collections', saves')
    BY <1>3
  <1>7. \A q \in Running(req') : Serves(req'[q], collections', saves', visible)
    BY <1>2, <1>4, <1>5, <1>6 DEF Leaves
  <1>8. Swept(cleanup', saves')
    BY <1>3, <1>6 DEF Leaves
  <1>9. Running(req') = {} => Fine({}, collections', saves', visible)
    BY <1>5, <1>6 DEF Leaves
  <1>10. \A q \in Running(req') : Serves(req'[q], collections', saves', visible')
    BY <1>3, <1>7
  <1>13. \A q \in Running(req') : Puts(req'[q]) => cleanup'[req'[q].post] # "done"
    BY <1>2, <1>3, <1>4, <1>5, <1>6 DEF Leaves
  <1>11. Running(req') = {} => Fine({}, collections', saves', visible')
    BY <1>3, <1>9
  <1>12. (\A p, q \in Cleaning' : p = q) /\ \A p \in Cleaning' : Mends(p, cleanup'[p], affected'[p], collections', saves', visible')
    BY <1>6
  <1> QED
    BY <1>6, <1>8, <1>10, <1>11, <1>12, <1>13 DEF CoverInv

\* What a request finds at an await, when it has always been alone.
LEMMA CoverAt ==
  ASSUME CoverInv, NEW r \in Requests, req[r] # None, ~mixed, ~late
  PROVE  /\ Cleaning = {} /\ Swept(cleanup, saves) /\ Serves(req[r], collections, saves, visible)
         /\ Puts(req[r]) => cleanup[req[r].post] # "done"
  BY DEF CoverInv, Running

\* A request that goes on.
LEMMA CoverGoes ==
  ASSUME TypeInv, SelectInv, CoverInv, NEW r \in Requests, req[r] # None, Rest, NEW t, Go(r, t),
         ~mixed /\ ~late => Leaves(t, collections', saves')
  PROVE  CoverInv'
  <1>1. Alone(r) /\ UNCHANGED posts /\ mixed' = mixed /\ late' = late
    BY GoesAlone DEF Rest
  <1>2. ~mixed /\ ~late => Cleaning = {}
    BY CoverAt
  <1> QED
    BY <1>1, <1>2, CoverNext

\* A request that begins.
LEMMA CoverStarts ==
  ASSUME TypeInv, SelectInv, CoverInv, NEW r \in Requests, NEW t, Start(r, t),
         Fine({}, collections, saves, visible) /\ Swept(cleanup, saves) => Leaves(t, collections', saves')
  PROVE  CoverInv'
  <1>1. Alone(r) /\ Go(r, t) /\ UNCHANGED posts
    BY StartsAlone DEF Start
  <1>2. ~mixed' /\ ~late' => ~mixed /\ ~late /\ Cleaning = {} /\ Running(req) = {}
    BY DEF Start
  <1>3. ~mixed' /\ ~late' => Fine({}, collections, saves, visible) /\ Swept(cleanup, saves)
    BY <1>2 DEF CoverInv
  <1> QED
    BY <1>1, <1>2, <1>3, CoverNext

Plainly == {"owned", "selected", "default", "cover", "target", "previous", "make", "name"}

LEMMA PlainServes ==
  ASSUME NEW t, t.pc \in Plainly, NEW C, NEW S, NEW V, Fine({}, C, S, V)
  PROVE  Serves(t, C, S, V)
  BY DEF Serves, Plainly

LEMMA CoverBegins ==
  ASSUME TypeInv, SelectInv, HiddenInv, SavesInv, CoverInv, NEW r \in Requests, Begin(r)
  PROVE  CoverInv'
  <1>0. visible \subseteq Posts /\ saves \subseteq Save /\ AllSaved \in Names \union {AllSaved}
    BY TypeParts DEF TypeInv, PostsOK, SavesOK
  <1>1. ASSUME NEW t, Start(r, t), t.pc \in Plainly, t # None, Puts(t) => t.post \in visible,
               SameCovers({}, collections, collections'), saves' = saves
        PROVE  CoverInv'
    <2>1. Puts(t) => cleanup[t.post] # "done"
      BY <1>0, <1>1 DEF HiddenInv
    <2>2. Fine({}, collections, saves, visible) => Fine({}, collections', saves, visible)
      BY <1>1, FineMoves, NothingShows
    <2>3. Fine({}, collections, saves, visible) /\ Swept(cleanup, saves) => Leaves(t, collections', saves')
      BY <1>1, <2>1, <2>2, PlainServes DEF Leaves
    <2> QED
      BY <1>1, <2>3, CoverStarts
  <1>2. ASSUME NEW op \in Ops, NEW pc \in Plainly, NEW p \in Posts \union {None}, NEW c \in 0..MaxCollections,
               NEW name \in Names \union {AllSaved}, Start(r, Task(op, pc, p, c, 0, name)),
               op \in {"save", "move"} => p \in visible,
               SameCovers({}, collections, collections'), saves' = saves
        PROVE  CoverInv'
    <2> DEFINE t == Task(op, pc, p, c, 0, name)
    <2>1. t \in Request /\ t.op = op /\ t.pc = pc /\ t.post = p
      BY <1>2, IdRange, TaskType DEF Plainly, Pcs
    <2>2. t # None
      BY <2>1, RequestFields
    <2>3. Start(r, t)
      BY <1>2
    <2> HIDE DEF t
    <2> QED
      BY <1>1, <1>2, <2>1, <2>2, <2>3 DEF Puts
  <1>3. ASSUME NEW p \in Posts, NEW c \in 0..MaxCollections, SavePost(r, p, c)
        PROVE  CoverInv'
    <2> DEFINE pc == IF c = 0 THEN "selected" ELSE "owned"
    <2>1. pc \in Plainly /\ "save" \in Ops
      BY DEF Plainly, Ops
    <2>2. Start(r, Task("save", pc, p, c, 0, AllSaved)) /\ p \in visible /\ collections' = collections /\ saves' = saves
      BY <1>3 DEF SavePost, Nothing
    <2> HIDE DEF pc
    <2> QED
      BY <1>0, <1>2, <2>1, <2>2, NothingShows
  <1>4. ASSUME NEW p \in Posts, NEW c \in 0..MaxCollections, ChangeSavedPostCollection(r, p, c)
        PROVE  CoverInv'
    <2>1. Start(r, Task("move", "target", p, c, 0, AllSaved)) /\ p \in visible /\ collections' = collections /\ saves' = saves
      BY <1>4 DEF ChangeSavedPostCollection, Nothing
    <2>2. "target" \in Plainly /\ "move" \in Ops
      BY DEF Plainly, Ops
    <2> QED
      BY <1>0, <1>2, <2>1, <2>2, NothingShows
  <1>5. ASSUME NEW p \in Posts, UnsavePost(r, p)
        PROVE  CoverInv'
    <2>1. PICK s \in SavesOf(p) : /\ Start(r, Task("unsave", "latest", p, 0, s.collection, AllSaved))
                                 /\ saves' = saves \ {s}
      BY <1>5 DEF UnsavePost
    <2>2. collections' = collections
      BY <1>5 DEF UnsavePost
    <2> DEFINE t == Task("unsave", "latest", p, 0, s.collection, AllSaved)
    <2>3. t \in Request /\ t.op = "unsave" /\ t.pc = "latest" /\ t.source = s.collection
      <3>1. s.collection \in 0..MaxCollections
        BY <1>0, IdRange DEF SavesOf, Save
      <3> QED
        BY <1>0, <3>1, IdRange, TaskType DEF Ops, Pcs
    <2>4. t # None
      BY <2>3, RequestFields
    <2>5. Start(r, t)
      BY <2>1
    <2> HIDE DEF t
    <2>6. SameShows({t.source}, saves, visible, saves', visible)
      BY <2>1, <2>3, ElsewhereShows
    <2>7. Fine({}, collections, saves, visible) => Fine({t.source}, collections', saves', visible)
      BY <2>2, <2>6, FineMoves, NothingShows
    <2>8. Fine({}, collections, saves, visible) /\ Swept(cleanup, saves) => Leaves(t, collections', saves')
      BY <2>1, <2>3, <2>4, <2>7 DEF Leaves, Serves, Puts, Swept
    <2> QED
      BY <2>5, <2>8, CoverStarts
  <1>6. ASSUME NEW name \in Names \union {AllSaved}, CreateCollection(r, name)
        PROVE  CoverInv'
    <2>1. Start(r, Task("create", "make", None, 0, 0, name)) /\ collections' = Cleared(0) /\ saves' = saves
      BY <1>6 DEF CreateCollection
    <2>2. "make" \in Plainly /\ "create" \in Ops
      BY DEF Plainly, Ops
    <2> QED
      BY <1>0, <1>2, <2>1, <2>2, CoverCleared, IdRange
  <1>7. ASSUME NEW name \in Names \union {AllSaved}, NEW c \in Ids, RenameCollection(r, c, name)
        PROVE  CoverInv'
    <2>1. Start(r, Task("rename", "name", None, c, 0, name)) /\ collections' = collections /\ saves' = saves
      BY <1>7 DEF RenameCollection, Nothing
    <2>2. "name" \in Plainly /\ "rename" \in Ops
      BY DEF Plainly, Ops
    <2> QED
      BY <1>0, <1>2, <2>1, <2>2, NothingShows, IdRange
  <1>8. ASSUME NEW c \in Ids, DeleteCollection(r, c)
        PROVE  CoverInv'
    <2> DEFINE pc == IF collections[c].selected THEN "default" ELSE "remove"
               t == Task("delete", pc, None, c, 0, AllSaved)
    <2>1. Start(r, t) /\ collections' = collections /\ saves' = saves
      BY <1>8 DEF DeleteCollection, Nothing
    <2>2. pc \in {"default", "remove"} /\ pc \in Pcs
      BY DEF Pcs
    <2>3. t \in Request /\ t.op = "delete" /\ t.pc = pc /\ t.left = Both
      <3>1. "delete" \in Ops
        BY DEF Ops
      <3> HIDE DEF pc
      <3> QED
        BY <1>0, <2>2, <3>1, IdRange, TaskType
    <2>4. t # None
      BY <2>3, RequestFields
    <2> HIDE DEF pc, t
    <2>5. Fine({}, collections, saves, visible) => Fine({t.collection}, collections, saves, visible)
      BY DEF Fine
    <2>6. Fine({}, collections, saves, visible) /\ Swept(cleanup, saves) => Leaves(t, collections', saves')
      BY <2>1, <2>2, <2>3, <2>4, <2>5 DEF Leaves, Serves, Puts, Both
    <2> QED
      BY <2>1, <2>6, CoverStarts
  <1>9. CASE ListCollections(r)
    <2>1. Start(r, Task("list", "default", None, 0, 0, AllSaved)) /\ collections' = collections /\ saves' = saves
      BY <1>9 DEF ListCollections, Nothing
    <2>2. "default" \in Plainly /\ "list" \in Ops
      BY DEF Plainly, Ops
    <2> QED
      BY <1>0, <1>2, <2>1, <2>2, NothingShows, IdRange
  <1> QED
    BY <1>3, <1>4, <1>5, <1>6, <1>7, <1>8, <1>9 DEF Begin

----------------------------------------------------------------------------
(* What a request goes on with is the request, but for what it changes.    *)

Same(t, u) ==
    /\ u.op = t.op /\ u.post = t.post /\ u.collection = t.collection
    /\ u.source = t.source /\ u.n = t.n /\ u.image = t.image

LEMMA PcKept ==
  ASSUME NEW t \in Request, NEW u \in Request, NEW pc, u = [t EXCEPT !.pc = pc]
  PROVE  u # None /\ u.pc = pc /\ u.left = t.left /\ Same(t, u)
  <1>1. u # None
    BY RequestFields
  <1> QED
    BY <1>1 DEF Request, Same

LEMMA CollectionKept ==
  ASSUME NEW t \in Request, NEW u \in Request, NEW pc, NEW c, u = [t EXCEPT !.collection = c, !.pc = pc]
  PROVE  u # None /\ u.pc = pc /\ u.op = t.op /\ u.post = t.post /\ u.collection = c /\ u.left = t.left
  <1>1. u # None
    BY RequestFields
  <1> QED
    BY <1>1 DEF Request, Same

----------------------------------------------------------------------------
(* Awaits at which no cover is due.                                        *)

\* From one such await to another, or to the end.
LEMMA CoverPlainly ==
  ASSUME TypeInv, SelectInv, CoverInv, NEW r \in Requests, req[r] # None, req[r].pc \in Plainly, Rest, NEW t, Go(r, t),
         \/ t = None
         \/ t.pc \in Plainly /\ (Puts(t) => Puts(req[r]) /\ t.post = req[r].post),
         SameCovers({}, collections, collections'), saves' = saves
  PROVE  CoverInv'
  <1>1. ~mixed /\ ~late => Fine({}, collections, saves, visible) /\ Swept(cleanup, saves)
    BY CoverAt DEF Serves, Plainly
  <1>0. ~mixed /\ ~late /\ Puts(req[r]) => cleanup[req[r].post] # "done"
    BY CoverAt
  <1>2. Fine({}, collections, saves, visible) => Fine({}, collections', saves, visible)
    BY FineMoves, NothingShows
  <1>3. ASSUME ~mixed, ~late PROVE Leaves(t, collections', saves')
    <2>1. Fine({}, collections', saves', visible) /\ Swept(cleanup, saves')
      BY <1>1, <1>2, <1>3
    <2>2. t.pc \in Plainly => Serves(t, collections', saves', visible)
      BY <2>1, PlainServes
    <2>3. Puts(t) /\ t # None => cleanup[t.post] # "done"
      BY <1>0, <1>3
    <2> QED
      BY <2>1, <2>2, <2>3 DEF Leaves
  <1> QED
    BY <1>3, CoverGoes

LEMMA CoverActivates ==
  ASSUME TypeInv, SelectInv, CoverInv, NEW r \in Requests, req[r] # None, req[r].op = "save",
         req[r].pc \in {"owned", "selected"}, Rest, NEW c \in Ids, collections[c] # None, Activate(r, c), Nothing
  PROVE  CoverInv'
  <1> DEFINE pc == IF ~collections[c].selected THEN "select"
                   ELSE IF collections[c].cover = DefaultCover THEN "cover" ELSE "existing"
             t == [req[r] EXCEPT !.collection = c, !.pc = pc]
  <1>1. req[r] \in Request /\ c \in 0..MaxCollections /\ req[r].left = Both
    BY TypeParts, IdRange DEF TypeInv, RequestsOK, Well
  <1>2. pc \in Pcs /\ pc \in {"select", "cover", "existing"} /\ (pc = "existing" => collections[c].cover # DefaultCover)
    BY DEF Pcs
  <1>3. Go(r, t) /\ collections' = collections /\ saves' = saves
    BY DEF Activate, Nothing
  <1> HIDE DEF pc
  <1>4. t # None /\ t.pc = pc /\ t.op = "save" /\ t.post = req[r].post /\ t.collection = c /\ t.left = Both
    <2>1. t = [req[r] EXCEPT !.collection = c, !.pc = pc] /\ t \in Request
      BY <1>1, <1>2, Updated
    <2> HIDE DEF t
    <2> QED
      BY <1>1, <2>1, RequestFields DEF Request
  <1> HIDE DEF t
  <1>5. ASSUME ~mixed, ~late PROVE Leaves(t, collections', saves')
    <2>1. Fine({}, collections, saves, visible) /\ Swept(cleanup, saves) /\ cleanup[req[r].post] # "done"
      BY <1>5, CoverAt DEF Serves, Puts
    <2>2. Fine({c}, collections, saves, visible) /\ Shows(c, collections[c].cover, saves, visible)
      BY <2>1 DEF Fine
    <2>3. pc = "existing" => Ready(t, collections, saves, visible)
      BY <1>2, <1>4, <2>2 DEF Ready
    <2>4. Serves(t, collections, saves, visible)
      BY <1>2, <1>4, <2>1, <2>3 DEF Serves, Both
    <2> QED
      BY <1>3, <1>4, <2>1, <2>4 DEF Leaves
  <1> QED
    BY <1>3, <1>5, CoverGoes

LEMMA CoverFinds ==
  ASSUME TypeInv, SelectInv, CoverInv, NEW r \in Requests, FindOwned(r) \/ FindSelected(r)
  PROVE  CoverInv'
  <1>1. PICK pc \in {"owned", "selected"} : At(r, pc)
    BY DEF FindOwned, FindSelected
  <1>2. Rest /\ Nothing
    BY DEF FindOwned, FindSelected
  <1>3. req[r] \in Request /\ req[r] # None /\ req[r].pc \in {"owned", "selected"} /\ req[r].op = "save"
    BY <1>1, AtWell, RequestFields DEF Well, OnItsWay, Ops
  <1>4. ASSUME NEW c, Exists(c), Activate(r, c) PROVE CoverInv'
    BY <1>2, <1>3, <1>4, CoverActivates DEF Exists
  <1>5. ASSUME NEW t, Go(r, t), t.pc \in {"selected", "default"}, t.op = "save", t.post = req[r].post
        PROVE  CoverInv'
    <2>1. t.pc \in Plainly /\ req[r].pc \in Plainly /\ Puts(req[r])
      BY <1>3, <1>5 DEF Plainly, Puts
    <2>2. SameCovers({}, collections, collections') /\ saves' = saves
      BY <1>2, NothingShows DEF Nothing
    <2> QED
      BY <1>2, <1>3, <1>5, <2>1, <2>2, CoverPlainly
  <1>6. CASE Go(r, [req[r] EXCEPT !.collection = 0, !.pc = "selected"])
    <2> DEFINE t == [req[r] EXCEPT !.collection = 0, !.pc = "selected"]
    <2>1. t.pc = "selected" /\ t.op = req[r].op /\ t.post = req[r].post
      <3>1. "selected" \in Pcs /\ 0 \in 0..MaxCollections
        BY IdRange DEF Pcs
      <3>2. t = [req[r] EXCEPT !.collection = 0, !.pc = "selected"] /\ t \in Request
        BY <1>3, <3>1, Updated
      <3> HIDE DEF t
      <3> QED
        BY <1>3, <3>1, <3>2, CollectionKept
    <2>2. Go(r, t)
      BY <1>6
    <2> HIDE DEF t
    <2> QED
      BY <1>3, <1>5, <2>1, <2>2
  <1>7. CASE GoTo(r, "default")
    <2> DEFINE t == [req[r] EXCEPT !.pc = "default"]
    <2>1. t.pc = "default" /\ t.op = req[r].op /\ t.post = req[r].post
      <3>1. "default" \in Pcs
        BY DEF Pcs
      <3>2. t = [req[r] EXCEPT !.pc = "default"] /\ t \in Request
        BY <1>3, <3>1, Updated
      <3> HIDE DEF t
      <3> QED
        BY <1>3, <3>1, <3>2, PcKept DEF Same
    <2>2. Go(r, t)
      BY <1>7 DEF GoTo
    <2> HIDE DEF t
    <2> QED
      BY <1>3, <1>5, <2>1, <2>2
  <1> QED
    BY <1>4, <1>6, <1>7 DEF FindOwned, FindSelected, Existing

LEMMA CoverNames ==
  ASSUME TypeInv, SelectInv, CoverInv, NEW r \in Requests, FindTarget(r) \/ UpdateName(r)
  PROVE  CoverInv'
  <1>1. CASE FindTarget(r)
    <2>1. req[r] \in Request /\ req[r] # None /\ req[r].pc = "target" /\ req[r].op = "move" /\ Rest /\ Nothing
      BY <1>1, AtWell, RequestFields DEF FindTarget, Well, OnItsWay, Ops
    <2>2. SameCovers({}, collections, collections') /\ saves' = saves /\ req[r].pc \in Plainly
      BY <2>1, NothingShows DEF Nothing, Plainly
    <2>3. CASE Finish(r)
      BY <2>1, <2>2, <2>3, CoverPlainly DEF Finish
    <2>4. CASE GoTo(r, "previous")
      <3> DEFINE t == [req[r] EXCEPT !.pc = "previous"]
      <3>1. Go(r, t) /\ t = [req[r] EXCEPT !.pc = "previous"] /\ t \in Request
        BY <2>1, <2>4, Updated DEF GoTo, Pcs
      <3> HIDE DEF t
      <3>2. t.pc = "previous" /\ t.post = req[r].post
        BY <2>1, <3>1, PcKept DEF Same
      <3>3. t.pc \in Plainly /\ Puts(req[r])
        BY <2>1, <3>2 DEF Plainly, Puts
      <3> QED
        BY <2>1, <2>2, <3>1, <3>2, <3>3, CoverPlainly
    <2> QED
      BY <1>1, <2>3, <2>4 DEF FindTarget
  <1>2. CASE UpdateName(r)
    <2>1. req[r] # None /\ req[r].pc \in Plainly /\ Rest /\ Go(r, None) /\ saves' = saves
      BY <1>2 DEF UpdateName, At, Plainly, Finish
    <2>2. collections \in [Ids -> Collection \union {None}]
      BY TypeParts DEF TypeInv, CollectionsOK
    <2>3. \A d \in Ids : collections[d] # None => [collections[d] EXCEPT !.name = req[r].name].cover = collections[d].cover
      BY <2>2 DEF Collection
    <2>4. SameCovers({}, collections, collections')
      BY <1>2, <2>2, <2>3 DEF UpdateName, Exists, SameCovers
    <2> QED
      BY <2>1, <2>4, CoverPlainly
  <1> QED
    BY <1>1, <1>2

\* A collection that is made has no saves.
LEMMA MadeIsFine ==
  ASSUME TypeInv, RaceInv, RacedInv, IdsInv, ~mixed, NEW x \in Collection, x.cover = DefaultCover, Make(x), saves' = saves,
         \A q \in Running(req) : req[q].pc # "remove", Fine({}, collections, saves, visible)
  PROVE  Fine({}, collections', saves', visible)
  <1>1. \A s \in saves : s.collection \in Ids /\ collections[s.collection] # None
    BY DEF RaceInv, SavesStay, RacedInv, Exists
  <1>2. SameCovers({ids + 1}, collections, collections') /\ (ids + 1 \in Ids => collections'[ids + 1] = x)
    BY CoverReplaced DEF Make
  <1>0. ids \in Nat
    BY TypeParts, BoundsAssumption DEF TypeInv, CollectionsOK
  <1>3. \A s \in saves : s.collection # ids + 1
    BY <1>0, <1>1 DEF IdsInv, Ids
  <1>4. Fine({ids + 1}, collections', saves, visible)
    BY <1>2, FineMoves, NothingShows
  <1>5. ids + 1 \in Ids => Shows(ids + 1, collections'[ids + 1].cover, saves, visible)
    BY <1>2, <1>3 DEF Shows
  <1> QED
    BY <1>4, <1>5, FineAlso

LEMMA CoverHasDefault ==
  ASSUME TypeInv, SelectInv, CoverInv, NEW r \in Requests, At(r, "default"), Rest, NEW c \in Ids, NEW cover,
         cover = collections'[c].cover, collections'[c] # None, HasDefault(r, c, cover), saves' = saves,
         ~mixed /\ ~late => Fine({}, collections', saves, visible)
  PROVE  CoverInv'
  <1>1. req[r] \in Request /\ req[r] # None /\ req[r].pc = "default" /\ req[r].left = Both /\ c \in 0..MaxCollections
    BY AtWell, IdRange DEF Well
  <1>2. ~mixed /\ ~late => Fine({}, collections', saves', visible) /\ Swept(cleanup, saves')
    BY <1>1, CoverAt
  <1>3. CASE req[r].op = "save"
    <2> DEFINE pc == IF cover = DefaultCover THEN "cover" ELSE "existing"
               t == [req[r] EXCEPT !.collection = c, !.pc = pc]
    <2>1. pc \in Pcs /\ pc \in {"cover", "existing"} /\ (pc = "existing" => cover # DefaultCover)
      BY DEF Pcs
    <2>2. Go(r, t)
      BY <1>3 DEF HasDefault
    <2> HIDE DEF pc
    <2>3. t \in Request
      BY <1>1, <2>1, Updated
    <2>4. t # None /\ t.pc = pc /\ t.op = "save" /\ t.post = req[r].post /\ t.collection = c
      BY <1>1, <1>3, <2>3, RequestFields DEF Request
    <2> HIDE DEF t
    <2>5. ASSUME ~mixed, ~late PROVE Leaves(t, collections', saves')
      <3>1. Fine({c}, collections', saves', visible) /\ Shows(c, collections'[c].cover, saves', visible)
        BY <1>2, <2>5 DEF Fine
      <3>2. pc = "existing" => Ready(t, collections', saves', visible)
        BY <2>1, <2>4, <3>1 DEF Ready
      <3>3. Serves(t, collections', saves', visible)
        BY <1>2, <2>1, <2>4, <2>5, <3>2 DEF Serves
      <3>4. cleanup[t.post] # "done"
        BY <1>1, <1>3, <2>4, <2>5, CoverAt DEF Puts
      <3> QED
        BY <1>2, <2>4, <2>5, <3>3, <3>4 DEF Leaves
    <2> QED
      BY <1>1, <2>2, <2>5, CoverGoes
  <1>4. CASE req[r].op = "delete"
    <2> DEFINE t == [req[r] EXCEPT !.pc = "remove"]
    <2>1. Go(r, t)
      BY <1>4 DEF HasDefault, GoTo
    <2>2. t \in Request
      BY <1>1, Updated DEF Pcs
    <2>3. t # None /\ t.pc = "remove" /\ t.op = "delete" /\ t.left = Both
      BY <1>1, <1>4, <2>2, RequestFields DEF Request
    <2> HIDE DEF t
    <2>4. ASSUME ~mixed, ~late PROVE Leaves(t, collections', saves')
      <3>1. Fine({t.collection}, collections', saves', visible)
        BY <1>2, <2>4 DEF Fine
      <3>2. Serves(t, collections', saves', visible) /\ ~Puts(t)
        BY <2>3, <3>1 DEF Serves, Both, Puts
      <3> QED
        BY <1>2, <2>3, <2>4, <3>2 DEF Leaves
    <2> QED
      BY <1>1, <2>1, <2>4, CoverGoes
  <1>5. CASE req[r].op \notin {"save", "delete"}
    <2>1. Go(r, None)
      BY <1>5 DEF HasDefault, Finish
    <2>2. ~mixed /\ ~late => Leaves(None, collections', saves')
      BY <1>2 DEF Leaves, Rest
    <2> QED
      BY <1>1, <2>1, <2>2, CoverGoes
  <1> QED
    BY <1>3, <1>4, <1>5

\* A request that runs alone and makes a collection.
LEMMA CoverMakes ==
  ASSUME TypeInv, RaceInv, SelectInv, RacedInv, IdsInv, CoverInv, NEW r \in Requests, req[r] # None,
         req[r].pc \in {"default", "make"}, NEW x \in Collection, x.cover = DefaultCover, Make(x), saves' = saves, ~mixed, ~late
  PROVE  Fine({}, collections', saves, visible)
  <1>1. \A q \in Running(req) : req[q].pc # "remove"
    BY DEF SelectInv, Running
  <1>2. Fine({}, collections, saves, visible)
    BY CoverAt DEF Serves
  <1>3. Fine({}, collections', saves', visible)
    BY <1>1, <1>2, MadeIsFine
  <1> QED
    BY <1>3

LEMMA CoverDefault ==
  ASSUME TypeInv, RaceInv, SelectInv, RacedInv, IdsInv, CoverInv, NEW r \in Requests, EnsureDefaultCollection(r)
  PROVE  CoverInv'
  <1>1. At(r, "default") /\ Rest /\ saves' = saves /\ req[r] # None /\ req[r].pc = "default"
    BY DEF EnsureDefaultCollection, At
  <1>2. ~mixed /\ ~late => Fine({}, collections, saves, visible) /\ Swept(cleanup, saves)
    BY <1>1, CoverAt DEF Serves
  <1>3. ASSUME NEW c \in Existing, collections' = [collections EXCEPT ![c].selected = TRUE],
               HasDefault(r, c, collections[c].cover)
        PROVE  CoverInv'
    <2> DEFINE x == [collections[c] EXCEPT !.selected = TRUE]
    <2>1. c \in Ids /\ collections[c] \in Collection /\ collections[c] # None /\ collections \in [Ids -> Collection \union {None}]
      BY TypeParts DEF TypeInv, CollectionsOK, Existing, Exists
    <2>2. x \in Collection /\ x.cover = collections[c].cover
      BY <2>1 DEF Collection
    <2>3. collections' = [collections EXCEPT ![c] = x]
      BY <1>3, <2>1
    <2> HIDE DEF x
    <2>4. SameCovers({}, collections, collections') /\ collections'[c] = x /\ x # None
      BY <2>1, <2>2, <2>3, CoverReplaced, CollectionFields
    <2>5. ~mixed /\ ~late => Fine({}, collections', saves, visible)
      BY <1>2, <2>4, FineMoves, NothingShows
    <2> QED
      BY <1>1, <1>3, <2>1, <2>2, <2>4, <2>5, CoverHasDefault
  <1>4. CASE Make(New(AllSaved, TRUE)) /\ HasDefault(r, ids + 1, DefaultCover)
    <2>1. New(AllSaved, TRUE) \in Collection /\ New(AllSaved, TRUE).cover = DefaultCover
      BY DEF New, Collection
    <2>2. ids + 1 \in Ids /\ collections'[ids + 1] = New(AllSaved, TRUE) /\ collections'[ids + 1] # None
      <3>1. ids + 1 \in Ids /\ collections'[ids + 1] # None
        BY <1>4, <2>1, MakeKeeps DEF TypeInv
      <3> QED
        BY <1>4, <3>1, CoverReplaced DEF Make
    <2>3. ~mixed /\ ~late => Fine({}, collections', saves, visible)
      BY <1>1, <1>4, <2>1, CoverMakes
    <2> QED
      BY <1>1, <1>4, <2>1, <2>2, <2>3, CoverHasDefault
  <1>5. CASE Finish(r) /\ UNCHANGED collections
    <2>1. ~mixed /\ ~late => Leaves(None, collections', saves')
      BY <1>1, <1>2, <1>5 DEF Leaves
    <2> QED
      BY <1>1, <1>5, <2>1, CoverGoes DEF Finish
  <1> QED
    BY <1>3, <1>4, <1>5 DEF EnsureDefaultCollection

LEMMA CoverMake ==
  ASSUME TypeInv, RaceInv, SelectInv, RacedInv, IdsInv, CoverInv, NEW r \in Requests, MakeCollection(r)
  PROVE  CoverInv'
  <1>1. req[r] \in Request /\ req[r] # None /\ req[r].pc = "make" /\ Rest /\ saves' = saves /\ Go(r, None)
    BY AtWell DEF MakeCollection, Finish
  <1>2. ~mixed /\ ~late => Fine({}, collections, saves, visible) /\ Swept(cleanup, saves)
    BY <1>1, CoverAt DEF Serves
  <1>3. New(req[r].name, FALSE) \in Collection /\ New(req[r].name, FALSE).cover = DefaultCover
    BY <1>1, RequestFields DEF New, Collection
  <1>4. ~mixed /\ ~late => Fine({}, collections', saves, visible)
    BY <1>1, <1>2, <1>3, CoverMakes DEF MakeCollection
  <1>5. ~mixed /\ ~late => Leaves(None, collections', saves')
    BY <1>1, <1>2, <1>4 DEF Leaves
  <1> QED
    BY <1>1, <1>5, CoverGoes

LEMMA CoverRemoves ==
  ASSUME TypeInv, SelectInv, CoverInv, NEW r \in Requests, NEW t, NEW write, Removal(r, t, write)
  PROVE  CoverInv'
  <1> DEFINE c == req[r].collection
  <1>1. req[r] \in Request /\ req[r] # None /\ req[r].pc = "remove" /\ Rest /\ Go(r, t) /\ c \in Ids /\ saves' \subseteq saves
    BY RequestFields DEF Removal
  <1>2. ASSUME ~mixed, ~late
        PROVE  /\ Fine({c}, collections, saves, visible) /\ Swept(cleanup, saves')
               /\ "first" \notin req[r].left => collections[c] = None
    <2>1. Serves(req[r], collections, saves, visible) /\ Swept(cleanup, saves)
      BY <1>1, <1>2, CoverAt
    <2>2. Swept(cleanup, saves')
      BY <1>1, <2>1 DEF Swept
    <2> QED
      BY <1>1, <2>1, <2>2 DEF Serves
  <1>3. SameCovers({c}, collections, collections') /\ SameShows({c}, saves, visible, saves', visible)
    <2>1. CASE write = "first"
      <3>1. collections' = [collections EXCEPT ![c] = None] /\ saves' = saves
        BY <2>1 DEF Removal
      <3> QED
        BY <3>1, CoverReplaced, NothingShows
    <2>2. CASE write # "first"
      <3>1. collections' = collections /\ saves' = saves \ SavesIn(c)
        BY <2>2 DEF Removal
      <3>2. SameShows({c}, saves, visible, saves', visible)
        BY <3>1, ElsewhereShows DEF SavesIn
      <3> QED
        BY <3>1, <3>2, NothingShows
    <2> QED
      BY <2>1, <2>2
  <1>4. "first" \notin req[r].left \/ write = "first" => collections'[c] = None \/ mixed \/ late
    <2>1. CASE write = "first"
      <3>1. collections' = [collections EXCEPT ![c] = None]
        BY <2>1 DEF Removal
      <3> QED
        BY <1>1, <3>1, CoverReplaced
    <2>2. CASE write # "first"
      BY <1>2, <2>2 DEF Removal
    <2> QED
      BY <2>1, <2>2
  <1>5. ASSUME ~mixed, ~late PROVE Leaves(t, collections', saves')
    <2>1. Fine({c}, collections', saves', visible)
      BY <1>2, <1>3, <1>5, FineMoves
    <2>2. CASE t = None
      <3>1. req[r].left = {write}
        BY <2>2, RequestFields DEF Removal
      <3>2. collections'[c] = None
        BY <1>4, <1>5, <3>1
      <3>3. Fine({}, collections', saves', visible)
        BY <2>1, <3>2, FineAlso
      <3> QED
        BY <1>2, <1>5, <2>2, <3>3 DEF Leaves
    <2>3. CASE t # None
      <3>1. t.pc = "remove" /\ t.collection = c /\ t.left = req[r].left \ {write} /\ t.op = "delete"
        BY <2>3 DEF Removal
      <3>2. "first" \notin t.left => collections'[c] = None
        BY <1>4, <1>5, <3>1
      <3>3. Serves(t, collections', saves', visible) /\ ~Puts(t)
        BY <2>1, <3>1, <3>2 DEF Serves, Puts
      <3> QED
        BY <1>2, <1>5, <2>3, <3>3 DEF Leaves
    <2> QED
      BY <2>2, <2>3
  <1> QED
    BY <1>1, <1>5, CoverGoes

\* A collection with saves has a latest one.
LEMMA LatestIsThere ==
  ASSUME TypeInv, SavesInv, NEW c, NEW s \in saves, s.collection = c
  PROVE  Latest(c) # {}
  <1>1. stamps \in Nat /\ \A t \in saves : t.n \in Nat /\ t.n <= stamps
    BY TypeParts DEF TypeInv, SavesOK, Save, SavesInv
  <1> DEFINE D == {stamps - t.n : t \in SavesIn(c)}
  <1>2. D \subseteq Nat /\ D # {}
    BY <1>1 DEF SavesIn
  <1>3. PICK d \in D : \A e \in D : d <= e
    <2> HIDE DEF D
    <2> DEFINE R == OpToRel(<, Nat)
    <2>1. IsWellFoundedOn(R, Nat)
      BY NatLessThanWellFounded, Zenon
    <2> HIDE DEF R
    <2>2. PICK d \in D : \A e \in D : ~(<<e, d>> \in R)
      BY <1>2, <2>1, WFMin
    <2>3. \A e \in D : ~(e < d)
      BY <1>2, <2>2, Zenon DEF R, OpToRel
    <2> QED
      BY <1>2, <2>3
  <1>4. PICK t \in SavesIn(c) : d = stamps - t.n
    OBVIOUS
  <1>5. \A u \in SavesIn(c) : stamps - t.n <= stamps - u.n
    BY <1>3, <1>4
  <1>6. \A u \in SavesIn(c) : u.n <= t.n
    BY <1>1, <1>4, <1>5 DEF SavesIn
  <1>7. t \in Latest(c)
    BY <1>4, <1>6 DEF Latest
  <1> QED
    BY <1>7

\* A cover that is computed from the saves there are.
LEMMA CoverOfLatest ==
  ASSUME TypeInv, SavesInv, NEW c, NEW image,
         \/ Latest(c) = {} /\ image = DefaultCover
         \/ \E s \in Latest(c) : image = CoverMedia(s.post)
  PROVE  Shows(c, image, saves, visible)
  <1>1. CASE Latest(c) = {} /\ image = DefaultCover
    <2>1. \A s \in saves : s.collection # c
      BY <1>1, LatestIsThere
    <2> QED
      BY <1>1, <2>1 DEF Shows
  <1>2. CASE \E s \in Latest(c) : image = CoverMedia(s.post)
    BY <1>2 DEF Latest, SavesIn, CoverMedia, Shows
  <1> QED
    BY <1>1, <1>2

LEMMA CoverRefreshes ==
  ASSUME TypeInv, SelectInv, SavesInv, CoverInv, NEW r \in Requests, FindLatest(r) \/ FindCoverMedia(r) \/ RefreshCover(r)
  PROVE  CoverInv'
  <1> DEFINE source == req[r].source
  <1>1. PICK pc \in {"latest", "media", "refresh"} : At(r, pc)
    BY DEF FindLatest, FindCoverMedia, RefreshCover
  <1>2. req[r] \in Request /\ req[r] # None /\ req[r].pc = pc
    BY <1>1, AtWell
  <1>3. ~mixed /\ ~late => Fine({source}, collections, saves, visible) /\ Swept(cleanup, saves)
    BY <1>2, CoverAt DEF Serves
  <1>4. Rest
    BY DEF FindLatest, FindCoverMedia, RefreshCover
  <1>5. ASSUME NEW t, Go(r, t), t \in Request, t.source = source, t.pc \in {"media", "refresh"}, Nothing,
               t.pc = "media" => \E s \in saves : s.collection = source /\ s.post = t.post,
               t.pc = "refresh" /\ ~mixed /\ ~late => Shows(source, t.image, saves, visible)
        PROVE  CoverInv'
    <2>1. t # None
      BY <1>5, RequestFields
    <2>2. ASSUME ~mixed, ~late PROVE Leaves(t, collections', saves')
      <3>1. Serves(t, collections, saves, visible) /\ ~Puts(t)
        BY <1>3, <1>5, <2>2 DEF Serves, Puts
      <3> QED
        BY <1>3, <1>5, <2>1, <2>2, <3>1 DEF Leaves, Nothing
    <2> QED
      BY <1>2, <1>4, <1>5, <2>2, CoverGoes
  <1>6. CASE FindLatest(r)
    <2>1. Nothing
      BY <1>6 DEF FindLatest
    <2>2. CASE Latest(source) = {} /\ Go(r, [req[r] EXCEPT !.image = DefaultCover, !.pc = "refresh"])
      <3> DEFINE t == [req[r] EXCEPT !.image = DefaultCover, !.pc = "refresh"]
      <3>1. Go(r, t) /\ t \in Request
        BY <1>2, <2>2, Updated DEF Pcs
      <3>2. t.pc = "refresh" /\ t.source = source /\ t.image = DefaultCover
        BY <1>2, <3>1 DEF Request
      <3>3. Shows(source, DefaultCover, saves, visible)
        BY <2>2, CoverOfLatest
      <3> HIDE DEF t, source
      <3> QED
        BY <1>5, <2>1, <3>1, <3>2, <3>3
    <2>3. ASSUME NEW s \in Latest(source), Go(r, [req[r] EXCEPT !.post = s.post, !.pc = "media"])
          PROVE  CoverInv'
      <3> DEFINE t == [req[r] EXCEPT !.post = s.post, !.pc = "media"]
      <3>1. s \in saves /\ s.collection = source /\ s.post \in Posts
        BY TypeParts DEF Latest, SavesIn, TypeInv, SavesOK, Save
      <3>2. Go(r, t) /\ t \in Request
        BY <1>2, <2>3, <3>1, Updated DEF Pcs
      <3>3. t.pc = "media" /\ t.source = source /\ t.post = s.post
        BY <1>2, <3>2 DEF Request
      <3> HIDE DEF t, source
      <3> QED
        BY <1>5, <2>1, <3>1, <3>2, <3>3
    <2> QED
      BY <1>6, <2>2, <2>3 DEF FindLatest
  <1>7. CASE FindCoverMedia(r)
    <2> DEFINE image == CoverMedia(req[r].post)
               t == [req[r] EXCEPT !.image = image, !.pc = "refresh"]
    <2>1. Nothing /\ req[r].pc = "media"
      BY <1>7 DEF FindCoverMedia, At
    <2>2. image \in Posts \union {DefaultCover}
      <3>1. visible \subseteq Posts
        BY TypeParts DEF TypeInv, PostsOK
      <3> QED
        BY <3>1 DEF CoverMedia, CoverImage
    <2>3. Go(r, t)
      BY <1>7 DEF FindCoverMedia
    <2> HIDE DEF image
    <2>4. t \in Request
      BY <1>2, <2>2, Updated DEF Pcs
    <2>5. t.pc = "refresh" /\ t.source = source /\ t.image = image
      BY <1>2, <2>4 DEF Request
    <2> HIDE DEF t
    <2>6. ASSUME ~mixed, ~late PROVE Shows(source, image, saves, visible)
      <3>1. \E s \in saves : s.collection = source /\ s.post = req[r].post
        BY <1>2, <2>1, <2>6, CoverAt DEF Serves
      <3> QED
        BY <3>1 DEF Shows, CoverMedia, image
    <2> HIDE DEF source
    <2> QED
      BY <1>5, <2>1, <2>3, <2>4, <2>5, <2>6
  <1>8. CASE RefreshCover(r)
    <2>1. collections' = WithCover(source, req[r].image) /\ saves' = saves /\ Go(r, None) /\ req[r].pc = "refresh"
      BY <1>8 DEF RefreshCover, Finish, At
    <2>2. SameCovers({source}, collections, collections')
          /\ (source \in Ids /\ collections'[source] # None => collections'[source].cover = req[r].image)
      BY <2>1, CoverWritten
    <2>3. ASSUME ~mixed, ~late PROVE Leaves(None, collections', saves')
      <3>1. Shows(source, req[r].image, saves, visible)
        BY <1>2, <2>1, <2>3, CoverAt DEF Serves
      <3>2. Fine({source}, collections', saves, visible)
        BY <1>3, <2>2, <2>3, FineMoves, NothingShows
      <3>3. Fine({}, collections', saves, visible)
        BY <2>2, <3>1, <3>2, FineAlso
      <3> QED
        BY <1>3, <2>1, <2>3, <3>3 DEF Leaves
    <2> QED
      BY <1>2, <1>4, <2>1, <2>3, CoverGoes
  <1> QED
    BY <1>6, <1>7, <1>8

----------------------------------------------------------------------------
(* Awaits at which a post is put into a collection.                        *)

\* The collection a post was about to be put into, when it has been.
LEMMA PutShows ==
  ASSUME NEW t, NEW C, NEW S1, NEW S2, NEW V, Ready(t, C, S1, V),
         \E s \in S2 : s.collection = t.collection /\ s.post = t.post,
         \A s \in S1 : s.collection = t.collection => \E u \in S2 : u.collection = t.collection /\ u.post = s.post
  PROVE  C[t.collection] # None => Shows(t.collection, C[t.collection].cover, S2, V)
  BY DEF Ready, Shows

\* Where the saves are after some were moved.
LEMMA MovedTo ==
  ASSUME TypeInv, NEW moved, NEW c, NEW s \in saves
  PROVE  \E u \in Moved(moved, c) : u.post = s.post /\ u.collection = IF s \in moved THEN c ELSE s.collection
  <1>1. s \in Save
    BY TypeParts DEF TypeInv, SavesOK
  <1> DEFINE u == IF s \in moved THEN [s EXCEPT !.collection = c] ELSE s
  <1>2. u \in Moved(moved, c)
    BY DEF Moved
  <1>3. u.post = s.post /\ u.collection = IF s \in moved THEN c ELSE s.collection
    BY <1>1 DEF Save
  <1> HIDE DEF u
  <1> QED
    BY <1>2, <1>3

LEMMA MovedShows ==
  ASSUME TypeInv, NEW moved, NEW c, NEW from, \A s \in saves : s \in moved => s.collection = from
  PROVE  SameShows({c, from}, saves, visible, Moved(moved, c), visible)
  <1>1. \A s : s \in saves /\ s.collection \notin {c, from} => s \in Moved(moved, c)
    <2> SUFFICES ASSUME NEW s \in saves, s.collection \notin {c, from} PROVE s \in Moved(moved, c)
      OBVIOUS
    <2>1. s \notin moved
      OBVIOUS
    <2> QED
      BY <2>1 DEF Moved
  <1>2. \A m : m \in Moved(moved, c) /\ m.collection \notin {c, from} => m \in saves
    <2> SUFFICES ASSUME NEW m \in Moved(moved, c), m.collection \notin {c, from} PROVE m \in saves
      OBVIOUS
    <2>1. PICK s \in saves : /\ m = IF s \in moved THEN [s EXCEPT !.collection = c] ELSE s
                             /\ m.collection = IF s \in moved THEN c ELSE s.collection
      BY MovedSaves
    <2> QED
      BY <2>1
  <1> QED
    BY <1>1, <1>2, ElsewhereShows

LEMMA MovedSwept ==
  ASSUME TypeInv, Swept(cleanup, saves), NEW moved, NEW c
  PROVE  Swept(cleanup, Moved(moved, c))
  <1> SUFFICES ASSUME NEW m \in Moved(moved, c) PROVE cleanup[m.post] \notin {"refresh", "done"}
    BY DEF Swept
  <1>1. PICK s \in saves : m.post = s.post
    BY MovedSaves
  <1> QED
    BY <1>1 DEF Swept

LEMMA InsertShows ==
  ASSUME NEW p \in Posts, NEW c, Insert(p, c)
  PROVE  /\ SameShows({c}, saves, visible, saves', visible)
         /\ \E s \in saves' : s.collection = c /\ s.post = p
         /\ saves \subseteq saves'
         /\ Swept(cleanup, saves) /\ cleanup[p] \notin {"refresh", "done"} => Swept(cleanup, saves')
  <1> DEFINE new == [n |-> stamps + 1, post |-> p, collection |-> c]
  <1>1. new.post = p /\ new.collection = c /\ saves' = saves \union {new}
    BY DEF Insert
  <1> HIDE DEF new
  <1>2. SameShows({c}, saves, visible, saves', visible)
    BY <1>1, ElsewhereShows
  <1>3. Swept(cleanup, saves) /\ cleanup[p] \notin {"refresh", "done"} => Swept(cleanup, saves')
    BY <1>1 DEF Swept
  <1> QED
    BY <1>1, <1>2, <1>3

\* The post of a request that runs alone, before it is put anywhere, is not cleaned up.
LEMMA PutsKept ==
  ASSUME TypeInv, CoverInv, NEW r \in Requests, req[r] # None, ~mixed, ~late, Puts(req[r]), req[r].post \in Posts
  PROVE  cleanup[req[r].post] \notin {"refresh", "done"}
  BY CoverAt DEF Cleaning

LEMMA CoverUpdates ==
  ASSUME TypeInv, SelectInv, CoverInv, NEW r \in Requests, UpdateCover(r)
  PROVE  CoverInv'
  <1> DEFINE t == [req[r] EXCEPT !.pc = "existing"]
             c == req[r].collection
  <1>1. At(r, "cover") /\ collections' = WithCover(c, CoverImage(req[r].post)) /\ Go(r, t) /\ Rest /\ saves' = saves
    BY DEF UpdateCover, GoTo
  <1>2. req[r] \in Request /\ req[r] # None /\ req[r].pc = "cover" /\ Well(req[r])
    BY <1>1, AtWell
  <1>3. req[r].op = "save" /\ c \in Ids /\ req[r].op \in Ops
    BY <1>2, RequestFields DEF Well, OnItsWay, Wants, Ops
  <1>4. t \in Request
    BY <1>2, Updated DEF Pcs
  <1>5. t # None /\ t.pc = "existing" /\ Same(req[r], t)
    BY <1>2, <1>4, PcKept
  <1> HIDE DEF t
  <1>6. SameCovers({c}, collections, collections') /\ (collections'[c] # None => collections'[c].cover = CoverImage(req[r].post))
    BY <1>1, <1>3, CoverWritten
  <1>7. ASSUME ~mixed, ~late PROVE Leaves(t, collections', saves')
    <2>1. Fine({}, collections, saves, visible) /\ Swept(cleanup, saves) /\ (Puts(req[r]) => cleanup[req[r].post] # "done")
      BY <1>2, <1>7, CoverAt DEF Serves
    <2>2. Fine({c}, collections', saves', visible)
      BY <1>1, <1>6, <2>1, FineMoves, NothingShows
    <2>3. Ready(t, collections', saves', visible)
      BY <1>5, <1>6, <2>2 DEF Ready, Same
    <2>4. Serves(t, collections', saves', visible)
      BY <1>5, <2>3 DEF Serves
    <2>5. cleanup[t.post] # "done"
      BY <1>2, <1>3, <1>5, <2>1 DEF Puts, Same
    <2> QED
      BY <1>1, <1>5, <2>1, <2>4, <2>5 DEF Leaves
  <1> QED
    BY <1>1, <1>2, <1>7, CoverGoes

LEMMA CoverFindsSave ==
  ASSUME TypeInv, SelectInv, CoverInv, NEW r \in Requests, FindSave(r)
  PROVE  CoverInv'
  <1> DEFINE c == req[r].collection
             p == req[r].post
  <1>1. At(r, "existing") /\ Rest /\ collections' = collections /\ saves' = saves
    BY DEF FindSave, Nothing
  <1>2. req[r] \in Request /\ req[r] # None /\ req[r].pc = "existing" /\ Well(req[r])
    BY <1>1, AtWell
  <1>3. req[r].op = "save"
    BY <1>2, RequestFields DEF Well, OnItsWay, Ops
  <1>4. ~mixed /\ ~late => Ready(req[r], collections, saves, visible) /\ Swept(cleanup, saves) /\ cleanup[p] # "done"
    BY <1>2, <1>3, CoverAt DEF Serves, Puts
  <1>5. ASSUME NEW t, Go(r, t), t # None, t.pc \in {"insert", "update"}, t.post = p, t.collection = c,
               t.pc = "insert" => SavesOf(p) = {},
               t.pc = "update" => \E s \in saves : s.n = t.n /\ s.post = p /\ s.collection = t.source
        PROVE  CoverInv'
    <2>1. ASSUME ~mixed, ~late PROVE Leaves(t, collections', saves')
      <3>1. Ready(t, collections, saves, visible)
        BY <1>4, <1>5, <2>1 DEF Ready
      <3>2. Serves(t, collections, saves, visible)
        BY <1>5, <3>1 DEF Serves, SavesOf
      <3> QED
        BY <1>1, <1>4, <1>5, <2>1, <3>2 DEF Leaves
    <2> QED
      BY <1>1, <1>2, <1>5, <2>1, CoverGoes
  <1>6. CASE SavesOf(p) = {} /\ GoTo(r, "insert")
    <2> DEFINE t == [req[r] EXCEPT !.pc = "insert"]
    <2>1. Go(r, t) /\ t \in Request
      BY <1>2, <1>6, Updated DEF GoTo, Pcs
    <2>2. t # None /\ t.pc = "insert" /\ Same(req[r], t)
      BY <1>2, <2>1, PcKept
    <2> HIDE DEF t
    <2> QED
      BY <1>5, <1>6, <2>1, <2>2 DEF Same
  <1>7. ASSUME NEW s \in SavesOf(p), s.collection = c, Finish(r)
        PROVE  CoverInv'
    <2>1. ASSUME ~mixed, ~late PROVE Leaves(None, collections', saves')
      <3>1. Fine({c}, collections, saves, visible)
        BY <1>4, <2>1 DEF Ready
      <3>2. collections[c] # None => Shows(c, collections[c].cover, saves, visible)
        BY <1>4, <1>7, <2>1, PutShows DEF SavesOf
      <3>3. Fine({}, collections, saves, visible)
        BY <3>1, <3>2, FineAlso
      <3> QED
        BY <1>1, <1>4, <2>1, <3>3 DEF Leaves
    <2> QED
      BY <1>1, <1>2, <1>7, <2>1, CoverGoes DEF Finish
  <1>8. ASSUME NEW s \in SavesOf(p), Go(r, [req[r] EXCEPT !.source = s.collection, !.n = s.n, !.pc = "update"])
        PROVE  CoverInv'
    <2> DEFINE t == [req[r] EXCEPT !.source = s.collection, !.n = s.n, !.pc = "update"]
    <2>1. s \in saves /\ s.post = p /\ s.collection \in 0..MaxCollections /\ s.n \in Nat
      BY TypeParts, IdRange DEF SavesOf, TypeInv, SavesOK, Save
    <2>2. Go(r, t) /\ t \in Request
      BY <1>2, <1>8, <2>1, Updated DEF Pcs
    <2>3. t # None /\ t.pc = "update" /\ t.post = p /\ t.collection = c /\ t.n = s.n /\ t.source = s.collection
      BY <1>2, <2>2, RequestFields DEF Request
    <2> HIDE DEF t, p, c
    <2> QED
      BY <1>5, <2>1, <2>2, <2>3
  <1> QED
    BY <1>6, <1>7, <1>8 DEF FindSave

LEMMA CoverCreates ==
  ASSUME TypeInv, SelectInv, CoverInv, NEW r \in Requests, CreateSave(r)
  PROVE  CoverInv'
  <1> DEFINE c == req[r].collection
             p == req[r].post
  <1>1. At(r, "insert") /\ Rest /\ collections' = collections /\ Go(r, None)
    BY DEF CreateSave, Finish
  <1>2. req[r] \in Request /\ req[r] # None /\ req[r].pc = "insert" /\ Well(req[r])
    BY <1>1, AtWell
  <1>3. req[r].op = "save" /\ p \in Posts
    <2>1. req[r].op = "save"
      BY <1>2, RequestFields DEF Well, OnItsWay, Ops
    <2> QED
      BY <1>2, <2>1 DEF Well
  <1>4. ASSUME ~mixed, ~late PROVE Leaves(None, collections', saves')
    <2>1. Serves(req[r], collections, saves, visible) /\ Swept(cleanup, saves)
      BY <1>2, <1>4, CoverAt
    <2>2. Ready(req[r], collections, saves, visible) /\ SavesOf(p) = {}
      BY <1>2, <2>1 DEF Serves, SavesOf
    <2>3. Insert(p, c)
      BY <2>2 DEF CreateSave
    <2>4. cleanup[p] \notin {"refresh", "done"}
      BY <1>2, <1>3, <1>4, PutsKept DEF Puts
    <2>5. /\ SameShows({c}, saves, visible, saves', visible) /\ Swept(cleanup, saves')
          /\ \E s \in saves' : s.collection = c /\ s.post = p
          /\ saves \subseteq saves'
      BY <1>3, <2>1, <2>3, <2>4, InsertShows
    <2>6. Fine({c}, collections', saves', visible)
      BY <1>1, <2>2, <2>5, FineMoves, NothingShows DEF Ready
    <2>7. collections[c] # None => Shows(c, collections[c].cover, saves', visible)
      BY <2>2, <2>5, PutShows
    <2>8. Fine({}, collections', saves', visible)
      BY <1>1, <2>6, <2>7, FineAlso
    <2> QED
      BY <2>5, <2>8 DEF Leaves
  <1> QED
    BY <1>1, <1>2, <1>4, CoverGoes

LEMMA CoverMoves ==
  ASSUME TypeInv, SelectInv, SavesInv, CoverInv, NEW r \in Requests, UpdateCollection(r)
  PROVE  CoverInv'
  <1> DEFINE t == [req[r] EXCEPT !.pc = "latest"]
             c == req[r].collection
             source == req[r].source
             moved == {s \in saves : s.n = req[r].n}
  <1>1. At(r, "update") /\ Rest /\ collections' = collections /\ Go(r, t) /\ saves' = Moved(moved, c)
    BY DEF UpdateCollection, GoTo
  <1>2. req[r] \in Request /\ req[r] # None /\ req[r].pc = "update"
    BY <1>1, AtWell
  <1>3. t \in Request
    BY <1>2, Updated DEF Pcs
  <1>4. t # None /\ t.pc = "latest" /\ Same(req[r], t)
    BY <1>2, <1>3, PcKept
  <1> HIDE DEF t
  <1>5. ASSUME ~mixed, ~late PROVE Leaves(t, collections', saves')
    <2>1. Serves(req[r], collections, saves, visible) /\ Swept(cleanup, saves)
      BY <1>2, <1>5, CoverAt
    <2>2. Ready(req[r], collections, saves, visible)
      BY <1>2, <2>1 DEF Serves
    <2>3. PICK s \in saves : s.n = req[r].n /\ s.post = req[r].post /\ s.collection = source
      BY <1>2, <2>1 DEF Serves
    <2>4. \A u \in saves : u \in moved => u.collection = source
      BY <2>3 DEF SavesInv, Distinct
    <2>5. s \in moved
      BY <2>3
    <2> HIDE DEF moved
    <2>6. SameShows({c, source}, saves, visible, saves', visible) /\ Swept(cleanup, saves')
      BY <1>1, <2>1, <2>4, MovedShows, MovedSwept
    <2>7. \E u \in saves' : u.collection = c /\ u.post = req[r].post
      BY <1>1, <2>3, <2>5, MovedTo
    <2>8. ASSUME NEW v \in saves, v.collection = c
          PROVE  \E u \in saves' : u.collection = c /\ u.post = v.post
      <3>1. \E u \in Moved(moved, c) : u.post = v.post /\ u.collection = IF v \in moved THEN c ELSE v.collection
        BY MovedTo
      <3>2. (IF v \in moved THEN c ELSE v.collection) = c
        BY <2>8
      <3> QED
        BY <1>1, <3>1, <3>2
    <2>9. collections[c] # None => Shows(c, collections[c].cover, saves', visible)
      BY <2>2, <2>7, <2>8, PutShows
    <2>10. Fine({c, source}, collections, saves', visible)
      BY <2>2, <2>6, FineMoves, NothingShows DEF Ready
    <2>11. Fine({source}, collections', saves', visible)
      BY <1>1, <2>9, <2>10, FineAlso
    <2>12. Serves(t, collections', saves', visible) /\ ~Puts(t)
      BY <1>4, <2>11 DEF Serves, Puts, Same
    <2> QED
      BY <1>4, <2>6, <2>12 DEF Leaves
  <1> QED
    BY <1>1, <1>2, <1>5, CoverGoes

LEMMA CoverFindsPrevious ==
  ASSUME TypeInv, SelectInv, SavesInv, CoverInv, NEW r \in Requests, FindPrevious(r)
  PROVE  CoverInv'
  <1> DEFINE p == req[r].post
  <1>1. At(r, "previous") /\ Rest /\ collections' = collections /\ saves' = saves
    BY DEF FindPrevious, Nothing
  <1>2. req[r] \in Request /\ req[r] # None /\ req[r].pc = "previous" /\ Well(req[r])
    BY <1>1, AtWell
  <1>3. req[r].op = "move"
    BY <1>2, RequestFields DEF Well, OnItsWay, Ops
  <1>4. ASSUME NEW t, Go(r, t), t # None, t.pc = "upsert", t.post = p, \A s \in saves : s.post = p => s.collection = t.source
        PROVE  CoverInv'
    <2>1. ASSUME ~mixed, ~late PROVE Leaves(t, collections', saves')
      <3>1. Fine({}, collections, saves, visible) /\ Swept(cleanup, saves) /\ cleanup[p] # "done"
        BY <1>2, <1>3, <2>1, CoverAt DEF Serves, Puts
      <3>2. Serves(t, collections, saves, visible)
        BY <1>4, <3>1 DEF Serves
      <3> QED
        BY <1>1, <1>4, <3>1, <3>2 DEF Leaves
    <2> QED
      BY <1>1, <1>2, <1>4, <2>1, CoverGoes
  <1>5. CASE SavesOf(p) = {} /\ GoTo(r, "upsert")
    <2> DEFINE t == [req[r] EXCEPT !.pc = "upsert"]
    <2>1. Go(r, t) /\ t \in Request
      BY <1>2, <1>5, Updated DEF GoTo, Pcs
    <2>2. t # None /\ t.pc = "upsert" /\ Same(req[r], t)
      BY <1>2, <2>1, PcKept
    <2> HIDE DEF t
    <2> QED
      BY <1>4, <1>5, <2>1, <2>2 DEF Same, SavesOf
  <1>6. ASSUME NEW s \in SavesOf(p), Go(r, [req[r] EXCEPT !.source = s.collection, !.pc = "upsert"])
        PROVE  CoverInv'
    <2> DEFINE t == [req[r] EXCEPT !.source = s.collection, !.pc = "upsert"]
    <2>1. s \in saves /\ s.post = p /\ s.collection \in 0..MaxCollections
      BY TypeParts, IdRange DEF SavesOf, TypeInv, SavesOK, Save
    <2>2. Go(r, t) /\ t \in Request
      BY <1>2, <1>6, <2>1, Updated DEF Pcs
    <2>3. t # None /\ t.pc = "upsert" /\ t.post = p /\ t.source = s.collection
      BY <1>2, <2>2, RequestFields DEF Request
    <2>4. \A u \in saves : u.post = p => u.collection = s.collection
      BY <2>1 DEF SavesInv, Distinct
    <2> HIDE DEF t, p
    <2> QED
      BY <1>4, <2>2, <2>3, <2>4
  <1> QED
    BY <1>5, <1>6 DEF FindPrevious

LEMMA CoverUpserts ==
  ASSUME TypeInv, SelectInv, CoverInv, NEW r \in Requests, UpsertCollection(r)
  PROVE  CoverInv'
  <1> DEFINE t == [req[r] EXCEPT !.pc = "select"]
             c == req[r].collection
             p == req[r].post
             source == req[r].source
  <1>1. /\ At(r, "upsert") /\ Rest /\ collections' = collections /\ Go(r, t)
        /\ IF SavesOf(p) = {} THEN Insert(p, c) ELSE saves' = Moved(SavesOf(p), c)
    BY DEF UpsertCollection, GoTo
  <1>2. req[r] \in Request /\ req[r] # None /\ req[r].pc = "upsert" /\ Well(req[r])
    BY <1>1, AtWell
  <1>3. req[r].op = "move" /\ p \in Posts /\ req[r].left = Both
    <2>1. req[r].op = "move"
      BY <1>2, RequestFields DEF Well, OnItsWay, Ops
    <2> QED
      BY <1>2, <2>1 DEF Well
  <1>4. t \in Request
    BY <1>2, Updated DEF Pcs
  <1>5. t # None /\ t.pc = "select" /\ t.left = Both /\ Same(req[r], t)
    BY <1>2, <1>3, <1>4, PcKept
  <1> HIDE DEF t
  <1>6. ASSUME ~mixed, ~late PROVE Leaves(t, collections', saves')
    <2>1. Serves(req[r], collections, saves, visible) /\ Swept(cleanup, saves)
      BY <1>2, <1>6, CoverAt
    <2>2. Fine({}, collections, saves, visible) /\ \A s \in saves : s.post = p => s.collection = source
      BY <1>2, <2>1 DEF Serves
    <2>3. cleanup[p] \notin {"refresh", "done"}
      BY <1>2, <1>3, <1>6, PutsKept DEF Puts
    <2>4. /\ SameShows({c, source}, saves, visible, saves', visible)
          /\ \E s \in saves' : s.collection = c /\ s.post = p
          /\ Swept(cleanup, saves')
      <3>1. CASE SavesOf(p) = {}
        <4>1. /\ SameShows({c}, saves, visible, saves', visible) /\ Swept(cleanup, saves')
              /\ \E s \in saves' : s.collection = c /\ s.post = p
          BY <1>1, <1>3, <2>1, <2>3, <3>1, InsertShows
        <4>2. SameShows({c, source}, saves, visible, saves', visible)
          BY <4>1 DEF SameShows
        <4> QED
          BY <4>1, <4>2
      <3>2. CASE SavesOf(p) # {}
        <4>1. saves' = Moved(SavesOf(p), c)
          BY <1>1, <3>2
        <4>2. \A s \in saves : s \in SavesOf(p) => s.collection = source
          BY <2>2 DEF SavesOf
        <4>3. SameShows({c, source}, saves, visible, saves', visible) /\ Swept(cleanup, saves')
          BY <2>1, <4>1, <4>2, MovedShows, MovedSwept
        <4>4. PICK s \in saves : s \in SavesOf(p) /\ s.post = p
          BY <3>2 DEF SavesOf
        <4>5. \E u \in saves' : u.post = p /\ u.collection = c
          BY <4>1, <4>4, MovedTo
        <4> QED
          BY <4>3, <4>5
      <3> QED
        BY <3>1, <3>2
    <2>5. Fine({c, source}, collections', saves', visible)
      BY <1>1, <2>2, <2>4, FineMoves, NothingShows
    <2>6. Serves(t, collections', saves', visible)
      BY <1>3, <1>5, <2>4, <2>5 DEF Serves, Same, Both
    <2>7. cleanup[t.post] # "done"
      BY <1>5, <2>3 DEF Same
    <2> QED
      BY <1>5, <2>4, <2>6, <2>7 DEF Leaves
  <1> QED
    BY <1>1, <1>2, <1>6, CoverGoes

\* The two updates of selectOnly.
LEMMA SelectWrites ==
  ASSUME TypeInv, NEW c \in Ids, NEW p \in Posts, NEW write,
         collections' = IF write = "second" THEN Cleared(c)
                        ELSE IF Exists(c)
                        THEN [collections EXCEPT ![c].selected = TRUE, ![c].cover = CoverImage(p)] ELSE collections
  PROVE  /\ write = "second" => SameCovers({}, collections, collections')
         /\ write # "second" => /\ SameCovers({c}, collections, collections')
                                /\ collections'[c] # None => collections'[c].cover = CoverImage(p)
  <1>1. CASE write = "second"
    BY <1>1, CoverCleared
  <1>2. CASE write # "second" /\ Exists(c)
    <2> DEFINE x == [collections[c] EXCEPT !.selected = TRUE, !.cover = CoverImage(p)]
    <2>1. collections[c] \in Collection /\ collections \in [Ids -> Collection \union {None}]
      BY <1>2, TypeParts DEF TypeInv, CollectionsOK, Exists
    <2>2. collections' = [collections EXCEPT ![c] = x]
      BY <1>2, <2>1
    <2>3. x.cover = CoverImage(p)
      BY <2>1 DEF Collection
    <2> HIDE DEF x
    <2>4. SameCovers({c}, collections, collections') /\ collections'[c] = x
      BY <2>2, CoverReplaced
    <2> QED
      BY <1>2, <2>3, <2>4
  <1>3. CASE write # "second" /\ ~Exists(c)
    BY <1>3, NothingShows DEF Exists
  <1> QED
    BY <1>1, <1>2, <1>3

\* What follows each of them.
LEMMA CoverSelected ==
  ASSUME TypeInv, NEW r \in Requests, At(r, "select"), ~mixed, ~late, CoverInv, NEW write \in req[r].left,
         Rest, saves' = saves,
         collections' = IF write = "second" THEN Cleared(req[r].collection)
                        ELSE IF Exists(req[r].collection)
                        THEN [collections EXCEPT ![req[r].collection].selected = TRUE,
                                                 ![req[r].collection].cover = CoverImage(req[r].post)]
                        ELSE collections
  PROVE  LET c == req[r].collection
             p == req[r].post
             left == req[r].left \ {write}
         IN  /\ req[r].op = "save" =>
                    IF "first" \in left THEN Fine({}, collections', saves, visible) ELSE Ready(req[r], collections', saves, visible)
             /\ req[r].op = "move" =>
                    /\ Fine({c, req[r].source}, collections', saves, visible)
                    /\ \E s \in saves : s.post = p /\ s.collection = c
                    /\ "first" \notin left /\ collections'[c] # None => Shows(c, collections'[c].cover, saves, visible)
  <1> DEFINE c == req[r].collection
             p == req[r].post
             left == req[r].left \ {write}
             source == req[r].source
  <1>1. req[r] \in Request /\ req[r] # None /\ req[r].pc = "select" /\ Well(req[r]) /\ write \in Both
    BY AtWell, RequestFields
  <1>2. req[r].op \in {"save", "move"}
    BY <1>1, RequestFields DEF Well, OnItsWay, Ops
  <1>3. c \in Ids /\ p \in Posts
    BY <1>1, <1>2 DEF Well, Wants
  <1>4. /\ write = "second" => SameCovers({}, collections, collections')
        /\ write = "first" => /\ SameCovers({c}, collections, collections')
                              /\ collections'[c] # None => collections'[c].cover = CoverImage(p)
    BY <1>3, SelectWrites
  <1>5. Serves(req[r], collections, saves, visible)
    BY <1>1, CoverAt
  <1>6. CASE req[r].op = "save"
    <2>1. IF "first" \in req[r].left THEN Fine({}, collections, saves, visible) ELSE Ready(req[r], collections, saves, visible)
      BY <1>1, <1>5, <1>6 DEF Serves
    <2>2. CASE write = "first"
      <3>1. Fine({}, collections, saves, visible)
        BY <2>1, <2>2
      <3>2. Fine({c}, collections', saves, visible)
        BY <1>4, <2>2, <3>1, FineMoves, NothingShows
      <3>3. Ready(req[r], collections', saves, visible)
        BY <1>4, <2>2, <3>2 DEF Ready
      <3> QED
        BY <1>6, <2>2, <3>3
    <2>3. CASE write = "second" /\ "first" \in req[r].left
      <3>1. Fine({}, collections', saves, visible)
        BY <1>4, <2>1, <2>3, FineMoves, NothingShows
      <3> QED
        BY <1>6, <2>3, <3>1
    <2>4. CASE write = "second" /\ "first" \notin req[r].left
      <3>1. Ready(req[r], collections, saves, visible)
        BY <2>1, <2>4
      <3>2. /\ SameCovers({c}, collections, collections')
            /\ collections'[c] # None => collections[c] # None /\ collections'[c].cover = collections[c].cover
        BY <1>3, <1>4, <2>4 DEF SameCovers
      <3>3. Fine({c}, collections', saves, visible)
        BY <3>1, <3>2, FineMoves, NothingShows DEF Ready
      <3>4. Ready(req[r], collections', saves, visible)
        BY <3>1, <3>2, <3>3 DEF Ready
      <3> QED
        BY <1>6, <2>4, <3>4
    <2> QED
      BY <1>1, <2>2, <2>3, <2>4 DEF Both
  <1>7. CASE req[r].op = "move"
    <2>1. /\ Fine({c, source}, collections, saves, visible) /\ \E s \in saves : s.post = p /\ s.collection = c
          /\ "first" \notin req[r].left /\ collections[c] # None => Shows(c, collections[c].cover, saves, visible)
      BY <1>1, <1>5, <1>7 DEF Serves
    <2>2. SameCovers({c, source}, collections, collections')
      BY <1>1, <1>4 DEF SameCovers, Both
    <2>3. Fine({c, source}, collections', saves, visible)
      BY <2>1, <2>2, FineMoves, NothingShows
    <2>4. ASSUME "first" \notin left, collections'[c] # None
          PROVE  Shows(c, collections'[c].cover, saves, visible)
      <3>1. CASE write = "first"
        BY <1>4, <2>1, <2>4, <3>1 DEF Shows
      <3>2. CASE write = "second"
        <4>1. collections[c] # None /\ collections'[c].cover = collections[c].cover
          BY <1>3, <1>4, <2>4, <3>2 DEF SameCovers
        <4> QED
          BY <2>1, <2>4, <3>2, <4>1
      <3> QED
        BY <1>1, <3>1, <3>2 DEF Both
    <2> HIDE DEF left, source
    <2> QED
      BY <1>7, <2>1, <2>3, <2>4 DEF left, source
  <1> QED
    BY <1>2, <1>6, <1>7

LEMMA CoverSelects ==
  ASSUME TypeInv, SelectInv, CoverInv, NEW r \in Requests, SelectOnly(r)
  PROVE  CoverInv'
  <1> DEFINE c == req[r].collection
             p == req[r].post
             source == req[r].source
  <1>1. At(r, "select") /\ Rest /\ saves' = saves
    BY DEF SelectOnly
  <1>2. req[r] \in Request /\ req[r] # None /\ req[r].pc = "select" /\ Well(req[r]) /\ req[r].left \subseteq Both
    BY <1>1, AtWell, RequestFields
  <1>3. req[r].op \in {"save", "move"}
    BY <1>2, RequestFields DEF Well, OnItsWay, Ops
  <1>4. PICK write \in req[r].left :
            /\ collections' = IF write = "second" THEN Cleared(c)
                              ELSE IF Exists(c)
                              THEN [collections EXCEPT ![c].selected = TRUE, ![c].cover = CoverImage(p)] ELSE collections
            /\ IF req[r].left = {write} THEN Selected(r) ELSE Go(r, [req[r] EXCEPT !.left = @ \ {write}])
    BY DEF SelectOnly
  <1> DEFINE left == req[r].left \ {write}
  <1>5. ASSUME ~mixed, ~late
        PROVE  /\ req[r].op = "save" =>
                      IF "first" \in left THEN Fine({}, collections', saves, visible) ELSE Ready(req[r], collections', saves, visible)
               /\ req[r].op = "move" =>
                      /\ Fine({c, source}, collections', saves, visible)
                      /\ \E s \in saves : s.post = p /\ s.collection = c
                      /\ "first" \notin left /\ collections'[c] # None => Shows(c, collections'[c].cover, saves, visible)
    BY <1>1, <1>4, <1>5, CoverSelected
  <1>6. ~mixed /\ ~late => Swept(cleanup, saves') /\ (Puts(req[r]) => cleanup[p] # "done")
    BY <1>1, <1>2, CoverAt
  <1>7. Puts(req[r])
    BY <1>2, <1>3 DEF Puts
  <1> HIDE DEF left
  <1>8. CASE req[r].left # {write}
    <2> DEFINE t == [req[r] EXCEPT !.left = left]
    <2>1. Go(r, t)
      BY <1>4, <1>8 DEF left
    <2>2. t \in Request
      BY <1>2, LeftOver DEF left
    <2>3. t # None /\ t.pc = "select" /\ t.left = left /\ t.op = req[r].op /\ t.post = p /\ t.collection = c /\ t.source = source
      BY <1>2, <2>2, RequestFields DEF Request
    <2> HIDE DEF t
    <2>4. ASSUME ~mixed, ~late PROVE Leaves(t, collections', saves')
      <3>1. IF req[r].op = "save" /\ "first" \notin left THEN Ready(t, collections', saves, visible) ELSE TRUE
        BY <1>5, <2>3, <2>4 DEF Ready
      <3>2. Serves(t, collections', saves, visible)
        BY <1>3, <1>5, <2>3, <2>4, <3>1 DEF Serves
      <3> QED
        BY <1>1, <1>6, <1>7, <2>3, <2>4, <3>2 DEF Leaves
    <2> QED
      BY <1>1, <1>2, <2>1, <2>4, CoverGoes
  <1>9. CASE req[r].left = {write} /\ req[r].op = "save"
    <2> DEFINE t == [req[r] EXCEPT !.pc = "existing"]
    <2>1. Go(r, t) /\ t \in Request
      BY <1>2, <1>4, <1>9, Updated DEF Selected, GoTo, Pcs
    <2>2. t # None /\ t.pc = "existing" /\ Same(req[r], t)
      BY <1>2, <2>1, PcKept
    <2> HIDE DEF t
    <2>3. ASSUME ~mixed, ~late PROVE Leaves(t, collections', saves')
      <3>1. Ready(req[r], collections', saves, visible)
        BY <1>5, <1>9, <2>3 DEF left
      <3>2. Ready(t, collections', saves, visible)
        BY <2>2, <3>1 DEF Ready, Same
      <3>3. Serves(t, collections', saves, visible)
        BY <2>2, <3>2 DEF Serves
      <3> QED
        BY <1>1, <1>6, <1>7, <2>2, <2>3, <3>3 DEF Leaves, Same
    <2> QED
      BY <1>1, <1>2, <2>1, <2>3, CoverGoes
  <1>10. ASSUME req[r].left = {write}, req[r].op = "move", ~mixed, ~late
         PROVE  Fine({source}, collections', saves', visible) /\ (source \in {0, c} => Fine({}, collections', saves', visible))
    <2>1. collections'[c] # None => Shows(c, collections'[c].cover, saves, visible)
      BY <1>5, <1>10 DEF left
    <2>2. Fine({c, source}, collections', saves, visible)
      BY <1>5, <1>10
    <2>3. Fine({source}, collections', saves, visible)
      BY <2>1, <2>2, FineAlso
    <2>4. source \in {0, c} => Fine({}, collections', saves, visible)
      BY <2>1, <2>3, IdRange DEF Fine
    <2> QED
      BY <1>1, <2>3, <2>4
  <1>11. CASE req[r].left = {write} /\ req[r].op = "move" /\ HasLeft(req[r])
    <2> DEFINE t == [req[r] EXCEPT !.pc = "latest"]
    <2>1. Go(r, t) /\ t \in Request
      BY <1>2, <1>4, <1>11, Updated DEF Selected, GoTo, Pcs
    <2>2. t # None /\ t.pc = "latest" /\ Same(req[r], t)
      BY <1>2, <2>1, PcKept
    <2> HIDE DEF t
    <2>3. ASSUME ~mixed, ~late PROVE Leaves(t, collections', saves')
      <3>1. Serves(t, collections', saves', visible) /\ ~Puts(t)
        BY <1>10, <1>11, <2>2, <2>3 DEF Serves, Puts, Same
      <3> QED
        BY <1>6, <2>2, <2>3, <3>1 DEF Leaves
    <2> QED
      BY <1>1, <1>2, <2>1, <2>3, CoverGoes
  <1>12. CASE req[r].left = {write} /\ req[r].op = "move" /\ ~HasLeft(req[r])
    <2>1. Go(r, None) /\ source \in {0, c}
      BY <1>4, <1>12 DEF Selected, Finish, HasLeft
    <2>2. ~mixed /\ ~late => Leaves(None, collections', saves')
      BY <1>6, <1>10, <1>12, <2>1 DEF Leaves
    <2> QED
      BY <1>1, <1>2, <2>1, <2>2, CoverGoes
  <1> QED
    BY <1>3, <1>8, <1>9, <1>11, <1>12

LEMMA CoverGoesOn ==
  ASSUME TypeInv, RaceInv, SelectInv, SavesInv, RacedInv, IdsInv, CoverInv, NEW r \in Requests, GoOn(r)
  PROVE  CoverInv'
  <1>1. CASE FindOwned(r) \/ FindSelected(r)
    BY <1>1, CoverFinds
  <1>2. CASE FindTarget(r) \/ UpdateName(r)
    BY <1>2, CoverNames
  <1>3. CASE EnsureDefaultCollection(r) \/ MakeCollection(r)
    BY <1>3, CoverDefault, CoverMake
  <1>4. CASE FindLatest(r) \/ FindCoverMedia(r) \/ RefreshCover(r)
    BY <1>4, CoverRefreshes
  <1>5. CASE SelectOnly(r) \/ UpdateCover(r) \/ FindSave(r) \/ UpdateCollection(r) \/ CreateSave(r)
    BY <1>5, CoverSelects, CoverUpdates, CoverFindsSave, CoverMoves, CoverCreates
  <1>6. CASE FindPrevious(r) \/ UpsertCollection(r)
    BY <1>6, CoverFindsPrevious, CoverUpserts
  <1>7. CASE RemoveCollection(r)
    <2>1. PICK t, write : Removal(r, t, write)
      BY <1>7, RemoveStep
    <2> QED
      BY <2>1, CoverRemoves
  <1> QED
    BY <1>1, <1>2, <1>3, <1>4, <1>5, <1>6, <1>7 DEF GoOn

----------------------------------------------------------------------------
(* The cleanup of a post.                                                  *)

\* What a request or a cleanup finds does not change when a post is hidden.
LEMMA HidingServes ==
  ASSUME NEW C, NEW S, NEW V1, NEW V2, V2 \subseteq V1
  PROVE  /\ \A t : Serves(t, C, S, V1) => Serves(t, C, S, V2)
         /\ \A p, stage, A : Mends(p, stage, A, C, S, V1) => Mends(p, stage, A, C, S, V2)
         /\ \A X : Fine(X, C, S, V1) => Fine(X, C, S, V2)
  <1>1. \A c, image : Shows(c, image, S, V1) => Shows(c, image, S, V2)
    BY HidingShows
  <1>2. \A X : Fine(X, C, S, V1) => Fine(X, C, S, V2)
    BY <1>1 DEF Fine
  <1>3. \A t : Ready(t, C, S, V1) => Ready(t, C, S, V2)
    BY <1>1, <1>2 DEF Ready
  <1>4. \A t : Serves(t, C, S, V1) => Serves(t, C, S, V2)
    BY <1>1, <1>2, <1>3 DEF Serves
  <1>5. \A p, stage, A : Mends(p, stage, A, C, S, V1) => Mends(p, stage, A, C, S, V2)
    BY <1>1, <1>2 DEF Mends
  <1> QED
    BY <1>2, <1>4, <1>5

LEMMA CoverHides ==
  ASSUME TypeInv, HiddenInv, CoverInv, NEW p \in Posts, HidePost(p)
  PROVE  CoverInv'
  <1>1. /\ visible' \subseteq visible /\ cleanup' = [cleanup EXCEPT ![p] = "hidden"] /\ p \in visible
        /\ UNCHANGED <<collections, saves, affected, req, mixed, late>>
    BY DEF HidePost, history
  <1>2. cleanup \in [Posts -> {"none", "hidden", "read", "refresh", "done"}] /\ saves \subseteq Save
        /\ req \in [Requests -> Request \union {None}] /\ \A r \in Requests : req[r] # None => Well(req[r])
    BY TypeParts DEF TypeInv, PostsOK, SavesOK, RequestsOK
  <1>3. cleanup[p] = "none" /\ \A q \in Posts : q # p => cleanup'[q] = cleanup[q]
    BY <1>1, <1>2 DEF HiddenInv
  <1>4. cleanup'[p] = "hidden"
    BY <1>1, <1>2
  <1>5. Cleaning' = Cleaning /\ \A q \in Cleaning : cleanup'[q] = cleanup[q]
    BY <1>3, <1>4 DEF Cleaning
  <1>6. Running(req') = Running(req)
    BY <1>1
  <1> SUFFICES ASSUME ~mixed, ~late
               PROVE  /\ \A r \in Running(req') : /\ Cleaning' = {} /\ Serves(req'[r], collections', saves', visible')
                                                  /\ Puts(req'[r]) => cleanup'[req'[r].post] # "done"
                      /\ Swept(cleanup', saves')
                      /\ \A q, u \in Cleaning' : q = u
                      /\ \A q \in Cleaning' : Mends(q, cleanup'[q], affected'[q], collections', saves', visible')
                      /\ Running(req') = {} /\ Cleaning' = {} => Fine({}, collections', saves', visible')
    BY <1>1 DEF CoverInv
  <1>7. \A r \in Running(req') : Cleaning' = {} /\ Serves(req'[r], collections', saves', visible')
    BY <1>1, <1>5, <1>6, HidingServes DEF CoverInv
  <1>8. ASSUME NEW r \in Running(req'), Puts(req'[r]) PROVE cleanup'[req'[r].post] # "done"
    <2>1. r \in Running(req) /\ req'[r] = req[r] /\ Puts(req[r])
      BY <1>1, <1>8
    <2>2. req[r].post \in Posts
      BY <1>2, <2>1 DEF Running, Puts, Well
    <2>3. cleanup[req[r].post] # "done"
      BY <2>1 DEF CoverInv
    <2> QED
      BY <1>3, <1>4, <2>1, <2>2, <2>3
  <1>9. Swept(cleanup', saves')
    BY <1>1, <1>2, <1>3, <1>4 DEF Swept, Save, CoverInv
  <1>10. (\A q, u \in Cleaning' : q = u)
    BY <1>5 DEF CoverInv
  <1>11. ASSUME NEW q \in Cleaning' PROVE Mends(q, cleanup'[q], affected'[q], collections', saves', visible')
    <2>1. Mends(q, cleanup[q], affected[q], collections, saves, visible)
      BY <1>5, <1>11 DEF CoverInv
    <2>2. Mends(q, cleanup[q], affected[q], collections, saves, visible')
      BY <1>1, <2>1, HidingServes
    <2> QED
      BY <1>1, <1>5, <1>11, <2>2
  <1>12. Running(req') = {} /\ Cleaning' = {} => Fine({}, collections', saves', visible')
    BY <1>1, <1>5, <1>6, HidingServes DEF CoverInv
  <1> QED
    BY <1>7, <1>8, <1>9, <1>10, <1>11, <1>12

\* The cleanup of a post that goes on.
LEMMA CleansNext ==
  ASSUME TypeInv, CoverInv, NEW p \in Posts, UNCHANGED <<req, mixed, visible>>,
         NEW stage, cleanup' = [cleanup EXCEPT ![p] = stage],
         ~mixed /\ ~late' =>
             /\ ~late /\ Running(req) = {} /\ \A q \in Cleaning : q = p
             /\ Swept(cleanup', saves')
             /\ IF stage \in {"read", "refresh"} THEN Mends(p, stage, affected'[p], collections', saves', visible)
                ELSE Fine({}, collections', saves', visible)
  PROVE  CoverInv'
  <1>1. cleanup \in [Posts -> {"none", "hidden", "read", "refresh", "done"}]
    BY TypeParts DEF TypeInv, PostsOK
  <1>2. cleanup'[p] = stage /\ \A q \in Posts : q # p => cleanup'[q] = cleanup[q]
    BY <1>1
  <1>3. visible' = visible /\ Running(req') = Running(req) /\ mixed' = mixed
    OBVIOUS
  <1> SUFFICES ASSUME ~mixed, ~late'
               PROVE  /\ \A r \in Running(req') : /\ Cleaning' = {} /\ Serves(req'[r], collections', saves', visible')
                                                  /\ Puts(req'[r]) => cleanup'[req'[r].post] # "done"
                      /\ Swept(cleanup', saves')
                      /\ \A q, u \in Cleaning' : q = u
                      /\ \A q \in Cleaning' : Mends(q, cleanup'[q], affected'[q], collections', saves', visible')
                      /\ Running(req') = {} /\ Cleaning' = {} => Fine({}, collections', saves', visible')
    BY <1>3 DEF CoverInv
  <1>4. Running(req') = {} /\ Swept(cleanup', saves')
    BY <1>3
  <1>5. Cleaning' = IF stage \in {"read", "refresh"} THEN {p} ELSE {}
    BY <1>2 DEF Cleaning
  <1>6. \A q \in Cleaning' : Mends(q, cleanup'[q], affected'[q], collections', saves', visible')
    BY <1>2, <1>3, <1>5
  <1>7. Cleaning' = {} => Fine({}, collections', saves', visible')
    BY <1>3, <1>5
  <1>8. \A q, u \in Cleaning' : q = u
    BY <1>5
  <1> QED
    BY <1>4, <1>6, <1>7, <1>8

\* What a cleanup that runs alone finds.
LEMMA CleansAlone ==
  ASSUME CoverInv, NEW p \in Posts, cleanup[p] \in {"read", "refresh"}, ~mixed, ~late
  PROVE  /\ Running(req) = {} /\ \A q \in Cleaning : q = p
         /\ Swept(cleanup, saves) /\ Mends(p, cleanup[p], affected[p], collections, saves, visible)
  BY DEF CoverInv, Cleaning

LEMMA CoverReads ==
  ASSUME TypeInv, CoverInv, NEW p \in Posts, FindAffectedSaves(p)
  PROVE  CoverInv'
  <1>1. /\ cleanup' = [cleanup EXCEPT ![p] = "read"]
        /\ affected' = [affected EXCEPT ![p] = {<<s.collection, None>> : s \in SavesOf(p)}]
        /\ UNCHANGED <<collections, saves, req, mixed, visible>>
        /\ late' = (late \/ Running(req) # {} \/ Cleaning # {})
    BY DEF FindAffectedSaves, CleanupGoesOn
  <1>2. cleanup \in [Posts -> {"none", "hidden", "read", "refresh", "done"}] /\ DOMAIN affected = Posts /\ saves \subseteq Save
    BY TypeParts DEF TypeInv, PostsOK, SavesOK
  <1>3. affected'[p] = {<<s.collection, None>> : s \in SavesOf(p)}
    BY <1>1, <1>2
  <1>4. ASSUME ~mixed, ~late'
        PROVE  /\ ~late /\ Running(req) = {} /\ \A q \in Cleaning : q = p
               /\ Swept(cleanup', saves')
               /\ Mends(p, "read", affected'[p], collections', saves', visible)
    <2>1. ~late /\ Running(req) = {} /\ Cleaning = {}
      BY <1>1, <1>4
    <2>2. Fine({}, collections, saves, visible) /\ Swept(cleanup, saves)
      BY <1>4, <2>1 DEF CoverInv
    <2>3. Swept(cleanup', saves')
      BY <1>1, <1>2, <2>2 DEF Swept, Save
    <2>4. Mends(p, "read", affected'[p], collections, saves, visible)
      BY <1>3, <2>2 DEF Mends, SavesOf
    <2> QED
      BY <1>1, <2>1, <2>3, <2>4
  <1> QED
    BY <1>1, <1>4, CleansNext

LEMMA CoverDeletes ==
  ASSUME TypeInv, CoverInv, NEW p \in Posts, DeleteSaves(p)
  PROVE  CoverInv'
  <1> DEFINE stage == IF affected[p] = {} THEN "done" ELSE "refresh"
             firsts == {todo[1] : todo \in affected[p]}
  <1>1. /\ cleanup[p] = "read" /\ cleanup' = [cleanup EXCEPT ![p] = stage] /\ saves' = saves \ SavesOf(p)
        /\ UNCHANGED <<collections, affected, req, mixed, late, visible>>
    BY DEF DeleteSaves, CleanupGoesOn
  <1>2. cleanup \in [Posts -> {"none", "hidden", "read", "refresh", "done"}] /\ saves \subseteq Save
    BY TypeParts DEF TypeInv, PostsOK, SavesOK
  <1>3. ASSUME ~mixed, ~late
        PROVE  /\ Running(req) = {} /\ \A q \in Cleaning : q = p
               /\ Swept(cleanup', saves')
               /\ IF stage \in {"read", "refresh"} THEN Mends(p, stage, affected'[p], collections', saves', visible)
                  ELSE Fine({}, collections', saves', visible)
    <2>1. /\ Running(req) = {} /\ \A q \in Cleaning : q = p
          /\ Swept(cleanup, saves) /\ Mends(p, "read", affected[p], collections, saves, visible)
      BY <1>1, <1>3, CleansAlone
    <2>2. /\ Fine({}, collections, saves, visible) /\ \A todo \in affected[p] : todo[2] = None
          /\ \A s \in saves : s.post = p => <<s.collection, None>> \in affected[p]
      BY <2>1 DEF Mends
    <2>3. Swept(cleanup', saves')
      BY <1>1, <1>2, <2>1 DEF Swept, Save, SavesOf
    <2>4. \A s \in saves : s.post = p => s.collection \in firsts
      <3> SUFFICES ASSUME NEW s \in saves, s.post = p PROVE s.collection \in firsts
        OBVIOUS
      <3>1. <<s.collection, None>> \in affected[p] /\ <<s.collection, None>>[1] = s.collection
        BY <2>2
      <3> QED
        BY <3>1
    <2> HIDE DEF stage
    <2>5. SameShows(firsts, saves, visible, saves', visible)
      <3> HIDE DEF firsts
      <3> QED
        BY <1>1, <2>4, ElsewhereShows DEF SavesOf
    <2>6. Fine(firsts, collections', saves', visible)
      <3> HIDE DEF firsts
      <3>1. SameCovers(firsts, collections, collections')
        BY <1>1, NothingShows
      <3> QED
        BY <2>2, <2>5, <3>1, FineMoves
    <2>7. CASE affected[p] = {}
      <3>1. firsts = {} /\ stage = "done"
        BY <2>7 DEF stage
      <3> QED
        BY <2>1, <2>3, <2>6, <3>1
    <2>8. CASE affected[p] # {}
      <3>1. stage = "refresh"
        BY <2>8 DEF stage
      <3>2. Mends(p, "refresh", affected[p], collections', saves', visible)
        BY <2>2, <2>6 DEF Mends
      <3> QED
        BY <1>1, <2>1, <2>3, <3>1, <3>2
    <2> QED
      BY <2>7, <2>8
  <1> HIDE DEF stage
  <1>4. late' = late /\ UNCHANGED <<req, mixed, visible>> /\ cleanup' = [cleanup EXCEPT ![p] = stage]
    BY <1>1
  <1> QED
    BY <1>3, <1>4, CleansNext

LEMMA CoverFindsNext ==
  ASSUME TypeInv, SavesInv, CoverInv, NEW p \in Posts, FindNextCover(p)
  PROVE  CoverInv'
  <1> DEFINE A == affected[p]
  <1>1. cleanup[p] = "refresh" /\ UNCHANGED <<collections, saves, cleanup, req, mixed, late, visible>>
    BY DEF FindNextCover, CleanupGoesOn
  <1>2. PICK todo \in A :
           /\ todo[2] = None
           /\ \E image \in IF Latest(todo[1]) = {} THEN {DefaultCover} ELSE {CoverMedia(s.post) : s \in Latest(todo[1])} :
                affected' = [affected EXCEPT ![p] = (A \ {todo}) \union {<<todo[1], image>>}]
    BY DEF FindNextCover
  <1>3. PICK image :
           /\ \/ Latest(todo[1]) = {} /\ image = DefaultCover
              \/ \E s \in Latest(todo[1]) : image = CoverMedia(s.post)
           /\ affected' = [affected EXCEPT ![p] = (A \ {todo}) \union {<<todo[1], image>>}]
    BY <1>2
  <1>4. /\ cleanup \in [Posts -> {"none", "hidden", "read", "refresh", "done"}]
        /\ affected \in [Posts -> SUBSET (Ids \X (Posts \union {DefaultCover, None}))]
    BY TypeParts DEF TypeInv, PostsOK
  <1>5. affected'[p] = (A \ {todo}) \union {<<todo[1], image>>}
    BY <1>3, <1>4
  <1>6. cleanup' = [cleanup EXCEPT ![p] = "refresh"]
    BY <1>1, <1>4
  <1>7. Shows(todo[1], image, saves, visible)
    BY <1>3, CoverOfLatest
  <1>8. ASSUME ~mixed, ~late
        PROVE  /\ Running(req) = {} /\ (\A q \in Cleaning : q = p)
               /\ Swept(cleanup', saves')
               /\ Mends(p, "refresh", affected'[p], collections', saves', visible)
    <2>1. /\ Running(req) = {} /\ (\A q \in Cleaning : q = p)
          /\ Swept(cleanup, saves) /\ Mends(p, "refresh", A, collections, saves, visible)
      BY <1>1, <1>8, CleansAlone
    <2>2. Fine({u[1] : u \in A}, collections, saves, visible) /\ \A u \in A : u[2] # None => Shows(u[1], u[2], saves, visible)
      BY <2>1 DEF Mends
    <2>3. <<todo[1], image>>[1] = todo[1] /\ <<todo[1], image>>[2] = image
      OBVIOUS
    <2>4. {u[1] : u \in affected'[p]} = {u[1] : u \in A}
      <3>1. \A u \in affected'[p] : \E v \in A : u[1] = v[1]
        BY <1>2, <1>5, <2>3
      <3>2. \A v \in A : \E u \in affected'[p] : u[1] = v[1]
        BY <1>2, <1>5, <2>3
      <3> HIDE DEF A
      <3> QED
        BY <3>1, <3>2
    <2>5. \A u \in affected'[p] : u[2] # None => Shows(u[1], u[2], saves, visible)
      BY <1>5, <1>7, <2>2, <2>3
    <2>6. Mends(p, "refresh", affected'[p], collections, saves, visible)
      BY <2>2, <2>4, <2>5 DEF Mends
    <2> QED
      BY <1>1, <2>1, <2>6
  <1> HIDE DEF A
  <1> QED
    BY <1>1, <1>6, <1>8, CleansNext

LEMMA CoverUpdatesNext ==
  ASSUME TypeInv, CoverInv, NEW p \in Posts, UpdateNextCover(p)
  PROVE  CoverInv'
  <1> DEFINE A == affected[p]
  <1>1. cleanup[p] = "refresh" /\ UNCHANGED <<saves, req, mixed, late, visible>>
    BY DEF UpdateNextCover, CleanupGoesOn
  <1>2. PICK todo \in A : /\ todo[2] # None /\ collections' = WithCover(todo[1], todo[2])
                          /\ affected' = [affected EXCEPT ![p] = A \ {todo}]
                          /\ cleanup' = [cleanup EXCEPT ![p] = IF A = {todo} THEN "done" ELSE "refresh"]
    BY DEF UpdateNextCover
  <1>3. /\ cleanup \in [Posts -> {"none", "hidden", "read", "refresh", "done"}] /\ saves \subseteq Save
        /\ affected \in [Posts -> SUBSET (Ids \X (Posts \union {DefaultCover, None}))]
    BY TypeParts DEF TypeInv, PostsOK, SavesOK
  <1> DEFINE stage == IF A = {todo} THEN "done" ELSE "refresh"
             firsts == {u[1] : u \in A}
             rest == {u[1] : u \in A \ {todo}}
  <1>4. affected'[p] = A \ {todo} /\ cleanup' = [cleanup EXCEPT ![p] = stage]
    BY <1>2, <1>3
  <1>5. ASSUME ~mixed, ~late
        PROVE  /\ Running(req) = {} /\ (\A q \in Cleaning : q = p)
               /\ Swept(cleanup', saves')
               /\ IF stage \in {"read", "refresh"} THEN Mends(p, stage, affected'[p], collections', saves', visible)
                  ELSE Fine({}, collections', saves', visible)
    <2>1. /\ Running(req) = {} /\ (\A q \in Cleaning : q = p)
          /\ Swept(cleanup, saves) /\ Mends(p, "refresh", A, collections, saves, visible)
      BY <1>1, <1>5, CleansAlone
    <2>2. Fine(firsts, collections, saves, visible) /\ \A u \in A : u[2] # None => Shows(u[1], u[2], saves, visible)
      BY <2>1 DEF Mends
    <2>3. Swept(cleanup', saves')
      BY <1>1, <1>3, <1>4, <2>1 DEF Swept, Save
    <2>4. todo[1] \in firsts /\ (\A c \in firsts \ rest : c = todo[1]) /\ (A = {todo} => rest = {})
      BY <1>2
    <2>5. Shows(todo[1], todo[2], saves, visible)
      BY <1>2, <2>2
    <2>6. /\ SameCovers({todo[1]}, collections, collections')
          /\ todo[1] \in Ids /\ collections'[todo[1]] # None => collections'[todo[1]].cover = todo[2]
      BY <1>2, CoverWritten
    <2> HIDE DEF firsts, rest, stage
    <2>7. SameCovers(firsts, collections, collections')
      BY <2>4, <2>6 DEF SameCovers
    <2>8. Fine(firsts, collections', saves', visible)
      BY <1>1, <2>2, <2>7, FineMoves, NothingShows
    <2>9. Fine(rest, collections', saves', visible)
      BY <1>1, <2>4, <2>5, <2>6, <2>8, FineAlso
    <2>10. CASE A = {todo}
      BY <2>1, <2>3, <2>4, <2>9, <2>10 DEF stage
    <2>11. CASE A # {todo}
      <3>1. stage = "refresh"
        BY <2>11 DEF stage
      <3>2. Mends(p, "refresh", A \ {todo}, collections', saves', visible)
        BY <1>1, <2>2, <2>9 DEF Mends, rest
      <3> QED
        BY <1>4, <2>1, <2>3, <3>1, <3>2
    <2> QED
      BY <2>10, <2>11
  <1> HIDE DEF A, stage
  <1> QED
    BY <1>1, <1>4, <1>5, CleansNext

LEMMA CoversStay ==
  ASSUME TypeInv, RaceInv, SelectInv, SavesInv, HiddenInv, RacedInv, IdsInv, CoverInv, [Next]_vars
  PROVE  CoverInv'
  <1>1. CASE UNCHANGED vars
    BY <1>1 DEF vars, posts, history, CoverInv, Running, Cleaning
  <1>2. ASSUME NEW r \in Requests, Begin(r) \/ GoOn(r) PROVE CoverInv'
    BY <1>2, CoverBegins, CoverGoesOn
  <1>3. ASSUME NEW p \in Posts, HidePost(p) \/ FindAffectedSaves(p) \/ DeleteSaves(p) \/ FindNextCover(p) \/ UpdateNextCover(p)
        PROVE  CoverInv'
    BY <1>3, CoverHides, CoverReads, CoverDeletes, CoverFindsNext, CoverUpdatesNext
  <1> QED
    BY <1>1, <1>2, <1>3 DEF Next

\* A collection shows a post that is in it, or the default when it is empty, once the posts
\* that went are cleaned up and unless requests or cleanups ran at the same time
\* (refreshCollectionCover, refreshAffectedCollectionCovers, savePost).
THEOREM CoversStaySaved == Spec => []CoversAreSaved
  <1> DEFINE IInv == TypeInv /\ RaceInv /\ SelectInv /\ SavesInv /\ HiddenInv /\ RacedInv /\ IdsInv /\ CoverInv
  <1>1. Init => IInv
    BY TypeInit, RaceInit, SelectInit, CoverInit
  <1>2. IInv /\ [Next]_vars => IInv'
    BY TypeStep, RaceStep, SelectionStays, SavesStep, HiddenStep, RacedStep, IdsStep, CoversStay
  <1>3. IInv => CoversAreSaved
    <2> SUFFICES ASSUME TypeInv, HiddenInv, CoverInv, Running(req) = {}, ~mixed, ~late,
                        \A p \in Posts : cleanup[p] \in {"none", "done"}, NEW c \in Existing
                 PROVE  collections[c].cover \in IF SavesIn(c) = {} THEN {DefaultCover}
                                                 ELSE {CoverImage(s.post) : s \in SavesIn(c)}
      BY DEF CoversAreSaved
    <2>1. Cleaning = {}
      BY DEF Cleaning
    <2>2. Fine({}, collections, saves, visible) /\ Swept(cleanup, saves)
      BY <2>1 DEF CoverInv
    <2>3. Shows(c, collections[c].cover, saves, visible)
      BY <2>2 DEF Existing, Exists, Fine
    <2>4. \A s \in saves : s.post \in visible
      <3>1. \A s \in saves : s.post \in Posts
        BY TypeParts DEF TypeInv, SavesOK, Save
      <3>2. \A s \in saves : cleanup[s.post] = "none"
        BY <2>2, <3>1 DEF Swept
      <3> QED
        BY <3>1, <3>2 DEF HiddenInv
    <2> QED
      BY <2>3, <2>4 DEF Shows, SavesIn
  <1> HIDE DEF IInv
  <1>4. IInv /\ [][Next]_vars => []IInv
    BY <1>2, PTL
  <1> QED
    BY <1>1, <1>3, <1>4, PTL DEF Spec
=============================================================================
