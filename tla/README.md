# Disuza in TLA+

Disuza is a social network for developers: an Express API (`src/api`) on MongoDB, Redis,
BullMQ and Socket.IO, and a React client (`src/web`). This directory holds TLA+ models of the
parts where operations interleave, fail half-way or outlive the request that started them, the
TLC configurations that check them, and TLAPS proofs about every model.

Run a model with `tlc -config MCRoomProblem_live.cfg MCRoomProblem`, and proofs with
`tlapm RoomProblem_proofs.tla`.

## 1. How the code runs, and how it is modelled

The API is single-threaded JavaScript. A handler runs without interruption up to its next
`await`; other handlers run in between. So an action of a model is **one awaited operation
together with the synchronous code up to the next `await`**, and the local variables that live
across an `await` are part of a request's state. Several API processes may share MongoDB and
Redis, which changes only where a lock lives and what a crash destroys. The other conventions:

* A MongoDB update of one document is atomic; the code uses no multi-document transactions. A
  mongoose `save()` writes the paths modified since the document was loaded, rejects when the
  document is gone, and, when an array was replaced, also when another save has replaced an array
  of the same document since (its `__v`).
* The branches of a `Promise.all` are a set of pending tasks that take effect in any order.
  One that rejects does not stop the others.
* A *fault* is a crash or an awaited operation that rejects. Faults are counted and bounded. A
  rejected operation has had no effect (one that took effect although its answer was lost is
  modelled for the refresh of tokens only, `LoseAnswer`).
* A *history variable* (`late`, `raced`, `crossed`, `stray`, ...) remembers that a race happened
  which the code is known to lose. A property of the form `P \/ late` says that this race is the
  only way to lose `P`; each such race is named in section 5.
* Checks whose data live elsewhere (blocks, room access, the daily contribution limit) may pass or not.

Operators whose comment begins with "Variant with a bug" are no part of the specifications: each
is a plausible mistake in the operator below it, kept to see that the checks notice it.

## 2. Inventory of the system

| Component (under `src/api/src`) | State | Operations | Hard behaviour | What makes it correct | Model |
|---|---|---|---|---|---|
| Room problems (`modules/problems`) | `RoomProblem` documents, the room's `currentlySelectedProblem`, the run lock (Redis key with TTL, or a Set in the process) | add, select, unselect, remove, run | check-then-act across awaits, a TTL under a slow run, crash inside a run | one run per problem; the document tells what runs; a verdict is right about what is stored; selection and statuses agree | `RoomProblem` |
| Posts (`modules/posts`) | post documents, the in-memory upload queue | create, upload job, update, delete | deletion overtakes the upload, the queue dies with the process, edits work on what they read | a visible post's files exist, no file is orphaned, counters cover the posts | `PostLifecycle` |
| Cleanup (`infrastructure/jobs`) | BullMQ jobs in Redis, `cleanupState` | `addUnique`, post, user, conversation and media jobs | at-least-once execution, several independent writes per job | jobs finish, what was deleted leaves nothing | shared by the models of what they delete |
| Auth sessions (`modules/auth`, `shared/middleware/auth.ts`) | session documents, blacklist, the auth cache; in the browser a cookie, and per tab a mutex and a slice | login, refresh with rotation, logout, logout everywhere, reset, deactivate, authenticate | revocation between find and update, a cache filled after its invalidation, calls that wait for a refresh | the browser holds the current token; a deactivated account gets none; every call ends | `AuthSession` |
| Follow and block (`modules/users`) | follow and block documents (unique indexes), counters, FOLLOW notifications | follow, unfollow, block, unblock | duplicate requests, block racing follow | counters equal the relations; no follow across a block | `SocialGraph` |
| Account deletion | `active`, the user-cleanup job | deactivate, clean up | crash between deactivation and enqueue | every deactivated account is cleaned | `SocialGraph`, `AuthSession` |
| Likes, reposts, comments, contributions | relation documents, relative counters, contribution logs, notifications | like, unlike, repost, unrepost, comment, reply, delete | double delete, reply during the deletion of its parent, a post hidden in between | counters cover the relations, nothing outlives the post | `PostReactions` |
| Realtime room (`infrastructure/realtime`) | maps of room sockets, voice users, calls, save timers | join, leave, voice, call, code change, disconnect | disconnect during an awaited join, timers overtaken by newer edits | presence holds live sockets only; the last edit is the one stored | `CollabPresence` |
| Chat (`modules/chat`) | conversations, groups, messages, unread counts | send, group membership, mark read, unsend, hide | stale copies saved, hide against reopen, last admin leaving | members and admin stay; only a hidden conversation is destroyed | `Conversation` |
| Collaboration requests (`modules/collab`) | requests, rooms | ask, accept, expire, room access | crossing requests, a conversation that goes meanwhile | one room per conversation, which goes with it | `Conversation` |
| Saves (`modules/saves`) | saves, collections (selected, cover) | save, unsave, move, create, rename, delete | two unordered updates per selection, covers computed and written apart | one selected collection; saves are in a collection; covers are of what is saved | `SavedPosts` |
| Notifications | notification documents | created and removed by the above | left behind by a race | none about what is gone | in `SocialGraph`, `PostReactions` |
| OTP and lockout (`modules/auth`) | OTP documents, failed-login counters | send, verify, lock | counters checked and incremented separately | attempts are bounded | no |
| Code execution client, problem generator, media storage | none | requests to Piston, Gemini, ImageKit | slow or failing answers | | oracles where called |
| Reports, issues, search, health, seed script | their documents | single writes and reads | none | | no |
| HTTP shell, validation, configuration, the rest of the web client | none that other parts rely on | | | | no |

How they interact: the problems, posts, chat and users modules call the cleanup queue; the
cleanup workers write the documents of nearly every other module; posts and comments call the
heatmap service; `collabHandler` asks `collabRoomAccess` and `ProblemService`; every request
passes the auth middleware and its cache. `PROJECT.json` lists every component with its status
and what is left out of it, and, line by line, the hazards found in each.

## 3. Modules

| Module | Models |
|---|---|
| `RoomProblem`, `RunRecord` | room problems, the selection and the run lock; what the stored documents promise about runs, abstractly |
| `PostLifecycle` | a user's posts, the upload worker, media, the post-cleanup and media-cleanup jobs |
| `AuthSession` | the sessions of one account on the server, and the tabs of one browser |
| `SocialGraph` | follows, blocks, their counters and notifications, account deletion |
| `PostReactions` | likes, reposts and comments of a post beside its cleanup |
| `CollabPresence` | one room of `collabHandler` and the pages that use it |
| `Conversation` | one conversation, its messages, its room and its cleanup |
| `SavedPosts` | one user's saves and collections beside the deletion of posts |
| `MC...` | instances for TLC: symmetry and state constraints |
| `..._proofs` | theorems, one module for each model |

### RoomProblem

`roomProblem` is the collection (an id is `absent`, stored with a status, or `removed`; ids are
never reused), `selected` the room's `currentlySelectedProblem`, `lock` the keys
`run:<roomProblemId>` with the request that set them, `req` the local state of every request.
`pc` names the operation a request awaits next, `seen` and `sel` what it read earlier, `dirty`
what its save will write: these stale copies are what the races are about. `contested` is a history
variable: the problems of selections, unselections and removals that met another one in flight.

| Code (`problem.service.ts`) | Actions |
|---|---|
| `runProblem` | `RunStart` (lock), `RunLoad`, `RunBegin` (save running), `RunExecute` (runner), `RunFinish` (save result), `RunReset` (catch), `RunRelease` (finally) |
| `selectProblem` | `SelectStart` (ensureRoomIsNotRunning), `SelectRoom`, `SelectProblem`, `SelectPrevious`, `SelectSave`, `SelectRoomSave` |
| `unselectProblem` | `UnselectStart`, `UnselectRoom`, `UnselectProblem`, `UnselectSave`, `ClearRoom` |
| `removeProblemFromRoom` | `RemoveStart`, `RemoveRoom`, `RemoveProblem`, `RemoveDelete`, `ClearRoom` |
| `addProblemToRoom` | `AddProblem` |
| Redis, the process | `Expire`, `Crash`, `WriteFails` |

`RunRecord` is what the documents promise: a run is two atomic steps, a begin on a problem nobody
runs and an end whose verdict is right about the status stored *then*. The mapping reads status and
`executionRequestedBy` from the documents and ends the promise when a key lapses under a live run.

The verdict of a run is a choice; code, tests, names and points are left out. Who may do what is
decided before these handlers and is left out as well.

### PostLifecycle

`post` is the collection: upload state, `isDeleting`, media, `countsAdjusted`. `queue` and `up`
are the upload worker's memory: the waiting ids and, per post, the local state of
`processQueuedPostMediaUpload` (or of the `createPost` request, when there are no files);
`activeJobs` is its counter of slots, taken by `Drain` and given back by `GiveBack`, the `.finally` of a job.
`job` is the post-cleanup job per post, `mediaJobs` the media-cleanup jobs that wait, `stored`
the files at the provider, `req` the delete and update requests. `counted`, `logs` and
`contributions` are the owner's post count, contribution logs and contribution counter (the
project count moves like the post count). `took` is a history variable.

| Code | Actions |
|---|---|
| `createPost` | `CreatePost`, `CountWrite`, `CountRejects` |
| `PostUploadWorker`, `processQueuedPostMediaUpload` | `Drain`, `UploadFile`, `CompleteUpload`, `CountWrite`, `DiscardUpload`, `UndoUpload`, `FailUpload`; failures `UploadRejects`, `CountRejects` |
| `deletePost`, `addUnique` | `FindPost`, `MarkDeleting`, `LookupJob`, `DropJob`, `AddJob`, `EnqueueRejects` |
| `cleanupPost` | `ReadPost`, `AdjustWrite`, `AdjustDone`, `DeleteMedia`, `RemovePost`; failures `AdjustRejects`, `JobRejects` |
| `cleanupMediaFiles` | `CleanupFiles` (enqueue, part of its callers), `MediaCleanup` (worker) |
| `updatePost` | `FindForUpdate`, `UploadForUpdate`, `UpdatePost`, `RejectUpdate`, `UndoUpdate`, `ReplaceMedia` |
| the process | `Crash` |

Abstractions: an edit uploads at most one file, and edits that leave the media alone are left
out; the deletion of likes, comments and saves by the job is in `PostReactions` and
`SavedPosts`; `getJob` and `getState` are one look at the job; a media-cleanup job does not count
its attempts, a rejected one is either tried again or was the last. A queue with waiting jobs
hands them out in any order. `Drain` is a step of its own: the code drains in a microtask after every
enqueue and in every `.finally`, so a free slot and a waiting job never rest together.

### AuthSession

One account, its session documents (`session`: state and token hash), the user cache (`cached`,
read by `authenticate`) and the `blacklist`; in the browser one `cookie`, and per tab the auth
slice and the refresh `mutex` of `baseQueryWithAuth`. Tokens are named after the call that got
them. A call is a request from being sent to its answer being handled, retry included.

| Code | Actions |
|---|---|
| `baseQueryWithAuthGuard`, `getMe` | `Send`, `Answered`, `Fail`, `StartRefresh`, `WakeUp`, `GiveUp`, `RefreshGranted`, `RefreshDenied`, `SetCredentials` |
| `authenticate` | `Authenticate`, `LookupUser`, `FillCache`; `CacheExpires`, `TokenExpires` |
| `refresh`, `rotateSession` | `AssertValidRefreshSession`, `FindSessionUser`, `RotateFind`, `RotateUpdate`; `LoseAnswer` |
| `login` | `CheckCredentials`, `CreateSession` |
| `logout`, `logoutAll`, `resetPassword` | `RevokeSession`, `BlacklistAccessToken`, `Purge`, `UpdatePassword`, `RevokeAfterReset` |
| `deleteUserAccount`, as far as sessions go | `MarkInactive`, `Goodbye` |

A denied or lost refresh ends its call with an exception (`extractAccessToken` reads `.data` of an
answer without data) before `clearSession` is reached, so `RefreshDenied` gives the mutex back and
leaves the slice alone; the `clearSession` of a successful answer without a token cannot be
reached with this API. A failing or absent Redis makes any of the cache writes do nothing.

### SocialGraph

`follows` and `blocks` are sets of pairs (their indexes are unique), `followers` and `following`
the counters of the user documents, `notes` the FOLLOW notifications. A request checks, then has a
set of tasks (`DoTask`: the document, the two counters, the notification); `job` is the
user-cleanup job of each account.

| Code | Actions |
|---|---|
| `followUser` | `EnsureUsersCanInteract`, `FindTarget`, `FindExisting`, `CreateFollow`, `AdjustCounter`, `CheckNote`, `SendNote` |
| `unfollowUser`, `unblockUser` | `Remove`, `AdjustCounter`, `RemoveNote` |
| `blockUser`, `cleanupFollowBetweenUsers` | `CreateBlock`, `CutFollow`, `AdjustCounter` |
| `deleteUserAccount` | `MarkInactive`, `EnqueueUserCleanup` |
| `cleanupUser` | `JobStart`, `JobRead`, `JobCount`, `JobDelete`, `JobDeleteUser` |
| the process | `Crash`: requests die, jobs start over |

### PostReactions

One post with its likes, reposts and comments (`docs`), its `count`s, the `parent` and
`replies` of comments, `notes`, contribution `logs` and the authors' `score`.

| Code | Actions |
|---|---|
| `likePost`, `unlikePost`, `repost`, `unrepost` | `React`, `FindTarget`, `FindRepost`, `CreateReaction`, `CountReaction`, `UndoLike`, `SendNote`; `DropReaction`, `UncountRepost`, `FindTargetAgain`, `RemoveNote`; `Refuse` |
| `createComment` | `Say`, `FindTarget`, `FindParent`, `CreateComment`, then `CountTask`, `ReplyTask`, `NoteTask`, `LogTask`, `ScoreTask` |
| `deleteComment` | `Unsay`, `FindComment`, `FindReplies`, then `DeleteTask`, `CountTask`, `ReplyTask`, `UnlogTask`, `ScoreTask`, `UnnoteTask` |
| `deletePost`, `cleanupPost` | `MarkDeleting`, `JobRead`, `JobFindLogs`, `JobDeleteLogs`, `JobUncount`, `JobRemoveNotes`, `JobDelete`, `JobRemovePost` |

The cleanup is not retried here (`PostLifecycle` has its retries), and the daily count moves like `score`.

### CollabPresence

The maps of `collabHandler` for one room keep their names (`activeRooms`, `activeVoiceRooms`,
`activeCall`, `codeTimer` for `codeSaveTimers`); `collabRooms` and `voiceRooms` are what the
sockets' data say, `channel` is the Socket.IO room, `codeTimers` and `ringTimers` are the timers
that really run; `saves` and `runs` are writes of `currentCode` under way, by a timer that fired and by
`runProblem`, which writes the code it was sent if that is not the code it loaded. `page`, `audio`, `view` and `text` are the clients. Handlers with an access
check wait in `waiting`.

| Code | Actions |
|---|---|
| a page (`CollabRoomPage.tsx`, `useCollabRoom.ts`) | `Connect`, `OpenRoom`, `LeaveRoom`, `Rejoin`, `StartAudioCall`, `EndAudioCall`, `Signal`, `ChangeCode`, `RunCode`, `Disconnect` |
| `join_collab_room`, `voice_join_room` | `Join`, `JoinVoice`, `Refuse` |
| call request, accept and reject | `RequestCall`, `AnswerCall`, `RingTimeout` |
| code relay and delayed save | `RelayCode`, `StartSave`, `FinishSave`, `FailSave` |
| `runProblem`, as far as the code goes | `LoadProblem`, `StoreRun`, `DropRun` (the lock is in `RoomProblem`; here runs may overlap) |

A page that has left opens again only once its earlier join was answered: in the client a room is
opened again by mounting another page. `StartAudioCall` is the click and the emit at once, which in
`useAudioCall` wait for the microphone in between: a page that is left meanwhile is one more way into
`lateVoice`. No page of the repository emits `call_signal`, so `Signal` and `CallRings` are about the
handler's contract alone. The microphone state, WebRTC and what a text is (an edit is
an element of a set) are left out.

### Conversation

`conv` is the document (with mongoose's `__v` as `v`), `tasks` what each request awaits, with the
document as it was loaded (`read`) and the copy it will save (`doc`). `Save` writes the fields in
which the two differ and fails on an outdated `v` when an array was replaced. `order` is who comes
first among the participants and `gone` who has deleted their account: `deleteConversationForUser`
looks at the first other participant only.

| Code | Actions |
|---|---|
| `sendMessage`, `createSystemMessage` | `SaveMessageTo`, `CreateMessage`, `Save` |
| `acceptGroupInvite`, `inviteGroupMembers`, `removeGroupMember` | the actions of these names, `Save`, `SaveFails`, then `CreateMessage` |
| a group's room, in `acceptGroupInvite` and `checkCollabRequestStatus` | `EnterGroup` (without an invitation that is open), `FindGroupRoom`, `MakeGroupRoom` |
| `markAsRead`, `unsendMessage` | `MarkAsRead`; `UnsendMessage`, `DeleteMessage`, `FindLatestMessage`, `Save` |
| `deleteConversationForUser`, `deleteGroup` | `DeleteConversationForUser`, `DeleteGroup`, `Save`, `LookUpOther`, `EnqueueConversationCleanup` |
| `deleteUserAccount`, as far as conversations go | `DeleteAccount` |
| collab requests | `SendCollabRequest`, `CheckConversation`, `CreateRequest`, `AcceptCollabRequest`, `FindRoom`, `CreateSharedRoom`, `DeleteRequest`, `Announce`, `RequestExpires` |
| `cleanupConversation` | `StartCleanup`, `DeleteRooms`, `DeleteMessages`, `DeleteConversation` |

One instance is one conversation: after its deletion the same two users would start another one,
which is another instance. Left out: pins, names, seen marks, attachments, feedback counters,
notifications other than COLLAB_ACCEPTED, blocks, and the refresh of the last message by the cleanup
of an account's messages; `startConversation`, whose
update names `hiddenBy` both in `$setOnInsert` and in `$pull`, which the database refuses. Who has deleted
their account starts no request, although a cached user may for a few seconds (`AuthSession`).

### SavedPosts

`collections` and `saves` are one user's documents; `n` of a save is its place in the order of
creation. A request's `collection`, `source`, `n` and `image` are its local variables.

| Code | Actions |
|---|---|
| `savePost` | `SavePost`, `FindOwned`, `FindSelected`, `EnsureDefaultCollection`, `SelectOnly`, `UpdateCover`, `FindSave`, `UpdateCollection`, `CreateSave` |
| `changeSavedPostCollection` | the action of this name, `FindTarget`, `FindPrevious`, `UpsertCollection`, `SelectOnly` |
| `refreshCollectionCover` | `FindLatest`, `FindCoverMedia`, `RefreshCover` |
| `unsavePost` | `UnsavePost` |
| collections | `CreateCollection`, `MakeCollection`, `RenameCollection`, `UpdateName`, `DeleteCollection`, `RemoveCollection`, `ListCollections` |
| `deletePost`, `cleanupPost` | `HidePost`, `FindAffectedSaves`, `DeleteSaves`, `FindNextCover`, `UpdateNextCover` |

A post's thumbnail and url are one image. The cleanup's two reads (latest save, its post) are one step.

## 4. Runs

| Run | Instance | Shows | States |
|---|---|---|---|
| `live` | 2 requests, 1 problem, Redis lock, 1 overrun, 1 fault, fair | `TypeOK`, `RunMutex`, `RunVisible`, `NoOrphanRunning`, `SolvedIsKept`, `RunSettles`, `RunIsAtomic` | 168 thousand |
| `serial` | 2 requests, 2 problems, in-process lock, 1 fault | `NoLeakedLock`, `SelectionAgrees` | 636 thousand |
| `posts` | one post with an edit, a deletion and a fault, or two posts with a deletion, one upload slot | `CountersCover`, `MediaIsKept`, `NoOrphanFiles` | 1.1 million |
| `jobs` | 1 post, 2 delete requests, or 2 posts that compete for 1 slot; 1 attempt, 1 fault, fair | `UploadSettles`, `CleanupFinishes`, `CountedOffOnce` | 146 thousand |
| `lost` | 1 post, 1 delete request, nothing fails | **violation** of `DeletionFinishes` | |
| `auth` | 1 tab, 3 calls of which 2 of any kind, 1 lost answer, fair | `CookieIsCurrent`, `InactiveIsOut`, `DeactivationTakesEffect`, `CallsSettle` | 296 thousand |
| `social` | 2 users, 2 requests, 1 crash, fair | `CountsAgree`, `BlockEndsFollows`, `GoneLeavesNoFollows`, `AccountsAreRemoved` | 174 thousand |
| `reactions` | 2 users, 2 requests and the deletion of the post, two of them at a time | `CountsCover`, `ThreadsAreWhole`, `GoneLeavesNothing`, `NoTraceLeft` | 1.4 million |
| `room` | 3 connections of up to 2 users, 3 messages | `NobodyStays`, `PagesAgree`, `CallRings`, `LastCodeIsSaved` | 3.3 million |
| `typing` | 2 pages, 2 edits | **violation** of `EditsSurvive` | |
| `chat` | 4 users, 1 of whom may delete their account, 3 requests, two at a time | `GroupKeepsAdmin`, `MembersStay`, `UnreadIsCounted`, `LastMessageIsThere`, `OnlyHiddenIsDestroyed`, `RoomHasConversation` | 620 thousand |
| `saves` | 2 posts (one without media), 1 name beside the default's, 5 requests, two at a time, 3 collections | `OneSelected`, `SavesHaveCollection`, `CoversAreSaved` | 566 thousand |

Deadlock is checked in the room-problem runs. The other runs switch it off: posts are removed,
requests are made at most once or up to a bound, and then those systems rest.

**Why the bounds are enough.** Every race found in these handlers is between one actor and one
other that acts inside one of its awaits, so two requests at a time (or one and a job) contain each
pair of steps; more requests, one after another, are what is needed to meet what the earlier ones
left behind, which is why `chat`, `room`, `auth` and `saves` start more than run together. In
detail: a selection touches two problems, the selected and the next one, so `serial` has two (a third
was checked once: 8.5 million states, nothing new). a third connection in `room` is the second tab of a user or the listener; three messages
are a join, an act and a departure. In `social` two users have relations both ways. `reactions`
begins with every set of users who have liked and reposted, or with a thread of two comments, so
that a deletion has something to delete; `TwoActors` keeps requests about different kinds of subject
apart, which share nothing but the post. In `posts`, two posts are needed for one owner's counter
and one slot to be contended, one post for all that concerns its own document: `OneOrPlain` gives
two posts no edits and no faults. In `jobs` two posts compete for the slot while at most one request deletes the
first of them, with a fault (`OneOrCompeting`). `LongOrMixed` gives long histories to requests one after
another and shorter ones (three to four requests) to requests that overlap. In `chat` the
deletion of an account, and a group without its room, come with at most two requests (`TwoWhenIncomplete`): one
that hides or enters and one beside it. `OneSubject` keeps code and runs apart from audio
and calls, with which they share nothing but the presence in the room. `Concurrency` is 1
instead of 2 so that two posts fill it. One overrun and one fault are what it takes to leave a
protected region; the proofs below remove these bounds.

**Fairness.** In `RoomProblem` a step whose `await` has been issued is taken (`WF` of `Step(r)`:
MongoDB, Redis and the code runner, which has a time limit, answer or reject) and an abandoned
Redis key lapses. In `PostLifecycle` the drain, the steps of uploads, cleanup jobs and requests
and the media jobs are weakly fair: the process lives and BullMQ's workers poll. In `AuthSession`
calls that were sent go on (`fetch` answers or fails) and cache entries expire. In `SocialGraph`
awaits resolve and the worker takes its jobs. `PostReactions`, `CollabPresence`, `Conversation`
and `SavedPosts` have safety properties only and state no fairness. No request, edit, delete,
crash or failure is ever assumed to happen. There is no strong fairness.

## 5. What was found

Two runs show a disagreement of the code with its documentation:

* **A deleted post may stay for ever** (`lost`). `deletePost` marks a post that was not visible
  (processing, failed, or ready only since the look-up) and enqueues nothing; every later
  delete answers that the deletion is in progress.
* **Typing together loses text** (`typing`). The page merges a Yjs update and then replaces the
  merged text by the sender's whole text; `src/docs/Disuza-Architecture-Guide.md:533` says it does not.

The models reach the following as well. They are excluded from the properties by the named
condition, so each property says that nothing else breaks it:

* Room problems: when a run key lapses under a slow run a second run gets in, or is turned away
  and resets the document (`src/docs/docs.md:1970` says the lock is safe across processes), and a
  failing run may then overwrite a status another one solved, because its verdict goes by the status
  it loaded (`SolvedIsKept` names these runs). `ensureRoomIsNotRunning` is a read: a run may start before
  the selection that passed it is written, and such a selection writes *solving* over what the run
  solved; two changes may overlap, which can select a problem that is gone or leave two being solved
  (`contested`).
* Posts: of two edits of one post the later can put back a file the other sent to the media
  cleanup (one edit of a post at a time, `OneEditOfAPost` in the theorems); a rejected counter after `completeMediaUpload` cleans the files of a post
  that is still visible (`faults = 0`); a crash loses the upload queue; when `failMediaUpload` rejects too, the post
  stays processing, though its slot is given back (`UploadSettles` excuses only the post itself); a cleanup that was
  interrupted between the decrement and its flag decrements again; a cleanup that overtakes the
  counting of its post leaves the counters too high (hence "cover").
* Sessions: two tabs that rotate together are both answered with a token, only one of which is
  stored (hence one tab in `CookieIsCurrent`'s run); a lost answer leaves the browser with the old token
  (`lost`); a rotation does not look at the result of its update, so a refresh whose session is revoked
  after its find is answered with an access token (`InactiveIsOut` is about refreshes that begin after the
  deactivation); a denied refresh throws and leaves the tab logged in, with a token that no longer works,
  where `src/docs/Disuza-Architecture-Guide.md:555` says it clears the client session.
* Follows: two follows at once are counted twice (`extra`); a follow that passed its checks is
  created beside a block or to an account that is going (`late`); a request that dies between
  `markInactive` and the enqueue strands the account (`stranded`; a rejection of one of those writes
  would too, and is not modelled); one that dies between the creation of a block and the cut leaves the
  follow beside the block (`crashes = 0`).
* Reactions: two deletions of a comment both decrement (`twice`); the cleanup counts a contribution off that a
  request counts off at the same time (`taken`); a reply created while its parent
  is deleted stays without one, a comment or repost created after its post was hidden stays, and so
  do its notification and contribution (`late`).
* Rooms: a socket that left while its join waited for the access check is let in after all
  (`late`, `lateVoice`); a save that finishes forgets the timer of a newer edit, and the two saves may then end in
  either order (`raced`); a save that fails is only logged, and its text is lost unless somebody types again (`failed`); one of two
  tabs that leaves shows the user as gone to the others, and removes the user's audio entry
  (`PagesAgree` is about users with one connection); a rejection meant for an earlier call ends the
  present one.
* Chat: a conversation reopened after its deletion was decided is destroyed (`reopened`); `findOrCreate`'s
  `$pull` does not change the version, so an older hide can hide it again; in a group of which one of the
  first two participants has deleted their account, one member who hides it destroys it for everybody, because
  `deleteConversationForUser` looks at the first other participant in a group as well (`FirstIsGone`); the only admin who
  leaves a group with open invitations leaves it without an admin (`abandoned`); a removed member may
  accept again but not be invited again; a message whose conversation could not be saved stays; an
  unsend beside another request may leave a last message that is gone (`crossed`), and a message that is counted
  while its receiver looks is not counted (`overlooked`); a room made after the cleanup listed the rooms, for a
  request accepted late or a member who enters the group, stays behind, and may be announced again (`late`).
* Saves: two selections at once leave none or two collections selected (`mixed`); a post saved into
  a collection while it is deleted keeps a save in a collection that is gone (`raced`); a cover
  computed while another request or a cleanup changes the collection is stale (`mixed`, `late`); a
  user's own collection named "All Saved", made before the default, makes `ensureDefaultCollection`
  fail on the unique index; creating a collection with a taken name leaves nothing selected.

## 6. Proofs

Every theorem holds for every value of the constants that satisfies the assumptions (`ASSUME`)
of its module: any number of users, requests, sockets, messages, faults and crashes.

| Module | Theorem | States |
|---|---|---|
| `RoomProblem_proofs` | `TypeCorrect` | `TypeOK` |
| | `RunsExclude`, `RunsAreVisible`, `SolvedStays` | `RunMutex`, `RunVisible`, `SolvedIsKept` (an action property) |
| | `RunsSettleOrFail`, `LocksAreReturned` | `NoOrphanRunning`, `NoLeakedLock` |
| | `SelectionStays` | `SelectionAgrees`, whatever overlaps |
| | `RunsImplementRecord` | `RunIsAtomic`, the refinement of `RunRecord` |
| `PostLifecycle_proofs` | `TypeCorrect`, `CountedOnce`, `CountersAreCovered` | `TypeOK`, `CountedOffOnce`, `CountersCover` |
| | `MediaStays`, `NoFileIsLeft` | `MediaIsKept`, `NoOrphanFiles`, as long as no two edits of one post overlap (`[]OneEditOfAPost`) |
| `AuthSession_proofs` | `TypeCorrect`, `DeactivatedIsOut` | `TypeOK`, `InactiveIsOut` |
| | `CookieStaysCurrent` | `CookieIsCurrent`, for a browser with one tab (`OneTab`, as in `auth`) |
| `SocialGraph_proofs` | `TypeCorrect`, `GoneIsUnfollowed`, `BlockedIsUnfollowed` | `TypeOK`, `GoneLeavesNoFollows`, `BlockEndsFollows` |
| | `CountersTellFollows` | `CountsAgree` |
| `PostReactions_proofs` | `TypeCorrect`, `GoneIsEmpty`, `ThreadsStayWhole` | `TypeOK`, `GoneLeavesNothing`, `ThreadsAreWhole` |
| | `NoTraceStays`, `CountsStayCovered` | `NoTraceLeft`, `CountsCover` |
| `CollabPresence_proofs` | `TypeCorrect`, `NobodyIsLeftBehind`, `OneTimerPerCall`, `LastSaveWins`, `PagesAgreeWithServer` | `TypeOK`, `NobodyStays`, `CallRings`, `LastCodeIsSaved`, `PagesAgree` |
| `Conversation_proofs` | `TypeCorrect`, `RoomGoes`, `GroupHasAdmin`, `MembersAreKept`, `OnlyHiddenGoes` | `TypeOK`, `RoomHasConversation`, `GroupKeepsAdmin`, `MembersStay` (an action property), `OnlyHiddenIsDestroyed` |
| | `UnreadStaysCounted`, `LastMessageStays` | `UnreadIsCounted`, `LastMessageIsThere` |
| `SavedPosts_proofs` | `TypeCorrect`, `SavesAreSomewhere`, `OneIsSelected`, `CoversStaySaved` | `TypeOK`, `SavesHaveCollection`, `OneSelected`, `CoversAreSaved` |

The assumptions are those that give the constants their types, that `NONE` and the like are none
of the values they stand beside (`NoneAssumption`), and that there are finitely many posts, requests
or users where something is counted (`PostsAssumption`, `ConstantsAssumption`). The hypotheses in the table (one edit of a post at a time, one tab)
are no assumptions of the models: they name the races of section 5 that the code does lose.

Each is proved from an inductive invariant, one action and one conjunct at a time. Why the property
alone is not inductive, and what makes it so:

* **`RoomProblem`.** `SafeInv` is a conjunction. `LockInv` says that, until a key lapses too early,
  whoever is inside the try block of a problem holds its key; only the holder then writes
  `executionStatus`, which gives `VisibleInv` (what the run wrote stays written) and `FreeInv` (a problem
  a run found idle still is); and because selections never write *solved* (`ChangeInv`), a run of a solved problem
  loaded it as solved (`SolvedInv`), so its verdict is right about what is stored and `RunFinish` is an `End` of
  `RunRecord` (`NamedInv`: a document names a request exactly while it is running). `NoOrphanRunning` and
  `NoLeakedLock` have invariants of their own, which do not need the lock. `SelectInv` says for each problem
  that is not contested what the changes in flight know of it (`Agrees`): who has read the room knows whether the problem is
  selected, only a selected problem or one about to be is being solved, and a selected one exists or is about to
  be deselected. `MeetInv` (changes that meet are contested) is why no other change spoils that; a run
  writes no *solving* and removes nothing (`Harmless`), so it may come in between.
* **`PostLifecycle`.** `StageInv` says what each step of an upload and a job may assume of its post;
  `TookInv`, that while nothing fails a job that took the count of its post runs until the post is
  removed, so no second one takes it. `CoverInv` compares counters with the number of visible posts and of
  logs (cardinalities), a post that is still to be counted excepted. `FileInv`: each stored file is kept
  by exactly one of the post's media, its upload, the edit under way or a media job, and belongs to one post.
* **`AuthSession`.** `LateInv`: a refresh that began after the deactivation is stopped by the account
  check between the two reads of its session, so it is never past that check. `CookieInv`: a refresh holds
  its tab's mutex, so with one tab there is one at a time, and the token it was granted is the current one
  of its session unless that was revoked.
* **`SocialGraph`.** `GoneInv`: the purge of a deactivated account's follows lasts from the moment the job has made
  it, because a follow created afterwards finds the account deactivated and is late. `BlockInv`: while the
  process lives, a follow beside a block is about to be cut by the request that created the block. `CountInv`: while the
  process lives and no account is deactivated, a counter with what requests are about to add to it is the number
  of follows and of counted duplicates, with the follows about to be made and the deleted ones about to be
  counted off. Every step moves one pair of one request (`CountStays`), so both sides change alike. The recursive
  sum over the duplicates is the cardinality of the set that lists them one by one (`TwiceInAll`): a
  smallest set of pairs on which the two differ cannot be, since they agree on it without one of its pairs.
* **`PostReactions`.** `GoneInv`: whatever is there once the documents were deleted was created
  afterwards, and a like among it still has its request, which will find no post to count it on. `ThreadInv`: a
  comment that is not late has its parent there, and who deletes the parent deletes it too. `TraceInv`: a
  notification or log that is not late is still to be read by the job, or is on the list of the
  request or job that deletes what it is about. `LedgerInv` is double-entry bookkeeping: a counter, with
  what requests are about to add to it, is at least the documents, with those that requests have
  deleted and are about to take off it; likewise scores and logs, where the job takes off only what it
  found. It needs `ShapeInv`, that a request has only the tasks of its operation. A task that takes effect
  moves an amount from one side's pending part to its written part, which is why no single step unbalances it.
* **`CollabPresence`.** `StayInv`: who is present has the room in the data their disconnection looks at,
  and a voice entry names a socket of its user. `SaveInv`: the last timer, or without one the save under way,
  or without one the database has the text that was
  scheduled last, or a run stored its code since, or the write failed. `PagesInv`: a page shows only users who have connected.
* **`Conversation`.** `CopiesInv`: a request that loaded a group at the version it has now loaded the arrays it
  has now, so a save that replaces an array does so over the arrays it loaded; with that, the admin
  who is in a copy is in the document (`AdminInv`), no acceptance is overwritten (`MembersAreKept`), and a decided
  deletion found the conversation hidden (`HideInv`); `LookInv` says that the copy of a request that
  looks up the other participant shows everybody the document shows, and `DirectInv` that a direct conversation has no third one.
  `RoomInv`: who made the room is the only one to announce it.
  `CountsInv`: a save writes no unread count but those a send has raised or its own user has reset.
  `LastInv`: every copy names a stored message as the last one, or was loaded before an unsend crossed it.
* **`SavedPosts`.** `RaceInv`: a request that is about to create or move a save knows a collection that is there, unless
  a deletion of it overlapped (`raced`). `SelectInv`: until selections overlap (`mixed`), at most one
  request is between deselecting and selecting, and it selects the collection it holds. `CoverInv`:
  while requests and cleanups have run one after another, every collection shows a post that is in it, but for the one
  the request or the cleanup is about to refresh; what it is about to write there is right (`Serves`, `Mends`), because
  a post is saved once (`SavesInv`), a hidden post's saves are gone once its cleanup has deleted them (`Swept`), and a
  collection that is made has no saves yet (`RaceInv`, `IdsInv`).

Only model-checked: the liveness properties (`RunSettles`, `UploadSettles`, `CleanupFinishes`,
`DeactivationTakesEffect`, `CallsSettle`, `AccountsAreRemoved`; temporal reasoning under fairness
is out of the prover's reach). Every safety invariant and every action property that a passing run checks
has a theorem.

## 7. Not modelled, and the plan

In order of importance:

1. OTP and login lockout: counters that are read, compared and incremented by separate awaits.
2. The rest of the account cleanup: the account's own posts, likes, comments, saves and rooms, beside
   requests about them. Messages that share a deleted post.
3. The pure functions `splitTopLevel` and `normalizeOutput` (code execution), `buildUpdateMedia` and
   the feed's seeded score as operators checked against reference definitions.
4. Personal rooms (one upsert), profile editing, marking notifications as read, seen marks and pins.

Not planned: read-only queries and feeds, validation schemas, logging, rate limiting, the seed
script, the web client beyond the guarded base query and the room page, and third-party providers
beyond their answers: they hold no state that another part relies on.
