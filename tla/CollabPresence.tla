---------------------------- MODULE CollabPresence ----------------------------
(***************************************************************************)
(* Who is in one shared room: the maps collabHandler keeps in the process  *)
(* (presence, audio, the ringing call, the code-save timers) and the pages *)
(* that join, talk, edit, leave and lose their connection.                 *)
(*                                                                         *)
(* A handler that asks for the room access first waits; anything may       *)
(* happen before it goes on, and handlers of one socket may overtake each  *)
(* other.  Handlers without an await are one step, and so is what a page   *)
(* does with an event: events of a socket arrive in order.  A page that    *)
(* reconnects is another socket of its user.                               *)
(***************************************************************************)
EXTENDS Integers, Sequences

CONSTANTS
    Sockets,        \* connections, each used once
    Users,
    None,
    MaxMessages     \* bound: messages the pages send

ASSUME SocketsAssumption == None \notin Sockets \union Users
ASSUME MessagesAssumption == MaxMessages \in Nat

VARIABLES
    user,               \* user of every socket
    conn,               \* connections
    page,               \* sockets whose page shows the room
    audio,              \* sockets whose page is in the audio call
    view,               \* presenceMap of every page
    text,               \* editor of every page, as the set of edits it shows
    activeRooms,        \* sockets present in the room
    channel,            \* the socket.io room
    collabRooms,        \* sockets whose data name the room
    activeVoiceRooms,   \* the socket every user talks from
    voiceRooms,         \* sockets whose data name the room's audio
    activeCall,         \* user whose call rings
    ringTimers,         \* running timers of ringing calls
    codeTimers,         \* running timers of code saves, oldest first
    codeTimer,          \* the timer codeSaveTimers knows, by its edit
    saves,              \* code saves on their way to the database
    code,               \* currentCode of the problem
    runs,               \* runs between loading the problem and storing their code
    waiting,            \* handlers that wait for the room access
    sent,               \* messages sent so far
    late,               \* history: sockets that were let in after they had left
    lateVoice,          \* history: the same for audio
    stray,              \* history: the call was requested in an empty room
    scheduled,          \* history: the last save that was scheduled
    raced,              \* history: two saves were under way together
    failed,             \* history: edits whose save failed
    ran                 \* history: texts that runs stored since a save was last stored

pages == <<user, page, audio, view, text>>
presence == <<activeRooms, channel, collabRooms, late>>
voice == <<activeVoiceRooms, voiceRooms, lateVoice>>
call == <<activeCall, ringTimers, stray>>
saving == <<codeTimers, codeTimer, saves, code, runs, scheduled, raced, failed, ran>>
vars == <<pages, conn, presence, voice, call, saving, waiting, sent>>

----------------------------------------------------------------------------
Edits == 1..MaxMessages
Texts == SUBSET Edits

\* A save carries the text of an edit, a run the text it runs; the other handlers carry nothing.
Save == [edit: Edits, code: Texts]
NoSave == [edit |-> 0, code |-> {}]

Handler == [socket: Sockets, what: {"join", "voice", "request", "answer", "code", "run"}, save: Save \union {NoSave}]

Run == [code: Texts, loaded: Texts, message: Edits]

Handling(s, what) == [socket |-> s, what |-> what, save |-> NoSave]

TypeOK ==
    /\ user \in [Sockets -> Users] /\ conn \in [Sockets -> {"new", "on", "off"}]
    /\ page \in SUBSET Sockets /\ audio \in SUBSET Sockets
    /\ view \in [Sockets -> SUBSET Users] /\ text \in [Sockets -> Texts]
    /\ activeRooms \in SUBSET Sockets /\ channel \in SUBSET Sockets /\ collabRooms \in SUBSET Sockets
    /\ activeVoiceRooms \in [Users -> Sockets \union {None}] /\ voiceRooms \in SUBSET Sockets
    /\ activeCall \in Users \union {None} /\ ringTimers \in Nat
    /\ codeTimers \in Seq(Save) /\ codeTimer \in Edits \union {0} /\ saves \in SUBSET Save
    /\ code \in Texts /\ runs \in SUBSET Run
    /\ scheduled \in Save \union {NoSave} /\ raced \in BOOLEAN /\ failed \in SUBSET Edits /\ ran \in SUBSET Texts
    /\ waiting \in SUBSET Handler
    /\ sent \in 0..MaxMessages
    /\ late \in SUBSET Sockets /\ lateVoice \in SUBSET Sockets /\ stray \in BOOLEAN

UsersOf(sockets) == {user[s] : s \in sockets}

\* Some sockets are in the room already.
Init ==
    /\ user \in [Sockets -> Users]
    /\ page \in SUBSET Sockets
    /\ conn = [s \in Sockets |-> IF s \in page THEN "on" ELSE "new"]
    /\ activeRooms = page /\ channel = page /\ collabRooms = page
    /\ view = [s \in Sockets |-> IF s \in page THEN UsersOf(page) ELSE {}]
    /\ text = [s \in Sockets |-> {}]
    /\ audio = {} /\ activeVoiceRooms = [u \in Users |-> None] /\ voiceRooms = {}
    /\ activeCall = None /\ ringTimers = 0
    /\ codeTimers = <<>> /\ codeTimer = 0 /\ saves = {} /\ code = {} /\ runs = {}
    /\ waiting = {} /\ sent = 0
    /\ late = {} /\ lateVoice = {} /\ stray = FALSE
    /\ scheduled = NoSave /\ raced = FALSE /\ failed = {} /\ ran = {}

Online(s) == conn[s] = "on"

\* A page sends a message; a message of a kind that still waits is not repeated.
Send(s) ==
    /\ Online(s) /\ sent < MaxMessages
    /\ sent' = sent + 1

Ask(s, what) ==
    /\ Handling(s, what) \notin waiting
    /\ waiting' = waiting \union {Handling(s, what)}

----------------------------------------------------------------------------
(* What the handlers without an await do.                                  *)

VoiceIsEmpty == \A u \in Users : activeVoiceRooms[u] = None

\* removeVoiceUser: audio is kept by user, whichever socket of theirs goes.
RemoveVoiceUser(s) ==
    /\ activeVoiceRooms' = [activeVoiceRooms EXCEPT ![user[s]] = None]
    /\ voiceRooms' = IF VoiceIsEmpty THEN voiceRooms ELSE voiceRooms \ {s}
    /\ lateVoice' = lateVoice

\* Variant with a bug: the timer of the ringing call goes on.
KeepsRinging == ringTimers

\* clearCallState
StopRinging == IF activeCall = None THEN ringTimers ELSE ringTimers - 1

ClearCallState ==
    /\ activeCall' = None /\ ringTimers' = StopRinging
    /\ stray' = FALSE

Empties(s) == activeRooms \ {s} = {}

\* The pages that hear that s left; a page shows users, not sockets.
ForgetUser(s, listeners) ==
    view' = [q \in Sockets |-> IF q \in listeners THEN view[q] \ {user[s]} ELSE view[q]]

\* removeSocketFromRoom
RemoveSocketFromRoom(s) ==
    /\ activeRooms' = activeRooms \ {s} /\ late' = late \ {s}
    /\ channel' = channel \ {s} /\ collabRooms' = collabRooms \ {s}
    /\ IF Empties(s) THEN ClearCallState ELSE UNCHANGED call
    /\ ForgetUser(s, channel \ {s})

RoomIsKnown == activeRooms # {}

----------------------------------------------------------------------------
(* Pages.                                                                  *)

Connect(s) ==
    /\ conn[s] = "new"
    /\ conn' = [conn EXCEPT ![s] = "on"]
    /\ UNCHANGED <<pages, presence, voice, call, saving, waiting, sent>>

\* The page joins when it opens, and loads the code that was saved.
OpenRoom(s) ==
    /\ s \notin page
    /\ Send(s) /\ Ask(s, "join")
    /\ page' = page \union {s}
    /\ view' = [view EXCEPT ![s] = {}]
    /\ text' = [text EXCEPT ![s] = code]
    /\ UNCHANGED <<user, audio, conn, presence, voice, call, saving>>

\* A page that closes sends leave_collab_room and voice_leave_room.
LeaveRoom(s) ==
    /\ s \in page
    /\ Send(s)
    /\ page' = page \ {s} /\ audio' = audio \ {s}
    /\ IF RoomIsKnown THEN RemoveSocketFromRoom(s) ELSE UNCHANGED <<presence, call, view>>
    /\ RemoveVoiceUser(s)
    /\ UNCHANGED <<user, text, conn, saving, waiting>>

\* A new access token makes the page leave and join again.
Rejoin(s) ==
    /\ s \in page
    /\ Send(s) /\ Ask(s, "join")
    /\ IF RoomIsKnown THEN RemoveSocketFromRoom(s) /\ RemoveVoiceUser(s) ELSE UNCHANGED <<presence, voice, call, view>>
    /\ UNCHANGED <<user, page, audio, text, conn, saving>>

StartAudioCall(s) ==
    /\ s \in page \ audio
    /\ Send(s) /\ Ask(s, "voice")
    /\ audio' = audio \union {s}
    /\ UNCHANGED <<user, page, view, text, conn, presence, voice, call, saving>>

EndAudioCall(s) ==
    /\ s \in audio
    /\ Send(s)
    /\ audio' = audio \ {s}
    /\ RemoveVoiceUser(s)
    /\ UNCHANGED <<user, page, view, text, conn, presence, call, saving, waiting>>

Signal(s, what) ==
    /\ s \in page /\ what \in {"request", "answer"}
    /\ Send(s) /\ Ask(s, what)
    /\ UNCHANGED <<pages, conn, presence, voice, call, saving>>

\* emitYjsCodeChange
ChangeCode(s) ==
    /\ s \in page
    /\ Send(s)
    /\ text' = [text EXCEPT ![s] = @ \union {sent'}]
    /\ waiting' = waiting \union {[Handling(s, "code") EXCEPT !.save = [edit |-> sent', code |-> text'[s]]]}
    /\ UNCHANGED <<user, page, audio, view, conn, presence, voice, call, saving>>

\* handleRunCode: the page's text goes with the request.
RunCode(s) ==
    /\ s \in page
    /\ Send(s)
    /\ waiting' = waiting \union {[Handling(s, "run") EXCEPT !.save = [edit |-> sent', code |-> text[s]]]}
    /\ UNCHANGED <<pages, conn, presence, voice, call, saving>>

\* Variant with a bug: only the rooms a socket joined are left.
OnlyRooms(s) == s \in collabRooms

TalksOrIsPresent(s) == s \in collabRooms \union voiceRooms

\* socket.io has left the rooms before the handler runs.
Disconnect(s) ==
    /\ Online(s)
    /\ conn' = [conn EXCEPT ![s] = "off"]
    /\ page' = page \ {s} /\ audio' = audio \ {s}
    /\ IF s \in collabRooms THEN RemoveSocketFromRoom(s)
       ELSE channel' = channel \ {s} /\ UNCHANGED <<activeRooms, collabRooms, late, call, view>>
    /\ IF TalksOrIsPresent(s) THEN RemoveVoiceUser(s) ELSE UNCHANGED voice
    /\ UNCHANGED <<user, text, saving, waiting, sent>>

----------------------------------------------------------------------------
(* Handlers that go on when they know the access.                          *)

Refuse(h) ==
    /\ waiting' = waiting \ {h}
    /\ UNCHANGED <<pages, conn, presence, voice, call, saving, sent>>

\* Let in too late: the page or the connection is gone.
Mark(history, s, inside) == IF inside /\ Online(s) THEN history \ {s} ELSE history \union {s}

\* Variant with a bug: a page that joins tells the others only.
OthersOnly(s, q) == IF q \in channel \ {s} THEN view[q] \union {user[s]} ELSE view[q]

\* presence_state to the page that joins, presence to the others.
Seen(s, q) ==
    IF q = s THEN UsersOf(activeRooms \union {s})
    ELSE IF q \in channel THEN view[q] \union {user[s]} ELSE view[q]

Join(h) ==
    /\ h.what = "join"
    /\ LET s == h.socket
       IN  /\ channel' = channel \union {s} /\ collabRooms' = collabRooms \union {s}
           /\ activeRooms' = activeRooms \union {s}
           /\ view' = [q \in Sockets |-> Seen(s, q)]
           /\ late' = Mark(late, s, s \in page)
    /\ waiting' = waiting \ {h}
    /\ UNCHANGED <<user, page, audio, text, conn, voice, call, saving, sent>>

JoinVoice(h) ==
    /\ h.what = "voice"
    /\ LET s == h.socket
       IN  /\ activeVoiceRooms' = [activeVoiceRooms EXCEPT ![user[s]] = s]
           /\ voiceRooms' = voiceRooms \union {s}
           /\ lateVoice' = Mark(lateVoice, s, s \in audio)
    /\ waiting' = waiting \ {h}
    /\ UNCHANGED <<pages, conn, presence, call, saving, sent>>

Busy(u) == activeCall \notin {None, u}

RequestCall(h) ==
    /\ h.what = "request"
    /\ IF Busy(user[h.socket]) THEN UNCHANGED call
       ELSE /\ activeCall' = user[h.socket] /\ ringTimers' = StopRinging + 1
            /\ stray' = (activeRooms = {})
    /\ waiting' = waiting \ {h}
    /\ UNCHANGED <<pages, conn, presence, voice, saving, sent>>

\* CALL_ACCEPTED, CALL_REJECTED, CALL_ENDED
AnswerCall(h) ==
    /\ h.what = "answer"
    /\ ClearCallState
    /\ waiting' = waiting \ {h}
    /\ UNCHANGED <<pages, conn, presence, voice, saving, sent>>

\* Variant with a bug: an edit within the delay is not saved.
KeepsFirst(save) == IF codeTimers = <<>> THEN <<save>> ELSE codeTimers

\* The timer that is known is the one that was set last, unless a save has forgotten it.
LastIsKnown == codeTimers # <<>> /\ codeTimers[Len(codeTimers)].edit = codeTimer

\* scheduleCodeSave: the timer that is known is cleared.
Debounced(save) ==
    Append(IF LastIsKnown THEN SubSeq(codeTimers, 1, Len(codeTimers) - 1) ELSE codeTimers, save)

\* The others put the text they are sent into their editors.
RelayCode(h) ==
    /\ h.what = "code"
    /\ codeTimers' = Debounced(h.save) /\ codeTimer' = h.save.edit
    /\ scheduled' = h.save
    /\ text' = [q \in Sockets |-> IF q \in (channel \intersect page) \ {h.socket} THEN h.save.code ELSE text[q]]
    /\ waiting' = waiting \ {h}
    /\ UNCHANGED <<user, page, audio, view, conn, presence, voice, call, saves, code, runs, raced, failed, ran, sent>>

\* runProblem has the lock and loads the problem; it may be refused instead.
LoadProblem(h) ==
    /\ h.what = "run"
    /\ runs' = runs \union {[code |-> h.save.code, loaded |-> code, message |-> h.save.edit]}
    /\ waiting' = waiting \ {h}
    /\ UNCHANGED <<pages, conn, presence, voice, call, codeTimers, codeTimer, saves, code, scheduled, raced, failed, ran, sent>>

\* The problem is saved as running: its code is written if it is not the code that was loaded.
StoreRun(run) ==
    /\ run \in runs
    /\ runs' = runs \ {run}
    /\ IF run.code # run.loaded THEN code' = run.code /\ ran' = ran \union {run.code} ELSE UNCHANGED <<code, ran>>
    /\ UNCHANGED <<pages, conn, presence, voice, call, codeTimers, codeTimer, saves, scheduled, raced, failed, waiting, sent>>

\* The run is refused after the load, or the write fails.
DropRun(run) ==
    /\ run \in runs
    /\ runs' = runs \ {run}
    /\ UNCHANGED <<pages, conn, presence, voice, call, codeTimers, codeTimer, saves, code, scheduled, raced, failed, ran, waiting, sent>>

----------------------------------------------------------------------------
(* Timers.                                                                 *)

RingTimeout ==
    /\ ringTimers > 0
    /\ ClearCallState
    /\ UNCHANGED <<pages, conn, presence, voice, saving, waiting, sent>>

\* All delays are the same: timers fire in the order they were set in.
StartSave ==
    /\ codeTimers # <<>>
    /\ codeTimers' = Tail(codeTimers)
    /\ saves' = saves \union {Head(codeTimers)}
    /\ raced' = (raced \/ saves # {})
    /\ UNCHANGED <<pages, conn, presence, voice, call, codeTimer, code, runs, scheduled, failed, ran, waiting, sent>>

\* Whether the write succeeded or not, codeSaveTimers forgets whatever timer it knows.
Forget(save) ==
    /\ save \in saves
    /\ saves' = saves \ {save}
    /\ codeTimer' = 0
    /\ UNCHANGED <<pages, conn, presence, voice, call, codeTimers, runs, scheduled, raced, waiting, sent>>

FinishSave(save) ==
    /\ Forget(save)
    /\ code' = save.code /\ ran' = {}
    /\ UNCHANGED failed

\* The failure is logged; the text is not saved again.
FailSave(save) ==
    /\ Forget(save)
    /\ failed' = failed \union {save.edit}
    /\ UNCHANGED <<code, ran>>

----------------------------------------------------------------------------
Step(s) ==
    \/ Connect(s) \/ OpenRoom(s) \/ LeaveRoom(s) \/ Rejoin(s) \/ StartAudioCall(s) \/ EndAudioCall(s)
    \/ \E what \in {"request", "answer"} : Signal(s, what)
    \/ ChangeCode(s) \/ RunCode(s) \/ Disconnect(s)

GoOn(h) ==
    \/ Refuse(h) \/ Join(h) \/ JoinVoice(h) \/ RequestCall(h) \/ AnswerCall(h) \/ RelayCode(h) \/ LoadProblem(h)

Next ==
    \/ \E s \in Sockets : Step(s)
    \/ \E h \in waiting : GoOn(h)
    \/ \E run \in runs : StoreRun(run) \/ DropRun(run)
    \/ RingTimeout \/ StartSave \/ \E save \in saves : FinishSave(save) \/ FailSave(save)

Spec == Init /\ [][Next]_vars

----------------------------------------------------------------------------
(* Properties.                                                             *)

\* Whoever is present or talks is there, unless the access came after they had left or
\* lost their connection (removeSocketFromRoom, removeVoiceUser, disconnect).
NobodyStays ==
    /\ \A s \in activeRooms : (Online(s) /\ s \in page) \/ s \in late
    /\ \A u \in Users : LET s == activeVoiceRooms[u]
                        IN  s # None => (Online(s) /\ s \in audio) \/ s \in lateVoice

Alone(s) == \A q \in Sockets \ {s} : user[q] = user[s] => conn[q] = "new"

\* Every page that was let in shows each user with a single connection as the server sees
\* them (presence_state, presence; useCollabRoom).
PagesAgree ==
    \A q \in (activeRooms \intersect page) \ late : \A s \in Sockets :
        conn[s] # "new" /\ Alone(s) => (user[s] \in view[q] <=> s \in activeRooms)

\* One timer rings for one call, so that no call is ended by the timer of an earlier one
\* and none rings for ever; a call requested in the room ends with the last to leave it.
CallRings ==
    /\ ringTimers = IF activeCall = None THEN 0 ELSE 1
    /\ activeRooms = {} => activeCall = None \/ stray

CodeIsQuiet == codeTimers = <<>> /\ saves = {}

\* The text that was scheduled last (scheduleCodeSave) is the text that is stored, or a run
\* has stored its own since a save was last stored (runProblem).  Except when the write of that very
\* text failed, which is not tried again, or when two saves were once under way together: the
\* next edit may come while a save runs, which then forgets its timer.  Earlier saves may fail.
LastCodeIsSaved ==
    CodeIsQuiet /\ ~raced /\ scheduled.edit \notin failed => code \in {scheduled.code} \union ran

\* What a user has typed is not taken out of their editor by what another one sends: code
\* collaboration uses Yjs updates, not full-string replacement.
EditsSurvive == [][\A s \in page \intersect page' : text[s] \subseteq text'[s]]_vars
==============================================================================
