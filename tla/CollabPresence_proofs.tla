------------------------ MODULE CollabPresence_proofs ------------------------
(***************************************************************************)
(* For any number of sockets, users and messages: the room keeps its       *)
(* types, nobody stays behind, one timer rings for one call, the last edit *)
(* is stored and the pages agree with the server.                          *)
(***************************************************************************)
EXTENDS CollabPresence, SequenceTheorems, TLAPS

----------------------------------------------------------------------------
(* Types, with the ringing timer, which would count below zero if it were  *)
(* not the call's.                                                         *)

OneTimer == ringTimers = IF activeCall = None THEN 0 ELSE 1

\* A handler that relays or runs code carries a save.
CarriesCode(h) == h.what \in {"code", "run"} => h.save \in Save

Types == TypeOK /\ OneTimer /\ \A h \in waiting : CarriesCode(h)

HandlersOK == waiting \in SUBSET Handler /\ \A h \in waiting : CarriesCode(h)
CallOK == activeCall \in Users \union {None} /\ ringTimers \in Nat /\ stray \in BOOLEAN /\ OneTimer
PresenceOK ==
    /\ activeRooms \in SUBSET Sockets /\ channel \in SUBSET Sockets /\ collabRooms \in SUBSET Sockets
    /\ late \in SUBSET Sockets
VoiceOK == activeVoiceRooms \in [Users -> Sockets \union {None}] /\ voiceRooms \in SUBSET Sockets /\ lateVoice \in SUBSET Sockets
PagesOK ==
    /\ user \in [Sockets -> Users] /\ page \in SUBSET Sockets /\ audio \in SUBSET Sockets
    /\ view \in [Sockets -> SUBSET Users] /\ text \in [Sockets -> Texts]
SavingOK ==
    /\ codeTimers \in Seq(Save) /\ codeTimer \in Edits \union {0} /\ saves \in SUBSET Save
    /\ code \in Texts /\ runs \in SUBSET Run
    /\ scheduled \in Save \union {NoSave} /\ raced \in BOOLEAN /\ failed \in SUBSET Edits /\ ran \in SUBSET Texts
ConnOK == conn \in [Sockets -> {"new", "on", "off"}]
SentOK == sent \in 0..MaxMessages

LEMMA TypeParts ==
  Types <=> HandlersOK /\ CallOK /\ PresenceOK /\ VoiceOK /\ PagesOK /\ SavingOK /\ ConnOK /\ SentOK
  BY DEF Types, TypeOK, HandlersOK, CallOK, PresenceOK, VoiceOK, PagesOK, SavingOK, ConnOK, SentOK

LEMMA TypePartsNext ==
  Types' <=> HandlersOK' /\ CallOK' /\ PresenceOK' /\ VoiceOK' /\ PagesOK' /\ SavingOK' /\ ConnOK' /\ SentOK'
  BY DEF Types, TypeOK, HandlersOK, CallOK, PresenceOK, VoiceOK, PagesOK, SavingOK, ConnOK, SentOK

\* What a step leaves alone keeps its types.
LEMMA Frame ==
  ASSUME Types
  PROVE  /\ UNCHANGED waiting => HandlersOK'
         /\ UNCHANGED call => CallOK'
         /\ UNCHANGED presence => PresenceOK'
         /\ UNCHANGED voice => VoiceOK'
         /\ UNCHANGED pages => PagesOK'
         /\ UNCHANGED saving => SavingOK'
         /\ UNCHANGED conn => ConnOK'
         /\ UNCHANGED sent => SentOK'
  BY TypeParts DEF HandlersOK, CallOK, OneTimer, PresenceOK, VoiceOK, PagesOK, SavingOK, ConnOK, SentOK, call, presence,
     voice, pages, saving

LEMMA Asking ==
  ASSUME Types, NEW s \in Sockets, NEW what \in {"join", "voice", "request", "answer"}, Ask(s, what)
  PROVE  HandlersOK'
  BY TypeParts DEF HandlersOK, Ask, Handling, Handler, CarriesCode

LEMMA Going ==
  ASSUME Types, NEW h, waiting' = waiting \ {h}
  PROVE  HandlersOK'
  BY TypeParts DEF HandlersOK

LEMMA Sending ==
  ASSUME Types, NEW s \in Sockets, Send(s)
  PROVE  SentOK' /\ sent' \in Edits
  BY TypeParts, MessagesAssumption DEF SentOK, Send, Edits

LEMMA Clearing ==
  ASSUME Types, ClearCallState
  PROVE  CallOK' /\ activeCall' = None
  <1>1. CallOK
    BY TypeParts
  <1>2. activeCall' = None /\ ringTimers' = 0 /\ stray' = FALSE
    BY <1>1 DEF CallOK, OneTimer, ClearCallState, StopRinging
  <1> QED
    BY <1>2 DEF CallOK, OneTimer

LEMMA Forgetting ==
  ASSUME Types, NEW s \in Sockets, NEW S, ForgetUser(s, S)
  PROVE  view' \in [Sockets -> SUBSET Users]
  BY TypeParts DEF PagesOK, ForgetUser

LEMMA RemovingType ==
  ASSUME Types, NEW s \in Sockets, RemoveSocketFromRoom(s)
  PROVE  PresenceOK' /\ CallOK' /\ view' \in [Sockets -> SUBSET Users]
  <1>1. PresenceOK'
    BY TypeParts DEF PresenceOK, RemoveSocketFromRoom
  <1>2. CallOK'
    BY Clearing, Frame DEF RemoveSocketFromRoom
  <1> QED
    BY <1>1, <1>2, Forgetting DEF RemoveSocketFromRoom

LEMMA RemovingVoiceType ==
  ASSUME Types, NEW s \in Sockets, RemoveVoiceUser(s)
  PROVE  VoiceOK'
  BY TypeParts DEF PagesOK, VoiceOK, RemoveVoiceUser

LEMMA InitType == Init => Types
  <1> SUFFICES ASSUME Init PROVE Types
    OBVIOUS
  <1>1. HandlersOK /\ CallOK /\ PresenceOK /\ VoiceOK /\ ConnOK
    BY DEF Init, HandlersOK, CallOK, OneTimer, PresenceOK, VoiceOK, ConnOK
  <1>2. PagesOK
    BY DEF Init, PagesOK, UsersOf, Texts
  <1>3. <<>> \in Seq(Save) /\ {} \in SUBSET Save /\ {} \in Texts
    BY DEF Texts
  <1>4. SavingOK
    BY <1>3 DEF Init, SavingOK, NoSave
  <1>5. SentOK
    BY MessagesAssumption DEF Init, SentOK
  <1> QED
    BY <1>1, <1>2, <1>4, <1>5, TypeParts

----------------------------------------------------------------------------
LEMMA PageType ==
  ASSUME Types, NEW s \in Sockets, Step(s)
  PROVE  Types'
  <1>1. CASE Connect(s)
    <2>1. ConnOK'
      BY <1>1, TypeParts DEF Connect, ConnOK
    <2> QED
      BY <1>1, <2>1, Frame, TypePartsNext DEF Connect
  <1>2. CASE OpenRoom(s)
    <2>1. PagesOK'
      BY <1>2, TypeParts DEF OpenRoom, PagesOK, SavingOK
    <2> QED
      BY <1>2, <2>1, Frame, Asking, Sending, TypePartsNext DEF OpenRoom
  <1>3. CASE LeaveRoom(s)
    <2>1. PresenceOK' /\ CallOK' /\ view' \in [Sockets -> SUBSET Users]
      BY <1>3, TypeParts, RemovingType, Frame DEF LeaveRoom, PagesOK
    <2>2. PagesOK'
      BY <1>3, <2>1, TypeParts DEF LeaveRoom, PagesOK
    <2> QED
      BY <1>3, <2>1, <2>2, Frame, Sending, RemovingVoiceType, TypePartsNext DEF LeaveRoom
  <1>4. CASE Rejoin(s)
    <2>1. PresenceOK' /\ CallOK' /\ VoiceOK' /\ view' \in [Sockets -> SUBSET Users]
      BY <1>4, TypeParts, RemovingType, RemovingVoiceType, Frame DEF Rejoin, PagesOK
    <2>2. PagesOK'
      BY <1>4, <2>1, TypeParts DEF Rejoin, PagesOK
    <2> QED
      BY <1>4, <2>1, <2>2, Frame, Asking, Sending, TypePartsNext DEF Rejoin
  <1>5. CASE StartAudioCall(s)
    <2>1. PagesOK'
      BY <1>5, TypeParts DEF StartAudioCall, PagesOK
    <2> QED
      BY <1>5, <2>1, Frame, Asking, Sending, TypePartsNext DEF StartAudioCall
  <1>6. CASE EndAudioCall(s)
    <2>1. PagesOK'
      BY <1>6, TypeParts DEF EndAudioCall, PagesOK
    <2> QED
      BY <1>6, <2>1, Frame, RemovingVoiceType, Sending, TypePartsNext DEF EndAudioCall
  <1>7. CASE \E what \in {"request", "answer"} : Signal(s, what)
    <2>1. PICK what \in {"request", "answer"} : Signal(s, what)
      BY <1>7
    <2> QED
      BY <2>1, Frame, Asking, Sending, TypePartsNext DEF Signal
  <1>8. CASE ChangeCode(s)
    <2>1. sent' \in Edits /\ SentOK'
      BY <1>8, Sending DEF ChangeCode
    <2>2. PagesOK'
      BY <1>8, <2>1, TypeParts DEF ChangeCode, PagesOK, Texts
    <2>3. [edit |-> sent', code |-> text'[s]] \in Save
      BY <2>1, <2>2 DEF PagesOK, Save
    <2>4. HandlersOK'
      BY <1>8, <2>3, TypeParts DEF ChangeCode, HandlersOK, Handling, Handler, CarriesCode
    <2> QED
      BY <1>8, <2>1, <2>2, <2>4, Frame, TypePartsNext DEF ChangeCode
  <1>9. CASE Disconnect(s)
    <2>1. PresenceOK' /\ CallOK' /\ view' \in [Sockets -> SUBSET Users]
      <3>1. CASE s \in collabRooms
        BY <1>9, <3>1, RemovingType DEF Disconnect
      <3>2. CASE s \notin collabRooms
        BY <1>9, <3>2, TypeParts, Frame DEF Disconnect, PagesOK, PresenceOK
      <3> QED
        BY <3>1, <3>2
    <2>2. PagesOK'
      BY <1>9, <2>1, TypeParts DEF Disconnect, PagesOK
    <2>3. ConnOK'
      BY <1>9, TypeParts DEF Disconnect, ConnOK
    <2>4. VoiceOK'
      BY <1>9, Frame, RemovingVoiceType DEF Disconnect
    <2> QED
      BY <1>9, <2>1, <2>2, <2>3, <2>4, Frame, TypePartsNext DEF Disconnect
  <1>10. CASE RunCode(s)
    <2>1. sent' \in Edits /\ SentOK'
      BY <1>10, Sending DEF RunCode
    <2>2. [edit |-> sent', code |-> text[s]] \in Save
      BY <2>1, TypeParts DEF PagesOK, Save
    <2>3. HandlersOK'
      BY <1>10, <2>2, TypeParts DEF RunCode, HandlersOK, Handling, Handler, CarriesCode
    <2> QED
      BY <1>10, <2>1, <2>3, Frame, TypePartsNext DEF RunCode
  <1> QED
    BY <1>1, <1>2, <1>3, <1>4, <1>5, <1>6, <1>7, <1>8, <1>9, <1>10 DEF Step

\* What is set of the timers, when one is added or taken off.
LEMMA DebouncedType ==
  ASSUME Types, NEW save \in Save
  PROVE  /\ Debounced(save) \in Seq(Save)
         /\ Debounced(save) # <<>>
         /\ Debounced(save)[Len(Debounced(save))] = save
  <1> DEFINE kept == IF LastIsKnown THEN SubSeq(codeTimers, 1, Len(codeTimers) - 1) ELSE codeTimers
  <1>1. codeTimers \in Seq(Save)
    BY TypeParts DEF SavingOK
  <1>2. kept \in Seq(Save)
    <2>1. CASE LastIsKnown
      <3>1. Len(codeTimers) \in Nat /\ Len(codeTimers) > 0
        BY <1>1, <2>1, EmptySeq, LenProperties DEF LastIsKnown
      <3>2. SubSeq(codeTimers, 1, Len(codeTimers) - 1) \in Seq(Save)
        BY <1>1, <3>1, SubSeqProperties
      <3> QED
        BY <2>1, <3>2
    <2> QED
      BY <1>1, <2>1
  <1>3. Debounced(save) = Append(kept, save)
    BY DEF Debounced
  <1> HIDE DEF kept
  <1> QED
    BY <1>2, <1>3, AppendProperties

LEMMA GoOnType ==
  ASSUME Types, NEW h \in waiting, GoOn(h)
  PROVE  Types'
  <1>1. h \in Handler /\ CarriesCode(h) /\ h.socket \in Sockets
    BY TypeParts DEF HandlersOK, Handler
  <1>2. CASE Refuse(h)
    BY <1>2, Frame, Going, TypePartsNext DEF Refuse
  <1>3. CASE Join(h)
    <2>1. PresenceOK'
      BY <1>1, <1>3, TypeParts DEF Join, PresenceOK, Mark
    <2>2. view' \in [Sockets -> SUBSET Users]
      BY <1>1, <1>3, TypeParts DEF Join, PagesOK, PresenceOK, Seen, UsersOf
    <2>3. PagesOK'
      BY <1>3, <2>2, TypeParts DEF Join, PagesOK
    <2> QED
      BY <1>3, <2>1, <2>3, Frame, Going, TypePartsNext DEF Join
  <1>4. CASE JoinVoice(h)
    <2>1. VoiceOK'
      BY <1>1, <1>4, TypeParts DEF JoinVoice, VoiceOK, PagesOK, Mark
    <2> QED
      BY <1>4, <2>1, Frame, Going, TypePartsNext DEF JoinVoice
  <1>5. CASE RequestCall(h)
    <2>1. user[h.socket] \in Users /\ user[h.socket] # None
      BY <1>1, TypeParts, SocketsAssumption DEF PagesOK
    <2>2. CallOK'
      <3>1. CASE Busy(user[h.socket])
        BY <1>5, <3>1, Frame DEF RequestCall
      <3>2. CASE ~Busy(user[h.socket])
        BY <1>5, <2>1, <3>2, TypeParts DEF RequestCall, CallOK, OneTimer, StopRinging
      <3> QED
        BY <3>1, <3>2
    <2> QED
      BY <1>5, <2>2, Frame, Going, TypePartsNext DEF RequestCall
  <1>6. CASE AnswerCall(h)
    BY <1>6, Clearing, Frame, Going, TypePartsNext DEF AnswerCall
  <1>7. CASE RelayCode(h)
    <2>1. h.save \in Save /\ h.save.edit \in Edits /\ h.save.code \in Texts
      BY <1>1, <1>7 DEF RelayCode, CarriesCode, Save
    <2>2. SavingOK'
      BY <1>7, <2>1, DebouncedType, TypeParts DEF RelayCode, SavingOK
    <2>3. PagesOK'
      BY <1>7, <2>1, TypeParts DEF RelayCode, PagesOK
    <2> QED
      BY <1>7, <2>2, <2>3, Frame, Going, TypePartsNext DEF RelayCode
  <1>8. CASE LoadProblem(h)
    <2>1. [code |-> h.save.code, loaded |-> code, message |-> h.save.edit] \in Run
      BY <1>1, <1>8, TypeParts DEF LoadProblem, CarriesCode, Save, Run, SavingOK
    <2>2. SavingOK'
      BY <1>8, <2>1, TypeParts DEF LoadProblem, SavingOK
    <2> QED
      BY <1>8, <2>2, Frame, Going, TypePartsNext DEF LoadProblem
  <1> QED
    BY <1>2, <1>3, <1>4, <1>5, <1>6, <1>7, <1>8 DEF GoOn

\* The steps of timers, saves and runs, which no page takes part in.
Background ==
    \/ RingTimeout \/ StartSave
    \/ \E save \in saves : FinishSave(save) \/ FailSave(save)
    \/ \E run \in runs : StoreRun(run) \/ DropRun(run)

LEMMA BackgroundKeeps == Background => UNCHANGED <<pages, conn, presence, voice, waiting, sent>>
  BY DEF Background, RingTimeout, StartSave, FinishSave, FailSave, Forget, StoreRun, DropRun

LEMMA TimerType ==
  ASSUME Types, Background
  PROVE  Types'
  <1>1. CASE RingTimeout
    BY <1>1, Clearing, Frame, TypePartsNext DEF RingTimeout
  <1>2. CASE StartSave
    <2>1. codeTimers \in Seq(Save) /\ codeTimers # <<>>
      BY <1>2, TypeParts DEF StartSave, SavingOK
    <2>2. Tail(codeTimers) \in Seq(Save) /\ Head(codeTimers) \in Save
      BY <2>1, HeadTailProperties
    <2>3. SavingOK'
      BY <1>2, <2>2, TypeParts DEF StartSave, SavingOK
    <2> QED
      BY <1>2, <2>3, Frame, TypePartsNext DEF StartSave, call
  <1>3. CASE \E save \in saves : FinishSave(save) \/ FailSave(save)
    <2>1. PICK save \in saves : FinishSave(save) \/ FailSave(save)
      BY <1>3
    <2>2. save \in Save
      BY TypeParts DEF SavingOK
    <2>3. SavingOK'
      BY <2>1, <2>2, TypeParts DEF FinishSave, FailSave, Forget, SavingOK, Save
    <2> QED
      BY <2>1, <2>3, Frame, TypePartsNext DEF FinishSave, FailSave, Forget
  <1>4. CASE \E run \in runs : StoreRun(run) \/ DropRun(run)
    <2>1. PICK run \in runs : StoreRun(run) \/ DropRun(run)
      BY <1>4
    <2>2. run \in Run
      BY TypeParts DEF SavingOK
    <2>3. SavingOK'
      BY <2>1, <2>2, TypeParts DEF StoreRun, DropRun, SavingOK, Run
    <2> QED
      BY <2>1, <2>3, Frame, TypePartsNext DEF StoreRun, DropRun
  <1> QED
    BY <1>1, <1>2, <1>3, <1>4 DEF Background

LEMMA NextType == Types /\ [Next]_vars => Types'
  <1> SUFFICES ASSUME Types, [Next]_vars PROVE Types'
    OBVIOUS
  <1>1. CASE UNCHANGED vars
    BY <1>1, Frame, TypePartsNext DEF vars
  <1>2. CASE Next
    BY <1>2, PageType, GoOnType, TimerType DEF Next, Background
  <1> QED
    BY <1>1, <1>2

LEMMA AlwaysTypes == Spec => []Types
  BY InitType, NextType, PTL DEF Spec

(* The maps, timers and pages of a room keep their types, for any number   *)
(* of sockets, users and messages: the ring timers never count below zero. *)
THEOREM TypeCorrect == Spec => []TypeOK
  <1>1. Types => TypeOK
    BY DEF Types
  <1> QED
    BY <1>1, AlwaysTypes, PTL

----------------------------------------------------------------------------
(* Nobody stays.  Whoever is present has the room in the data their        *)
(* disconnection looks at, and a voice entry names a socket of its user.   *)

Within == activeRooms \subseteq collabRooms \intersect channel

Known ==
    /\ \A h \in waiting : conn[h.socket] # "new"
    /\ \A s \in activeRooms : conn[s] # "new"

Talking == \A u \in Users : activeVoiceRooms[u] # None =>
               user[activeVoiceRooms[u]] = u /\ activeVoiceRooms[u] \in voiceRooms

Present == \A s \in activeRooms : (Online(s) /\ s \in page) \/ s \in late

Heard == \A u \in Users : activeVoiceRooms[u] # None =>
             \/ Online(activeVoiceRooms[u]) /\ activeVoiceRooms[u] \in audio
             \/ activeVoiceRooms[u] \in lateVoice

StayInv == Within /\ Known /\ Talking /\ Present /\ Heard

LEMMA StaySuffices == StayInv => NobodyStays
  BY DEF StayInv, Present, Heard, NobodyStays

LEMMA InitStay == Init => StayInv
  BY DEF Init, StayInv, Within, Known, Talking, Present, Heard, Online

\* When s is removed, its entry goes, and with it every entry that names s.
LEMMA VoiceRemoved ==
  ASSUME Types, Talking, NEW s \in Sockets, RemoveVoiceUser(s), UNCHANGED user
  PROVE  /\ Talking'
         /\ lateVoice' = lateVoice
         /\ \A u \in Users : activeVoiceRooms'[u] # None =>
                activeVoiceRooms'[u] = activeVoiceRooms[u] /\ activeVoiceRooms[u] # s
  <1>1. user \in [Sockets -> Users] /\ activeVoiceRooms \in [Users -> Sockets \union {None}]
    BY TypeParts DEF PagesOK, VoiceOK
  <1>2. \A u \in Users : activeVoiceRooms'[u] # None =>
                activeVoiceRooms'[u] = activeVoiceRooms[u] /\ activeVoiceRooms[u] # s
    BY <1>1 DEF RemoveVoiceUser, Talking
  <1>3. \A q \in voiceRooms : q # s => q \in voiceRooms'
    BY DEF RemoveVoiceUser
  <1>4. Talking'
    BY <1>2, <1>3 DEF Talking
  <1> QED
    BY <1>2, <1>4 DEF RemoveVoiceUser

\* Steps that leave the voice entries alone, and who is in the call or online as it was.
LEMMA VoiceFrame ==
  ASSUME Talking, Heard, UNCHANGED voice, UNCHANGED user, audio \subseteq audio', \A s \in Sockets : Online(s) => Online(s)',
         Types
  PROVE  Talking' /\ Heard'
  <1>1. \A u \in Users : activeVoiceRooms[u] # None => activeVoiceRooms[u] \in Sockets
    BY TypeParts DEF VoiceOK
  <1> QED
    BY <1>1 DEF Talking, Heard, voice

LEMMA HeardWithout ==
  ASSUME Types, Talking, Heard, NEW s \in Sockets, RemoveVoiceUser(s), UNCHANGED user,
         audio \ {s} \subseteq audio', \A q \in Sockets \ {s} : Online(q) => Online(q)'
  PROVE  Talking' /\ Heard'
  <1>1. \A u \in Users : activeVoiceRooms[u] # None => activeVoiceRooms[u] \in Sockets
    BY TypeParts DEF VoiceOK
  <1> QED
    BY <1>1, VoiceRemoved DEF Heard

LEMMA PresentFrame ==
  ASSUME Types, Within, Present, UNCHANGED presence, page \subseteq page', \A s \in Sockets : Online(s) => Online(s)'
  PROVE  Within' /\ Present'
  BY TypeParts DEF PresenceOK, Within, Present, presence

LEMMA PresentWithout ==
  ASSUME Types, Within, Present, NEW s \in Sockets, RemoveSocketFromRoom(s), page \ {s} \subseteq page',
         \A q \in Sockets \ {s} : Online(q) => Online(q)'
  PROVE  Within' /\ Present'
  BY TypeParts DEF PresenceOK, Within, Present, RemoveSocketFromRoom

LEMMA KnownFrame ==
  ASSUME Types, Known, activeRooms' \subseteq activeRooms, waiting' \subseteq waiting,
         \A s \in Sockets : conn[s] # "new" => conn'[s] # "new"
  PROVE  Known'
  BY TypeParts DEF HandlersOK, Handler, PresenceOK, Known

LEMMA KnownAsking ==
  ASSUME Types, Known, activeRooms' \subseteq activeRooms, UNCHANGED conn, NEW s \in Sockets, Send(s), NEW what, Ask(s, what)
  PROVE  Known'
  BY TypeParts DEF PresenceOK, Known, Send, Ask, Online, Handling

LEMMA PageStay ==
  ASSUME Types, StayInv, NEW s \in Sockets, Step(s)
  PROVE  StayInv'
  <1> USE DEF StayInv
  <1>0. conn \in [Sockets -> {"new", "on", "off"}]
    BY TypeParts DEF ConnOK
  <1>1. CASE Connect(s)
    <2>1. \A q \in Sockets : (Online(q) => Online(q)') /\ (conn[q] # "new" => conn'[q] # "new")
      BY <1>0, <1>1 DEF Connect, Online
    <2> QED
      BY <1>1, <2>1, VoiceFrame, PresentFrame, KnownFrame DEF Connect, pages, presence
  <1>2. CASE OpenRoom(s)
    <2>1. Known'
      BY <1>2, KnownAsking DEF OpenRoom, presence
    <2> QED
      BY <1>2, <2>1, VoiceFrame, PresentFrame DEF OpenRoom, Online
  <1>3. CASE LeaveRoom(s)
    <2>1. Within' /\ Present'
      <3>1. CASE RoomIsKnown
        BY <1>3, <3>1, PresentWithout DEF LeaveRoom, Online
      <3>2. CASE ~RoomIsKnown
        BY <1>3, <3>2 DEF LeaveRoom, RoomIsKnown, Within, Present, presence
      <3> QED
        BY <3>1, <3>2
    <2>2. Talking' /\ Heard'
      BY <1>3, HeardWithout DEF LeaveRoom, Online
    <2>3. Known'
      BY <1>3, KnownFrame DEF LeaveRoom, RemoveSocketFromRoom, presence
    <2> QED
      BY <2>1, <2>2, <2>3
  <1>4. CASE Rejoin(s)
    <2>1. Within' /\ Present'
      BY <1>4, PresentWithout, PresentFrame DEF Rejoin, Online
    <2>2. Talking' /\ Heard'
      BY <1>4, HeardWithout, VoiceFrame DEF Rejoin, Online
    <2>3. Known'
      BY <1>4, KnownAsking DEF Rejoin, RemoveSocketFromRoom, presence
    <2> QED
      BY <2>1, <2>2, <2>3
  <1>5. CASE StartAudioCall(s)
    <2>1. Known'
      BY <1>5, KnownAsking DEF StartAudioCall, presence
    <2> QED
      BY <1>5, <2>1, VoiceFrame, PresentFrame DEF StartAudioCall, Online
  <1>6. CASE EndAudioCall(s)
    <2>1. Known'
      BY <1>6, KnownFrame DEF EndAudioCall, presence
    <2>2. Talking' /\ Heard'
      BY <1>6, HeardWithout DEF EndAudioCall, Online
    <2> QED
      BY <1>6, <2>1, <2>2, PresentFrame DEF EndAudioCall, Online
  <1>7. CASE \E what \in {"request", "answer"} : Signal(s, what)
    <2>1. PICK what \in {"request", "answer"} : Signal(s, what)
      BY <1>7
    <2>2. Known'
      BY <2>1, KnownAsking DEF Signal, presence
    <2> QED
      BY <2>1, <2>2, VoiceFrame, PresentFrame DEF Signal, Online, pages
  <1>8. CASE ChangeCode(s)
    <2>1. Known'
      BY <1>8, TypeParts DEF ChangeCode, Known, Send, Online, Handling, presence
    <2> QED
      BY <1>8, <2>1, VoiceFrame, PresentFrame DEF ChangeCode, Online
  <1>10. CASE RunCode(s)
    <2>1. Known'
      BY <1>10, TypeParts DEF RunCode, Known, Send, Online, Handling, presence
    <2> QED
      BY <1>10, <2>1, VoiceFrame, PresentFrame DEF RunCode, Online, pages
  <1>9. CASE Disconnect(s)
    <2>1. /\ \A q \in Sockets \ {s} : Online(q) => Online(q)'
          /\ \A q \in Sockets : conn[q] # "new" => conn'[q] # "new"
      BY <1>0, <1>9 DEF Disconnect, Online
    <2>2. Within' /\ Present'
      <3>1. CASE s \in collabRooms
        BY <1>9, <2>1, <3>1, PresentWithout DEF Disconnect
      <3>2. CASE s \notin collabRooms
        <4>1. s \notin activeRooms /\ activeRooms \subseteq Sockets
          BY <3>2, TypeParts DEF Within, PresenceOK
        <4> QED
          BY <1>9, <2>1, <3>2, <4>1 DEF Disconnect, Within, Present
      <3> QED
        BY <3>1, <3>2
    <2>3. Talking' /\ Heard'
      <3>1. CASE TalksOrIsPresent(s)
        BY <1>9, <2>1, <3>1, HeardWithout DEF Disconnect
      <3>2. CASE ~TalksOrIsPresent(s)
        <4>1. \A u \in Users : activeVoiceRooms[u] # None => activeVoiceRooms[u] \in Sockets \ {s}
          BY <3>2, TypeParts DEF VoiceOK, Talking, TalksOrIsPresent
        <4> QED
          BY <1>9, <2>1, <3>2, <4>1 DEF Disconnect, Talking, Heard, voice
      <3> QED
        BY <3>1, <3>2
    <2>4. Known'
      BY <1>9, <2>1, KnownFrame DEF Disconnect, RemoveSocketFromRoom
    <2> QED
      BY <2>2, <2>3, <2>4
  <1> QED
    BY <1>1, <1>2, <1>3, <1>4, <1>5, <1>6, <1>7, <1>8, <1>9, <1>10 DEF Step

LEMMA GoOnStay ==
  ASSUME Types, StayInv, NEW h \in waiting, GoOn(h)
  PROVE  StayInv'
  <1> USE DEF StayInv
  <1>1. h.socket \in Sockets /\ waiting' \subseteq waiting
    BY TypeParts DEF HandlersOK, Handler, GoOn, Refuse, Join, JoinVoice, RequestCall, AnswerCall, RelayCode, LoadProblem
  <1>2. CASE Join(h)
    <2>1. Within' /\ Present'
      BY <1>1, <1>2, TypeParts DEF Join, Within, Present, Online, PresenceOK, Mark
    <2>2. Known'
      BY <1>1, <1>2 DEF Join, Known
    <2> QED
      BY <1>2, <2>1, <2>2, VoiceFrame DEF Join, Online
  <1>3. CASE JoinVoice(h)
    <2>1. user \in [Sockets -> Users] /\ activeVoiceRooms \in [Users -> Sockets \union {None}]
      BY TypeParts DEF PagesOK, VoiceOK
    <2>2. \A u \in Users : activeVoiceRooms'[u] = IF u = user[h.socket] THEN h.socket ELSE activeVoiceRooms[u]
      BY <1>1, <1>3, <2>1 DEF JoinVoice
    <2>3. Talking'
      BY <1>1, <1>3, <2>1, <2>2 DEF JoinVoice, Talking, pages
    <2>4. Heard'
      BY <1>1, <1>3, <2>1, <2>2 DEF JoinVoice, Heard, pages, Online, Mark
    <2>5. Known'
      BY <1>1, <1>3, KnownFrame DEF JoinVoice, presence
    <2> QED
      BY <1>3, <2>3, <2>4, <2>5, PresentFrame DEF JoinVoice, Online, pages
  <1>4. CASE Refuse(h) \/ RequestCall(h) \/ AnswerCall(h) \/ RelayCode(h) \/ LoadProblem(h)
    <2>1. UNCHANGED <<user, page, audio, conn, presence, voice>>
      BY <1>4 DEF Refuse, RequestCall, AnswerCall, RelayCode, LoadProblem, pages
    <2>2. Known'
      BY <1>1, <2>1, KnownFrame DEF presence
    <2> QED
      BY <2>1, <2>2, VoiceFrame, PresentFrame DEF Online
  <1> QED
    BY <1>2, <1>3, <1>4 DEF GoOn

LEMMA TimerStay ==
  ASSUME Types, StayInv, Background \/ UNCHANGED vars
  PROVE  StayInv'
  <1>1. UNCHANGED <<user, page, audio, conn, presence, voice, waiting>>
    BY BackgroundKeeps DEF vars, pages
  <1>2. Known'
    BY <1>1, KnownFrame DEF presence, StayInv
  <1> QED
    BY <1>1, <1>2, VoiceFrame, PresentFrame DEF Online, StayInv

LEMMA AlwaysStay == Spec => []StayInv
  <1>1. Types /\ StayInv /\ [Next]_vars => StayInv'
    BY PageStay, GoOnStay, TimerStay DEF Next, Background
  <1> QED
    BY <1>1, InitStay, AlwaysTypes, PTL DEF Spec

(* Whoever is present in the room or its audio call is there, or was let   *)
(* in after they had left (join_collab_room and voice_join_room after      *)
(* their access check, removeSocketFromRoom, removeVoiceUser, disconnect). *)
THEOREM NobodyIsLeftBehind == Spec => []NobodyStays
  BY AlwaysStay, StaySuffices, PTL

----------------------------------------------------------------------------
(* The ringing call.                                                       *)

RoomRings == activeRooms = {} => activeCall = None \/ stray

LEMMA RemovedRings ==
  ASSUME RoomRings, NEW s, RemoveSocketFromRoom(s)
  PROVE  RoomRings'
  BY DEF RoomRings, RemoveSocketFromRoom, Empties, ClearCallState

LEMMA NextRings == Types /\ RoomRings /\ [Next]_vars => RoomRings'
  <1> SUFFICES ASSUME Types, RoomRings, [Next]_vars PROVE RoomRings'
    OBVIOUS
  <1>0. UNCHANGED presence /\ (UNCHANGED call \/ ClearCallState) => RoomRings'
    BY DEF RoomRings, presence, call, ClearCallState
  <1>1. CASE \E s \in Sockets : Step(s)
    <2>1. PICK s \in Sockets : Step(s)
      BY <1>1
    <2>2. CASE LeaveRoom(s) \/ Rejoin(s) \/ Disconnect(s)
      <3>1. CASE RemoveSocketFromRoom(s)
        BY <3>1, RemovedRings
      <3>2. CASE ~RemoveSocketFromRoom(s)
        BY <2>2, <3>2 DEF LeaveRoom, Rejoin, Disconnect, RoomRings, presence, call
      <3> QED
        BY <3>1, <3>2
    <2>3. CASE ~(LeaveRoom(s) \/ Rejoin(s) \/ Disconnect(s))
      BY <1>0, <2>1, <2>3 DEF Step, Connect, OpenRoom, StartAudioCall, EndAudioCall, Signal, ChangeCode, RunCode
    <2> QED
      BY <2>2, <2>3
  <1>2. CASE \E h \in waiting : GoOn(h)
    <2>1. PICK h \in waiting : GoOn(h)
      BY <1>2
    <2>2. CASE Join(h)
      BY <2>2 DEF Join, RoomRings
    <2>3. CASE RequestCall(h)
      BY <2>3 DEF RequestCall, RoomRings, presence, call
    <2>4. CASE Refuse(h) \/ JoinVoice(h) \/ AnswerCall(h) \/ RelayCode(h) \/ LoadProblem(h)
      BY <1>0, <2>4 DEF Refuse, JoinVoice, AnswerCall, RelayCode, LoadProblem
    <2> QED
      BY <2>1, <2>2, <2>3, <2>4 DEF GoOn
  <1>3. CASE Background \/ UNCHANGED vars
    <2>1. UNCHANGED presence
      BY <1>3, BackgroundKeeps DEF vars
    <2>2. UNCHANGED call \/ ClearCallState
      BY <1>3 DEF Background, RingTimeout, StartSave, FinishSave, FailSave, Forget, StoreRun, DropRun, vars
    <2> QED
      BY <1>0, <2>1, <2>2
  <1> QED
    BY <1>1, <1>2, <1>3 DEF Next, Background

(* One timer rings for one call, and a call that was requested in the room *)
(* ends with the last to leave it (call_request, clearCallState,           *)
(* removeSocketFromRoom).                                                  *)
THEOREM OneTimerPerCall == Spec => []CallRings
  <1>1. Init => RoomRings
    BY DEF Init, RoomRings
  <1>2. Types /\ RoomRings => CallRings
    BY DEF Types, OneTimer, RoomRings, CallRings
  <1> QED
    BY <1>1, <1>2, NextRings, AlwaysTypes, PTL DEF Spec

----------------------------------------------------------------------------
(* The saves.  The last timer, or without one the save under way, is that  *)
(* of the last edit; with neither, its text or what a run has stored since *)
(* is in the database, or its write has failed.                            *)

Stored == scheduled.edit \in failed \/ code \in {scheduled.code} \union ran

SaveInv ==
    ~raced =>
        /\ codeTimers # <<>> => codeTimers[Len(codeTimers)] = scheduled
        /\ codeTimers = <<>> => IF saves = {} THEN Stored ELSE \A save \in saves : save = scheduled
        /\ \A save1, save2 \in saves : save1 = save2

LEMMA InitSave == Init => SaveInv
  BY DEF Init, SaveInv, Stored, NoSave

LEMMA SaveFrame ==
  ASSUME SaveInv, UNCHANGED <<codeTimers, saves, code, scheduled, raced, failed, ran>>
  PROVE  SaveInv'
  BY DEF SaveInv, Stored

LEMMA RelaySave ==
  ASSUME Types, SaveInv, NEW h \in waiting, RelayCode(h)
  PROVE  SaveInv'
  <1>1. h.save \in Save
    BY TypeParts DEF HandlersOK, RelayCode, CarriesCode
  <1>2. codeTimers' # <<>> /\ codeTimers'[Len(codeTimers')] = h.save
    BY <1>1, DebouncedType DEF RelayCode
  <1> QED
    BY <1>2 DEF RelayCode, SaveInv

LEMMA StartSaveKeeps ==
  ASSUME Types, SaveInv, StartSave
  PROVE  SaveInv'
  <1> SUFFICES ASSUME ~raced' PROVE SaveInv'
    BY DEF SaveInv
  <1>1. ~raced /\ saves = {} /\ saves' = {Head(codeTimers)} /\ codeTimers # <<>>
    BY DEF StartSave
  <1>2. codeTimers \in Seq(Save) /\ Len(codeTimers) \in Nat
    BY TypeParts DEF SavingOK
  <1>3. codeTimers' = Tail(codeTimers) /\ scheduled' = scheduled
    BY DEF StartSave
  <1>4. CASE Len(codeTimers) = 1
    <2>1. codeTimers' = <<>> /\ Head(codeTimers) = codeTimers[Len(codeTimers)]
      BY <1>1, <1>2, <1>3, <1>4, HeadTailProperties
    <2> QED
      BY <1>1, <1>3, <2>1 DEF SaveInv
  <1>5. CASE Len(codeTimers) # 1
    <2>0. Len(codeTimers) # 0
      BY <1>1, <1>2, EmptySeq, LenProperties
    <2>1. Len(codeTimers') = Len(codeTimers) - 1 /\ Len(codeTimers') > 0
      <3>1. Len(Tail(codeTimers)) = Len(codeTimers) - 1
        BY <1>1, <1>2, HeadTailProperties
      <3> QED
        BY <1>2, <1>3, <1>5, <2>0, <3>1
    <2>2. codeTimers'[Len(codeTimers')] = codeTimers[Len(codeTimers)]
      BY <1>1, <1>2, <1>3, <2>1, HeadTailProperties
    <2>3. codeTimers' # <<>>
      BY <2>1
    <2> QED
      BY <1>1, <1>3, <2>2, <2>3 DEF SaveInv
  <1> QED
    BY <1>4, <1>5

LEMMA NextSave == Types /\ SaveInv /\ [Next]_vars => SaveInv'
  <1> SUFFICES ASSUME Types, SaveInv, [Next]_vars PROVE SaveInv'
    OBVIOUS
  <1>1. CASE \E s \in Sockets : Step(s)
    BY <1>1, SaveFrame DEF Step, Connect, OpenRoom, LeaveRoom, Rejoin, StartAudioCall, EndAudioCall, Signal, ChangeCode, RunCode, Disconnect, saving
  <1>2. CASE \E h \in waiting : GoOn(h)
    BY <1>2, RelaySave, SaveFrame DEF GoOn, Refuse, Join, JoinVoice, RequestCall, AnswerCall, LoadProblem, saving
  <1>3. CASE RingTimeout \/ UNCHANGED vars
    BY <1>3, SaveFrame DEF RingTimeout, vars, saving
  <1>4. CASE StartSave
    BY <1>4, StartSaveKeeps
  <1>5. CASE \E save \in saves : FinishSave(save) \/ FailSave(save)
    BY <1>5 DEF FinishSave, FailSave, Forget, SaveInv, Stored
  <1>6. CASE \E run \in runs : StoreRun(run)
    BY <1>6 DEF StoreRun, SaveInv, Stored
  <1>7. CASE \E run \in runs : DropRun(run)
    BY <1>7, SaveFrame DEF DropRun
  <1> QED
    BY <1>1, <1>2, <1>3, <1>4, <1>5, <1>6, <1>7 DEF Next

(* The text that was scheduled last is the one that is stored, or a run    *)
(* has stored its own since, whatever earlier saves ran into, unless its   *)
(* own write failed or two saves were under way together (scheduleCodeSave,*)
(* runProblem).                                                            *)
THEOREM LastSaveWins == Spec => []LastCodeIsSaved
  <1>1. SaveInv => LastCodeIsSaved
    BY DEF SaveInv, Stored, LastCodeIsSaved, CodeIsQuiet
  <1> QED
    BY <1>1, InitSave, NextSave, AlwaysTypes, PTL DEF Spec

----------------------------------------------------------------------------
(* The pages.  What a page shows comes from a socket that has connected,   *)
(* so a page cannot show a user before their socket is there.              *)

Shown == \A q \in Sockets : \A u \in view[q] : \E s \in Sockets : user[s] = u /\ conn[s] # "new"

PagesInv == Shown /\ PagesAgree

\* The page of q shows the user of s exactly when s is present.
Shows(q, s) == user[s] \in view[q] <=> s \in activeRooms

LetIn(q) == q \in activeRooms /\ q \in page /\ q \notin late

LEMMA AgreeIs ==
  PagesAgree <=> \A q, s : LetIn(q) /\ s \in Sockets /\ conn[s] # "new" /\ Alone(s) => Shows(q, s)
  BY DEF PagesAgree, LetIn, Shows

\* A connected socket whose user has no other one is told from all others by the user.
LEMMA AloneIs ==
  ASSUME NEW s \in Sockets, NEW t \in Sockets, Alone(s), conn[t] # "new", user[s] = user[t]
  PROVE  s = t
  BY DEF Alone

LEMMA InitPages == Init => PagesInv
  <1> SUFFICES ASSUME Init PROVE PagesInv
    OBVIOUS
  <1>1. page \subseteq Sockets /\ activeRooms = page /\ \A s \in Sockets : conn[s] # "new" <=> s \in page
    BY DEF Init
  <1>2. \A q \in Sockets : view[q] = IF q \in page THEN {user[s] : s \in page} ELSE {}
    BY DEF Init, UsersOf
  <1>3. Shown
    <2> SUFFICES ASSUME NEW q \in Sockets, NEW u \in view[q] PROVE \E s \in Sockets : user[s] = u /\ conn[s] # "new"
      BY DEF Shown
    <2>1. u \in {user[s] : s \in page}
      BY <1>2
    <2>2. PICK s \in page : u = user[s]
      BY <2>1
    <2> QED
      BY <1>1, <2>2
  <1>4. ASSUME NEW q, NEW s, LetIn(q), s \in Sockets, conn[s] # "new" PROVE Shows(q, s)
    BY <1>1, <1>2, <1>4 DEF LetIn, Shows
  <1> QED
    BY <1>3, <1>4, AgreeIs DEF PagesInv

\* Nobody new is let in, nobody connects or disappears and no page changes what it shows.
LEMMA PagesFrame ==
  ASSUME Types, PagesInv, UNCHANGED <<user, view, activeRooms>>,
         \A q \in Sockets : LetIn(q)' => LetIn(q),
         \A s \in Sockets : conn'[s] # "new" <=> conn[s] # "new"
  PROVE  PagesInv'
  <1>1. activeRooms \subseteq Sockets
    BY TypeParts DEF PresenceOK
  <1>2. Shown'
    BY DEF PagesInv, Shown
  <1>3. PagesAgree'
    BY <1>1 DEF PagesInv, PagesAgree, LetIn, Alone
  <1> QED
    BY <1>2, <1>3 DEF PagesInv

\* When s is removed, the pages that were let in forget its user, and no other.
LEMMA PagesWithout ==
  ASSUME Types, StayInv, PagesInv, NEW s \in Sockets, conn[s] # "new", RemoveSocketFromRoom(s), UNCHANGED user, page' \subseteq page,
         \A t \in Sockets : conn'[t] # "new" <=> conn[t] # "new"
  PROVE  PagesInv'
  <1>1. activeRooms \subseteq Sockets /\ activeRooms \subseteq channel
    BY TypeParts DEF PresenceOK, StayInv, Within
  <1>2. /\ activeRooms' = activeRooms \ {s} /\ late' = late \ {s}
        /\ \A q \in Sockets : view'[q] = IF q \in channel \ {s} THEN view[q] \ {user[s]} ELSE view[q]
    BY DEF RemoveSocketFromRoom, ForgetUser
  <1>3. Shown'
    BY <1>2 DEF PagesInv, Shown
  <1>4. ASSUME NEW q \in Sockets, NEW t \in Sockets, LetIn(q)', conn'[t] # "new", Alone(t)'
        PROVE  user'[t] \in view'[q] <=> t \in activeRooms'
    <2>1. LetIn(q) /\ q # s /\ view'[q] = view[q] \ {user[s]}
      BY <1>1, <1>2, <1>4 DEF LetIn
    <2>2. conn[t] # "new" /\ Alone(t)
      BY <1>4 DEF Alone
    <2>3. user[t] \in view[q] <=> t \in activeRooms
      BY <2>1, <2>2, AgreeIs DEF PagesInv, Shows
    <2>4. user[t] = user[s] => t = s
      BY <2>2, AloneIs
    <2> QED
      BY <1>2, <2>1, <2>3, <2>4
  <1>5. PagesAgree'
    BY <1>1, <1>2, <1>4 DEF PagesAgree, LetIn
  <1> QED
    BY <1>3, <1>5 DEF PagesInv

LEMMA ConnectPages ==
  ASSUME Types, StayInv, PagesInv, NEW s \in Sockets, Connect(s)
  PROVE  PagesInv'
  <1>1. UNCHANGED <<user, view, activeRooms, page, late>> /\ activeRooms \subseteq Sockets
    BY TypeParts DEF Connect, pages, presence, PresenceOK
  <1>2. conn[s] = "new" /\ \A t \in Sockets : conn'[t] = IF t = s THEN "on" ELSE conn[t]
    BY TypeParts DEF Connect, ConnOK
  <1>3. Shown'
    BY <1>1, <1>2 DEF PagesInv, Shown
  <1>4. ASSUME NEW q \in Sockets, NEW t \in Sockets, LetIn(q), conn'[t] # "new", Alone(t)'
        PROVE  user[t] \in view[q] <=> t \in activeRooms
    <2>1. Alone(t)
      BY <1>1, <1>2, <1>4 DEF Alone
    <2>2. CASE t = s
      <3>1. s \notin activeRooms
        BY <1>2 DEF StayInv, Known
      <3>2. user[s] \notin view[q]
        BY <1>2, <2>1, <2>2 DEF PagesInv, Shown, Alone
      <3> QED
        BY <2>2, <3>1, <3>2
    <2>3. CASE t # s
      BY <1>2, <1>4, <2>1, <2>3, AgreeIs DEF PagesInv, Shows
    <2> QED
      BY <2>2, <2>3
  <1>5. PagesAgree'
    BY <1>1, <1>4 DEF PagesAgree, LetIn
  <1> QED
    BY <1>3, <1>5 DEF PagesInv

LEMMA OpenPages ==
  ASSUME Types, StayInv, PagesInv, NEW s \in Sockets, OpenRoom(s)
  PROVE  PagesInv'
  <1>1. /\ UNCHANGED <<user, activeRooms, late, conn>> /\ activeRooms \subseteq Sockets
        /\ s \notin page /\ page' = page \union {s}
        /\ \A q \in Sockets : view'[q] = IF q = s THEN {} ELSE view[q]
    BY TypeParts DEF OpenRoom, presence, PresenceOK, PagesOK
  <1>2. ~LetIn(s)'
    BY <1>1 DEF LetIn, StayInv, Present
  <1>3. Shown'
    BY <1>1 DEF PagesInv, Shown
  <1>4. PagesAgree'
    <2>1. \A t \in Sockets : Alone(t)' <=> Alone(t)
      BY <1>1 DEF Alone
    <2> QED
      BY <1>1, <1>2, <2>1 DEF PagesInv, PagesAgree, LetIn
  <1> QED
    BY <1>3, <1>4 DEF PagesInv

LEMMA JoinPages ==
  ASSUME Types, StayInv, PagesInv, NEW h \in waiting, Join(h)
  PROVE  PagesInv'
  <1> DEFINE s == h.socket
  <1>1. s \in Sockets /\ conn[s] # "new"
    BY TypeParts DEF HandlersOK, Handler, StayInv, Known
  <1>2. activeRooms \subseteq Sockets /\ activeRooms \subseteq channel /\ \A t \in activeRooms : conn[t] # "new"
    BY TypeParts DEF PresenceOK, StayInv, Within, Known
  <1>3. /\ UNCHANGED <<user, page, conn>> /\ activeRooms' = activeRooms \union {s} /\ late \ {s} \subseteq late'
        /\ \A q \in Sockets : view'[q] = Seen(s, q)
    BY DEF Join, Mark
  <1> HIDE DEF s
  <1>4. \A q \in Sockets : view'[q] = IF q = s THEN {user[t] : t \in activeRooms \union {s}}
                                      ELSE IF q \in channel THEN view[q] \union {user[s]} ELSE view[q]
    BY <1>3 DEF Seen, UsersOf
  <1>5. Shown'
    <2> SUFFICES ASSUME NEW q \in Sockets, NEW u \in view'[q] PROVE \E t \in Sockets : user[t] = u /\ conn[t] # "new"
      BY <1>3 DEF Shown
    <2>1. CASE u = user[s]
      BY <1>1, <2>1
    <2>2. CASE q = s
      <3>1. u \in {user[t] : t \in activeRooms \union {s}}
        BY <1>4, <2>2
      <3>2. PICK t \in activeRooms \union {s} : u = user[t]
        BY <3>1
      <3> QED
        BY <1>1, <1>2, <3>2
    <2>3. CASE q # s /\ u # user[s]
      <3>1. u \in view[q]
        <4>1. view'[q] = view[q] \union {user[s]} \/ view'[q] = view[q]
          BY <1>4, <2>3
        <4> QED
          BY <2>3, <4>1
      <3> QED
        BY <3>1 DEF PagesInv, Shown
    <2> QED
      BY <2>1, <2>2, <2>3
  <1>6. ASSUME NEW q \in Sockets, NEW t \in Sockets, LetIn(q)', conn[t] # "new", Alone(t)
        PROVE  user[t] \in view'[q] <=> t \in activeRooms'
    <2>1. \A a \in activeRooms \union {s} : user[t] = user[a] => t = a
      BY <1>1, <1>2, <1>6, AloneIs
    <2>2. CASE q = s
      <3>1. view'[q] = {user[a] : a \in activeRooms \union {s}}
        BY <1>4, <2>2
      <3>2. user[t] \in view'[q] <=> \E a \in activeRooms \union {s} : user[t] = user[a]
        BY <3>1
      <3> QED
        BY <1>3, <2>1, <3>2
    <2>3. CASE q # s
      <3>1. LetIn(q) /\ q \in channel
        BY <1>2, <1>3, <1>6, <2>3 DEF LetIn
      <3>2. user[t] \in view[q] <=> t \in activeRooms
        BY <1>6, <3>1, AgreeIs DEF PagesInv, Shows
      <3> QED
        BY <1>3, <1>4, <2>1, <2>3, <3>1, <3>2
    <2> QED
      BY <2>2, <2>3
  <1>7. PagesAgree'
    <2>1. \A t \in Sockets : Alone(t)' <=> Alone(t)
      BY <1>3 DEF Alone
    <2> QED
      BY <1>1, <1>2, <1>3, <1>6, <2>1 DEF PagesAgree, LetIn
  <1> QED
    BY <1>5, <1>7 DEF PagesInv

LEMMA NextPages == Types /\ StayInv /\ PagesInv /\ [Next]_vars => PagesInv'
  <1> SUFFICES ASSUME Types, StayInv, PagesInv, [Next]_vars PROVE PagesInv'
    OBVIOUS
  <1>0. conn \in [Sockets -> {"new", "on", "off"}]
    BY TypeParts DEF ConnOK
  <1>1. ASSUME NEW s \in Sockets, Step(s) PROVE PagesInv'
    <2>1. CASE Connect(s)
      BY <2>1, ConnectPages
    <2>2. CASE OpenRoom(s)
      BY <2>2, OpenPages
    <2>3. CASE LeaveRoom(s) \/ Rejoin(s)
      <3>1. conn[s] # "new" /\ UNCHANGED <<user, conn>> /\ page' \subseteq page
        BY <2>3 DEF LeaveRoom, Rejoin, Send, Online
      <3>2. CASE RemoveSocketFromRoom(s)
        BY <3>1, <3>2, PagesWithout
      <3>3. CASE ~RemoveSocketFromRoom(s)
        <4>1. UNCHANGED <<view, activeRooms, late>>
          BY <2>3, <3>3 DEF LeaveRoom, Rejoin, presence
        <4> QED
          BY <3>1, <4>1, PagesFrame DEF LetIn
      <3> QED
        BY <3>2, <3>3
    <2>4. CASE Disconnect(s)
      <3>1. /\ conn[s] # "new" /\ UNCHANGED user /\ page' \subseteq page
            /\ \A t \in Sockets : conn'[t] # "new" <=> conn[t] # "new"
        BY <1>0, <2>4 DEF Disconnect, Online
      <3>2. CASE s \in collabRooms
        BY <2>4, <3>1, <3>2, PagesWithout DEF Disconnect
      <3>3. CASE s \notin collabRooms
        BY <2>4, <3>1, <3>3, PagesFrame DEF Disconnect, LetIn
      <3> QED
        BY <3>2, <3>3
    <2>5. CASE \/ StartAudioCall(s) \/ EndAudioCall(s) \/ ChangeCode(s) \/ RunCode(s)
               \/ \E what \in {"request", "answer"} : Signal(s, what)
      <3>1. UNCHANGED <<user, page, view, conn, presence>>
        BY <2>5 DEF StartAudioCall, EndAudioCall, ChangeCode, RunCode, Signal, pages
      <3> QED
        BY <3>1, PagesFrame DEF LetIn, presence
    <2> QED
      BY <1>1, <2>1, <2>2, <2>3, <2>4, <2>5 DEF Step
  <1>2. ASSUME NEW h \in waiting, GoOn(h) PROVE PagesInv'
    <2>1. CASE Join(h)
      BY <2>1, JoinPages
    <2>2. CASE ~Join(h)
      <3>1. UNCHANGED <<user, page, view, conn, presence>>
        BY <1>2, <2>2 DEF GoOn, Refuse, JoinVoice, RequestCall, AnswerCall, RelayCode, LoadProblem, pages
      <3> QED
        BY <3>1, PagesFrame DEF LetIn, presence
    <2> QED
      BY <2>1, <2>2
  <1>3. CASE Background \/ UNCHANGED vars
    <2>1. UNCHANGED <<user, page, view, conn, presence>>
      BY <1>3, BackgroundKeeps DEF vars, pages
    <2> QED
      BY <2>1, PagesFrame DEF LetIn, presence
  <1> QED
    BY <1>1, <1>2, <1>3 DEF Next, Background

(* Every page that was let in shows each user with a single connection as  *)
(* the server sees them (presence_state, presence; useCollabRoom).         *)
THEOREM PagesAgreeWithServer == Spec => []PagesAgree
  <1>1. PagesInv => PagesAgree
    BY DEF PagesInv
  <1> QED
    BY <1>1, InitPages, NextPages, AlwaysTypes, AlwaysStay, PTL DEF Spec
=============================================================================
