----------------------------- MODULE EndsProofs -----------------------------
(***************************************************************************)
(* Proofs about the programs around the video pipeline: the connections of *)
(* the transmitter and of the receiver, the playout, the start screen, the *)
(* phone's ordering, the console of a board, and the front of the receiver *)
(* by the theorems of PredemodProofs; for every size of the buffers and    *)
(* queues, any boards, roles, frames, orders and captures.                 *)
(***************************************************************************)
EXTENDS Ends, SequenceTheorems, FiniteSetTheorems, WellFoundedInduction, TLAPS

F == INSTANCE PredemodProofs WITH done <- worked, next <- nextIdx

-----------------------------------------------------------------------------
(* The connection of the transmitter.                                      *)

\* Where the thread of the connection can be, and what its locals can hold.
TxTypeOK ==
  /\ net \in {"top", "dial", "stash", "arm", "read", "drop", "dropctl"}
  /\ writer \in BOOLEAN /\ ctl \in BOOLEAN /\ sender \in {"idle", "writing"}
  /\ off \in BOOLEAN /\ shutting \in BOOLEAN /\ missed \in BOOLEAN
  /\ link \in {"none", "up", "half", "closed"}

\* Until the writer's handle is stored, and after it is dropped, nobody writes; the host's is not
\* there before it is stored.
TxHandlesInOrder ==
  /\ net \in {"stash", "arm", "dropctl"} => ~writer /\ sender = "idle"
  /\ net = "stash" => ~ctl

\* A connection that is up has the handle by which the host ends it.
TxHostCanEnd == net \in {"arm", "read"} /\ link = "up" => ctl

\* PortKeptOnlyIfMissed, and what it comes from while the thread dials.
TxOffIsKnown ==
  off /\ (net \in {"dial", "stash"} \/ (net \in {"arm", "read"} /\ link = "up")) =>
    missed \/ shutting

TxInv == TxTypeOK /\ Tx!NoOldHandle /\ TxHandlesInOrder /\ TxHostCanEnd /\ TxOffIsKnown

LEMMA TxInitInv == Tx!Init => TxInv
BY DEF Tx!Init, TxInv, TxTypeOK, Tx!NoOldHandle, TxHandlesInOrder, TxHostCanEnd, TxOffIsKnown

-----------------------------------------------------------------------------
(* The thread of the connection.                                           *)

\* Steps that leave the handles and the connection alone.
LEMMA TxIdle ==
  ASSUME TxInv, Tx!IdleUdp \/ Tx!IdleOff \/ Tx!DialFails \/ Tx!ReadFails
  PROVE  TxInv'
<1>1. CASE Tx!IdleUdp
  BY <1>1 DEF TxInv, Tx!IdleUdp, Tx!host, Tx!board,
              TxTypeOK, Tx!NoOldHandle, TxHandlesInOrder, TxHostCanEnd, TxOffIsKnown
<1>2. CASE Tx!IdleOff
  BY <1>2 DEF TxInv, Tx!IdleOff, Tx!Top, Tx!host, Tx!board,
              TxTypeOK, Tx!NoOldHandle, TxHandlesInOrder, TxHostCanEnd, TxOffIsKnown
<1>3. CASE Tx!DialFails
  BY <1>3 DEF TxInv, Tx!DialFails, Tx!host, Tx!board,
              TxTypeOK, Tx!NoOldHandle, TxHandlesInOrder, TxHostCanEnd, TxOffIsKnown
<1>4. CASE Tx!ReadFails
  BY <1>4 DEF TxInv, Tx!ReadFails, Tx!Silent, Tx!host, Tx!board,
              TxTypeOK, Tx!NoOldHandle, TxHandlesInOrder, TxHostCanEnd, TxOffIsKnown
<1>5. QED
  BY <1>1, <1>2, <1>3, <1>4

\* A transmitter that is off does not dial.
LEMMA TxDials ==
  ASSUME TxInv, Tx!Start \/ Tx!Dialled
  PROVE  TxInv'
<1>1. CASE Tx!Start
  BY <1>1 DEF TxInv, Tx!Start, Tx!Top, Tx!host, Tx!board,
              TxTypeOK, Tx!NoOldHandle, TxHandlesInOrder, TxHostCanEnd, TxOffIsKnown
<1>2. CASE Tx!Dialled
  BY <1>2 DEF TxInv, Tx!Dialled, Tx!host, Tx!board,
              TxTypeOK, Tx!NoOldHandle, TxHandlesInOrder, TxHostCanEnd, TxOffIsKnown
<1>3. QED
  BY <1>1, <1>2

LEMMA TxStores ==
  ASSUME TxInv, Tx!Stash \/ Tx!Arm
  PROVE  TxInv'
<1>1. CASE Tx!Stash
  BY <1>1 DEF TxInv, Tx!Stash, Tx!host, Tx!board,
              TxTypeOK, Tx!NoOldHandle, TxHandlesInOrder, TxHostCanEnd, TxOffIsKnown
<1>2. CASE Tx!Arm
  BY <1>2 DEF TxInv, Tx!Arm, Tx!host, Tx!board,
              TxTypeOK, Tx!NoOldHandle, TxHandlesInOrder, TxHostCanEnd, TxOffIsKnown
<1>3. QED
  BY <1>1, <1>2

\* The writer's handle goes when nobody writes, and nobody writes without it.
LEMMA TxDrops ==
  ASSUME TxInv, Tx!DropWriter \/ Tx!DropCtl
  PROVE  TxInv'
<1>1. CASE Tx!DropWriter
  BY <1>1 DEF TxInv, Tx!DropWriter, Tx!WriterLeft, Tx!host, Tx!board,
              TxTypeOK, Tx!NoOldHandle, TxHandlesInOrder, TxHostCanEnd, TxOffIsKnown
<1>2. CASE Tx!DropCtl
  BY <1>2 DEF TxInv, Tx!DropCtl, Tx!CtlLeft, Tx!host, Tx!board,
              TxTypeOK, Tx!NoOldHandle, TxHandlesInOrder, TxHostCanEnd, TxOffIsKnown
<1>3. QED
  BY <1>1, <1>2

LEMMA TxNetThreadStep ==
  ASSUME TxInv, Tx!NetThread
  PROVE  TxInv'
BY TxIdle, TxDials, TxStores, TxDrops DEF Tx!NetThread

-----------------------------------------------------------------------------
(* The sender, the host and the board.                                     *)

LEMMA TxSenderStep ==
  ASSUME TxInv, Tx!SenderThread \/ Tx!SendUdp
  PROVE  TxInv'
<1>1. CASE Tx!Write \/ Tx!WriteGoesOn \/ Tx!SendUdp
  BY <1>1 DEF TxInv, Tx!Write, Tx!WriteGoesOn, Tx!SendUdp, Tx!host, Tx!board,
              TxTypeOK, Tx!NoOldHandle, TxHandlesInOrder, TxHostCanEnd, TxOffIsKnown
<1>2. CASE Tx!WriteFails
  BY <1>2 DEF TxInv, Tx!WriteFails, Tx!GiveUp, Tx!host, Tx!board,
              TxTypeOK, Tx!NoOldHandle, TxHandlesInOrder, TxHostCanEnd, TxOffIsKnown
<1>3. QED
  BY <1>1, <1>2 DEF Tx!SenderThread

\* What the host wants is stored first; whoever is switched off is shut down later.
LEMMA TxHostAsks ==
  ASSUME TxInv, Tx!SwitchOff \/ Tx!SwitchOn \/ Tx!SwitchTransport \/ Tx!Connect
  PROVE  TxInv'
<1>1. CASE Tx!SwitchOff
  BY <1>1 DEF TxInv, Tx!SwitchOff, Tx!Ask, Tx!app, Tx!board,
              TxTypeOK, Tx!NoOldHandle, TxHandlesInOrder, TxHostCanEnd, TxOffIsKnown
<1>2. CASE Tx!SwitchOn
  BY <1>2 DEF TxInv, Tx!SwitchOn, Tx!Ask, Tx!app, Tx!board,
              TxTypeOK, Tx!NoOldHandle, TxHandlesInOrder, TxHostCanEnd, TxOffIsKnown
<1>3. CASE Tx!SwitchTransport
  BY <1>3 DEF TxInv, Tx!SwitchTransport, Tx!Ask, Tx!app, Tx!board,
              TxTypeOK, Tx!NoOldHandle, TxHandlesInOrder, TxHostCanEnd, TxOffIsKnown
<1>4. CASE Tx!Connect
  BY <1>4 DEF TxInv, Tx!Connect, Tx!Ask, Tx!app, Tx!board,
              TxTypeOK, Tx!NoOldHandle, TxHandlesInOrder, TxHostCanEnd, TxOffIsKnown
<1>5. QED
  BY <1>1, <1>2, <1>3, <1>4

\* The handle is shut down: a connection that is up is up no more; one not stored yet is missed.
LEMMA TxHostShuts ==
  ASSUME TxInv, Tx!ShutDown
  PROVE  TxInv'
BY DEF TxInv, Tx!ShutDown, Tx!board, TxTypeOK, Tx!NoOldHandle, TxHandlesInOrder, TxHostCanEnd,
   TxOffIsKnown

LEMMA TxBoardStep ==
  ASSUME TxInv, Tx!Board
  PROVE  TxInv'
BY DEF TxInv, Tx!Board, Tx!BoardReads, Tx!BoardChanges, Tx!BoardGoes, Tx!BoardComes, Tx!app,
   Tx!host, Tx!board,
       TxTypeOK, Tx!NoOldHandle, TxHandlesInOrder, TxHostCanEnd, TxOffIsKnown

LEMMA TxNextInv == TxInv /\ [Tx!Next]_(Tx!vars) => TxInv'
<1> SUFFICES ASSUME TxInv, [Tx!Next]_(Tx!vars) PROVE TxInv'
  OBVIOUS
<1>1. CASE Tx!NetThread
  BY <1>1, TxNetThreadStep
<1>2. CASE Tx!SenderThread \/ Tx!SendUdp
  BY <1>2, TxSenderStep
<1>3. CASE Tx!Host
  BY <1>3, TxHostAsks, TxHostShuts DEF Tx!Host
<1>4. CASE Tx!Board
  BY <1>4, TxBoardStep
<1>5. CASE UNCHANGED Tx!vars
  BY <1>5 DEF Tx!vars, Tx!app, Tx!host, Tx!board, TxInv, TxTypeOK, Tx!NoOldHandle,
     TxHandlesInOrder, TxHostCanEnd, TxOffIsKnown
<1>6. QED
  BY <1>1, <1>2, <1>3, <1>4, <1>5 DEF Tx!Next

LEMMA TxInvariance == Tx!Spec => []TxInv
<1>1. Tx!Init => TxInv
  BY TxInitInv
<1>2. TxInv /\ [Tx!Next]_(Tx!vars) => TxInv'
  BY TxNextInv
<1>3. QED
  BY <1>1, <1>2, PTL DEF Tx!Spec

-----------------------------------------------------------------------------
(* The start screen.                                                       *)

\* The roles, and how often another computer gave one.
StartTypeOK == role \in Start!Ends /\ want \in Start!Ends /\ others \in Nat

\* A screen is shown for the end that was prepared last, and by then nothing is prepared.
StartScreenAlone == hosted # {} => hosted = {want} /\ prep = "none"

\* As long as no other computer gave it a role, a board that answered as wanted is what was wanted,
\* and the slot names nothing else once the screen is shown.
StartPlacedStays ==
  placed /\ others = 0 => /\ role = want
                          /\ hosted # {} => slot \subseteq {want}

StartInv == StartTypeOK /\ StartScreenAlone /\ StartPlacedStays

LEMMA StartOtherEnd == \A e \in Start!Ends : Start!Other(e) \in Start!Ends /\ Start!Other(e) # e
BY DEF Start!Ends, Start!Other

LEMMA StartInitInv == Start!Init => StartInv
BY DEF Start!Init, StartInv, StartTypeOK, StartScreenAlone, StartPlacedStays

-----------------------------------------------------------------------------

\* What the poll hears is what the board is.
LEMMA StartPollStep ==
  ASSUME StartInv, Start!Poll
  PROVE  StartInv'
<1>1. CASE Start!PollAsks
  BY <1>1 DEF StartInv, Start!PollAsks, Start!board, Start!work, StartTypeOK, StartScreenAlone,
     StartPlacedStays
<1>2. CASE Start!PollHears
  <2>1. slot' \subseteq {role}
    BY <1>2 DEF Start!PollHears, Start!Answer
  <2>2. QED
    BY <1>2, <2>1 DEF StartInv, Start!PollHears, Start!board, Start!work, StartTypeOK,
       StartScreenAlone, StartPlacedStays
<1>3. QED
  BY <1>1, <1>2 DEF Start!Poll

\* An answer as the end wanted, or a command carried out, makes the board what is wanted.
LEMMA StartPrepareStep ==
  ASSUME StartInv, Start!Prepare
  PROVE  StartInv'
<1>1. CASE Start!Ask
  <2>1. PICK a \in {Start!Answer} \cup (IF quiet THEN {} ELSE {{}}) : placed' = (a = {want})
    BY <1>1 DEF Start!Ask
  <2>2. placed' => role = want
    BY <2>1 DEF Start!Answer
  <2>3. hosted = {}
    BY <1>1 DEF Start!Ask, StartInv, StartScreenAlone
  <2>4. UNCHANGED <<role, others, slot, want, hosted>>
    BY <1>1 DEF Start!Ask, Start!board, Start!asking
  <2>5. QED
    BY <2>2, <2>3, <2>4 DEF StartInv, StartTypeOK, StartScreenAlone, StartPlacedStays
<1>2. CASE Start!Commanded
  BY <1>2 DEF StartInv, Start!Commanded, Start!Fails, Start!asking, StartTypeOK, StartScreenAlone,
     StartPlacedStays
<1>3. CASE Start!Refused
  BY <1>3 DEF StartInv, Start!Refused, Start!Fails, Start!board, Start!asking, StartTypeOK,
     StartScreenAlone, StartPlacedStays
<1>4. CASE Start!Back
  <2>1. role = want
    BY <1>4 DEF Start!Back, Start!Answer
  <2>2. QED
    BY <1>4, <2>1 DEF StartInv, Start!Back, Start!board, Start!asking, StartTypeOK,
       StartScreenAlone, StartPlacedStays
<1>5. CASE Start!GivesUp
  BY <1>5 DEF StartInv, Start!GivesUp, Start!Fails, Start!board, Start!asking, StartTypeOK,
     StartScreenAlone, StartPlacedStays
<1>6. QED
  BY <1>1, <1>2, <1>3, <1>4, <1>5 DEF Start!Prepare

\* The host overwrites the slot when it shows a screen, and leaves the screen when it follows.
LEMMA StartHostStep ==
  ASSUME StartInv, Start!Host
  PROVE  StartInv'
<1>1. CASE Start!TakeOver
  BY <1>1 DEF StartInv, Start!TakeOver, Start!Overwritten, Start!board, StartTypeOK,
     StartScreenAlone, StartPlacedStays
<1>2. CASE Start!Follow
  <2>1. PICK e \in hosted : Start!Starts(Start!Other(e), setRole)
    BY <1>2 DEF Start!Follow
  <2>2. e \in Start!Ends
    BY <2>1 DEF StartInv, StartTypeOK, StartScreenAlone
  <2>3. want' \in Start!Ends /\ ~placed'
    BY <2>1, <2>2, StartOtherEnd DEF Start!Starts
  <2>4. hosted' = {} /\ UNCHANGED <<role, others>>
    BY <1>2 DEF Start!Follow, Start!board
  <2>5. QED
    BY <2>3, <2>4 DEF StartInv, StartTypeOK, StartScreenAlone, StartPlacedStays
<1>3. QED
  BY <1>1, <1>2 DEF Start!Host

\* The operator starts only from the start screen; another computer's order is counted.
LEMMA StartOthersStep ==
  ASSUME StartInv, Start!Restarted \/ (\E e \in Start!Ends, set \in BOOLEAN : Start!Start(e,
         set)) \/ Start!Switched \/ Start!Quiets
  PROVE  StartInv'
<1>1. CASE Start!Restarted
  BY <1>1 DEF StartInv, Start!Restarted, Start!asking, Start!work, StartTypeOK, StartScreenAlone,
     StartPlacedStays
<1>2. ASSUME NEW e \in Start!Ends, NEW set \in BOOLEAN, Start!Start(e, set)
      PROVE  StartInv'
  BY <1>2 DEF StartInv, Start!Start, Start!Starts, Start!board, Start!asking, StartTypeOK,
     StartScreenAlone, StartPlacedStays
<1>3. CASE Start!Switched
  BY <1>3, StartOtherEnd DEF StartInv, Start!Switched, Start!asking, Start!work, StartTypeOK,
     StartScreenAlone, StartPlacedStays
<1>4. CASE Start!Quiets
  BY <1>4 DEF StartInv, Start!Quiets, Start!board, Start!asking, Start!work, StartTypeOK,
     StartScreenAlone, StartPlacedStays
<1>5. QED
  BY <1>1, <1>2, <1>3, <1>4

LEMMA StartNextInv == StartInv /\ [Start!Next]_(Start!vars) => StartInv'
<1> SUFFICES ASSUME StartInv, [Start!Next]_(Start!vars) PROVE StartInv'
  OBVIOUS
<1>1. CASE UNCHANGED Start!vars
  BY <1>1 DEF Start!vars, Start!board, Start!asking, Start!work, StartInv, StartTypeOK,
     StartScreenAlone, StartPlacedStays
<1>2. QED
  BY <1>1, StartPollStep, StartPrepareStep, StartHostStep, StartOthersStep DEF Start!Next

\* A host that follows has read the other end in the slot: another computer was there.
LEMMA StartFollowSeesOthers == StartInv /\ Start!Follow /\ placed => others > 0
<1> SUFFICES ASSUME StartInv, Start!Follow, placed, others = 0 PROVE FALSE
  BY DEF StartInv, StartTypeOK
<1>1. PICK e \in hosted : slot = {Start!Other(e)}
  BY DEF Start!Follow
<1>2. e = want /\ e \in Start!Ends
  BY <1>1 DEF StartInv, StartTypeOK, StartScreenAlone
<1>3. slot \subseteq {want}
  BY <1>1 DEF StartInv, StartPlacedStays
<1>4. QED
  BY <1>1, <1>2, <1>3, StartOtherEnd

-----------------------------------------------------------------------------
(* The console of a board.                                                 *)

PanelCommands == Questions \cup Orders

PanelTypeOK ==
  /\ todo \in Seq(Orders) /\ batch \in Seq(PanelCommands) /\ done \in [Orders -> Nat]
  /\ given \subseteq Orders

\* A command and its answer at a time: one of the two is on its way, and only while it is waited for.
PanelOneInFlight ==
  IF at = "wait"
  THEN batch # <<>> /\ <<questions, told>> \in {<< <<Head(batch)>>, <<>> >>, << <<>>,
    <<Head(batch)>> >>}
  ELSE questions = <<>> /\ told = <<>>

\* An order waits in one place: taken, it leaves the queue, and leads the round.
PanelOrdersApart ==
  /\ \A i, j \in DOMAIN todo : todo[i] = todo[j] => i = j
  /\ \A i \in DOMAIN todo : todo[i] \in given
  /\ \A i \in DOMAIN batch : batch[i] \in Orders =>
       i = 1 /\ batch[i] \in given /\ \A j \in DOMAIN todo : todo[j] # batch[i]

\* An order that waits was not carried out: only the one that was answered was.
PanelNotDoneYet ==
  \A c \in Orders :
    /\ done[c] <= 1
    /\ done[c] = 1 => /\ c \in given /\ \A j \in DOMAIN todo : todo[j] # c
                      /\ batch # <<>> /\ Head(batch) = c => at = "wait" /\ told # <<>>

PanelInv ==
  PanelTypeOK /\ PanelOneInFlight /\ PanelOrdersApart /\ PanelNotDoneYet /\ Panel!AnswersMatch

\* The poll's questions, in some order.
LEMMA PanelPollIsQuestions ==
  ASSUME Panel!ConsoleAssumption
  PROVE  Panel!SetToSeq(Questions) \in Seq(Questions)
<1>1. IsFiniteSet(Questions) /\ Panel!Cardinality(Questions) = Cardinality(Questions)
  BY DEF Panel!ConsoleAssumption, Panel!IsFiniteSet, IsFiniteSet, Panel!Cardinality, Cardinality
<1>2. Cardinality(Questions) \in Nat /\ ExistsBijection(1 .. Cardinality(Questions), Questions)
  BY <1>1, FS_CardinalityType
<1>3. \E f \in [1 .. Cardinality(Questions) -> Questions] : Panel!IsInjective(f)
  BY <1>2 DEF ExistsBijection, Bijection, Injection, IsInjective, Panel!IsInjective
<1>4. Panel!SetToSeq(Questions) \in [1 .. Cardinality(Questions) -> Questions]
  BY <1>1, <1>3 DEF Panel!SetToSeq
<1>5. QED
  BY <1>2, <1>4 DEF Seq

LEMMA PanelInitInv == ASSUME Panel!Init PROVE PanelInv
<1>1. PanelTypeOK /\ PanelOneInFlight
  BY DEF Panel!Init, PanelTypeOK, PanelOneInFlight
<1>2. PanelOrdersApart
  BY DEF Panel!Init, PanelOrdersApart
<1>3. PanelNotDoneYet
  BY DEF Panel!Init, PanelNotDoneYet
<1>4. Panel!AnswersMatch
  BY DEF Panel!Init, Panel!AnswersMatch
<1>5. QED
  BY <1>1, <1>2, <1>3, <1>4 DEF PanelInv

-----------------------------------------------------------------------------
(* The worker.                                                             *)

\* What the round begins with leaves the queue of orders; questions are no orders.
LEMMA PanelTakenOrder ==
  ASSUME PanelInv, todo # <<>>
  PROVE  /\ Head(todo) \in Orders /\ Head(todo) \in given /\ Tail(todo) \in Seq(Orders)
         /\ \A i \in DOMAIN Tail(todo) : i + 1 \in DOMAIN todo /\ Tail(todo)[i] = todo[i + 1]
         /\ \A i \in DOMAIN Tail(todo) : Tail(todo)[i] # Head(todo)
         /\ 1 \in DOMAIN todo /\ Head(todo) = todo[1]
<1>1. todo \in Seq(Orders) /\ Len(todo) \in Nat /\ Len(todo) > 0 /\ DOMAIN todo = 1 .. Len(todo)
  BY EmptySeq, LenProperties DEF PanelInv, PanelTypeOK
<1>2. 1 \in DOMAIN todo /\ Head(todo) = todo[1]
  BY <1>1
<1>3. /\ Tail(todo) \in Seq(Orders) /\ Len(Tail(todo)) = Len(todo) - 1
      /\ \A i \in 1 .. Len(Tail(todo)) : Tail(todo)[i] = todo[i + 1]
  BY <1>1, HeadTailProperties
<1>4. DOMAIN Tail(todo) = 1 .. Len(todo) - 1
  BY <1>1, <1>3, LenProperties
<1>5. \A i \in DOMAIN Tail(todo) : i + 1 \in DOMAIN todo /\ i + 1 # 1
  BY <1>1, <1>4
<1>6. QED
  BY <1>1, <1>2, <1>3, <1>4, <1>5, ElementOfSeq DEF PanelInv, PanelOrdersApart

\* Where the first command of the round came from.
LEMMA PanelRound ==
  ASSUME PanelInv, batch # <<>>
  PROVE  /\ Head(batch) \in PanelCommands /\ Tail(batch) \in Seq(PanelCommands)
         /\ 1 \in DOMAIN batch /\ Head(batch) = batch[1]
         /\ \A i \in DOMAIN Tail(batch) : Tail(batch)[i] \notin Orders
<1>1. /\ batch \in Seq(PanelCommands) /\ Len(batch) \in Nat /\ Len(batch) > 0
      /\ DOMAIN batch = 1 .. Len(batch)
  BY EmptySeq, LenProperties DEF PanelInv, PanelTypeOK
<1>2. /\ Tail(batch) \in Seq(PanelCommands) /\ Len(Tail(batch)) = Len(batch) - 1
      /\ \A i \in 1 .. Len(Tail(batch)) : Tail(batch)[i] = batch[i + 1]
  BY <1>1, HeadTailProperties
<1>3. DOMAIN Tail(batch) = 1 .. Len(batch) - 1
  BY <1>1, <1>2, LenProperties
<1>4. \A i \in DOMAIN Tail(batch) : i + 1 \in DOMAIN batch /\ i + 1 # 1
  BY <1>1, <1>3
<1>5. QED
  BY <1>1, <1>2, <1>3, <1>4, ElementOfSeq DEF PanelInv, PanelOrdersApart

LEMMA PanelWakeStep ==
  ASSUME Panel!ConsoleAssumption, PanelInv, Panel!Wake
  PROVE  PanelInv'
<1> DEFINE first == IF todo # <<>> THEN <<Head(todo)>> ELSE <<>>
           polls == IF asks /\ due THEN Panel!SetToSeq(Questions) ELSE <<>>
<1>1. at = "idle" /\ questions = <<>> /\ told = <<>>
  BY DEF Panel!Wake, PanelInv, PanelOneInFlight
<1>2. batch' = first \o polls /\ todo' = (IF todo # <<>> THEN Tail(todo) ELSE todo)
  BY DEF Panel!Wake
<1>3. at' \in {"talk", "dial"} /\ questions' = <<>> /\ told' = <<>> /\ UNCHANGED <<kv, done, given>>
  BY <1>1 DEF Panel!Wake
<1>4. polls \in Seq(Questions) /\ Questions \cap Orders = {}
  BY PanelPollIsQuestions, EmptySeq DEF Panel!ConsoleAssumption
<1>5. first \in Seq(PanelCommands) /\ polls \in Seq(PanelCommands) /\ Len(first) \in {0, 1}
  <2>1. polls \in Seq(PanelCommands)
    BY <1>4, SeqMonotonic DEF PanelCommands
  <2>2. CASE todo = <<>>
    BY <2>1, <2>2
  <2>3. CASE todo # <<>>
    <3>1. Head(todo) \in PanelCommands
      BY <2>3, PanelTakenOrder DEF PanelCommands
    <3>2. QED
      BY <2>1, <2>3, <3>1
  <2>4. QED
    BY <2>2, <2>3
<1> HIDE DEF first, polls
<1>6. /\ batch' \in Seq(PanelCommands) /\ Len(batch') = Len(first) + Len(polls)
      /\ \A i \in 1 .. Len(first) + Len(polls) :
           batch'[i] = IF i <= Len(first) THEN first[i] ELSE polls[i - Len(first)]
  BY <1>2, <1>5, ConcatProperties
<1>7. DOMAIN batch' = 1 .. Len(first) + Len(polls) /\ Len(polls) \in Nat
  BY <1>5, <1>6, LenProperties
<1>8. \A i \in DOMAIN batch' : batch'[i] \in Orders =>
        i = 1 /\ todo # <<>> /\ batch'[i] = Head(todo)
  <2> SUFFICES ASSUME NEW i \in DOMAIN batch', batch'[i] \in Orders
               PROVE  i = 1 /\ todo # <<>> /\ batch'[i] = Head(todo)
    OBVIOUS
  <2>1. CASE i <= Len(first)
    <3>1. PICK n \in {0, 1} : n = Len(first)
      BY <1>5
    <3>2. i \in Nat /\ i >= 1 /\ i <= n
      BY <1>7, <2>1, <3>1
    <3>3. i = 1 /\ Len(first) = 1
      BY <3>1, <3>2
    <3>4. todo # <<>> /\ first = <<Head(todo)>>
      BY <3>3 DEF first
    <3>5. batch'[i] = first[1]
      BY <1>6, <1>7, <2>1, <3>3
    <3>6. QED
      BY <3>3, <3>4, <3>5
  <2>2. CASE ~(i <= Len(first))
    <3>1. i - Len(first) \in 1 .. Len(polls)
      BY <1>5, <1>7, <2>2
    <3>2. polls[i - Len(first)] \in Questions
      BY <1>4, <3>1, ElementOfSeq
    <3>3. QED
      BY <1>4, <1>6, <1>7, <2>2, <3>2
  <2>3. QED
    BY <2>1, <2>2
<1>9. PanelTypeOK'
  BY <1>2, <1>3, <1>6, PanelTakenOrder DEF PanelInv, PanelTypeOK
<1>10. PanelOneInFlight'
  BY <1>3 DEF PanelOneInFlight
<1>11. PanelOrdersApart'
  <2>1. CASE todo = <<>>
    BY <1>2, <1>3, <1>8, <2>1 DEF PanelInv, PanelOrdersApart
  <2>2. CASE todo # <<>>
    <3>1. todo' = Tail(todo)
      BY <1>2, <2>2
    <3>2. \A i, j \in DOMAIN todo' : todo'[i] = todo'[j] => i = j
      <4> SUFFICES ASSUME NEW i \in DOMAIN Tail(todo), NEW j \in DOMAIN Tail(todo),
                          Tail(todo)[i] = Tail(todo)[j]
                   PROVE  i = j
        BY <3>1
      <4>1. i + 1 = j + 1
        BY <2>2, PanelTakenOrder DEF PanelInv, PanelOrdersApart
      <4>2. i \in Int /\ j \in Int
        BY <2>2, PanelTakenOrder, LenProperties
      <4>3. QED
        BY <4>1, <4>2
    <3>3. \A i \in DOMAIN todo' : todo'[i] \in given'
      BY <1>3, <2>2, <3>1, PanelTakenOrder DEF PanelInv, PanelOrdersApart
    <3>4. QED
      BY <1>3, <1>8, <2>2, <3>1, <3>2, <3>3, PanelTakenOrder DEF PanelOrdersApart
  <2>3. QED
    BY <2>1, <2>2
<1>12. PanelNotDoneYet'
  <2> SUFFICES ASSUME NEW c \in Orders, done[c] = 1
               PROVE  /\ c \in given /\ \A j \in DOMAIN todo' : todo'[j] # c
                      /\ ~(batch' # <<>> /\ Head(batch') = c)
    BY <1>3 DEF PanelInv, PanelNotDoneYet
  <2>1. c \in given /\ \A j \in DOMAIN todo : todo[j] # c
    BY DEF PanelInv, PanelNotDoneYet
  <2>2. \A j \in DOMAIN todo' : todo'[j] # c
    BY <1>2, <2>1, PanelTakenOrder
  <2>3. ASSUME batch' # <<>>, Head(batch') = c PROVE FALSE
    <3>1. 1 \in DOMAIN batch' /\ batch'[1] = c
      <4>1. batch' \in Seq(PanelCommands) /\ batch' # <<>>
        BY <1>6, <2>3
      <4>2. Len(batch') \in Nat \ {0} /\ DOMAIN batch' = 1 .. Len(batch')
        BY <4>1, EmptySeq, LenProperties
      <4>3. QED
        BY <2>3, <4>2
    <3>2. todo # <<>> /\ c = Head(todo)
      BY <1>8, <3>1
    <3>3. QED
      BY <2>1, <3>2, PanelTakenOrder
  <2>4. QED
    BY <2>1, <2>2, <2>3
<1>13. Panel!AnswersMatch'
  BY <1>3 DEF PanelInv, Panel!AnswersMatch
<1>14. QED
  BY <1>9, <1>10, <1>11, <1>12, <1>13 DEF PanelInv

LEMMA PanelDialStep ==
  ASSUME PanelInv, Panel!Dial
  PROVE  PanelInv'
<1>1. UNCHANGED <<questions, told, kv, done, given, todo>> /\ at = "dial" /\ at' # "wait"
  BY DEF Panel!Dial, Panel!operator
<1>2. batch' = batch \/ batch' = <<>>
  BY DEF Panel!Dial
<1>3. PanelTypeOK' /\ PanelOneInFlight'
  <2>1. PanelTypeOK'
    BY <1>1, <1>2, EmptySeq DEF PanelInv, PanelTypeOK
  <2>2. questions = <<>> /\ told = <<>>
    BY <1>1 DEF PanelInv, PanelOneInFlight
  <2>3. PanelOneInFlight'
    BY <1>1, <2>2 DEF PanelOneInFlight
  <2>4. QED
    BY <2>1, <2>3
<1>4. PanelOrdersApart'
  BY <1>1, <1>2 DEF PanelInv, PanelOrdersApart
<1>5. PanelNotDoneYet'
  BY <1>1, <1>2 DEF PanelInv, PanelNotDoneYet
<1>6. QED
  BY <1>1, <1>3, <1>4, <1>5 DEF PanelInv, Panel!AnswersMatch

LEMMA PanelAskStep ==
  ASSUME PanelInv, Panel!Ask
  PROVE  PanelInv'
<1>1. UNCHANGED <<batch, told, kv, done, given,
        todo>> /\ at = "talk" /\ at' = "wait" /\ batch # <<>>
  BY DEF Panel!Ask, Panel!operator
<1>2. questions = <<>> /\ told = <<>>
  BY <1>1 DEF PanelInv, PanelOneInFlight
<1>3. questions' = <<Head(batch)>>
  BY <1>2 DEF Panel!Ask
<1>4. PanelTypeOK' /\ PanelOneInFlight'
  BY <1>1, <1>2, <1>3 DEF PanelInv, PanelTypeOK, PanelOneInFlight
<1>5. PanelOrdersApart' /\ Panel!AnswersMatch'
  BY <1>1 DEF PanelInv, PanelOrdersApart, Panel!AnswersMatch
<1>6. PanelNotDoneYet'
  BY <1>1 DEF PanelInv, PanelNotDoneYet
<1>7. QED
  BY <1>4, <1>5, <1>6 DEF PanelInv

LEMMA PanelHearStep ==
  ASSUME PanelInv, Panel!Hear
  PROVE  PanelInv'
<1>1. UNCHANGED <<questions, done, given, todo>> /\ at = "wait" /\ told # <<>>
  BY DEF Panel!Hear, Panel!operator
<1>2. batch # <<>> /\ questions = <<>> /\ told = <<Head(batch)>>
  BY <1>1 DEF PanelInv, PanelOneInFlight
<1>3. Head(told) = Head(batch) /\ told' = <<>> /\ batch' = Tail(batch) /\ at' # "wait"
  BY <1>2 DEF Panel!Hear
<1>4. PanelTypeOK' /\ PanelOneInFlight'
  BY <1>1, <1>2, <1>3, PanelRound DEF PanelInv, PanelTypeOK, PanelOneInFlight
<1>5. PanelOrdersApart'
  BY <1>1, <1>2, <1>3, PanelRound DEF PanelInv, PanelOrdersApart
<1>6. PanelNotDoneYet'
  <2> SUFFICES ASSUME NEW c \in Orders, done[c] = 1
               PROVE  /\ c \in given /\ \A j \in DOMAIN todo : todo[j] # c
                      /\ ~(batch' # <<>> /\ Head(batch') = c)
    BY <1>1 DEF PanelInv, PanelNotDoneYet
  <2>1. c \in given /\ \A j \in DOMAIN todo : todo[j] # c
    BY DEF PanelInv, PanelNotDoneYet
  <2>2. ASSUME batch' # <<>>, Head(batch') = c PROVE FALSE
    <3>1. batch' \in Seq(PanelCommands)
      BY <1>2, <1>3, PanelRound
    <3>2. Len(batch') \in Nat \ {0} /\ DOMAIN batch' = 1 .. Len(batch')
      BY <2>2, <3>1, EmptySeq, LenProperties
    <3>3. 1 \in DOMAIN batch' /\ batch'[1] = c
      BY <2>2, <3>2
    <3>4. QED
      BY <1>2, <1>3, <3>3, PanelRound
  <2>3. QED
    BY <2>1, <2>2
<1>7. Panel!AnswersMatch'
  <2>1. kv' = [c \in DOMAIN kv \cup {Head(batch)} |->
                 IF c = Head(batch) THEN [of |-> Head(told), from |-> conn] ELSE kv[c]]
    BY DEF Panel!Hear
  <2>2. QED
    BY <1>3, <2>1 DEF PanelInv, Panel!AnswersMatch
<1>8. QED
  BY <1>4, <1>5, <1>6, <1>7 DEF PanelInv

\* The board may have carried out the command that was on its way, and no other.
LEMMA PanelFailsStep ==
  ASSUME PanelInv, Panel!Fails
  PROVE  PanelInv'
<1>1. UNCHANGED <<kv, given, todo>> /\ at = "wait" /\ told = <<>> /\ conn' = Panel!None
  BY DEF Panel!Fails, Panel!operator, Panel!LeftInError
<1>2. batch # <<>> /\ questions = <<Head(batch)>>
  BY <1>1 DEF PanelInv, PanelOneInFlight
<1>3. questions' = <<>> /\ told' = <<>> /\ batch' = <<>> /\ at' = "idle"
  BY <1>1 DEF Panel!Fails
<1>4. PICK n \in 0 .. Len(questions) :
        done' = [c \in DOMAIN done |->
                   IF conn' = Panel!None /\ \E i \in 1 .. n : questions[i] = c
                     THEN done[c] + 1 ELSE done[c]]
  BY DEF Panel!Fails
<1>5. \A i \in 1 .. n : questions[i] = Head(batch)
  BY <1>2
<1>6. DOMAIN done = Orders /\ \A c \in Orders : done[c] \in Nat
  BY DEF PanelInv, PanelTypeOK
<1>7. \A c \in Orders : done'[c] = done[c] \/ (c = Head(batch) /\ done'[c] = done[c] + 1)
  BY <1>4, <1>5, <1>6
<1>8. PanelTypeOK'
  <2>1. done' \in [Orders -> Nat]
    BY <1>4, <1>6
  <2>2. QED
    BY <1>1, <1>3, <2>1 DEF PanelInv, PanelTypeOK
<1>9. PanelOneInFlight' /\ Panel!AnswersMatch'
  BY <1>1, <1>3 DEF PanelInv, PanelOneInFlight, Panel!AnswersMatch
<1>10. PanelOrdersApart'
  BY <1>1, <1>3 DEF PanelInv, PanelOrdersApart
<1>11. PanelNotDoneYet'
  <2> SUFFICES ASSUME NEW c \in Orders
               PROVE  /\ done'[c] <= 1
                      /\ done'[c] = 1 => c \in given /\ \A j \in DOMAIN todo : todo[j] # c
    BY <1>1, <1>3 DEF PanelNotDoneYet
  <2>1. CASE done'[c] = done[c]
    BY <2>1 DEF PanelInv, PanelNotDoneYet
  <2>2. CASE c = Head(batch) /\ done'[c] = done[c] + 1
    <3>1. done[c] # 1 /\ done[c] <= 1
      BY <1>1, <1>2, <2>2 DEF PanelInv, PanelNotDoneYet
    <3>2. batch[1] = c /\ 1 \in DOMAIN batch
      BY <1>2, <2>2, PanelRound
    <3>3. c \in given /\ \A j \in DOMAIN todo : todo[j] # c
      BY <3>2 DEF PanelInv, PanelOrdersApart
    <3>4. QED
      BY <1>6, <2>2, <3>1, <3>3
  <2>3. QED
    BY <1>7, <2>1, <2>2
<1>12. QED
  BY <1>8, <1>9, <1>10, <1>11 DEF PanelInv

-----------------------------------------------------------------------------
(* The board, the clock, the operator.                                     *)

LEMMA PanelAnswersStep ==
  ASSUME PanelInv, Panel!Answers
  PROVE  PanelInv'
<1>1. UNCHANGED <<kv, given, todo, batch, at>> /\ questions # <<>>
  BY DEF Panel!Answers, Panel!operator, Panel!worker
<1>2. at = "wait" /\ batch # <<>> /\ questions = <<Head(batch)>> /\ told = <<>>
  BY <1>1 DEF PanelInv, PanelOneInFlight
<1>3. questions' = <<>> /\ told' = <<Head(batch)>>
  BY <1>2 DEF Panel!Answers
<1>4. DOMAIN done = Orders /\ \A c \in Orders : done[c] \in Nat
  BY DEF PanelInv, PanelTypeOK
<1>5. done' = [c \in Orders |-> IF c = Head(batch) THEN done[c] + 1 ELSE done[c]]
  BY <1>2, <1>4 DEF Panel!Answers
<1>6. PanelTypeOK' /\ PanelOneInFlight' /\ Panel!AnswersMatch'
  <2>1. done' \in [Orders -> Nat]
    BY <1>4, <1>5
  <2>2. QED
    BY <1>1, <1>2, <1>3, <2>1 DEF PanelInv, PanelTypeOK, PanelOneInFlight, Panel!AnswersMatch
<1>7. PanelOrdersApart'
  BY <1>1 DEF PanelInv, PanelOrdersApart
<1>8. PanelNotDoneYet'
  <2> SUFFICES ASSUME NEW c \in Orders
               PROVE  /\ done'[c] <= 1
                      /\ done'[c] = 1 => c \in given /\ \A j \in DOMAIN todo : todo[j] # c
    BY <1>1, <1>2, <1>3 DEF PanelNotDoneYet
  <2>1. CASE c # Head(batch)
    BY <1>5, <2>1 DEF PanelInv, PanelNotDoneYet
  <2>2. CASE c = Head(batch)
    <3>1. done[c] # 1 /\ done[c] <= 1
      BY <1>2, <2>2 DEF PanelInv, PanelNotDoneYet
    <3>2. batch[1] = c /\ 1 \in DOMAIN batch
      BY <1>2, <2>2, PanelRound
    <3>3. c \in given /\ \A j \in DOMAIN todo : todo[j] # c
      BY <3>2 DEF PanelInv, PanelOrdersApart
    <3>4. QED
      BY <1>4, <1>5, <2>2, <3>1, <3>3
  <2>3. QED
    BY <2>1, <2>2
<1>9. QED
  BY <1>6, <1>7, <1>8 DEF PanelInv

\* An order the operator gives is a new one.
LEMMA PanelOrderStep ==
  ASSUME PanelInv, Panel!Order
  PROVE  PanelInv'
<1>1. UNCHANGED <<kv, batch, at, questions, told, done>>
  BY DEF Panel!Order, Panel!worker, Panel!board
<1>2. PICK c \in Orders \ given : given' = given \cup {c} /\ todo' = Append(todo, c)
  BY DEF Panel!Order
<1>3. todo \in Seq(Orders) /\ DOMAIN todo = 1 .. Len(todo) /\ Len(todo) \in Nat
  BY LenProperties DEF PanelInv, PanelTypeOK
<1>4. /\ todo' \in Seq(Orders) /\ Len(todo') = Len(todo) + 1 /\ DOMAIN todo' = 1 .. Len(todo) + 1
      /\ \A i \in 1 .. Len(todo) : todo'[i] = todo[i]
      /\ todo'[Len(todo) + 1] = c
  BY <1>2, <1>3
<1>5. \A i \in DOMAIN todo' :
        \/ i \in DOMAIN todo /\ todo'[i] = todo[i]
        \/ i = Len(todo) + 1 /\ todo'[i] = c
  BY <1>3, <1>4
<1>6. PanelTypeOK' /\ PanelOneInFlight' /\ Panel!AnswersMatch'
  BY <1>1, <1>2, <1>4 DEF PanelInv, PanelTypeOK, PanelOneInFlight, Panel!AnswersMatch
<1>7. PanelOrdersApart'
  <2>1. \A i \in DOMAIN todo : todo[i] # c
    BY <1>2 DEF PanelInv, PanelOrdersApart
  <2>2. \A i, j \in DOMAIN todo' : todo'[i] = todo'[j] => i = j
    BY <1>5, <2>1 DEF PanelInv, PanelOrdersApart
  <2>3. \A i \in DOMAIN todo' : todo'[i] \in given'
    BY <1>2, <1>5 DEF PanelInv, PanelOrdersApart
  <2>4. \A i \in DOMAIN batch : batch[i] \in Orders => batch[i] # c
    BY <1>2 DEF PanelInv, PanelOrdersApart
  <2>5. QED
    BY <1>1, <1>2, <1>5, <2>2, <2>3, <2>4 DEF PanelInv, PanelOrdersApart
<1>8. PanelNotDoneYet'
  <2> SUFFICES ASSUME NEW d \in Orders, done[d] = 1
               PROVE  d \in given' /\ \A j \in DOMAIN todo' : todo'[j] # d
    BY <1>1 DEF PanelInv, PanelNotDoneYet
  <2>1. d \in given /\ \A j \in DOMAIN todo : todo[j] # d
    BY DEF PanelInv, PanelNotDoneYet
  <2>2. QED
    BY <1>2, <1>5, <2>1
<1>9. QED
  BY <1>6, <1>7, <1>8 DEF PanelInv

\* Nothing else touches the commands.
LEMMA PanelRestStep ==
  ASSUME PanelInv, UNCHANGED <<todo, given, batch, at, questions, told, kv, done>>
  PROVE  PanelInv'
BY DEF PanelInv, PanelTypeOK, PanelOneInFlight, PanelOrdersApart, PanelNotDoneYet,
   Panel!AnswersMatch

LEMMA PanelNextInv == Panel!ConsoleAssumption /\ PanelInv /\ [Panel!Next]_(Panel!vars) => PanelInv'
<1> SUFFICES ASSUME Panel!ConsoleAssumption, PanelInv, [Panel!Next]_(Panel!vars) PROVE PanelInv'
  OBVIOUS
<1>1. CASE Panel!Worker
  BY <1>1, PanelWakeStep, PanelDialStep, PanelAskStep, PanelHearStep, PanelFailsStep
     DEF Panel!Worker
<1>2. CASE Panel!Answers
  BY <1>2, PanelAnswersStep
<1>3. CASE Panel!Order
  BY <1>3, PanelOrderStep
<1>4. CASE \/ Panel!Second \/ Panel!Address \/ Panel!Toggle \/ Panel!Wavers \/ Panel!Settles
            \/ UNCHANGED Panel!vars
  BY <1>4, PanelRestStep DEF Panel!Second, Panel!Address, Panel!Toggle, Panel!Wavers,
     Panel!Settles, Panel!vars, Panel!worker, Panel!board, Panel!operator
<1>5. QED
  BY <1>1, <1>2, <1>3, <1>4 DEF Panel!Next

LEMMA PanelInvariance == ASSUME Panel!ConsoleAssumption
PROVE Panel!Init /\ [][Panel!Next]_(Panel!vars) => []PanelInv
<1>1. Panel!Init => PanelInv
  BY PanelInitInv
<1>2. PanelInv /\ [Panel!Next]_(Panel!vars) => PanelInv'
  BY PanelNextInv
<1>3. QED
  BY <1>1, <1>2, PTL

-----------------------------------------------------------------------------
(* The connection of the receiver: what udp_loop puts together.            *)

\* The pieces of a capture that is being put together are its first ones, in order.
RxCurInOrder ==
  /\ rxCur \in [of : Nat, pieces : Seq(Nat \X Nat)]
  /\ \A k \in 1 .. Len(rxCur.pieces) : rxCur.pieces[k] = <<rxCur.of, k - 1>>

RxInv == RxCurInOrder /\ Rx!WholeOnly

LEMMA RxInitInv == Rx!Init => RxInv
BY DEF Rx!Init, Rx!Nothing, RxInv, RxCurInOrder, Rx!WholeOnly

\* A datagram: it opens a capture, goes on with the one it belongs to, or drops what is there.
LEMMA RxPieceStep ==
  ASSUME Rx!RxLinkAssumption, RxInv, NEW c \in Rx!Captures, NEW i \in 0 .. Pieces - 1, Rx!Piece(c,
         i)
  PROVE  RxInv'
<1> DEFINE open == Rx!Opened(c, i)
           got == Append(open.pieces, <<c, i>>)
           grown == [open EXCEPT !.pieces = got]
           whole == Rx!InPlace(open, c, i) /\ Len(got) = Pieces
<1>1. c \in Nat /\ i \in Nat /\ Pieces \in Nat
  BY DEF Rx!Captures, Rx!RxLinkAssumption
<1>2. /\ open \in [of : Nat, pieces : Seq(Nat \X Nat)]
      /\ \A k \in 1 .. Len(open.pieces) : open.pieces[k] = <<open.of, k - 1>>
  BY <1>1 DEF Rx!Opened, RxInv, RxCurInOrder
<1>3. /\ rxHanded' = IF whole THEN got ELSE rxHanded
      /\ rxCur' = IF Rx!InPlace(open, c, i) /\ ~whole THEN grown ELSE Rx!Nothing
  BY DEF Rx!Piece
<1> HIDE DEF open
<1>4. ASSUME Rx!InPlace(open, c, i)
      PROVE  /\ got \in Seq(Nat \X Nat) /\ Len(got) = i + 1
             /\ \A k \in 1 .. Len(got) : got[k] = <<c, k - 1>>
  <2>1. open.of = c /\ Len(open.pieces) = i /\ open.pieces \in Seq(Nat \X Nat)
    BY <1>2, <1>4 DEF Rx!InPlace
  <2>2. /\ got \in Seq(Nat \X Nat) /\ Len(got) = i + 1
        /\ \A k \in 1 .. i + 1 : got[k] = IF k = i + 1 THEN <<c, i>> ELSE open.pieces[k]
    BY <1>1, <2>1
  <2>3. \A k \in 1 .. i + 1 : k # i + 1 => k \in 1 .. Len(open.pieces)
    BY <1>1, <2>1
  <2> HIDE DEF got
  <2>4. ASSUME NEW k \in 1 .. i + 1 PROVE got[k] = <<c, k - 1>>
    <3>1. CASE k = i + 1
      <4>1. k - 1 = i
        BY <1>1, <3>1
      <4>2. QED
        BY <2>2, <3>1, <4>1
    <3>2. CASE k # i + 1
      BY <1>2, <2>1, <2>2, <2>3, <3>2
    <3>3. QED
      BY <3>1, <3>2
  <2>5. QED
    BY <2>2, <2>4
<1> HIDE DEF got
<1>5. Rx!WholeOnly'
  <2>1. CASE whole
    <3>1. got \in Seq(Nat \X Nat) /\ Len(got) = Pieces /\ \A k \in 1 .. Pieces : got[k] = <<c,
            k - 1>>
      BY <1>4, <2>1
    <3>2. got = [k \in 1 .. Pieces |-> <<c, k - 1>>]
      <4>1. DOMAIN got = 1 .. Pieces /\ got = [k \in DOMAIN got |-> got[k]]
        BY <3>1
      <4>2. QED
        BY <3>1, <4>1
    <3>3. QED
      BY <1>3, <2>1, <3>2 DEF Rx!WholeOnly
  <2>2. CASE ~whole
    BY <1>3, <2>2 DEF RxInv, Rx!WholeOnly
  <2>3. QED
    BY <2>1, <2>2
<1>6. RxCurInOrder'
  <2>1. CASE Rx!InPlace(open, c, i) /\ ~whole
    <3>1. open.of = c
      BY <2>1 DEF Rx!InPlace
    <3>2. grown \in [of : Nat, pieces : Seq(Nat \X Nat)] /\ grown.of = c /\ grown.pieces = got
      BY <1>2, <1>4, <2>1, <3>1
    <3>3. rxCur' = grown
      BY <1>3, <2>1
    <3> HIDE DEF grown
    <3>4. QED
      BY <1>4, <2>1, <3>2, <3>3 DEF RxCurInOrder
  <2>2. CASE ~(Rx!InPlace(open, c, i) /\ ~whole)
    BY <1>3, <2>2 DEF RxCurInOrder, Rx!Nothing
  <2>3. QED
    BY <2>1, <2>2
<1>7. QED
  BY <1>5, <1>6 DEF RxInv

LEMMA RxNextInv == ASSUME Rx!RxLinkAssumption PROVE RxInv /\ [Rx!Next]_(Rx!vars) => RxInv'
<1> SUFFICES ASSUME RxInv, [Rx!Next]_(Rx!vars) PROVE RxInv'
  OBVIOUS
<1>1. ASSUME UNCHANGED rxHanded, rxCur' \in {rxCur, Rx!Nothing} PROVE RxInv'
  <2>1. Rx!WholeOnly'
    BY <1>1 DEF RxInv, Rx!WholeOnly
  <2>2. RxCurInOrder'
    <3>1. CASE rxCur' = rxCur
      BY <3>1 DEF RxInv, RxCurInOrder
    <3>2. CASE rxCur' = Rx!Nothing
      BY <3>2 DEF RxCurInOrder, Rx!Nothing
    <3>3. QED
      BY <1>1, <3>1, <3>2
  <2>3. QED
    BY <2>1, <2>2 DEF RxInv
<1>2. CASE Rx!Reader \/ Rx!Beat
  BY <1>1, <1>2 DEF Rx!Reader, Rx!Dial, Rx!Answered, Rx!Store, Rx!ReadFails, Rx!Leave, Rx!Listen,
     Rx!StopListening, Rx!Beat
<1>3. ASSUME NEW c \in Rx!Captures, NEW i \in 0 .. Pieces - 1, Rx!Piece(c, i) PROVE RxInv'
  BY <1>3, RxPieceStep
<1>4. CASE Rx!WriteBlocks \/ Rx!WriteReturns \/ Rx!Pull \/ (\E b \in Boards,
        u \in BOOLEAN : Rx!Press(b, u))
  BY <1>1, <1>4 DEF Rx!WriteBlocks, Rx!WriteReturns, Rx!Pull, Rx!Press, Rx!link
<1>5. CASE Rx!Breaks \/ Rx!Calms \/ (\E b \in Boards : Rx!Away(b)) \/ UNCHANGED Rx!vars
  BY <1>1, <1>5 DEF Rx!Breaks, Rx!Calms, Rx!Away, Rx!link, Rx!vars
<1>6. QED
  BY <1>2, <1>3, <1>4, <1>5 DEF Rx!Next

-----------------------------------------------------------------------------
(* The playout.                                                            *)

PlayTypeOK == /\ made \in Nat /\ queue \in Seq(Nat) /\ shown \in Nat /\ hand \in SUBSET Nat

\* The pictures wait in the order they were pushed, behind the one in playout's hand and behind
\* the one on the screen.
PlaySorted == \A i, j \in 1 .. Len(queue) : i < j => queue[i] < queue[j]
PlayBehind ==
  /\ shown <= made /\ \A f \in hand : shown < f /\ f <= made
  /\ \A f, g \in hand : f = g
  /\ \A i \in 1 .. Len(queue) : /\ shown < queue[i] /\ queue[i] <= made
                                /\ \A f \in hand : f < queue[i]

PlayInv == PlayTypeOK /\ PlaySorted /\ PlayBehind

LEMMA PlayInitInv == Play!Init => PlayInv
BY DEF Play!Init, PlayInv, PlayTypeOK, PlaySorted, PlayBehind

\* Leaving the oldest out keeps the rest as it is.
LEMMA NewestKeeps ==
  ASSUME NEW q \in Seq(Nat), NEW n \in Nat
  PROVE  /\ Play!Newest(q, n) \in Seq(Nat)
         /\ \E d \in Nat : \A i \in 1 .. Len(Play!Newest(q, n)) :
              i + d \in 1 .. Len(q) /\ Play!Newest(q, n)[i] = q[i + d]
<1>1. CASE Len(q) > n
  <2> DEFINE d == Len(q) - n
  <2>1. d \in Nat /\ Len(q) \in Nat /\ Play!Newest(q, n) = SubSeq(q, d + 1, Len(q))
    BY <1>1 DEF Play!Newest
  <2> HIDE DEF d
  <2>2. d + 1 \in Int /\ Len(q) \in Int
    BY <2>1
  <2>3. \A i \in d + 1 .. Len(q) : q[i] \in Nat
    BY <2>1
  <2>4. /\ SubSeq(q, d + 1, Len(q)) \in Seq(Nat)
        /\ Len(SubSeq(q, d + 1, Len(q))) = IF d + 1 <= Len(q) THEN Len(q) - (d + 1) + 1 ELSE 0
        /\ \A i \in 1 .. Len(q) - (d + 1) + 1 : SubSeq(q, d + 1, Len(q))[i] = q[d + 1 + i - 1]
    BY <2>2, <2>3, SubSeqProperties
  <2>5. \A i \in 1 .. Len(SubSeq(q, d + 1, Len(q))) :
          /\ i \in 1 .. Len(q) - (d + 1) + 1 /\ i + d \in 1 .. Len(q) /\ d + 1 + i - 1 = i + d
    BY <2>1, <2>4
  <2>6. QED
    BY <2>1, <2>4, <2>5
<1>2. CASE ~(Len(q) > n)
  <2>1. Play!Newest(q, n) = q
    BY <1>2 DEF Play!Newest
  <2>2. 0 \in Nat /\ \A i \in 1 .. Len(q) : i + 0 \in 1 .. Len(q) /\ q[i] = q[i + 0]
    OBVIOUS
  <2>3. QED
    BY <2>1, <2>2
<1>3. QED
  BY <1>1, <1>2

\* What is left of the queue, or of the queue and a new picture, is in order.
LEMMA PlayShorter ==
  ASSUME PlayInv, queue' \in Seq(Nat), UNCHANGED <<made, hand, shown>>,
         NEW d \in Nat,
         \A i \in 1 .. Len(queue') : i + d \in 1 .. Len(queue) /\ queue'[i] = queue[i + d]
  PROVE  PlayInv'
<1>1. PlayTypeOK' /\ PlayBehind'
  BY DEF PlayInv, PlayTypeOK, PlayBehind
<1>2. PlaySorted'
  <2> SUFFICES ASSUME NEW i \in 1 .. Len(queue'), NEW j \in 1 .. Len(queue'), i < j
               PROVE  queue'[i] < queue'[j]
    BY DEF PlaySorted
  <2>1. i + d < j + d
    OBVIOUS
  <2>2. QED
    BY <2>1 DEF PlayInv, PlaySorted
<1>3. QED
  BY <1>1, <1>2 DEF PlayInv

LEMMA PlayPushStep ==
  ASSUME Play!PlayoutAssumption, PlayInv, Play!Push
  PROVE  PlayInv'
<1> DEFINE m == made + 1
           q == Append(queue, m)
<1>1. /\ made \in Nat /\ m \in Nat /\ queue \in Seq(Nat) /\ Len(queue) \in Nat /\ CAP \in Nat
  BY DEF PlayInv, PlayTypeOK, Play!PlayoutAssumption
<1>2. /\ q \in Seq(Nat) /\ Len(q) = Len(queue) + 1
      /\ \A i \in 1 .. Len(q) : q[i] = IF i = Len(q) THEN m ELSE queue[i]
      /\ \A i \in 1 .. Len(q) : i # Len(q) => i \in 1 .. Len(queue)
  BY <1>1
<1>3. made' = m /\ queue' = Play!Newest(q, CAP) /\ UNCHANGED <<hand, shown>>
  BY DEF Play!Push
<1>4. m > made
  BY <1>1
<1> HIDE DEF m, q
<1>5. /\ Play!Newest(q, CAP) \in Seq(Nat)
      /\ \E d \in Nat : \A i \in 1 .. Len(Play!Newest(q, CAP)) :
           i + d \in 1 .. Len(q) /\ Play!Newest(q, CAP)[i] = q[i + d]
  BY <1>1, <1>2, NewestKeeps
<1>6. PICK d \in Nat : \A i \in 1 .. Len(queue') : i + d \in 1 .. Len(q) /\ queue'[i] = q[i + d]
  BY <1>3, <1>5
<1>7. queue' \in Seq(Nat) /\ Len(queue') \in Nat
  BY <1>3, <1>5
<1>8. ASSUME NEW i \in 1 .. Len(q)
      PROVE  q[i] <= m /\ shown < q[i] /\ \A f \in hand : f < q[i]
  <2>1. CASE i = Len(q)
    <3>1. q[i] = m
      BY <1>2, <2>1
    <3>2. shown <= made /\ shown \in Nat /\ \A f \in hand : f \in Nat /\ f <= made
      BY DEF PlayInv, PlayTypeOK, PlayBehind
    <3>3. QED
      BY <1>1, <1>4, <3>1, <3>2
  <2>2. CASE i # Len(q)
    <3>1. i \in 1 .. Len(queue) /\ q[i] = queue[i]
      BY <1>2, <2>2
    <3>2. /\ queue[i] \in Nat /\ queue[i] <= made /\ shown < queue[i]
          /\ \A f \in hand : f < queue[i]
      BY <3>1 DEF PlayInv, PlayTypeOK, PlayBehind
    <3>3. QED
      BY <1>1, <1>4, <3>1, <3>2
  <2>3. QED
    BY <2>1, <2>2
<1>9. \A i, j \in 1 .. Len(q) : i < j => q[i] < q[j]
  <2> SUFFICES ASSUME NEW i \in 1 .. Len(q), NEW j \in 1 .. Len(q), i < j
               PROVE  q[i] < q[j]
    OBVIOUS
  <2>1. i # Len(q) /\ i \in 1 .. Len(queue) /\ q[i] = queue[i]
    BY <1>2
  <2>2. CASE j = Len(q)
    <3>1. queue[i] \in Nat /\ queue[i] <= made
      BY <2>1 DEF PlayInv, PlayTypeOK, PlayBehind
    <3>2. QED
      BY <1>1, <1>2, <1>4, <2>1, <2>2, <3>1
  <2>3. CASE j # Len(q)
    BY <1>2, <2>1, <2>3 DEF PlayInv, PlaySorted
  <2>4. QED
    BY <2>2, <2>3
<1>10. PlayTypeOK'
  BY <1>1, <1>3, <1>7 DEF PlayInv, PlayTypeOK
<1>11. PlaySorted'
  <2> SUFFICES ASSUME NEW i \in 1 .. Len(queue'), NEW j \in 1 .. Len(queue'), i < j
               PROVE  queue'[i] < queue'[j]
    BY DEF PlaySorted
  <2>1. i + d < j + d
    BY <1>7
  <2>2. QED
    BY <1>6, <1>9, <2>1
<1>12. PlayBehind'
  <2>1. \A i \in 1 .. Len(queue') : /\ shown < queue'[i] /\ queue'[i] <= m
                                    /\ \A f \in hand : f < queue'[i]
    BY <1>6, <1>8
  <2>2. shown <= m /\ \A f \in hand : shown < f /\ f <= m
    BY <1>1, <1>4 DEF PlayInv, PlayTypeOK, PlayBehind
  <2>3. \A f, g \in hand : f = g
    BY DEF PlayInv, PlayBehind
  <2>4. QED
    BY <1>3, <2>1, <2>2, <2>3 DEF PlayBehind
<1>13. QED
  BY <1>10, <1>11, <1>12 DEF PlayInv

LEMMA PlayTakeStep ==
  ASSUME PlayInv, Play!TakeNewest \/ Play!TakeOldest
  PROVE  PlayInv'
<1>1. queue \in Seq(Nat) /\ queue # <<>> /\ hand = {} /\ UNCHANGED <<made, shown>>
  BY DEF PlayInv, PlayTypeOK, Play!TakeNewest, Play!TakeOldest
<1>2. Len(queue) \in Nat /\ 1 \in 1 .. Len(queue) /\ Len(queue) \in 1 .. Len(queue)
  BY <1>1
<1>3. CASE Play!TakeNewest
  <2>1. hand' = {queue[Len(queue)]} /\ queue' = <<>>
    BY <1>3 DEF Play!TakeNewest, Play!Last
  <2>2. /\ queue[Len(queue)] \in Nat
        /\ shown < queue[Len(queue)] /\ queue[Len(queue)] <= made
    BY <1>1, <1>2 DEF PlayInv, PlayBehind
  <2>3. QED
    BY <1>1, <2>1, <2>2 DEF PlayInv, PlayTypeOK, PlaySorted, PlayBehind
<1>4. CASE Play!TakeOldest
  <2>1. hand' = {queue[1]} /\ queue' = Tail(queue)
    BY <1>1, <1>4 DEF Play!TakeOldest
  <2>2. /\ queue' \in Seq(Nat) /\ Len(queue') = Len(queue) - 1
        /\ \A i \in 1 .. Len(queue') : queue'[i] = queue[i + 1]
    BY <1>1, <2>1, HeadTailProperties
  <2>3. \A i \in 1 .. Len(queue') : i \in Nat /\ i + 1 \in 1 .. Len(queue) /\ 1 < i + 1
    BY <1>2, <2>2
  <2>4. queue[1] \in Nat /\ shown < queue[1] /\ queue[1] <= made
    BY <1>1, <1>2 DEF PlayInv, PlayBehind
  <2>5. \A i \in 1 .. Len(queue') :
          shown < queue'[i] /\ queue'[i] <= made /\ queue[1] < queue'[i]
    BY <1>2, <2>2, <2>3 DEF PlayInv, PlayBehind, PlaySorted
  <2>6. PlaySorted'
    <3> SUFFICES ASSUME NEW i \in 1 .. Len(queue'), NEW j \in 1 .. Len(queue'), i < j
                 PROVE  queue'[i] < queue'[j]
      BY DEF PlaySorted
    <3>1. i + 1 < j + 1
      BY <2>3
    <3>2. QED
      BY <2>2, <2>3, <3>1 DEF PlayInv, PlaySorted
  <2>7. PlayTypeOK'
    BY <1>1, <2>1, <2>2, <2>4 DEF PlayInv, PlayTypeOK
  <2>8. PlayBehind'
    BY <1>1, <2>1, <2>4, <2>5 DEF PlayInv, PlayBehind
  <2>9. QED
    BY <2>6, <2>7, <2>8 DEF PlayInv
<1>5. QED
  BY <1>3, <1>4

\* A picture that cannot be shown goes back before those pushed meanwhile.
LEMMA PlayPublishStep ==
  ASSUME PlayInv, Play!Publish
  PROVE  PlayInv' /\ shown' >= shown
<1>1. PICK f \in hand :
        /\ hand' = {}
        /\ IF window THEN shown' = shown /\ queue' = Play!PutBack(f)
                     ELSE shown' = f /\ queue' = queue
        /\ UNCHANGED <<made, window, smooth, drags>>
  BY DEF Play!Publish
<1>2. /\ f \in Nat /\ shown < f /\ f <= made /\ shown \in Nat /\ made \in Nat
      /\ queue \in Seq(Nat) /\ Len(queue) \in Nat
      /\ \A i \in 1 .. Len(queue) :
           queue[i] \in Nat /\ shown < queue[i] /\ f < queue[i] /\ queue[i] <= made
  BY DEF PlayInv, PlayTypeOK, PlayBehind
<1>3. CASE ~window
  BY <1>1, <1>2, <1>3 DEF PlayInv, PlayTypeOK, PlaySorted, PlayBehind
<1>4. CASE window
  <2>1. /\ <<f>> \in Seq(Nat) /\ Len(<<f>>) = 1 /\ queue' = <<f>> \o queue
    BY <1>1, <1>2, <1>4 DEF Play!PutBack
  <2>2. /\ queue' \in Seq(Nat) /\ Len(queue') = 1 + Len(queue)
        /\ \A i \in 1 .. 1 + Len(queue) : queue'[i] = IF i <= 1 THEN <<f>>[i] ELSE queue[i - 1]
    BY <1>2, <2>1, ConcatProperties
  <2>3. \A i \in 1 .. Len(queue') :
          \/ i = 1 /\ queue'[i] = f
          \/ i > 1 /\ i - 1 \in 1 .. Len(queue) /\ queue'[i] = queue[i - 1]
    BY <1>2, <2>2
  <2>4. \A i \in 1 .. Len(queue') : shown < queue'[i] /\ queue'[i] <= made
    BY <1>2, <2>3
  <2>5. PlaySorted'
    <3> SUFFICES ASSUME NEW i \in 1 .. Len(queue'), NEW j \in 1 .. Len(queue'), i < j
                 PROVE  queue'[i] < queue'[j]
      BY DEF PlaySorted
    <3>1. j > 1 /\ j - 1 \in 1 .. Len(queue) /\ queue'[j] = queue[j - 1]
      BY <2>2, <2>3
    <3>2. CASE i = 1
      BY <1>2, <2>3, <3>1, <3>2
    <3>3. CASE i # 1
      <4>1. i - 1 \in 1 .. Len(queue) /\ queue'[i] = queue[i - 1] /\ i - 1 < j - 1
        BY <2>3, <3>3
      <4>2. QED
        BY <3>1, <4>1 DEF PlayInv, PlaySorted
    <3>4. QED
      BY <3>2, <3>3
  <2>6. QED
    BY <1>1, <1>2, <1>4, <2>2, <2>4, <2>5 DEF PlayInv, PlayTypeOK, PlayBehind
<1>5. QED
  BY <1>3, <1>4

LEMMA PlayNextInv ==
  ASSUME Play!PlayoutAssumption
  PROVE PlayInv /\ [Play!Next]_(Play!vars) => PlayInv' /\ shown' >= shown
<1> SUFFICES ASSUME PlayInv, [Play!Next]_(Play!vars) PROVE PlayInv' /\ shown' >= shown
  OBVIOUS
<1>1. shown \in Nat
  BY DEF PlayInv, PlayTypeOK
<1>2. CASE Play!Push
  BY <1>1, <1>2, PlayPushStep DEF Play!Push
<1>3. CASE Play!TakeNewest \/ Play!TakeOldest
  BY <1>1, <1>3, PlayTakeStep DEF Play!TakeNewest, Play!TakeOldest
<1>4. CASE Play!Trim
  <2>1. queue' = Play!Newest(queue, DEPTH) /\ UNCHANGED <<made, hand, shown>>
    BY <1>4 DEF Play!Trim
  <2>2. queue \in Seq(Nat) /\ DEPTH \in Nat
    BY DEF PlayInv, PlayTypeOK, Play!PlayoutAssumption
  <2>3. /\ Play!Newest(queue, DEPTH) \in Seq(Nat)
        /\ \E d \in Nat : \A i \in 1 .. Len(Play!Newest(queue, DEPTH)) :
             i + d \in 1 .. Len(queue) /\ Play!Newest(queue, DEPTH)[i] = queue[i + d]
    BY <2>2, NewestKeeps
  <2>4. PICK d \in Nat : \A i \in 1 .. Len(queue') :
          i + d \in 1 .. Len(queue) /\ queue'[i] = queue[i + d]
    BY <2>1, <2>3
  <2>5. PlayInv'
    BY <2>1, <2>3, <2>4, PlayShorter
  <2>6. QED
    BY <1>1, <2>1, <2>5
<1>5. CASE Play!Publish
  BY <1>5, PlayPublishStep
<1>6. CASE Play!Window \/ Play!Slider \/ Play!LetGo \/ UNCHANGED Play!vars
  <2>1. UNCHANGED <<made, queue, hand, shown>>
    BY <1>6 DEF Play!Window, Play!Slider, Play!LetGo, Play!vars
  <2>2. PlayInv'
    BY <2>1 DEF PlayInv, PlayTypeOK, PlaySorted, PlayBehind
  <2>3. QED
    BY <1>1, <2>1, <2>2
<1>7. QED
  BY <1>2, <1>3, <1>4, <1>5, <1>6 DEF Play!Next, Play!Tick

-----------------------------------------------------------------------------
(* The phone's ordering of frames.                                         *)

PhoneTypeOK ==
  /\ sent \in 0 .. Frames /\ begun \subseteq 1 .. Frames /\ fed \in Nat
  /\ DOMAIN pend \subseteq 1 .. Frames /\ next \subseteq 1 .. Frames + 1
  /\ \A m, n \in next : m = n

\* What waits is not behind the next id, and what was given to the decoder is.
PhoneAhead ==
  /\ next = {} => DOMAIN pend = {} /\ fed = 0
  /\ \A n \in next : fed < n /\ \A i \in DOMAIN pend : n <= i

PhoneInv == PhoneTypeOK /\ PhoneAhead

\* A set of numbers has a least one, and a greatest one if it has a bound.
LEMMA PhoneLeast ==
  ASSUME NEW S \in SUBSET Nat, S # {}
  PROVE  Phone!Min(S) \in S /\ \A x \in S : Phone!Min(S) <= x
<1>1. \E m \in S : \A x \in S : <<x, m>> \notin OpToRel(<, Nat)
  BY WFMin, NatLessThanWellFounded
<1>2. PICK m \in S : \A x \in S : ~(x < m)
  BY <1>1 DEF OpToRel
<1>3. \E y \in S : \A x \in S : y <= x
  BY <1>2
<1>4. QED
  BY <1>3 DEF Phone!Min

LEMMA PhoneGreatest ==
  ASSUME NEW k \in Nat, NEW S \in SUBSET (1 .. k), S # {}
  PROVE  Phone!Max(S) \in S /\ \A x \in S : x <= Phone!Max(S)
<1> DEFINE U == {u \in Nat : \A x \in S : x <= u}
           m == Phone!Min(U)
<1>1. k \in U
  OBVIOUS
<1>2. m \in U /\ \A u \in U : m <= u
  BY <1>1, PhoneLeast
<1> HIDE DEF m
<1>3. m \in S
  <2> SUFFICES ASSUME m \notin S PROVE FALSE
    OBVIOUS
  <2>1. \A x \in S : x \in Nat /\ x >= 1 /\ x <= m /\ x # m
    BY <1>2
  <2>2. m \in Nat /\ m - 1 \in Nat /\ \A x \in S : x <= m - 1
    <3>1. m \in Nat /\ \E x \in S : x \in Nat /\ x >= 1 /\ x <= m
      BY <1>2, <2>1
    <3>2. m - 1 \in Nat
      BY <3>1
    <3>3. QED
      BY <2>1, <3>1, <3>2
  <2>3. m - 1 \in U
    BY <2>2
  <2>4. QED
    BY <1>2, <2>2, <2>3
<1>4. \E y \in S : \A x \in S : y >= x
  BY <1>2, <1>3
<1>5. QED
  BY <1>4 DEF Phone!Max

LEMMA PhoneInitInv == Phone!PhoneOrderAssumption /\ Phone!Init => PhoneInv
BY DEF Phone!PhoneOrderAssumption, Phone!Init, PhoneInv, PhoneTypeOK, PhoneAhead

\* The walk from id n: it stops somewhere, not before n, and gives what is before that to the
\* decoder.
LEMMA WalkGoesOn ==
  ASSUME Frames \in Nat, NEW n \in 1 .. Frames + 1, NEW p, DOMAIN p \subseteq 1 .. Frames,
         \A i \in DOMAIN p : n <= i, NEW f \in Nat, f < n
  PROVE  LET r == Phone!Released(n, p, f)
         IN  /\ r.next \in n .. Frames + 1
             /\ DOMAIN r.pend \subseteq 1 .. Frames /\ \A i \in DOMAIN r.pend : r.next <= i
             /\ r.fed \in Nat /\ f <= r.fed /\ r.fed < r.next
<1> DEFINE r == Phone!Released(n, p, f)
           S == {k \in n .. Frames + 1 : Phone!Stops(p, k)}
           m == Phone!Min(S)
           fits == {i \in DOMAIN p : i < m}
<1>1. Frames + 1 \in S
  <2>1. DOMAIN Phone!After(p, Frames + 1) = {}
    BY DEF Phone!After, Phone!Restrict
  <2>2. QED
    BY <2>1 DEF Phone!Stops
<1>2. S \in SUBSET Nat /\ S # {}
  BY <1>1
<1>3. m \in S
  BY <1>2, PhoneLeast
<1>4. m \in n .. Frames + 1 /\ m \in Nat
  BY <1>3
<1>5. /\ r.next = m /\ r.pend = Phone!After(p, m)
      /\ r.fed = IF fits = {} THEN f ELSE Phone!Max(fits)
  BY DEF Phone!Released
<1> HIDE DEF r, m
<1>6. DOMAIN Phone!After(p, m) = {i \in DOMAIN p : i > m}
  BY DEF Phone!After, Phone!Restrict
<1>7. CASE fits = {}
  BY <1>4, <1>5, <1>6, <1>7 DEF r
<1>8. CASE fits # {}
  <2>1. Phone!Max(fits) \in fits
    BY <1>8, PhoneGreatest
  <2>2. Phone!Max(fits) \in Nat /\ n <= Phone!Max(fits) /\ Phone!Max(fits) < m
    BY <2>1
  <2>3. QED
    BY <1>4, <1>5, <1>6, <1>8, <2>2 DEF r
<1>9. QED
  BY <1>7, <1>8

\* Frames completed: what is not late waits or is walked over.
LEMMA OrderedStep ==
  ASSUME Phone!PhoneOrderAssumption, PhoneInv, NEW c \in SUBSET (1 .. Frames),
         NEW first \in 1 .. Frames, Phone!Ordered(c, first)
  PROVE  /\ fed' \in Nat /\ DOMAIN pend' \subseteq 1 .. Frames /\ next' \subseteq 1 .. Frames + 1
         /\ \A m, k \in next' : m = k
         /\ PhoneAhead' /\ fed' >= fed
<1> DEFINE n == IF next # {} \/ c = {} THEN next ELSE {first}
           t == {i \in c : ~Phone!Late(n, i)}
           p == [i \in DOMAIN pend \cup t |-> IF i \in t THEN FALSE ELSE pend[i]]
           j == Phone!Jumped(n, p)
           r == Phone!Released(j, p, fed)
<1>1. Frames \in Nat /\ WINDOW \in Nat
  BY DEF Phone!PhoneOrderAssumption
<1>2. CASE n = {}
  <2>1. next' = next /\ pend' = pend /\ fed' = fed
    BY <1>2 DEF Phone!Ordered
  <2>2. fed \in Nat /\ fed >= fed
    BY DEF PhoneInv, PhoneTypeOK
  <2>3. QED
    BY <2>1, <2>2 DEF PhoneInv, PhoneTypeOK, PhoneAhead
<1>3. CASE n # {}
  <2>1. next' = {r.next} /\ pend' = r.pend /\ fed' = r.fed
    BY <1>3 DEF Phone!Ordered
  <2>2. PICK k \in n : n = {k}
    BY <1>3 DEF PhoneInv, PhoneTypeOK
  <2>3. k \in 1 .. Frames + 1 /\ fed \in Nat /\ fed < k /\ \A i \in DOMAIN pend : k <= i
    BY <1>1, <2>2 DEF PhoneInv, PhoneTypeOK, PhoneAhead
  <2>4. \A i \in t : k <= i
    BY <1>1, <2>2, <2>3 DEF Phone!Late
  <2> HIDE DEF n, t
  <2>5. DOMAIN p = DOMAIN pend \cup t
    OBVIOUS
  <2>6. DOMAIN p \subseteq 1 .. Frames /\ \A i \in DOMAIN p : k <= i
    BY <2>3, <2>4, <2>5 DEF PhoneInv, PhoneTypeOK, t
  <2> HIDE DEF p
  <2>7. j \in k .. Frames + 1 /\ \A i \in DOMAIN p : j <= i
    <3>1. j = k \/ (DOMAIN p # {} /\ j = Phone!Min(DOMAIN p))
      BY <2>2 DEF Phone!Jumped, Phone!Oldest
    <3>2. CASE j = k
      BY <1>1, <2>3, <2>6, <3>2
    <3>3. CASE DOMAIN p # {} /\ j = Phone!Min(DOMAIN p)
      <4>1. DOMAIN p \in SUBSET Nat
        BY <2>6
      <4>2. j \in DOMAIN p /\ \A i \in DOMAIN p : j <= i
        BY <3>3, <4>1, PhoneLeast
      <4>3. QED
        BY <1>1, <2>3, <2>6, <4>2
    <3>4. QED
      BY <3>1, <3>2, <3>3
  <2> HIDE DEF j
  <2>8. j \in 1 .. Frames + 1 /\ fed < j
    BY <1>1, <2>3, <2>7
  <2>9. /\ r.next \in j .. Frames + 1
        /\ DOMAIN r.pend \subseteq 1 .. Frames /\ \A i \in DOMAIN r.pend : r.next <= i
        /\ r.fed \in Nat /\ fed <= r.fed /\ r.fed < r.next
    BY <1>1, <2>3, <2>6, <2>7, <2>8, WalkGoesOn
  <2> HIDE DEF r
  <2>10. r.next \in 1 .. Frames + 1
    BY <1>1, <2>8, <2>9
  <2>11. QED
    BY <2>1, <2>3, <2>9, <2>10 DEF PhoneAhead
<1>4. QED
  BY <1>2, <1>3

LEMMA PhoneBlockStep ==
  ASSUME Phone!PhoneOrderAssumption, PhoneInv, NEW i \in 1 .. sent, Phone!Block(i)
  PROVE  PhoneInv' /\ fed' >= fed
<1>1. i \in 1 .. Frames /\ Frames \in Nat
  BY DEF PhoneInv, PhoneTypeOK, Phone!PhoneOrderAssumption
<1>2. PICK stale \in SUBSET {j \in begun \ {i} : j + LAG <= i} :
        \E c \in {stale, stale \cup {i}}, first \in stale \cup {i} :
          Phone!Ordered(c, first) /\ begun' \subseteq begun \cup {i}
  BY DEF Phone!Block, Phone!Completes
<1>3. stale \subseteq 1 .. Frames /\ begun' \subseteq 1 .. Frames /\ sent' = sent
  BY <1>1, <1>2 DEF PhoneInv, PhoneTypeOK, Phone!Block
<1>4. PICK c \in {stale, stale \cup {i}}, first \in stale \cup {i} : Phone!Ordered(c, first)
  BY <1>2
<1>5. c \in SUBSET (1 .. Frames) /\ first \in 1 .. Frames
  BY <1>1, <1>3, <1>4
<1>6. /\ fed' \in Nat /\ DOMAIN pend' \subseteq 1 .. Frames /\ next' \subseteq 1 .. Frames + 1
      /\ \A m, n \in next' : m = n
      /\ PhoneAhead' /\ fed' >= fed
  BY <1>4, <1>5, OrderedStep
<1>7. QED
  BY <1>3, <1>6 DEF PhoneInv, PhoneTypeOK

LEMMA PhoneNextInv ==
  ASSUME Phone!PhoneOrderAssumption
  PROVE  PhoneInv /\ [Phone!Next]_(Phone!vars) => PhoneInv' /\ fed' >= fed
<1> SUFFICES ASSUME PhoneInv, [Phone!Next]_(Phone!vars) PROVE PhoneInv' /\ fed' >= fed
  OBVIOUS
<1>1. fed \in Nat /\ Frames \in Nat /\ sent \in 0 .. Frames
  BY DEF PhoneInv, PhoneTypeOK, Phone!PhoneOrderAssumption
<1>2. CASE Phone!Blocks
  BY <1>2, PhoneBlockStep DEF Phone!Blocks
<1>3. CASE Phone!Sends \/ Phone!Restarts \/ UNCHANGED Phone!vars
  <2>1. UNCHANGED <<next, pend, fed>> /\ begun' \in {begun, {}} /\ sent' \in 0 .. Frames
    BY <1>1, <1>3 DEF Phone!Sends, Phone!Restarts, Phone!vars
  <2>2. QED
    BY <1>1, <2>1 DEF PhoneInv, PhoneTypeOK, PhoneAhead
<1>4. CASE Phone!HoldOver
  <2>1. UNCHANGED <<sent, begun, next, fed>> /\ DOMAIN pend' = DOMAIN pend
    BY <1>4 DEF Phone!HoldOver
  <2>2. QED
    BY <1>1, <2>1 DEF PhoneInv, PhoneTypeOK, PhoneAhead
<1>5. QED
  BY <1>2, <1>3, <1>4 DEF Phone!Next

-----------------------------------------------------------------------------
(* The front of the receiver.                                              *)

\* The front of the receiver is that of PredemodProofs.
LEMMA SameFront ==
  /\ Front!PredemodAssumption => F!PredemodAssumption
  /\ Front!Init => F!Init
  /\ [Front!Next]_(Front!vars) => [F!Next]_(F!vars)
  /\ F!OnePlace /\ F!NoneBehind /\ F!InOrderUnlessJumped
       => Front!OnePlace /\ Front!NoneBehind /\ Front!InOrderUnlessJumped
<1>1. \A S : Front!IsFiniteSet(S) = F!IsFiniteSet(S) BY DEF Front!IsFiniteSet, F!IsFiniteSet
<1>2. \A S : Front!Cardinality(S) = F!Cardinality(S) BY DEF Front!Cardinality, F!Cardinality
<1>3. \A f : Front!Range(f) = F!Range(f) BY DEF Front!Range, F!Range
<1>4. \A s, k : Front!RemoveAt(s, k) = F!RemoveAt(s, k) BY DEF Front!RemoveAt, F!RemoveAt
<1>5. Front!PredemodAssumption => F!PredemodAssumption
  BY <1>1 DEF Front!PredemodAssumption, F!PredemodAssumption
<1>6. Front!Init => F!Init BY DEF Front!Init, F!Init
<1> USE DEF Front!board, F!board, Front!pool, F!pool, Front!turn, F!turn
<1>7. \A x : /\ Front!MaySend(x) = F!MaySend(x) /\ Front!TrySend(x) = F!TrySend(x)
             /\ Front!Stashed(x) = F!Stashed(x)
  BY DEF Front!MaySend, F!MaySend, Front!TrySend, F!TrySend, Front!Stashed, F!Stashed
<1>8. \A x \in Items : /\ Front!ReadDecoded(x) => F!ReadDecoded(x)
                       /\ Front!ReadSpare(x) => F!ReadSpare(x)
                       /\ Front!ReadSamples(x) => F!ReadSamples(x)
  BY <1>7 DEF Front!ReadDecoded, F!ReadDecoded, Front!ReadSpare, F!ReadSpare, Front!ReadSamples,
     F!ReadSamples, Front!Worked, F!Worked
<1>9. (Front!SpareAges => F!SpareAges) /\ (Front!CoverEnds => F!CoverEnds)
  BY DEF Front!SpareAges, F!SpareAges, Front!CoverEnds, F!CoverEnds
<1>10. \A x : Front!Spare(x) = F!Spare(x) BY DEF Front!Spare, F!Spare, Front!Worked, F!Worked
<1>11. \A x : Front!Claim(x) = F!Claim(x) BY <1>4, <1>10 DEF Front!Claim, F!Claim
<1>12. \A w \in Workers : /\ Front!Take(w) => F!Take(w)
                          /\ Front!DropStale(w) => F!DropStale(w)
                          /\ Front!Finish(w) => F!Finish(w)
                          /\ Front!Die(w) => F!Die(w)
  BY DEF Front!Take, F!Take, Front!DropStale, F!DropStale, Front!Finish, F!Finish, Front!Die, F!Die
<1>13. \A w \in Workers : Front!Process(w) => F!Process(w)
  BY <1>11 DEF Front!Process, F!Process, Front!GivesUp, F!GivesUp
<1>14. Front!Sweep => F!Sweep
  BY DEF Front!Sweep, F!Sweep, Front!SweepStash, F!SweepStash, Front!SweepWhatFits,
     F!SweepWhatFits, Front!SweptNow, F!SweptNow, Front!LeastOf, F!LeastOf
<1>15. (Front!TakePending => F!TakePending) /\ (Front!Starve => F!Starve)
  BY DEF Front!TakePending, F!TakePending, Front!Starve, F!Starve, Front!Waits, F!Waits
<1>16. \A r : /\ Front!TakeInTurn(r) => F!TakeInTurn(r)
              /\ Front!TakeLate(r) => F!TakeLate(r)
              /\ Front!Received(r) => F!Received(r)
  BY DEF Front!TakeInTurn, F!TakeInTurn, Front!OnTurn, F!OnTurn, Front!InTurn, F!InTurn,
     Front!TakeLate, F!TakeLate, Front!Received, F!Received
<1>17. \A s : Front!Lowest(s) = F!Lowest(s) BY DEF Front!Lowest, F!Lowest
<1>18. \A r : Front!TakeEarly(r) => F!TakeEarly(r)
  BY <1>2, <1>17 DEF Front!TakeEarly, F!TakeEarly, Front!OnTurn, F!OnTurn, Front!InTurn, F!InTurn
<1>19. Front!Receive => F!Receive
  BY <1>3, <1>16, <1>18 DEF Front!Receive, F!Receive, Front!Waits, F!Waits
<1>20. Front!Next => F!Next
  <2>1. Front!Demod => F!Demod BY <1>14, <1>15, <1>19 DEF Front!Demod, F!Demod
  <2>2. \A w \in Workers : Front!Worker(w) \/ Front!Die(w) => F!Worker(w) \/ F!Die(w)
    BY <1>12, <1>13 DEF Front!Worker, F!Worker
  <2>3. (\E x \in Items : Front!ReadDecoded(x) \/ Front!ReadSpare(x) \/ Front!ReadSamples(x))
          => \E x \in Items : F!ReadDecoded(x) \/ F!ReadSpare(x) \/ F!ReadSamples(x)
    BY <1>8
  <2>4. QED BY <1>9, <2>1, <2>2, <2>3 DEF Front!Next, F!Next
<1>21. [Front!Next]_(Front!vars) => [F!Next]_(F!vars)
  <2>1. UNCHANGED Front!vars => UNCHANGED F!vars BY DEF Front!vars, F!vars
  <2>2. QED BY <2>1, <1>20
<1>22. /\ Front!InPool = F!InPool /\ \A rs : Front!ItemsOf(rs) = F!ItemsOf(rs)
       /\ Front!Held = F!Held
  BY <1>2 DEF F!ItemsOf, Front!ItemsOf, F!InPool, Front!InPool, F!Held, Front!Held
<1>23. F!OnePlace => Front!OnePlace BY <1>2, <1>3, <1>22 DEF F!OnePlace, Front!OnePlace
<1>24. F!NoneBehind /\ F!InOrderUnlessJumped => Front!NoneBehind /\ Front!InOrderUnlessJumped
  BY <1>2 DEF F!NoneBehind, F!InOrderUnlessJumped, Front!NoneBehind, Front!InOrderUnlessJumped
<1>25. QED BY <1>5, <1>6, <1>21, <1>23, <1>24

-----------------------------------------------------------------------------
(* Each part is left alone by the others.                                  *)

LEMMA PartsApart ==
  ASSUME [Next]_vars
  PROVE  /\ part' = part
         /\ [Tx!Next]_(Tx!vars) /\ [Rx!Next]_(Rx!vars) /\ [Play!Next]_(Play!vars)
         /\ [Start!Next]_(Start!vars) /\ [Phone!Next]_(Phone!vars) /\ [Panel!Next]_(Panel!vars)
         /\ [Front!Next]_(Front!vars)
<1>1. UNCHANGED txVars => UNCHANGED Tx!vars
  BY DEF txVars, Tx!vars, Tx!app, Tx!host, Tx!board
<1>2. UNCHANGED rxVars => UNCHANGED Rx!vars
  BY DEF rxVars, Rx!vars, Rx!link
<1>3. UNCHANGED playVars => UNCHANGED Play!vars
  BY DEF playVars, Play!vars
<1>4. UNCHANGED startVars => UNCHANGED Start!vars
  BY DEF startVars, Start!vars, Start!board, Start!asking, Start!work
<1>5. UNCHANGED phoneVars => UNCHANGED Phone!vars
  BY DEF phoneVars, Phone!vars
<1>6. UNCHANGED panelVars => UNCHANGED Panel!vars
  BY DEF panelVars, Panel!vars, Panel!worker, Panel!board, Panel!operator
<1>7. UNCHANGED frontVars => UNCHANGED Front!vars
  BY DEF frontVars, Front!vars, Front!board, Front!pool, Front!turn
<1>8. /\ part' = part
      /\ Tx!Next \/ UNCHANGED txVars
      /\ Rx!Next \/ UNCHANGED rxVars
      /\ Play!Next \/ UNCHANGED playVars
      /\ Start!Next \/ UNCHANGED startVars
      /\ Phone!Next \/ UNCHANGED phoneVars
      /\ Panel!Next \/ UNCHANGED panelVars
      /\ Front!Next \/ UNCHANGED frontVars
  BY DEF Next, TxNext, RxNext, PlayNext, StartNext, PhoneNext, PanelNext, FrontNext, vars
<1>9. QED
  BY <1>1, <1>2, <1>3, <1>4, <1>5, <1>6, <1>7, <1>8

LEMMA PartsAssumed ==
  /\ Rx!RxLinkAssumption /\ Play!PlayoutAssumption /\ Phone!PhoneOrderAssumption
  /\ Panel!ConsoleAssumption /\ Front!PredemodAssumption
BY EndsAssumption DEF EndsAssumption

-----------------------------------------------------------------------------
(* The results.                                                            *)

\* A new connection is only dialled when every handle of the last one is gone, and a transmitter
\* that was switched off keeps the board's port only if it was switched off while it dialled: in
\* every interleaving of the thread of the connection, the sender, the host and the board (net.rs).
THEOREM OldHandlesGone == Spec => []NoOldHandle
<1>1. Init => TxInv
  BY TxInitInv DEF Init
<1>2. TxInv /\ [Next]_vars => TxInv'
  BY TxNextInv, PartsApart
<1>3. TxInv => NoOldHandle
  BY DEF TxInv, TxOffIsKnown, NoOldHandle, Tx!PortKeptOnlyIfMissed
<1>4. QED
  BY <1>1, <1>2, <1>3, PTL DEF Spec

\* A capture that comes over UDP is handed on whole, its datagrams in order, whatever was lost,
\* mixed or repeated (udp_loop).
THEOREM HandedOnWhole == Spec => []WholeOnly
<1>1. Init => RxInv
  BY RxInitInv DEF Init
<1>2. RxInv /\ [Next]_vars => RxInv'
  BY RxNextInv, PartsApart, PartsAssumed
<1>3. RxInv => WholeOnly
  BY DEF RxInv, WholeOnly
<1>4. QED
  BY <1>1, <1>2, <1>3, PTL DEF Spec

\* The screen never goes back to an older picture, whatever was put back and pushed meanwhile
\* (spawn_playout).
THEOREM ShownNeverOlder == Spec => Play!ShownInOrder
<1>1. Init => PlayInv
  BY PlayInitInv DEF Init
<1>2. PlayInv /\ [Next]_vars => PlayInv' /\ [shown' >= shown]_shown
  BY PlayNextInv, PartsApart, PartsAssumed
<1>3. QED
  BY <1>1, <1>2, PTL DEF Spec, Play!ShownInOrder

\* A screen whose board answered in its role is never left because of an answer of an earlier
\* time: in every interleaving of the poll, the preparation and the host (start.rs, take_over).
THEOREM FollowsOnlyOthers == Spec => FollowsOthersOnly
<1>1. Init => StartInv
  BY StartInitInv DEF Init
<1>2. StartInv /\ [Next]_vars => StartInv'
  BY StartNextInv, PartsApart
<1>3. StartInv /\ [Next]_vars => [Start!Follow /\ placed => others > 0]_(Start!vars)
  BY StartFollowSeesOthers
<1>4. QED
  BY <1>1, <1>2, <1>3, PTL DEF Spec, FollowsOthersOnly, Start!FollowsOthersOnly

\* The phone's decoder gets frames in order, each once, whatever is completed late, again or in
\* part, and whether or not the transmitter was started anew (session).
THEOREM AlwaysFedInOrder == Spec => FedInOrder
<1>1. Init => PhoneInv
  BY PhoneInitInv, PartsAssumed DEF Init
<1>2. PhoneInv /\ [Next]_vars => PhoneInv' /\ [fed' >= fed]_fed
  BY PhoneNextInv, PartsApart, PartsAssumed
<1>3. QED
  BY <1>1, <1>2, PTL DEF Spec, FedInOrder, Phone!FedInOrder

\* Whatever the operator orders, whichever board is named and whatever comes too late, an answer is
\* taken for that of the command it belongs to, and an order whose answer is lost is not given
\* again (boardctl.rs, transact, run_worker).
THEOREM AnswersAlwaysMatch == Spec => []AnswersMatch
<1>1. Init => PanelInv
  BY PanelInitInv DEF Init
<1>2. PanelInv /\ [Next]_vars => PanelInv'
  BY PanelNextInv, PartsApart, PartsAssumed
<1>3. PanelInv => AnswersMatch
  BY DEF PanelInv, PanelTypeOK, PanelNotDoneYet, AnswersMatch, Panel!OnceAtMost
<1>4. QED
  BY <1>1, <1>2, <1>3, PTL DEF Spec

\* Each capture the board sent is in one place, neither copied nor forgotten; none waits for a turn
\* that passed; and results are consumed in the order of the queue but for those the valve gave up:
\* in every interleaving of the reading thread, the workers and demod_loop (lib.rs).
THEOREM AlwaysOnceInOrder == Spec => []OnceInOrder
<1> DEFINE P == part = "front"
<1>1. F!PredemodAssumption BY EndsAssumption, SameFront DEF EndsAssumption
<1>2. F!Init /\ [][F!Next]_(F!vars) => []F!OnePlace BY <1>1, F!EachInOnePlace
<1>3. F!Init /\ [][F!Next]_(F!vars) => []F!NoneBehind BY <1>1, F!NoResultBehind
<1>4. F!Init /\ [][F!Next]_(F!vars) => []F!InOrderUnlessJumped BY <1>1, F!ConsumedInOrder
<1>5. Init => (P => F!Init) BY SameFront DEF Init
<1>6. [Next]_vars => (P' <=> P) /\ (P => [F!Next]_(F!vars))
  <2> SUFFICES ASSUME [Next]_vars PROVE (P' <=> P) /\ (P => [F!Next]_(F!vars)) OBVIOUS
  <2>1. part' = part /\ [Front!Next]_(Front!vars)
    BY DEF Next, TxNext, RxNext, PlayNext, StartNext, PhoneNext, PanelNext, FrontNext, vars,
      frontVars, Front!vars, Front!board, Front!pool, Front!turn
  <2>2. QED BY <2>1, SameFront
<1>7. (P => F!OnePlace /\ F!NoneBehind /\ F!InOrderUnlessJumped) => OnceInOrder
  BY SameFront DEF OnceInOrder
<1> HIDE DEF P
<1>8. QED BY <1>2, <1>3, <1>4, <1>5, <1>6, <1>7, PTL DEF Spec
=============================================================================
