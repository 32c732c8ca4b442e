-------------------------------- MODULE Ends --------------------------------
(***************************************************************************)
(* The programs around the video pipeline, which share with it and with    *)
(* each other no more than a board they talk to: the connections of the    *)
(* transmitter (TxLink) and of the receiver (RxLink) to their boards, the  *)
(* receiver's playout (Playout), the start screen (Chooser), the phone's   *)
(* ordering of frames (PhoneOrder), the console of a board (Console); and  *)
(* the front of the receiver (Predemod), between its connection and        *)
(* demod_loop.  A behaviour is of one of them; the variables of the others *)
(* stay.                                                                   *)
(***************************************************************************)
EXTENDS Integers

CONSTANTS
  BUF, MaxHost,                 \* TxLink
  Boards, Pieces,               \* RxLink
  Pictures, CAP, DEPTH,         \* Playout
  Switches,                     \* Chooser
  Frames, Reach, LAG, WINDOW,   \* PhoneOrder
  Consoles, Questions, Orders,  \* Console
  Workers, IQ_CAP, PRE_CAP, STASH_CAP, VALVE, Items, MaxDeaths  \* Predemod

VARIABLES
  part,
  net, writer, ctl, connected, sender, off, udp, link, buf, up, reads, relays, shutting, asked,
  missed, cut,
  rxCalm, rxThere, rxUdp, rxAddr, rxNet, rxAt, rxOver, rxFar, rxShut, rxWriter, rxBlocked, rxHand,
  rxHeard, rxConnected, rxCur, rxHanded,
  made, queue, hand, shown, window, smooth, drags,
  quiet, role, boardUp, others, slot, poll, busy, prep, want, setRole, hosted, placed,
  sent, again, begun, next, pend, fed, top, dropped,
  own, still, asks, to, given, todo, due, at, goal, batch, conn, questions, told, kv, online, away,
  done,
  arrived, iq, stash, aged, covering, idxGen, work, worked, deaths, pre, demod, nextIdx, pending,
  consumed, jumped, gone

Tx == INSTANCE TxLink
Rx == INSTANCE RxLink WITH
  calm <- rxCalm, there <- rxThere, udp <- rxUdp, addr <- rxAddr, net <- rxNet, at <- rxAt,
  over <- rxOver, far <- rxFar, shut <- rxShut, writer <- rxWriter, blocked <- rxBlocked,
  hand <- rxHand, heard <- rxHeard, connected <- rxConnected, cur <- rxCur, handed <- rxHanded
Play == INSTANCE Playout
Start == INSTANCE Chooser WITH up <- boardUp
Phone == INSTANCE PhoneOrder WITH missed <- dropped
Panel == INSTANCE Console WITH asked <- questions
Front == INSTANCE Predemod WITH done <- worked, next <- nextIdx

ASSUME EndsAssumption ==
  /\ Tx!TxLinkAssumption /\ Rx!RxLinkAssumption /\ Play!PlayoutAssumption
  /\ Start!ChooserAssumption /\ Phone!PhoneOrderAssumption /\ Panel!ConsoleAssumption
  /\ Front!PredemodAssumption

txVars == <<net, writer, ctl, connected, sender, off, udp, link, buf, up, reads, relays, shutting,
            asked, missed, cut>>
rxVars == <<rxCalm, rxThere, rxUdp, rxAddr, rxNet, rxAt, rxOver, rxFar, rxShut, rxWriter,
            rxBlocked, rxHand, rxHeard, rxConnected, rxCur, rxHanded>>
playVars == <<made, queue, hand, shown, window, smooth, drags>>
startVars == <<quiet, role, boardUp, others, slot, poll, busy, prep, want, setRole, hosted, placed>>
phoneVars == <<sent, again, begun, next, pend, fed, top, dropped>>
panelVars == <<own, still, asks, to, given, todo, due, at, goal, batch, conn, questions, told, kv,
               online, away, done>>
frontVars == <<arrived, iq, stash, aged, covering, idxGen, work, worked, deaths, pre, demod, nextIdx,
               pending, consumed, jumped, gone>>
vars == <<part, txVars, rxVars, playVars, startVars, phoneVars, panelVars, frontVars>>

\* What does not take part starts in one of its states only.
Init ==
  /\ part \in {"tx", "rx", "play", "start", "phone", "panel", "front"}
  /\ Tx!Init /\ (part # "tx" => ~off /\ ~udp /\ up)
  /\ Rx!Init
  /\ Play!Init /\ (part # "play" => ~smooth)
  /\ Start!Init /\ (part # "start" => role = "rx" /\ want = "rx")
  /\ Phone!Init
  /\ Panel!Init /\ (part # "panel" => own /\ away = {} /\ to = CHOOSE c \in Consoles : TRUE)
  /\ Front!Init

TxNext ==
  /\ part = "tx" /\ Tx!Next
  /\ UNCHANGED <<part, rxVars, playVars, startVars, phoneVars, panelVars, frontVars>>
RxNext ==
  /\ part = "rx" /\ Rx!Next
  /\ UNCHANGED <<part, txVars, playVars, startVars, phoneVars, panelVars, frontVars>>
PlayNext ==
  /\ part = "play" /\ Play!Next
  /\ UNCHANGED <<part, txVars, rxVars, startVars, phoneVars, panelVars, frontVars>>
StartNext ==
  /\ part = "start" /\ Start!Next
  /\ UNCHANGED <<part, txVars, rxVars, playVars, phoneVars, panelVars, frontVars>>
PhoneNext ==
  /\ part = "phone" /\ Phone!Next
  /\ UNCHANGED <<part, txVars, rxVars, playVars, startVars, panelVars, frontVars>>
PanelNext ==
  /\ part = "panel" /\ Panel!Next
  /\ UNCHANGED <<part, txVars, rxVars, playVars, startVars, phoneVars, frontVars>>
FrontNext ==
  /\ part = "front" /\ Front!Next
  /\ UNCHANGED <<part, txVars, rxVars, playVars, startVars, phoneVars, panelVars>>

Next == TxNext \/ RxNext \/ PlayNext \/ StartNext \/ PhoneNext \/ PanelNext \/ FrontNext

-----------------------------------------------------------------------------

\* The threads run and their time limits pass; a board that reads does read.
TxFair ==
  /\ WF_txVars(part = "tx" /\ Tx!NetThread)
  /\ WF_txVars(part = "tx" /\ (Tx!WriteGoesOn \/ Tx!WriteFails))
  /\ WF_txVars(part = "tx" /\ Tx!Write)
  /\ WF_txVars(part = "tx" /\ Tx!ShutDown)
  /\ WF_txVars(part = "tx" /\ Tx!BoardReads)

\* rx-net runs, the operator's click is carried out, and the kernel ends a write that waits.
RxFair ==
  /\ WF_rxVars(part = "rx" /\ Rx!Reader)
  /\ WF_rxVars(part = "rx" /\ Rx!Beat)
  /\ WF_rxVars(part = "rx" /\ Rx!Pull)
  /\ WF_rxVars(part = "rx" /\ rxBlocked /\ Rx!WriteReturns)

\* The playout thread ticks; a thread that publishes comes to it.
PlayFair ==
  /\ WF_playVars(part = "play" /\ (Play!TakeNewest \/ Play!TakeOldest))
  /\ WF_playVars(part = "play" /\ Play!Publish)

\* The poll, the preparation and the host's frames go on; a board that restarts comes back.
StartFair ==
  /\ WF_startVars(part = "start" /\ Start!Poll)
  /\ WF_startVars(part = "start" /\ Start!Prepare)
  /\ WF_startVars(part = "start" /\ Start!Host)
  /\ WF_startVars(part = "start" /\ Start!Restarted)

\* The transmitter goes on sending, blocks come from the board, and time passes; blocks come more
\* often than one frame is handed over in part again, whose wait begins anew.
PhoneFair ==
  /\ WF_phoneVars(part = "phone" /\ Phone!Sends)
  /\ WF_phoneVars(part = "phone" /\ Phone!Blocks)
  /\ SF_phoneVars(part = "phone" /\ Phone!BlockAfterHold)
  /\ WF_phoneVars(part = "phone" /\ Phone!HoldOver)

\* The console's thread runs, its board answers unless it is away, and seconds pass.
PanelFair ==
  /\ WF_panelVars(part = "panel" /\ Panel!Worker)
  /\ WF_panelVars(part = "panel" /\ Panel!Answers)
  /\ WF_panelVars(part = "panel" /\ Panel!Second)

\* The receiver's threads run, and the clock goes on; the board need not send anything.
FrontFair ==
  /\ WF_frontVars(part = "front" /\ Front!Demod)
  /\ WF_frontVars(part = "front" /\ Front!SpareAges)
  /\ \A w \in Workers : WF_frontVars(part = "front" /\ Front!Worker(w))

Spec ==
  /\ Init /\ [][Next]_vars
  /\ TxFair /\ RxFair /\ PlayFair /\ StartFair /\ PhoneFair /\ PanelFair
  /\ FrontFair

-----------------------------------------------------------------------------

\* A new connection is only dialled when every handle of the last one is gone, and a transmitter
\* switched off keeps the board's port only if it was switched off while it dialled (net.rs).
NoOldHandle == part = "tx" => Tx!NoOldHandle /\ Tx!PortKeptOnlyIfMissed
\* The transmitter can write again once its board is well and nothing else is asked (net.rs).
WritesAgain == part = "tx" => Tx!WritesAgain
\* The receiver hears its board again, and the one asked for, once all is calm (spawn_net).
TwoWayAgain == Rx!TwoWayAgain
\* A capture over UDP is of one piece (udp_loop).
WholeOnly == part = "rx" => Rx!WholeOnly
\* The screen never goes back to an older picture, and the last one pushed is shown in the end
\* (spawn_playout).
ShownToTheLast == Play!ShownInOrder /\ Play!LastShown
\* No answer of an earlier time makes the host change ends (take_over, follow).
FollowsOthersOnly == Start!FollowsOthersOnly
\* The device ends on the end its board is, or on the start screen with its buttons (Chooser),
\* and an application's console on the board whose address is in its box (boardctl).
ShowsItsBoard == Start!ShowsItsBoard /\ (part = "panel" => Panel!ShowsAsked)
\* The phone's decoder gets frames in order, each once (session).
FedInOrder == Phone!FedInOrder
\* No hole holds completed frames back for ever (session).
NothingWaits == Phone!NothingWaits
\* No answer of a console is taken for another command's, and no order of the operator is carried
\* out twice (boardctl, nyx-board).
AnswersMatch == part = "panel" => Panel!AnswersMatch /\ Panel!OnceAtMost
\* Captures are neither copied nor forgotten on their way, none waits for a turn that passed, and
\* results are consumed in the order of the queue, but for those the valve gave up (demod_loop).
OnceInOrder ==
  part = "front" => Front!OnePlace /\ Front!NoneBehind /\ Front!InOrderUnlessJumped
\* Whatever stores are full, the captures that came are consumed or dropped in the end.
Settles == part = "front" => Front!Settles

\* What the comment at net.rs 179-182 promises: a transmitter whose board is well dials again
\* after a write that timed out.
Reconnects == part = "tx" => Tx!Reconnects
\* What the code says and does not do: frames of a restarted transmitter are taken after a window
\* at the latest (nyx-mobile, the guard against id gaps).
RestartTaken == Phone!RestartTaken
=============================================================================
