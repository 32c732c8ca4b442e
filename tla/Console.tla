------------------------------ MODULE Console ------------------------------
(***************************************************************************)
(* A program's console to a board (boardctl.rs, inside the applications,   *)
(* and nyx-board, a window of its own): a thread that takes the operator's *)
(* commands and its own questions, a command and its answer at a time, and *)
(* keeps the last answers for the window.  Over a connection the board     *)
(* answers in order; an answer not there in time ends the connection.      *)
(***************************************************************************)
EXTENDS Integers, SequencesExt

CONSTANTS
  Consoles,   \* addresses of boards
  Questions,  \* the commands of the poll
  Orders      \* the operator's commands, each given once

ConsoleAssumption ==
  Questions # {} /\ IsFiniteSet(Questions) /\ Questions \cap Orders = {}

VARIABLES
  own,    \* nyx-board, a window of its own; or boardctl
  still,  \* from now on the operator leaves the address, and the boards answer
  asks,   \* the poll is on
  to,     \* the address in the box
  given,  \* commands the operator gave
  todo,   \* cmd_rx: of them, those not taken yet
  due,    \* a second has passed since the last poll
  at,     \* where the worker is: "idle", "dial", "talk", "wait"
  goal,   \* the address it read before dialling
  batch,  \* commands of this round
  conn,   \* the board it is connected to, or none
  asked,  \* commands on their way to that board
  told,   \* answers on their way back: the command each belongs to
  kv,     \* for each command answered: whose answer was taken for it
  online, \* State::connected
  away,   \* boards that do not answer
  done    \* how often each of the operator's commands was carried out

worker == <<at, goal, batch, conn, kv, online>>
board == <<asked, told, away, done>>
operator == <<own, still, asks, to, given, todo>>
vars == <<worker, board, operator, due>>

None == "none"

Init ==
  /\ own \in BOOLEAN /\ still = FALSE /\ asks = TRUE /\ to \in Consoles /\ given = {} /\ todo = <<>>
  /\ due = FALSE /\ at = "idle" /\ goal = None /\ batch = <<>> /\ conn = None
  /\ asked = <<>> /\ told = <<>> /\ kv = <<>> /\ online = FALSE
  /\ away \in SUBSET Consoles /\ done = [c \in Orders |-> 0]

-----------------------------------------------------------------------------
(* The worker                                                              *)

\* The address was changed: boardctl drops the connection, nyx-board keeps it.
Moved(b) == ~own /\ b # to

\* One command of the operator, then the poll if it is time; the address is read once.
Wake ==
  /\ at = "idle"
  /\ todo # <<>> \/ (asks /\ due)
  /\ \E qs \in {SetToSeq(Questions)} :
       batch' = (IF todo # <<>> THEN <<Head(todo)>> ELSE <<>>) \o (IF asks /\ due THEN qs ELSE <<>>)
  /\ todo' = IF todo # <<>> THEN Tail(todo) ELSE todo
  /\ due' = (due /\ ~asks)
  /\ IF conn # None /\ ~Moved(conn)
     THEN at' = "talk" /\ online' = TRUE /\ UNCHANGED <<conn, goal, asked, told>>
     ELSE at' = "dial" /\ goal' = to /\ conn' = None /\ asked' = <<>> /\ told' = <<>> /\ online' = online
  /\ UNCHANGED <<kv, away, done, own, still, asks, to, given>>

\* The board answers the call, or the whole round is dropped.
Dial ==
  /\ at = "dial"
  /\ IF goal \notin away
     THEN at' = "talk" /\ conn' = goal /\ online' = TRUE /\ batch' = batch
     ELSE at' = "idle" /\ conn' = None /\ online' = FALSE /\ batch' = <<>>
  /\ UNCHANGED <<goal, kv, asked, told, away, done, operator, due>>

\* transact: a command is written ...
Ask ==
  /\ at = "talk" /\ batch # <<>>
  /\ asked' = Append(asked, Head(batch)) /\ at' = "wait"
  /\ UNCHANGED <<goal, batch, conn, kv, online, told, away, done, operator, due>>

\* ... and its answer read, up to the line that closes it, and taken in.
Hear ==
  /\ at = "wait" /\ told # <<>>
  /\ kv' = [c \in DOMAIN kv \cup {Head(batch)} |->
              IF c = Head(batch) THEN [of |-> Head(told), from |-> conn] ELSE kv[c]]
  /\ told' = Tail(told) /\ batch' = Tail(batch)
  /\ at' = IF Tail(batch) = <<>> THEN "idle" ELSE "talk"
  /\ UNCHANGED <<goal, conn, online, asked, away, done, operator, due>>

\* (faulty variant: the connection is kept, and the next command asked over it)
KeptInError == conn
\* The connection after an error.
LeftInError == None

\* No answer in time, or the connection is closed: it is dropped with the rest of the round, and
\* what the operator ordered is not asked again.
Fails ==
  /\ at = "wait" /\ told = <<>>
  /\ conn \in away
  /\ conn' = LeftInError /\ online' = FALSE /\ batch' = <<>> /\ at' = "idle"
  /\ IF conn' = None THEN asked' = <<>> /\ told' = <<>> ELSE UNCHANGED <<asked, told>>
  \* the board may have read the command, and have carried it out
  /\ \E n \in 0..Len(asked) :
       done' = [c \in DOMAIN done |->
                  IF conn' = None /\ \E i \in 1..n : asked[i] = c THEN done[c] + 1 ELSE done[c]]
  /\ UNCHANGED <<goal, kv, away, operator, due>>

-----------------------------------------------------------------------------
(* The board, the clock, the operator                                      *)

\* The board carries out the next command and answers it.
Answers ==
  /\ asked # <<>> /\ conn \notin away
  /\ told' = Append(told, Head(asked)) /\ asked' = Tail(asked)
  /\ done' = [c \in DOMAIN done |-> IF c = Head(asked) THEN done[c] + 1 ELSE done[c]]
  /\ UNCHANGED <<worker, away, operator, due>>

Second == ~due /\ due' = TRUE /\ UNCHANGED <<worker, board, operator>>

Order ==
  /\ \E c \in Orders \ given : given' = given \cup {c} /\ todo' = Append(todo, c)
  /\ UNCHANGED <<worker, board, own, still, asks, to, due>>

Address ==
  /\ ~still /\ (\E a \in Consoles \ {to} : to' = a)
  /\ UNCHANGED <<worker, board, own, still, asks, given, todo, due>>

\* The poll is a box of nyx-board's window only.
Toggle ==
  /\ own /\ ~still /\ asks' = ~asks
  /\ UNCHANGED <<worker, board, own, still, to, given, todo, due>>

\* A board comes back or stays away: too slow, or gone.
Wavers ==
  /\ ~still /\ (\E b \in Consoles : away' \in {away \cup {b}, away \ {b}} /\ away' # away)
  /\ UNCHANGED <<worker, asked, told, done, operator, due>>

Settles ==
  /\ ~still /\ still' = TRUE /\ away' = {}
  /\ UNCHANGED <<worker, asked, told, done, own, asks, to, given, todo, due>>

Worker == Wake \/ Dial \/ Ask \/ Hear \/ Fails
Next == Worker \/ Answers \/ Second \/ Order \/ Address \/ Toggle \/ Wavers \/ Settles

-----------------------------------------------------------------------------

\* No answer is taken for that of another command: what came too late went with its connection.
AnswersMatch == \A c \in DOMAIN kv : kv[c].of = c

\* A command of the operator is carried out once at the most, whatever became of its answer.
OnceAtMost == \A c \in DOMAIN done : done[c] <= 1

\* An application's window comes to show the board whose address is in its box.
ShowsAsked ==
  <>[](still /\ ~own) => <>[](\A q \in Questions : q \in DOMAIN kv /\ kv[q].from = to)
=============================================================================
