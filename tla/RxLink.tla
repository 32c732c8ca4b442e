------------------------------- MODULE RxLink -------------------------------
(***************************************************************************)
(* The receiver's way to its board (nyx-rx): the thread rx-net, which      *)
(* dials over TCP and reads, or listens over UDP; the thread net-writer,   *)
(* which writes with the writer's lock held; the operator, who changes     *)
(* the address or the transport and then takes the writer to shut the old  *)
(* connection down.  Three threads, two flags and one lock.                *)
(*                                                                         *)
(* What a capture holds is left out; over UDP it comes in numbered pieces, *)
(* which is what WholeOnly is about.                                       *)
(***************************************************************************)
EXTENDS Naturals, Sequences

CONSTANTS
  Boards,  \* the addresses an operator may type
  Pieces   \* datagrams of one capture over UDP (nchunks)

RxLinkAssumption == Boards # {} /\ Pieces \in Nat \ {0}

VARIABLES
  calm,       \* the operator's and the network's changes are over
  there,      \* the boards that answer
  udp, addr,  \* shared.udp_mode, shared.channel_addr: what was asked for
  net,        \* where rx-net is
  at, over,   \* the address and transport rx-net took last
  far,        \* the other end of its connection: well, gone, or silent without a word
  shut,       \* the connection was shut down from here
  writer,     \* shared.writer holds a stream
  blocked,    \* net-writer is inside write_msg, with the lock of the writer
  hand,       \* the operator: idle, or pressed and about to take the writer
  heard,      \* the last press did not fall into a dial, nor into a UDP session to another board
  connected,  \* the light on the screen
  cur,        \* the capture put together from datagrams: whose, and its pieces
  handed      \* the pieces of the capture handed on last over UDP

link == <<net, at, over, far, shut, writer, blocked, connected>>
vars == <<calm, there, udp, addr, link, hand, heard, cur, handed>>

Nothing == [of |-> 0, pieces |-> << >>]
Captures == {1, 2}

Init ==
  /\ calm = FALSE /\ there = Boards
  /\ udp = FALSE /\ addr = CHOOSE b \in Boards : TRUE
  /\ net = "top" /\ at = addr /\ over = "tcp" /\ far = "well" /\ shut = FALSE
  /\ writer = FALSE /\ blocked = FALSE /\ connected = FALSE
  /\ hand = "idle" /\ heard = TRUE /\ cur = Nothing /\ handed = << >>

-----------------------------------------------------------------------------
(* rx-net                                                                  *)

Take(o) == /\ net = "top" /\ at' = addr /\ over' = o /\ shut' = FALSE /\ far' = "well"

\* TcpStream::connect to the address as it was when the dial began.
Dial ==
  /\ ~udp /\ Take("tcp") /\ net' = "dialling"
  /\ UNCHANGED <<calm, there, udp, addr, writer, blocked, connected, hand, heard, cur, handed>>

Answered ==
  /\ net = "dialling"
  /\ \/ at \in there /\ net' = "dialled" /\ connected' = TRUE
     \/ at \notin there /\ net' = "top" /\ connected' = connected
  /\ UNCHANGED <<calm, there, udp, addr, at, over, far, shut, writer, blocked, hand, heard, cur, handed>>

\* The stream goes to the other threads.
Store ==
  /\ net = "dialled" /\ ~blocked
  /\ writer' = TRUE /\ net' = "read"
  /\ UNCHANGED <<calm, there, udp, addr, at, over, far, shut, blocked, connected, hand, heard, cur, handed>>

\* (faulty variant: no read timeout on the connection)
ReadWaits == shut \/ far = "gone"
\* read_msg fails: end of file, reset, or ten seconds without a byte.
ReadEnds == shut \/ far \in {"gone", "silent"}

ReadFails ==
  /\ net = "read" /\ ReadEnds
  /\ net' = "left" /\ connected' = FALSE
  /\ UNCHANGED <<calm, there, udp, addr, at, over, far, shut, writer, blocked, hand, heard, cur, handed>>

Leave ==
  /\ net = "left" /\ ~blocked
  /\ writer' = FALSE /\ net' = "top"
  /\ UNCHANGED <<calm, there, udp, addr, at, over, far, shut, blocked, connected, hand, heard, cur, handed>>

\* The other transport: a socket, its registration, and a capture not begun.
Listen ==
  /\ udp /\ Take("udp") /\ net' = "udp" /\ cur' = Nothing
  /\ UNCHANGED <<calm, there, udp, addr, writer, blocked, connected, hand, heard, handed>>

\* The light over UDP: three seconds without a datagram put it out.
Beat ==
  /\ net = "udp" /\ udp /\ connected' = (at \in there)
  /\ UNCHANGED <<calm, there, udp, addr, net, at, over, far, shut, writer, blocked, hand, heard, cur, handed>>

StopListening ==
  /\ net = "udp" /\ ~udp
  /\ net' = "top" /\ connected' = FALSE /\ cur' = Nothing
  /\ UNCHANGED <<calm, there, udp, addr, at, over, far, shut, writer, blocked, hand, heard, handed>>

\* Piece i of capture c arrives.  Piece 0 opens a capture; a piece out of its place drops it.
Opened(c, i) == IF i = 0 THEN [of |-> c, pieces |-> << >>] ELSE cur
\* (faulty variant: the capture's number is not compared)
AnyCapture(open, c, i) == open.of # 0 /\ Len(open.pieces) = i
InPlace(open, c, i) == open.of = c /\ Len(open.pieces) = i

Piece(c, i) ==
  LET open == Opened(c, i)
      got == Append(open.pieces, <<c, i>>)
      whole == InPlace(open, c, i) /\ Len(got) = Pieces
  IN  /\ net = "udp" /\ udp /\ at \in there /\ ~calm
      /\ connected' = TRUE
      /\ handed' = IF whole THEN got ELSE handed
      /\ cur' = IF InPlace(open, c, i) /\ ~whole THEN [open EXCEPT !.pieces = got] ELSE Nothing
      /\ UNCHANGED <<calm, there, udp, addr, net, at, over, far, shut, writer, blocked, hand, heard>>

-----------------------------------------------------------------------------
(* net-writer                                                              *)

\* The socket's buffer is full: the write waits, and the lock with it.
WriteBlocks ==
  /\ net # "udp" /\ writer /\ ~blocked /\ ~calm /\ far # "gone"
  /\ blocked' = TRUE
  /\ UNCHANGED <<calm, there, udp, addr, net, at, over, far, shut, writer>>
  /\ UNCHANGED <<connected, hand, heard, cur, handed>>

\* A write returns: with success, or with an error when the other end is not well.
WriteReturns ==
  /\ writer /\ (blocked \/ far # "well" \/ shut)
  /\ blocked' = FALSE
  /\ writer' = (far = "well" /\ ~shut)
  /\ UNCHANGED <<calm, there, udp, addr, net, at, over, far, shut, connected, hand, heard, cur, handed>>

-----------------------------------------------------------------------------
(* The operator                                                            *)

Hears(b) == net \notin {"dialling", "dialled"} /\ (net = "udp" => ~udp \/ at = b)

\* The flag or the address first ...
Press(b, u) ==
  /\ ~calm /\ hand = "idle" /\ (b = addr \/ u = udp)
  /\ addr' = b /\ udp' = u /\ hand' = "pressed" /\ heard' = FALSE
  /\ UNCHANGED <<calm, there, link, cur, handed>>

\* (faulty variant: the writer is only dropped)
OnlyDrops == FALSE
\* ... then, with the lock, the writer is taken and its connection shut down.
ShutsDown == writer
Pull ==
  /\ hand = "pressed" /\ ~blocked
  /\ hand' = "idle" /\ heard' = Hears(addr)
  /\ writer' = FALSE /\ shut' = (shut \/ ShutsDown)
  /\ UNCHANGED <<calm, there, udp, addr, net, at, over, far, blocked, connected, cur, handed>>

-----------------------------------------------------------------------------
(* The network and the boards                                              *)

Breaks ==
  /\ ~calm /\ over = "tcp" /\ net \in {"dialled", "read"}
  /\ far = "well" /\ far' \in {"gone", "silent"}
  /\ UNCHANGED <<calm, there, udp, addr, net, at, over, shut, writer>>
  /\ UNCHANGED <<blocked, connected, hand, heard, cur, handed>>

Away(b) ==
  /\ ~calm
  /\ there' = IF b \in there THEN there \ {b} ELSE there \cup {b}
  /\ far' = IF b = at /\ b \in there /\ net \in {"dialled", "read"} THEN "gone" ELSE far
  /\ UNCHANGED <<calm, udp, addr, net, at, over, shut, writer, blocked, connected, hand, heard, cur, handed>>

Calms ==
  /\ ~calm /\ calm' = TRUE /\ there' = Boards
  /\ UNCHANGED <<udp, addr, link, hand, heard, cur, handed>>

Reader == Dial \/ Answered \/ Store \/ ReadFails \/ Leave \/ Listen \/ StopListening
Next ==
  \/ Reader \/ Beat \/ (\E c \in Captures, i \in 0..Pieces - 1 : Piece(c, i))
  \/ WriteBlocks \/ WriteReturns
  \/ Pull \/ (\E b \in Boards, u \in BOOLEAN : Press(b, u))
  \/ Breaks \/ Calms \/ (\E b \in Boards : Away(b))

-----------------------------------------------------------------------------

\* A connection that carries both ways: over UDP the socket, over TCP a reader and a writer of
\* one connection whose other end is well.
TwoWay ==
  /\ connected
  /\ \/ net = "udp"
     \/ net = "read" /\ writer /\ ~shut /\ far = "well"

\* Once the disturbances are over the receiver hears its board and can answer it, whatever broke
\* before: a connection half open (spawn_net's watchdog), a write that waits with the lock, a
\* connection taken away under the reader.
\* And it is the board and the transport the operator asked for last, if that press was one the
\* reader could hear.
TwoWayAgain == <>[]calm => <>[](TwoWay /\ (heard => at = addr /\ (over = "udp") = udp))

\* What is handed on over UDP is one whole capture, its pieces in order, never a mixture of two
\* (cap_seq and chunk).
WholeOnly ==
  handed = << >> \/ \E c \in Captures : handed = [i \in 1..Pieces |-> <<c, i - 1>>]
=============================================================================
