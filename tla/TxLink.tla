------------------------------ MODULE TxLink ------------------------------
(***************************************************************************)
(* The connection of the transmitter to its board (nyx-tx,                 *)
(* apps/video/nyx-tx/src/net.rs).  One thread dials the board and, once    *)
(* connected, reads what the board relays until the connection fails; the  *)
(* sender thread writes to it under a lock, for at most two seconds; the   *)
(* host (a window, or the on-board camera application) switches the        *)
(* transmitter off and on, changes the transport and asks for a new        *)
(* connection, by shutting down a third handle of the socket.              *)
(*                                                                         *)
(* The connection has three handles, held by three threads, and is gone    *)
(* for the board only when it is shut down or the last handle is dropped.  *)
(* The board serves one sender at a time, so a handle that is kept is a    *)
(* port that is taken.                                                     *)
(***************************************************************************)
EXTENDS Naturals

CONSTANTS
  BUF,       \* bound: messages the socket buffers until the board reads them
  MaxHost    \* bound: what the host asks for

TxLinkAssumption == BUF \in Nat \ {0} /\ MaxHost \in Nat

VARIABLES
  net,        \* where connect_loop is
  writer,     \* Net::writer holds a handle
  ctl,        \* ctl_stream holds a handle
  connected,  \* Shared::connected
  sender,     \* "idle", or "writing": blocked in a write, holding the writer's lock
  off,        \* standby or port_off
  udp,        \* udp_mode
  link,       \* the connection: "none", "up", "half" (the peer vanished), "closed"
  buf,        \* messages written and not read by the board
  up,         \* the board accepts connections
  reads,      \* the board reads what is sent to it
  relays,     \* the board sends something at least every 15 seconds
  shutting,   \* the host has stored what it wants and is about to shut down its handle
  asked,      \* how often the host asked for something
  missed,     \* history: the host switched off while there was no handle to shut down
  cut         \* history: the sender gave up a write on this connection

app == <<net, writer, ctl, connected, sender>>
host == <<off, udp, shutting, asked, missed>>
board == <<up, reads, relays>>
vars == <<app, host, link, buf, board, cut>>

Init ==
  /\ net = "top" /\ writer = FALSE /\ ctl = FALSE /\ connected = FALSE /\ sender = "idle"
  /\ off \in BOOLEAN /\ udp \in BOOLEAN /\ shutting = FALSE /\ asked = 0 /\ missed = FALSE
  /\ link = "none" /\ buf = 0
  /\ up \in BOOLEAN /\ reads = TRUE /\ relays = TRUE
  /\ cut = FALSE

-----------------------------------------------------------------------------
(* connect_loop and, inline, read_side.                                    *)

Top == net = "top" /\ ~writer

\* UDP has no connection and counts as up; a transmitter with nothing to send stays away.
IdleUdp ==
  /\ net = "top" /\ udp
  /\ writer' = FALSE /\ connected' = TRUE
  /\ UNCHANGED <<net, ctl, sender, host, link, buf, board, cut>>
IdleOff ==
  /\ Top /\ ~udp /\ off
  /\ connected' = FALSE
  /\ UNCHANGED <<net, writer, ctl, sender, host, link, buf, board, cut>>
Start ==
  /\ Top /\ ~udp /\ ~off
  /\ net' = "dial"
  /\ UNCHANGED <<writer, ctl, connected, sender, host, link, buf, board, cut>>

DialFails ==
  /\ net = "dial" /\ ~up
  /\ net' = "top"
  /\ UNCHANGED <<writer, ctl, connected, sender, host, link, buf, board, cut>>
Dialled ==
  /\ net = "dial" /\ up
  /\ net' = "stash" /\ connected' = TRUE /\ link' = "up" /\ buf' = 0 /\ cut' = FALSE
  /\ UNCHANGED <<writer, ctl, sender, host, board>>

\* The host's handle is stored first, the writer's second; the thread then reads.
Stash ==
  /\ net = "stash" /\ net' = "arm" /\ ctl' = TRUE
  /\ UNCHANGED <<writer, connected, sender, host, link, buf, board, cut>>
Arm ==
  /\ net = "arm" /\ net' = "read" /\ writer' = TRUE
  /\ UNCHANGED <<ctl, connected, sender, host, link, buf, board, cut>>

\* read_msg fails: shut down, closed by the board, or silent for 15 seconds.
Silent == link = "half" \/ (link = "up" /\ ~relays)
ReadFails ==
  /\ net = "read" /\ (link = "closed" \/ Silent)
  /\ net' = "drop" /\ connected' = FALSE
  /\ UNCHANGED <<writer, ctl, sender, host, link, buf, board, cut>>

\* The writer's handle is dropped once the lock is free, then the host's: the socket closes
\* (faulty variants: one of the two is kept).
WriterKept == writer
WriterLeft == FALSE
DropWriter ==
  /\ net = "drop" /\ sender = "idle"
  /\ net' = "dropctl" /\ writer' = WriterLeft
  /\ UNCHANGED <<ctl, connected, sender, host, link, buf, board, cut>>
CtlKept == ctl
CtlLeft == FALSE
DropCtl ==
  /\ net = "dropctl"
  /\ net' = "top" /\ ctl' = CtlLeft /\ link' = "none" /\ buf' = 0
  /\ UNCHANGED <<writer, connected, sender, host, board, cut>>

-----------------------------------------------------------------------------
(* The sender: Net::send over TCP.                                         *)

\* A failed write drops the writer's handle, and only that one.
GiveUp == writer' = FALSE /\ connected' = FALSE /\ cut' = TRUE

\* The buffer of the socket.
Full == buf >= BUF

Write ==
  /\ writer /\ ~udp /\ sender = "idle" /\ link \in {"up", "half"}
  /\ IF Full THEN sender' = "writing" /\ UNCHANGED buf
             ELSE buf' = buf + 1 /\ UNCHANGED sender
  /\ UNCHANGED <<net, writer, ctl, connected, host, link, board, cut>>
WriteGoesOn ==
  /\ sender = "writing" /\ ~Full /\ link \in {"up", "half"}
  /\ sender' = "idle" /\ buf' = buf + 1
  /\ UNCHANGED <<net, writer, ctl, connected, host, link, board, cut>>

\* The connection is closed, or there was no room for two seconds.
WriteLimit == sender = "writing" /\ Full
WriteFails ==
  /\ \/ sender = "writing"
     \/ writer /\ ~udp
  /\ link = "closed" \/ WriteLimit
  /\ sender' = "idle" /\ GiveUp
  /\ UNCHANGED <<net, ctl, host, link, buf, board>>

\* Over UDP a message always leaves, and the transmitter counts as connected.
SendUdp ==
  /\ udp /\ connected' = TRUE
  /\ UNCHANGED <<net, writer, ctl, sender, host, link, buf, board, cut>>

-----------------------------------------------------------------------------
(* The host: set_port_off, the transport switch, the connect button.       *)

Ask == ~shutting /\ asked < MaxHost /\ asked' = asked + 1

SwitchOff ==
  /\ Ask /\ ~off /\ off' = TRUE /\ shutting' = TRUE
  /\ UNCHANGED <<app, udp, missed, link, buf, board, cut>>
SwitchOn ==
  /\ Ask /\ off /\ off' = FALSE /\ missed' = FALSE
  /\ UNCHANGED <<app, udp, shutting, link, buf, board, cut>>
SwitchTransport ==
  /\ Ask /\ udp' = ~udp /\ shutting' = TRUE
  /\ UNCHANGED <<app, off, missed, link, buf, board, cut>>
\* The connect button: a new address, or the same one again.
Connect ==
  /\ Ask /\ shutting' = TRUE
  /\ UNCHANGED <<app, off, udp, missed, link, buf, board, cut>>

\* The handle kept for the host is taken and shut down, if there is one.
ShutDown ==
  /\ shutting /\ shutting' = FALSE
  /\ ctl' = FALSE /\ link' = IF ctl /\ link # "none" THEN "closed" ELSE link
  /\ missed' = (off /\ net \in {"dial", "stash"})
  /\ UNCHANGED <<net, writer, connected, sender, off, udp, asked, buf, board, cut>>

-----------------------------------------------------------------------------
(* The board.                                                              *)

BoardReads ==
  /\ link = "up" /\ reads /\ buf > 0 /\ buf' = buf - 1
  /\ UNCHANGED <<app, host, link, board, cut>>
\* It stops or starts reading (stuck on the radio's lock) or relaying (nothing comes from
\* the far end).
BoardChanges ==
  /\ reads' \in BOOLEAN /\ relays' \in BOOLEAN
  /\ UNCHANGED <<app, host, link, buf, up, cut>>
\* It restarts: connections are closed, or vanish with no word.
BoardGoes ==
  /\ up /\ up' = FALSE
  /\ link' \in (IF link = "up" THEN {"closed", "half"} ELSE {link})
  /\ UNCHANGED <<app, host, buf, reads, relays, cut>>
BoardComes ==
  /\ ~up /\ up' = TRUE
  /\ UNCHANGED <<app, host, link, buf, reads, relays, cut>>

-----------------------------------------------------------------------------
NetThread == IdleUdp \/ IdleOff \/ Start \/ DialFails \/ Dialled \/ Stash \/ Arm
             \/ ReadFails \/ DropWriter \/ DropCtl
SenderThread == Write \/ WriteGoesOn \/ WriteFails
Host == SwitchOff \/ SwitchOn \/ SwitchTransport \/ Connect \/ ShutDown
Board == BoardReads \/ BoardChanges \/ BoardGoes \/ BoardComes
Next == NetThread \/ SenderThread \/ SendUdp \/ Host \/ Board

\* The threads run and their time limits pass; a board that reads does read.
Spec ==
  /\ Init /\ [][Next]_vars
  /\ WF_vars(NetThread) /\ WF_vars(WriteGoesOn \/ WriteFails) /\ WF_vars(Write)
  /\ WF_vars(ShutDown) /\ WF_vars(BoardReads)

-----------------------------------------------------------------------------
(* Properties.                                                             *)

\* A new connection is only dialled when every handle of the last one is gone: the board, which
\* serves one sender at a time, would not serve the new one (net.rs 165-168, 199-201).
NoOldHandle == net \in {"top", "dial"} => ~writer /\ ~ctl /\ link = "none" /\ sender = "idle"

\* A transmitter that was switched off keeps the port only if it was switched off between the
\* check and the storing of the handle (lib.rs 443-450, net.rs 170-194).
PortKeptOnlyIfMissed ==
  off /\ link = "up" /\ net \in {"arm", "read"} => missed \/ shutting

\* When the board stays up, reads and relays, and nothing else is asked, the transmitter can
\* write again in the end, unless a write was given up on this very connection.
Fine == up /\ reads /\ relays /\ ~off /\ ~udp
WritesAgain == <>[]Fine => []<>(link = "up" /\ (writer \/ cut))

\* What the comment at net.rs 179-182 promises: a write that timed out drops the connection,
\* and the transmitter connects again.
Reconnects == <>[]Fine => []<>(link = "up" /\ writer)
=============================================================================
