------------------------------ MODULE Chooser ------------------------------
(***************************************************************************)
(* Which end this device is (nyx-common start, with nyx-mobile's Host):    *)
(* the operator chooses, a thread puts the board into the role and waits   *)
(* for it to restart, the host shows that end's screen; another thread     *)
(* keeps asking the board, and the host starts over as the other end when  *)
(* the board answers as the other end.  Three threads meet in busy, prep   *)
(* and the slot with the board's latest answer.                            *)
(*                                                                         *)
(* The board is its role and whether it answers; another computer may give *)
(* it the other role.                                                      *)
(***************************************************************************)
EXTENDS Naturals

CONSTANT Switches  \* bound: roles another computer gives the board

ChooserAssumption == Switches \in Nat

Ends == {"rx", "tx"}
Other(e) == CHOOSE o \in Ends : o # e

VARIABLES
  quiet,    \* the operator, the other computer and the network are done
  role, up, \* the board: its role, and whether it answers
  others,   \* roles given by another computer
  slot,     \* board_role: the latest answer, at most one role
  poll,     \* the poll: at rest or asking
  busy,
  prep,     \* the preparation: where it is
  want,     \* and for which role
  setRole,  \* "put the board into the matching role"
  hosted,   \* the end whose screen is shown, at most one
  placed    \* the board answered in the wanted role before its screen was shown

board == <<role, up, others>>
asking == <<slot, poll>>
work == <<busy, prep, want, setRole, hosted, placed>>
vars == <<quiet, board, asking, work>>

Init ==
  /\ quiet = FALSE /\ role \in Ends /\ up = TRUE /\ others = 0
  /\ slot = {} /\ poll = "rest"
  /\ busy = FALSE /\ prep = "none" /\ want \in Ends /\ setRole = TRUE /\ hosted = {} /\ placed = FALSE

Answer == IF up THEN {role} ELSE {}

-----------------------------------------------------------------------------
(* role-poll                                                               *)

PollAsks ==
  /\ poll = "rest" /\ ~busy
  /\ poll' = "asking"
  /\ UNCHANGED <<quiet, board, slot, work>>

\* The answer, or none within its time, is the slot's at once: no answer outlives the restart of
\* the board, which closes the connection it would come over.
PollHears ==
  /\ poll = "asking"
  /\ poll' = "rest" /\ \/ slot' = Answer
                       \/ ~quiet /\ slot' = {}
  /\ UNCHANGED <<quiet, board, work>>

-----------------------------------------------------------------------------
(* prepare                                                                 *)

Starts(e, set) ==
  /\ busy' = TRUE /\ want' = e /\ placed' = FALSE
  /\ prep' = IF set THEN "ask" ELSE "done"

\* The button, with the box of the matching role ticked or not.
Start(e, set) ==
  /\ ~quiet /\ hosted = {} /\ ~busy
  /\ setRole' = set /\ Starts(e, set)
  /\ UNCHANGED <<quiet, board, asking, hosted>>

\* (faulty variant: the buttons stay grey)
FailsBusy == /\ prep' = "none" /\ busy' = TRUE /\ UNCHANGED <<want, setRole, hosted, placed>>
\* The failure is on the screen, and the buttons come back.
Fails == /\ prep' = "none" /\ busy' = FALSE /\ UNCHANGED <<want, setRole, hosted, placed>>

\* Which end are you?  That one already, the other, or no answer: start anyway.
Ask ==
  /\ prep = "ask"
  /\ \E a \in {Answer} \cup IF quiet THEN {} ELSE {{}} :
       /\ prep' = IF a \ {want} = {} THEN "done" ELSE "command"
       /\ placed' = (a = {want})
  /\ UNCHANGED <<quiet, board, asking, busy, want, setRole, hosted>>

\* The command is carried out and the board restarts; or it is refused or not heard; or it is
\* carried out and the answer is lost.
Commanded ==
  /\ prep = "command" /\ up
  /\ role' = want /\ up' = FALSE
  /\ \/ prep' = "wait" /\ UNCHANGED <<busy, want, setRole, hosted, placed>>
     \/ ~quiet /\ Fails
  /\ UNCHANGED <<quiet, others, asking>>

Refused ==
  /\ prep = "command" /\ (~up \/ ~quiet) /\ Fails
  /\ UNCHANGED <<quiet, board, asking>>

Back ==
  /\ prep = "wait" /\ Answer = {want}
  /\ prep' = "done" /\ placed' = TRUE
  /\ UNCHANGED <<quiet, board, asking, busy, want, setRole, hosted>>

GivesUp ==
  /\ prep = "wait" /\ Answer # {want} /\ (~quiet \/ role # want) /\ Fails
  /\ UNCHANGED <<quiet, board, asking>>

-----------------------------------------------------------------------------
(* The host's frame                                                        *)

\* (faulty variant: the old answer is left in the slot)
LeftInSlot == slot
\* The slot still names what the board was before: it is overwritten.
Overwritten == {want}

TakeOver ==
  /\ prep = "done"
  /\ prep' = "none" /\ hosted' = {want} /\ busy' = FALSE /\ slot' = Overwritten
  /\ UNCHANGED <<quiet, board, poll, want, setRole, placed>>

\* The board answers as the other end: that end's screen, the board asked first if the box is
\* ticked.
Follow ==
  /\ \E e \in hosted : slot = {Other(e)} /\ Starts(Other(e), setRole)
  /\ hosted' = {}
  /\ UNCHANGED <<quiet, board, asking, setRole>>

-----------------------------------------------------------------------------
(* The board, another computer, the network                                *)

Restarted == /\ ~up /\ up' = TRUE /\ UNCHANGED <<quiet, role, others, asking, work>>

Switched ==
  /\ ~quiet /\ up /\ others < Switches
  /\ role' = Other(role) /\ up' = FALSE /\ others' = others + 1
  /\ UNCHANGED <<quiet, asking, work>>

Quiets == /\ ~quiet /\ quiet' = TRUE /\ UNCHANGED <<board, asking, work>>

Poll == PollAsks \/ PollHears
Prepare == Ask \/ Commanded \/ Refused \/ Back \/ GivesUp
Host == TakeOver \/ Follow
Next ==
  \/ Poll \/ Prepare \/ Host \/ Restarted
  \/ (\E e \in Ends, set \in BOOLEAN : Start(e, set)) \/ Switched \/ Quiets

-----------------------------------------------------------------------------

\* A screen shown on a board that answered in its role stays until another computer gives the
\* board the other role: no answer of an earlier time makes the host follow (take_over's comment).
FollowsOthersOnly == [][Follow /\ placed => others > 0]_vars

\* Once the others are done the device shows the end its board is, or its buttons can be pressed:
\* it never stays between the two, nor on the wrong end.
ShowsItsBoard == <>[]quiet => <>[](IF hosted = {} THEN ~busy ELSE hosted = {role})
=============================================================================
