----------------------------- MODULE WireFormat -----------------------------
(***************************************************************************)
(* The messages between the programs and a board (nyx-proto): what each    *)
(* kind declares, how encode_msg lays it out, how decode_msg reads it, the *)
(* stream read_msg takes them from, and the control payload they are       *)
(* packed into.  A byte is the place in the message it came from; a number *)
(* a reader goes by (a length, a count, the kind) is its value.            *)
(***************************************************************************)
EXTENDS Integers, SequencesExt

CONSTANTS
  LIST_MAX,  \* entries a count of one byte can say (255)
  TEXT_MAX,  \* bytes of a text (400): an odd number here, so that a cut falls inside a character
  TLM_MAX,   \* bytes of a telemetry packet (2048)
  LIMIT,     \* entries a reader takes in a capture or a block (4096, 16384, 65536)
  MAX_BODY,  \* bytes a reader takes in a message (64 MiB)
  PAYLOAD,   \* bytes of a control payload
  MaxSent    \* bound: messages of a behaviour

\* What goes into a control payload is within what a reader takes.
WireFormatAssumption ==
  /\ \A n \in {LIST_MAX, TEXT_MAX, TLM_MAX, LIMIT, MAX_BODY, PAYLOAD, MaxSent} : n \in Nat \ {0}
  /\ MAX_BODY >= 40 /\ MAX_BODY >= TEXT_MAX + 3 /\ MAX_BODY >= TLM_MAX + 3

VARIABLES
  wrote,   \* messages written, in order
  wire,    \* bytes written and not read
  broken,  \* the connection is broken
  got,     \* what read_msg handed on, in order
  reader,  \* "reads", or "ended" by an error
  ctrl     \* the last control payload: what it was made of, and what came out of it

vars == <<wrote, wire, broken, got, reader, ctrl>>

-----------------------------------------------------------------------------
(* What a message declares: the width of each field, the entries of lists. *)

D(fields, lists) == [f |-> fields, l |-> lists]
Block == [seq |-> 8, mcs |-> 1, rv |-> 1]

Msg == [
  IqFrame |-> D(Block, <<4>>),
  Feedback |-> D([snr_db |-> 4, bler |-> 4, segs_ok |-> 8, segs_lost |-> 8, need_idr |-> 1,
                  ok_mcs |-> 12, ok_base |-> 2], <<>>),
  Nack |-> D([seq |-> 8], <<>>),
  Ping |-> D(<<>>, <<>>),
  EqFrame |-> D([seq |-> 8, us |-> 2, theta |-> 4], <<4, 4>>),
  LlrFrame |-> D([seq |-> 8, us |-> 2, theta |-> 4, mcs |-> 1, rv |-> 1, seq_lsb |-> 1], <<4>>),
  DecFrame |-> D([seq |-> 8, mcs |-> 1, seq_lsb |-> 1, iters |-> 1, llr_sum |-> 4], <<1>>),
  TxBits |-> D(Block, <<4>>),
  TxPayload |-> D(Block, <<4>>),
  TxBlock |-> D([seq |-> 8, mcs |-> 1, rv |-> 1, flags |-> 1], <<1>>),
  HopCmd |-> D([mode |-> 1, seed |-> 8, dwell |-> 4, mask |-> 2], <<>>),
  UserText |-> D(<<>>, <<1>>),
  Tlm |-> D(<<>>, <<1>>),
  HopMask |-> D([epoch_hi |-> 1, eff_e8 |-> 1, mask |-> 16], <<>>),
  HopDesc |-> D([mode |-> 1, flags |-> 1, dwell_ms |-> 2, seed |-> 8, ctl_k |-> 1, epoch_hi |-> 1,
                 e8 |-> 1, n_video |-> 1, n_ctl |-> 1, tag8 |-> 1], <<>>),
  LinkBind |-> D([unit |-> 4, key |-> 8, chan_mhz |-> 2], <<>>),
  TxChan |-> D([hz |-> 8], <<>>),
  LicInfo |-> D([dna |-> 8, state |-> 1, minutes |-> 4, trial_min |-> 4, ver |-> 1], <<>>),
  LicPush |-> D([dna |-> 8, aux |-> 8, word |-> 8], <<>>),
  HopTable |-> D([kind |-> 1, idx |-> 1, n |-> 1, tag |-> 1, epoch_hi |-> 1, eff_e8 |-> 1], <<2>>),
  RangeRep |-> D([samp_hz |-> 4], <<6, 7>>),
  Ltr |-> D([kind |-> 1, idr_pic_id |-> 2, marked |-> 2, current |-> 2], <<>>),
  ChanRates |-> D(<<>>, <<9>>),
  HopCtlMask |-> D([epoch_hi |-> 1, eff_e8 |-> 1, mask |-> 2, tag |-> 2], <<>>),
  CtlRxCount |-> D([tag |-> 2], <<2>>)]

type_byte == [
  IqFrame |-> 1, Feedback |-> 2, Nack |-> 3, Ping |-> 4, EqFrame |-> 5, LlrFrame |-> 6,
  TxBits |-> 7, DecFrame |-> 8, TxPayload |-> 9, HopCmd |-> 10, UserText |-> 11, Tlm |-> 12,
  HopMask |-> 13, HopDesc |-> 14, LinkBind |-> 16, TxChan |-> 15, LicInfo |-> 17, LicPush |-> 18,
  HopTable |-> 19, TxBlock |-> 20, RangeRep |-> 21, Ltr |-> 22, ChanRates |-> 23,
  HopCtlMask |-> 24, CtlRxCount |-> 25]

-----------------------------------------------------------------------------
(* encode_msg: the fields in the order they are written, then the counts   *)
(* of the lists with their widths, then the lists.                         *)

W(fields, counts) == [f |-> fields, c |-> counts]

WritesFirst == [
  IqFrame |-> W(<<"seq", "mcs", "rv">>, <<4>>),
  Feedback |-> W(<<"snr_db", "bler", "segs_ok", "segs_lost", "need_idr", "ok_mcs", "ok_base">>, <<>>),
  Nack |-> W(<<"seq">>, <<>>),
  HopCmd |-> W(<<"mode", "seed", "dwell", "mask">>, <<>>),
  HopMask |-> W(<<"epoch_hi", "eff_e8", "mask">>, <<>>),
  TxChan |-> W(<<"hz">>, <<>>),
  HopDesc |-> W(<<"mode", "flags", "dwell_ms", "seed", "ctl_k", "epoch_hi", "e8", "n_video", "n_ctl",
                  "tag8">>, <<>>),
  LinkBind |-> W(<<"unit", "key", "chan_mhz">>, <<>>),
  LicInfo |-> W(<<"dna", "state", "minutes", "trial_min", "ver">>, <<>>),
  LicPush |-> W(<<"dna", "aux", "word">>, <<>>),
  HopTable |-> W(<<"kind", "idx", "n", "tag", "epoch_hi", "eff_e8">>, <<1>>),
  RangeRep |-> W(<<"samp_hz">>, <<1, 1>>)]

WritesThen == [
  ChanRates |-> W(<<>>, <<1>>),
  HopCtlMask |-> W(<<"epoch_hi", "eff_e8", "mask", "tag">>, <<>>),
  CtlRxCount |-> W(<<"tag">>, <<1>>),
  Ltr |-> W(<<"kind", "idr_pic_id", "marked", "current">>, <<>>),
  Ping |-> W(<<>>, <<>>),
  UserText |-> W(<<>>, <<2>>),
  Tlm |-> W(<<>>, <<2>>),
  LlrFrame |-> W(<<"seq", "us", "theta", "mcs", "rv", "seq_lsb">>, <<4>>),
  TxPayload |-> W(<<"seq", "mcs", "rv">>, <<4>>),
  TxBits |-> W(<<"seq", "mcs", "rv">>, <<4>>),
  TxBlock |-> W(<<"seq", "mcs", "rv", "flags">>, <<4>>),
  DecFrame |-> W(<<"seq", "mcs", "seq_lsb", "iters", "llr_sum">>, <<4>>),
  EqFrame |-> W(<<"seq", "us", "theta">>, <<4, 4>>)]

Writes(kind) == IF kind \in DOMAIN WritesFirst THEN WritesFirst[kind] ELSE WritesThen[kind]

\* What the writer cuts a list to.
Cap(kind, n) ==
  CASE kind \in {"HopTable", "RangeRep", "ChanRates", "CtlRxCount"} -> Min({n, LIST_MAX})
    [] kind = "UserText" -> Min({n, TEXT_MAX})
    [] kind = "Tlm" -> Min({n, TLM_MAX})
    [] OTHER -> n

\* (faulty variant: the count is the length before the cut, in its byte)
CountAll(kind, n) == IF kind = "Tlm" THEN n ELSE n % (LIST_MAX + 1)
\* The count that is written.
Count(kind, n) == Cap(kind, n)

Number(no, n, w) == [i \in 1..w |-> <<no, "#", n, i>>]
Bytes(no, name, e, w) == [i \in 1..w |-> <<no, name, e, i>>]

\* The names of lists and their entries: the first and the second list of a message.
Entry(k) == IF k = 1 THEN "first" ELSE "second"

\* A message of another version: an older Feedback ends early, a newer message goes on.
Version(m, body) ==
  CASE m.by = "old" -> SubSeq(body, 1, 37)
    [] m.by = "oldest" -> SubSeq(body, 1, 25)
    [] m.by = "newer" -> Append(body, <<m.no, "new", 0, 1>>)
    [] OTHER -> body

Body(m) ==
  LET d == Msg[m.kind]
      w == Writes(m.kind)
      list(k) == FlattenSeq([e \in 1..Cap(m.kind, m.n[k]) |-> Bytes(m.no, Entry(k), e, d.l[k])])
  IN FlattenSeq([i \in DOMAIN w.f |-> Bytes(m.no, w.f[i], 0, d.f[w.f[i]])])
     \o FlattenSeq([k \in DOMAIN w.c |-> Number(m.no, Count(m.kind, m.n[k]), w.c[k])])
     \o FlattenSeq([k \in DOMAIN w.c |-> list(k)])

\* [length][kind][body]; a kind of a newer version has a number no reader knows.
encode_msg(m) ==
  LET body == IF m.kind = "Stranger" THEN <<>> ELSE Version(m, Body(m))
      ty == IF m.kind = "Stranger" THEN 26 ELSE type_byte[m.kind]
  IN Number(m.no, Len(body) + 1, 4) \o Number(m.no, ty, 1) \o body

-----------------------------------------------------------------------------
(* decode_msg: where each field is read, and its width; the counts; where  *)
(* the lists begin and the width of their entries; whether the length must *)
(* be exact; and the most entries taken.                                   *)

R(kind, fields, counts, at, lists, exact, most) ==
  [kind |-> kind, f |-> fields, c |-> counts, at |-> at, l |-> lists, exact |-> exact, most |-> most]
Fixed(kind, fields, at) == R(kind, fields, <<>>, at, <<>>, FALSE, 0)
Unlimited == LIST_MAX + LIMIT + TEXT_MAX + TLM_MAX + MAX_BODY  \* no limit of its own

ReadsLong(ty) ==
  CASE ty = 5 -> R("EqFrame", [seq |-> <<0, 8>>, us |-> <<8, 2>>, theta |-> <<10, 4>>],
                   <<<<14, 4>>, <<18, 4>>>>, 22, <<4, 4>>, TRUE, LIMIT)
    [] ty = 6 -> R("LlrFrame", [seq |-> <<0, 8>>, us |-> <<8, 2>>, theta |-> <<10, 4>>,
                   mcs |-> <<14, 1>>, rv |-> <<15, 1>>, seq_lsb |-> <<16, 1>>], <<<<17, 4>>>>, 21,
                   <<4>>, TRUE, LIMIT)
    [] ty = 8 -> R("DecFrame", [seq |-> <<0, 8>>, mcs |-> <<8, 1>>, seq_lsb |-> <<9, 1>>,
                   iters |-> <<10, 1>>, llr_sum |-> <<11, 4>>], <<<<15, 4>>>>, 19, <<1>>, TRUE,
                   LIMIT)
    [] ty = 7 -> R("TxBits", [seq |-> <<0, 8>>, mcs |-> <<8, 1>>, rv |-> <<9, 1>>], <<<<10, 4>>>>,
                   14, <<4>>, TRUE, LIMIT)
    [] ty = 9 -> R("TxPayload", [seq |-> <<0, 8>>, mcs |-> <<8, 1>>, rv |-> <<9, 1>>],
                   <<<<10, 4>>>>, 14, <<4>>, TRUE, LIMIT)
    [] OTHER -> Fixed("none", <<>>, 0)

ReadsListed(ty) ==
  CASE ty = 20 -> R("TxBlock", [seq |-> <<0, 8>>, mcs |-> <<8, 1>>, rv |-> <<9, 1>>,
                    flags |-> <<10, 1>>], <<<<11, 4>>>>, 15, <<1>>, TRUE, LIMIT)
    [] ty = 21 -> R("RangeRep", [samp_hz |-> <<0, 4>>], <<<<4, 1>>, <<5, 1>>>>, 6, <<6, 7>>, FALSE,
                    Unlimited)
    [] ty = 23 -> R("ChanRates", <<>>, <<<<0, 1>>>>, 1, <<9>>, FALSE, Unlimited)
    [] ty = 24 -> Fixed("HopCtlMask", [epoch_hi |-> <<0, 1>>, eff_e8 |-> <<1, 1>>,
                    mask |-> <<2, 2>>, tag |-> <<4, 2>>], 6)
    [] ty = 25 -> R("CtlRxCount", [tag |-> <<0, 2>>], <<<<2, 1>>>>, 3, <<2>>, FALSE, Unlimited)
    [] ty = 22 -> Fixed("Ltr", [kind |-> <<0, 1>>, idr_pic_id |-> <<1, 2>>, marked |-> <<3, 2>>,
                    current |-> <<5, 2>>], 7)
    [] ty = 19 -> R("HopTable", [kind |-> <<0, 1>>, idx |-> <<1, 1>>, n |-> <<2, 1>>,
                    tag |-> <<3, 1>>, epoch_hi |-> <<4, 1>>, eff_e8 |-> <<5, 1>>], <<<<6, 1>>>>, 7,
                    <<2>>, FALSE, Unlimited)
    [] ty = 10 -> Fixed("HopCmd", [mode |-> <<0, 1>>, seed |-> <<1, 8>>, dwell |-> <<9, 4>>,
                    mask |-> <<13, 2>>], 15)
    [] ty = 4 -> Fixed("Ping", <<>>, 0)
    [] ty = 11 -> R("UserText", <<>>, <<<<0, 2>>>>, 2, <<1>>, TRUE, TEXT_MAX)
    [] ty = 12 -> R("Tlm", <<>>, <<<<0, 2>>>>, 2, <<1>>, TRUE, TLM_MAX)
    [] OTHER -> ReadsLong(ty)

Reads(ty) ==
  CASE ty = 1 -> R("IqFrame", [seq |-> <<0, 8>>, mcs |-> <<8, 1>>, rv |-> <<9, 1>>], <<<<10, 4>>>>,
                   14, <<4>>, TRUE, Unlimited)
    [] ty = 2 -> Fixed("Feedback", [ok_mcs |-> <<25, 12>>, ok_base |-> <<37, 2>>,
                   snr_db |-> <<0, 4>>, bler |-> <<4, 4>>, segs_ok |-> <<8, 8>>,
                   segs_lost |-> <<16, 8>>, need_idr |-> <<24, 1>>], 25)
    [] ty = 3 -> R("Nack", [seq |-> <<0, 8>>], <<>>, 8, <<>>, TRUE, 0)
    [] ty = 13 -> Fixed("HopMask", [epoch_hi |-> <<0, 1>>, eff_e8 |-> <<1, 1>>, mask |-> <<2, 16>>],
                    18)
    [] ty = 15 -> Fixed("TxChan", [hz |-> <<0, 8>>], 8)
    [] ty = 14 -> Fixed("HopDesc", [mode |-> <<0, 1>>, flags |-> <<1, 1>>, dwell_ms |-> <<2, 2>>,
                    seed |-> <<4, 8>>, ctl_k |-> <<12, 1>>, epoch_hi |-> <<13, 1>>,
                    e8 |-> <<14, 1>>, n_video |-> <<15, 1>>, n_ctl |-> <<16, 1>>,
                    tag8 |-> <<17, 1>>], 18)
    [] ty = 16 -> Fixed("LinkBind", [unit |-> <<0, 4>>, key |-> <<4, 8>>, chan_mhz |-> <<12, 2>>],
                    14)
    [] ty = 17 -> Fixed("LicInfo", [dna |-> <<0, 8>>, state |-> <<8, 1>>, minutes |-> <<9, 4>>,
                    trial_min |-> <<13, 4>>, ver |-> <<17, 1>>], 18)
    [] ty = 18 -> Fixed("LicPush", [dna |-> <<0, 8>>, aux |-> <<8, 8>>, word |-> <<16, 8>>], 24)
    [] OTHER -> ReadsListed(ty)

\* A number as it is read: bytes of anything else make one no length agrees with.
Value(b, at, w) ==
  LET s == SubSeq(b, at + 1, at + w)
  IN IF s = Number(s[1][1], s[1][3], w) THEN s[1][3] ELSE 2 * Unlimited

\* A text cut inside a character ends in the sign for what is no character.
Lossy(kind, list) ==
  IF kind = "UserText" /\ Len(list) % 2 = 1 THEN [list EXCEPT ![Len(list)] = <<"?">>] ELSE list

Refused == [kind |-> "none", f |-> {}, l |-> <<>>]

\* (faulty variant: only this version's length will do)
ThisVersion(len) == len = 39
\* The lengths of a Feedback: the two older ones as well.
FeedbackLen(len) == len \in {25, 37, 39}

\* Where a list begins, and where the last one ends.
Start(row, n, k) == row.at + (IF k = 1 THEN 0 ELSE n[1] * row.l[1])
Total(row, n) == IF n = <<>> THEN row.at ELSE Start(row, n, Len(n)) + n[Len(n)] * row.l[Len(n)]

\* A length the kind may have.
Agrees(row, n, len) ==
  CASE row.kind = "Feedback" -> FeedbackLen(len)
    [] row.exact -> len = Total(row, n)
    [] OTHER -> len >= Total(row, n)

Entries(row, body, n, k) ==
  [e \in 1..n[k] |-> SubSeq(body, Start(row, n, k) + (e - 1) * row.l[k] + 1,
                           Start(row, n, k) + e * row.l[k])]

\* A body read by its row, the lists of which have n entries.
Decoded(row, body, n) ==
  IF \/ row.kind = "none" \/ Len(body) < row.at \/ ~Agrees(row, n, Len(body))
     \/ \E k \in DOMAIN n : n[k] > row.most
  THEN Refused
  ELSE [kind |-> row.kind,
        f |-> {<<name, SubSeq(body, row.f[name][1] + 1, row.f[name][1] + row.f[name][2])>> :
                 name \in {x \in DOMAIN row.f : row.f[x][1] + row.f[x][2] <= Len(body)}},
        l |-> [k \in DOMAIN n |-> Lossy(row.kind, Entries(row, body, n, k))]]

decode_msg(b) ==
  LET body == Tail(b)
      row == Reads(Value(b, 0, 1))
  IN Decoded(row, body, [k \in DOMAIN row.c |-> Value(body, row.c[k][1], row.c[k][2])])

-----------------------------------------------------------------------------
(* What a writer may have in hand.                                         *)

Lens(kind) ==
  CASE kind = "IqFrame" -> {0, 1, MAX_BODY \div 4}
    [] kind = "UserText" -> {0, TEXT_MAX - 1, TEXT_MAX + 1}
    [] kind = "Tlm" -> {0, TLM_MAX, TLM_MAX + 1}
    [] kind \in {"EqFrame", "LlrFrame", "DecFrame", "TxBits", "TxPayload", "TxBlock"} -> {0, LIMIT, LIMIT + 1}
    [] OTHER -> {0, LIST_MAX, LIST_MAX + 1}

Versions(kind) ==
  CASE kind = "Feedback" -> {"this", "old", "oldest", "newer"}
    [] kind = "Stranger" -> {"newer"}
    [] OTHER -> {"this", "newer"}

Lists(kind) == IF kind = "Stranger" THEN 0 ELSE Len(Msg[kind].l)

Messages(no, kinds) ==
  UNION {[no : {no}, kind : {k}, by : Versions(k), n : [1..Lists(k) -> Lens(k)]] : k \in kinds}

Kinds == DOMAIN Msg

-----------------------------------------------------------------------------
(* The stream                                                              *)

Init ==
  /\ wrote = <<>> /\ wire = <<>> /\ broken = FALSE /\ got = <<>> /\ reader = "reads"
  /\ ctrl = [ms |-> <<>>, out |-> <<>>]

\* write_msg.  The second message of a behaviour is of a few kinds only.
Write ==
  /\ Len(wrote) < MaxSent /\ ~broken /\ ctrl.ms = <<>>
  /\ \E m \in Messages(Len(wrote) + 1,
                       IF wrote = <<>> THEN Kinds \cup {"Stranger"} ELSE {"Ping", "Nack", "Tlm"}) :
       /\ wrote' = Append(wrote, m)
       /\ wire' = wire \o encode_msg(m)
  /\ UNCHANGED <<broken, got, reader, ctrl>>

\* The connection breaks: inside a length, behind one, or one byte before the end.
Break ==
  /\ ~broken /\ broken' = TRUE
  /\ \E k \in {0, 3, 4, 5, Len(wire) - 1} \cap 0..Len(wire) : wire' = SubSeq(wire, 1, k)
  /\ UNCHANGED <<wrote, got, reader, ctrl>>

HasLength == Len(wire) >= 4
BodyLen == Value(wire, 0, 4)
BadLength == BodyLen = 0 \/ BodyLen > MAX_BODY
HasBody == HasLength /\ Len(wire) >= 4 + BodyLen

\* read_msg: a whole message ...
Read ==
  /\ reader = "reads" /\ HasBody /\ ~BadLength
  /\ LET m == decode_msg(SubSeq(wire, 5, 4 + BodyLen))
     IN IF m = Refused
        THEN reader' = "ended" /\ got' = got
        ELSE got' = Append(got, m) /\ reader' = reader
  /\ wire' = SubSeq(wire, 5 + BodyLen, Len(wire))
  /\ UNCHANGED <<wrote, broken, ctrl>>

\* ... or an error: a length no message has, the end of the stream before the end of one.
ReadFails ==
  /\ reader = "reads"
  /\ \/ HasLength /\ BadLength
     \/ broken /\ ~HasBody
  /\ reader' = "ended"
  /\ UNCHANGED <<wrote, wire, broken, got, ctrl>>

-----------------------------------------------------------------------------
(* The control payload                                                     *)

Header == Bytes(0, "NYXC", 0, 5)

\* (faulty variant: what does not fit is cut by the payload's length)
FitsAnyhow(out, b) == TRUE
\* One more message fits.
Fits(out, b) == Len(out) + Len(b) <= PAYLOAD

\* pack_ctrl: messages until the first that does not fit, their number before them; none: nothing.
pack_ctrl(ms) ==
  LET b(i) == encode_msg(ms[i])
      packed(i) == Header \o Number(0, i, 1) \o FlattenSeq([j \in 1..i |-> b(j)])
      n == CHOOSE i \in 0..Len(ms) :
             /\ \A j \in 1..i : Fits(packed(j - 1), b(j))
             /\ i < Len(ms) => ~Fits(packed(i), b(i + 1))
      out == packed(n)
  IN IF n = 0 THEN <<>>
     ELSE [i \in 1..PAYLOAD |-> IF i <= Len(out) THEN out[i] ELSE <<0, "#", 0, 1>>]

\* One more message of a payload, from where the last one ended.
Unpacked(payload, r) ==
  LET len == Value(payload, r.off, 4)
      m == decode_msg(SubSeq(payload, r.off + 5, r.off + 4 + len))
  IN IF \/ ~r.ok \/ r.off + 4 > Len(payload) \/ len = 0 \/ len > MAX_BODY
        \/ r.off + 4 + len > Len(payload) \/ m = Refused
     THEN [r EXCEPT !.ok = FALSE]
     ELSE [off |-> r.off + 4 + len, ms |-> Append(r.ms, m), ok |-> TRUE]

\* The first n messages of a payload, or nothing at all.
Contents(payload, n) ==
  LET after[k \in 0..n] ==
        IF k = 0 THEN [off |-> 6, ms |-> <<>>, ok |-> TRUE] ELSE Unpacked(payload, after[k - 1])
  IN IF after[n].ok THEN after[n].ms ELSE <<>>

\* unpack_ctrl: as many as the payload says.
unpack_ctrl(payload) ==
  IF Len(payload) < 6 \/ SubSeq(payload, 1, 5) # Header THEN <<>>
  ELSE Contents(payload, Value(payload, 5, 1))

\* A control payload of three messages, packed and unpacked.
Control ==
  /\ wrote = <<>> /\ ctrl.ms = <<>>
  /\ \E a \in Messages(1, {"Feedback", "UserText", "Nack"}), b \in Messages(2, {"UserText", "Tlm"}),
        c \in Messages(3, {"Nack", "HopCmd"}) :
       /\ \A m \in {a, b, c} : m.by = "this"
       /\ ctrl' = [ms |-> <<a, b, c>>, out |-> unpack_ctrl(pack_ctrl(<<a, b, c>>))]
  /\ UNCHANGED <<wrote, wire, broken, got, reader>>

Next == Write \/ Break \/ Read \/ ReadFails \/ Control

-----------------------------------------------------------------------------

\* What m should come out as: every field it declares and its version wrote, every list cut to
\* what a message may carry, a text that was cut inside a character with the sign for it.
InFull(m) ==
  LET d == Msg[m.kind]
      old == IF m.by = "old" THEN {"ok_base"} ELSE IF m.by = "oldest" THEN {"ok_base", "ok_mcs"} ELSE {}
      list(k) == [e \in 1..Cap(m.kind, m.n[k]) |-> Bytes(m.no, Entry(k), e, d.l[k])]
  IN [kind |-> m.kind,
      f |-> {<<name, Bytes(m.no, name, 0, d.f[name])>> : name \in DOMAIN d.f \ old},
      l |-> [k \in DOMAIN d.l |-> Lossy(m.kind, list(k))]]

\* The messages a reader hands on are the first of those written, each with all it declares and
\* nothing of its neighbours, however the stream is cut and whatever version wrote them.
ReadAsWritten ==
  /\ Len(got) <= Len(wrote)
  /\ \A i \in DOMAIN got : wrote[i].kind # "Stranger" /\ got[i] = InFull(wrote[i])

\* More than a reader takes, or a longer message of a kind whose length is fixed.
Foreign(m) ==
  \/ m.kind = "Stranger"
  \/ Len(Version(m, Body(m))) >= MAX_BODY
  \/ m.kind \in {"EqFrame", "LlrFrame", "DecFrame", "TxBits", "TxPayload", "TxBlock"}
     /\ \E k \in DOMAIN m.n : m.n[k] > LIMIT
  \/ m.by = "newer" /\ m.kind \in {"IqFrame", "Feedback", "Nack", "TxBlock", "UserText", "Tlm", "EqFrame",
                                   "LlrFrame", "DecFrame", "TxBits", "TxPayload"}

\* A reader leaves a connection only when it broke or the next message is one of those: an older
\* Feedback, and a newer message of most kinds, is no reason.
LeavesForForeign ==
  reader = "ended" => broken \/ (Len(got) < Len(wrote) /\ Foreign(wrote[Len(got) + 1]))

\* Messages packed into a control payload come out as the first of them, all that fit.
ControlWhole ==
  LET k == Len(ctrl.out)
      size(i) == Len(encode_msg(ctrl.ms[i]))
      upto(i) == 6 + (IF i >= 1 THEN size(1) ELSE 0) + (IF i >= 2 THEN size(2) ELSE 0)
                 + (IF i >= 3 THEN size(3) ELSE 0)
  IN /\ \A i \in 1..k : ctrl.out[i] = InFull(ctrl.ms[i])
     /\ k < Len(ctrl.ms) => upto(k + 1) > PAYLOAD
=============================================================================
