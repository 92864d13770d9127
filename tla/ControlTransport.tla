-------------------------- MODULE ControlTransport --------------------------
(***************************************************************************)
(* The control connection: one TCP stream that first carries the bootstrap *)
(* records of the handshake and then, on the same bytes, the encrypted     *)
(* records of the session. TCP keeps the order and nothing else: a send    *)
(* may take any part of a record, and a recv may return part of one, or    *)
(* the end of one with the beginning of the next.                          *)
(*                                                                         *)
(*   writer    the sealer with its counter, and what a record still has to *)
(*             send                                                        *)
(*   wire      what the network has and the reader has not                 *)
(*   reader    one read call after the other. What a recv returned beyond  *)
(*             the record stays in pending, for the next call              *)
(*                                                                         *)
(* A cell is a byte or one header field. A bootstrap header is a magic and *)
(* a length; the header of an encrypted record has the counter too, and a  *)
(* tag follows its payload.                                                *)
(***************************************************************************)
EXTENDS Sequences, FiniteSets, FiniteSetsExt, SequencesExt, ReplayWindow

CONSTANTS Plans,       \* who connects and the records it is going to write
          MaxPayload,  \* the largest payload of a record
          MaxCounter,  \* the last counter of a key
          BufferSize,  \* cells one recv may return: 4096 bytes
          MaxFaults    \* bound on the failures of one behaviour

VARIABLES plan,       \* [peer, records], chosen at the start
          listener,   \* TRUE while the Host listens
          writer,     \* [pc, left, next, available]
          wire,       \* cells on their way
          reader,     \* [pc, encoded, target, pending, error]
          window,     \* the replay window of the opener
          written,    \* how many records were handed to the transport
          delivered,  \* the records the reader's callers got
          nonces,     \* the counters given to the cipher, in order
          faults

transportVars == << plan, listener, writer, wire, reader, window, written, delivered,
                    nonces, faults >>

ASSUME TransportAssumption ==
    /\ {MaxPayload, MaxCounter, MaxFaults} \subseteq Nat
    /\ BufferSize \in Nat \ {0}

BootstrapMagic == 101
ControlMagic == 102
BootstrapHeader == 2
ControlHeader == 3
TagCells == 1

\* What the cipher makes of the header and the payload under a nonce.
GcmTag(counter, payload) == 200 + 10 * counter + FoldLeft(+, 0, payload)

EncodeBootstrap(payload) == << BootstrapMagic, Len(payload) >> \o payload

SealedRecord(counter, payload) ==
    << ControlMagic, counter, Len(payload) >> \o payload \o << GcmTag(counter, payload) >>

\* The size of a record by its header, 0 for a header that is refused.
InspectBootstrapHeader(cells) ==
    IF cells[1] = BootstrapMagic /\ cells[2] \in 1 .. MaxPayload
    THEN BootstrapHeader + cells[2] ELSE 0

AuthenticatedControlRecordSize(cells) ==
    IF cells[1] = ControlMagic /\ cells[3] <= MaxPayload
    THEN ControlHeader + cells[3] + TagCells ELSE 0

FirstCells(s, n) == SubSeq(s, 1, Min({n, Len(s)}))
RestCells(s, n) == SubSeq(s, n + 1, Len(s))

Bootstraps == Cardinality({i \in DOMAIN plan.records : ~plan.records[i].sealed})

NoReader == [pc |-> "none", encoded |-> <<>>, target |-> 0, pending |-> <<>>,
             error |-> "none"]

Init ==
    /\ plan \in Plans
    /\ listener = FALSE
    /\ writer = [pc |-> "none", left |-> <<>>, next |-> 0, available |-> TRUE]
    /\ wire = <<>>
    /\ reader = NoReader
    /\ window = NoWindow
    /\ written = 0
    /\ delivered = <<>>
    /\ nonces = <<>>
    /\ faults = 0

Spend(ok) == IF ok THEN UNCHANGED faults ELSE faults < MaxFaults /\ faults' = faults + 1

-----------------------------------------------------------------------------
(* Connecting *)

\* Listening fails and is tried again.
Listen(ok) ==
    /\ ~listener
    /\ Spend(ok)
    /\ listener' = ok
    /\ UNCHANGED << plan, writer, wire, reader, window, written, delivered, nonces >>

Connect ==
    /\ listener
    /\ writer.pc = "none"
    /\ writer' = [writer EXCEPT !.pc = "idle"]
    /\ UNCHANGED << plan, listener, wire, reader, window, written, delivered, nonces, faults >>

\* close(): what was received and not read is gone.
Closed(error) == [NoReader EXCEPT !.pc = "closed", !.error = error]

AcceptCandidate ==
    /\ listener
    /\ reader.pc = "none"
    /\ writer.pc # "none"
    /\ IF plan.peer = "expected"
       THEN reader' = [reader EXCEPT !.pc = "idle"] /\ UNCHANGED wire
       ELSE reader' = Closed("peer_mismatch") /\ wire' = <<>>
    /\ UNCHANGED << plan, listener, writer, window, written, delivered, nonces, faults >>

-----------------------------------------------------------------------------
(* The writer *)

CloseWriter == writer' = [writer EXCEPT !.pc = "closed", !.left = <<>>]

Sending(w, cells) == [w EXCEPT !.pc = "sending", !.left = cells]

MayWrite == writer.pc = "idle" /\ written < Len(plan.records)
NextRecord == plan.records[written + 1]

\* A record that cannot be encoded ends the connection.
WriteBootstrapRecord ==
    /\ MayWrite
    /\ ~NextRecord.sealed
    /\ IF Len(NextRecord.payload) \in 1 .. MaxPayload
       THEN /\ writer' = Sending(writer, EncodeBootstrap(NextRecord.payload))
            /\ written' = written + 1
       ELSE CloseWriter /\ UNCHANGED written
    /\ UNCHANGED << plan, listener, wire, reader, window, delivered, nonces, faults >>

\* The counter is spent before the cipher is asked.
Burned(w) ==
    IF w.next = MaxCounter THEN [w EXCEPT !.available = FALSE]
    ELSE [w EXCEPT !.next = @ + 1]

\* send_record: seal and write. An exhausted counter, a payload too large and
\* a cipher that fails end the connection; encrypted says whether it did not.
WriteAuthenticatedRecord(encrypted) ==
    /\ MayWrite
    /\ NextRecord.sealed
    /\ IF Len(NextRecord.payload) > MaxPayload \/ ~writer.available
       THEN encrypted /\ CloseWriter /\ UNCHANGED << written, nonces, faults >>
       ELSE /\ Spend(encrypted)
            /\ nonces' = Append(nonces, writer.next)
            /\ IF encrypted
               THEN /\ writer' = Sending(Burned(writer),
                                         SealedRecord(writer.next, NextRecord.payload))
                    /\ written' = written + 1
               ELSE /\ writer' = [Burned(writer) EXCEPT !.pc = "closed"]
                    /\ UNCHANGED written
    /\ UNCHANGED << plan, listener, wire, reader, window, delivered >>

\* The socket takes some of the cells.
Send(n) ==
    /\ writer.pc = "sending"
    /\ reader.pc # "closed"
    /\ n \in 1 .. Len(writer.left)
    /\ wire' = wire \o FirstCells(writer.left, n)
    /\ writer' = [writer EXCEPT !.left = RestCells(@, n),
                                !.pc = IF n = Len(writer.left) THEN "idle" ELSE @]
    /\ UNCHANGED << plan, listener, reader, window, written, delivered, nonces, faults >>

\* The deadline passes or the socket fails; a closed peer is noticed here too.
SendFails ==
    /\ writer.pc = "sending"
    /\ Spend(reader.pc = "closed")
    /\ CloseWriter
    /\ UNCHANGED << plan, listener, wire, reader, window, written, delivered, nonces >>

\* Nothing is left to write, and the connection is closed.
CloseConnection ==
    /\ writer.pc = "idle"
    /\ written = Len(plan.records)
    /\ CloseWriter
    /\ UNCHANGED << plan, listener, wire, reader, window, written, delivered, nonces, faults >>

-----------------------------------------------------------------------------
(* The reader *)

ReadsBootstrap == Len(delivered) < Bootstraps

BeginReadAfresh ==
    /\ reader.pc = "idle"
    /\ Len(delivered) < Len(plan.records)
    /\ reader' = [reader EXCEPT !.pc = "turn", !.encoded = <<>>, !.target = 0,
                              !.pending = <<>>]
    /\ UNCHANGED << plan, listener, writer, wire, window, written, delivered, nonces, faults >>

\* A read call starts with an empty record, and with the pending cells of the
\* call before.
BeginRead ==
    /\ reader.pc = "idle"
    /\ Len(delivered) < Len(plan.records)
    /\ reader' = [reader EXCEPT !.pc = "turn", !.encoded = <<>>, !.target = 0]
    /\ UNCHANGED << plan, listener, writer, wire, window, written, delivered, nonces, faults >>

\* The cells the record can still use, and what is left of pending.
Copied(r, size) ==
    LET n == Min({size - Len(r.encoded), Len(r.pending)})
    IN [r EXCEPT !.encoded = @ \o FirstCells(r.pending, n), !.pending = RestCells(@, n)]

\* One feed of the decoder: the rest of the header, its inspection, then the
\* rest of the record. It takes all there is, or all it needs.
FeedBootstrap(r) ==
    LET head   == IF r.target = 0 THEN Copied(r, BootstrapHeader) ELSE r
        target == IF r.target = 0 THEN InspectBootstrapHeader(head.encoded) ELSE r.target
        body   == Copied([head EXCEPT !.target = target], target)
    IN IF Len(head.encoded) < BootstrapHeader THEN [head EXCEPT !.pc = "waiting"]
       ELSE IF target = 0 THEN Closed("invalid_record")
       ELSE [body EXCEPT !.pc = IF Len(body.encoded) = target THEN "record" ELSE "waiting"]

FeedControlThenWait(r) ==
    LET next   == Copied(r, IF r.target = 0 THEN ControlHeader ELSE r.target)
        header == r.target = 0 /\ Len(next.encoded) = ControlHeader
        target == IF header THEN AuthenticatedControlRecordSize(next.encoded) ELSE r.target
    IN IF header /\ target = 0 THEN Closed("invalid_record")
       ELSE [next EXCEPT !.target = target,
                         !.pc = IF target # 0 /\ Len(next.encoded) = target
                                THEN "record" ELSE "waiting"]

\* One turn of the loop takes the header or the body, never both: it goes
\* round again while cells are pending.
FeedControl(r) ==
    LET next   == Copied(r, IF r.target = 0 THEN ControlHeader ELSE r.target)
        header == r.target = 0 /\ Len(next.encoded) = ControlHeader
        target == IF header THEN AuthenticatedControlRecordSize(next.encoded) ELSE r.target
    IN IF header /\ target = 0 THEN Closed("invalid_record")
       ELSE [next EXCEPT !.target = target,
                         !.pc = IF target # 0 /\ Len(next.encoded) = target THEN "record"
                                ELSE IF next.pending # <<>> THEN "turn" ELSE "waiting"]

Fed(r) == IF ReadsBootstrap THEN FeedBootstrap(r) ELSE FeedControl(r)

\* The wire of a connection that has closed is gone.
LeaveWire(r) == wire' = IF r.pc = "closed" THEN <<>> ELSE wire

Turn ==
    /\ reader.pc = "turn"
    /\ reader' = IF reader.pending = <<>> THEN [reader EXCEPT !.pc = "waiting"] ELSE Fed(reader)
    /\ LeaveWire(reader')
    /\ UNCHANGED << plan, listener, writer, window, written, delivered, nonces, faults >>

\* What is received replaces what was pending.
Recv(n) ==
    /\ reader.pc = "waiting"
    /\ n \in 1 .. Min({BufferSize, Len(wire)})
    /\ reader' = [reader EXCEPT !.pc = "turn", !.pending = FirstCells(wire, n)]
    /\ wire' = RestCells(wire, n)
    /\ UNCHANGED << plan, listener, writer, window, written, delivered, nonces, faults >>

PeerClosed ==
    /\ reader.pc = "waiting"
    /\ wire = <<>>
    /\ writer.pc = "closed"
    /\ reader' = Closed("peer_closed")
    /\ UNCHANGED << plan, listener, writer, wire, window, written, delivered, nonces, faults >>

\* The deadline passes or the socket fails.
RecvFails ==
    /\ reader.pc = "waiting"
    /\ Spend(FALSE)
    /\ reader' = Closed("timed_out")
    /\ wire' = <<>>
    /\ UNCHANGED << plan, listener, writer, window, written, delivered, nonces >>

\* open(): the envelope is parsed, its counter must be fresh, the cipher must
\* agree, and only then the counter is committed.
Opens(cells) ==
    LET counter == cells[2]
        payload == SubSeq(cells, ControlHeader + 1, Len(cells) - TagCells)
    IN /\ AuthenticatedControlRecordSize(cells) = Len(cells)
       /\ counter <= MaxCounter
       /\ Classify(window, counter) = "fresh"
       /\ cells[Len(cells)] = GcmTag(counter, payload)

\* The caller takes the record: it parses a bootstrap record and opens an
\* encrypted one, and a record that does not open ends the connection.
TakeRecord ==
    LET cells   == reader.encoded
        header  == IF ReadsBootstrap THEN BootstrapHeader ELSE ControlHeader
        trailer == IF ReadsBootstrap THEN 0 ELSE TagCells
        taken   == [sealed |-> ~ReadsBootstrap,
                    payload |-> SubSeq(cells, header + 1, Len(cells) - trailer)]
    IN /\ reader.pc = "record"
       /\ IF ReadsBootstrap \/ Opens(cells)
          THEN /\ reader' = [reader EXCEPT !.pc = "idle", !.encoded = <<>>, !.target = 0]
               /\ delivered' = Append(delivered, taken)
               /\ window' = IF ReadsBootstrap THEN window
                            ELSE CommitAuthenticated(window, cells[2])
          ELSE /\ reader' = Closed("unauthenticated_record")
               /\ UNCHANGED << delivered, window >>
       /\ LeaveWire(reader')
       /\ UNCHANGED << plan, listener, writer, written, nonces, faults >>

-----------------------------------------------------------------------------
WriterStep ==
    \/ WriteBootstrapRecord
    \/ WriteAuthenticatedRecord(TRUE)
    \/ \E n \in 1 .. Len(writer.left) : Send(n)

ReaderStep ==
    \/ BeginRead
    \/ Turn
    \/ \E n \in 1 .. Len(wire) : Recv(n)
    \/ TakeRecord

Next ==
    \/ \E ok \in BOOLEAN : Listen(ok)
    \/ Connect
    \/ AcceptCandidate
    \/ WriterStep
    \/ WriteAuthenticatedRecord(FALSE)
    \/ SendFails
    \/ CloseConnection
    \/ ReaderStep
    \/ PeerClosed
    \/ RecvFails

\* The thread of a connection runs until its call returns, and the Host
\* accepts what has connected. Nothing obliges a peer to connect or to write.
Fairness == WF_transportVars(ReaderStep) /\ WF_transportVars(AcceptCandidate)

Spec == Init /\ [][Next]_transportVars /\ Fairness

-----------------------------------------------------------------------------
(* Properties *)

\* The fields keep their ranges.
TransportTypeOK ==
    /\ listener \in BOOLEAN
    /\ writer.pc \in {"none", "idle", "sending", "closed"}
    /\ writer.next \in 0 .. MaxCounter
    /\ reader.pc \in {"none", "idle", "turn", "waiting", "record", "closed"}
    /\ reader.error \in {"none", "peer_mismatch", "peer_closed", "timed_out",
                         "invalid_record", "unauthenticated_record"}
    /\ Len(reader.pending) <= BufferSize
    /\ written \in 0 .. Len(plan.records)
    /\ Len(delivered) <= written
    /\ faults \in 0 .. MaxFaults

\* However the network cuts and joins the stream, the records come out as they
\* went in, across the change from bootstrap to encrypted records: the cells
\* a read call leaves pending are where the next one begins.
DeliveredInOrder ==
    /\ delivered = SubSeq(plan.records, 1, Len(delivered))
    /\ reader.error \notin {"invalid_record", "unauthenticated_record"}

\* A counter reaches the cipher once in the life of a key, also at the last
\* counter and after a failed attempt.
NonceUsedOnce == \A i, j \in DOMAIN nonces : nonces[i] = nonces[j] => i = j

\* A record that was sent whole is delivered without a further cell from the
\* peer, unless the socket or a deadline failed: a read call never waits for
\* what it already holds.
WrittenIsRead ==
    \A n \in 1 .. Max({Len(p.records) : p \in Plans}) :
        (/\ written >= n + (IF writer.pc = "sending" THEN 1 ELSE 0)
         /\ plan.peer = "expected")
        ~> (Len(delivered) >= n \/ faults > 0)

\* Records come out as they went in, and each was sealed under a nonce of its own.
RecordsInOrder ==
    /\ TransportTypeOK
    /\ DeliveredInOrder
    /\ NonceUsedOnce
=============================================================================
