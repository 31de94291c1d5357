------------------------------- MODULE Framing -------------------------------
(***************************************************************************)
(* The receiving side of a connection, of the server and of the client      *)
(* alike: filter_pbrpc_messages and generic_read_cb of rpc/pbc/pbrpc-svc.c. *)
(*                                                                          *)
(* A message is a header with its length and a body; the network delivers   *)
(* the bytes in pieces of any size.  libevent calls the filter as long as   *)
(* it moves something from the socket's buffer src to dst, and the read     *)
(* callback once if it moved anything at all; what the filter returns is    *)
(* used for nothing else.  generic_read_cb takes all of dst and hands it to *)
(* xdr->proc message by message, trusting the lengths it finds.             *)
(*                                                                          *)
(* A byte is the number of its message and its place in it.  A length read  *)
(* at a place where no header starts is any number.                         *)
(***************************************************************************)
EXTENDS Integers, Sequences

CONSTANTS
    Hdr,       \* 8: sizeof(uint64_t)
    MaxBody,   \* bound: length of a body
    MaxMsgs,   \* bound: messages written by the peer
    Faults     \* what may fail: "mem" (calloc), "conn" (the socket)

ASSUME FramingAssumption == /\ Hdr \in Nat \ {0}
                            /\ MaxBody \in Nat
                            /\ MaxMsgs \in Nat
                            /\ Faults \subseteq {"mem", "conn"}

VARIABLES
    body,   \* length of the body of every message written so far
    wire,   \* bytes on their way
    src,    \* input buffer of the socket's bufferevent
    dst,    \* input buffer of the filtering bufferevent
    pc,     \* where the event thread is
    moved,  \* the filter has returned BEV_OK since the data came in
    msg,    \* what generic_read_cb has read and not yet handed over
    done,   \* messages handed to xdr->proc
    conn,   \* "up", or "freed" by generic_event_cb
    nomem   \* history: the last generic_read_cb had no memory

vars == <<body, wire, src, dst, pc, moved, msg, done, conn, nomem>>

Byte == (1 .. MaxMsgs) \X (1 .. Hdr + MaxBody)

TypeOK ==
    /\ body \in Seq(0 .. MaxBody) /\ Len(body) <= MaxMsgs
    /\ wire \in Seq(Byte)
    /\ src \in Seq(Byte)
    /\ dst \in Seq(Byte)
    /\ pc \in {"idle", "filter", "read", "loop", "overrun"}
    /\ moved \in BOOLEAN
    /\ msg \in Seq(Byte)
    /\ done \in Seq(0 .. MaxMsgs)
    /\ conn \in {"up", "freed"}
    /\ nomem \in BOOLEAN

Init ==
    /\ body = <<>>
    /\ wire = <<>>
    /\ src = <<>>
    /\ dst = <<>>
    /\ pc = "idle"
    /\ moved = FALSE
    /\ msg = <<>>
    /\ done = <<>>
    /\ conn = "up"
    /\ nomem = FALSE

First(s, n) == SubSeq(s, 1, n)
Rest(s, n)  == SubSeq(s, n + 1, Len(s))

\* The lengths that be64toh can yield at the front of s.
Lengths(s) == IF s[1][2] = 1 THEN {body[s[1][1]]} ELSE 0 .. MaxBody

-----------------------------------------------------------------------------
(* The peer and the network.                                                *)

\* rpc_write_request or rpc_write_reply of the peer.
Write(n) ==
    /\ conn = "up"
    /\ Len(body) < MaxMsgs
    /\ body' = Append(body, n)
    /\ wire' = wire \o [k \in 1 .. Hdr + n |-> <<Len(body) + 1, k>>]
    /\ UNCHANGED <<src, dst, pc, moved, msg, done, conn, nomem>>

\* The socket is readable: some bytes come in and the filter is run.
Arrive ==
    /\ pc = "idle"
    /\ \E n \in 1 .. Len(wire) :
         /\ src' = src \o First(wire, n)
         /\ wire' = Rest(wire, n)
    /\ pc' = "filter"
    /\ moved' = FALSE
    /\ UNCHANGED <<body, dst, msg, done, conn, nomem>>

\* generic_event_cb: an error or the end of the stream frees the bufferevent.
EventCb ==
    /\ "conn" \in Faults
    /\ pc = "idle"
    /\ conn = "up"
    /\ conn' = "freed"
    /\ wire' = <<>>
    /\ src' = <<>>
    /\ dst' = <<>>
    /\ UNCHANGED <<body, pc, moved, msg, done, nomem>>

-----------------------------------------------------------------------------
(* filter_pbrpc_messages.                                                   *)

\* Slips that the properties below must notice are written out next to the
\* definition they are slips of; no specification uses them.
ExpectedLenBodyOnly(n) == IF n = 0 THEN 1 ELSE n

\* expected_len: the header and what it announces.
ExpectedLen(n) == Hdr + n

WholeLess(s, n) == Len(s) > ExpectedLen(n)

\* Not buf_len < expected_len.
Whole(s, n) == Len(s) >= ExpectedLen(n)

\* BEV_ERROR without a complete header, BEV_NEED_MORE without a complete
\* message: nothing is moved and libevent stops asking.
FilterStop ==
    /\ pc = "filter"
    /\ \/ Len(src) < Hdr
       \/ Len(src) >= Hdr /\ \E n \in Lengths(src) : ~Whole(src, n)
    /\ pc' = IF moved THEN "read" ELSE "idle"
    /\ UNCHANGED <<body, wire, src, dst, moved, msg, done, conn, nomem>>

\* evbuffer_remove_buffer moves one message; libevent asks again if there is
\* more.
FilterMove ==
    /\ pc = "filter"
    /\ Len(src) >= Hdr
    /\ \E n \in Lengths(src) :
         /\ Whole(src, n)
         /\ dst' = dst \o First(src, ExpectedLen(n))
         /\ src' = Rest(src, ExpectedLen(n))
    /\ moved' = TRUE
    /\ pc' = IF src' = <<>> THEN "read" ELSE "filter"
    /\ UNCHANGED <<body, wire, msg, done, conn, nomem>>

-----------------------------------------------------------------------------
(* generic_read_cb.                                                         *)

\* All of dst is read; without memory for it the callback returns and leaves
\* it there.
ReadCb ==
    /\ pc = "read"
    /\ \/ /\ msg' = dst
          /\ dst' = <<>>
          /\ pc' = "loop"
          /\ nomem' = FALSE
       \/ /\ "mem" \in Faults
          /\ pc' = "idle"
          /\ nomem' = TRUE
          /\ UNCHANGED <<msg, dst>>
    /\ UNCHANGED <<body, wire, src, moved, done, conn>>

\* rpc_read_req and rpc_read_rsp: bytes_read from the length alone.
BytesRead(n) == n + Hdr

ProcOnce ==
    /\ pc = "loop"
    /\ msg # <<>>
    /\ done' = Append(done, msg[1][1])
    /\ msg' = <<>>
    /\ UNCHANGED <<body, wire, src, dst, pc, moved, conn, nomem>>

\* bytes_read = xdr->proc(..), msg += bytes_read, read -= bytes_read.  A
\* message that claims more than there is would be read past the buffer.
Proc ==
    /\ pc = "loop"
    /\ msg # <<>>
    /\ \E n \in Lengths(msg) :
         IF BytesRead(n) <= Len(msg)
         THEN /\ done' = Append(done, IF msg[1][2] = 1 THEN msg[1][1] ELSE 0)
              /\ msg' = Rest(msg, BytesRead(n))
              /\ UNCHANGED pc
         ELSE /\ pc' = "overrun"
              /\ UNCHANGED <<done, msg>>
    /\ UNCHANGED <<body, wire, src, dst, moved, conn, nomem>>

ReadCbEnd ==
    /\ pc = "loop"
    /\ msg = <<>>
    /\ pc' = "idle"
    /\ UNCHANGED <<body, wire, src, dst, moved, msg, done, conn, nomem>>

-----------------------------------------------------------------------------
LoopStep == FilterStop \/ FilterMove \/ ReadCb \/ Proc \/ ReadCbEnd

Next == LoopStep \/ Arrive \/ EventCb \/ \E n \in 0 .. MaxBody : Write(n)

\* The event thread keeps running and the network delivers.
Fairness == WF_vars(LoopStep) /\ WF_vars(Arrive)

Spec == Init /\ [][Next]_vars

FairSpec == Spec /\ Fairness

-----------------------------------------------------------------------------
(* Correctness.                                                             *)

\* The receiving side is a queue of whole messages, module MsgQueue: however
\* the bytes are cut and joined, and although a callback without memory leaves
\* its messages for the next one, each is handed over once and in order.
Q == INSTANCE MsgQueue WITH sent <- Len(body), got <- done,
                            closed <- (conn = "freed")

\* Framing implements MsgQueue.
ImplementsQueue == Q!Spec

\* generic_read_cb never reads past its buffer: the filter lets only whole
\* messages through, so the length of each agrees with what is there.
NoOverrun == TypeOK /\ pc # "overrun"

\* Every message that was written is handed over, or the connection ends, or
\* the read callback finds no memory.
EveryMessageTaken ==
    \A k \in 1 .. MaxMsgs :
        (Len(body) >= k) ~> (Len(done) >= k \/ conn = "freed" \/ nomem)
=============================================================================
