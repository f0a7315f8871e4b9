------------------------------ MODULE EchoNet -------------------------------
(***************************************************************************)
(* net/Network.cpp: the client sends "hello world" TestCases times and     *)
(* reads the echo into the same buffer; the server's receiver thread       *)
(* echoes what it reads, in a loop that nothing ends and that allocates a  *)
(* buffer on every turn.  TCP may cut a stream anywhere.  A byte is the    *)
(* position it has in the message; no byte of it is zero.                  *)
(***************************************************************************)
EXTENDS MyClock, Sequences

CONSTANTS
    MsgLen,      \* strlen("hello world")
    BufLen,      \* nread: the server's buffer
    TestCases,   \* TESTCASE
    HeapCap      \* buffers the server can allocate before memory is exhausted

ASSUME EchoAssumption ==
    /\ MsgLen \in Nat \ {0} /\ BufLen \in Nat \ {0} /\ TestCases \in Nat
    /\ HeapCap \in Nat /\ HeapCap > TestCases * MsgLen

VARIABLES
    cpc,         \* the client: connect, begin, begun, loop, write, read, stop,
                 \* check, ended, killed
    spc,         \* the server: start, accept, unserved (no receiver thread), read,
                 \* write, exit, aborted, killed
    conn,        \* none, nosocket, up, refused (the server dropped it), gone (client
                 \* left)
    reset,       \* TCP has reset the connection
    buf,         \* the client's buffer
    c2s, s2c,    \* bytes under way
    sbuf,        \* what the server read and has not yet written
    heap,        \* buffers the server has allocated
    round,       \* the client's i
    lastRead,    \* bytes the read of this round returned
    reported,    \* "recv error" was reported in this round
    sent, got,   \* all bytes the client sent and received on the connection
    spent        \* time spent between begin or resume and stop

netVars == <<cpc, spc, conn, reset, buf, c2s, s2c, sbuf, heap, round, lastRead,
             reported, sent, got>>
echoVars == <<netVars, clockVars, spent>>

Message == [k \in 1..MsgLen |-> k]

NetInit ==
    /\ ClockInit
    /\ cpc = "connect" /\ spc = "start" /\ conn = "none" /\ reset = FALSE
    /\ buf = Message
    /\ c2s = <<>> /\ s2c = <<>> /\ sbuf = <<>>
    /\ heap = 0 /\ round = 0 /\ lastRead = MsgLen /\ reported = FALSE
    /\ sent = <<>> /\ got = <<>>
    /\ spent = 0

-----------------------------------------------------------------------------
(* The client                                                               *)

\* connect() reaches a listening server, nobody, or has no socket (the result
\* of socket() is not tested); the client goes on in every case.
connect ==
    /\ cpc = "connect"
    /\ \/ spc \in {"accept", "unserved"} /\ conn' = "up"
       \/ spc \in {"start", "exit", "killed"} /\ conn' = "none"
       \/ conn' = "nosocket"
    /\ cpc' = "begin"
    /\ UNCHANGED <<clockVars, spent, spc, reset, buf, c2s, s2c, sbuf, heap, round,
                   lastRead, reported, sent, got>>

clientThread_begin ==
    /\ cpc = "begin"
    /\ begin
    /\ cpc' = "begun"
    /\ UNCHANGED <<spent, spc, conn, reset, buf, c2s, s2c, sbuf, heap, round,
                   lastRead, reported, sent, got>>

clientThread_stop ==
    /\ cpc = "begun"
    /\ stop
    /\ cpc' = "loop"
    /\ UNCHANGED <<spent, spc, conn, reset, buf, c2s, s2c, sbuf, heap, round,
                   lastRead, reported, sent, got>>

clientThread_resume ==
    /\ cpc = "loop" /\ round < TestCases
    /\ resume
    /\ cpc' = "write" /\ lastRead' = 0 /\ reported' = FALSE
    /\ UNCHANGED <<spent, spc, conn, reset, buf, c2s, s2c, sbuf, heap, round,
                   sent, got>>

\* write(): queued; refused without a socket; SIGPIPE on a socket that is not
\* connected, and on one the server has closed, from the second write on or
\* already on the first one.
clientThread_write ==
    /\ cpc = "write"
    /\ \/ /\ conn = "up"
          /\ c2s' = c2s \o buf /\ sent' = sent \o buf
          /\ cpc' = "read" /\ UNCHANGED reset
       \/ /\ conn = "nosocket"
          /\ cpc' = "read" /\ UNCHANGED <<c2s, sent, reset>>
       \/ /\ conn = "refused" /\ ~reset
          /\ reset' = TRUE /\ cpc' = "read" /\ UNCHANGED <<c2s, sent>>
       \/ /\ conn \in {"none", "refused"}
          /\ cpc' = "killed" /\ UNCHANGED <<c2s, sent, reset>>
    /\ UNCHANGED <<clockVars, spent, spc, conn, buf, s2c, sbuf, heap, round,
                   lastRead, reported, got>>

\* Mutation of Landed: the bytes go behind the first one.
LandedBehind(b, n) ==
    [k \in 1..MsgLen |-> IF k > 1 /\ k <= n + 1 THEN s2c[k - 1] ELSE b[k]]

\* The buffer b after a read of n bytes: the rest keeps its content.
Landed(b, n) == [k \in 1..MsgLen |-> IF k <= n THEN s2c[k] ELSE b[k]]

\* read(): some bytes, at most strlen(buf); nothing, without a socket or once
\* the server has closed.
clientThread_read ==
    /\ cpc = "read"
    /\ \/ /\ conn = "up"
          /\ \E n \in 1..MsgLen :
                /\ n <= Len(s2c)
                /\ buf' = Landed(buf, n)
                /\ got' = got \o SubSeq(s2c, 1, n)
                /\ s2c' = SubSeq(s2c, n + 1, Len(s2c))
                /\ lastRead' = n
       \/ /\ conn \in {"nosocket", "refused"}
          /\ lastRead' = 0
          /\ UNCHANGED <<buf, got, s2c>>
    /\ cpc' = "stop"
    /\ UNCHANGED <<clockVars, spent, spc, conn, reset, c2s, sbuf, heap, round,
                   reported, sent>>

clientThread_stop_round ==
    /\ cpc = "stop"
    /\ stop
    /\ cpc' = "check"
    /\ UNCHANGED <<spent, spc, conn, reset, buf, c2s, s2c, sbuf, heap, round,
                   lastRead, reported, sent, got>>

\* strcmp(buf, "hello world")
clientThread_check ==
    /\ cpc = "check"
    /\ reported' = (buf # Message)
    /\ round' = round + 1 /\ cpc' = "loop"
    /\ UNCHANGED <<clockVars, spent, spc, conn, reset, buf, c2s, s2c, sbuf, heap,
                   lastRead, sent, got>>

\* close(): with bytes unread the connection is reset, and the bytes under way
\* to the server are lost or have been queued there.
clientThread_close ==
    /\ cpc = "loop" /\ round = TestCases
    /\ cpc' = "ended"
    /\ IF conn = "up"
       THEN /\ conn' = "gone" /\ reset' = (s2c # <<>>)
            /\ c2s' = c2s \/ (s2c # <<>> /\ c2s' = <<>>)
            /\ s2c' = <<>>
       ELSE UNCHANGED <<conn, reset, c2s, s2c>>
    /\ UNCHANGED <<clockVars, spent, spc, buf, sbuf, heap, round, lastRead, reported,
                   sent, got>>

-----------------------------------------------------------------------------
(* The server                                                               *)

\* socket, bind or listen fail, or the receiver thread starts; a failure of
\* pthread_create is only reported.
serverThread ==
    /\ spc = "start"
    /\ spc' \in {"accept", "exit", "unserved"}
    /\ UNCHANGED <<clockVars, spent, cpc, conn, reset, buf, c2s, s2c, sbuf, heap, round,
                   lastRead, reported, sent, got>>

\* pthread_join of an identifier that was never set fails, and the process ends,
\* or crashes; the connection a client may have made by then is dropped.
serverThread_join ==
    /\ spc = "unserved"
    /\ spc' \in {"exit", "killed"}
    /\ IF conn = "up" THEN conn' = "refused" /\ c2s' = <<>> ELSE UNCHANGED <<conn, c2s>>
    /\ UNCHANGED <<clockVars, spent, cpc, reset, buf, s2c, sbuf, heap, round, lastRead,
                   reported, sent, got>>

\* accept(): `size` is not initialized; with a negative value accept fails with
\* EINVAL and drops the connection.  The result is not tested.
receiveHandler_accept ==
    /\ spc = "accept" /\ conn \in {"up", "gone"}
    /\ spc' = "read"
    /\ \/ UNCHANGED <<conn, c2s>>
       \/ conn' = "refused" /\ c2s' = <<>>
    /\ UNCHANGED <<clockVars, spent, cpc, reset, buf, s2c, sbuf, heap, round,
                   lastRead, reported, sent, got>>

\* Mutation of receiveHandler_read: read() does not wait for bytes.
receiveHandler_read_nowait ==
    /\ spc = "read" /\ heap < HeapCap
    /\ heap' = heap + 1
    /\ \/ \E n \in 1..BufLen :
            /\ n <= Len(c2s)
            /\ sbuf' = SubSeq(c2s, 1, n)
            /\ c2s' = SubSeq(c2s, n + 1, Len(c2s))
       \/ /\ c2s = <<>>
          /\ sbuf' = <<>> /\ UNCHANGED c2s
    /\ spc' = "write"
    /\ UNCHANGED <<clockVars, spent, cpc, conn, reset, buf, s2c, round, lastRead,
                   reported, sent, got>>

\* new char[128] and read(): some bytes, or none once the client has gone, after
\* a reset, or without a connection.  The buffer is fresh memory, so strlen
\* counts exactly the bytes read.
receiveHandler_read ==
    /\ spc = "read" /\ heap < HeapCap
    /\ heap' = heap + 1
    /\ \/ \E n \in 1..BufLen :
            /\ n <= Len(c2s)
            /\ sbuf' = SubSeq(c2s, 1, n)
            /\ c2s' = SubSeq(c2s, n + 1, Len(c2s))
       \/ /\ c2s = <<>> /\ conn # "up"
          /\ sbuf' = <<>> /\ UNCHANGED c2s
    /\ spc' = "write"
    /\ UNCHANGED <<clockVars, spent, cpc, conn, reset, buf, s2c, round, lastRead,
                   reported, sent, got>>

\* Mutation of Echo: one byte less than strlen(buf).
EchoLess == SubSeq(sbuf, 1, Len(sbuf) - 1)

\* What the server writes back: strlen(buf) bytes.
Echo == sbuf

\* write(): to the client, to a client that has gone (which resets the
\* connection), or on a reset connection, where SIGPIPE kills the server.
receiveHandler_write ==
    /\ spc = "write"
    /\ \/ /\ conn = "up"
          /\ s2c' = s2c \o Echo /\ spc' = "read" /\ UNCHANGED reset
       \/ /\ conn = "gone" /\ ~reset
          /\ reset' = (sbuf # <<>>) /\ spc' = "read" /\ UNCHANGED s2c
       \/ /\ conn = "gone" /\ reset
          /\ spc' = "killed" /\ UNCHANGED <<s2c, reset>>
       \/ /\ conn = "refused"
          /\ spc' = "read" /\ UNCHANGED <<s2c, reset>>
    /\ sbuf' = <<>>
    /\ UNCHANGED <<clockVars, spent, cpc, conn, buf, c2s, heap, round, lastRead,
                   reported, sent, got>>

\* new throws std::bad_alloc.
receiveHandler_exhausted ==
    /\ spc = "read" /\ heap = HeapCap
    /\ spc' = "aborted"
    /\ UNCHANGED <<clockVars, spent, cpc, conn, reset, buf, c2s, s2c, sbuf, heap, round,
                   lastRead, reported, sent, got>>

-----------------------------------------------------------------------------
\* Is the stopwatch running?
Running == cpc \in {"begun", "write", "read", "stop"}

Time ==
    /\ Tick
    /\ spent' = IF Running THEN spent + 1 ELSE spent
    /\ UNCHANGED netVars

Client ==
    \/ connect \/ clientThread_begin \/ clientThread_stop \/ clientThread_resume
    \/ clientThread_write \/ clientThread_read \/ clientThread_stop_round
    \/ clientThread_check \/ clientThread_close

Receiver ==
    \/ receiveHandler_accept \/ receiveHandler_read \/ receiveHandler_write
    \/ receiveHandler_exhausted

NetNext == Client \/ serverThread \/ serverThread_join \/ Receiver \/ Time

\* Both programs are scheduled: a started server calls accept, and one without a
\* receiver thread comes to its pthread_join.
NetSpec ==
    /\ NetInit /\ [][NetNext]_echoVars
    /\ WF_echoVars(Client) /\ WF_echoVars(Receiver) /\ WF_echoVars(serverThread_join)

-----------------------------------------------------------------------------
(* Properties                                                               *)

\* Nothing is lost, added or reordered: what the client has sent is what it has
\* received, followed by what is under way and in the server's buffer, however
\* TCP cuts the streams.
EchoConserves == conn = "up" => sent = got \o s2c \o sbuf \o c2s

\* `if( strcmp(buf, "hello world") != 0 ) perror("recv error")` reports no failure
\* of its own round: the answer is read into the buffer that was sent.  It
\* reports only a client that was behind before, since a read of an earlier round
\* had returned less than the message.
AlarmComesLate ==
    cpc = "loop" /\ reported => Len(got) - lastRead < (round - 1) * MsgLen

\* The stopwatch holds exactly the time spent between resume and stop, never
\* the time of the comparison and the report.
ClockExact ==
    cpc \notin {"begin", "killed"} => spent = m_timeByUSec + (IF Running THEN Elapsed ELSE 0)

\* A client that has connected finishes its rounds or is killed: it is never
\* left waiting for bytes, though reads may return a part of a message.
ClientEnds == cpc = "begin" ~> cpc \in {"ended", "killed"}

\* While the client is connected the receiver never dies, neither of SIGPIPE nor of
\* the memory it does not give back: a turn waits for a byte, so it has allocated
\* no more buffers than the bytes the client has sent.
ReceiverLives == conn = "up" => spc \notin {"aborted", "killed"}
=============================================================================
