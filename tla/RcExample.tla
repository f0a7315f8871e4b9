----------------------------- MODULE RcExample -----------------------------
(***************************************************************************)
(* rdma/rc_example.c: one server process and one client process connect    *)
(* over TCP, exchange the description of their queue pairs, move the pairs *)
(* to RTS and then run one SEND, one RDMA READ and one RDMA WRITE, with a  *)
(* TCP byte exchange (sock_sync_data) between the phases.                  *)
(*                                                                         *)
(* A process is its program counter; every blocking call, every verbs call *)
(* and every access to the registered buffer is one step, so that the two  *)
(* processes and the two adapters interleave freely.  The TCP connection   *)
(* and the adapters (libibverbs, hardware) are external: they are modelled *)
(* from what rc_example.c uses of them.                                    *)
(***************************************************************************)
EXTENDS Integers, Sequences

CONSTANTS
    ConLen,   \* bytes of struct cm_con_data_t on the wire (40 in the build)
    Faults    \* which of FaultKinds may happen

FaultKinds == {"bind",     \* bind() of the listening socket fails
               "accept",   \* accept() returns an error
               "refused",  \* the client may start before the server listens
               "create",   \* a verbs call of resources_create fails
               "gid",      \* ibv_query_gid fails
               "segment",  \* TCP hands the connection data over in pieces
               "modify",   \* ibv_modify_qp fails
               "post",     \* ibv_post_send / ibv_post_recv fails
               "poll",     \* ibv_poll_cq returns a negative value
               "timeout",  \* MAX_POLL_CQ_TIMEOUT runs out
               "loss",     \* the fabric loses a request or its acknowledgement
               "destroy",  \* a call of resources_destroy fails
               "kill"}     \* a process is killed at any point

ASSUME ConLenAssumption == ConLen \in Nat \ {0}
ASSUME FaultsAssumption == Faults \subseteq FaultKinds

Procs == {"server", "client"}
Peer(p) == IF p = "server" THEN "client" ELSE "server"

WriteLabels == {"con_write", "q_write", "r_write", "w_write"}
ReadLabels  == {"con_read", "q_read", "r_read", "w_read"}
SendLabels  == {"send", "post_read", "post_write"}
PollLabels  == {"poll1", "poll2", "poll3"}
ExitLabels  == {"destroy_qp", "close_sock", "exit", "aborted", "killed"}
Labels == {"listen", "accept", "connect", "create", "to_init", "post_recv",
           "to_rtr", "to_rts", "use1", "use2", "finish"}
          \cup WriteLabels \cup ReadLabels \cup SendLabels \cup PollLabels
          \cup ExitLabels

\* What the 64-byte buffer holds: MSG, RDMAMSGR and RDMAMSGW are the macros.
Contents == {"zero", "MSG", "RDMAMSGR", "RDMAMSGW"}
Ops == {"SEND", "RDMA_READ", "RDMA_WRITE"}
Completions == [op : Ops \cup {"RECV"}, status : {"SUCCESS", "ERROR"}]

VARIABLES
    pc,      \* where each process is in rcmain and the functions it calls
    rc,      \* the result rcmain will return
    link,    \* what the server's listening socket is doing
    conn,    \* each process's end of the TCP connection
    wr,      \* bytes each process has written to the connection
    rd,      \* bytes each process has read from it
    total,   \* total_read_bytes of the sock_sync_data call in progress
    synced,  \* how many sock_sync_data calls of the process have returned 0
    con,     \* tmp_con_data: index in the peer's stream of each byte, 0 = never written
    qp,      \* queue pair state ("none": not created or destroyed)
    rq,      \* receive requests posted and not consumed
    sqOp,    \* the send request in the send queue, or "none"
    sqAt,    \* "posted" until the peer's adapter has "executed" it; "empty": none
    cq,      \* completion queue
    buf,     \* contents of res.buf
    shown    \* what rcmain has printed of the buffers

tcpVars == <<link, conn, wr, rd, total, synced, con>>
ibVars  == <<qp, rq, sqOp, sqAt, cq>>
memVars == <<buf, shown>>
vars == <<pc, rc, link, conn, wr, rd, total, synced, con, qp, rq, sqOp, sqAt,
          cq, buf, shown>>

Init ==
    /\ pc = [p \in Procs |-> IF p = "server" THEN "listen" ELSE "connect"]
    /\ rc = [p \in Procs |-> 1]
    /\ link = "down"
    /\ conn = [p \in Procs |-> "none"]
    /\ wr = [p \in Procs |-> 0]
    /\ rd = [p \in Procs |-> 0]
    /\ total = [p \in Procs |-> 0]
    /\ synced = [p \in Procs |-> 0]
    /\ con = [p \in Procs |-> [i \in 1..ConLen |-> 0]]
    /\ qp = [p \in Procs |-> "none"]
    /\ rq = [p \in Procs |-> 0]
    /\ sqOp = [p \in Procs |-> "none"]
    /\ sqAt = [p \in Procs |-> "empty"]
    /\ cq = [p \in Procs |-> <<>>]
    /\ buf = [p \in Procs |-> "zero"]
    /\ shown = [s \in {"message", "contents", "final"} |-> "none"]

Goto(p, l) == pc' = [pc EXCEPT ![p] = l]

\* goto main_exit with rc = 1: resources_destroy comes next.
Fail(p) == Goto(p, "destroy_qp") /\ UNCHANGED rc

\* The queue pair goes, and with it every request posted to it and every
\* completion of its requests.
DropQp(p) ==
    /\ qp' = [qp EXCEPT ![p] = "none"]
    /\ rq' = [rq EXCEPT ![p] = 0]
    /\ sqOp' = [sqOp EXCEPT ![p] = "none"]
    /\ sqAt' = [sqAt EXCEPT ![p] = "empty"]
    /\ cq' = [cq EXCEPT ![p] = <<>>]

-----------------------------------------------------------------------------
(* TCP                                                                      *)

\* close() of p's end.  A peer whose bytes were read gets FIN; one whose bytes
\* were not read gets RST, or FIN when they were still on the way.
CloseSock(p) ==
    LET q == Peer(p) IN
    \E end \in {"fin", "rst"} :
        /\ end = "rst" => wr[q] > rd[p]
        /\ conn' = [conn EXCEPT ![p] = "closed",
                                ![q] = IF @ = "open" THEN end ELSE @]

CloseIfOpen(p) ==
    IF conn[p] \in {"none", "closed"} THEN UNCHANGED conn ELSE CloseSock(p)

\* Server mode of sock_connect up to accept().  A failed bind() is only
\* reported: listen() then takes a port nobody knows.
sock_listen ==
    /\ pc["server"] = "listen"
    /\ \/ link' = "listening"
       \/ "bind" \in Faults /\ link' = "unreachable"
    /\ Goto("server", "accept")
    /\ UNCHANGED <<rc, conn, wr, rd, total, synced, con, ibVars, memVars>>

\* accept() returns the connection and the listening socket is closed.
sock_accept ==
    /\ pc["server"] = "accept"
    /\ link = "up"
    /\ link' = "down"
    /\ Goto("server", "create")
    /\ UNCHANGED <<rc, conn, wr, rd, total, synced, con, ibVars, memVars>>

\* The listening socket is closed while the server is in accept(): a
\* connection that was waiting in its queue is reset.
CloseListener ==
    /\ link' = "down"
    /\ conn' = IF link # "up" THEN conn
               ELSE [conn EXCEPT !["server"] = "closed",
                                 !["client"] = IF @ = "open" THEN "rst" ELSE @]

\* accept() fails.  The listening socket is closed all the same and
\* resources_create gives up.
sock_accept_fails ==
    /\ pc["server"] = "accept"
    /\ "accept" \in Faults
    /\ CloseListener
    /\ Fail("server")
    /\ UNCHANGED <<wr, rd, total, synced, con, ibVars, memVars>>

\* Client mode of sock_connect.  The kernel completes the connection while
\* the server is listening, before accept() returns.
sock_connect ==
    /\ pc["client"] = "connect"
    /\ link = "listening"
    /\ link' = "up"
    /\ conn' = [p \in Procs |-> "open"]
    /\ Goto("client", "create")
    /\ UNCHANGED <<rc, wr, rd, total, synced, con, ibVars, memVars>>

\* Nobody listens: the server has not started, has given up, or could not
\* bind its port.
sock_connect_fails ==
    /\ pc["client"] = "connect"
    /\ link # "listening"
    /\ "refused" \in Faults \/ pc["server"] # "listen"
    /\ Fail("client")
    /\ UNCHANGED <<tcpVars, ibVars, memVars>>

\* Mutations of XferSize: the size of a pointer is read, one byte too many is read.
XferSizeOfPointer(l) == IF l = "con_write" THEN ConLen ELSE 1
XferSizeTooLong(l) ==
    IF l = "con_write" THEN ConLen ELSE IF l = "con_read" THEN ConLen + 1 ELSE 1

XferSize(l) == IF l \in {"con_write", "con_read"} THEN ConLen ELSE 1

ReadAfterWrite(l) ==
    CASE l = "con_write" -> "con_read"
      [] l = "q_write"   -> "q_read"
      [] l = "r_write"   -> "r_read"
      [] OTHER           -> "w_read"

\* The write() of sock_sync_data.  The first write after the peer's FIN is
\* accepted too (and answered by RST).
sock_sync_write(p) ==
    /\ pc[p] \in WriteLabels
    /\ conn[p] \in {"open", "fin"}
    /\ wr' = [wr EXCEPT ![p] = @ + XferSize(pc[p])]
    /\ conn' = [conn EXCEPT ![p] = IF @ = "fin" THEN "finrst" ELSE @]
    /\ total' = [total EXCEPT ![p] = 0]
    /\ Goto(p, ReadAfterWrite(pc[p]))
    /\ UNCHANGED <<rc, link, rd, synced, con, ibVars, memVars>>

\* A write() after RST fails, and the assertion on its result (or SIGPIPE)
\* kills the process.
sock_sync_assert(p) ==
    /\ pc[p] \in WriteLabels
    /\ conn[p] \in {"rst", "finrst"}
    /\ conn' = [conn EXCEPT ![p] = "closed"]
    /\ DropQp(p)
    /\ Goto(p, "aborted")
    /\ UNCHANGED <<rc, link, wr, rd, total, synced, con, memVars>>

Avail(p) == wr[Peer(p)] - rd[p]

\* How many bytes one read() of at most x bytes may return.
ReadSizes(p, x) ==
    {n \in 1..x : /\ n <= Avail(p)
                  /\ "segment" \in Faults \/ n = x \/ n = Avail(p)}

\* Mutation of AfterRead: the client does not wait for the message.
AfterReadNoPoll(p) ==
    CASE pc[p] = "con_read" -> "to_init"
      [] pc[p] = "q_read"   -> IF p = "server" THEN "send" ELSE "use1"
      [] pc[p] = "r_read"   -> IF p = "server" THEN "w_write" ELSE "post_read"
      [] OTHER              -> "finish"

AfterRead(p) ==
    CASE pc[p] = "con_read" -> "to_init"
      [] pc[p] = "q_read"   -> IF p = "server" THEN "send" ELSE "poll1"
      [] pc[p] = "r_read"   -> IF p = "server" THEN "w_write" ELSE "post_read"
      [] OTHER              -> "finish"

\* One turn of the read loop of sock_sync_data: every read() stores its bytes
\* at the START of remote_data and asks for xfer_size bytes again.
sock_sync_read(p) ==
    /\ pc[p] \in ReadLabels
    /\ \E n \in ReadSizes(p, XferSize(pc[p])) :
        /\ rd' = [rd EXCEPT ![p] = @ + n]
        /\ total' = [total EXCEPT ![p] = @ + n]
        /\ IF pc[p] = "con_read"
           THEN con' = [con EXCEPT ![p] = [i \in 1..ConLen |->
                                IF i <= n THEN rd[p] + i ELSE con[p][i]]]
           ELSE UNCHANGED con
        /\ IF total[p] + n >= XferSize(pc[p])
           THEN /\ synced' = [synced EXCEPT ![p] = @ + 1]
                /\ Goto(p, AfterRead(p))
           ELSE UNCHANGED <<synced, pc>>
    /\ UNCHANGED <<rc, link, conn, wr, ibVars, memVars>>

\* Mutation of sock_sync_reset: the error is returned as success.
sock_sync_reset_ignored(p) ==
    /\ pc[p] \in ReadLabels
    /\ conn[p] = "rst"
    /\ Goto(p, AfterRead(p))
    /\ UNCHANGED <<rc, tcpVars, ibVars, memVars>>

\* read() reports the reset connection: sock_sync_data returns -1.
sock_sync_reset(p) ==
    /\ pc[p] \in ReadLabels
    /\ conn[p] = "rst"
    /\ Fail(p)
    /\ UNCHANGED <<tcpVars, ibVars, memVars>>

\* The peer closed and nothing is left to read.
AtEof(p) ==
    /\ pc[p] \in ReadLabels
    /\ conn[p] \in {"fin", "finrst"}
    /\ Avail(p) = 0

\* Mutation of sock_sync_eof: end of file is returned as success.
sock_sync_eof_success(p) ==
    /\ AtEof(p)
    /\ Goto(p, AfterRead(p))
    /\ UNCHANGED <<rc, tcpVars, ibVars, memVars>>

\* read() returns 0 at end of file; rc stays 0, so the loop goes round again.
sock_sync_eof(p) == AtEof(p) /\ UNCHANGED vars

-----------------------------------------------------------------------------
(* Resources and queue pairs                                                *)

\* resources_create after the connection: device, PD, CQ, buffer, MR, QP.
resources_create(p) ==
    /\ pc[p] = "create"
    /\ qp' = [qp EXCEPT ![p] = "RESET"]
    /\ buf' = [buf EXCEPT ![p] = IF p = "server" THEN "MSG" ELSE "zero"]
    /\ Goto(p, "con_write")
    /\ UNCHANGED <<rc, tcpVars, rq, sqOp, sqAt, cq, shown>>

\* One of its calls fails: everything but the device context is released and
\* the socket is closed before resources_create returns.
resources_create_exit(p) ==
    /\ pc[p] = "create"
    /\ "create" \in Faults
    /\ CloseSock(p)
    /\ Fail(p)
    /\ UNCHANGED <<link, wr, rd, total, synced, con, ibVars, memVars>>

\* ibv_modify_qp to state `to`, then on to label l.
modify_qp(p, at, to, l) ==
    /\ pc[p] = at
    /\ qp' = [qp EXCEPT ![p] = to]
    /\ Goto(p, l)
    /\ UNCHANGED <<rc, tcpVars, rq, sqOp, sqAt, cq, memVars>>

\* Mutation of modify_qp_to_init: the client does not go on to post_recv.
modify_qp_to_init_no_recv(p) == modify_qp(p, "to_init", "INIT", "to_rtr")

modify_qp_to_init(p) ==
    modify_qp(p, "to_init", "INIT",
              IF p = "client" THEN "post_recv" ELSE "to_rtr")
modify_qp_rtr(p) == modify_qp(p, "to_rtr", "RTR", "to_rts")
modify_qp_rts(p) == modify_qp(p, "to_rts", "RTS", "q_write")

\* The client posts its one receive request before the queue pair can receive.
post_recv(p) ==
    /\ pc[p] = "post_recv"
    /\ rq' = [rq EXCEPT ![p] = @ + 1]
    /\ Goto(p, "to_rtr")
    /\ UNCHANGED <<rc, tcpVars, qp, sqOp, sqAt, cq, memVars>>

OpPosted(l) ==
    CASE l = "send"      -> "SEND"
      [] l = "post_read" -> "RDMA_READ"
      [] OTHER           -> "RDMA_WRITE"

\* Mutations of PollAfterPost: no poll after the RDMA read, or after the write.
PollAfterPostNotRead(l) ==
    IF l = "send" THEN "poll1" ELSE IF l = "post_read" THEN "use2" ELSE "poll3"
PollAfterPostNotWrite(l) ==
    IF l = "send" THEN "poll1" ELSE IF l = "post_read" THEN "poll2" ELSE "w_write"

PollAfterPost(l) ==
    CASE l = "send"      -> "poll1"
      [] l = "post_read" -> "poll2"
      [] OTHER           -> "poll3"

\* ibv_post_send takes a request in state RTS while the send queue
\* (max_send_wr = 1) has room.
post_send(p) ==
    /\ pc[p] \in SendLabels
    /\ qp[p] = "RTS" /\ sqOp[p] = "none"
    /\ sqOp' = [sqOp EXCEPT ![p] = OpPosted(pc[p])]
    /\ sqAt' = [sqAt EXCEPT ![p] = "posted"]
    /\ Goto(p, PollAfterPost(pc[p]))
    /\ UNCHANGED <<rc, tcpVars, qp, rq, cq, memVars>>

\* Mutation of AfterPoll: the server does not fill its buffer for the RDMA read.
AfterPollNoFill(l) == IF l = "poll1" THEN "r_write" ELSE IF l = "poll2" THEN "use2" ELSE "w_write"

AfterPoll(l) ==
    CASE l = "poll1" -> "use1"
      [] l = "poll2" -> "use2"
      [] OTHER       -> "w_write"

\* poll_completion takes one completion, whichever it is, and looks only at
\* its status.
poll_completion(p) ==
    /\ pc[p] \in PollLabels
    /\ cq[p] # <<>>
    /\ cq' = [cq EXCEPT ![p] = Tail(@)]
    /\ Goto(p, IF Head(cq[p]).status = "SUCCESS" THEN AfterPoll(pc[p])
               ELSE "destroy_qp")
    /\ UNCHANGED <<rc, tcpVars, qp, rq, sqOp, sqAt, memVars>>

\* Mutation of VerbsError: poll_completion has no time limit.
VerbsErrorNoTimeout(p) ==
    \/ pc[p] = "con_write" /\ "gid" \in Faults
    \/ pc[p] \in {"to_init", "to_rtr", "to_rts"} /\ "modify" \in Faults
    \/ pc[p] \in SendLabels \cup {"post_recv"} /\ "post" \in Faults

\* May the verbs call at p's label return an error?  ibv_query_gid comes
\* first in connect_qp; a poll finds nothing until the time is over.
VerbsError(p) ==
    \/ pc[p] = "con_write" /\ "gid" \in Faults
    \/ pc[p] \in {"to_init", "to_rtr", "to_rts"} /\ "modify" \in Faults
    \/ pc[p] \in SendLabels \cup {"post_recv"} /\ "post" \in Faults
    \/ pc[p] \in SendLabels /\ (qp[p] # "RTS" \/ sqOp[p] # "none")
    \/ pc[p] \in PollLabels /\ "poll" \in Faults
    \/ pc[p] \in PollLabels /\ "timeout" \in Faults /\ cq[p] = <<>>

\* The function that made the call returns the error and rcmain gives up.
verbs_fails(p) ==
    /\ VerbsError(p)
    /\ Fail(p)
    /\ UNCHANGED <<tcpVars, ibVars, memVars>>

-----------------------------------------------------------------------------
(* rcmain's own accesses to the buffer, and its end                         *)

\* After the first completion: the client prints the message, the server puts
\* the text for the RDMA read in its buffer.
first_use(p) ==
    /\ pc[p] = "use1"
    /\ IF p = "client"
       THEN shown' = [shown EXCEPT !["message"] = buf[p]] /\ UNCHANGED buf
       ELSE buf' = [buf EXCEPT ![p] = "RDMAMSGR"] /\ UNCHANGED shown
    /\ Goto(p, "r_write")
    /\ UNCHANGED <<rc, tcpVars, ibVars>>

\* After the RDMA read: the client prints what it read and prepares the write.
second_use(p) ==
    /\ pc[p] = "use2"
    /\ shown' = [shown EXCEPT !["contents"] = buf[p]]
    /\ buf' = [buf EXCEPT ![p] = "RDMAMSGW"]
    /\ Goto(p, "post_write")
    /\ UNCHANGED <<rc, tcpVars, ibVars>>

finish(p) ==
    /\ pc[p] = "finish"
    /\ shown' = IF p = "server" THEN [shown EXCEPT !["final"] = buf[p]]
                ELSE shown
    /\ rc' = [rc EXCEPT ![p] = 0]
    /\ Goto(p, "destroy_qp")
    /\ UNCHANGED <<tcpVars, ibVars, buf>>

\* resources_destroy, first half: ibv_destroy_qp.
destroy_qp(p) ==
    /\ pc[p] = "destroy_qp"
    /\ DropQp(p)
    /\ Goto(p, "close_sock")
    /\ UNCHANGED <<rc, tcpVars, memVars>>

\* resources_destroy, second half: memory, PD, device and at last the socket;
\* a call that fails only turns the result into 1.
close_sock(p) ==
    /\ pc[p] = "close_sock"
    /\ CloseIfOpen(p)
    /\ \/ UNCHANGED rc
       \/ "destroy" \in Faults /\ rc' = [rc EXCEPT ![p] = 1]
    /\ Goto(p, "exit")
    /\ UNCHANGED <<link, wr, rd, total, synced, con, ibVars, memVars>>

-----------------------------------------------------------------------------
(* The adapters and the fabric between them (external)                      *)

\* p's queue pair was given the peer's address, queue pair number and key.
PropsOK(p) == \A i \in 1..ConLen : con[p][i] = i

\* Packets of p's queue pair arrive at a queue pair that takes requests.
Reaches(p) == PropsOK(p) /\ qp[Peer(p)] \in {"RTR", "RTS"}

Pending(p, op) == sqOp[p] = op /\ sqAt[p] = "posted"

Executed(p) == sqAt' = [sqAt EXCEPT ![p] = "executed"]

\* A SEND consumes the peer's receive request and completes it.
HcaSend(p) ==
    LET q == Peer(p) IN
    /\ Pending(p, "SEND")
    /\ Reaches(p)
    /\ rq[q] > 0
    /\ rq' = [rq EXCEPT ![q] = @ - 1]
    /\ buf' = [buf EXCEPT ![q] = buf[p]]
    /\ cq' = [cq EXCEPT ![q] = Append(@, [op |-> "RECV", status |-> "SUCCESS"])]
    /\ Executed(p)
    /\ UNCHANGED <<pc, rc, tcpVars, qp, sqOp, shown>>

\* The data of an RDMA read travels with the answer.
HcaRead(p) ==
    /\ Pending(p, "RDMA_READ")
    /\ Reaches(p)
    /\ PropsOK(Peer(p))
    /\ buf' = [buf EXCEPT ![p] = buf[Peer(p)]]
    /\ Executed(p)
    /\ UNCHANGED <<pc, rc, tcpVars, qp, rq, sqOp, cq, shown>>

HcaWrite(p) ==
    /\ Pending(p, "RDMA_WRITE")
    /\ Reaches(p)
    /\ buf' = [buf EXCEPT ![Peer(p)] = buf[p]]
    /\ Executed(p)
    /\ UNCHANGED <<pc, rc, tcpVars, qp, rq, sqOp, cq, shown>>

Complete(p, status) ==
    /\ cq' = [cq EXCEPT ![p] = Append(@, [op |-> sqOp[p], status |-> status])]
    /\ sqOp' = [sqOp EXCEPT ![p] = "none"]
    /\ sqAt' = [sqAt EXCEPT ![p] = "empty"]
    /\ UNCHANGED <<pc, rc, tcpVars, rq, memVars>>

\* The acknowledgement comes back.
HcaAck(p) ==
    /\ sqOp[p] # "none" /\ sqAt[p] = "executed"
    /\ PropsOK(Peer(p))
    /\ Complete(p, "SUCCESS")
    /\ UNCHANGED qp

\* The retries run out: the request cannot be delivered, the peer has no
\* receive request for it (rnr_retry is 0), the acknowledgement goes
\* elsewhere, or the fabric loses too much.  The queue pair is in error.
HcaFail(p) ==
    /\ sqOp[p] # "none"
    /\ \/ sqAt[p] = "posted" /\ ~Reaches(p)
       \/ Pending(p, "SEND") /\ rq[Peer(p)] = 0
       \/ ~PropsOK(Peer(p))
       \/ "loss" \in Faults
    /\ Complete(p, "ERROR")
    /\ qp' = [qp EXCEPT ![p] = "ERR"]

-----------------------------------------------------------------------------

Ended(p) == pc[p] \in {"exit", "aborted", "killed"}

\* A signal ends the process; the kernel closes what it had open.
killed(p) ==
    /\ "kill" \in Faults
    /\ ~Ended(p)
    /\ IF p = "server" /\ pc[p] = "accept"
       THEN CloseListener
       ELSE CloseIfOpen(p) /\ UNCHANGED link
    /\ DropQp(p)
    /\ Goto(p, "killed")
    /\ UNCHANGED <<rc, wr, rd, total, synced, con, memVars>>

Halted == (\A p \in Procs : Ended(p)) /\ UNCHANGED vars

Connect(p) ==
    \/ p = "server" /\ (sock_listen \/ sock_accept)
    \/ p = "client" /\ (sock_connect \/ sock_connect_fails)

\* One step of a running process.
Process(p) ==
    \/ Connect(p)
    \/ resources_create(p) \/ resources_create_exit(p)
    \/ sock_sync_write(p) \/ sock_sync_assert(p)
    \/ sock_sync_read(p) \/ sock_sync_reset(p) \/ sock_sync_eof(p)
    \/ modify_qp_to_init(p) \/ modify_qp_rtr(p) \/ modify_qp_rts(p)
    \/ post_recv(p) \/ post_send(p) \/ poll_completion(p) \/ verbs_fails(p)
    \/ first_use(p) \/ second_use(p) \/ finish(p)
    \/ destroy_qp(p) \/ close_sock(p)

Adapter(p) == HcaSend(p) \/ HcaRead(p) \/ HcaWrite(p) \/ HcaAck(p) \/ HcaFail(p)

Next == \/ \E p \in Procs : Process(p) \/ Adapter(p) \/ killed(p)
        \/ sock_accept_fails
        \/ Halted

\* A process that can run is scheduled and an adapter answers or gives up;
\* nothing makes accept() fail or a signal arrive.
Fairness == \A p \in Procs : WF_vars(Process(p)) /\ WF_vars(Adapter(p))

Spec == Init /\ [][Next]_vars /\ Fairness

-----------------------------------------------------------------------------
(* Properties                                                               *)

\* The type of the state.
TypeOK ==
    /\ pc \in [Procs -> Labels]
    /\ rc \in [Procs -> {0, 1}]
    /\ link \in {"down", "listening", "unreachable", "up"}
    /\ conn \in [Procs -> {"none", "open", "fin", "rst", "finrst", "closed"}]
    /\ wr \in [Procs -> Nat]
    /\ rd \in [Procs -> Nat]
    /\ total \in [Procs -> Nat]
    /\ synced \in [Procs -> Nat]
    /\ con \in [Procs -> [1..ConLen -> Nat]]
    /\ qp \in [Procs -> {"none", "RESET", "INIT", "RTR", "RTS", "ERR"}]
    /\ rq \in [Procs -> Nat]
    /\ sqOp \in [Procs -> Ops \cup {"none"}]
    /\ sqAt \in [Procs -> {"empty", "posted", "executed"}]
    /\ cq \in [Procs -> Seq(Completions)]
    /\ buf \in [Procs -> Contents]
    /\ shown \in [{"message", "contents", "final"} -> Contents \cup {"none"}]

\* connect_qp makes the client post its receive "to be prepared for incoming
\* messages" and the Q exchange keeps the server's SEND behind it: a SEND
\* that is under way always meets a receive request on a queue pair in RTS,
\* unless the client has given up (rnr_retry = 0 turns a miss into an error).
SendMeetsReceive ==
    Pending("server", "SEND") =>
        \/ qp["client"] = "RTS" /\ rq["client"] = 1
        \/ pc["client"] \in ExitLabels

\* Whatever fails, what rcmain prints of the buffers is what the other side
\* put there: MSG, then RDMAMSGR, then RDMAMSGW; never an older content.
ShownRight ==
    /\ shown["message"]  \in {"none", "MSG"}
    /\ shown["contents"] \in {"none", "RDMAMSGR"}
    /\ shown["final"]    \in {"none", "RDMAMSGW"}

\* resources_create makes a completion queue of one entry for both queues of
\* the pair: completions waiting in it and requests that may still complete
\* never need a second entry.
CqFits ==
    \A p \in Procs :
        Len(cq[p]) + rq[p] + (IF sqOp[p] = "none" THEN 0 ELSE 1) <= 1

Awaited(p) ==
    CASE pc[p] = "poll1" -> IF p = "server" THEN "SEND" ELSE "RECV"
      [] pc[p] = "poll2" -> "RDMA_READ"
      [] OTHER           -> "RDMA_WRITE"

\* poll_completion looks neither at wr_id nor at opcode: the completion it
\* takes is nevertheless the one of the request that call waits for.
CompletionMatches ==
    \A p \in Procs :
        pc[p] \in PollLabels /\ cq[p] # <<>> => Head(cq[p]).op = Awaited(p)

\* While rcmain reads or rewrites res.buf no request that is under way, its
\* own or an RDMA request of the peer, uses the same buffer.
BufferQuiet ==
    \A p \in Procs :
        pc[p] \in {"use1", "use2", "finish"} =>
            /\ sqOp[p] = "none"
            /\ rq[p] = 0
            /\ sqOp[Peer(p)] \notin {"RDMA_READ", "RDMA_WRITE"}

WaitsForByte(p) == pc[p] \in ReadLabels /\ conn[p] = "open" /\ Avail(p) = 0

\* sock_sync_data writes before it reads, so the two processes never both
\* wait for a byte of the other.
NoMutualWait == ~ \A p \in Procs : WaitsForByte(p)

\* When both processes come to their normal end, either both have been through
\* the whole transfer or neither has, and a result of 0 says it was complete.
Agreement ==
    (\A p \in Procs : pc[p] = "exit") =>
        /\ synced["server"] = 4 <=> synced["client"] = 4
        /\ \A p \in Procs : rc[p] = 0 => synced[p] = 4

\* The assertion on write() in sock_sync_data fails only in a process whose
\* peer was killed, or in the client's first exchange when the server gave up
\* in accept(); no other failure of one side kills the other.
AbortCause ==
    \A p \in Procs : pc[p] = "aborted" =>
        \/ pc[Peer(p)] = "killed"
        \/ /\ p = "client" /\ wr[p] = 0
           /\ pc["server"] \in ExitLabels /\ wr["server"] = 0

\* When sock_sync_data has returned success to connect_qp, tmp_con_data is the
\* peer's structure, byte for byte.
ConDataIntact == \A p \in Procs : synced[p] > 0 => PropsOK(p)

\* Exchanges p has begun: the first writes ConLen bytes, the others one.
Begun(p) == IF wr[p] = 0 THEN 0 ELSE wr[p] - ConLen + 1

Barrier == INSTANCE SyncBarrier WITH
    Rounds <- 4, arrived <- [p \in Procs |-> Begun(p)], passed <- synced

\* The four calls of sock_sync_data implement the rendezvous: no call returns
\* success before the peer has begun the same exchange, under every fault and
\* even when a read takes bytes of the next exchange.
ImplementsBarrier == Barrier!Spec

\* Without faults both processes finish the transfer and return 0.
CleanRunSucceeds == <>[](\A p \in Procs : pc[p] = "exit" /\ rc[p] = 0)

\* With faults a process still ends, unless it hangs in one of the two known
\* places: turning in the read loop of sock_sync_data at end of file, or
\* waiting in accept() for a client that does not come.
EndsOrHangs ==
    \A p \in Procs :
        <>[](\/ Ended(p)
             \/ AtEof(p)
             \/ p = "server" /\ pc[p] = "accept" /\ link # "up")

\* A failure of one side ends both: rcmain reports a "sync error" and goes to
\* main_exit.
FailureEndsBoth == <>(\A p \in Procs : Ended(p))
=============================================================================
