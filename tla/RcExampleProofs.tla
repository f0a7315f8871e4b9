-------------------------- MODULE RcExampleProofs --------------------------
(***************************************************************************)
(* Proofs about RcExample, for every length of the connection data and     *)
(* every set of faults.                                                    *)
(*                                                                         *)
(* SyncInv ties the bytes written and read to the exchanges completed and  *)
(* is enough for the refinement of SyncBarrier.  RecvInv follows the       *)
(* client's receive request, ReadInv the byte a read may take of the next  *)
(* exchange, QueueInv the requests under way, DataInv the contents of the  *)
(* buffers, and ConnInv why a connection has ended.                        *)
(***************************************************************************)
EXTENDS RcExample, TLAPS

-----------------------------------------------------------------------------
(* The inductive invariants                                                 *)

\* Exchanges a process has completed when it is at label l of rcmain.
Round(l) ==
    IF l \in {"listen", "accept", "connect", "create", "con_write", "con_read"} THEN 0
    ELSE IF l \in {"to_init", "post_recv", "to_rtr", "to_rts", "q_write", "q_read"} THEN 1
    ELSE IF l \in {"send", "poll1", "use1", "r_write", "r_read"} THEN 2
    ELSE IF l = "finish" THEN 4
    ELSE 3

\* Bytes a process writes in its first k exchanges.
Bytes(k) == IF k = 0 THEN 0 ELSE ConLen + k - 1

\* A process writes exactly the bytes of the exchanges it has begun, has read
\* at least those of the exchanges it has completed, and never more than its
\* peer has written.
SyncInvOf(p) ==
    /\ synced[p] \in 0..4
    /\ pc[p] \notin ExitLabels => synced[p] = Round(pc[p])
    /\ pc[p] \in ReadLabels =>
           /\ wr[p] = Bytes(synced[p] + 1)
           /\ rd[p] >= Bytes(synced[p]) + total[p]
    /\ pc[p] \notin ReadLabels \cup ExitLabels => wr[p] = Bytes(synced[p])
    /\ \/ wr[p] = Bytes(synced[p])
       \/ wr[p] = Bytes(synced[p] + 1) /\ synced[p] < 4
    /\ rd[p] >= Bytes(synced[p])
    /\ rd[p] <= wr[Peer(p)]

SyncInv == \A p \in Procs : SyncInvOf(p)

ClientWaits == {"to_rtr", "to_rts", "q_write", "q_read", "poll1"}
ClientEarly == {"connect", "create", "con_write", "con_read", "to_init", "post_recv"}

\* The server's message has not arrived: it is not posted yet or still under way.
MessageAhead ==
    \/ pc["server"] = "send"
    \/ Round(pc["server"]) < 2 /\ pc["server"] \notin ExitLabels
    \/ Pending("server", "SEND")

\* From the client's post_recv to the arrival of the message its receive
\* request is there, and until then the client does not get past its poll.
RecvInv ==
    /\ pc["client"] \notin {"listen", "accept", "send"}
    /\ pc["server"] \notin {"connect", "post_recv", "post_read", "poll2", "use2",
                            "post_write", "poll3"}
    /\ sqOp["server"] \in {"none", "SEND"}
    /\ sqOp["server"] = "SEND" => synced["server"] >= 2 /\ pc["server"] # "send"
    /\ sqOp["client"] # "none" => pc["client"] \notin ClientEarly \cup ClientWaits
    /\ sqOp["client"] # "SEND"
    /\ pc["client"] \in {"q_write", "q_read", "poll1"} => qp["client"] = "RTS"
    /\ pc["client"] \in ClientEarly => rq["client"] = 0 /\ cq["client"] = <<>>
    /\ MessageAhead =>
           /\ pc["client"] \in ClientWaits => rq["client"] = 1 /\ cq["client"] = <<>>
           /\ pc["client"] \in ClientEarly \cup ClientWaits \cup ExitLabels

\* The process has read a byte of the exchange after the last it completed.
ReadAhead(p) == synced[p] > 0 /\ rd[p] = Bytes(synced[p]) + 1

\* A process holds at most one byte of the next exchange, taken by the read
\* that completed the first one; both processes never do.
ReadInvOf(p) ==
    /\ synced[p] = 0 => rd[p] = total[p] /\ rd[p] < ConLen
    /\ synced[p] = 0 /\ wr[p] = 0 => total[p] = 0
    /\ synced[p] > 0 => rd[p] = Bytes(synced[p]) \/ ReadAhead(p)
    /\ synced[p] > 0 /\ pc[p] \in ReadLabels => total[p] = 0

ReadInv ==
    /\ \A p \in Procs : ReadInvOf(p)
    /\ ~ (ReadAhead("server") /\ ReadAhead("client"))

\* Nothing is posted to p's queues and no completion waits.
Idle(p) == rq[p] = 0 /\ sqOp[p] = "none" /\ cq[p] = <<>>

\* Outside the label that waits for it, and the way out, no request is under way;
\* a request under way fixes the exchanges its process has been through.
QueueInv ==
    /\ CqFits
    /\ rq["server"] = 0
    /\ pc["server"] \notin {"poll1", "destroy_qp"} => Idle("server")
    /\ pc["client"] \notin ClientWaits \cup {"poll2", "poll3", "destroy_qp"}
           => Idle("client")
    /\ pc["client"] \in {"poll2", "poll3"} => rq["client"] = 0
    /\ pc["client"] = "poll2" => sqOp["client"] \in {"none", "RDMA_READ"}
    /\ pc["client"] = "poll3" => sqOp["client"] \in {"none", "RDMA_WRITE"}
    /\ cq["server"] # <<>> => Head(cq["server"]).op = "SEND"
    /\ cq["client"] # <<>> =>
           /\ pc["client"] \in ClientWaits => Head(cq["client"]).op = "RECV"
           /\ pc["client"] = "poll2" => Head(cq["client"]).op = "RDMA_READ"
           /\ pc["client"] = "poll3" => Head(cq["client"]).op = "RDMA_WRITE"
    /\ sqOp["server"] # "none" => synced["server"] = 2 /\ wr["server"] = Bytes(2)
    /\ sqOp["client"] # "none" => synced["client"] = 3 /\ wr["client"] = Bytes(3)

\* The request of the client's poll has been carried out.
Arrived == \/ sqAt["client"] = "executed"
           \/ cq["client"] # <<>> /\ Head(cq["client"]).status = "SUCCESS"

\* The server's buffer holds its message; the client has posted its RDMA write.
ServerFull == {"con_write", "con_read", "to_init", "to_rtr", "to_rts", "q_write", "q_read",
               "send", "poll1", "use1"}
ClientLate == {"poll3", "w_write", "w_read", "finish"} \cup ExitLabels

\* What each buffer holds, phase by phase.
DataInv ==
    /\ pc["server"] \in ServerFull \/ sqOp["server"] = "SEND" => buf["server"] = "MSG"
    /\ pc["server"] = "r_write" \/ wr["server"] >= Bytes(3)
       => buf["server"] \in {"RDMAMSGR", "RDMAMSGW"}
    /\ buf["server"] = "RDMAMSGW" =>
           pc["client"] \in ClientLate /\ sqOp["client"] # "RDMA_READ"
    /\ pc["client"] \in ClientWaits /\ cq["client"] # <<>> => buf["client"] = "MSG"
    /\ pc["client"] = "use1" => buf["client"] = "MSG"
    /\ pc["client"] = "poll2" /\ Arrived => buf["client"] = "RDMAMSGR"
    /\ pc["client"] = "use2" => buf["client"] = "RDMAMSGR"
    /\ pc["client"] = "post_write" \/ sqOp["client"] = "RDMA_WRITE"
       => buf["client"] = "RDMAMSGW"
    /\ \/ pc["client"] = "poll3" /\ Arrived
       \/ pc["client"] = "w_write"
       \/ wr["client"] >= Bytes(4)
       => buf["server"] = "RDMAMSGW"
    /\ ShownRight

\* The way out of rcmain.
NormalExit == {"destroy_qp", "close_sock", "exit"}

\* A write of p that met a reset has a cause on the other side, q: q was killed,
\* gave up with an exchange less than p, or never came out of accept().
ResetCause(p, q) ==
    \/ pc[q] = "killed"
    \/ wr[q] < wr[p]
    \/ p = "client" /\ wr["server"] = 0 /\ pc["server"] \in ExitLabels

\* p has been through the transfer, or has not written its last byte, or gave
\* up because of a peer q that has not been through it.
EndCause(p, q) ==
    \/ synced[p] = 4
    \/ wr[p] < Bytes(4)
    \/ pc[q] \in ExitLabels /\ synced[q] < 4

\* Only a process on its way out closes the connection; what it leaves unread
\* tells how far it came.
ConnInvOf(p) ==
    LET q == Peer(p) IN
    /\ conn[p] \in {"fin", "rst", "finrst"} => pc[q] \in ExitLabels
    /\ conn[p] = "rst" => synced[q] < 4
    /\ pc[p] \notin ExitLabels /\ conn[p] \in {"rst", "finrst"} => ResetCause(p, q)
    /\ pc[p] \in NormalExit /\ pc[q] \notin ExitLabels => wr[p] = Bytes(synced[p])
    /\ pc[p] \in NormalExit => EndCause(p, q)
    /\ rc[p] = 0 => synced[p] = 4

ConnInv == AbortCause /\ \A p \in Procs : ConnInvOf(p)

-----------------------------------------------------------------------------
(* Type correctness                                                         *)

\* The peer of a process is a process, and never itself.
LEMMA PeerType == \A p \in Procs : Peer(p) \in Procs /\ Peer(p) # p /\ Peer(Peer(p)) = p
BY DEF Peer, Procs

\* The labels a process goes to are labels.
LEMMA LabelType ==
    /\ {"accept", "create", "destroy_qp", "close_sock", "exit", "aborted", "killed",
        "con_write", "q_write", "r_write", "w_write", "post_recv", "to_init", "to_rtr",
        "to_rts", "send", "post_read", "post_write", "poll1", "poll2", "poll3",
        "use1", "use2", "finish"} \subseteq Labels
    /\ ReadLabels \subseteq Labels
BY DEF Labels, ExitLabels, WriteLabels, SendLabels, PollLabels

\* Closing one end leaves both ends in a state of the connection.
LEMMA CloseType ==
    ASSUME NEW p \in Procs,
           conn \in [Procs -> {"none", "open", "fin", "rst", "finrst", "closed"}],
           CloseSock(p) \/ CloseIfOpen(p)
    PROVE  conn' \in [Procs -> {"none", "open", "fin", "rst", "finrst", "closed"}]
<1>1. CASE CloseSock(p)
  <2>1. PICK end \in {"fin", "rst"} :
          conn' = [conn EXCEPT ![p] = "closed",
                               ![Peer(p)] = IF @ = "open" THEN end ELSE @]
    BY <1>1 DEF CloseSock
  <2>2. Peer(p) \in Procs
    BY PeerType
  <2> QED
    BY <2>1, <2>2
<1>2. CASE UNCHANGED conn
  BY <1>2
<1> QED
  BY <1>1, <1>2 DEF CloseIfOpen

\* Every step of a running process keeps the type of the state.
LEMMA TypeProcess ==
    ASSUME TypeOK, NEW p \in Procs, Process(p) PROVE TypeOK'
<1> USE DEF TypeOK, Goto, Fail
<1>1. CASE p = "server" /\ sock_listen
  BY <1>1, LabelType DEF sock_listen, ibVars, memVars
<1>2. CASE p = "server" /\ sock_accept
  BY <1>2, LabelType DEF sock_accept, ibVars, memVars
<1>3. CASE p = "client" /\ sock_connect
  BY <1>3, LabelType DEF sock_connect, ibVars, memVars
<1>4. CASE p = "client" /\ sock_connect_fails
  BY <1>4, LabelType DEF sock_connect_fails, tcpVars, ibVars, memVars
<1>5. CASE sock_sync_write(p)
  <2>1. XferSize(pc[p]) \in Nat
    BY ConLenAssumption DEF XferSize
  <2>2. ReadAfterWrite(pc[p]) \in Labels
    BY LabelType DEF ReadAfterWrite, ReadLabels
  <2>3. wr' \in [Procs -> Nat]
    BY <1>5, <2>1 DEF sock_sync_write
  <2> QED
    BY <1>5, <2>2, <2>3 DEF sock_sync_write, ibVars, memVars
<1>6. CASE sock_sync_assert(p)
  BY <1>6, LabelType DEF sock_sync_assert, DropQp, memVars
<1>7. CASE sock_sync_read(p)
  <2>1. PICK n \in ReadSizes(p, XferSize(pc[p])) :
            /\ rd' = [rd EXCEPT ![p] = @ + n]
            /\ total' = [total EXCEPT ![p] = @ + n]
            /\ IF pc[p] = "con_read"
               THEN con' = [con EXCEPT ![p] = [i \in 1..ConLen |->
                                    IF i <= n THEN rd[p] + i ELSE con[p][i]]]
               ELSE UNCHANGED con
            /\ IF total[p] + n >= XferSize(pc[p])
               THEN /\ synced' = [synced EXCEPT ![p] = @ + 1]
                    /\ Goto(p, AfterRead(p))
               ELSE UNCHANGED <<synced, pc>>
    BY <1>7 DEF sock_sync_read
  <2>2. n \in Nat
    BY ConLenAssumption DEF ReadSizes, XferSize
  <2>3. con' \in [Procs -> [1..ConLen -> Nat]]
    <3>1. rd[p] \in Nat /\ con[p] \in [1..ConLen -> Nat]
      OBVIOUS
    <3>2. [i \in 1..ConLen |-> IF i <= n THEN rd[p] + i ELSE con[p][i]]
              \in [1..ConLen -> Nat]
      BY <3>1, <2>2, ConLenAssumption
    <3> QED
      BY <2>1, <3>2
  <2>4. AfterRead(p) \in Labels
    BY LabelType DEF AfterRead
  <2>5. rd' \in [Procs -> Nat] /\ total' \in [Procs -> Nat]
    BY <2>1, <2>2
  <2>6. synced' \in [Procs -> Nat]
    BY <2>1
  <2>7. pc' \in [Procs -> Labels]
    BY <2>1, <2>4
  <2> QED
    BY <1>7, <2>3, <2>5, <2>6, <2>7 DEF sock_sync_read, ibVars, memVars
<1>8. CASE sock_sync_reset(p)
  BY <1>8, LabelType DEF sock_sync_reset, tcpVars, ibVars, memVars
<1>9. CASE sock_sync_eof(p)
  BY <1>9 DEF sock_sync_eof, vars
<1>10. CASE resources_create(p)
  BY <1>10, LabelType DEF resources_create, tcpVars, Contents
<1>11. CASE resources_create_exit(p)
  <2>1. conn' \in [Procs -> {"none", "open", "fin", "rst", "finrst", "closed"}]
    BY <1>11, CloseType DEF resources_create_exit
  <2> QED
    BY <1>11, <2>1, LabelType DEF resources_create_exit, ibVars, memVars
<1>12. CASE modify_qp_to_init(p)
  BY <1>12, LabelType DEF modify_qp_to_init, modify_qp, tcpVars, memVars
<1>13. CASE modify_qp_rtr(p)
  BY <1>13, LabelType DEF modify_qp_rtr, modify_qp, tcpVars, memVars
<1>14. CASE modify_qp_rts(p)
  BY <1>14, LabelType DEF modify_qp_rts, modify_qp, tcpVars, memVars
<1>15. CASE post_recv(p)
  BY <1>15, LabelType DEF post_recv, tcpVars, memVars
<1>16. CASE post_send(p)
  <2>1. OpPosted(pc[p]) \in Ops /\ PollAfterPost(pc[p]) \in Labels
    BY LabelType DEF OpPosted, Ops, PollAfterPost
  <2> QED
    BY <1>16, <2>1 DEF post_send, tcpVars, memVars
<1>17. CASE poll_completion(p)
  <2>1. AfterPoll(pc[p]) \in Labels
    BY LabelType DEF AfterPoll
  <2>2. Tail(cq[p]) \in Seq(Completions)
    BY <1>17 DEF poll_completion
  <2> QED
    BY <1>17, <2>1, <2>2, LabelType DEF poll_completion, tcpVars, memVars
<1>18. CASE verbs_fails(p)
  BY <1>18, LabelType DEF verbs_fails, tcpVars, ibVars, memVars
<1>19. CASE first_use(p)
  <2>1. CASE p = "client"
    <3>1. shown' = [shown EXCEPT !["message"] = buf[p]] /\ buf' = buf
      BY <1>19, <2>1 DEF first_use
    <3>2. shown' \in [{"message", "contents", "final"} -> Contents \cup {"none"}]
      BY <3>1
    <3> QED
      BY <1>19, <3>1, <3>2, LabelType DEF first_use, tcpVars, ibVars
  <2>2. CASE p # "client"
    BY <1>19, <2>2, LabelType DEF first_use, tcpVars, ibVars, Contents
  <2> QED
    BY <2>1, <2>2
<1>20. CASE second_use(p)
  BY <1>20, LabelType DEF second_use, tcpVars, ibVars, Contents
<1>21. CASE finish(p)
  BY <1>21, LabelType DEF finish, tcpVars, ibVars
<1>22. CASE destroy_qp(p)
  BY <1>22, LabelType DEF destroy_qp, DropQp, tcpVars, memVars
<1>23. CASE close_sock(p)
  <2>1. conn' \in [Procs -> {"none", "open", "fin", "rst", "finrst", "closed"}]
    BY <1>23, CloseType DEF close_sock
  <2>2. rc' \in [Procs -> {0, 1}]
    BY <1>23 DEF close_sock
  <2> QED
    BY <1>23, <2>1, <2>2, LabelType DEF close_sock, ibVars, memVars
<1> QED
  BY <1>1, <1>2, <1>3, <1>4, <1>5, <1>6, <1>7, <1>8, <1>9, <1>10, <1>11, <1>12, <1>13,
     <1>14, <1>15, <1>16, <1>17, <1>18, <1>19, <1>20, <1>21, <1>22, <1>23
     DEF Process, Connect

\* Every step of an adapter keeps the type of the state.
LEMMA TypeAdapter ==
    ASSUME TypeOK, NEW p \in Procs, Adapter(p) PROVE TypeOK'
<1> USE DEF TypeOK
<1>1. CASE HcaSend(p)
  <2>1. [op |-> "RECV", status |-> "SUCCESS"] \in Completions
    BY DEF Completions
  <2>2. rq' \in [Procs -> Nat]
    BY <1>1, PeerType DEF HcaSend
  <2>3. cq' \in [Procs -> Seq(Completions)]
    BY <1>1, <2>1, PeerType DEF HcaSend
  <2> QED
    BY <1>1, <2>2, <2>3, PeerType DEF HcaSend, Executed, tcpVars
<1>2. CASE HcaRead(p)
  BY <1>2, PeerType DEF HcaRead, Executed, tcpVars
<1>6. CASE HcaWrite(p)
  BY <1>6, PeerType DEF HcaWrite, Executed, tcpVars
<1>3. ASSUME NEW s \in {"SUCCESS", "ERROR"}, Complete(p, s), sqOp[p] # "none",
             qp' \in [Procs -> {"none", "RESET", "INIT", "RTR", "RTS", "ERR"}]
      PROVE  TypeOK'
  <2>1. [op |-> sqOp[p], status |-> s] \in Completions
    BY <1>3 DEF Completions
  <2>2. cq' \in [Procs -> Seq(Completions)]
    BY <1>3, <2>1 DEF Complete
  <2> QED
    BY <1>3, <2>2 DEF Complete, tcpVars, memVars
<1>4. CASE HcaAck(p)
  BY <1>4, <1>3 DEF HcaAck
<1>5. CASE HcaFail(p)
  BY <1>5, <1>3 DEF HcaFail
<1> QED
  BY <1>1, <1>2, <1>4, <1>5, <1>6 DEF Adapter

\* Every step keeps the type of the state.
LEMMA TypeStep == TypeOK /\ [Next]_vars => TypeOK'
<1> SUFFICES ASSUME TypeOK, [Next]_vars PROVE TypeOK'
  OBVIOUS
<1>1. CASE UNCHANGED vars
  BY <1>1 DEF TypeOK, vars
<1>2. CASE sock_accept_fails
  BY <1>2 DEF TypeOK, sock_accept_fails, CloseListener, Goto, Fail, ibVars, memVars,
              Procs, Labels, ExitLabels
<1>3. ASSUME NEW p \in Procs, killed(p) PROVE TypeOK'
  <2>1. conn' \in [Procs -> {"none", "open", "fin", "rst", "finrst", "closed"}]
    <3>1. CASE CloseListener
      BY <3>1 DEF CloseListener, TypeOK
    <3>2. CASE CloseIfOpen(p)
      BY <3>2, CloseType DEF TypeOK
    <3> QED
      BY <1>3, <3>1, <3>2 DEF killed
  <2>2. link' \in {"down", "listening", "unreachable", "up"}
    BY <1>3 DEF killed, CloseListener, TypeOK
  <2>3. /\ DropQp(p) /\ Goto(p, "killed")
        /\ UNCHANGED <<rc, wr, rd, total, synced, con, memVars>>
    BY <1>3 DEF killed
  <2> QED
    BY <2>1, <2>2, <2>3, LabelType DEF TypeOK, DropQp, Goto, memVars
<1> QED
  BY <1>1, <1>2, <1>3, TypeProcess, TypeAdapter DEF Next, Halted

\* Spec keeps its state well typed, for every ConLen and every set of faults.
THEOREM TypeCorrect == Spec => []TypeOK
<1>1. Init => TypeOK
  BY ConLenAssumption DEF Init, TypeOK, Procs, Labels, Contents
<1> QED
  BY <1>1, TypeStep, PTL DEF Spec

-----------------------------------------------------------------------------
(* The exchanges                                                            *)

syncVars == <<wr, rd, total, synced>>

\* A step that takes p on within its round, outside sock_sync_data, or to its end.
Quiet(p) ==
    \E l \in Labels :
        /\ pc' = [pc EXCEPT ![p] = l]
        /\ UNCHANGED syncVars
        /\ \/ l \in ExitLabels
           \/ /\ {pc[p], l} \cap (ReadLabels \cup ExitLabels) = {}
              /\ Round(l) = Round(pc[p])

\* Apart from the write and the reads of sock_sync_data, every step is quiet
\* or leaves the process where it is.
LEMMA ProcessShape ==
    ASSUME TypeOK, NEW p \in Procs, Process(p)
    PROVE  \/ Quiet(p)
           \/ sock_sync_write(p)
           \/ sock_sync_read(p)
           \/ UNCHANGED <<pc, syncVars>>
<1>1. CASE Fail(p) /\ UNCHANGED syncVars
  BY <1>1, LabelType DEF Fail, Goto, Quiet, ExitLabels
<1>2. ASSUME NEW l \in Labels, Goto(p, l), UNCHANGED syncVars,
             l \in ExitLabels \/ /\ {pc[p], l} \cap (ReadLabels \cup ExitLabels) = {}
                                 /\ Round(l) = Round(pc[p])
      PROVE  Quiet(p)
  BY <1>2 DEF Quiet, Goto
<1> USE DEF ReadLabels, ExitLabels, Round
<1>3. CASE p = "server" /\ sock_listen
  BY <1>2, <1>3, LabelType DEF sock_listen, syncVars
<1>4. CASE p = "server" /\ sock_accept
  BY <1>2, <1>4, LabelType DEF sock_accept, syncVars
<1>5. CASE p = "client" /\ sock_connect
  BY <1>2, <1>5, LabelType DEF sock_connect, syncVars
<1>6. CASE p = "client" /\ sock_connect_fails
  BY <1>1, <1>6 DEF sock_connect_fails, syncVars, tcpVars
<1>7. CASE sock_sync_assert(p)
  BY <1>2, <1>7, LabelType DEF sock_sync_assert, syncVars
<1>8. CASE sock_sync_reset(p)
  BY <1>1, <1>8 DEF sock_sync_reset, syncVars, tcpVars
<1>9. CASE sock_sync_eof(p)
  BY <1>9 DEF sock_sync_eof, syncVars, vars
<1>10. CASE resources_create(p)
  BY <1>2, <1>10, LabelType DEF resources_create, syncVars, tcpVars
<1>11. CASE resources_create_exit(p)
  BY <1>1, <1>11 DEF resources_create_exit, syncVars
<1>12. CASE modify_qp_to_init(p)
  BY <1>2, <1>12, LabelType DEF modify_qp_to_init, modify_qp, syncVars, tcpVars
<1>13. CASE modify_qp_rtr(p)
  BY <1>2, <1>13, LabelType DEF modify_qp_rtr, modify_qp, syncVars, tcpVars
<1>14. CASE modify_qp_rts(p)
  BY <1>2, <1>14, LabelType DEF modify_qp_rts, modify_qp, syncVars, tcpVars
<1>15. CASE post_recv(p)
  BY <1>2, <1>15, LabelType DEF post_recv, syncVars, tcpVars
<1>16. CASE post_send(p)
  BY <1>2, <1>16, LabelType DEF post_send, PollAfterPost, SendLabels, syncVars, tcpVars
<1>17. CASE poll_completion(p)
  <2>1. Goto(p, AfterPoll(pc[p])) \/ Goto(p, "destroy_qp")
    BY <1>17 DEF poll_completion
  <2>2. UNCHANGED syncVars /\ pc[p] \in PollLabels
    BY <1>17 DEF poll_completion, syncVars, tcpVars
  <2> QED
    BY <1>2, <2>1, <2>2, LabelType DEF AfterPoll, PollLabels
<1>18. CASE verbs_fails(p)
  BY <1>1, <1>18 DEF verbs_fails, syncVars, tcpVars
<1>19. CASE first_use(p)
  BY <1>2, <1>19, LabelType DEF first_use, syncVars, tcpVars
<1>20. CASE second_use(p)
  BY <1>2, <1>20, LabelType DEF second_use, syncVars, tcpVars
<1>21. CASE finish(p)
  BY <1>2, <1>21, LabelType DEF finish, syncVars, tcpVars
<1>22. CASE destroy_qp(p)
  BY <1>2, <1>22, LabelType DEF destroy_qp, syncVars, tcpVars
<1>23. CASE close_sock(p)
  BY <1>2, <1>23, LabelType DEF close_sock, syncVars
<1> QED
  BY <1>3, <1>4, <1>5, <1>6, <1>7, <1>8, <1>9, <1>10, <1>11, <1>12, <1>13, <1>14,
     <1>15, <1>16, <1>17, <1>18, <1>19, <1>20, <1>21, <1>22, <1>23 DEF Process, Connect

\* The same for every step of the system.
LEMMA StepShape ==
    ASSUME TypeOK, [Next]_vars
    PROVE  \/ UNCHANGED <<pc, syncVars>>
           \/ \E p \in Procs : Quiet(p) \/ sock_sync_write(p) \/ sock_sync_read(p)
<1>1. CASE UNCHANGED vars
  BY <1>1 DEF vars, syncVars
<1>2. CASE sock_accept_fails
  BY <1>2, LabelType DEF sock_accept_fails, Fail, Goto, Quiet, syncVars, ExitLabels, Procs
<1>3. ASSUME NEW p \in Procs, killed(p) PROVE Quiet(p)
  BY <1>3, LabelType DEF killed, Goto, Quiet, syncVars, ExitLabels
<1>4. ASSUME NEW p \in Procs, Adapter(p) PROVE UNCHANGED <<pc, syncVars>>
  BY <1>4 DEF Adapter, HcaSend, HcaRead, HcaWrite, HcaAck, HcaFail, Complete, syncVars,
              tcpVars
<1> QED
  BY <1>1, <1>2, <1>3, <1>4, ProcessShape DEF Next, Halted

\* A quiet step of p keeps the accounts of both processes.
LEMMA SyncQuiet ==
    ASSUME TypeOK, SyncInv, NEW p \in Procs, Quiet(p) PROVE SyncInv'
<1>1. PICK l \in Labels :
        /\ pc' = [pc EXCEPT ![p] = l]
        /\ \/ l \in ExitLabels
           \/ /\ {pc[p], l} \cap (ReadLabels \cup ExitLabels) = {}
              /\ Round(l) = Round(pc[p])
  BY DEF Quiet
<1>2. UNCHANGED <<wr, rd, total, synced>>
  BY DEF Quiet, syncVars
<1>3. ExitLabels \cap ReadLabels = {}
  BY DEF ExitLabels, ReadLabels
<1>4. SUFFICES ASSUME NEW q \in Procs PROVE SyncInvOf(q)'
  BY DEF SyncInv
<1>5. SyncInvOf(q)
  BY DEF SyncInv
<1>6. CASE q = p
  <2>1. pc'[q] = l
    BY <1>1, <1>6 DEF TypeOK
  <2> QED
    BY <1>1, <1>2, <1>3, <1>5, <1>6, <2>1 DEF SyncInvOf
<1>7. CASE q # p
  <2>1. pc'[q] = pc[q]
    BY <1>1, <1>7 DEF TypeOK
  <2> QED
    BY <1>2, <1>5, <2>1 DEF SyncInvOf
<1> QED
  BY <1>6, <1>7

\* What a write of sock_sync_data does to the accounts: p begins its next round.
LEMMA WriteEffect ==
    ASSUME TypeOK, SyncInv, NEW p \in Procs, sock_sync_write(p)
    PROVE  /\ synced[p] < 4 /\ wr[p] = Bytes(synced[p])
           /\ wr' = [wr EXCEPT ![p] = Bytes(synced[p] + 1)]
           /\ pc' \in [Procs -> Labels] /\ pc'[p] \in ReadLabels
           /\ Round(pc'[p]) = Round(pc[p])
           /\ \A q \in Procs : q # p => pc'[q] = pc[q] /\ total'[q] = total[q]
           /\ total'[p] = 0
           /\ UNCHANGED <<rd, synced>>
<1>1. SyncInvOf(p)
  BY DEF SyncInv
<1>2. pc[p] \in WriteLabels /\ pc' = [pc EXCEPT ![p] = ReadAfterWrite(pc[p])]
  BY DEF sock_sync_write, Goto
<1>3. synced[p] = Round(pc[p]) /\ wr[p] = Bytes(synced[p])
  BY <1>1, <1>2 DEF SyncInvOf, WriteLabels, ReadLabels, ExitLabels
<1>4. Round(pc[p]) \in 0..3
  BY <1>2 DEF WriteLabels, Round
<1>5. wr[p] + XferSize(pc[p]) = Bytes(synced[p] + 1)
  BY <1>2, <1>3, <1>4, ConLenAssumption DEF WriteLabels, Round, XferSize, Bytes
<1>6. ReadAfterWrite(pc[p]) \in ReadLabels /\ Round(ReadAfterWrite(pc[p])) = Round(pc[p])
  BY <1>2 DEF WriteLabels, ReadAfterWrite, ReadLabels, Round
<1>7. wr' = [wr EXCEPT ![p] = wr[p] + XferSize(pc[p])] /\ total' = [total EXCEPT ![p] = 0]
      /\ UNCHANGED <<rd, synced>>
  BY DEF sock_sync_write
<1>8. pc'[p] = ReadAfterWrite(pc[p]) /\ \A q \in Procs : q # p => pc'[q] = pc[q]
  BY <1>2 DEF TypeOK
<1>9. total'[p] = 0 /\ \A q \in Procs : q # p => total'[q] = total[q]
  BY <1>7 DEF TypeOK
<1>10. pc' \in [Procs -> Labels]
  BY <1>2, <1>6, LabelType DEF TypeOK
<1>11. wr' = [wr EXCEPT ![p] = Bytes(synced[p] + 1)]
  BY <1>5, <1>7
<1>12. synced[p] < 4
  BY <1>3, <1>4
<1>13. pc'[p] \in ReadLabels /\ Round(pc'[p]) = Round(pc[p])
  BY <1>6, <1>8
<1> QED
  BY <1>3, <1>7, <1>8, <1>9, <1>10, <1>11, <1>12, <1>13

\* A write keeps the accounts.
LEMMA SyncWrite ==
    ASSUME TypeOK, SyncInv, NEW p \in Procs, sock_sync_write(p) PROVE SyncInv'
<1>1. /\ synced[p] < 4 /\ wr[p] = Bytes(synced[p])
      /\ wr' = [wr EXCEPT ![p] = Bytes(synced[p] + 1)]
      /\ pc' \in [Procs -> Labels] /\ pc'[p] \in ReadLabels
      /\ Round(pc'[p]) = Round(pc[p])
      /\ \A q \in Procs : q # p => pc'[q] = pc[q] /\ total'[q] = total[q]
      /\ total'[p] = 0
      /\ UNCHANGED <<rd, synced>>
  BY WriteEffect
<1>2. SUFFICES ASSUME NEW q \in Procs PROVE SyncInvOf(q)'
  BY DEF SyncInv
<1>3. SyncInvOf(q) /\ SyncInvOf(p)
  BY DEF SyncInv
<1>4. wr \in [Procs -> Nat] /\ synced \in [Procs -> Nat] /\ rd \in [Procs -> Nat]
  BY DEF TypeOK
<1>5. Bytes(synced[p]) \in Nat /\ Bytes(synced[p] + 1) \in Nat
      /\ Bytes(synced[p]) <= Bytes(synced[p] + 1)
  BY <1>4, ConLenAssumption DEF Bytes
<1>6. Peer(q) \in Procs
  BY PeerType
<1>7. rd'[q] <= wr'[Peer(q)]
  BY <1>1, <1>3, <1>4, <1>5, <1>6 DEF SyncInvOf
<1>8. CASE q = p
  <2>1. wr'[q] = Bytes(synced[q] + 1) /\ pc'[q] \in ReadLabels /\ pc'[q] \notin ExitLabels
    BY <1>1, <1>4, <1>8 DEF ReadLabels, ExitLabels
  <2>2. pc[q] \in WriteLabels /\ synced[q] = Round(pc[q])
    BY <1>3, <1>8 DEF SyncInvOf, sock_sync_write, WriteLabels, ExitLabels
  <2>3. rd'[q] >= Bytes(synced'[q]) + total'[q]
    BY <1>1, <1>3, <1>4, <1>5, <1>8 DEF SyncInvOf
  <2> QED
    BY <1>1, <1>3, <1>7, <1>8, <2>1, <2>2, <2>3 DEF SyncInvOf
<1>9. CASE q # p
  <2>1. pc'[q] = pc[q] /\ total'[q] = total[q] /\ wr'[q] = wr[q]
    BY <1>1, <1>4, <1>9
  <2> QED
    BY <1>1, <1>3, <1>7, <2>1 DEF SyncInvOf
<1> QED
  BY <1>8, <1>9

\* What one read of sock_sync_data does to the accounts: it takes bytes the
\* peer has written, and either the call goes on reading, or it returns having
\* read all bytes of its round.
LEMMA ReadEffect ==
    ASSUME TypeOK, SyncInv, NEW p \in Procs, sock_sync_read(p)
    PROVE  /\ pc[p] \in ReadLabels /\ UNCHANGED wr
           /\ synced[p] < 4 /\ wr[p] = Bytes(synced[p] + 1)
           /\ \A q \in Procs : q # p => /\ pc'[q] = pc[q] /\ total'[q] = total[q]
                                        /\ rd'[q] = rd[q] /\ synced'[q] = synced[q]
           /\ rd[p] <= rd'[p] /\ rd'[p] <= wr[Peer(p)]
           /\ \/ /\ UNCHANGED <<pc, synced>>
                 /\ rd'[p] >= Bytes(synced[p]) + total'[p]
              \/ /\ synced' = [synced EXCEPT ![p] = synced[p] + 1]
                 /\ pc'[p] \notin ReadLabels \cup ExitLabels
                 /\ Round(pc'[p]) = synced[p] + 1
                 /\ rd'[p] >= Bytes(synced[p] + 1)
<1>1. PICK n \in ReadSizes(p, XferSize(pc[p])) :
            /\ rd' = [rd EXCEPT ![p] = @ + n]
            /\ total' = [total EXCEPT ![p] = @ + n]
            /\ IF total[p] + n >= XferSize(pc[p])
               THEN /\ synced' = [synced EXCEPT ![p] = @ + 1]
                    /\ Goto(p, AfterRead(p))
               ELSE UNCHANGED <<synced, pc>>
  BY DEF sock_sync_read
<1>2. pc[p] \in ReadLabels /\ UNCHANGED wr
  BY DEF sock_sync_read
<1>3. n \in Nat /\ n <= wr[Peer(p)] - rd[p]
  BY ConLenAssumption DEF ReadSizes, XferSize, Avail
<1>4. SyncInvOf(p)
  BY DEF SyncInv
<1>5. /\ synced[p] = Round(pc[p])
      /\ wr[p] = Bytes(synced[p] + 1)
      /\ rd[p] >= Bytes(synced[p]) + total[p]
  BY <1>2, <1>4 DEF SyncInvOf, ReadLabels, ExitLabels
<1>6. Round(pc[p]) \in 0..3
  BY <1>2 DEF ReadLabels, Round
<1>7. Bytes(synced[p]) + XferSize(pc[p]) = Bytes(synced[p] + 1)
  BY <1>2, <1>5, <1>6, ConLenAssumption DEF ReadLabels, Round, XferSize, Bytes
<1>8. /\ wr[Peer(p)] \in Nat /\ rd[p] \in Nat /\ total[p] \in Nat
      /\ rd'[p] = rd[p] + n /\ total'[p] = total[p] + n
  BY <1>1, PeerType DEF TypeOK
<1>9. Bytes(synced[p]) \in Nat /\ XferSize(pc[p]) \in Nat
  BY <1>5, <1>6, ConLenAssumption DEF Bytes, XferSize
<1>10. rd[p] <= rd'[p] /\ rd'[p] <= wr[Peer(p)]
  BY <1>3, <1>8
<1>11. \A q \in Procs : q # p => /\ pc'[q] = pc[q] /\ total'[q] = total[q]
                                 /\ rd'[q] = rd[q] /\ synced'[q] = synced[q]
  <2>1. \A q \in Procs : q # p => total'[q] = total[q] /\ rd'[q] = rd[q]
    BY <1>1 DEF TypeOK
  <2>2. pc' = pc \/ pc' = [pc EXCEPT ![p] = AfterRead(p)]
    BY <1>1 DEF Goto
  <2>3. synced' = synced \/ synced' = [synced EXCEPT ![p] = @ + 1]
    BY <1>1
  <2>4. pc \in [Procs -> Labels] /\ synced \in [Procs -> Nat]
    BY DEF TypeOK
  <2> QED
    BY <2>1, <2>2, <2>3, <2>4
<1>12. CASE total[p] + n >= XferSize(pc[p])
  <2>1. synced' = [synced EXCEPT ![p] = synced[p] + 1]
    BY <1>1, <1>12
  <2>2. pc'[p] = AfterRead(p)
    BY <1>1, <1>12 DEF Goto, TypeOK
  <2>3. AfterRead(p) \notin ReadLabels \cup ExitLabels /\ Round(AfterRead(p)) = Round(pc[p]) + 1
    BY <1>2 DEF AfterRead, ReadLabels, ExitLabels, Round
  <2>4. rd'[p] >= Bytes(synced[p] + 1)
    BY <1>3, <1>5, <1>7, <1>8, <1>9, <1>12
  <2> QED
    BY <1>2, <1>5, <1>6, <1>10, <1>11, <2>1, <2>2, <2>3, <2>4
<1>13. CASE ~(total[p] + n >= XferSize(pc[p]))
  <2>1. UNCHANGED <<pc, synced>>
    BY <1>1, <1>13
  <2>2. rd'[p] >= Bytes(synced[p]) + total'[p]
    BY <1>3, <1>5, <1>8, <1>9
  <2> QED
    BY <1>2, <1>5, <1>6, <1>10, <1>11, <2>1, <2>2
<1> QED
  BY <1>12, <1>13

\* A read keeps the accounts.
LEMMA SyncRead ==
    ASSUME TypeOK, SyncInv, NEW p \in Procs, sock_sync_read(p) PROVE SyncInv'
<1>1. /\ pc[p] \in ReadLabels /\ UNCHANGED wr
      /\ synced[p] < 4 /\ wr[p] = Bytes(synced[p] + 1)
      /\ \A q \in Procs : q # p => /\ pc'[q] = pc[q] /\ total'[q] = total[q]
                                   /\ rd'[q] = rd[q] /\ synced'[q] = synced[q]
      /\ rd[p] <= rd'[p] /\ rd'[p] <= wr[Peer(p)]
      /\ \/ /\ UNCHANGED <<pc, synced>>
            /\ rd'[p] >= Bytes(synced[p]) + total'[p]
         \/ /\ synced' = [synced EXCEPT ![p] = synced[p] + 1]
            /\ pc'[p] \notin ReadLabels \cup ExitLabels
            /\ Round(pc'[p]) = synced[p] + 1
            /\ rd'[p] >= Bytes(synced[p] + 1)
  BY ReadEffect
<1>2. SUFFICES ASSUME NEW q \in Procs PROVE SyncInvOf(q)'
  BY DEF SyncInv
<1>3. SyncInvOf(q) /\ SyncInvOf(p)
  BY DEF SyncInv
<1>4. CASE q # p
  BY <1>1, <1>3, <1>4 DEF SyncInvOf
<1>5. CASE q = p /\ UNCHANGED <<pc, synced>> /\ rd'[p] >= Bytes(synced[p]) + total'[p]
  <2>1. rd'[p] >= Bytes(synced[p])
    <3>1. TypeOK'
      BY TypeProcess DEF Process
    <3>2. total'[p] \in Nat /\ rd'[p] \in Nat
      BY <3>1 DEF TypeOK
    <3>3. synced[p] \in 0..4
      BY <1>3 DEF SyncInvOf
    <3>4. Bytes(synced[p]) \in Nat
      BY <3>3, ConLenAssumption DEF Bytes
    <3> QED
      BY <1>5, <3>2, <3>4
  <2> QED
    BY <1>1, <1>3, <1>5, <2>1 DEF SyncInvOf
<1>6. CASE q = p /\ /\ synced' = [synced EXCEPT ![p] = synced[p] + 1]
                    /\ pc'[p] \notin ReadLabels \cup ExitLabels
                    /\ Round(pc'[p]) = synced[p] + 1
                    /\ rd'[p] >= Bytes(synced[p] + 1)
  <2>1. synced'[p] = synced[p] + 1 /\ synced[p] + 1 \in 0..4
    BY <1>1, <1>3, <1>6 DEF SyncInvOf, TypeOK
  <2> QED
    BY <1>1, <1>6, <2>1 DEF SyncInvOf
<1> QED
  BY <1>1, <1>4, <1>5, <1>6

\* The accounts are kept by every step.
LEMMA SyncStep == TypeOK /\ SyncInv /\ [Next]_vars => SyncInv'
<1> SUFFICES ASSUME TypeOK, SyncInv, [Next]_vars PROVE SyncInv'
  OBVIOUS
<1>1. CASE UNCHANGED <<pc, syncVars>>
  BY <1>1 DEF syncVars, SyncInv, SyncInvOf
<1> QED
  BY <1>1, StepShape, SyncQuiet, SyncWrite, SyncRead

\* The accounts hold initially.
LEMMA SyncInit == Init => SyncInv
BY DEF Init, SyncInv, SyncInvOf, Procs, Peer, ReadLabels, ExitLabels, Round, Bytes

-----------------------------------------------------------------------------
(* sock_sync_data implements the rendezvous                                 *)

\* A process has begun one exchange more than it has completed while it is
\* reading, and as many otherwise.
LEMMA BegunValue ==
    ASSUME TypeOK, SyncInv, NEW p \in Procs
    PROVE  \A k \in 0..4 : wr[p] = Bytes(k) => Begun(p) = k
BY ConLenAssumption DEF TypeOK, Bytes, Begun

\* Every step is a step of the rendezvous or leaves it alone.
LEMMA BarrierStep ==
    ASSUME TypeOK, SyncInv, [Next]_vars
    PROVE  [Barrier!Next]_<<[p \in Procs |-> Begun(p)], synced>>
<1>1. CASE UNCHANGED <<wr, synced>>
  BY <1>1 DEF Begun
<1>2. ASSUME NEW p \in Procs, sock_sync_write(p) PROVE Barrier!Arrive(p)
  <2>1. /\ synced[p] < 4 /\ wr[p] = Bytes(synced[p])
        /\ wr' = [wr EXCEPT ![p] = Bytes(synced[p] + 1)]
        /\ UNCHANGED synced
    BY <1>2, WriteEffect
  <2>2. synced[p] \in 0..4 /\ synced[p] + 1 \in 1..4
    BY <2>1 DEF SyncInv, SyncInvOf
  <2>3. Begun(p) = synced[p]
    BY <2>1, <2>2, BegunValue
  <2>4. Begun(p)' = synced[p] + 1
    <3>1. wr'[p] = Bytes(synced[p] + 1)
      BY <2>1 DEF TypeOK
    <3> QED
      BY <2>2, <3>1, ConLenAssumption DEF Begun, Bytes
  <2>5. \A q \in Procs : q # p => Begun(q)' = Begun(q)
    BY <2>1 DEF Begun, TypeOK
  <2> QED
    BY <2>1, <2>3, <2>4, <2>5 DEF Barrier!Arrive
<1>3. ASSUME NEW p \in Procs, sock_sync_read(p), ~UNCHANGED synced PROVE Barrier!Pass(p)
  <2>1. /\ UNCHANGED wr
        /\ synced[p] < 4 /\ wr[p] = Bytes(synced[p] + 1)
        /\ rd'[p] <= wr[Peer(p)]
        /\ synced' = [synced EXCEPT ![p] = synced[p] + 1]
        /\ rd'[p] >= Bytes(synced[p] + 1)
    BY <1>3, ReadEffect
  <2>2. synced[p] \in 0..4 /\ synced[p] + 1 \in 1..4
    BY <2>1 DEF SyncInv, SyncInvOf
  <2>3. Begun(p) = synced[p] + 1
    BY <2>1, <2>2, BegunValue
  <2>4. synced[p] < Begun(Peer(p))
    <3>1. wr[Peer(p)] \in Nat /\ rd'[p] \in Nat
      BY <1>3, TypeProcess, PeerType DEF TypeOK, Process
    <3>2. wr[Peer(p)] >= Bytes(synced[p] + 1)
      BY <2>1, <2>2, <3>1, ConLenAssumption DEF Bytes
    <3> QED
      BY <2>2, <3>1, <3>2, ConLenAssumption DEF Begun, Bytes
  <2>5. Peer(p) = Barrier!Other(p) /\ Peer(p) \in Procs
    BY DEF Peer, Barrier!Other, Procs
  <2>6. [q \in Procs |-> Begun(q)]' = [q \in Procs |-> Begun(q)]
    BY <2>1 DEF Begun
  <2> QED
    BY <2>1, <2>2, <2>3, <2>4, <2>5, <2>6 DEF Barrier!Pass
<1>4. ASSUME NEW p \in Procs, Quiet(p) PROVE UNCHANGED <<wr, synced>>
  BY <1>4 DEF Quiet, syncVars
<1>5. ASSUME NEW p \in Procs, sock_sync_read(p) PROVE UNCHANGED wr
  BY <1>5 DEF sock_sync_read
<1>6. CASE UNCHANGED <<pc, syncVars>>
  BY <1>1, <1>6 DEF syncVars
<1> QED
  BY <1>1, <1>2, <1>3, <1>4, <1>5, <1>6, StepShape DEF Barrier!Next, Barrier!Members, Procs

\* The exchanges of rc_example.c implement the rendezvous for every length of
\* the connection data and every combination of faults: a failing, killed or
\* over-reading process never lets the other pass an exchange it has not begun.
THEOREM BarrierRefinement == Spec => ImplementsBarrier
<1>1. Init => Barrier!Init
  BY DEF Init, Barrier!Init, Barrier!Members, Begun, Procs
<1>2. TypeOK /\ SyncInv /\ [Next]_vars
        => [Barrier!Next]_<<[p \in Procs |-> Begun(p)], synced>>
  BY BarrierStep
<1> QED
  BY <1>1, <1>2, TypeCorrect, SyncInit, SyncStep, PTL
     DEF Spec, ImplementsBarrier, Barrier!Spec
-----------------------------------------------------------------------------
(* The server's SEND meets the client's receive request                     *)

\* Every step of a running process keeps RecvInv.
LEMMA RecvProcess ==
    ASSUME TypeOK, SyncInv, RecvInv, NEW p \in Procs, Process(p) PROVE RecvInv'
<1> USE DEF RecvInv, MessageAhead, Pending, Goto, Fail, Round, ExitLabels, ClientEarly,
            ClientWaits
<1>0. /\ p \in {"server", "client"}
      /\ pc \in [{"server", "client"} -> Labels]
      /\ rq \in [{"server", "client"} -> Nat]
      /\ cq \in [{"server", "client"} -> Seq(Completions)]
      /\ qp \in [{"server", "client"} -> {"none", "RESET", "INIT", "RTR", "RTS", "ERR"}]
      /\ sqOp \in [{"server", "client"} -> Ops \cup {"none"}]
      /\ sqAt \in [{"server", "client"} -> {"empty", "posted", "executed"}]
      /\ synced \in [{"server", "client"} -> Nat]
  BY DEF Procs, TypeOK
<1> USE <1>0
<1>1. CASE sock_listen \/ sock_accept
  BY <1>1 DEF sock_listen, sock_accept, ibVars
<1>2. CASE sock_connect
  BY <1>2 DEF sock_connect, ibVars
<1>3. CASE sock_connect_fails
  BY <1>3 DEF sock_connect_fails, tcpVars, ibVars
<1>4. CASE sock_sync_write(p)
  BY <1>4 DEF sock_sync_write, WriteLabels, ReadAfterWrite, ibVars
<1>5. CASE sock_sync_assert(p)
  BY <1>5 DEF sock_sync_assert, DropQp
<1>7. CASE sock_sync_reset(p)
  BY <1>7 DEF sock_sync_reset, tcpVars, ibVars
<1>8. CASE sock_sync_eof(p)
  BY <1>8 DEF sock_sync_eof, vars
<1>9. CASE resources_create(p)
  BY <1>9 DEF resources_create, tcpVars
<1>10. CASE resources_create_exit(p)
  BY <1>10 DEF resources_create_exit, ibVars
<1>11. CASE modify_qp_to_init(p)
  BY <1>11 DEF modify_qp_to_init, modify_qp, tcpVars
<1>12. CASE modify_qp_rtr(p)
  BY <1>12 DEF modify_qp_rtr, modify_qp, tcpVars
<1>13. CASE modify_qp_rts(p)
  BY <1>13 DEF modify_qp_rts, modify_qp, tcpVars
<1>14. CASE post_recv(p)
  BY <1>14 DEF post_recv, tcpVars
<1>15. CASE post_send(p)
  <2>1. CASE p = "server"
    <3>1. pc["server"] = "send"
      BY <1>15, <2>1 DEF post_send, SendLabels
    <3>2. synced["server"] = 2
      BY <3>1 DEF SyncInv, SyncInvOf, Procs
    <3>3. /\ pc' = [pc EXCEPT !["server"] = "poll1"]
          /\ sqOp' = [sqOp EXCEPT !["server"] = "SEND"]
          /\ UNCHANGED <<synced, qp, rq, cq>>
      BY <1>15, <2>1, <3>1 DEF post_send, OpPosted, PollAfterPost, tcpVars
    <3> QED
      BY <3>1, <3>2, <3>3
  <2>2. CASE p = "client"
    <3>1. pc["client"] \in {"post_read", "post_write"}
      BY <1>15, <2>2 DEF post_send, SendLabels
    <3>2. ~MessageAhead
      BY <3>1
    <3>3. /\ pc'["client"] \in {"poll2", "poll3"} /\ pc'["server"] = pc["server"]
          /\ sqOp'["client"] # "SEND" /\ sqOp'["server"] = sqOp["server"]
          /\ sqAt'["server"] = sqAt["server"]
          /\ UNCHANGED <<synced, qp, rq, cq>>
      BY <1>15, <2>2, <3>1 DEF post_send, OpPosted, PollAfterPost, tcpVars
    <3> QED
      BY <3>2, <3>3
  <2> QED
    BY <2>1, <2>2
<1>16. CASE poll_completion(p)
  <2>1. /\ pc[p] \in PollLabels /\ cq[p] # <<>>
        /\ cq' = [cq EXCEPT ![p] = Tail(@)]
        /\ \/ pc' = [pc EXCEPT ![p] = AfterPoll(pc[p])]
           \/ pc' = [pc EXCEPT ![p] = "destroy_qp"]
        /\ UNCHANGED <<synced, qp, rq, sqOp, sqAt>>
    BY <1>16 DEF poll_completion, tcpVars
  <2>2. CASE p = "server"
    <3>1. pc["server"] = "poll1"
      BY <2>1, <2>2 DEF PollLabels
    <3>2. pc'["server"] \in {"use1", "destroy_qp"} /\ pc'["client"] = pc["client"]
          /\ cq'["client"] = cq["client"]
      BY <2>1, <2>2, <3>1 DEF AfterPoll
    <3> QED
      BY <2>1, <3>1, <3>2
  <2>3. CASE p = "client"
    <3>1. ~MessageAhead
      BY <2>1, <2>3 DEF PollLabels
    <3>2. pc'["client"] \in {"use1", "use2", "w_write", "destroy_qp"}
          /\ pc'["server"] = pc["server"]
      BY <2>1, <2>3 DEF PollLabels, AfterPoll
    <3> QED
      BY <2>1, <3>1, <3>2
  <2> QED
    BY <2>2, <2>3
<1>17. CASE verbs_fails(p)
  BY <1>17 DEF verbs_fails, tcpVars, ibVars
<1>18. CASE first_use(p)
  BY <1>18 DEF first_use, tcpVars, ibVars
<1>19. CASE second_use(p)
  BY <1>19 DEF second_use, tcpVars, ibVars
<1>20. CASE finish(p)
  BY <1>20 DEF finish, tcpVars, ibVars
<1>21. CASE destroy_qp(p)
  BY <1>21 DEF destroy_qp, DropQp, tcpVars
<1>22. CASE close_sock(p)
  BY <1>22 DEF close_sock, ibVars
<1>6. CASE sock_sync_read(p)
  <2>0. synced["server"] >= 2 => synced'["server"] >= 2
    <3>1. synced' = synced \/ synced' = [synced EXCEPT ![p] = @ + 1]
      BY <1>6 DEF sock_sync_read
    <3> QED
      BY <3>1
  <2>1. UNCHANGED <<qp, rq, sqOp, sqAt, cq>> /\ pc[p] \in ReadLabels
    BY <1>6 DEF sock_sync_read, ibVars
  <2>2. pc' = pc \/ pc' = [pc EXCEPT ![p] = AfterRead(p)]
    BY <1>6 DEF sock_sync_read
  <2>3. CASE p = "server"
    <3>1. /\ pc'["client"] = pc["client"]
          /\ pc'["server"] \in {pc["server"], "to_init", "send", "w_write", "finish"}
          /\ pc'["server"] = "send" => pc["server"] = "q_read"
          /\ Round(pc'["server"]) < 2 => Round(pc["server"]) < 2
      BY <2>1, <2>2, <2>3 DEF ReadLabels, AfterRead
    <3> QED
      BY <2>0, <2>1, <2>3, <3>1 DEF ReadLabels, SyncInv, SyncInvOf, Procs
  <2>4. CASE p = "client"
    <3>1. /\ pc'["server"] = pc["server"]
          /\ \/ pc'["client"] = pc["client"]
             \/ pc["client"] = "con_read" /\ pc'["client"] = "to_init"
             \/ pc["client"] = "q_read" /\ pc'["client"] = "poll1"
             \/ pc["client"] = "r_read" /\ pc'["client"] = "post_read"
             \/ pc["client"] = "w_read" /\ pc'["client"] = "finish"
      BY <2>1, <2>2, <2>4 DEF ReadLabels, AfterRead
    <3> QED
      BY <2>0, <2>1, <3>1
  <2> QED
    BY <2>3, <2>4
<1> QED
  BY <1>1, <1>2, <1>3, <1>4, <1>5, <1>6, <1>7, <1>8, <1>9, <1>10, <1>11, <1>12, <1>13,
     <1>14, <1>15, <1>16, <1>17, <1>18, <1>19, <1>20, <1>21, <1>22 DEF Process, Connect

\* Every step of an adapter keeps RecvInv.
LEMMA RecvAdapter ==
    ASSUME TypeOK, SyncInv, RecvInv, NEW p \in Procs, Adapter(p) PROVE RecvInv'
<1> USE DEF RecvInv, MessageAhead, Pending
<1>0. /\ p \in {"server", "client"}
      /\ rq \in [{"server", "client"} -> Nat]
      /\ cq \in [{"server", "client"} -> Seq(Completions)]
      /\ qp \in [{"server", "client"} -> {"none", "RESET", "INIT", "RTR", "RTS", "ERR"}]
      /\ sqOp \in [{"server", "client"} -> Ops \cup {"none"}]
      /\ sqAt \in [{"server", "client"} -> {"empty", "posted", "executed"}]
  BY DEF Procs, TypeOK
<1> USE <1>0
<1>1. CASE HcaSend(p)
  <2>1. sqOp[p] = "SEND" /\ rq[Peer(p)] > 0 /\ sqAt' = [sqAt EXCEPT ![p] = "executed"]
        /\ UNCHANGED <<pc, synced, qp, sqOp>>
    BY <1>1 DEF HcaSend, Executed, tcpVars
  <2>2. p = "server" /\ Peer(p) = "client"
    BY <2>1 DEF Peer
  <2>3. sqAt'["server"] = "executed" /\ rq["client"] # 0
    BY <2>1, <2>2
  <2>4. synced["server"] >= 2 /\ pc["server"] # "send"
    BY <2>1, <2>2
  <2>5. pc["server"] \in ExitLabels \/ Round(pc["server"]) >= 2
    BY <2>4 DEF SyncInv, SyncInvOf, Procs
  <2>6. ~MessageAhead' /\ pc["client"] \notin ClientEarly
    BY <2>1, <2>3, <2>4, <2>5 DEF Round
  <2> QED
    BY <2>1, <2>6
<1>2. CASE HcaRead(p) \/ HcaWrite(p)
  <2>1. sqOp[p] \in {"RDMA_READ", "RDMA_WRITE"} /\ sqAt' = [sqAt EXCEPT ![p] = "executed"]
        /\ UNCHANGED <<pc, synced, qp, rq, sqOp, cq>>
    BY <1>2 DEF HcaRead, HcaWrite, Executed, tcpVars
  <2>2. p = "client" /\ sqAt'["server"] = sqAt["server"]
    BY <2>1
  <2> QED
    BY <2>1, <2>2
<1>3. CASE HcaAck(p) \/ HcaFail(p)
  <2>1. /\ sqOp[p] # "none"
        /\ sqOp' = [sqOp EXCEPT ![p] = "none"]
        /\ sqAt' = [sqAt EXCEPT ![p] = "empty"]
        /\ UNCHANGED <<pc, synced, rq>>
        /\ qp' = qp \/ qp' = [qp EXCEPT ![p] = "ERR"]
    BY <1>3 DEF HcaAck, HcaFail, Complete, tcpVars
  <2>2. \E c : cq' = [cq EXCEPT ![p] = c]
    BY <1>3 DEF HcaAck, HcaFail, Complete
  <2>3. CASE p = "server"
    <3>1. qp'["client"] = qp["client"] /\ cq'["client"] = cq["client"]
          /\ sqOp'["server"] = "none" /\ sqOp'["client"] = sqOp["client"]
      BY <2>1, <2>2, <2>3
    <3> QED
      BY <2>1, <3>1
  <2>4. CASE p = "client"
    <3>1. pc["client"] \notin ClientEarly \cup ClientWaits
      BY <2>1, <2>4
    <3>2. sqOp'["server"] = sqOp["server"] /\ sqAt'["server"] = sqAt["server"]
          /\ sqOp'["client"] = "none"
      BY <2>1, <2>4
    <3>3. pc["client"] \notin {"q_write", "q_read", "poll1"}
      BY <3>1 DEF ClientWaits
    <3> QED
      BY <2>1, <3>1, <3>2, <3>3
  <2> QED
    BY <2>3, <2>4
<1> QED
  BY <1>1, <1>2, <1>3 DEF Adapter

\* Every step keeps RecvInv.
LEMMA RecvStep == TypeOK /\ SyncInv /\ RecvInv /\ [Next]_vars => RecvInv'
<1> SUFFICES ASSUME TypeOK, SyncInv, RecvInv, [Next]_vars PROVE RecvInv'
  OBVIOUS
<1> USE DEF RecvInv, MessageAhead, Pending, ExitLabels, ClientEarly, ClientWaits
<1>0. /\ pc \in [{"server", "client"} -> Labels]
      /\ rq \in [{"server", "client"} -> Nat]
      /\ cq \in [{"server", "client"} -> Seq(Completions)]
      /\ qp \in [{"server", "client"} -> {"none", "RESET", "INIT", "RTR", "RTS", "ERR"}]
      /\ sqOp \in [{"server", "client"} -> Ops \cup {"none"}]
      /\ sqAt \in [{"server", "client"} -> {"empty", "posted", "executed"}]
  BY DEF Procs, TypeOK
<1>1. CASE UNCHANGED vars
  BY <1>1 DEF vars
<1>2. CASE sock_accept_fails
  BY <1>0, <1>2 DEF sock_accept_fails, Fail, Goto, ibVars
<1>3. ASSUME NEW p \in Procs, killed(p) PROVE RecvInv'
  <2>1. DropQp(p) /\ Goto(p, "killed") /\ UNCHANGED synced /\ p \in {"server", "client"}
    BY <1>3 DEF killed, Procs
  <2> QED
    BY <1>0, <2>1 DEF DropQp, Goto
<1> QED
  BY <1>1, <1>2, <1>3, RecvProcess, RecvAdapter DEF Next, Halted

\* The invariants imply that a SEND under way meets the receive request.
LEMMA RecvEnough == TypeOK /\ SyncInv /\ RecvInv => SendMeetsReceive
<1> SUFFICES ASSUME TypeOK, SyncInv, RecvInv, Pending("server", "SEND"),
                    pc["client"] \notin ExitLabels
             PROVE  qp["client"] = "RTS" /\ rq["client"] = 1
  BY DEF SendMeetsReceive
<1>1. synced["server"] \in 2..4 /\ rd["server"] >= Bytes(synced["server"])
      /\ rd["server"] <= wr["client"] /\ rd["server"] \in Nat /\ wr["client"] \in Nat
  BY DEF RecvInv, Pending, SyncInv, SyncInvOf, TypeOK, Procs, Peer
<1>2. wr["client"] >= ConLen + 1
  BY <1>1, ConLenAssumption DEF Bytes
<1>3. /\ synced["client"] = Round(pc["client"])
      /\ pc["client"] \in ReadLabels => wr["client"] = Bytes(synced["client"] + 1)
      /\ pc["client"] \notin ReadLabels => wr["client"] = Bytes(synced["client"])
  BY DEF SyncInv, SyncInvOf, Procs
<1>4. pc["client"] \in ClientEarly \cup ClientWaits
  BY DEF RecvInv, MessageAhead
<1>5. pc["client"] \notin ClientEarly \cup {"to_rtr", "to_rts", "q_write"}
  BY <1>2, <1>3, ConLenAssumption DEF Round, Bytes, ReadLabels, ClientEarly
<1>6. pc["client"] \in {"q_read", "poll1"}
  BY <1>4, <1>5 DEF ClientWaits
<1> QED
  BY <1>6 DEF RecvInv, MessageAhead, ClientWaits

\* RecvInv holds initially.
LEMMA RecvInit == Init => RecvInv
BY DEF Init, RecvInv, MessageAhead, Pending, Procs, Round, ExitLabels, ClientEarly,
       ClientWaits

\* A SEND under way meets a posted receive request on a queue pair in RTS, or
\* a client that has given up: for every length of the connection data and
\* every combination of faults.
THEOREM SendMeetsReceiveAlways == Spec => []SendMeetsReceive
BY TypeCorrect, SyncInit, SyncStep, RecvInit, RecvStep, RecvEnough, PTL DEF Spec

-----------------------------------------------------------------------------
(* The two processes never both wait for a byte                             *)

\* A quiet step keeps what has been read.
LEMMA ReadInvQuiet ==
    ASSUME TypeOK, SyncInv, ReadInv, NEW p \in Procs, Quiet(p) PROVE ReadInv'
<1>1. PICK l \in Labels :
        /\ pc' = [pc EXCEPT ![p] = l]
        /\ \/ l \in ExitLabels
           \/ {pc[p], l} \cap (ReadLabels \cup ExitLabels) = {}
  BY DEF Quiet
<1>2. UNCHANGED <<wr, rd, total, synced>>
  BY DEF Quiet, syncVars
<1>3. \A q \in Procs : pc'[q] \in ReadLabels => pc[q] \in ReadLabels
  BY <1>1 DEF TypeOK, ExitLabels, ReadLabels
<1> QED
  BY <1>2, <1>3 DEF ReadInv, ReadInvOf, ReadAhead

\* A write starts the count of the bytes of its exchange again.
LEMMA ReadInvWrite ==
    ASSUME TypeOK, SyncInv, ReadInv, NEW p \in Procs, sock_sync_write(p) PROVE ReadInv'
<1>1. /\ synced[p] < 4 /\ wr[p] = Bytes(synced[p])
      /\ wr' = [wr EXCEPT ![p] = Bytes(synced[p] + 1)]
      /\ \A q \in Procs : q # p => pc'[q] = pc[q] /\ total'[q] = total[q]
      /\ total'[p] = 0
      /\ UNCHANGED <<rd, synced>>
  BY WriteEffect
<1>2. \A q \in Procs : ReadAhead(q)' <=> ReadAhead(q)
  BY <1>1 DEF ReadAhead
<1>3. ASSUME NEW q \in Procs PROVE ReadInvOf(q)'
  <2>1. ReadInvOf(q)
    BY DEF ReadInv
  <2>2. CASE q = p
    <3>1. synced[q] = 0 => rd[q] = 0 /\ ConLen > 0
      BY <1>1, <2>1, <2>2, ConLenAssumption DEF ReadInvOf, Bytes
    <3> QED
      BY <1>1, <1>2, <2>1, <2>2, <3>1 DEF ReadInvOf
  <2>3. CASE q # p
    <3>1. wr'[q] = wr[q]
      BY <1>1, <2>3 DEF TypeOK
    <3> QED
      BY <1>1, <1>2, <2>1, <2>3, <3>1 DEF ReadInvOf
  <2> QED
    BY <2>2, <2>3
<1> QED
  BY <1>2, <1>3 DEF ReadInv, Procs

\* A read that completes the first exchange may take the first byte of the
\* second; the peer, which wrote that byte, then has none too many and gets
\* none until this process has written its own.
LEMMA ReadInvRead ==
    ASSUME TypeOK, SyncInv, ReadInv, NEW p \in Procs, sock_sync_read(p) PROVE ReadInv'
<1> DEFINE q == Peer(p)
<1>1. PICK n \in ReadSizes(p, XferSize(pc[p])) :
            /\ rd' = [rd EXCEPT ![p] = @ + n]
            /\ total' = [total EXCEPT ![p] = @ + n]
            /\ IF total[p] + n >= XferSize(pc[p])
               THEN /\ synced' = [synced EXCEPT ![p] = @ + 1]
                    /\ Goto(p, AfterRead(p))
               ELSE UNCHANGED <<synced, pc>>
  BY DEF sock_sync_read
<1>2. pc[p] \in ReadLabels /\ UNCHANGED wr /\ q \in Procs /\ q # p
  BY PeerType DEF sock_sync_read
<1>3. n \in Nat /\ n > 0 /\ n <= XferSize(pc[p]) /\ n <= wr[q] - rd[p]
  BY ConLenAssumption DEF ReadSizes, XferSize, Avail
<1>4. /\ synced[p] = Round(pc[p])
      /\ wr[p] = Bytes(synced[p] + 1)
  BY <1>2 DEF SyncInv, SyncInvOf, ReadLabels, ExitLabels
<1>5. /\ wr[q] \in Nat /\ rd[p] \in Nat /\ total[p] \in Nat /\ synced[p] \in Nat
      /\ rd[q] \in Nat /\ synced[q] \in Nat /\ wr[p] \in Nat
      /\ rd'[p] = rd[p] + n /\ total'[p] = total[p] + n
      /\ rd'[q] = rd[q] /\ total'[q] = total[q]
  BY <1>1, <1>2 DEF TypeOK
<1>6. pc'[q] = pc[q] /\ synced'[q] = synced[q]
  BY <1>2, ReadEffect
<1>7. ReadInvOf(p) /\ ReadInvOf(q)
  BY <1>2 DEF ReadInv
<1>8. ReadAhead(q)' <=> ReadAhead(q)
  BY <1>5, <1>6 DEF ReadAhead
<1>9. ReadInvOf(q)'
  BY <1>2, <1>5, <1>6, <1>7, <1>8 DEF ReadInvOf
<1>10. /\ rd[q] <= wr[p] /\ rd[q] >= Bytes(synced[q]) /\ synced[q] \in 0..4
       /\ wr[q] = Bytes(synced[q]) \/ wr[q] = Bytes(synced[q] + 1)
  BY <1>2, PeerType DEF SyncInv, SyncInvOf
<1>11. SUFFICES ReadInvOf(p)' /\ ~(ReadAhead(p)' /\ ReadAhead(q)')
  BY <1>2, <1>9 DEF ReadInv, Procs
<1>12. CASE synced[p] = 0
  <2>1. pc[p] = "con_read" /\ XferSize(pc[p]) = ConLen
    BY <1>2, <1>4, <1>12 DEF ReadLabels, Round, XferSize
  <2>2. wr[p] = ConLen /\ rd[p] = total[p]
    BY <1>4, <1>7, <1>12, ConLenAssumption DEF Bytes, ReadInvOf
  <2>3. CASE total[p] + n >= ConLen
    <3>1. synced'[p] = 1 /\ pc'[p] = "to_init"
      <4>1. synced'[p] = synced[p] + 1
        BY <1>1, <2>1, <2>3 DEF TypeOK
      <4>2. pc'[p] = AfterRead(p)
        BY <1>1, <2>1, <2>3 DEF TypeOK, Goto
      <4> QED
        BY <1>12, <2>1, <4>1, <4>2 DEF AfterRead
    <3>2. synced[q] <= 1
      BY <1>5, <1>10, <2>2, ConLenAssumption DEF Bytes
    <3>3. wr[q] <= ConLen + 1
      BY <1>5, <1>10, <3>2, ConLenAssumption DEF Bytes
    <3>4. rd'[p] \in {ConLen, ConLen + 1}
      BY <1>3, <1>5, <2>2, <2>3, <3>3, ConLenAssumption
    <3>5. ~ReadAhead(q)
      BY <1>5, <1>10, <2>2, <3>2, ConLenAssumption DEF ReadAhead, Bytes
    <3>6. ReadInvOf(p)'
      BY <3>1, <3>4, ConLenAssumption DEF ReadInvOf, ReadAhead, Bytes, ReadLabels
    <3> QED
      BY <1>8, <3>5, <3>6
  <2>4. CASE ~(total[p] + n >= ConLen)
    <3>1. UNCHANGED <<pc, synced>>
      BY <1>1, <2>1, <2>4
    <3>2. rd'[p] = total'[p] /\ rd'[p] < ConLen /\ wr'[p] # 0
      <4>1. wr'[p] = ConLen /\ ConLen \in Nat /\ ConLen # 0
        BY <1>2, <2>2, ConLenAssumption
      <4> QED
        BY <1>3, <1>5, <2>2, <2>4, <4>1
    <3>3. synced'[p] = 0 /\ ~(0 > 0) /\ ~ReadAhead(p)'
      BY <1>12, <3>1 DEF ReadAhead
    <3> QED
      BY <3>2, <3>3 DEF ReadInvOf
  <2> QED
    BY <2>3, <2>4
<1>13. CASE synced[p] > 0
  <2>1. pc[p] \in {"q_read", "r_read", "w_read"} /\ XferSize(pc[p]) = 1
    BY <1>2, <1>4, <1>13 DEF ReadLabels, Round, XferSize
  <2>2. n = 1 /\ total[p] = 0
    BY <1>2, <1>3, <1>7, <1>13, <2>1 DEF ReadInvOf
  <2>3. synced'[p] = synced[p] + 1
    BY <1>1, <1>5, <2>1, <2>2 DEF TypeOK
  <2>4. pc'[p] \notin ReadLabels
    <3>1. pc'[p] = AfterRead(p)
      BY <1>1, <1>5, <2>1, <2>2 DEF Goto, TypeOK
    <3> QED
      BY <2>1, <3>1 DEF AfterRead, ReadLabels
  <2>5. Bytes(synced[p] + 1) = Bytes(synced[p]) + 1
    BY <1>5, <1>13, ConLenAssumption DEF Bytes
  <2>6. Bytes(synced[p]) \in Nat
    BY <1>5, <1>13, ConLenAssumption DEF Bytes
  <2>7. ReadAhead(p)' <=> ReadAhead(p)
    BY <1>5, <1>13, <2>2, <2>3, <2>5, <2>6 DEF ReadAhead
  <2>8. ReadInvOf(p)'
    BY <1>5, <1>7, <1>13, <2>2, <2>3, <2>4, <2>5, <2>6, <2>7 DEF ReadInvOf, ReadAhead
  <2> QED
    BY <1>2, <1>8, <2>7, <2>8 DEF ReadInv, Procs
<1> QED
  BY <1>5, <1>12, <1>13

\* Every step keeps what has been read within one byte of the exchanges.
LEMMA ReadInvStep == TypeOK /\ SyncInv /\ ReadInv /\ [Next]_vars => ReadInv'
<1> SUFFICES ASSUME TypeOK, SyncInv, ReadInv, [Next]_vars PROVE ReadInv'
  OBVIOUS
<1>1. CASE UNCHANGED <<pc, syncVars>>
  BY <1>1 DEF syncVars, ReadInv, ReadInvOf, ReadAhead
<1> QED
  BY <1>1, StepShape, ReadInvQuiet, ReadInvWrite, ReadInvRead

\* Two processes that both waited would both be in the same exchange with all
\* of its bytes read, or in different ones with two bytes too many on one side.
LEMMA ReadEnough == TypeOK /\ SyncInv /\ ReadInv => NoMutualWait
<1> SUFFICES ASSUME TypeOK, SyncInv, ReadInv,
                    WaitsForByte("server"), WaitsForByte("client")
             PROVE  FALSE
  BY DEF NoMutualWait, Procs
<1>1. ASSUME NEW p \in Procs, WaitsForByte(p)
      PROVE  /\ wr[p] = Bytes(synced[p] + 1) /\ rd[p] = wr[Peer(p)]
             /\ synced[p] \in 0..4 /\ rd[p] \in Nat
             /\ synced[p] = 0 => rd[p] < ConLen
             /\ synced[p] > 0 => rd[p] \in {Bytes(synced[p]), Bytes(synced[p]) + 1}
  <2>1. wr[Peer(p)] \in Nat /\ rd[p] \in Nat
    BY PeerType DEF TypeOK
  <2> QED
    BY <1>1, <2>1 DEF WaitsForByte, Avail, SyncInv, SyncInvOf, ReadInv, ReadInvOf, ReadAhead
<1> DEFINE s == synced["server"]
           c == synced["client"]
<1>2. /\ wr["server"] = Bytes(s + 1) /\ rd["server"] = wr["client"] /\ s \in 0..4
      /\ s = 0 => rd["server"] < ConLen
      /\ s > 0 => rd["server"] \in {Bytes(s), Bytes(s) + 1}
  BY <1>1 DEF Procs, Peer
<1>3. /\ wr["client"] = Bytes(c + 1) /\ rd["client"] = wr["server"] /\ c \in 0..4
      /\ c = 0 => rd["client"] < ConLen
      /\ c > 0 => rd["client"] \in {Bytes(c), Bytes(c) + 1}
  BY <1>1 DEF Procs, Peer
<1>4. s > 0 /\ c > 0
  BY <1>2, <1>3, ConLenAssumption DEF Bytes
<1>5. s = c
  BY <1>2, <1>3, <1>4, ConLenAssumption DEF Bytes
<1>6. ReadAhead("server") /\ ReadAhead("client")
  BY <1>2, <1>3, <1>4, <1>5, ConLenAssumption DEF Bytes, ReadAhead
<1> QED
  BY <1>6 DEF ReadInv

\* The two processes never both wait in sock_sync_data for a byte of the other,
\* for every length of the connection data and every combination of faults.
THEOREM NoMutualWaitAlways == Spec => []NoMutualWait
<1>1. Init => ReadInv
  BY ConLenAssumption DEF Init, ReadInv, ReadInvOf, ReadAhead, Procs
<1> QED
  BY <1>1, TypeCorrect, SyncInit, SyncStep, ReadInvStep, ReadEnough, PTL DEF Spec

-----------------------------------------------------------------------------
(* The completion queue of one entry is enough                              *)

\* What Tail and Append do to a queue of at most one entry.
LEMMA QueueFacts ==
    ASSUME NEW S, NEW s \in Seq(S), NEW x \in S
    PROVE  /\ Len(s) \in Nat
           /\ s = <<>> <=> Len(s) = 0
           /\ Len(s) = 1 => Tail(s) = <<>>
           /\ Append(s, x) # <<>> /\ Len(Append(s, x)) = Len(s) + 1
           /\ s = <<>> => Head(Append(s, x)) = x
<1>1. Len(s) \in Nat /\ (s = <<>> <=> Len(s) = 0)
  OBVIOUS
<1>2. ASSUME Len(s) = 1 PROVE Tail(s) = <<>>
  <2>1. Tail(s) \in Seq(S) /\ Len(Tail(s)) = 0
    BY <1>2
  <2>2. \A t \in Seq(S) : Len(t) = 0 => t = <<>>
    OBVIOUS
  <2> QED
    BY <2>1, <2>2, Zenon
<1>3. Append(s, x) \in Seq(S) /\ Len(Append(s, x)) = Len(s) + 1
  OBVIOUS
<1>4. Append(s, x) # <<>>
  BY <1>1, <1>3
<1>5. ASSUME s = <<>> PROVE Head(Append(s, x)) = x
  BY <1>5
<1> QED
  BY <1>1, <1>2, <1>3, <1>4, <1>5

\* A completion in the queue leaves no request and no second completion.
LEMMA CqFull ==
    ASSUME TypeOK, CqFits, NEW p \in Procs, cq[p] # <<>>
    PROVE  /\ rq[p] = 0 /\ sqOp[p] = "none" /\ Tail(cq[p]) = <<>>
<1>1. /\ cq[p] \in Seq(Completions) /\ Head(cq[p]) \in Completions /\ rq[p] \in Nat
      /\ Len(cq[p]) + rq[p] + (IF sqOp[p] = "none" THEN 0 ELSE 1) <= 1
  BY DEF TypeOK, CqFits
<1>2. Len(cq[p]) \in Nat /\ Len(cq[p]) # 0
  BY <1>1, QueueFacts
<1>3. CASE sqOp[p] = "none"
  <2>1. Len(cq[p]) + rq[p] + 0 <= 1
    BY <1>1, <1>3
  <2>2. Len(cq[p]) = 1 /\ rq[p] = 0
    <3>1. \A m, n \in Nat : m # 0 /\ m + n + 0 <= 1 => m = 1 /\ n = 0
      OBVIOUS
    <3> QED
      BY <1>1, <1>2, <2>1, <3>1
  <2> QED
    BY <1>1, <1>3, <2>2, QueueFacts
<1>4. CASE sqOp[p] # "none"
  <2>1. Len(cq[p]) + rq[p] + 1 <= 1
    BY <1>1, <1>4
  <2> QED
    BY <1>1, <1>2, <2>1
<1> QED
  BY <1>3, <1>4

\* A step that changes the queues of p only keeps the room in them if those of
\* p still have it.
LEMMA CqOne ==
    ASSUME CqFits, NEW p \in Procs,
           \A q \in Procs : q # p => cq'[q] = cq[q] /\ rq'[q] = rq[q] /\ sqOp'[q] = sqOp[q],
           Len(cq'[p]) + rq'[p] + (IF sqOp'[p] = "none" THEN 0 ELSE 1) <= 1
    PROVE  CqFits'
BY DEF CqFits

\* A step of p that changes no queue, takes p to its poll or its end if it
\* takes p anywhere with a request under way, and begins no exchange then.
LEMMA QueueQuiet ==
    ASSUME TypeOK, QueueInv, NEW p \in Procs, NEW l \in Labels,
           pc' = [pc EXCEPT ![p] = l], UNCHANGED <<rq, sqOp, cq>>,
           \A q \in Procs : sqOp[q] # "none" => synced'[q] = synced[q] /\ wr'[q] = wr[q],
           pc[p] \in PollLabels => l = "destroy_qp",
           l \in PollLabels => l = "poll1",
           p = "client" => (l \in ClientWaits <=> pc[p] \in ClientWaits) \/ l = "destroy_qp",
           p = "server" => l # "poll1",
           pc[p] # "destroy_qp"
    PROVE  QueueInv'
<1>1. pc \in [{"server", "client"} -> Labels] /\ p \in {"server", "client"}
  BY DEF TypeOK, Procs
<1>2. CqFits'
  BY DEF QueueInv, CqFits
<1> USE DEF QueueInv, Idle, PollLabels
<1>3. CASE p = "server"
  BY <1>1, <1>2, <1>3 DEF Procs
<1>4. CASE p = "client"
  BY <1>1, <1>2, <1>4 DEF Procs, ClientWaits
<1> QED
  BY <1>1, <1>3, <1>4

\* No request of a process is under way while it is in sock_sync_data.
LEMMA QuietSync ==
    ASSUME RecvInv, QueueInv, NEW p \in Procs, pc[p] \in ReadLabels \cup WriteLabels
    PROVE  sqOp[p] = "none"
BY DEF RecvInv, QueueInv, Idle, Procs, ReadLabels, WriteLabels, ClientWaits, ClientEarly

\* Every step of a running process keeps QueueInv.
LEMMA QueueProcess ==
    ASSUME TypeOK, SyncInv, RecvInv, QueueInv, NEW p \in Procs, Process(p) PROVE QueueInv'
<1>0. /\ p \in {"server", "client"}
      /\ pc \in [{"server", "client"} -> Labels]
      /\ wr \in [{"server", "client"} -> Nat]
      /\ rq \in [{"server", "client"} -> Nat]
      /\ cq \in [{"server", "client"} -> Seq(Completions)]
      /\ sqOp \in [{"server", "client"} -> Ops \cup {"none"}]
      /\ sqAt \in [{"server", "client"} -> {"empty", "posted", "executed"}]
      /\ synced \in [{"server", "client"} -> Nat]
  BY DEF Procs, TypeOK
<1>a. ASSUME NEW l \in Labels, Goto(p, l), UNCHANGED <<rq, sqOp, cq, synced, wr>>,
             pc[p] \in PollLabels => l = "destroy_qp",
             l \notin PollLabels,
             p = "client" => (l \in ClientWaits <=> pc[p] \in ClientWaits) \/ l = "destroy_qp",
             pc[p] # "destroy_qp"
      PROVE  QueueInv'
  BY <1>a, QueueQuiet DEF Goto, PollLabels
<1>b. ASSUME Fail(p), UNCHANGED <<rq, sqOp, cq, synced, wr>>, pc[p] # "destroy_qp"
      PROVE  QueueInv'
  BY <1>a, <1>b, LabelType DEF Fail, PollLabels, ClientWaits
<1>c. ASSUME DropQp(p), UNCHANGED <<synced, wr>>, NEW l \in {"close_sock", "aborted"},
             Goto(p, l)
      PROVE  QueueInv'
  <2>1. CqFits'
    <3>1. \A q \in Procs : q # p => cq'[q] = cq[q] /\ rq'[q] = rq[q] /\ sqOp'[q] = sqOp[q]
      BY <1>c DEF DropQp, TypeOK
    <3>2. cq'[p] = <<>> /\ rq'[p] = 0 /\ sqOp'[p] = "none"
      BY <1>c DEF DropQp, TypeOK
    <3>3. Len(cq'[p]) = 0
      BY <3>2
    <3> QED
      BY <3>1, <3>2, <3>3 DEF CqFits, QueueInv
  <2> QED
    BY <1>0, <1>c, <2>1 DEF DropQp, Goto, QueueInv, Idle, ClientWaits
<1> USE DEF PollLabels, ClientWaits
<1>1. CASE p = "server" /\ sock_listen
  BY <1>a, <1>1, LabelType DEF sock_listen, ibVars
<1>2. CASE p = "server" /\ sock_accept
  BY <1>a, <1>2, LabelType DEF sock_accept, ibVars
<1>3. CASE p = "client" /\ sock_connect
  BY <1>a, <1>3, LabelType DEF sock_connect, ibVars
<1>4. CASE p = "client" /\ sock_connect_fails
  BY <1>b, <1>4 DEF sock_connect_fails, tcpVars, ibVars
<1>5. CASE sock_sync_write(p)
  <2>1. sqOp[p] = "none"
    BY <1>5, QuietSync DEF sock_sync_write
  <2>2. pc[p] \in WriteLabels /\ pc' = [pc EXCEPT ![p] = ReadAfterWrite(pc[p])]
        /\ UNCHANGED <<rq, sqOp, cq, synced>>
        /\ wr' = [wr EXCEPT ![p] = @ + XferSize(pc[p])]
    BY <1>5 DEF sock_sync_write, Goto, ibVars
  <2>3. /\ ReadAfterWrite(pc[p]) \in ReadLabels
        /\ ReadAfterWrite(pc[p]) \in ClientWaits <=> pc[p] \in ClientWaits
    BY <2>2 DEF WriteLabels, ReadAfterWrite, ReadLabels
  <2>4. \A q \in Procs : sqOp[q] # "none" => wr'[q] = wr[q]
    BY <1>0, <2>1, <2>2 DEF Procs
  <2>5. ReadAfterWrite(pc[p]) \in Labels /\ pc[p] \notin PollLabels \cup {"destroy_qp"}
        /\ ReadAfterWrite(pc[p]) \notin PollLabels
    BY <2>2, <2>3, LabelType DEF ReadLabels, WriteLabels
  <2> QED
    BY <2>2, <2>3, <2>4, <2>5, QueueQuiet
<1>6. CASE sock_sync_assert(p)
  BY <1>c, <1>6 DEF sock_sync_assert
<1>7. CASE sock_sync_reset(p)
  BY <1>b, <1>7 DEF sock_sync_reset, tcpVars, ibVars, ReadLabels
<1>8. CASE sock_sync_eof(p)
  BY <1>8 DEF sock_sync_eof, vars, QueueInv, CqFits, Idle
<1>9. CASE resources_create(p)
  BY <1>a, <1>9, LabelType DEF resources_create, tcpVars
<1>10. CASE resources_create_exit(p)
  BY <1>b, <1>10 DEF resources_create_exit, ibVars
<1>11. CASE modify_qp_to_init(p)
  BY <1>0, <1>a, <1>11, LabelType DEF modify_qp_to_init, modify_qp, tcpVars
<1>12. CASE modify_qp_rtr(p)
  BY <1>a, <1>12, LabelType DEF modify_qp_rtr, modify_qp, tcpVars
<1>13. CASE modify_qp_rts(p)
  BY <1>a, <1>13, LabelType DEF modify_qp_rts, modify_qp, tcpVars
<1>14. CASE post_recv(p)
  <2>1. p = "client" /\ pc["client"] = "post_recv" /\ Idle("client")
    BY <1>0, <1>14 DEF post_recv, RecvInv, QueueInv
  <2>2. /\ rq' = [rq EXCEPT !["client"] = 1] /\ pc' = [pc EXCEPT !["client"] = "to_rtr"]
        /\ UNCHANGED <<sqOp, cq, synced, wr>>
    BY <1>0, <1>14, <2>1 DEF post_recv, Goto, Idle, tcpVars
  <2>3. CqFits'
    <3>1. \A q \in Procs : q # p => cq'[q] = cq[q] /\ rq'[q] = rq[q] /\ sqOp'[q] = sqOp[q]
      BY <1>0, <2>1, <2>2 DEF Procs
    <3>2. /\ Len(cq'[p]) = 0 /\ rq'[p] \in {0, 1}
          /\ rq'[p] = 0 \/ sqOp'[p] = "none"
      BY <1>0, <2>1, <2>2 DEF Idle
    <3>3. Len(cq'[p]) + rq'[p] + (IF sqOp'[p] = "none" THEN 0 ELSE 1) <= 1
      BY <3>2
    <3> QED
      BY <3>1, <3>3, CqOne DEF QueueInv
  <2> QED
    BY <1>0, <2>1, <2>2, <2>3 DEF QueueInv, Idle
<1>15. CASE post_send(p)
  <2>1. /\ pc[p] \in SendLabels
        /\ sqOp' = [sqOp EXCEPT ![p] = OpPosted(pc[p])]
        /\ pc' = [pc EXCEPT ![p] = PollAfterPost(pc[p])]
        /\ UNCHANGED <<rq, cq, synced, wr>>
    BY <1>15 DEF post_send, Goto, tcpVars
  <2>2. Idle(p)
    BY <1>0, <2>1 DEF QueueInv, SendLabels
  <2>3. CqFits'
    <3>1. \A q \in Procs : q # p => cq'[q] = cq[q] /\ rq'[q] = rq[q] /\ sqOp'[q] = sqOp[q]
      BY <1>0, <2>1, <2>2 DEF Procs
    <3>2. /\ Len(cq'[p]) = 0 /\ rq'[p] \in {0, 1}
          /\ rq'[p] = 0 \/ sqOp'[p] = "none"
      BY <1>0, <2>1, <2>2 DEF Idle
    <3>3. Len(cq'[p]) + rq'[p] + (IF sqOp'[p] = "none" THEN 0 ELSE 1) <= 1
      BY <3>2
    <3> QED
      BY <3>1, <3>3, CqOne DEF QueueInv
  <2>4. CASE p = "server"
    <3>1. pc["server"] = "send"
      BY <2>1, <2>4 DEF SendLabels, RecvInv
    <3>2. pc'["server"] = "poll1" /\ pc'["client"] = pc["client"]
          /\ sqOp'["client"] = sqOp["client"]
      BY <1>0, <2>1, <2>4, <3>1 DEF PollAfterPost
    <3>3. synced["server"] = 2 /\ wr["server"] = Bytes(2)
      BY <3>1 DEF SyncInv, SyncInvOf, Procs, Round, ReadLabels, ExitLabels
    <3> QED
      BY <2>1, <2>2, <2>3, <2>4, <3>2, <3>3 DEF QueueInv, Idle
  <2>5. CASE p = "client"
    <3>1. pc["client"] \in {"post_read", "post_write"}
      BY <2>1, <2>5 DEF SendLabels, RecvInv
    <3>2. \/ pc'["client"] = "poll2" /\ sqOp'["client"] = "RDMA_READ"
          \/ pc'["client"] = "poll3" /\ sqOp'["client"] = "RDMA_WRITE"
      BY <1>0, <2>1, <2>5, <3>1 DEF PollAfterPost, OpPosted
    <3>3. synced["client"] = 3 /\ wr["client"] = Bytes(3)
      BY <3>1 DEF SyncInv, SyncInvOf, Procs, Round, ReadLabels, ExitLabels
    <3>4. pc'["server"] = pc["server"] /\ sqOp'["server"] = sqOp["server"]
      BY <1>0, <2>1, <2>5
    <3> QED
      BY <2>1, <2>2, <2>3, <2>5, <3>2, <3>3, <3>4 DEF QueueInv, Idle
  <2> QED
    BY <1>0, <2>4, <2>5
<1>16. CASE poll_completion(p)
  <2>1. /\ pc[p] \in PollLabels /\ cq[p] # <<>>
        /\ cq' = [cq EXCEPT ![p] = Tail(cq[p])]
        /\ \/ pc' = [pc EXCEPT ![p] = AfterPoll(pc[p])]
           \/ pc' = [pc EXCEPT ![p] = "destroy_qp"]
        /\ UNCHANGED <<synced, wr, rq, sqOp>>
    BY <1>16 DEF poll_completion, Goto, tcpVars
  <2>3. rq[p] = 0 /\ sqOp[p] = "none" /\ Tail(cq[p]) = <<>>
    BY <2>1, CqFull DEF QueueInv
  <2>5. Idle(p)' /\ Len(cq'[p]) = 0
    BY <1>0, <2>1, <2>3 DEF Idle
  <2>6. CqFits'
    BY <1>0, <2>1, <2>5 DEF CqFits, QueueInv, Idle, Procs
  <2>7. pc'[p] \in {"use1", "use2", "w_write", "destroy_qp"}
    BY <1>0, <2>1 DEF AfterPoll
  <2> QED
    BY <1>0, <2>1, <2>3, <2>5, <2>6, <2>7 DEF QueueInv, Idle
<1>17. CASE verbs_fails(p)
  BY <1>b, <1>17 DEF verbs_fails, tcpVars, ibVars, VerbsError, SendLabels
<1>18. CASE first_use(p)
  BY <1>a, <1>18, LabelType DEF first_use, tcpVars, ibVars
<1>19. CASE second_use(p)
  BY <1>a, <1>19, LabelType DEF second_use, tcpVars, ibVars
<1>20. CASE finish(p)
  BY <1>a, <1>20, LabelType DEF finish, tcpVars, ibVars
<1>21. CASE destroy_qp(p)
  BY <1>c, <1>21 DEF destroy_qp, tcpVars
<1>22. CASE close_sock(p)
  BY <1>a, <1>22, LabelType DEF close_sock, ibVars
<1>23. CASE sock_sync_read(p)
  <2>1. sqOp[p] = "none" /\ pc[p] \in ReadLabels
    BY <1>23, QuietSync DEF sock_sync_read
  <2>2. UNCHANGED <<rq, sqOp, cq, wr>>
    BY <1>23 DEF sock_sync_read, ibVars
  <2>3. \A q \in Procs : sqOp[q] # "none" => synced'[q] = synced[q] /\ wr'[q] = wr[q]
    BY <1>23, <2>1, <2>2, ReadEffect
  <2>4. CASE pc' = [pc EXCEPT ![p] = AfterRead(p)]
    <3>1. /\ AfterRead(p) \in {"to_init", "send", "poll1", "w_write", "post_read", "finish"}
          /\ p = "client" => (AfterRead(p) \in ClientWaits <=> pc[p] \in ClientWaits)
          /\ p = "server" => AfterRead(p) # "poll1"
      BY <2>1 DEF AfterRead, ReadLabels
    <3>2. AfterRead(p) \in Labels
      BY <3>1, LabelType
    <3>3. pc[p] \notin PollLabels \cup {"destroy_qp"}
      BY <2>1 DEF ReadLabels
    <3> QED
      BY <2>2, <2>3, <2>4, <3>1, <3>2, <3>3, QueueQuiet
  <2>5. CASE pc' = pc
    <3>1. CqFits'
      BY <2>2 DEF QueueInv, CqFits
    <3> QED
      BY <2>2, <2>3, <2>5, <3>1 DEF QueueInv, Idle, Procs
  <2> QED
    BY <1>23, <2>4, <2>5 DEF sock_sync_read, Goto
<1> QED
  BY <1>1, <1>2, <1>3, <1>4, <1>5, <1>6, <1>7, <1>8, <1>9, <1>10, <1>11, <1>12, <1>13,
     <1>14, <1>15, <1>16, <1>17, <1>18, <1>19, <1>20, <1>21, <1>22, <1>23
     DEF Process, Connect

\* Every step of an adapter keeps QueueInv.
LEMMA QueueAdapter ==
    ASSUME TypeOK, RecvInv, QueueInv, NEW p \in Procs, Adapter(p) PROVE QueueInv'
<1>0. /\ p \in {"server", "client"}
      /\ rq \in [{"server", "client"} -> Nat]
      /\ cq \in [{"server", "client"} -> Seq(Completions)]
      /\ sqOp \in [{"server", "client"} -> Ops \cup {"none"}]
      /\ \A q \in Procs : Len(cq[q]) \in Nat
  BY DEF Procs, TypeOK
<1>1. CASE HcaSend(p)
  <2> DEFINE r == [op |-> "RECV", status |-> "SUCCESS"]
  <2>1. /\ sqOp[p] = "SEND" /\ rq[Peer(p)] > 0
        /\ UNCHANGED <<pc, synced, wr, sqOp>>
        /\ rq' = [rq EXCEPT ![Peer(p)] = @ - 1]
        /\ cq' = [cq EXCEPT ![Peer(p)] = Append(@, r)]
    BY <1>1 DEF HcaSend, Pending, tcpVars
  <2>2. p = "server" /\ Peer(p) = "client"
    BY <1>0, <2>1 DEF Peer, RecvInv
  <2>3. rq["client"] > 0 /\ rq'["client"] = rq["client"] - 1 /\ rq'["server"] = rq["server"]
        /\ cq'["client"] = Append(cq["client"], r) /\ cq'["server"] = cq["server"]
    BY <1>0, <2>1, <2>2
  <2>4. cq["client"] = <<>> /\ rq["client"] = 1
    <3>1. cq["client"] = <<>>
      BY <2>3, CqFull DEF QueueInv, Procs
    <3>2. rq["client"] + (IF sqOp["client"] = "none" THEN 0 ELSE 1) <= 1
      <4>1. Len(cq["client"]) = 0
        BY <3>1
      <4>2. Len(cq["client"]) + rq["client"] + (IF sqOp["client"] = "none" THEN 0 ELSE 1) <= 1
        BY DEF QueueInv, CqFits, Procs
      <4> QED
        BY <1>0, <4>1, <4>2
    <3> QED
      BY <1>0, <2>3, <3>1, <3>2
  <2>5. r \in Completions /\ r.op = "RECV"
    BY DEF Completions
  <2>6. cq'["client"] # <<>> /\ Head(cq'["client"]).op = "RECV" /\ Len(cq'["client"]) = 1
    <3>1. cq["client"] \in Seq(Completions) /\ Len(cq["client"]) = 0
      BY <1>0, <2>4
    <3> QED
      BY <2>3, <2>4, <2>5, <3>1, QueueFacts
  <2>7. CqFits'
    <3>1. \A q \in Procs : q # "client" =>
              cq'[q] = cq[q] /\ rq'[q] = rq[q] /\ sqOp'[q] = sqOp[q]
      BY <2>1, <2>3 DEF Procs
    <3>2. Len(cq["client"]) + rq["client"] + (IF sqOp["client"] = "none" THEN 0 ELSE 1) <= 1
      BY DEF QueueInv, CqFits, Procs
    <3>3. Len(cq["client"]) = 0 /\ rq'["client"] = 0
      BY <2>3, <2>4
    <3>4. Len(cq'["client"]) + rq'["client"]
              + (IF sqOp'["client"] = "none" THEN 0 ELSE 1) <= 1
      BY <2>1, <2>4, <2>6, <3>2, <3>3
    <3> QED
      BY <3>1, <3>4, CqOne DEF QueueInv, Procs
  <2>8. pc["client"] \in ClientWaits \cup {"destroy_qp"}
    BY <2>3, <2>4 DEF QueueInv, Idle
  <2> QED
    BY <2>1, <2>3, <2>4, <2>6, <2>7, <2>8 DEF QueueInv, Idle, ClientWaits
<1>2. CASE HcaRead(p) \/ HcaWrite(p)
  <2>1. UNCHANGED <<pc, synced, wr, rq, sqOp, cq>>
    BY <1>2 DEF HcaRead, HcaWrite, tcpVars
  <2> QED
    BY <2>1 DEF QueueInv, CqFits, Idle
<1>3. ASSUME NEW s \in {"SUCCESS", "ERROR"}, Complete(p, s), sqOp[p] # "none"
      PROVE  QueueInv'
  <2> DEFINE r == [op |-> sqOp[p], status |-> s]
  <2>1. /\ cq' = [cq EXCEPT ![p] = Append(@, r)]
        /\ sqOp' = [sqOp EXCEPT ![p] = "none"]
        /\ UNCHANGED <<pc, synced, wr, rq>>
    BY <1>3 DEF Complete, tcpVars
  <2>2. cq[p] = <<>>
    BY <1>3, CqFull DEF QueueInv
  <2>3. r \in Completions /\ r.op = sqOp[p]
    BY <1>0, <1>3 DEF Completions
  <2>4. cq'[p] # <<>> /\ Head(cq'[p]).op = sqOp[p] /\ Len(cq'[p]) = 1
    <3>1. cq[p] \in Seq(Completions) /\ Len(cq[p]) = 0 /\ cq'[p] = Append(cq[p], r)
      BY <1>0, <2>1, <2>2
    <3> QED
      BY <2>2, <2>3, <3>1, QueueFacts
  <2>5. CqFits'
    <3>1. \A q \in Procs : q # p => cq'[q] = cq[q] /\ rq'[q] = rq[q] /\ sqOp'[q] = sqOp[q]
      BY <1>0, <2>1 DEF Procs
    <3>2. Len(cq[p]) + rq[p] + (IF sqOp[p] = "none" THEN 0 ELSE 1) <= 1
      BY DEF QueueInv, CqFits
    <3>3. Len(cq[p]) = 0 /\ sqOp'[p] = "none"
      BY <1>0, <2>1, <2>2
    <3>4. Len(cq'[p]) + rq'[p] + (IF sqOp'[p] = "none" THEN 0 ELSE 1) <= 1
      BY <1>0, <1>3, <2>1, <2>4, <3>2, <3>3
    <3> QED
      BY <3>1, <3>4, CqOne DEF QueueInv
  <2>6. CASE p = "server"
    <3>1. sqOp["server"] = "SEND" /\ pc["server"] \in {"poll1", "destroy_qp"}
      BY <1>0, <1>3, <2>6 DEF RecvInv, QueueInv, Idle
    <3>2. sqOp'["server"] = "none" /\ cq'["client"] = cq["client"]
          /\ sqOp'["client"] = sqOp["client"]
      BY <1>0, <2>1, <2>6
    <3> QED
      BY <2>1, <2>4, <2>5, <2>6, <3>1, <3>2 DEF QueueInv, Idle
  <2>7. CASE p = "client"
    <3>1. pc["client"] \in {"poll2", "poll3", "destroy_qp"}
      BY <1>0, <1>3, <2>7 DEF RecvInv, QueueInv, Idle
    <3>2. sqOp'["client"] = "none" /\ cq'["server"] = cq["server"]
          /\ sqOp'["server"] = sqOp["server"]
      BY <1>0, <2>1, <2>7
    <3> QED
      BY <1>3, <2>1, <2>4, <2>5, <2>7, <3>1, <3>2 DEF QueueInv, Idle, ClientWaits
  <2> QED
    BY <1>0, <2>6, <2>7
<1>4. CASE HcaAck(p)
  BY <1>4, <1>3 DEF HcaAck
<1>5. CASE HcaFail(p)
  BY <1>5, <1>3 DEF HcaFail
<1> QED
  BY <1>1, <1>2, <1>4, <1>5 DEF Adapter

\* Every step keeps QueueInv.
LEMMA QueueStep == TypeOK /\ SyncInv /\ RecvInv /\ QueueInv /\ [Next]_vars => QueueInv'
<1> SUFFICES ASSUME TypeOK, SyncInv, RecvInv, QueueInv, [Next]_vars PROVE QueueInv'
  OBVIOUS
<1>1. CASE UNCHANGED vars
  BY <1>1 DEF vars, QueueInv, CqFits, Idle
<1>2. CASE sock_accept_fails
  <2>1. /\ pc["server"] = "accept" /\ pc' = [pc EXCEPT !["server"] = "destroy_qp"]
        /\ UNCHANGED <<rq, sqOp, cq, synced, wr>>
    BY <1>2 DEF sock_accept_fails, Fail, Goto, ibVars
  <2> QED
    BY <2>1, QueueQuiet, LabelType DEF Procs, PollLabels
<1>3. ASSUME NEW p \in Procs, killed(p) PROVE QueueInv'
  <2>1. DropQp(p) /\ pc' = [pc EXCEPT ![p] = "killed"] /\ UNCHANGED <<synced, wr>>
    BY <1>3 DEF killed, Goto
  <2>2. CqFits'
    <3>1. \A q \in Procs : q # p => cq'[q] = cq[q] /\ rq'[q] = rq[q] /\ sqOp'[q] = sqOp[q]
      BY <2>1 DEF DropQp, TypeOK
    <3>2. cq'[p] = <<>> /\ rq'[p] = 0 /\ sqOp'[p] = "none"
      BY <2>1 DEF DropQp, TypeOK
    <3>3. Len(cq'[p]) = 0
      BY <3>2
    <3> QED
      BY <3>1, <3>2, <3>3 DEF CqFits, QueueInv
  <2> QED
    BY <2>1, <2>2 DEF DropQp, QueueInv, Idle, ClientWaits, TypeOK, Procs
<1> QED
  BY <1>1, <1>2, <1>3, QueueProcess, QueueAdapter DEF Next, Halted

\* The queues are empty at first.
LEMMA QueueInit == Init => QueueInv
<1>1. Len(<<>>) = 0
  OBVIOUS
<1> QED
  BY <1>1 DEF Init, QueueInv, CqFits, Idle, Procs, ClientWaits

\* The completion a poll takes is that of the request it waits for.
LEMMA MatchEnough == TypeOK /\ RecvInv /\ QueueInv => CompletionMatches
<1> SUFFICES ASSUME RecvInv, QueueInv, NEW p \in Procs, pc[p] \in PollLabels, cq[p] # <<>>
             PROVE  Head(cq[p]).op = Awaited(p)
  BY DEF CompletionMatches
<1>1. CASE p = "server"
  <2>1. pc["server"] = "poll1"
    BY <1>1 DEF RecvInv, PollLabels
  <2> QED
    BY <1>1, <2>1 DEF QueueInv, Awaited
<1>2. CASE p = "client"
  BY <1>2 DEF QueueInv, Awaited, PollLabels, ClientWaits
<1> QED
  BY <1>1, <1>2 DEF Procs

\* A process that uses its buffer has nothing posted, and an RDMA request of
\* the client needs the server between its third and its fourth exchange.
LEMMA QuietEnough == TypeOK /\ SyncInv /\ RecvInv /\ QueueInv => BufferQuiet
<1> SUFFICES ASSUME TypeOK, SyncInv, RecvInv, QueueInv, NEW p \in Procs,
                    pc[p] \in {"use1", "use2", "finish"}
             PROVE  /\ sqOp[p] = "none" /\ rq[p] = 0
                    /\ sqOp[Peer(p)] \notin {"RDMA_READ", "RDMA_WRITE"}
  BY DEF BufferQuiet
<1>1. Idle(p)
  BY DEF QueueInv, Procs, ClientWaits
<1>2. CASE p = "client"
  BY <1>1, <1>2 DEF Idle, Peer, RecvInv
<1>3. CASE p = "server"
  <2>1. SUFFICES ASSUME sqOp["client"] # "none" PROVE FALSE
    BY <1>1, <1>3 DEF Idle, Peer
  <2>2. synced["client"] = 3 /\ wr["client"] = Bytes(3)
    BY <2>1 DEF QueueInv
  <2>3. pc["server"] \in {"use1", "finish"}
    BY <1>3 DEF RecvInv
  <2>4. synced["server"] \in {2, 4} /\ wr["server"] = Bytes(synced["server"])
        /\ (pc["server"] = "use1" => synced["server"] = 2)
        /\ rd["server"] >= Bytes(synced["server"]) /\ rd["server"] <= wr["client"]
        /\ rd["client"] >= Bytes(3) /\ rd["client"] <= wr["server"]
    BY <2>2, <2>3 DEF SyncInv, SyncInvOf, Procs, Peer, Round, ReadLabels, ExitLabels
  <2>5. rd["server"] \in Nat /\ rd["client"] \in Nat
    BY DEF TypeOK, Procs
  <2> QED
    BY <2>2, <2>3, <2>4, <2>5, ConLenAssumption DEF Bytes
<1> QED
  BY <1>2, <1>3 DEF Procs

\* All invariants up to QueueInv together.
LEMMA QueueAlways == Spec => [](TypeOK /\ SyncInv /\ RecvInv /\ QueueInv)
BY TypeCorrect, SyncInit, SyncStep, RecvInit, RecvStep, QueueInit, QueueStep, PTL DEF Spec

\* The completion queue of one entry that resources_create makes is never asked
\* for a second entry, whatever fails.
THEOREM CqFitsAlways == Spec => []CqFits
<1>1. QueueInv => CqFits
  BY DEF QueueInv
<1> QED
  BY <1>1, QueueAlways, PTL

\* poll_completion, which looks neither at wr_id nor at opcode, always gets the
\* completion its caller waits for.
THEOREM CompletionMatchesAlways == Spec => []CompletionMatches
BY QueueAlways, MatchEnough, PTL

\* rcmain never uses its buffer while a request under way may use it too.
THEOREM BufferQuietAlways == Spec => []BufferQuiet
BY QueueAlways, QuietEnough, PTL

-----------------------------------------------------------------------------
(* What is printed is what the other side put there                         *)

\* A client that has completed its third exchange has seen the server's third
\* write, a server that has completed its fourth the client's fourth, and who
\* has written for the fourth time has completed three exchanges.
LEMMA PhaseFacts ==
    ASSUME TypeOK, SyncInv
    PROVE  /\ synced["client"] >= 3 => wr["server"] >= Bytes(3)
           /\ synced["server"] = 4 => wr["client"] >= Bytes(4)
           /\ wr["client"] >= Bytes(4) => synced["client"] >= 3
           /\ wr["server"] >= Bytes(3) => synced["server"] >= 2
           /\ synced["server"] \in Nat /\ synced["client"] \in Nat
<1>1. /\ \A p \in {"server", "client"} : /\ wr[p] \in Nat /\ rd[p] \in Nat
                                         /\ synced[p] \in 0..4
                                         /\ rd[p] >= Bytes(synced[p])
                                         /\ wr[p] = Bytes(synced[p]) \/ wr[p] = Bytes(synced[p] + 1)
      /\ rd["client"] <= wr["server"] /\ rd["server"] <= wr["client"]
  BY DEF TypeOK, SyncInv, SyncInvOf, Procs, Peer
<1>2. synced["client"] \in 0..4 /\ synced["server"] \in 0..4
  BY <1>1
<1>3. ASSUME synced["client"] >= 3 PROVE wr["server"] >= Bytes(3)
  BY <1>1, <1>2, <1>3, ConLenAssumption DEF Bytes
<1>4. ASSUME synced["server"] = 4 PROVE wr["client"] >= Bytes(4)
  BY <1>1, <1>2, <1>4, ConLenAssumption DEF Bytes
<1>5. ASSUME wr["client"] >= Bytes(4) PROVE synced["client"] >= 3
  BY <1>1, <1>2, <1>5, ConLenAssumption DEF Bytes
<1>6. ASSUME wr["server"] >= Bytes(3) PROVE synced["server"] >= 2
  BY <1>1, <1>2, <1>6, ConLenAssumption DEF Bytes
<1> QED
  BY <1>2, <1>3, <1>4, <1>5, <1>6

\* While the server is in its first two exchanges or before its third write,
\* the client has neither posted its RDMA requests nor written a fourth time.
LEMMA ServerEarly ==
    ASSUME TypeOK, SyncInv, RecvInv, QueueInv, pc["server"] \in ServerFull \cup {"create"}
    PROVE  /\ wr["server"] < Bytes(3)
           /\ sqOp["client"] = "none" /\ pc["client"] \notin {"poll3", "w_write"}
           /\ wr["client"] < Bytes(4)
<1>1. wr["server"] \in Nat /\ wr["client"] \in Nat /\ Bytes(3) \in Nat /\ Bytes(4) \in Nat
  BY ConLenAssumption DEF TypeOK, Procs, Bytes
<1>2. /\ synced["server"] = 0 \/ synced["server"] = 1 \/ synced["server"] = 2
      /\ wr["server"] = Bytes(synced["server"]) \/ wr["server"] = Bytes(synced["server"] + 1)
      /\ synced["server"] = 2 => wr["server"] = Bytes(2)
  BY DEF ServerFull, SyncInv, SyncInvOf, Procs, Round, ReadLabels, ExitLabels
<1>3. wr["server"] < Bytes(3)
  <2>1. wr["server"] = 0 \/ wr["server"] = ConLen \/ wr["server"] = ConLen + 1
    BY <1>2, ConLenAssumption DEF Bytes
  <2> QED
    BY <2>1, ConLenAssumption DEF Bytes
<1>4. ~(synced["client"] >= 3)
  BY <1>1, <1>3, PhaseFacts
<1>5. sqOp["client"] = "none"
  BY <1>4 DEF QueueInv
<1>6. pc["client"] \in {"poll3", "w_write"} => synced["client"] = 3
  BY DEF SyncInv, SyncInvOf, Procs, Round, ExitLabels
<1> QED
  BY <1>1, <1>3, <1>4, <1>5, <1>6, PhaseFacts

\* A step of p that touches neither buffers nor send queues nor completions and
\* does not begin an exchange.
LEMMA DataQuiet ==
    ASSUME TypeOK, DataInv, NEW p \in Procs, NEW l,
           pc' = [pc EXCEPT ![p] = l], UNCHANGED <<sqOp, sqAt, cq, buf, shown, wr>>,
           p = "server" => (l \in ServerFull => pc[p] \in ServerFull) /\ l # "r_write",
           p = "client" =>
               /\ l \notin {"use1", "poll2", "use2", "post_write", "poll3", "w_write"}
               /\ l \in ClientWaits => pc[p] \in ClientWaits \/ cq[p] = <<>>
               /\ pc[p] \in ClientLate => l \in ClientLate
    PROVE  DataInv'
<1>1. pc \in [{"server", "client"} -> Labels] /\ p \in {"server", "client"}
  BY DEF TypeOK, Procs
<1> USE DEF DataInv, Arrived, ShownRight
<1>2. CASE p = "server"
  BY <1>1, <1>2
<1>3. CASE p = "client"
  BY <1>1, <1>3
<1> QED
  BY <1>1, <1>2, <1>3

\* A step that takes p to its end and drops its queues.
LEMMA DataDrop ==
    ASSUME TypeOK, DataInv, NEW p \in Procs, NEW l \in ExitLabels,
           pc' = [pc EXCEPT ![p] = l], DropQp(p), UNCHANGED <<buf, shown, wr>>
    PROVE  DataInv'
<1>1. /\ pc \in [{"server", "client"} -> Labels] /\ p \in {"server", "client"}
      /\ cq \in [{"server", "client"} -> Seq(Completions)]
      /\ sqOp \in [{"server", "client"} -> Ops \cup {"none"}]
      /\ sqAt \in [{"server", "client"} -> {"empty", "posted", "executed"}]
  BY DEF TypeOK, Procs
<1>2. /\ sqOp' = [sqOp EXCEPT ![p] = "none"]
      /\ sqAt' = [sqAt EXCEPT ![p] = "empty"]
      /\ cq' = [cq EXCEPT ![p] = <<>>]
  BY DEF DropQp
<1> USE DEF DataInv, Arrived, ShownRight, ExitLabels, ServerFull, ClientWaits, ClientLate
<1>3. CASE p = "server"
  BY <1>1, <1>2, <1>3
<1>4. CASE p = "client"
  BY <1>1, <1>2, <1>4
<1> QED
  BY <1>1, <1>3, <1>4

\* Every step of a running process keeps DataInv.
LEMMA DataProcess ==
    ASSUME TypeOK, SyncInv, RecvInv, QueueInv, DataInv, NEW p \in Procs, Process(p)
    PROVE  DataInv'
<1>0. /\ p \in {"server", "client"}
      /\ pc \in [{"server", "client"} -> Labels]
      /\ wr \in [{"server", "client"} -> Nat]
      /\ cq \in [{"server", "client"} -> Seq(Completions)]
      /\ sqOp \in [{"server", "client"} -> Ops \cup {"none"}]
      /\ sqAt \in [{"server", "client"} -> {"empty", "posted", "executed"}]
      /\ buf \in [{"server", "client"} -> Contents]
      /\ shown \in [{"message", "contents", "final"} -> Contents \cup {"none"}]
  BY DEF Procs, TypeOK
<1>a. ASSUME Fail(p), UNCHANGED <<sqOp, sqAt, cq, buf, shown, wr>>
      PROVE  DataInv'
  BY <1>a, DataQuiet DEF Fail, Goto, ServerFull, ClientWaits, ClientLate, ExitLabels
<1>b. ASSUME NEW l, Goto(p, l), UNCHANGED <<sqOp, sqAt, cq, buf, shown, wr>>,
             p = "server" => (l \in ServerFull => pc[p] \in ServerFull) /\ l # "r_write",
             p = "client" =>
               /\ l \notin {"use1", "poll2", "use2", "post_write", "poll3", "w_write"}
               /\ l \in ClientWaits => pc[p] \in ClientWaits \/ cq[p] = <<>>
               /\ pc[p] \in ClientLate => l \in ClientLate
      PROVE  DataInv'
  BY <1>b, DataQuiet DEF Goto
<1> USE DEF ServerFull, ClientWaits, ClientLate, ExitLabels
<1>1. CASE p = "server" /\ (sock_listen \/ sock_accept)
  BY <1>b, <1>1 DEF sock_listen, sock_accept, ibVars, memVars
<1>2. CASE p = "client" /\ sock_connect
  BY <1>b, <1>2 DEF sock_connect, ibVars, memVars
<1>3. CASE p = "client" /\ sock_connect_fails
  BY <1>a, <1>3 DEF sock_connect_fails, tcpVars, ibVars, memVars
<1>4. CASE sock_sync_write(p)
  <2>1. /\ wr[p] = Bytes(synced[p]) /\ wr'[p] = Bytes(synced[p] + 1) /\ synced[p] \in 0..3
        /\ synced[p] = Round(pc[p])
    <3>1. synced[p] \in 0..4 /\ synced[p] = Round(pc[p])
      BY <1>4 DEF SyncInv, SyncInvOf, sock_sync_write, WriteLabels
    <3> QED
      BY <1>0, <1>4, <3>1, WriteEffect
  <2>2. /\ pc[p] \in WriteLabels /\ UNCHANGED <<sqOp, sqAt, cq, buf, shown>>
        /\ wr' = [wr EXCEPT ![p] = wr'[p]]
        /\ pc' = [pc EXCEPT ![p] = ReadAfterWrite(pc[p])]
    BY <1>0, <1>4 DEF sock_sync_write, Goto, ibVars, memVars
  <2>3. /\ pc'[p] \in ReadLabels /\ Round(pc'[p]) = Round(pc[p])
        /\ pc[p] = "w_write" <=> Round(pc[p]) = 3
        /\ pc[p] = "r_write" <=> Round(pc[p]) = 2
        /\ pc'[p] \in ServerFull => pc[p] \in ServerFull
        /\ pc'[p] \in ClientWaits => pc[p] \in ClientWaits
        /\ pc[p] \in ClientLate => pc'[p] \in ClientLate
    BY <1>0, <2>2 DEF WriteLabels, ReadAfterWrite, ReadLabels, Round
  <2>4. \A k \in {3, 4} : wr'[p] >= Bytes(k) =>
            wr[p] >= Bytes(k) \/ Round(pc[p]) = k - 1
    <3>1. CASE synced[p] = 0
      BY <2>1, <3>1, ConLenAssumption DEF Bytes
    <3>2. CASE synced[p] = 1
      BY <2>1, <3>2, ConLenAssumption DEF Bytes
    <3>3. CASE synced[p] = 2
      BY <2>1, <3>3, ConLenAssumption DEF Bytes
    <3>4. CASE synced[p] = 3
      BY <2>1, <3>4, ConLenAssumption DEF Bytes
    <3> QED
      BY <2>1, <3>1, <3>2, <3>3, <3>4
  <2>5. CASE p = "server"
    <3>1. wr'["server"] >= Bytes(3) => wr["server"] >= Bytes(3) \/ pc["server"] = "r_write"
      BY <2>3, <2>4, <2>5
    <3>2. pc'["client"] = pc["client"] /\ wr'["client"] = wr["client"]
      BY <1>0, <2>2, <2>5
    <3>3. pc'["server"] # "r_write"
      BY <2>3, <2>5 DEF ReadLabels
    <3> QED
      BY <2>2, <2>3, <2>5, <3>1, <3>2, <3>3 DEF DataInv, Arrived, ShownRight
  <2>6. CASE p = "client"
    <3>1. wr'["client"] >= Bytes(4) => wr["client"] >= Bytes(4) \/ pc["client"] = "w_write"
      BY <2>3, <2>4, <2>6
    <3>2. pc'["server"] = pc["server"] /\ wr'["server"] = wr["server"]
      BY <1>0, <2>2, <2>6
    <3>3. pc'["client"] \notin {"use1", "poll2", "use2", "post_write", "poll3", "w_write"}
      BY <2>3, <2>6 DEF ReadLabels
    <3> QED
      BY <2>2, <2>3, <2>6, <3>1, <3>2, <3>3 DEF DataInv, Arrived, ShownRight
  <2> QED
    BY <1>0, <2>5, <2>6
<1>5. CASE sock_sync_assert(p)
  BY <1>5, DataDrop DEF sock_sync_assert, Goto, memVars
<1>6. CASE sock_sync_read(p)
  <2>1. pc[p] \in ReadLabels /\ UNCHANGED <<sqOp, sqAt, cq, buf, shown, wr>>
    BY <1>6 DEF sock_sync_read, ibVars, memVars
  <2>2. CASE pc' = pc
    BY <2>1, <2>2 DEF DataInv, Arrived, ShownRight
  <2>3. CASE Goto(p, AfterRead(p))
    <3>1. p = "server" => /\ AfterRead(p) \in {"to_init", "send", "w_write", "finish"}
                          /\ AfterRead(p) \in ServerFull => pc[p] \in ServerFull
      BY <2>1 DEF ReadLabels, AfterRead
    <3>2. p = "client" => /\ AfterRead(p) \in {"to_init", "poll1", "post_read", "finish"}
                          /\ AfterRead(p) \in ClientWaits => pc[p] \in ClientWaits
                          /\ pc[p] \in ClientLate => AfterRead(p) = "finish"
      BY <2>1 DEF ReadLabels, AfterRead
    <3> QED
      BY <1>b, <2>1, <2>3, <3>1, <3>2
  <2> QED
    BY <1>6, <2>2, <2>3 DEF sock_sync_read
<1>7. CASE sock_sync_reset(p)
  BY <1>a, <1>7 DEF sock_sync_reset, tcpVars, ibVars, memVars
<1>8. CASE sock_sync_eof(p)
  BY <1>8 DEF sock_sync_eof, vars, DataInv, Arrived, ShownRight
<1>9. CASE resources_create(p)
  <2>1. /\ pc[p] = "create" /\ pc' = [pc EXCEPT ![p] = "con_write"]
        /\ buf' = [buf EXCEPT ![p] = IF p = "server" THEN "MSG" ELSE "zero"]
        /\ UNCHANGED <<wr, sqOp, sqAt, cq, shown>>
    BY <1>9 DEF resources_create, Goto, tcpVars
  <2>2. Idle(p)
    BY <1>0, <2>1 DEF QueueInv
  <2>3. CASE p = "server"
    <3>1. /\ wr["server"] < Bytes(3) /\ wr["client"] < Bytes(4)
          /\ pc["client"] \notin {"poll3", "w_write"}
      BY <2>1, <2>3, ServerEarly
    <3>2. /\ ~(wr["server"] >= Bytes(3)) /\ ~(wr["client"] >= Bytes(4))
      BY <1>0, <3>1, ConLenAssumption DEF Bytes
    <3> QED
      BY <1>0, <2>1, <2>3, <3>1, <3>2 DEF DataInv, Arrived, ShownRight
  <2>4. CASE p = "client"
    BY <1>0, <2>1, <2>2, <2>4 DEF DataInv, Arrived, ShownRight, Idle
  <2> QED
    BY <1>0, <2>3, <2>4
<1>10. CASE resources_create_exit(p)
  BY <1>a, <1>10 DEF resources_create_exit, ibVars, memVars
<1>11. CASE modify_qp_to_init(p)
  BY <1>0, <1>b, <1>11 DEF modify_qp_to_init, modify_qp, tcpVars, memVars
<1>12. CASE modify_qp_rtr(p)
  BY <1>b, <1>12 DEF modify_qp_rtr, modify_qp, tcpVars, memVars
<1>13. CASE modify_qp_rts(p)
  BY <1>b, <1>13 DEF modify_qp_rts, modify_qp, tcpVars, memVars
<1>14. CASE post_recv(p)
  <2>1. p = "client" /\ cq["client"] = <<>>
    BY <1>0, <1>14 DEF post_recv, RecvInv, QueueInv, Idle
  <2> QED
    BY <1>b, <1>14, <2>1 DEF post_recv, tcpVars, memVars
<1>15. CASE post_send(p)
  <2>1. /\ pc[p] \in SendLabels
        /\ sqOp' = [sqOp EXCEPT ![p] = OpPosted(pc[p])]
        /\ sqAt' = [sqAt EXCEPT ![p] = "posted"]
        /\ pc' = [pc EXCEPT ![p] = PollAfterPost(pc[p])]
        /\ UNCHANGED <<cq, wr, buf, shown>>
    BY <1>15 DEF post_send, Goto, tcpVars, memVars
  <2>2. Idle(p)
    BY <1>0, <2>1 DEF QueueInv, SendLabels
  <2>3. CASE p = "server"
    <3>1. pc["server"] = "send"
      BY <2>1, <2>3 DEF SendLabels, RecvInv
    <3>2. pc'["server"] = "poll1" /\ pc'["client"] = pc["client"]
          /\ sqOp'["client"] = sqOp["client"] /\ sqAt'["client"] = sqAt["client"]
      BY <1>0, <2>1, <2>3, <3>1 DEF PollAfterPost
    <3> QED
      BY <2>1, <3>1, <3>2 DEF DataInv, Arrived, ShownRight
  <2>4. CASE p = "client"
    <3>1. pc["client"] \in {"post_read", "post_write"}
      BY <2>1, <2>4 DEF SendLabels, RecvInv
    <3>2. /\ pc'["server"] = pc["server"] /\ sqOp'["server"] = sqOp["server"]
          /\ ~Arrived'
      BY <1>0, <2>1, <2>2, <2>4 DEF Arrived, Idle
    <3>3. CASE pc["client"] = "post_read"
      <4>1. pc'["client"] = "poll2" /\ sqOp'["client"] = "RDMA_READ"
        BY <1>0, <2>1, <2>4, <3>3 DEF PollAfterPost, OpPosted
      <4>2. buf["server"] # "RDMAMSGW"
        BY <3>3 DEF DataInv
      <4> QED
        BY <2>1, <3>2, <4>1, <4>2 DEF DataInv, ShownRight
    <3>4. CASE pc["client"] = "post_write"
      <4>1. pc'["client"] = "poll3" /\ sqOp'["client"] = "RDMA_WRITE"
        BY <1>0, <2>1, <2>4, <3>4 DEF PollAfterPost, OpPosted
      <4> QED
        BY <2>1, <3>2, <3>4, <4>1 DEF DataInv, ShownRight
    <3> QED
      BY <3>1, <3>3, <3>4
  <2> QED
    BY <1>0, <2>3, <2>4
<1>16. CASE poll_completion(p)
  <2>1. /\ pc[p] \in PollLabels /\ cq[p] # <<>>
        /\ cq' = [cq EXCEPT ![p] = Tail(cq[p])]
        /\ \/ pc' = [pc EXCEPT ![p] = AfterPoll(pc[p])] /\ Head(cq[p]).status = "SUCCESS"
           \/ pc' = [pc EXCEPT ![p] = "destroy_qp"]
        /\ UNCHANGED <<wr, sqOp, sqAt, buf, shown>>
    BY <1>16 DEF poll_completion, Goto, tcpVars, memVars
  <2>2. Tail(cq[p]) = <<>> /\ sqOp[p] = "none"
    BY <2>1, CqFull DEF QueueInv
  <2>3. CASE p = "server"
    <3>1. pc["server"] = "poll1"
      BY <2>1, <2>3 DEF PollLabels, RecvInv
    <3>2. /\ pc'["server"] \in {"use1", "destroy_qp"}
          /\ pc'["client"] = pc["client"] /\ cq'["client"] = cq["client"]
      BY <1>0, <2>1, <2>3, <3>1 DEF AfterPoll
    <3> QED
      BY <2>1, <3>1, <3>2 DEF DataInv, Arrived, ShownRight
  <2>4. CASE p = "client"
    <3>1. pc'["server"] = pc["server"] /\ cq'["client"] = <<>>
      BY <1>0, <2>1, <2>2, <2>4
    <3>2. \/ pc'["client"] = "destroy_qp"
          \/ pc["client"] = "poll1" /\ pc'["client"] = "use1"
          \/ pc["client"] = "poll2" /\ pc'["client"] = "use2" /\ Arrived
          \/ pc["client"] = "poll3" /\ pc'["client"] = "w_write" /\ Arrived
      BY <1>0, <2>1, <2>4 DEF AfterPoll, PollLabels, Arrived
    <3> QED
      BY <2>1, <2>2, <2>4, <3>1, <3>2 DEF DataInv, ShownRight
  <2> QED
    BY <1>0, <2>3, <2>4
<1>17. CASE verbs_fails(p)
  BY <1>a, <1>17 DEF verbs_fails, tcpVars, ibVars, memVars
<1>18. CASE first_use(p)
  <2>1. /\ pc[p] = "use1" /\ pc' = [pc EXCEPT ![p] = "r_write"]
        /\ UNCHANGED <<wr, sqOp, sqAt, cq>>
    BY <1>18 DEF first_use, Goto, tcpVars, ibVars
  <2>2. Idle(p)
    BY <1>0, <2>1 DEF QueueInv
  <2>3. CASE p = "server"
    <3>1. /\ wr["server"] < Bytes(3) /\ wr["client"] < Bytes(4)
          /\ pc["client"] \notin {"poll3", "w_write"}
      BY <2>1, <2>3, ServerEarly
    <3>2. ~(wr["client"] >= Bytes(4))
      BY <1>0, <3>1, ConLenAssumption DEF Bytes
    <3>3. buf' = [buf EXCEPT !["server"] = "RDMAMSGR"] /\ UNCHANGED shown
      BY <1>18, <2>3 DEF first_use
    <3> QED
      BY <1>0, <2>1, <2>2, <2>3, <3>1, <3>2, <3>3 DEF DataInv, Arrived, ShownRight, Idle
  <2>4. CASE p = "client"
    <3>1. shown' = [shown EXCEPT !["message"] = buf["client"]] /\ UNCHANGED buf
      BY <1>18, <2>4 DEF first_use
    <3>2. buf["client"] = "MSG"
      BY <2>1, <2>4 DEF DataInv
    <3>3. ShownRight'
      BY <1>0, <3>1, <3>2 DEF DataInv, ShownRight
    <3>4. pc'["client"] = "r_write" /\ pc'["server"] = pc["server"]
      BY <1>0, <2>1, <2>4
    <3> QED
      BY <2>1, <2>4, <3>1, <3>3, <3>4 DEF DataInv, Arrived
  <2> QED
    BY <1>0, <2>3, <2>4
<1>19. CASE second_use(p)
  <2>1. /\ pc[p] = "use2" /\ pc' = [pc EXCEPT ![p] = "post_write"]
        /\ shown' = [shown EXCEPT !["contents"] = buf[p]]
        /\ buf' = [buf EXCEPT ![p] = "RDMAMSGW"]
        /\ UNCHANGED <<wr, sqOp, sqAt, cq>>
    BY <1>19 DEF second_use, Goto, tcpVars, ibVars
  <2>2. p = "client" /\ buf["client"] = "RDMAMSGR"
    BY <1>0, <2>1 DEF RecvInv, DataInv
  <2>3. ShownRight'
    BY <1>0, <2>1, <2>2 DEF DataInv, ShownRight
  <2>4. /\ pc'["client"] = "post_write" /\ pc'["server"] = pc["server"]
        /\ buf'["client"] = "RDMAMSGW" /\ buf'["server"] = buf["server"]
    BY <1>0, <2>1, <2>2
  <2> QED
    BY <2>1, <2>2, <2>3, <2>4 DEF DataInv, Arrived
<1>20. CASE finish(p)
  <2>1. /\ pc[p] = "finish" /\ pc' = [pc EXCEPT ![p] = "destroy_qp"]
        /\ shown' = IF p = "server" THEN [shown EXCEPT !["final"] = buf[p]] ELSE shown
        /\ UNCHANGED <<wr, sqOp, sqAt, cq, buf>>
    BY <1>20 DEF finish, Goto, tcpVars, ibVars
  <2>2. ShownRight'
    <3>1. CASE p = "server"
      <4>1. synced["server"] = 4
        BY <2>1, <3>1 DEF SyncInv, SyncInvOf, Procs, Round
      <4>2. buf["server"] = "RDMAMSGW"
        BY <4>1, PhaseFacts DEF DataInv
      <4> QED
        BY <1>0, <2>1, <3>1, <4>2 DEF DataInv, ShownRight
    <3>2. CASE p # "server"
      BY <2>1, <3>2 DEF DataInv, ShownRight
    <3> QED
      BY <3>1, <3>2
  <2>3. /\ pc'[p] = "destroy_qp" /\ \A q \in {"server", "client"} : q # p => pc'[q] = pc[q]
    BY <1>0, <2>1
  <2> QED
    BY <1>0, <2>1, <2>2, <2>3 DEF DataInv, Arrived
<1>21. CASE destroy_qp(p)
  BY <1>21, DataDrop DEF destroy_qp, Goto, tcpVars, memVars
<1>22. CASE close_sock(p)
  BY <1>b, <1>22 DEF close_sock, ibVars, memVars
<1> QED
  BY <1>1, <1>2, <1>3, <1>4, <1>5, <1>6, <1>7, <1>8, <1>9, <1>10, <1>11, <1>12, <1>13,
     <1>14, <1>15, <1>16, <1>17, <1>18, <1>19, <1>20, <1>21, <1>22 DEF Process, Connect

\* Every step of an adapter keeps DataInv: a request moves the content its
\* sender's buffer has in that phase.
LEMMA DataAdapter ==
    ASSUME TypeOK, SyncInv, RecvInv, QueueInv, DataInv, NEW p \in Procs, Adapter(p)
    PROVE  DataInv'
<1>0. /\ p \in {"server", "client"}
      /\ rq \in [{"server", "client"} -> Nat]
      /\ cq \in [{"server", "client"} -> Seq(Completions)]
      /\ sqOp \in [{"server", "client"} -> Ops \cup {"none"}]
      /\ sqAt \in [{"server", "client"} -> {"empty", "posted", "executed"}]
      /\ buf \in [{"server", "client"} -> Contents]
  BY DEF Procs, TypeOK
<1>1. CASE HcaSend(p)
  <2>1. /\ sqOp[p] = "SEND" /\ rq[Peer(p)] > 0
        /\ UNCHANGED <<pc, wr, sqOp, shown>>
        /\ buf' = [buf EXCEPT ![Peer(p)] = buf[p]]
        /\ sqAt' = [sqAt EXCEPT ![p] = "executed"]
    BY <1>1 DEF HcaSend, Pending, Executed, tcpVars
  <2>2. p = "server" /\ Peer(p) = "client"
    BY <1>0, <2>1 DEF Peer, RecvInv
  <2>3. buf' = [buf EXCEPT !["client"] = "MSG"]
    BY <2>1, <2>2 DEF DataInv
  <2>4. sqOp["client"] = "none"
    <3>1. /\ Len(cq["client"]) + rq["client"] + (IF sqOp["client"] = "none" THEN 0 ELSE 1) <= 1
          /\ Len(cq["client"]) \in Nat /\ rq["client"] \in Nat /\ rq["client"] # 0
      BY <1>0, <2>1, <2>2 DEF QueueInv, CqFits, Procs
    <3>2. CASE sqOp["client"] # "none"
      <4>1. Len(cq["client"]) + rq["client"] + 1 <= 1
        BY <3>1, <3>2
      <4> QED
        BY <3>1, <4>1
    <3> QED
      BY <3>2
  <2>5. pc["client"] \in ClientWaits \cup {"destroy_qp"}
    BY <2>1, <2>2 DEF QueueInv, Idle
  <2> QED
    BY <1>0, <2>1, <2>3, <2>4, <2>5 DEF DataInv, ShownRight, ClientWaits
<1>2. CASE HcaRead(p)
  <2>1. /\ sqOp[p] = "RDMA_READ"
        /\ UNCHANGED <<pc, wr, sqOp, cq, shown>>
        /\ buf' = [buf EXCEPT ![p] = buf[Peer(p)]]
        /\ sqAt' = [sqAt EXCEPT ![p] = "executed"]
    BY <1>2 DEF HcaRead, Pending, Executed, tcpVars
  <2>2. p = "client" /\ Peer(p) = "server"
    BY <1>0, <2>1 DEF Peer, RecvInv
  <2>3. buf["server"] = "RDMAMSGR"
    <3>1. synced["client"] >= 3
      BY <2>1, <2>2 DEF QueueInv
    <3> QED
      BY <2>1, <2>2, <3>1, PhaseFacts DEF DataInv
  <2>4. pc["client"] \in {"poll2", "destroy_qp"}
    BY <2>1, <2>2 DEF QueueInv, RecvInv, Idle
  <2>5. buf'["client"] = "RDMAMSGR" /\ buf'["server"] = buf["server"]
    BY <1>0, <2>1, <2>2, <2>3
  <2> QED
    BY <2>1, <2>2, <2>3, <2>4, <2>5 DEF DataInv, ShownRight, ClientWaits
<1>3. CASE HcaWrite(p)
  <2>1. /\ sqOp[p] = "RDMA_WRITE"
        /\ UNCHANGED <<pc, wr, sqOp, cq, shown>>
        /\ buf' = [buf EXCEPT ![Peer(p)] = buf[p]]
        /\ sqAt' = [sqAt EXCEPT ![p] = "executed"]
    BY <1>3 DEF HcaWrite, Pending, Executed, tcpVars
  <2>2. p = "client" /\ Peer(p) = "server"
    BY <1>0, <2>1 DEF Peer, RecvInv
  <2>3. buf'["server"] = "RDMAMSGW" /\ buf'["client"] = buf["client"]
    BY <1>0, <2>1, <2>2 DEF DataInv
  <2>4. pc["client"] \in {"poll3", "destroy_qp"}
    BY <2>1, <2>2 DEF QueueInv, RecvInv, Idle
  <2>5. pc["server"] \notin ServerFull
    BY <2>1, <2>2, ServerEarly
  <2>6. sqOp["server"] # "SEND"
    <3>1. synced["client"] >= 3
      BY <2>1, <2>2 DEF QueueInv
    <3>2. wr["server"] >= Bytes(3)
      BY <3>1, PhaseFacts
    <3> QED
      BY <3>2, ConLenAssumption DEF QueueInv, Bytes
  <2> QED
    BY <2>1, <2>2, <2>3, <2>4, <2>5, <2>6
       DEF DataInv, ShownRight, ClientWaits, ClientLate, ExitLabels
<1>4. ASSUME NEW s \in {"SUCCESS", "ERROR"}, Complete(p, s), sqOp[p] # "none",
             s = "SUCCESS" => sqAt[p] = "executed"
      PROVE  DataInv'
  <2> DEFINE r == [op |-> sqOp[p], status |-> s]
  <2>1. /\ cq' = [cq EXCEPT ![p] = Append(@, r)]
        /\ sqOp' = [sqOp EXCEPT ![p] = "none"]
        /\ sqAt' = [sqAt EXCEPT ![p] = "empty"]
        /\ UNCHANGED <<pc, wr, buf, shown>>
    BY <1>4 DEF Complete, tcpVars, memVars
  <2>2. CASE p = "server"
    <3>1. /\ sqOp'["client"] = sqOp["client"] /\ sqAt'["client"] = sqAt["client"]
          /\ cq'["client"] = cq["client"] /\ sqOp'["server"] = "none"
      BY <1>0, <2>1, <2>2
    <3> QED
      BY <2>1, <3>1 DEF DataInv, Arrived, ShownRight
  <2>3. CASE p = "client"
    <3>1. pc["client"] \in {"poll2", "poll3", "destroy_qp"}
      BY <1>4, <2>3 DEF QueueInv, RecvInv, Idle
    <3>2. cq["client"] = <<>>
      BY <1>4, <2>3, CqFull DEF QueueInv
    <3>3. Head(cq'["client"]).status = s
      <4>1. r \in Completions /\ r.status = s
        BY <1>0, <1>4 DEF Completions
      <4>2. cq["client"] \in Seq(Completions) /\ cq'["client"] = Append(cq["client"], r)
        BY <1>0, <2>1, <2>3
      <4> QED
        BY <3>2, <4>1, <4>2, QueueFacts
    <3>4. Arrived' => Arrived
      <4>1. Arrived' => s = "SUCCESS"
        BY <1>0, <2>1, <2>3, <3>3 DEF Arrived
      <4> QED
        BY <1>4, <2>3, <4>1 DEF Arrived
    <3>5. sqOp'["client"] = "none" /\ sqOp'["server"] = sqOp["server"]
      BY <1>0, <2>1, <2>3
    <3> QED
      BY <2>1, <3>1, <3>4, <3>5 DEF DataInv, ShownRight, ClientWaits
  <2> QED
    BY <1>0, <2>2, <2>3
<1>5. CASE HcaAck(p)
  BY <1>4, <1>5 DEF HcaAck
<1>6. CASE HcaFail(p)
  BY <1>4, <1>6 DEF HcaFail
<1> QED
  BY <1>1, <1>2, <1>3, <1>5, <1>6 DEF Adapter

\* Every step keeps DataInv.
LEMMA DataStep ==
    TypeOK /\ SyncInv /\ RecvInv /\ QueueInv /\ DataInv /\ [Next]_vars => DataInv'
<1> SUFFICES ASSUME TypeOK, SyncInv, RecvInv, QueueInv, DataInv, [Next]_vars PROVE DataInv'
  OBVIOUS
<1>1. CASE UNCHANGED vars
  BY <1>1 DEF vars, DataInv, Arrived, ShownRight
<1>2. CASE sock_accept_fails
  <2>1. /\ pc' = [pc EXCEPT !["server"] = "destroy_qp"]
        /\ UNCHANGED <<sqOp, sqAt, cq, buf, shown, wr>>
    BY <1>2 DEF sock_accept_fails, Fail, Goto, ibVars, memVars
  <2> QED
    BY <2>1, DataQuiet DEF Procs, ServerFull
<1>3. ASSUME NEW p \in Procs, killed(p) PROVE DataInv'
  <2>1. DropQp(p) /\ pc' = [pc EXCEPT ![p] = "killed"] /\ UNCHANGED <<buf, shown, wr>>
    BY <1>3 DEF killed, Goto, memVars
  <2> QED
    BY <2>1, DataDrop DEF ExitLabels
<1> QED
  BY <1>1, <1>2, <1>3, DataProcess, DataAdapter DEF Next, Halted

\* What rcmain prints of the buffers is what the other side put there, whatever
\* fails and however the two processes and the adapters interleave.
THEOREM ShownRightAlways == Spec => []ShownRight
<1>1. Init => DataInv
  BY ConLenAssumption
     DEF Init, DataInv, Arrived, ShownRight, Procs, ServerFull, ClientWaits, Bytes
<1>2. DataInv => ShownRight
  BY DEF DataInv
<1> QED
  BY <1>1, <1>2, QueueAlways, DataStep, PTL DEF Spec

-----------------------------------------------------------------------------
(* How the two processes end                                                *)

\* The peer of a running process has not aborted.
LEMMA NoAbortedPeer ==
    ASSUME TypeOK, AbortCause, NEW p \in Procs, pc[p] \notin ExitLabels
    PROVE  pc[Peer(p)] # "aborted"
BY DEF AbortCause, Procs, Peer, ExitLabels

\* A process takes a step within its run: the connection of its peer and what
\* its peer has done stay, its own end may only go from FIN to RST by a write.
LEMMA ConnMove ==
    ASSUME TypeOK, ConnInv, NEW p \in Procs, NEW q \in Procs, q = Peer(p), NEW l \in Labels,
           pc' = [pc EXCEPT ![p] = l], pc[p] \notin ExitLabels, l \notin ExitLabels,
           TypeOK',
           wr'[q] = wr[q], synced'[q] = synced[q], conn'[q] = conn[q], UNCHANGED rc,
           wr'[p] >= wr[p],
           synced'[p] = synced[p] \/ synced[p] # 4,
           \/ conn'[p] = conn[p]
           \/ conn'[p] = "finrst" /\ conn[p] = "fin" /\ ResetCause(p, q)'
    PROVE  ConnInv'
<1>1. /\ q # p /\ Peer(q) = p /\ pc'[p] = l /\ pc'[q] = pc[q]
      /\ wr'[p] \in Nat /\ wr[p] \in Nat /\ wr[q] \in Nat
  BY PeerType DEF TypeOK
<1>2. ConnInvOf(p) /\ ConnInvOf(q) /\ AbortCause
  BY DEF ConnInv
<1>3. pc[q] # "aborted"
  BY <1>2, NoAbortedPeer
<1>4. AbortCause'
  <2>1. pc'[p] # "aborted" /\ pc'[q] # "aborted"
    BY <1>1, <1>3 DEF ExitLabels
  <2> QED
    BY <2>1, <1>1 DEF AbortCause, Procs, Peer
<1>5. ConnInvOf(q)'
  <2>1. conn[q] \notin {"fin", "rst", "finrst"}
    BY <1>1, <1>2 DEF ConnInvOf
  <2>2. pc[q] \in NormalExit => synced[q] = 4 \/ wr[q] < Bytes(4)
    BY <1>1, <1>2 DEF ConnInvOf, EndCause
  <2>3. pc[q] \in NormalExit => wr[q] = Bytes(synced[q])
    BY <1>1, <1>2 DEF ConnInvOf
  <2> QED
    BY <1>1, <1>2, <2>1, <2>2, <2>3 DEF ConnInvOf, EndCause
<1>6. ConnInvOf(p)'
  <2>1. pc'[p] \notin NormalExit
    BY <1>1 DEF NormalExit, ExitLabels
  <2>2. rc'[p] = 0 => synced'[p] = 4
    BY <1>2 DEF ConnInvOf
  <2>3. CASE conn'[p] = conn[p]
    <3>1. conn[p] \in {"rst", "finrst"} => ResetCause(p, q)'
      <4>1. conn[p] \in {"rst", "finrst"} => ResetCause(p, q)
        BY <1>2 DEF ConnInvOf
      <4>2. wr[q] < wr[p] => wr'[q] < wr'[p]
        BY <1>1
      <4>3. p = "client" => q = "server"
        BY DEF Peer
      <4> QED
        BY <1>1, <4>1, <4>2, <4>3 DEF ResetCause
    <3> QED
      BY <1>1, <1>2, <2>1, <2>2, <2>3, <3>1 DEF ConnInvOf
  <2>4. CASE conn'[p] = "finrst" /\ conn[p] = "fin" /\ ResetCause(p, q)'
    BY <1>1, <1>2, <2>1, <2>2, <2>4 DEF ConnInvOf
  <2> QED
    BY <2>3, <2>4
<1> QED
  BY <1>1, <1>4, <1>5, <1>6 DEF ConnInv, Procs

\* A process takes a step to its end or on its way out, with or without
\* closing its end of the connection.
LEMMA ConnEnd ==
    ASSUME TypeOK, ConnInv, NEW p \in Procs, NEW q \in Procs, q = Peer(p),
           NEW l \in ExitLabels,
           pc' = [pc EXCEPT ![p] = l], pc[p] \notin {"killed", "aborted"},
           UNCHANGED <<wr, synced>>,
           conn'[p] \in {conn[p], "closed"},
           \/ conn'[q] \in {conn[q], "fin"}
           \/ /\ conn'[q] = "rst" /\ synced[p] < 4
              /\ pc[q] \notin ExitLabels => ResetCause(q, p)',
           l \in NormalExit => (pc[q] \notin ExitLabels => wr[p] = Bytes(synced[p]))
                               /\ EndCause(p, q),
           l = "aborted" => \/ pc[q] = "killed"
                            \/ p = "client" /\ wr[p] = 0 /\ pc[q] \in ExitLabels /\ wr[q] = 0,
           rc'[p] = 0 => synced[p] = 4, rc'[q] = rc[q]
    PROVE  ConnInv'
<1>1. q # p /\ Peer(q) = p /\ pc'[p] = l /\ pc'[q] = pc[q]
  BY PeerType DEF TypeOK
<1>2. ConnInvOf(p) /\ ConnInvOf(q) /\ AbortCause
  BY DEF ConnInv
<1>3. AbortCause'
  <2>1. ASSUME pc[q] = "aborted" PROVE /\ q = "client" /\ wr[q] = 0
                                       /\ pc["server"] \in ExitLabels /\ wr["server"] = 0
    BY <1>1, <1>2, <2>1 DEF AbortCause
  <2>2. (p = "server" /\ q = "client") \/ (p = "client" /\ q = "server")
    BY DEF Procs, Peer
  <2> QED
    BY <1>1, <2>1, <2>2 DEF AbortCause, Procs, Peer
<1>4. ConnInvOf(p)'
  <2>1. EndCause(p, q)' <=> EndCause(p, q)
    BY <1>1 DEF EndCause
  <2> QED
    BY <1>1, <1>2, <2>1 DEF ConnInvOf
<1>5. ConnInvOf(q)'
  <2>1. pc[q] \in NormalExit => EndCause(q, p)'
    BY <1>1, <1>2 DEF ConnInvOf, EndCause
  <2>2. pc[q] \notin ExitLabels /\ conn[q] \in {"rst", "finrst"} => ResetCause(q, p)'
    <3>1. pc[q] \notin ExitLabels /\ conn[q] \in {"rst", "finrst"} => ResetCause(q, p)
      BY <1>1, <1>2 DEF ConnInvOf
    <3>2. q = "client" => p = "server"
      BY DEF Procs, Peer
    <3> QED
      BY <1>1, <3>1, <3>2 DEF ResetCause
  <2> QED
    BY <1>1, <1>2, <2>1, <2>2 DEF ConnInvOf
<1> QED
  BY <1>1, <1>3, <1>4, <1>5 DEF ConnInv, Procs

\* What closing p's end does to the end of its peer q.
LEMMA CloseEffect ==
    ASSUME TypeOK, NEW p \in Procs, NEW q \in Procs, q = Peer(p),
           CloseSock(p) \/ CloseIfOpen(p)
    PROVE  /\ conn'[p] \in {conn[p], "closed"}
           /\ conn'[q] \in {conn[q], "fin"} \/ (conn'[q] = "rst" /\ wr[q] > rd[p])
<1>1. CASE CloseSock(p)
  <2>1. PICK end \in {"fin", "rst"} :
          /\ end = "rst" => wr[q] > rd[p]
          /\ conn' = [conn EXCEPT ![p] = "closed", ![q] = IF @ = "open" THEN end ELSE @]
    BY <1>1 DEF CloseSock
  <2>2. q # p
    BY PeerType
  <2> QED
    BY <2>1, <2>2 DEF TypeOK
<1>2. CASE UNCHANGED conn
  BY <1>2
<1> QED
  BY <1>1, <1>2 DEF CloseIfOpen

\* A process that leaves bytes unread has not been through the transfer, and
\* if it wrote no more than the exchanges it completed, it wrote less than its peer.
LEMMA Unread ==
    ASSUME TypeOK, SyncInv, NEW p \in Procs, NEW q \in Procs, q = Peer(p), wr[q] > rd[p]
    PROVE  synced[p] < 4 /\ (wr[p] = Bytes(synced[p]) => wr[p] < wr[q])
<1>1. /\ wr[q] \in Nat /\ rd[p] \in Nat /\ wr[p] \in Nat
      /\ synced[p] \in 0..4 /\ rd[p] >= Bytes(synced[p])
      /\ synced[q] \in 0..4
      /\ wr[q] = Bytes(synced[q]) \/ (wr[q] = Bytes(synced[q] + 1) /\ synced[q] < 4)
  BY DEF TypeOK, SyncInv, SyncInvOf
<1>2. wr[q] <= Bytes(4)
  BY <1>1, ConLenAssumption DEF Bytes
<1>3. synced[p] # 4
  BY <1>1, <1>2, ConLenAssumption DEF Bytes
<1>4. wr[p] = Bytes(synced[p]) => wr[p] < wr[q]
  BY <1>1
<1> QED
  BY <1>1, <1>3, <1>4

\* Every step of a running process keeps ConnInv.
LEMMA ConnProcess ==
    ASSUME TypeOK, SyncInv, ConnInv, NEW p \in Procs, Process(p) PROVE ConnInv'
<1> DEFINE q == Peer(p)
<1>0. /\ q \in Procs /\ q # p /\ ConnInvOf(p) /\ ConnInvOf(q) /\ AbortCause
      /\ wr \in [Procs -> Nat] /\ TypeOK'
  BY PeerType, TypeProcess DEF ConnInv, TypeOK
<1> HIDE DEF q
<1>a. ASSUME NEW l \in Labels, Goto(p, l), UNCHANGED <<rc, conn, wr, synced>>,
             pc[p] \notin ExitLabels, l \notin ExitLabels
      PROVE  ConnInv'
  <2>1. wr'[p] >= wr[p]
    BY <1>0, <1>a
  <2> QED
    BY <1>0, <1>a, <2>1, ConnMove DEF Goto, q
<1>b. ASSUME pc[p] \notin ExitLabels, pc[p] \notin ReadLabels \/ conn[p] = "rst"
      PROVE  (pc[q] \notin ExitLabels => wr[p] = Bytes(synced[p])) /\ EndCause(p, q)
  <2>1. CASE pc[p] \notin ReadLabels
    <3>1. wr[p] = Bytes(synced[p]) /\ synced[p] \in 0..4
      BY <1>b, <2>1 DEF SyncInv, SyncInvOf
    <3>2. synced[p] = 4 \/ wr[p] < Bytes(4)
      BY <3>1, ConLenAssumption DEF Bytes
    <3> QED
      BY <3>1, <3>2 DEF EndCause
  <2>2. CASE conn[p] = "rst"
    BY <1>0, <2>2 DEF ConnInvOf, EndCause, q
  <2> QED
    BY <1>b, <2>1, <2>2
<1>c. ASSUME Fail(p), UNCHANGED <<conn, wr, synced>>,
             pc[p] \notin ExitLabels, pc[p] \notin ReadLabels \/ conn[p] = "rst"
      PROVE  ConnInv'
  <2>1. pc' = [pc EXCEPT ![p] = "destroy_qp"] /\ UNCHANGED rc
    BY <1>c DEF Fail, Goto
  <2>2. (pc[q] \notin ExitLabels => wr[p] = Bytes(synced[p])) /\ EndCause(p, q)
    BY <1>b, <1>c
  <2>3. rc'[p] = 0 => synced[p] = 4
    BY <1>0, <2>1 DEF ConnInvOf
  <2> QED
    BY <1>0, <1>c, <2>1, <2>2, <2>3, ConnEnd DEF q, ExitLabels
<1> USE DEF ReadLabels, ExitLabels
<1>1. CASE p = "server" /\ (sock_listen \/ sock_accept)
  BY <1>a, <1>1, LabelType DEF sock_listen, sock_accept
<1>2. CASE p = "client" /\ sock_connect
  <2>1. /\ pc["client"] = "connect" /\ pc' = [pc EXCEPT !["client"] = "create"]
        /\ conn' = [r \in Procs |-> "open"] /\ UNCHANGED <<rc, wr, synced>>
    BY <1>2 DEF sock_connect, Goto
  <2>2. q = "server" /\ Peer("client") = "server" /\ Peer("server") = "client"
    BY <1>2 DEF q, Peer
  <2>3. pc["server"] # "aborted"
    BY <1>0, <1>2, <2>1, <2>2, NoAbortedPeer
  <2>4. pc'["client"] = "create" /\ pc'["server"] = pc["server"]
    BY <2>1 DEF TypeOK, Procs
  <2>5. AbortCause'
    BY <2>3, <2>4 DEF AbortCause, Procs
  <2>6. ConnInvOf("server") /\ ConnInvOf("client")
    BY <1>0, <1>2, <2>2
  <2>7. ConnInvOf("client")'
    BY <2>1, <2>2, <2>4, <2>6 DEF ConnInvOf, NormalExit, Procs
  <2>8. ConnInvOf("server")'
    BY <2>1, <2>2, <2>4, <2>6 DEF ConnInvOf, EndCause, NormalExit, Procs
  <2> QED
    BY <2>5, <2>7, <2>8 DEF ConnInv, Procs
<1>3. CASE p = "client" /\ sock_connect_fails
  BY <1>c, <1>3 DEF sock_connect_fails, tcpVars
<1>4. CASE sock_sync_write(p)
  <2>1. /\ pc[p] \in WriteLabels /\ wr[p] = Bytes(synced[p]) /\ synced[p] \in 0..4
        /\ wr' = [wr EXCEPT ![p] = Bytes(synced[p] + 1)]
        /\ UNCHANGED <<rc, synced>>
        /\ conn' = [conn EXCEPT ![p] = IF @ = "fin" THEN "finrst" ELSE @]
    BY <1>4, WriteEffect DEF sock_sync_write, SyncInv, SyncInvOf
  <2>2. wr'[p] > wr[p] /\ wr'[q] = wr[q]
    BY <1>0, <2>1, ConLenAssumption DEF Bytes
  <2>3. /\ pc' = [pc EXCEPT ![p] = ReadAfterWrite(pc[p])]
        /\ ReadAfterWrite(pc[p]) \in ReadLabels
    BY <1>4, <2>1 DEF sock_sync_write, Goto, WriteLabels, ReadAfterWrite
  <2>4. ASSUME conn[p] = "fin" PROVE ResetCause(p, q)'
    <3>1. pc[q] \in NormalExit \cup {"killed"}
      <4>1. pc[q] \in ExitLabels
        BY <1>0, <2>4 DEF ConnInvOf, q
      <4>2. pc[q] # "aborted"
        BY <1>0, <2>1, NoAbortedPeer DEF q, WriteLabels
      <4> QED
        BY <4>1, <4>2 DEF NormalExit
    <3>2. CASE pc[q] \in NormalExit
      <4>1. wr[q] = Bytes(synced[q])
        BY <1>0, <2>1, <3>2, PeerType DEF ConnInvOf, q, WriteLabels
      <4>2. rd[q] >= Bytes(synced[q]) /\ rd[q] <= wr[p] /\ rd[q] \in Nat
        BY <1>0, PeerType DEF SyncInv, SyncInvOf, TypeOK, q
      <4>3. wr'[q] < wr'[p]
        <5>1. wr[q] \in Nat /\ wr[p] \in Nat /\ wr'[p] \in Nat
          BY <1>0 DEF TypeOK
        <5> QED
          BY <2>2, <4>1, <4>2, <5>1
      <4> QED
        BY <4>3 DEF ResetCause
    <3>3. CASE pc[q] = "killed"
      BY <1>0, <2>3, <3>3 DEF ResetCause, TypeOK
    <3> QED
      BY <3>1, <3>2, <3>3
  <2>5. conn'[q] = conn[q] /\ (conn'[p] = conn[p] \/ (conn'[p] = "finrst" /\ conn[p] = "fin"))
    BY <1>0, <2>1 DEF TypeOK
  <2>6. /\ ReadAfterWrite(pc[p]) \in Labels /\ ReadAfterWrite(pc[p]) \notin ExitLabels
        /\ pc[p] \notin ExitLabels
    BY <2>1, <2>3, LabelType DEF WriteLabels
  <2>7. wr'[p] >= wr[p]
    <3>1. wr[p] \in Nat /\ wr'[p] \in Nat
      BY <1>0 DEF TypeOK
    <3> QED
      BY <2>2, <3>1
  <2> QED
    BY <1>0, <2>1, <2>2, <2>3, <2>4, <2>5, <2>6, <2>7, ConnMove DEF q
<1>5. CASE sock_sync_assert(p)
  <2>1. /\ pc[p] \in WriteLabels /\ conn[p] \in {"rst", "finrst"}
        /\ conn' = [conn EXCEPT ![p] = "closed"]
        /\ pc' = [pc EXCEPT ![p] = "aborted"]
        /\ UNCHANGED <<rc, wr, synced>>
    BY <1>5 DEF sock_sync_assert, Goto
  <2>2. ResetCause(p, q)
    BY <1>0, <2>1 DEF ConnInvOf, q, WriteLabels
  <2>3. /\ wr[p] = Bytes(synced[p]) /\ rd[p] >= Bytes(synced[p]) /\ rd[p] <= wr[q]
        /\ synced[p] \in 0..4 /\ rd[p] \in Nat /\ wr[q] \in Nat /\ wr[p] \in Nat
    BY <1>0, <2>1 DEF SyncInv, SyncInvOf, q, WriteLabels, TypeOK
  <2>4. ~(wr[q] < wr[p])
    BY <2>3
  <2>5. ASSUME p = "client", wr["server"] = 0, pc["server"] \in ExitLabels
        PROVE  wr[p] = 0 /\ pc[q] \in ExitLabels /\ wr[q] = 0
    BY <2>3, <2>5 DEF q, Peer
  <2>6. conn'[p] = "closed" /\ conn'[q] = conn[q]
    BY <1>0, <2>1 DEF TypeOK
  <2>7. rc'[p] = 0 => synced[p] = 4
    BY <1>0, <2>1 DEF ConnInvOf
  <2> QED
    BY <1>0, <2>1, <2>2, <2>4, <2>5, <2>6, <2>7, ConnEnd
       DEF q, ResetCause, NormalExit, WriteLabels
<1>6. CASE sock_sync_read(p)
  <2>1. /\ pc[p] \in ReadLabels /\ UNCHANGED <<rc, conn, wr>> /\ synced[p] # 4
        /\ synced'[q] = synced[q] /\ pc'[q] = pc[q]
        /\ pc' = pc \/ pc' = [pc EXCEPT ![p] = AfterRead(p)]
    <3>1. synced'[q] = synced[q] /\ pc'[q] = pc[q] /\ synced[p] < 4
      BY <1>0, <1>6, ReadEffect
    <3>2. synced[p] # 4
      BY <3>1
    <3> QED
      BY <1>6, <3>1, <3>2 DEF sock_sync_read, Goto
  <2>2. AfterRead(p) \in {"to_init", "send", "poll1", "w_write", "post_read", "finish"}
    BY DEF AfterRead
  <2>3. PICK l \in Labels : pc' = [pc EXCEPT ![p] = l] /\ l \notin ExitLabels
    <3>1. CASE pc' = pc
      <4>1. pc' = [pc EXCEPT ![p] = pc[p]] /\ pc[p] \in Labels /\ pc[p] \notin ExitLabels
        BY <2>1, <3>1 DEF TypeOK
      <4> QED
        BY <4>1
    <3>2. CASE pc' = [pc EXCEPT ![p] = AfterRead(p)]
      BY <2>2, <3>2, LabelType
    <3> QED
      BY <2>1, <3>1, <3>2
  <2>4. wr'[p] >= wr[p] /\ pc[p] \notin ExitLabels
    BY <1>0, <2>1
  <2> QED
    BY <1>0, <2>1, <2>3, <2>4, ConnMove DEF q
<1>7. CASE sock_sync_reset(p)
  BY <1>c, <1>7 DEF sock_sync_reset, tcpVars
<1>8. CASE sock_sync_eof(p)
  BY <1>8 DEF sock_sync_eof, vars, ConnInv, ConnInvOf, AbortCause, ResetCause, EndCause
<1>9. CASE resources_create(p)
  BY <1>a, <1>9, LabelType DEF resources_create, tcpVars
<1>10. CASE resources_create_exit(p) \/ close_sock(p)
  <2>1. PICK l \in {"destroy_qp", "exit"} : pc' = [pc EXCEPT ![p] = l]
    BY <1>10 DEF resources_create_exit, close_sock, Fail, Goto
  <2>2. /\ pc[p] \in {"create", "close_sock"} /\ UNCHANGED <<wr, synced>>
        /\ CloseSock(p) \/ CloseIfOpen(p)
    BY <1>10 DEF resources_create_exit, close_sock
  <2>3. (pc[q] \notin ExitLabels => wr[p] = Bytes(synced[p])) /\ EndCause(p, q)
    <3>1. CASE pc[p] = "create"
      BY <1>b, <3>1
    <3>2. CASE pc[p] = "close_sock"
      BY <1>0, <3>2 DEF ConnInvOf, q, NormalExit
    <3> QED
      BY <2>2, <3>1, <3>2
  <2>4. rc'[q] = rc[q] /\ (rc'[p] = 0 => rc[p] = 0)
    BY <1>0, <1>10 DEF resources_create_exit, close_sock, Fail, TypeOK
  <2>5. rc'[p] = 0 => synced[p] = 4
    BY <1>0, <2>4 DEF ConnInvOf
  <2>6. /\ conn'[p] \in {conn[p], "closed"}
        /\ conn'[q] \in {conn[q], "fin"} \/ (conn'[q] = "rst" /\ wr[q] > rd[p])
    BY <1>0, <2>2, CloseEffect DEF q
  <2>7. wr[q] > rd[p] => synced[p] < 4 /\ (pc[q] \notin ExitLabels => ResetCause(q, p)')
    <3>1. wr[q] > rd[p] => synced[p] < 4 /\ (wr[p] = Bytes(synced[p]) => wr[p] < wr[q])
      BY <1>0, Unread DEF q
    <3> QED
      BY <2>2, <2>3, <3>1 DEF ResetCause
  <2> QED
    BY <1>0, <2>1, <2>2, <2>3, <2>4, <2>5, <2>6, <2>7, ConnEnd DEF q
<1>11. CASE modify_qp_to_init(p)
  BY <1>a, <1>11, LabelType DEF modify_qp_to_init, modify_qp, tcpVars
<1>12. CASE modify_qp_rtr(p)
  BY <1>a, <1>12, LabelType DEF modify_qp_rtr, modify_qp, tcpVars
<1>13. CASE modify_qp_rts(p)
  BY <1>a, <1>13, LabelType DEF modify_qp_rts, modify_qp, tcpVars
<1>14. CASE post_recv(p)
  BY <1>a, <1>14, LabelType DEF post_recv, tcpVars
<1>15. CASE post_send(p)
  BY <1>a, <1>15, LabelType DEF post_send, PollAfterPost, SendLabels, tcpVars
<1>16. CASE poll_completion(p)
  <2>1. Goto(p, AfterPoll(pc[p])) \/ Goto(p, "destroy_qp")
    BY <1>16 DEF poll_completion
  <2>2. UNCHANGED <<rc, conn, wr, synced>> /\ pc[p] \in PollLabels
    BY <1>16 DEF poll_completion, tcpVars
  <2>3. CASE Goto(p, AfterPoll(pc[p]))
    BY <1>a, <2>2, <2>3, LabelType DEF AfterPoll, PollLabels
  <2>4. CASE Goto(p, "destroy_qp")
    BY <1>c, <2>2, <2>4 DEF PollLabels, Fail
  <2> QED
    BY <2>1, <2>3, <2>4
<1>17. CASE verbs_fails(p)
  BY <1>c, <1>17 DEF verbs_fails, tcpVars, VerbsError, SendLabels, PollLabels
<1>18. CASE first_use(p)
  BY <1>a, <1>18, LabelType DEF first_use, tcpVars
<1>19. CASE second_use(p)
  BY <1>a, <1>19, LabelType DEF second_use, tcpVars
<1>20. CASE finish(p)
  <2>1. /\ pc[p] = "finish" /\ pc' = [pc EXCEPT ![p] = "destroy_qp"]
        /\ rc' = [rc EXCEPT ![p] = 0] /\ UNCHANGED <<conn, wr, synced>>
    BY <1>20 DEF finish, Goto, tcpVars
  <2>2. synced[p] = 4
    BY <2>1 DEF SyncInv, SyncInvOf, Round
  <2>3. (pc[q] \notin ExitLabels => wr[p] = Bytes(synced[p])) /\ EndCause(p, q)
    BY <1>b, <2>1
  <2>4. rc'[q] = rc[q]
    BY <1>0, <2>1 DEF TypeOK
  <2> QED
    BY <1>0, <2>1, <2>2, <2>3, <2>4, ConnEnd DEF q
<1>21. CASE destroy_qp(p)
  <2>1. /\ pc[p] = "destroy_qp" /\ pc' = [pc EXCEPT ![p] = "close_sock"]
        /\ UNCHANGED <<rc, conn, wr, synced>>
    BY <1>21 DEF destroy_qp, Goto, tcpVars
  <2>2. (pc[q] \notin ExitLabels => wr[p] = Bytes(synced[p])) /\ EndCause(p, q)
    BY <1>0, <2>1 DEF ConnInvOf, q, NormalExit
  <2>3. rc'[p] = 0 => synced[p] = 4
    BY <1>0, <2>1 DEF ConnInvOf
  <2> QED
    BY <1>0, <2>1, <2>2, <2>3, ConnEnd DEF q
<1> QED
  BY <1>1, <1>2, <1>3, <1>4, <1>5, <1>6, <1>7, <1>8, <1>9, <1>10, <1>11, <1>12, <1>13,
     <1>14, <1>15, <1>16, <1>17, <1>18, <1>19, <1>20, <1>21 DEF Process, Connect

\* Every step keeps ConnInv.
LEMMA ConnStep == TypeOK /\ SyncInv /\ ConnInv /\ [Next]_vars => ConnInv'
<1> SUFFICES ASSUME TypeOK, SyncInv, ConnInv, [Next]_vars PROVE ConnInv'
  OBVIOUS
<1>1. CASE UNCHANGED <<pc, rc, conn, wr, synced>>
  BY <1>1 DEF ConnInv, ConnInvOf, AbortCause, ResetCause, EndCause
<1>2. ASSUME pc["server"] = "accept", CloseListener, UNCHANGED <<rc, wr, synced>>,
             NEW l \in {"destroy_qp", "killed"}, pc' = [pc EXCEPT !["server"] = l]
      PROVE  ConnInv'
  <2>1. synced["server"] = 0 /\ wr["server"] = 0
    BY <1>2 DEF SyncInv, SyncInvOf, Procs, Round, ReadLabels, ExitLabels, Bytes
  <2>2. /\ conn'["server"] \in {conn["server"], "closed"}
        /\ conn'["client"] \in {conn["client"], "rst"}
    BY <1>2 DEF CloseListener, TypeOK, Procs
  <2>3. ResetCause("client", "server")'
    BY <1>2, <2>1 DEF ResetCause, TypeOK, Procs, ExitLabels
  <2>4. wr["server"] = Bytes(synced["server"]) /\ EndCause("server", "client")
    BY <2>1, ConLenAssumption DEF EndCause, Bytes
  <2>5. rc'["server"] = 0 => synced["server"] = 4
    BY <1>2 DEF ConnInv, ConnInvOf, Procs
  <2>6. /\ "server" \in Procs /\ "client" \in Procs /\ "client" = Peer("server")
        /\ l \in ExitLabels /\ l # "aborted"
    BY DEF Procs, Peer, ExitLabels
  <2>7. /\ pc["server"] \notin {"killed", "aborted"} /\ synced["server"] < 4
        /\ rc'["client"] = rc["client"]
    BY <1>2, <2>1
  <2>8. \/ conn'["client"] \in {conn["client"], "fin"}
        \/ /\ conn'["client"] = "rst" /\ synced["server"] < 4
           /\ pc["client"] \notin ExitLabels => ResetCause("client", "server")'
    BY <2>2, <2>3, <2>7
  <2> QED
    BY <1>2, <2>2, <2>4, <2>5, <2>6, <2>7, <2>8, ConnEnd
<1>3. CASE sock_accept_fails
  BY <1>2, <1>3 DEF sock_accept_fails, Fail, Goto
<1>4. ASSUME NEW p \in Procs, killed(p) PROVE ConnInv'
  <2>1. /\ pc' = [pc EXCEPT ![p] = "killed"] /\ UNCHANGED <<rc, wr, synced>>
        /\ pc[p] \notin {"killed", "aborted"}
    BY <1>4 DEF killed, Goto, Ended
  <2>2. CASE p = "server" /\ pc[p] = "accept"
    BY <1>2, <1>4, <2>1, <2>2 DEF killed
  <2>3. CASE ~(p = "server" /\ pc[p] = "accept")
    <3>1. CloseIfOpen(p)
      BY <1>4, <2>3 DEF killed
    <3>2. Peer(p) \in Procs
      BY PeerType
    <3>3. /\ conn'[p] \in {conn[p], "closed"}
          /\ \/ conn'[Peer(p)] \in {conn[Peer(p)], "fin"}
             \/ conn'[Peer(p)] = "rst" /\ wr[Peer(p)] > rd[p]
      BY <3>1, <3>2, CloseEffect
    <3>4. wr[Peer(p)] > rd[p] => synced[p] < 4
      BY <3>2, Unread
    <3>5. ResetCause(Peer(p), p)'
      BY <2>1 DEF ResetCause, TypeOK
    <3>6. rc'[p] = 0 => synced[p] = 4
      BY <2>1 DEF ConnInv, ConnInvOf
    <3>7. "killed" \in ExitLabels /\ "killed" \notin NormalExit /\ "killed" # "aborted"
      BY DEF ExitLabels, NormalExit
    <3> QED
      BY <2>1, <3>2, <3>3, <3>4, <3>5, <3>6, <3>7, ConnEnd
  <2> QED
    BY <2>2, <2>3
<1>5. ASSUME NEW p \in Procs, Adapter(p) PROVE UNCHANGED <<pc, rc, conn, wr, synced>>
  BY <1>5 DEF Adapter, HcaSend, HcaRead, HcaWrite, HcaAck, HcaFail, Complete, tcpVars
<1> QED
  BY <1>1, <1>3, <1>4, <1>5, ConnProcess DEF Next, Halted, vars

\* ConnInv holds initially.
LEMMA ConnInit == Init => ConnInv
BY DEF Init, ConnInv, ConnInvOf, AbortCause, Procs, Peer, NormalExit, ExitLabels

\* Two processes at their normal end agree: had only one of them been through
\* the transfer, the other would have written its last byte too and ended for
\* no cause on the first one's side.
LEMMA AgreementEnough == TypeOK /\ SyncInv /\ ConnInv => Agreement
<1> SUFFICES ASSUME TypeOK, SyncInv, ConnInv, \A p \in Procs : pc[p] = "exit"
             PROVE  /\ synced["server"] = 4 <=> synced["client"] = 4
                    /\ \A p \in Procs : rc[p] = 0 => synced[p] = 4
  BY DEF Agreement
<1>1. \A p \in Procs : EndCause(p, Peer(p)) /\ (rc[p] = 0 => synced[p] = 4)
  BY DEF ConnInv, ConnInvOf, NormalExit
<1>2. ASSUME NEW p \in Procs, synced[p] = 4 PROVE synced[Peer(p)] = 4
  <2>1. rd[p] >= Bytes(4) /\ rd[p] <= wr[Peer(p)] /\ rd[p] \in Nat /\ wr[Peer(p)] \in Nat
    BY <1>2, PeerType DEF SyncInv, SyncInvOf, TypeOK
  <2>2. ~(wr[Peer(p)] < Bytes(4))
    BY <2>1, ConLenAssumption DEF Bytes
  <2>3. EndCause(Peer(p), p)
    BY <1>1, PeerType
  <2> QED
    BY <1>2, <2>2, <2>3 DEF EndCause
<1> QED
  BY <1>1, <1>2 DEF Procs, Peer

\* All invariants about the end together.
LEMMA ConnAlways == Spec => [](TypeOK /\ SyncInv /\ ConnInv)
BY TypeCorrect, SyncInit, SyncStep, ConnInit, ConnStep, PTL DEF Spec

\* Whatever fails, two processes at their normal end have both been through the
\* whole transfer or neither has, and a result of 0 says it was complete.
THEOREM AgreementAlways == Spec => []Agreement
BY ConnAlways, AgreementEnough, PTL

\* The assertion on write() fails only in a process whose peer was killed, or
\* in the client's first exchange when the server gave up in accept().
THEOREM AbortCauseAlways == Spec => []AbortCause
<1>1. ConnInv => AbortCause
  BY DEF ConnInv
<1> QED
  BY <1>1, ConnAlways, PTL
=============================================================================
