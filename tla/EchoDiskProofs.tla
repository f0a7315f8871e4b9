-------------------------- MODULE EchoDiskProofs ---------------------------
(***************************************************************************)
(* The two tests of input and output.  The invariants of EchoNet and of    *)
(* its stopwatch for every length of the message and of the server's       *)
(* buffer, every number of rounds, and whatever number of microseconds a   *)
(* second has; ReportHonest of DiskWrite for every number of runs and of   *)
(* records.                                                                *)
(*                                                                         *)
(* StreamInv says where bytes can be before the connection and between the *)
(* server's reads.  RoundInv counts them: the client never has more than   *)
(* its rounds sent, and as long as it has all of them its buffer still     *)
(* holds the message.  HeapInv bounds the receiver's buffers by those      *)
(* bytes.  ClockInv is ClockExact with what is true before the stopwatch   *)
(* is started.  WrittenInv and SaidInv, of the disk test, say what is in   *)
(* the file before the offset and what has been printed.                   *)
(***************************************************************************)
EXTENDS EchoNet, DiskWrite, SequenceTheorems, TLAPS

\* The state is well typed.
TypeOK ==
    /\ cpc \in {"connect", "begin", "begun", "loop", "write", "read", "stop", "check",
                "ended", "killed"}
    /\ buf \in [1..MsgLen -> Nat]
    /\ c2s \in Seq(Nat) /\ s2c \in Seq(Nat) /\ sbuf \in Seq(Nat)
    /\ sent \in Seq(Nat) /\ got \in Seq(Nat)
    /\ round \in Nat /\ lastRead \in 0..MsgLen /\ reported \in BOOLEAN

StreamInv ==
    /\ cpc = "connect" =>
        /\ conn = "none" /\ spc \in {"start", "accept", "unserved", "exit", "killed"}
        /\ c2s = <<>> /\ s2c = <<>> /\ sent = <<>> /\ got = <<>>
    /\ spc # "write" => sbuf = <<>>
    /\ EchoConserves

\* The bytes of the rounds that are over.
Due == round * MsgLen

RoundInv ==
    /\ cpc \in {"connect", "begin", "begun"} =>
        got = <<>> /\ sent = <<>> /\ round = 0 /\ ~reported
    /\ cpc \in {"connect", "begin", "begun", "loop", "write"} =>
        /\ Len(got) <= Due
        /\ Len(got) = Due => buf = Message
        /\ conn = "up" => Len(sent) = Due
    /\ cpc = "read" =>
        /\ Len(got) <= Due
        /\ Len(got) = Due => buf = Message
        /\ conn = "up" =>
            /\ Len(sent) = Due + MsgLen
            /\ \A k \in 1..MsgLen : sent[Due + k] = buf[k]
    /\ cpc \in {"stop", "check"} =>
        /\ Len(got) - lastRead <= Due
        /\ Len(got) - lastRead = Due => buf = Message
        /\ conn = "up" => Len(sent) = Due + MsgLen
    /\ AlarmComesLate

\* A buffer has cost a byte that the client sent and that is no longer under way.
HeapInv ==
    /\ heap \in Nat /\ round <= TestCases
    /\ cpc \in {"write", "read", "stop", "check"} => round < TestCases
    /\ cpc = "connect" => heap = 0
    /\ conn = "up" =>
        /\ cpc \notin {"ended", "killed"}
        /\ heap + Len(c2s) <= Len(sent)
    /\ ReceiverLives

ClockInv ==
    /\ now \in Nat /\ spent \in Int /\ m_timeByUSec \in Int
    /\ m_begin \in Int \X Int
    /\ cpc \in {"connect", "begin"} => spent = 0 /\ m_timeByUSec = 0
    /\ ClockExact

\* The lengths are positive numbers.
LEMMA Lengths == MsgLen \in Nat /\ MsgLen > 0 /\ BufLen \in Nat /\ BufLen > 0
BY EchoAssumption

\* The message has its length.
LEMMA BufferSeq ==
    ASSUME NEW b \in [1..MsgLen -> Nat]
    PROVE b \in Seq(Nat) /\ Len(b) = MsgLen
BY Lengths

\* Concatenation of byte sequences: nothing is a sequence too, and the order of
\* the operations does not matter.
LEMMA NoBytes == <<>> \in Seq(Nat)
OBVIOUS

LEMMA Joined ==
    ASSUME NEW s \in Seq(Nat), NEW t \in Seq(Nat), NEW u \in Seq(Nat)
    PROVE (s \o t) \o u = s \o (t \o u)
BY SMT

LEMMA JoinedAt ==
    ASSUME NEW s \in Seq(Nat), NEW t \in Seq(Nat)
    PROVE /\ Len(s \o t) = Len(s) + Len(t)
          /\ \A k \in 1..Len(t) : (s \o t)[Len(s) + k] = t[k]
BY SMT

LEMMA NothingJoined ==
    ASSUME NEW s \in Seq(Nat)
    PROVE s \o <<>> = s
BY SMT

\* A sequence is its first n elements and the rest.
LEMMA Cut ==
    ASSUME NEW s \in Seq(Nat), NEW n \in 1..Len(s)
    PROVE /\ SubSeq(s, 1, n) \in Seq(Nat) /\ SubSeq(s, n + 1, Len(s)) \in Seq(Nat)
          /\ Len(SubSeq(s, 1, n)) = n
          /\ SubSeq(s, 1, n) \o SubSeq(s, n + 1, Len(s)) = s
<1>1. /\ SubSeq(s, 1, n) \in Seq(Nat) /\ Len(SubSeq(s, 1, n)) = n
    BY SubSeqProperties
<1>2. SubSeq(s, n + 1, Len(s)) \in Seq(Nat)
    BY SubSeqProperties
<1>3. SubSeq(s, 1, n) \o SubSeq(s, n + 1, Len(s)) = SubSeq(s, 1, Len(s))
    BY ConcatAdjacentSubSeq
<1>4. SubSeq(s, 1, Len(s)) = s
    BY SubSeqFull
<1> QED
    BY <1>1, <1>2, <1>3, <1>4

\* Moving the first n elements of t to the end of s loses nothing.
LEMMA CutJoined ==
    ASSUME NEW s \in Seq(Nat), NEW t \in Seq(Nat), NEW n \in 1..Len(t)
    PROVE (s \o SubSeq(t, 1, n)) \o SubSeq(t, n + 1, Len(t)) = s \o t
<1>1. PICK a \in Seq(Nat) : a = SubSeq(t, 1, n)
    BY Cut
<1>2. PICK b \in Seq(Nat) : b = SubSeq(t, n + 1, Len(t))
    BY Cut
<1>3. a \o b = t
    BY <1>1, <1>2, Cut
<1>4. (s \o a) \o b = s \o (a \o b)
    BY Joined
<1> QED
    BY <1>1, <1>2, <1>3, <1>4

\* The effect of a read by the client.
LEMMA ReadEffect ==
    ASSUME TypeOK, clientThread_read
    PROVE /\ cpc = "read" /\ cpc' = "stop"
          /\ \/ /\ conn = "up"
                /\ \E n \in 1..MsgLen :
                    /\ n \in 1..Len(s2c)
                    /\ buf' = Landed(buf, n)
                    /\ got' = got \o SubSeq(s2c, 1, n)
                    /\ s2c' = SubSeq(s2c, n + 1, Len(s2c))
                    /\ lastRead' = n
             \/ conn # "up" /\ lastRead' = 0 /\ UNCHANGED <<buf, got, s2c>>
          /\ UNCHANGED <<clockVars, spent, spc, conn, reset, c2s, sbuf, heap, round,
                         reported, sent>>
<1>1. CASE conn = "up"
    <2>1. PICK n \in 1..MsgLen :
            /\ n <= Len(s2c)
            /\ buf' = Landed(buf, n)
            /\ got' = got \o SubSeq(s2c, 1, n)
            /\ s2c' = SubSeq(s2c, n + 1, Len(s2c))
            /\ lastRead' = n
        BY <1>1 DEF clientThread_read
    <2>2. s2c \in Seq(Nat)
        BY DEF TypeOK
    <2>3. n \in 1..Len(s2c)
        BY <2>1, <2>2, Lengths
    <2>4. \E m \in 1..MsgLen :
            /\ m \in 1..Len(s2c)
            /\ buf' = Landed(buf, m)
            /\ got' = got \o SubSeq(s2c, 1, m)
            /\ s2c' = SubSeq(s2c, m + 1, Len(s2c))
            /\ lastRead' = m
        BY <2>1, <2>3, Zenon
    <2> QED
        BY <1>1, <2>4, Zenon DEF clientThread_read
<1>2. CASE conn # "up"
    BY <1>2, Zenon DEF clientThread_read
<1> QED
    BY <1>1, <1>2

\* The effect of a turn of the server's loop up to its write.
LEMMA ServerReadEffect ==
    ASSUME TypeOK, receiveHandler_read
    PROVE /\ spc = "read" /\ spc' = "write"
          /\ \/ \E n \in 1..Len(c2s) :
                    sbuf' = SubSeq(c2s, 1, n) /\ c2s' = SubSeq(c2s, n + 1, Len(c2s))
             \/ conn # "up" /\ sbuf' = <<>> /\ c2s' = c2s
          /\ UNCHANGED <<clockVars, spent, cpc, conn, reset, buf, s2c, round, lastRead,
                         reported, sent, got>>
<1>1. c2s \in Seq(Nat) /\ Len(c2s) \in Nat
    BY DEF TypeOK
<1>2. ASSUME NEW n \in 1..BufLen, n <= Len(c2s) PROVE n \in 1..Len(c2s)
    BY <1>1, <1>2, Lengths
<1>3. \/ \E n \in 1..BufLen :
            /\ n <= Len(c2s)
            /\ sbuf' = SubSeq(c2s, 1, n) /\ c2s' = SubSeq(c2s, n + 1, Len(c2s))
      \/ conn # "up" /\ sbuf' = <<>> /\ c2s' = c2s
    BY Zenon DEF receiveHandler_read
<1>4. \/ \E n \in 1..Len(c2s) :
            sbuf' = SubSeq(c2s, 1, n) /\ c2s' = SubSeq(c2s, n + 1, Len(c2s))
      \/ conn # "up" /\ sbuf' = <<>> /\ c2s' = c2s
    BY <1>2, <1>3, Zenon
<1> QED
    BY <1>4, Zenon DEF receiveHandler_read

\* Every step keeps the types.
LEMMA TypeStep == TypeOK /\ [NetNext]_echoVars => TypeOK'
<1> SUFFICES ASSUME TypeOK, [NetNext]_echoVars PROVE TypeOK'
    OBVIOUS
<1>1. CASE connect
    BY <1>1 DEF connect, TypeOK
<1>2. CASE clientThread_begin
    BY <1>2 DEF clientThread_begin, TypeOK
<1>3. CASE clientThread_stop
    BY <1>3 DEF clientThread_stop, TypeOK
<1>4. CASE clientThread_resume
    <2>1. 0 \in 0..MsgLen
        BY Lengths
    <2> QED
        BY <1>4, <2>1 DEF clientThread_resume, TypeOK
<1>5. CASE clientThread_write
    <2>1. buf \in Seq(Nat) /\ c2s \in Seq(Nat) /\ sent \in Seq(Nat)
        BY BufferSeq DEF TypeOK
    <2>2. c2s \o buf \in Seq(Nat) /\ sent \o buf \in Seq(Nat)
        BY <2>1
    <2>3. c2s' \in Seq(Nat) /\ sent' \in Seq(Nat) /\ cpc' \in {"read", "killed"}
        BY <1>5, <2>1, <2>2 DEF clientThread_write
    <2> QED
        BY <1>5, <2>3 DEF clientThread_write, TypeOK
<1>6. CASE clientThread_read
    <2>0. /\ cpc' = "stop" /\ c2s' = c2s /\ sbuf' = sbuf /\ round' = round
          /\ reported' = reported /\ sent' = sent
        BY <1>6 DEF clientThread_read
    <2>1. CASE conn = "up"
        <3>1. PICK n \in 1..MsgLen :
                /\ n \in 1..Len(s2c)
                /\ buf' = Landed(buf, n)
                /\ got' = got \o SubSeq(s2c, 1, n)
                /\ s2c' = SubSeq(s2c, n + 1, Len(s2c))
                /\ lastRead' = n
            BY <1>6, <2>1, ReadEffect
        <3>2. s2c \in Seq(Nat) /\ got \in Seq(Nat) /\ buf \in [1..MsgLen -> Nat]
            BY DEF TypeOK
        <3>3. \A k \in 1..n : s2c[k] \in Nat
            BY <3>1, <3>2
        <3>4. buf' \in [1..MsgLen -> Nat]
            BY <3>1, <3>2, <3>3, Lengths DEF Landed
        <3>5. got' \in Seq(Nat) /\ s2c' \in Seq(Nat)
            BY <3>1, <3>2, Cut
        <3>6. lastRead' \in 0..MsgLen
            BY <3>1, Lengths
        <3> QED
            BY <2>0, <3>4, <3>5, <3>6 DEF TypeOK
    <2>2. CASE conn # "up"
        <3>1. lastRead' = 0 /\ buf' = buf /\ got' = got /\ s2c' = s2c
            BY <1>6, <2>2, ReadEffect
        <3> QED
            BY <2>0, <3>1, Lengths DEF TypeOK
    <2> QED
        BY <2>1, <2>2
<1>7. CASE clientThread_stop_round
    BY <1>7 DEF clientThread_stop_round, TypeOK
<1>8. CASE clientThread_check
    BY <1>8 DEF clientThread_check, TypeOK
<1>9. CASE clientThread_close
    BY <1>9, NoBytes DEF clientThread_close, TypeOK
<1>10. CASE serverThread \/ serverThread_join
    BY <1>10, NoBytes DEF serverThread, serverThread_join, TypeOK
<1>11. CASE receiveHandler_accept
    BY <1>11, NoBytes DEF receiveHandler_accept, TypeOK
<1>12. CASE receiveHandler_read
    <2>1. c2s \in Seq(Nat)
        BY DEF TypeOK
    <2>2. sbuf' \in Seq(Nat) /\ c2s' \in Seq(Nat)
        <3>1. CASE \E n \in 1..Len(c2s) :
                    sbuf' = SubSeq(c2s, 1, n) /\ c2s' = SubSeq(c2s, n + 1, Len(c2s))
            BY <2>1, <3>1, Cut
        <3>2. CASE sbuf' = <<>> /\ c2s' = c2s
            BY <2>1, <3>2, NoBytes
        <3> QED
            BY <1>12, <3>1, <3>2, ServerReadEffect
    <2> QED
        BY <1>12, <2>2 DEF receiveHandler_read, TypeOK
<1>13. CASE receiveHandler_write
    <2>1. s2c \in Seq(Nat) /\ sbuf \in Seq(Nat)
        BY DEF TypeOK
    <2>2. s2c \o sbuf \in Seq(Nat)
        BY <2>1
    <2>3. s2c' \in Seq(Nat) /\ sbuf' \in Seq(Nat)
        BY <1>13, <2>1, <2>2, NoBytes DEF receiveHandler_write, Echo
    <2> QED
        BY <1>13, <2>3 DEF receiveHandler_write, TypeOK
<1>14. CASE receiveHandler_exhausted
    BY <1>14 DEF receiveHandler_exhausted, TypeOK
<1>15. CASE Time \/ UNCHANGED echoVars
    BY <1>15 DEF Time, echoVars, netVars, TypeOK
<1> QED
    BY <1>1, <1>2, <1>3, <1>4, <1>5, <1>6, <1>7, <1>8, <1>9, <1>10, <1>11, <1>12, <1>13,
       <1>14, <1>15 DEF NetNext, Client, Receiver

\* The bytes keep their order on their way, in every step.
LEMMA StreamStep == TypeOK /\ StreamInv /\ [NetNext]_echoVars => StreamInv'
<1> SUFFICES ASSUME TypeOK, StreamInv, [NetNext]_echoVars PROVE StreamInv'
    OBVIOUS
<1>0. /\ c2s \in Seq(Nat) /\ s2c \in Seq(Nat) /\ sbuf \in Seq(Nat)
      /\ sent \in Seq(Nat) /\ got \in Seq(Nat) /\ buf \in Seq(Nat) /\ <<>> \in Seq(Nat)
    BY BufferSeq DEF TypeOK
<1>1. CASE connect
    <2>1. cpc = "connect" /\ cpc' = "begin" /\ UNCHANGED <<spc, c2s, s2c, sbuf, sent, got>>
        BY <1>1 DEF connect
    <2>2. /\ c2s = <<>> /\ s2c = <<>> /\ sent = <<>> /\ got = <<>> /\ sbuf = <<>>
        BY <2>1 DEF StreamInv
    <2>3. sent = got \o s2c \o sbuf \o c2s
        BY <2>2, <1>0, ConcatEmptySeq
    <2> QED
        BY <2>1, <2>2, <2>3 DEF StreamInv, EchoConserves
<1>2. CASE \/ clientThread_begin \/ clientThread_stop \/ clientThread_resume
           \/ clientThread_stop_round \/ clientThread_check
    <2>1. cpc' # "connect" /\ UNCHANGED <<conn, spc, c2s, s2c, sbuf, sent, got>>
        BY <1>2 DEF clientThread_begin, clientThread_stop, clientThread_resume,
                    clientThread_stop_round, clientThread_check
    <2> QED
        BY <2>1 DEF StreamInv, EchoConserves
<1>3. CASE clientThread_write
    <2>1. /\ cpc' # "connect" /\ UNCHANGED <<conn, spc, s2c, sbuf, got>>
          /\ conn = "up" => c2s' = c2s \o buf /\ sent' = sent \o buf
        BY <1>3 DEF clientThread_write
    <2>2. ASSUME conn = "up" PROVE sent' = got \o s2c \o sbuf \o c2s'
        <3> DEFINE back == got \o s2c \o sbuf
        <3>1. sent = back \o c2s
            BY <2>2 DEF StreamInv, EchoConserves
        <3>2. back \in Seq(Nat)
            BY <1>0
        <3> HIDE DEF back
        <3>3. (back \o c2s) \o buf = back \o (c2s \o buf)
            BY <1>0, <3>2, Joined
        <3>4. sent' = back \o c2s'
            BY <2>1, <2>2, <3>1, <3>3
        <3> QED
            BY <3>4 DEF back
    <2> QED
        BY <2>1, <2>2 DEF StreamInv, EchoConserves
<1>4. CASE clientThread_read
    <2>1. cpc' # "connect" /\ UNCHANGED <<conn, spc, c2s, sbuf, sent>>
        BY <1>4, ReadEffect
    <2>2. ASSUME conn = "up" PROVE sent = got' \o s2c' \o sbuf \o c2s
        <3>1. PICK n \in 1..Len(s2c) :
                got' = got \o SubSeq(s2c, 1, n) /\ s2c' = SubSeq(s2c, n + 1, Len(s2c))
            BY <1>4, <2>2, ReadEffect
        <3>2. got' \o s2c' = (got \o SubSeq(s2c, 1, n)) \o SubSeq(s2c, n + 1, Len(s2c))
            BY <3>1
        <3>3. got' \o s2c' = got \o s2c
            BY <1>0, <3>2, CutJoined
        <3> QED
            BY <2>2, <3>3 DEF StreamInv, EchoConserves
    <2> QED
        BY <2>1, <2>2 DEF StreamInv, EchoConserves
<1>5. CASE clientThread_close
    BY <1>5 DEF clientThread_close, StreamInv, EchoConserves
<1>6. CASE \/ serverThread \/ serverThread_join
           \/ receiveHandler_accept \/ receiveHandler_exhausted
    <2>1. /\ UNCHANGED <<cpc, s2c, sbuf, sent, got>> /\ spc # "write"
          /\ conn' = "up" => conn = "up" /\ c2s' = c2s
          /\ c2s' = <<>> \/ c2s' = c2s
        BY <1>6 DEF serverThread, serverThread_join, receiveHandler_accept,
                    receiveHandler_exhausted
    <2>2. cpc = "connect" =>
            conn' = "none" /\ spc' \in {"start", "accept", "unserved", "exit", "killed"}
        BY <1>6 DEF serverThread, serverThread_join, receiveHandler_accept,
                    receiveHandler_exhausted, StreamInv
    <2> QED
        BY <2>1, <2>2 DEF StreamInv, EchoConserves
<1>7. CASE receiveHandler_read
    <2>1. /\ spc = "read" /\ spc' = "write" /\ UNCHANGED <<cpc, conn, s2c, sent, got>>
          /\ cpc # "connect" /\ sbuf = <<>>
        BY <1>7, ServerReadEffect DEF StreamInv
    <2>2. ASSUME conn = "up" PROVE sent = got \o s2c \o sbuf' \o c2s'
        <3>1. PICK n \in 1..Len(c2s) :
                sbuf' = SubSeq(c2s, 1, n) /\ c2s' = SubSeq(c2s, n + 1, Len(c2s))
            BY <1>7, <2>2, ServerReadEffect
        <3> DEFINE back == got \o s2c
        <3>0. sent = back \o sbuf \o c2s
            BY <2>2 DEF StreamInv, EchoConserves
        <3>2. back \in Seq(Nat) /\ sent = back \o sbuf \o c2s
            BY <1>0, <3>0
        <3>3. sbuf' \in Seq(Nat) /\ c2s' \in Seq(Nat) /\ sbuf' \o c2s' = c2s
            BY <1>0, <3>1, Cut
        <3> HIDE DEF back
        <3>4. back \o sbuf = back
            BY <2>1, <3>2, NothingJoined
        <3>5. back \o sbuf' \o c2s' = back \o (sbuf' \o c2s')
            BY <3>2, <3>3, Joined
        <3>6. sent = back \o sbuf' \o c2s'
            BY <3>2, <3>3, <3>4, <3>5
        <3> QED
            BY <3>6 DEF back
    <2> QED
        BY <2>1, <2>2 DEF StreamInv, EchoConserves
<1>8. CASE receiveHandler_write
    <2>1. /\ spc = "write" /\ spc' # "write" /\ sbuf' = <<>>
          /\ UNCHANGED <<cpc, conn, c2s, sent, got>> /\ cpc # "connect"
          /\ conn = "up" => s2c' = s2c \o sbuf
        BY <1>8 DEF receiveHandler_write, StreamInv, Echo
    <2>2. ASSUME conn = "up" PROVE sent = got \o s2c' \o sbuf' \o c2s
        <3>0. got \in Seq(Nat) /\ s2c \in Seq(Nat) /\ sbuf \in Seq(Nat)
            BY <1>0
        <3>1. (got \o s2c) \o sbuf = got \o (s2c \o sbuf)
            BY <3>0, Joined
        <3>2. got \o (s2c \o sbuf) \in Seq(Nat)
            BY <1>0
        <3>a. s2c \o sbuf \in Seq(Nat)
            BY <1>0
        <3>b. s2c' = s2c \o sbuf
            BY <2>1, <2>2
        <3>3. s2c' \in Seq(Nat) /\ got \o s2c' \in Seq(Nat)
            BY <1>0, <3>a, <3>b, <3>2
        <3> DEFINE back == got \o s2c'
        <3>4. back = got \o s2c \o sbuf /\ sent = got \o s2c \o sbuf \o c2s
            BY <2>1, <2>2, <3>1 DEF StreamInv, EchoConserves
        <3>5. back \o sbuf' = back
            BY <2>1, <3>3, ConcatEmptySeq
        <3> QED
            BY <3>4, <3>5
    <2> QED
        BY <2>1, <2>2 DEF StreamInv, EchoConserves
<1>9. CASE Time \/ UNCHANGED echoVars
    BY <1>9 DEF Time, echoVars, netVars, StreamInv, EchoConserves
<1> QED
    BY <1>1, <1>2, <1>3, <1>4, <1>5, <1>6, <1>7, <1>8, <1>9 DEF NetNext, Client, Receiver

\* The bytes due after one more round.
LEMMA DueNext ==
    ASSUME NEW n \in Nat
    PROVE n * MsgLen \in Nat /\ (n + 1) * MsgLen = n * MsgLen + MsgLen /\ 0 * MsgLen = 0
BY Lengths

\* A step that leaves the client alone keeps RoundInv.
LEMMA RoundKept ==
    ASSUME RoundInv, UNCHANGED <<cpc, round, got, lastRead, buf, reported, sent>>,
           conn' = "up" => conn = "up"
    PROVE RoundInv'
BY DEF RoundInv, AlarmComesLate, Due

\* A read by a client that has everything of the rounds before returns the bytes
\* it has just sent to the places they came from.
LEMMA ReadInPlace ==
    ASSUME TypeOK, EchoConserves, conn = "up", NEW n \in 1..MsgLen, n \in 1..Len(s2c),
           \A k \in 1..MsgLen : sent[Len(got) + k] = buf[k]
    PROVE Landed(buf, n) = buf
<1>0. /\ c2s \in Seq(Nat) /\ s2c \in Seq(Nat) /\ sbuf \in Seq(Nat) /\ got \in Seq(Nat)
      /\ buf \in [1..MsgLen -> Nat]
    BY DEF TypeOK
<1>1. sent = got \o s2c \o sbuf \o c2s
    BY DEF EchoConserves
<1>2. ASSUME NEW k \in 1..Len(s2c)
      PROVE (got \o s2c \o sbuf \o c2s)[Len(got) + k] = s2c[k]
    <2>1. /\ got \o s2c \in Seq(Nat) /\ Len(got \o s2c) = Len(got) + Len(s2c)
          /\ (got \o s2c)[Len(got) + k] = s2c[k]
        BY <1>0
    <2> QED
        BY <1>0, <2>1
<1>3. \A k \in 1..MsgLen : k <= n => k \in 1..Len(s2c)
    BY <1>0, Lengths
<1>4. \A k \in 1..MsgLen : k <= n => s2c[k] = buf[k]
    BY <1>1, <1>2, <1>3
<1> QED
    BY <1>0, <1>4 DEF Landed

\* The rounds and their bytes are kept in step, or behind, by every step.
LEMMA RoundStep ==
    TypeOK /\ TypeOK' /\ StreamInv /\ RoundInv /\ [NetNext]_echoVars => RoundInv'
<1> SUFFICES ASSUME TypeOK, TypeOK', StreamInv, RoundInv, [NetNext]_echoVars PROVE RoundInv'
    OBVIOUS
<1>0. /\ Due \in Nat /\ round \in Nat /\ lastRead \in 0..MsgLen /\ MsgLen \in Nat
      /\ got \in Seq(Nat) /\ sent \in Seq(Nat) /\ Len(got) \in Nat /\ Len(sent) \in Nat
    BY DueNext, Lengths DEF TypeOK, Due
<1>1. CASE connect
    <2>1. cpc = "connect" /\ cpc' = "begin" /\ UNCHANGED <<round, got, sent, buf, reported>>
        BY <1>1 DEF connect
    <2>2. got = <<>> /\ sent = <<>> /\ round = 0 /\ ~reported /\ (Len(got) = Due => buf = Message)
        BY <2>1 DEF RoundInv
    <2>3. Due = 0 /\ Due' = 0 /\ Len(<<>>) = 0
        BY <2>1, <2>2, DueNext DEF Due
    <2> QED
        BY <2>1, <2>2, <2>3 DEF RoundInv, AlarmComesLate
<1>2. CASE clientThread_begin \/ clientThread_stop
    <2>1. /\ cpc \in {"begin", "begun"} /\ cpc' \in {"begun", "loop"}
          /\ UNCHANGED <<round, got, sent, buf, reported, conn>>
        BY <1>2 DEF clientThread_begin, clientThread_stop
    <2>2. Due' = Due
        BY <2>1 DEF Due
    <2> QED
        BY <2>1, <2>2 DEF RoundInv, AlarmComesLate
<1>3. CASE clientThread_resume
    <2>1. /\ cpc = "loop" /\ cpc' = "write"
          /\ UNCHANGED <<round, got, sent, buf, conn>>
        BY <1>3 DEF clientThread_resume
    <2>2. Due' = Due
        BY <2>1 DEF Due
    <2> QED
        BY <2>1, <2>2 DEF RoundInv, AlarmComesLate
<1>4. CASE clientThread_write
    <2>1. /\ cpc = "write" /\ cpc' \in {"read", "killed"}
          /\ UNCHANGED <<round, got, buf, conn>>
          /\ conn = "up" => sent' = sent \o buf
        BY <1>4 DEF clientThread_write
    <2>2. Due' = Due
        BY <2>1 DEF Due
    <2>3. buf \in Seq(Nat) /\ Len(buf) = MsgLen
        BY BufferSeq DEF TypeOK
    <2>4. ASSUME conn = "up"
          PROVE Len(sent') = Due + MsgLen /\ \A k \in 1..MsgLen : sent'[Due + k] = buf[k]
        <3>1. Len(sent) = Due /\ sent' = sent \o buf
            BY <2>1, <2>4 DEF RoundInv
        <3>2. /\ Len(sent \o buf) = Len(sent) + Len(buf)
              /\ \A k \in 1..Len(buf) : (sent \o buf)[Len(sent) + k] = buf[k]
            BY <1>0, <2>3, JoinedAt
        <3> QED
            BY <2>3, <3>1, <3>2
    <2> QED
        BY <2>1, <2>2, <2>4 DEF RoundInv, AlarmComesLate
<1>5. CASE clientThread_read
    <2>1. cpc = "read" /\ cpc' = "stop" /\ UNCHANGED <<round, sent, conn>>
        BY <1>5, ReadEffect
    <2>2. /\ Due' = Due /\ Len(got) <= Due
          /\ Len(got) = Due => buf = Message
          /\ conn = "up" => Len(sent) = Due + MsgLen
        BY <2>1 DEF Due, RoundInv
    <2>3. Len(got') - lastRead' = Len(got) /\ (Len(got) = Due => buf' = buf)
        <3>1. CASE conn = "up"
            <4>1. PICK n \in 1..MsgLen :
                    /\ n \in 1..Len(s2c)
                    /\ buf' = Landed(buf, n)
                    /\ got' = got \o SubSeq(s2c, 1, n)
                    /\ lastRead' = n
                BY <1>5, <3>1, ReadEffect
            <4>2. s2c \in Seq(Nat)
                BY DEF TypeOK
            <4>3. SubSeq(s2c, 1, n) \in Seq(Nat) /\ Len(SubSeq(s2c, 1, n)) = n
                BY <4>1, <4>2, Cut
            <4>4. Len(got') = Len(got) + n
                BY <1>0, <4>1, <4>3
            <4>5. ASSUME Len(got) = Due PROVE buf' = buf
                <5>1. \A k \in 1..MsgLen : sent[Len(got) + k] = buf[k]
                    BY <2>1, <3>1, <4>5 DEF RoundInv
                <5> QED
                    BY <3>1, <4>1, <5>1, ReadInPlace DEF StreamInv
            <4> QED
                BY <1>0, <4>1, <4>4, <4>5
        <3>2. CASE conn # "up"
            BY <1>0, <1>5, <3>2, ReadEffect
        <3> QED
            BY <3>1, <3>2
    <2> QED
        BY <2>1, <2>2, <2>3 DEF RoundInv, AlarmComesLate
<1>6. CASE clientThread_stop_round
    <2>1. /\ cpc = "stop" /\ cpc' = "check"
          /\ UNCHANGED <<round, got, sent, buf, conn, lastRead>>
        BY <1>6 DEF clientThread_stop_round
    <2>2. Due' = Due
        BY <2>1 DEF Due
    <2> QED
        BY <2>1, <2>2 DEF RoundInv, AlarmComesLate
<1>7. CASE clientThread_check
    <2>1. /\ cpc = "check" /\ cpc' = "loop" /\ round' = round + 1
          /\ reported' = (buf # Message)
          /\ UNCHANGED <<got, sent, buf, conn, lastRead>>
        BY <1>7 DEF clientThread_check
    <2>2. Due' = Due + MsgLen /\ (round' - 1) * MsgLen = Due
        <3>1. round' - 1 = round
            BY <1>0, <2>1
        <3> QED
            BY <1>0, <2>1, <3>1, DueNext DEF Due
    <2>3. /\ Len(got) - lastRead <= Due
          /\ Len(got) - lastRead = Due => buf = Message
          /\ conn = "up" => Len(sent) = Due + MsgLen
        BY <2>1 DEF RoundInv
    <2>4. /\ Len(got) <= Due + MsgLen
          /\ Len(got) = Due + MsgLen => Len(got) - lastRead = Due
        BY <1>0, <2>3
    <2>5. AlarmComesLate'
        <3>1. buf # Message => Len(got) - lastRead < Due
            BY <1>0, <2>3
        <3> QED
            BY <2>1, <2>2, <3>1 DEF AlarmComesLate
    <2> QED
        BY <2>1, <2>2, <2>3, <2>4, <2>5 DEF RoundInv
<1>8. CASE clientThread_close
    BY <1>8 DEF clientThread_close, RoundInv, AlarmComesLate
<1>9. CASE serverThread \/ serverThread_join \/ Receiver
    <2>1. /\ UNCHANGED <<cpc, round, got, lastRead, buf, reported, sent>>
          /\ conn' = "up" => conn = "up"
        BY <1>9 DEF serverThread, serverThread_join, Receiver, receiveHandler_accept,
                    receiveHandler_read,
                    receiveHandler_write, receiveHandler_exhausted
    <2> QED
        BY <2>1, RoundKept
<1>10. CASE Time \/ UNCHANGED echoVars
    <2>1. UNCHANGED <<cpc, round, got, lastRead, buf, reported, sent, conn>>
        BY <1>10 DEF Time, echoVars, netVars
    <2> QED
        BY <2>1, RoundKept
<1> QED
    BY <1>1, <1>2, <1>3, <1>4, <1>5, <1>6, <1>7, <1>8, <1>9, <1>10 DEF NetNext, Client

\* Seconds and microseconds make up the time again.
LEMMA TimeOfDayExact ==
    ASSUME NEW t \in Nat, NEW U \in Nat, U > 0
    PROVE t \div U \in Int /\ t % U \in Int /\ U * (t \div U) + (t % U) = t
<1>1. t \div U \in Int
    BY SMT
<1>2. t % U \in Int
    BY SMT
<1>3. U * (t \div U) + (t % U) = t
    BY SMT
<1> QED
    BY <1>1, <1>2, <1>3

\* The stopwatch computes the time between its start and now, though it subtracts
\* seconds and microseconds apart.
LEMMA ElapsedExact ==
    ASSUME now \in Nat, m_begin \in Int \X Int
    PROVE /\ Elapsed \in Int
          /\ Elapsed = now - (UsecPerSec * m_begin[1] + m_begin[2])
<1> DEFINE sec == now \div UsecPerSec
<1> DEFINE usec == now % UsecPerSec
<1>1. sec \in Int /\ usec \in Int /\ UsecPerSec * sec + usec = now
    <2>1. UsecPerSec \in Nat /\ UsecPerSec > 0
        BY ClockAssumption
    <2> QED
        BY <2>1, TimeOfDayExact
<1>2. Elapsed = UsecPerSec * (sec - m_begin[1]) + usec - m_begin[2]
    BY DEF Elapsed, TimeOfDay
<1>3. m_begin[1] \in Int /\ m_begin[2] \in Int /\ UsecPerSec \in Int
    BY ClockAssumption
<1> HIDE DEF sec, usec
<1>4. UsecPerSec * (sec - m_begin[1]) = UsecPerSec * sec - UsecPerSec * m_begin[1]
    BY <1>1, <1>3
<1>5. UsecPerSec * sec \in Int /\ UsecPerSec * m_begin[1] \in Int
    BY <1>1, <1>3
<1> QED
    BY <1>1, <1>2, <1>3, <1>4, <1>5

\* A stopwatch that has just been started shows nothing.
LEMMA StartShowsNothing ==
    ASSUME now \in Nat, now' = now, m_begin' = TimeOfDay
    PROVE m_begin' \in Int \X Int /\ Elapsed' = 0
<1> DEFINE sec == now \div UsecPerSec
<1> DEFINE usec == now % UsecPerSec
<1>1. sec \in Int /\ usec \in Int /\ UsecPerSec \in Int
    <2>1. UsecPerSec \in Nat /\ UsecPerSec > 0
        BY ClockAssumption
    <2> QED
        BY <2>1, TimeOfDayExact
<1>2. m_begin' = <<sec, usec>> /\ Elapsed' = UsecPerSec * (sec - sec) + usec - usec
    BY DEF Elapsed, TimeOfDay
<1> HIDE DEF sec, usec
<1>3. sec - sec = 0 /\ UsecPerSec * 0 = 0
    BY <1>1
<1> QED
    BY <1>1, <1>2, <1>3

\* The stopwatch holds the time spent, in every step.
LEMMA ClockStep == TypeOK /\ ClockInv /\ [NetNext]_echoVars => ClockInv'
<1> SUFFICES ASSUME TypeOK, ClockInv, [NetNext]_echoVars PROVE ClockInv'
    OBVIOUS
<1>0. /\ now \in Nat /\ spent \in Int /\ m_timeByUSec \in Int /\ m_begin \in Int \X Int
      /\ Elapsed \in Int
    BY ElapsedExact DEF ClockInv
<1>a. ASSUME UNCHANGED <<clockVars, spent>>,
             cpc' \in {"connect", "begin"} => cpc \in {"connect", "begin"},
             cpc' = "killed" \/ (cpc' = "begin" /\ cpc = "connect")
                \/ (cpc \notin {"begin", "killed"} /\ Running' = Running)
      PROVE ClockInv'
    <2>1. /\ now' = now /\ m_begin' = m_begin /\ m_timeByUSec' = m_timeByUSec
          /\ spent' = spent
        BY <1>a DEF clockVars
    <2>2. Elapsed' = Elapsed
        BY <2>1 DEF Elapsed, TimeOfDay
    <2>3. ClockExact'
        BY <1>a, <2>1, <2>2 DEF ClockInv, ClockExact
    <2> QED
        BY <1>0, <1>a, <2>1, <2>3 DEF ClockInv
<1>1. CASE connect
    <2>1. UNCHANGED <<clockVars, spent>> /\ cpc = "connect" /\ cpc' = "begin"
        BY <1>1 DEF connect
    <2> QED
        BY <1>a, <2>1
<1>2. CASE clientThread_begin
    <2>1. /\ cpc = "begin" /\ cpc' = "begun" /\ spent' = spent /\ now' = now
          /\ m_begin' = TimeOfDay /\ m_timeByUSec' = 0
        BY <1>2 DEF clientThread_begin, begin
    <2>2. m_begin' \in Int \X Int /\ Elapsed' = 0
        BY <1>0, <2>1, StartShowsNothing
    <2>3. spent = 0
        BY <2>1 DEF ClockInv
    <2> QED
        BY <1>0, <2>1, <2>2, <2>3 DEF ClockInv, ClockExact
<1>3. CASE clientThread_stop \/ clientThread_stop_round
    <2>1. /\ cpc \in {"begun", "stop"} /\ cpc' \in {"loop", "check"} /\ spent' = spent
          /\ now' = now /\ m_begin' = m_begin /\ m_timeByUSec' = m_timeByUSec + Elapsed
        BY <1>3 DEF clientThread_stop, clientThread_stop_round, stop
    <2>2. spent = m_timeByUSec + Elapsed
        BY <2>1 DEF ClockInv, ClockExact, Running
    <2>3. ClockExact'
        BY <1>0, <2>1, <2>2 DEF ClockExact, Running
    <2> QED
        BY <1>0, <2>1, <2>3 DEF ClockInv
<1>4. CASE clientThread_resume
    <2>1. /\ cpc = "loop" /\ cpc' = "write" /\ spent' = spent /\ now' = now
          /\ m_begin' = TimeOfDay /\ m_timeByUSec' = m_timeByUSec
        BY <1>4 DEF clientThread_resume, resume
    <2>2. m_begin' \in Int \X Int /\ Elapsed' = 0
        BY <1>0, <2>1, StartShowsNothing
    <2>3. spent = m_timeByUSec + 0
        BY <2>1 DEF ClockInv, ClockExact, Running
    <2>4. ClockExact'
        BY <1>0, <2>1, <2>2, <2>3 DEF ClockExact, Running
    <2> QED
        BY <1>0, <2>1, <2>2, <2>4 DEF ClockInv
<1>5. CASE clientThread_write
    <2>1. UNCHANGED <<clockVars, spent>> /\ cpc = "write" /\ cpc' \in {"read", "killed"}
        BY <1>5 DEF clientThread_write
    <2> QED
        BY <1>a, <2>1 DEF Running
<1>6. CASE clientThread_read
    <2>1. UNCHANGED <<clockVars, spent>> /\ cpc = "read" /\ cpc' = "stop"
        BY <1>6 DEF clientThread_read
    <2> QED
        BY <1>a, <2>1 DEF Running
<1>7. CASE clientThread_check \/ clientThread_close
    <2>1. /\ UNCHANGED <<clockVars, spent>> /\ cpc \in {"check", "loop"}
          /\ cpc' \in {"loop", "ended"}
        BY <1>7 DEF clientThread_check, clientThread_close
    <2> QED
        BY <1>a, <2>1 DEF Running
<1>8. CASE serverThread \/ serverThread_join \/ Receiver \/ UNCHANGED echoVars
    <2>1. UNCHANGED <<clockVars, spent, cpc>>
        BY <1>8 DEF serverThread, serverThread_join, Receiver, receiveHandler_accept,
                    receiveHandler_read, receiveHandler_write, receiveHandler_exhausted,
                    echoVars, netVars
    <2>2. /\ now' = now /\ m_begin' = m_begin /\ m_timeByUSec' = m_timeByUSec
          /\ spent' = spent /\ cpc' = cpc
        BY <2>1 DEF clockVars
    <2> QED
        BY <2>2 DEF ClockInv, ClockExact, Running, Elapsed, TimeOfDay
<1>9. CASE Time
    <2>1. /\ now' = now + 1 /\ m_begin' = m_begin /\ m_timeByUSec' = m_timeByUSec
          /\ cpc' = cpc /\ spent' = IF Running THEN spent + 1 ELSE spent
        BY <1>9 DEF Time, Tick, netVars
    <2>2. now' \in Nat /\ m_begin' \in Int \X Int
        BY <1>0, <2>1
    <2>3. Elapsed' \in Int /\ Elapsed' = now' - (UsecPerSec * m_begin[1] + m_begin[2])
        <3>1. /\ UsecPerSec \in Nat /\ UsecPerSec > 0
              /\ m_begin[1] \in Int /\ m_begin[2] \in Int
            BY <1>0, ClockAssumption
        <3> DEFINE sec == now' \div UsecPerSec
        <3> DEFINE usec == now' % UsecPerSec
        <3>2. sec \in Int /\ usec \in Int /\ UsecPerSec * sec + usec = now'
            BY <2>2, <3>1, TimeOfDayExact
        <3>3. Elapsed' = UsecPerSec * (sec - m_begin[1]) + usec - m_begin[2]
            BY <2>1 DEF Elapsed, TimeOfDay
        <3> HIDE DEF sec, usec
        <3>4. UsecPerSec * (sec - m_begin[1]) = UsecPerSec * sec - UsecPerSec * m_begin[1]
            BY <3>1, <3>2
        <3>5. UsecPerSec * sec \in Int /\ UsecPerSec * m_begin[1] \in Int
            BY <3>1, <3>2
        <3> QED
            BY <3>1, <3>2, <3>3, <3>4, <3>5
    <2>4. Elapsed' = Elapsed + 1
        <3>1. Elapsed = now - (UsecPerSec * m_begin[1] + m_begin[2])
            BY <1>0, ElapsedExact
        <3>2. UsecPerSec * m_begin[1] + m_begin[2] \in Int
            BY <1>0, ClockAssumption
        <3> QED
            BY <1>0, <2>1, <2>3, <3>1, <3>2
    <2>5. Running' = Running
        BY <2>1 DEF Running
    <2>6. ClockExact'
        <3>1. CASE Running
            BY <1>0, <2>1, <2>4, <2>5, <3>1 DEF ClockInv, ClockExact
        <3>2. CASE ~Running
            BY <1>0, <2>1, <2>5, <3>2 DEF ClockInv, ClockExact
        <3> QED
            BY <3>1, <3>2
    <2>7. cpc \in {"connect", "begin"} => ~Running
        BY DEF Running
    <2> QED
        BY <1>0, <2>1, <2>2, <2>6, <2>7 DEF ClockInv
<1> QED
    BY <1>1, <1>2, <1>3, <1>4, <1>5, <1>6, <1>7, <1>8, <1>9 DEF NetNext, Client

\* The bytes a connected client has sent fit in the memory of the receiver.
LEMMA SentBound ==
    ASSUME TypeOK, RoundInv, HeapInv, conn = "up"
    PROVE Len(sent) < HeapCap
<1>1. /\ round \in Nat /\ TestCases \in Nat /\ round <= TestCases
      /\ cpc \in {"write", "read", "stop", "check"} => round + 1 <= TestCases
    BY EchoAssumption DEF TypeOK, HeapInv
<1>2. ASSUME NEW a \in Nat, a <= TestCases PROVE a * MsgLen <= TestCases * MsgLen
    BY <1>1, <1>2, Lengths
<1>3. Due + MsgLen = (round + 1) * MsgLen /\ Due = round * MsgLen
    BY <1>1, DueNext DEF Due
<1>4. Len(sent) = Due \/ (Len(sent) = Due + MsgLen /\ round + 1 <= TestCases)
    BY <1>1 DEF TypeOK, RoundInv, HeapInv
<1>5. Len(sent) <= TestCases * MsgLen
    <2>1. CASE Len(sent) = Due
        BY <1>1, <1>2, <1>3, <2>1
    <2>2. CASE Len(sent) = Due + MsgLen /\ round + 1 <= TestCases
        <3>1. round + 1 \in Nat
            BY <1>1
        <3>2. (round + 1) * MsgLen <= TestCases * MsgLen
            BY <1>2, <2>2, <3>1
        <3> QED
            BY <1>3, <2>2, <3>2
    <2> QED
        BY <1>4, <2>1, <2>2
<1>6. TestCases * MsgLen < HeapCap /\ TestCases * MsgLen \in Nat /\ HeapCap \in Nat
    BY EchoAssumption, Lengths, DueNext
<1>7. Len(sent) \in Nat
    BY DEF TypeOK
<1> QED
    BY <1>5, <1>6, <1>7

\* Every buffer is paid for by a byte, in every step.
LEMMA HeapStep == TypeOK /\ StreamInv /\ RoundInv /\ HeapInv /\ [NetNext]_echoVars => HeapInv'
<1> SUFFICES ASSUME TypeOK, StreamInv, RoundInv, HeapInv, [NetNext]_echoVars PROVE HeapInv'
    OBVIOUS
<1>0. /\ c2s \in Seq(Nat) /\ sent \in Seq(Nat) /\ buf \in Seq(Nat)
      /\ heap \in Nat /\ round \in Nat /\ TestCases \in Nat
      /\ Len(c2s) \in Nat /\ Len(sent) \in Nat /\ Len(buf) = MsgLen /\ MsgLen \in Nat
    <2>1. /\ c2s \in Seq(Nat) /\ sent \in Seq(Nat) /\ buf \in [1..MsgLen -> Nat]
          /\ heap \in Nat /\ round \in Nat
        BY DEF TypeOK, HeapInv
    <2>2. buf \in Seq(Nat) /\ Len(buf) = MsgLen
        BY <2>1, BufferSeq
    <2> QED
        BY <2>1, <2>2, EchoAssumption
<1>1. CASE connect
    <2>1. /\ cpc = "connect" /\ cpc' = "begin" /\ UNCHANGED <<spc, c2s, heap, round, sent>>
          /\ conn' = "up" => spc \in {"accept", "unserved"}
        BY <1>1 DEF connect
    <2>2. heap = 0 /\ c2s = <<>> /\ sent = <<>>
        BY <2>1 DEF HeapInv, StreamInv
    <2> QED
        <3>1. heap + Len(c2s) <= Len(sent)
            BY <2>2
        <3> QED
            BY <2>1, <3>1 DEF HeapInv, ReceiverLives
<1>2. CASE \/ clientThread_begin \/ clientThread_stop \/ clientThread_resume
           \/ clientThread_stop_round
    BY <1>0, <1>2 DEF clientThread_begin, clientThread_stop, clientThread_resume,
        clientThread_stop_round, HeapInv, ReceiverLives
<1>3. CASE clientThread_write
    <2>1. /\ cpc = "write" /\ cpc' \in {"read", "killed"}
          /\ cpc' = "killed" => conn # "up"
          /\ conn = "up" => c2s' = c2s \o buf /\ sent' = sent \o buf
          /\ UNCHANGED <<spc, conn, heap, round>>
        BY <1>3 DEF clientThread_write
    <2>2. /\ Len(c2s \o buf) = Len(c2s) + MsgLen
          /\ Len(sent \o buf) = Len(sent) + MsgLen
        BY <1>0, JoinedAt
    <2>3. conn = "up" => heap + Len(c2s') <= Len(sent')
        BY <1>0, <2>1, <2>2 DEF HeapInv
    <2> QED
        BY <2>1, <2>3 DEF HeapInv, ReceiverLives
<1>4. CASE clientThread_read
    BY <1>4 DEF clientThread_read, HeapInv, ReceiverLives
<1>5. CASE clientThread_check
    BY <1>0, <1>5 DEF clientThread_check, HeapInv, ReceiverLives
<1>6. CASE clientThread_close
    BY <1>6 DEF clientThread_close, HeapInv, ReceiverLives
<1>7. CASE serverThread \/ serverThread_join \/ receiveHandler_accept
    BY <1>7 DEF serverThread, serverThread_join, receiveHandler_accept, HeapInv,
        ReceiverLives
<1>8. CASE receiveHandler_read
    <2>1. /\ spc = "read" /\ spc' = "write" /\ heap' = heap + 1
          /\ UNCHANGED <<cpc, conn, round, sent>>
        BY <1>8 DEF receiveHandler_read
    <2>2. cpc # "connect"
        BY <2>1 DEF StreamInv
    <2>3. ASSUME conn = "up" PROVE Len(c2s') <= Len(c2s) - 1 /\ Len(c2s') \in Nat
        <3>1. PICK n \in 1..Len(c2s) : c2s' = SubSeq(c2s, n + 1, Len(c2s))
            BY <1>8, <2>3, ServerReadEffect
        <3>2. Len(c2s') = Len(c2s) - n
            BY <1>0, <3>1
        <3> QED
            BY <1>0, <3>1, <3>2
    <2>4. conn = "up" => heap' + Len(c2s') <= Len(sent)
        BY <1>0, <2>1, <2>3 DEF HeapInv
    <2> QED
        BY <1>0, <2>1, <2>2, <2>4 DEF HeapInv, ReceiverLives
<1>9. CASE receiveHandler_write
    BY <1>9 DEF receiveHandler_write, HeapInv, ReceiverLives
<1>10. CASE receiveHandler_exhausted
    <2>1. conn = "up" => heap < HeapCap
        <3>1. HeapCap \in Nat
            BY EchoAssumption
        <3> QED
            BY <1>0, <3>1, SentBound DEF HeapInv
    <2>2. conn # "up"
        <3>1. heap = HeapCap
            BY <1>10 DEF receiveHandler_exhausted
        <3> QED
            BY <1>0, <2>1, <3>1
    <2> QED
        BY <1>10, <2>2 DEF receiveHandler_exhausted, HeapInv, ReceiverLives
<1>11. CASE Time \/ UNCHANGED echoVars
    BY <1>11 DEF Time, echoVars, netVars, HeapInv, ReceiverLives
<1> QED
    BY <1>1, <1>2, <1>3, <1>4, <1>5, <1>6, <1>7, <1>8, <1>9, <1>10, <1>11
       DEF NetNext, Client, Receiver

\* The initial state satisfies the invariants.
LEMMA InitInv == NetInit => TypeOK /\ StreamInv /\ RoundInv /\ HeapInv /\ ClockInv
<1> SUFFICES ASSUME NetInit PROVE TypeOK /\ StreamInv /\ RoundInv /\ HeapInv /\ ClockInv
    OBVIOUS
<1>1. TypeOK
    <2>1. Message \in [1..MsgLen -> Nat] /\ MsgLen \in 0..MsgLen
        BY Lengths DEF Message
    <2> QED
        BY <2>1, NoBytes DEF NetInit, TypeOK
<1>2. StreamInv
    <2>1. <<>> = <<>> \o <<>> \o <<>> \o <<>>
        BY NoBytes, NothingJoined
    <2> QED
        BY <2>1 DEF NetInit, StreamInv, EchoConserves
<1>3. RoundInv
    <2>1. Due = 0 /\ Len(<<>>) = 0
        BY DueNext DEF NetInit, Due
    <2> QED
        BY <2>1 DEF NetInit, RoundInv, AlarmComesLate
<1>4. ClockInv
    BY DEF NetInit, ClockInit, ClockInv, ClockExact, Running
<1>5. HeapInv
    BY EchoAssumption DEF NetInit, HeapInv, ReceiverLives
<1> QED
    BY <1>1, <1>2, <1>3, <1>4, <1>5

\* Nothing is lost, added or reordered between the client and the server, for
\* every length of the message and of the buffer and however TCP cuts the streams.
THEOREM EchoConservesAlways == NetSpec => []EchoConserves
<1> DEFINE Inv == TypeOK /\ StreamInv
<1>1. NetInit => Inv
    BY InitInv
<1>2. Inv /\ [NetNext]_echoVars => Inv'
    BY TypeStep, StreamStep
<1>3. Inv => EchoConserves
    BY DEF StreamInv
<1> QED
    BY <1>1, <1>2, <1>3, PTL DEF NetSpec

\* "recv error" is reported only in a round that began with bytes of an earlier
\* round missing: the comparison never catches a failure of its own round, for
\* every length of the message and any number of rounds.
THEOREM AlarmComesLateAlways == NetSpec => []AlarmComesLate
<1> DEFINE Inv == TypeOK /\ StreamInv /\ RoundInv
<1>1. NetInit => Inv
    BY InitInv
<1>2. Inv /\ [NetNext]_echoVars => Inv'
    BY TypeStep, StreamStep, RoundStep
<1>3. Inv => AlarmComesLate
    BY DEF RoundInv
<1> QED
    BY <1>1, <1>2, <1>3, PTL DEF NetSpec

\* The receiver outlives the connection, for every length of the message and of the
\* buffer and any number of rounds: it neither runs out of memory nor gets SIGPIPE
\* while the client is there, if memory holds as many buffers as there are bytes to
\* send.
THEOREM ReceiverLivesAlways == NetSpec => []ReceiverLives
<1> DEFINE Inv == TypeOK /\ StreamInv /\ RoundInv /\ HeapInv
<1>1. NetInit => Inv
    BY InitInv
<1>2. Inv /\ [NetNext]_echoVars => Inv'
    BY TypeStep, StreamStep, RoundStep, HeapStep
<1>3. Inv => ReceiverLives
    BY DEF HeapInv
<1> QED
    BY <1>1, <1>2, <1>3, PTL DEF NetSpec

\* The stopwatch holds exactly the time between resume and stop, for any number of
\* microseconds in a second, any number of rounds and whenever time passes.
THEOREM ClockExactAlways == NetSpec => []ClockExact
<1> DEFINE Inv == TypeOK /\ ClockInv
<1>1. NetInit => Inv
    BY InitInv
<1>2. Inv /\ [NetNext]_echoVars => Inv'
    BY TypeStep, ClockStep
<1>3. Inv => ClockExact
    BY DEF ClockInv
<1> QED
    BY <1>1, <1>2, <1>3, PTL DEF NetSpec

-----------------------------------------------------------------------------
(* The disk test                                                            *)

\* The state is well typed.
DiskTypeOK ==
    /\ dpc \in {"construct", "open", "gen", "loop", "report"} \cup Ends
    /\ run \in Nat \ {0} /\ fileSize \in Int /\ i \in Nat
    /\ m_buf \in {"unset", "allocated", "filled"}
    /\ file \in Seq(Nat)
    /\ said \subseteq {"usage", "open error", "write error", "report"}

\* The records before the offset are whole and of this run, whatever file it found.
WrittenInv ==
    /\ i <= Len(file)
    /\ \A k \in 1..i : file[k] = run

\* What has been printed at each place; a report without a write error is reached
\* only at the end of the loop.
SaidInv ==
    /\ dpc \in {"construct", "open", "gen"} => i = 0
    /\ dpc \in {"construct", "open", "gen", "loop", "aborted", "crashed"} => said = {}
    /\ dpc = "exited" => "report" \notin said
    /\ dpc = "report" =>
        \/ said = {} /\ fileSize <= i
        \/ said = {"write error"}
    /\ dpc = "returned" =>
        \/ said = {"report"} /\ fileSize <= i
        \/ "write error" \in said

DiskInv == DiskTypeOK /\ WrittenInv /\ SaidInv

\* A write at the file offset keeps the records before it, and the file is as
\* long as the offset and one record more.
LEMMA PutEffect ==
    ASSUME NEW record \in Nat, DiskTypeOK, i <= Len(file), Put(record)
    PROVE /\ file' \in Seq(Nat) /\ i + 1 <= Len(file')
          /\ \A k \in 1..i : file'[k] = file[k]
          /\ file'[i + 1] = record
<1>0. i \in Nat /\ file \in Seq(Nat)
    BY DEF DiskTypeOK
<1>1. i \in Nat /\ file \in Seq(Nat) /\ Len(file) \in Nat
    BY <1>0
<1>2. CASE i < Len(file)
    <2>1. file' = [file EXCEPT ![i + 1] = record] /\ i + 1 \in 1..Len(file)
        BY <1>1, <1>2 DEF Put
    <2> QED
        BY <1>1, <2>1
<1>3. CASE ~(i < Len(file))
    <2>1. file' = Append(file, record) /\ Len(file) = i
        BY <1>1, <1>3 DEF Put
    <2> QED
        BY <1>1, <2>1
<1> QED
    BY <1>2, <1>3

\* The initial state satisfies the invariant.
LEMMA DiskInitInv == DiskInit => DiskInv
BY DEF DiskInit, DiskInv, DiskTypeOK, WrittenInv, SaidInv, Ends

\* Every step keeps the invariant.
LEMMA DiskInvStep == DiskInv /\ [DiskNext]_diskVars => DiskInv'
<1> SUFFICES ASSUME DiskInv, [DiskNext]_diskVars PROVE DiskInv'
    OBVIOUS
<1> USE DEF DiskInv
<1>1. CASE Rerun
    <2>1. /\ run' = run + 1 /\ dpc' = "construct" /\ i' = 0 /\ m_buf' = "unset"
          /\ said' = {} /\ file' = file /\ fileSize' \in -1..MaxRecords
        BY <1>1 DEF Rerun, diskmain
    <2>2. fileSize' \in Int
        BY <2>1
    <2>3. file \in Seq(Nat) /\ run \in Nat \ {0}
        BY DEF DiskTypeOK
    <2>4. Len(file) \in Nat /\ run + 1 \in Nat \ {0} /\ \A k \in 1..0 : FALSE
        BY <2>3
    <2>5. WrittenInv'
        BY <2>1, <2>4 DEF WrittenInv
    <2> QED
        BY <2>1, <2>2, <2>3, <2>4, <2>5 DEF DiskTypeOK, SaidInv
<1>2. CASE usage
    BY <1>2 DEF usage, DiskTypeOK, WrittenInv, SaidInv, Ends
<1>3. CASE Generate
    BY <1>3 DEF Generate, DiskTypeOK, WrittenInv, SaidInv
<1>4. CASE open
    BY <1>4 DEF open, DiskTypeOK, WrittenInv, SaidInv, Ends
<1>5. CASE genRecord
    BY <1>5 DEF genRecord, DiskTypeOK, WrittenInv, SaidInv, Ends
<1>6. CASE write
    <2>1. /\ dpc = "loop" /\ said = {} /\ run' = run /\ fileSize' = fileSize
          /\ m_buf' = m_buf
        BY <1>6 DEF write, SaidInv
    <2>2. CASE Put(run) /\ i' = i + 1 /\ UNCHANGED <<dpc, said>>
        <3>1. /\ file' \in Seq(Nat) /\ i + 1 <= Len(file')
              /\ \A k \in 1..i : file'[k] = file[k]
              /\ file'[i + 1] = run
            BY <2>2, PutEffect DEF DiskTypeOK, WrittenInv
        <3>0. i \in Nat
            BY DEF DiskTypeOK
        <3>2. \A k \in 1..(i + 1) : k \in 1..i \/ k = i + 1
            BY <3>0
        <3>3. WrittenInv'
            BY <2>1, <2>2, <3>1, <3>2 DEF WrittenInv
        <3> QED
            BY <2>1, <2>2, <3>1, <3>3 DEF DiskTypeOK, SaidInv
    <2>3. CASE Put(Torn) /\ dpc' = "aborted" /\ UNCHANGED <<i, said>>
        <3>1. /\ file' \in Seq(Nat) /\ i + 1 <= Len(file')
              /\ \A k \in 1..i : file'[k] = file[k]
            BY <2>3, PutEffect DEF DiskTypeOK, WrittenInv, Torn
        <3>2. WrittenInv'
            BY <2>1, <2>3, <3>1 DEF WrittenInv, DiskTypeOK
        <3> QED
            BY <2>1, <2>3, <3>1, <3>2 DEF DiskTypeOK, SaidInv, Ends
    <2>4. CASE /\ dpc' = "report" /\ said' = said \cup {"write error"}
               /\ UNCHANGED <<file, i>>
        BY <2>1, <2>4 DEF DiskTypeOK, WrittenInv, SaidInv
    <2> QED
        BY <1>6, <2>2, <2>3, <2>4 DEF write
<1>7. CASE loop_end
    BY <1>7 DEF loop_end, DiskTypeOK, WrittenInv, SaidInv
<1>8. CASE report
    BY <1>8 DEF report, DiskTypeOK, WrittenInv, SaidInv, Ends
<1>9. CASE DiskFinished \/ UNCHANGED diskVars
    BY <1>9 DEF DiskFinished, diskVars, DiskTypeOK, WrittenInv, SaidInv
<1> QED
    BY <1>1, <1>2, <1>3, <1>4, <1>5, <1>6, <1>7, <1>8, <1>9 DEF DiskNext

\* A report without a write error is true of the file, for every number of runs,
\* every number of records and whatever the runs before left in raw.txt.
THEOREM ReportHonestAlways == DiskSpec => []ReportHonest
<1>1. DiskInv => ReportHonest
    <2> SUFFICES ASSUME DiskInv, said = {"report"}
                 PROVE fileSize <= Len(file) /\ \A k \in 1..fileSize : file[k] = run
        BY DEF ReportHonest
    <2>1. dpc = "returned"
        BY DEF DiskInv, DiskTypeOK, SaidInv, Ends
    <2>2. fileSize <= i
        BY <2>1 DEF DiskInv, SaidInv
    <2>3. fileSize \in Int /\ i \in Nat /\ Len(file) \in Nat /\ i <= Len(file)
        BY DEF DiskInv, DiskTypeOK, WrittenInv
    <2>4. \A k \in 1..fileSize : k \in 1..i
        BY <2>2, <2>3
    <2> QED
        BY <2>2, <2>3, <2>4 DEF DiskInv, WrittenInv
<1> QED
    BY <1>1, DiskInitInv, DiskInvStep, PTL DEF DiskSpec
=============================================================================
