------------------------- MODULE RcResourcesProofs --------------------------
(***************************************************************************)
(* The invariants of RcResources for every limit of the descriptor table   *)
(* and either state of descriptor 0.                                       *)
(*                                                                         *)
(* FdInv says which descriptor is the connection, and that the kernel's    *)
(* next choice is never the one the connection has.  HeldInv is about      *)
(* ownership: Pending is what the release path under way will still        *)
(* release; that exists, and everything else that exists was refused once. *)
(* From there no object is released twice, and at the end only the refused *)
(* ones are left.                                                          *)
(***************************************************************************)
EXTENDS RcResources, TLAPS

\* The state is well typed.
TypeOK ==
    /\ role \in {"server", "client"} /\ stdin \in BOOLEAN
    /\ pc \in {"connect", "create", "cleanup", "use", "destroy", "exit", "aborted"}
    /\ at \in 1..10
    /\ pc \in {"cleanup", "destroy"} => at \in 1..7
    /\ fds \in [Fds -> {"free", "std", "sock", "ctx"}]
    /\ sock \in {-1} \cup Fds
    /\ ptr \subseteq Objects /\ held \subseteq Objects
    /\ failed \subseteq Objects /\ busy \subseteq {"pd", "cq"}
    /\ rc \in {0, 1}

FdInv ==
    /\ pc = "connect" =>
        /\ sock = -1
        /\ fds[0] = (IF stdin THEN "std" ELSE "free")
        /\ fds[1] = "std" /\ fds[2] = "std" /\ fds[3] = "free" /\ fds[4] = "free"
        /\ \A i \in Fds : fds[i] \in {"free", "std"}
    /\ pc = "create" /\ at <= 3 =>
        IF role = "client" THEN fds[0] = "free"
        ELSE fds[0] = "std" /\ fds[1] = "std" /\ fds[2] = "std" /\ fds[3] = "free"
    /\ pc \in {"create", "use"} => sock >= 0
    /\ pc \in {"create", "use", "cleanup", "destroy"} /\ sock >= 0 =>
        /\ fds[sock] = "sock" <=> sock # 0
        /\ stdin => sock # 0
    /\ \A i \in Fds : fds[i] = "sock" => i = sock /\ pc # "exit"
    /\ \A i \in Fds : fds[i] = "ctx" => "ctx" \in held

\* What resources_destroy has before it at its n-th call.
Todo(n) == {DestroyOrder[k] : k \in n..7}

\* What will still be released.
Pending ==
    IF pc = "exit" THEN {} ELSE IF pc = "destroy" THEN ptr \cap Todo(at) ELSE ptr

HeldInv ==
    /\ pc \in {"connect", "create", "use"} =>
        ptr = held /\ failed = {} /\ busy = {} /\ stray = {}
    /\ pc = "connect" \/ (pc = "create" /\ at = 1) => held = {}
    /\ pc = "use" \/ (pc = "create" /\ at >= 5) => "devlist" \notin held
    /\ pc = "create" /\ at >= 9 => "buf" \in held
    /\ pc = "cleanup" => \A k \in 1..7 : k < at => CleanupOrder[k] \notin ptr
    /\ Pending \subseteq held
    /\ held \subseteq Pending \cup failed \cup busy
    /\ rc = 0 => failed = {} /\ busy = {} /\ pc \in {"destroy", "exit"}
    /\ BusyHasCause
    /\ MrBacked

Inv == TypeOK /\ FdInv /\ HeldInv /\ NoStrayRelease

\* The calls of resources_create in their order.
LEMMA CreateOrder ==
    /\ Len(CreateSteps) = 10
    /\ CreateSteps[1] = "devlist" /\ CreateSteps[2] = "device" /\ CreateSteps[3] = "ctx"
    /\ CreateSteps[4] = "freelist" /\ CreateSteps[5] = "port" /\ CreateSteps[6] = "pd"
    /\ CreateSteps[7] = "cq" /\ CreateSteps[8] = "buf" /\ CreateSteps[9] = "mr"
    /\ CreateSteps[10] = "qp"
BY DEF CreateSteps

\* The releases of the failure path and of resources_destroy in their order.
LEMMA ReleaseOrder ==
    /\ Len(CleanupOrder) = 7 /\ Len(DestroyOrder) = 7
    /\ CleanupOrder[1] = "qp" /\ CleanupOrder[2] = "mr" /\ CleanupOrder[3] = "buf"
    /\ CleanupOrder[4] = "cq" /\ CleanupOrder[5] = "pd" /\ CleanupOrder[6] = "devlist"
    /\ CleanupOrder[7] = "sock"
    /\ DestroyOrder[1] = "qp" /\ DestroyOrder[2] = "mr" /\ DestroyOrder[3] = "buf"
    /\ DestroyOrder[4] = "cq" /\ DestroyOrder[5] = "pd" /\ DestroyOrder[6] = "ctx"
    /\ DestroyOrder[7] = "sock"
BY DEF CleanupOrder, DestroyOrder

\* The kernel's choice, where the lowest free descriptor is known.
LEMMA LowestIs ==
    ASSUME NEW f, NEW i \in Fds, f[i] = "free",
           \A j \in Fds : f[j] = "free" => i <= j
    PROVE LowestFree(f) = i
<1> DEFINE P(k) == f[k] = "free" /\ \A j \in Fds : f[j] = "free" => k <= j
<1>1. P(i)
    OBVIOUS
<1>2. \A k \in Fds : P(k) => k <= i /\ i <= k
    OBVIOUS
<1>3. \A k \in Fds : P(k) => k = i
    BY <1>2, MaxFdAssumption DEF Fds
<1>4. LowestFree(f) = CHOOSE k \in Fds : P(k)
    BY Zenon DEF LowestFree
<1> HIDE DEF P
<1> QED
    BY <1>1, <1>3, <1>4

\* The first descriptors exist.
LEMMA SmallFds ==
    /\ 0 \in Fds /\ 1 \in Fds /\ 2 \in Fds /\ 3 \in Fds /\ 4 \in Fds /\ -1 \notin Fds
    /\ Fds \subseteq Nat
BY MaxFdAssumption DEF Fds

\* A call of resources_destroy takes one object off its list.
LEMMA TodoStep ==
    ASSUME NEW n \in 1..7
    PROVE /\ DestroyOrder[n] \in Todo(n)
          /\ Todo(n + 1) = Todo(n) \ {DestroyOrder[n]}
          /\ Todo(8) = {}
          /\ Objects \ {"devlist"} \subseteq Todo(1)
<1>1. \A j, k \in 1..7 : DestroyOrder[j] = DestroyOrder[k] => j = k
    BY ReleaseOrder
<1>2. DestroyOrder[n] \in Todo(n)
    BY DEF Todo
<1>3. \A k \in n..7 : k \in 1..7 /\ (k = n \/ k \in (n + 1)..7)
    OBVIOUS
<1>4. \A k \in (n + 1)..7 : k \in n..7 /\ k \in 1..7 /\ k # n
    OBVIOUS
<1>5. Todo(n + 1) = Todo(n) \ {DestroyOrder[n]}
    BY <1>1, <1>3, <1>4 DEF Todo
<1>6. Todo(8) = {}
    BY DEF Todo
<1>7. Objects \ {"devlist"} \subseteq Todo(1)
    BY ReleaseOrder DEF Todo, Objects
<1> QED
    BY <1>2, <1>5, <1>6, <1>7

\* The initial state satisfies the invariant.
LEMMA InitInv == Init => Inv
<1> SUFFICES ASSUME Init PROVE Inv
    OBVIOUS
<1>1. TypeOK
    BY StdinsAssumption DEF Init, TypeOK
<1>2. FdInv
    BY SmallFds DEF Init, FdInv
<1>3. HeldInv
    BY DEF Init, HeldInv, Pending, BusyHasCause, MrBacked
<1>4. NoStrayRelease
    BY DEF Init, NoStrayRelease
<1> QED
    BY <1>1, <1>2, <1>3, <1>4 DEF Inv

\* sock_connect: the connection gets a descriptor that stays open, unless it is
\* descriptor 0 in a client that was started without standard input.
LEMMA ConnectStep == Inv /\ sock_connect => Inv'
<1> SUFFICES ASSUME Inv, sock_connect PROVE Inv'
    OBVIOUS
<1> USE DEF Inv
<1>1. /\ pc = "connect" /\ pc' = "create" /\ at' = 1
      /\ role = "server" => ListenFd > 0
      /\ UNCHANGED <<role, stdin, ptr, held, failed, busy, stray, rc>>
    BY DEF sock_connect
<1>2. /\ fds' = [[AfterListen EXCEPT ![LowestFree(AfterListen)] = "sock"]
                    EXCEPT ![ListenFd] = "free"]
      /\ sock' = LowestFree(AfterListen)
    BY DEF sock_connect
<1>3. /\ fds[0] = (IF stdin THEN "std" ELSE "free")
      /\ fds[1] = "std" /\ fds[2] = "std" /\ fds[3] = "free" /\ fds[4] = "free"
      /\ \A i \in Fds : fds[i] \in {"free", "std"}
      /\ fds \in [Fds -> {"free", "std", "sock", "ctx"}]
    BY <1>1 DEF FdInv, TypeOK
<1>4. \A i \in Fds : i = 0 \/ i = 1 \/ i = 2 \/ i >= 3
    BY SmallFds
<1>5. \A i \in Fds : i = 0 \/ i = 1 \/ i = 2 \/ i = 3 \/ i >= 4
    BY SmallFds
<1>6. LowestFree(fds) = IF stdin THEN 3 ELSE 0
    <2>1. CASE stdin
        <3>1. \A j \in Fds : fds[j] = "free" => 3 <= j
            BY <1>3, <1>4, <2>1
        <3> QED
            BY <1>3, <2>1, <3>1, SmallFds, LowestIs
    <2>2. CASE ~stdin
        <3>1. \A j \in Fds : 0 <= j
            BY SmallFds
        <3> QED
            BY <1>3, <2>2, <3>1, SmallFds, LowestIs
    <2> QED
        BY <2>1, <2>2
<1>7. FdInv' /\ fds' \in [Fds -> {"free", "std", "sock", "ctx"}] /\ sock' \in Fds
    <2>1. CASE role = "client"
        <3>1. ListenFd = 0 /\ AfterListen = fds
            BY <2>1 DEF ListenFd, AfterListen
        <3>2. /\ sock' = (IF stdin THEN 3 ELSE 0)
              /\ fds' = [[fds EXCEPT ![sock'] = "sock"] EXCEPT ![0] = "free"]
            BY <1>2, <1>6, <3>1
        <3> QED
            BY <1>1, <1>3, <2>1, <3>2, SmallFds DEF FdInv
    <2>2. CASE role = "server"
        <3>a. ListenFd = LowestFree(fds) /\ ListenFd > 0
            BY <1>1, <2>2 DEF ListenFd
        <3>b. stdin /\ ListenFd = 3
            BY <1>6, <3>a
        <3>1. stdin /\ ListenFd = 3 /\ AfterListen = [fds EXCEPT ![3] = "listen"]
            BY <2>2, <3>b DEF AfterListen
        <3>2. /\ AfterListen[0] = "std" /\ AfterListen[1] = "std" /\ AfterListen[2] = "std"
              /\ AfterListen[3] = "listen" /\ AfterListen[4] = "free"
            BY <1>3, <3>1, SmallFds
        <3>3. \A j \in Fds : AfterListen[j] = "free" => 4 <= j
            BY <1>5, <3>2
        <3>4. LowestFree(AfterListen) = 4
            BY <3>2, <3>3, SmallFds, LowestIs
        <3>5. /\ sock' = 4
              /\ fds' = [[[fds EXCEPT ![3] = "listen"] EXCEPT ![4] = "sock"]
                            EXCEPT ![3] = "free"]
            BY <1>2, <3>1, <3>4
        <3> QED
            BY <1>1, <1>3, <2>2, <3>1, <3>5, SmallFds DEF FdInv
    <2> QED
        BY <2>1, <2>2 DEF TypeOK
<1>8. TypeOK'
    BY <1>1, <1>7 DEF TypeOK
<1>9. HeldInv' /\ NoStrayRelease'
    BY <1>1 DEF HeldInv, Pending, BusyHasCause, MrBacked, NoStrayRelease
<1> QED
    BY <1>7, <1>8, <1>9

\* A failed sock_connect leaves no descriptor behind.
LEMMA ConnectFailsStep == Inv /\ (sock_connect_fails \/ sock_connect_asserts) => Inv'
<1> SUFFICES ASSUME Inv, sock_connect_fails \/ sock_connect_asserts PROVE Inv'
    OBVIOUS
<1> USE DEF Inv
<1>1. CASE sock_connect_asserts
    BY <1>1 DEF sock_connect_asserts, TypeOK, FdInv, HeldInv, Pending, BusyHasCause,
                MrBacked, NoStrayRelease
<1>2. CASE sock_connect_fails
    <2>1. /\ pc = "connect" /\ pc' = "cleanup" /\ at' = 1
          /\ fds' = [AfterListen EXCEPT ![ListenFd] = "free"]
          /\ UNCHANGED <<role, stdin, sock, ptr, held, failed, busy, stray, rc>>
        BY <1>2 DEF sock_connect_fails
    <2>2. /\ \A i \in Fds : fds[i] \in {"free", "std"}
          /\ fds \in [Fds -> {"free", "std", "sock", "ctx"}] /\ sock = -1
        BY <2>1 DEF FdInv, TypeOK
    <2>3. /\ fds' \in [Fds -> {"free", "std", "sock", "ctx"}]
          /\ \A i \in Fds : fds'[i] \in {"free", "std"}
        BY <2>1, <2>2 DEF AfterListen
    <2>4. FdInv'
        BY <2>1, <2>2, <2>3 DEF FdInv
    <2>5. TypeOK'
        BY <2>1, <2>3 DEF TypeOK
    <2>6. HeldInv' /\ NoStrayRelease'
        BY <2>1 DEF HeldInv, Pending, BusyHasCause, MrBacked, NoStrayRelease
    <2> QED
        BY <2>4, <2>5, <2>6
<1> QED
    BY <1>1, <1>2

\* A call of resources_create succeeds.
LEMMA CreateStep == Inv /\ resources_create => Inv'
<1> SUFFICES ASSUME Inv, resources_create PROVE Inv'
    OBVIOUS
<1> USE DEF Inv
<1>1. /\ pc = "create" /\ UNCHANGED <<role, stdin, sock, failed, busy, stray, rc>>
      /\ IF at = 10 THEN pc' = "use" /\ at' = 1 ELSE at' = at + 1 /\ pc' = pc
    BY CreateOrder DEF resources_create
<1>2. /\ ptr = held /\ failed = {} /\ busy = {} /\ stray = {} /\ sock >= 0
      /\ at \in 1..10 /\ sock \in Fds /\ rc = 1
    BY <1>1 DEF HeldInv, FdInv, TypeOK
<1>3. Call \in {"devlist", "device", "ctx", "freelist", "port", "pd", "cq", "buf", "mr",
                "qp"}
    BY <1>2, CreateOrder DEF Call
<1>4. /\ Call = "ctx" <=> at = 3
      /\ Call = "freelist" <=> at = 4
      /\ Call = "buf" <=> at = 8
      /\ Call = "mr" <=> at = 9
      /\ Call = "devlist" <=> at = 1
    BY <1>2, CreateOrder DEF Call
<1>5. /\ ptr' = held'
      /\ \/ held' = held \cup {Call} /\ Call \in Objects
         \/ held' = held \ {"devlist"} /\ Call = "freelist"
         \/ held' = held
      /\ Call \in Objects => Call \in held'
      /\ Call = "freelist" => "devlist" \notin held'
    BY <1>2, <1>3 DEF resources_create, Objects
<1>6. TypeOK' /\ FdInv'
    <2>1. CASE at = 3
        <3>1. fds' = [fds EXCEPT ![LowestFree(fds)] = "ctx"]
            BY <1>4, <2>1 DEF resources_create
        <3>2. PICK k \in Fds : fds[k] = "free" /\ LowestFree(fds) = k
            <4>1. CASE role = "client"
                <5>1. fds[0] = "free" /\ \A j \in Fds : 0 <= j
                    BY <1>1, <2>1, <4>1, SmallFds DEF FdInv
                <5> QED
                    BY <5>1, SmallFds, LowestIs
            <4>2. CASE role = "server"
                <5>1. fds[0] = "std" /\ fds[1] = "std" /\ fds[2] = "std" /\ fds[3] = "free"
                    BY <1>1, <2>1, <4>2 DEF FdInv
                <5>2. \A j \in Fds : fds[j] = "free" => 3 <= j
                    BY <5>1, SmallFds
                <5> QED
                    BY <5>1, <5>2, SmallFds, LowestIs
            <4> QED
                BY <4>1, <4>2 DEF TypeOK
        <3>3. /\ fds' \in [Fds -> {"free", "std", "sock", "ctx"}]
              /\ \A i \in Fds : fds'[i] = IF i = k THEN "ctx" ELSE fds[i]
            BY <3>1, <3>2 DEF TypeOK
        <3>4. "ctx" \in held'
            BY <1>4, <1>5, <2>1 DEF Objects
        <3>5. at' = 4 /\ pc' = "create"
            BY <1>1, <2>1
        <3>6. FdInv'
            BY <1>1, <1>2, <3>2, <3>3, <3>4, <3>5 DEF FdInv
        <3> QED
            BY <1>1, <1>2, <1>5, <3>3, <3>5, <3>6 DEF TypeOK
    <2>2. CASE at # 3
        <3>1. fds' = fds
            BY <1>4, <2>2 DEF resources_create
        <3>2. "ctx" \in held => "ctx" \in held'
            BY <1>5
        <3>3. pc' = "create" /\ at' <= 3 => pc = "create" /\ at <= 3
            BY <1>1, <1>2
        <3>4. at' \in 1..10 /\ pc' \in {"create", "use"}
            BY <1>1, <1>2
        <3>5. FdInv'
            BY <1>1, <1>2, <3>1, <3>2, <3>3, <3>4 DEF FdInv
        <3> QED
            BY <1>1, <1>2, <1>5, <3>1, <3>4, <3>5 DEF TypeOK
    <2> QED
        BY <2>1, <2>2
<1>7. HeldInv'
    <2>1. pc' \in {"create", "use"} /\ (pc' = "create" => at' = at + 1 /\ at' # 1)
        BY <1>1, <1>2
    <2>2. pc' = "use" \/ at' >= 5 => "devlist" \notin held'
        <3>1. at >= 5 => "devlist" \notin held
            BY <1>1 DEF HeldInv
        <3> QED
            BY <1>1, <1>2, <1>4, <1>5, <3>1
    <2>3. pc' = "create" /\ at' >= 9 => "buf" \in held'
        <3>1. at >= 9 => "buf" \in held
            BY <1>1 DEF HeldInv
        <3> QED
            BY <1>1, <1>2, <1>4, <1>5, <3>1 DEF Objects
    <2>4. MrBacked'
        <3>1. at >= 9 => "buf" \in held
            BY <1>1 DEF HeldInv
        <3>2. "mr" \in held => "buf" \in held
            BY <1>2 DEF HeldInv, MrBacked
        <3> QED
            BY <1>2, <1>4, <1>5, <3>1, <3>2 DEF MrBacked
    <2> QED
        BY <1>1, <1>2, <1>5, <2>1, <2>2, <2>3, <2>4 DEF HeldInv, Pending, BusyHasCause
<1> QED
    BY <1>1, <1>6, <1>7 DEF NoStrayRelease

\* A call of resources_create fails.
LEMMA CreateFailsStep == Inv /\ resources_create_fails => Inv'
<1> SUFFICES ASSUME Inv, resources_create_fails PROVE Inv'
    OBVIOUS
<1> USE DEF Inv
<1>1. /\ pc = "create" /\ pc' = "cleanup" /\ at' = 1
      /\ UNCHANGED <<role, stdin, fds, sock, failed, busy, stray, rc>>
    BY DEF resources_create_fails
<1>2. ptr = held /\ failed = {} /\ busy = {} /\ stray = {} /\ sock >= 0 /\ rc = 1
    BY <1>1 DEF HeldInv, FdInv, TypeOK
<1>3. /\ ptr' = held' /\ held' \subseteq Objects
      /\ held' = held \/ (held = {} /\ held' = {"devlist"})
    <2>1. Call = "devlist" => at = 1
        BY CreateOrder DEF Call, TypeOK
    <2>2. at = 1 => held = {}
        BY <1>1 DEF HeldInv
    <2> QED
        BY <1>2, <2>1, <2>2 DEF resources_create_fails, TypeOK, Objects
<1>4. TypeOK' /\ NoStrayRelease'
    BY <1>1, <1>3 DEF TypeOK, NoStrayRelease
<1>5. FdInv'
    BY <1>1, <1>3 DEF FdInv
<1>6. HeldInv'
    BY <1>1, <1>2, <1>3 DEF HeldInv, Pending, BusyHasCause, MrBacked
<1> QED
    BY <1>4, <1>5, <1>6

\* One release call on an object that exists, whose users exist no longer or
\* could not be released themselves.
LEMMA ReleaseEffect ==
    ASSUME TypeOK, HeldInv, NEW r \in held, NEW ok \in BOOLEAN,
           MayReturn(r, ok), Release(r, ok),
           \A u \in UsersOf(r) : u \in held => u \in failed,
           r = "buf" /\ "mr" \in held => "mr" \in failed
    PROVE /\ stray' = stray
          /\ held' \subseteq held /\ failed \subseteq failed' /\ busy \subseteq busy'
          /\ failed' \subseteq Objects /\ busy' \subseteq {"pd", "cq"}
          /\ held \ {r} \subseteq held'
          /\ r \in held' => r \in failed' \/ r \in busy'
          /\ ok => failed' = failed /\ busy' = busy
          /\ BusyHasCause' /\ MrBacked'
          /\ fds' \in [Fds -> {"free", "std", "sock", "ctx"}]
          /\ \A i \in Fds : fds'[i] = fds[i] \/ (fds'[i] = "free" /\ fds[i] = "ctx")
          /\ \A i \in Fds : fds'[i] = "ctx" => fds[i] = "ctx" /\ ("ctx" \in held => "ctx" \in held')
<1>0. /\ r \in Objects /\ stray' = stray /\ fds \in [Fds -> {"free", "std", "sock", "ctx"}]
      /\ failed \subseteq Objects /\ busy \subseteq {"pd", "cq"}
      /\ BusyHasCause /\ MrBacked
    BY DEF Release, TypeOK, HeldInv
<1>1. CASE ok
    <2>1. held' = held \ {r} /\ fds' = FdsWithout(r) /\ failed' = failed /\ busy' = busy
        BY <1>1 DEF Release
    <2>2. /\ fds' \in [Fds -> {"free", "std", "sock", "ctx"}]
          /\ \A i \in Fds : fds'[i] = fds[i] \/ (fds'[i] = "free" /\ fds[i] = "ctx")
          /\ \A i \in Fds : fds'[i] = "ctx" => fds[i] = "ctx" /\ r # "ctx"
        BY <1>0, <2>1 DEF FdsWithout, Objects
    <2>3. BusyHasCause' /\ MrBacked'
        BY <1>0, <2>1 DEF BusyHasCause, MrBacked
    <2> QED
        BY <1>0, <2>1, <2>2, <2>3
<1>2. CASE ~ok
    <2>1. held' = held /\ fds' = fds
        BY <1>2 DEF Release
    <2>2. CASE InUse(r)
        <3>1. busy' = busy \cup {r} /\ failed' = failed
            BY <1>2, <2>2 DEF Release
        <3>2. r \in {"pd", "cq"} /\ failed # {}
            BY <2>2 DEF InUse, UsersOf
        <3> QED
            BY <1>0, <1>2, <2>1, <3>1, <3>2 DEF BusyHasCause, MrBacked
    <2>3. CASE ~InUse(r)
        <3>1. failed' = failed \cup {r} /\ busy' = busy
            BY <1>2, <2>3 DEF Release
        <3> QED
            BY <1>0, <1>2, <2>1, <3>1 DEF BusyHasCause, MrBacked
    <2> QED
        BY <2>2, <2>3
<1> QED
    BY <1>1, <1>2

\* The failure path of resources_create.
LEMMA CleanupStep == Inv /\ resources_create_exit => Inv'
<1> SUFFICES ASSUME Inv, resources_create_exit PROVE Inv'
    OBVIOUS
<1> USE DEF Inv
<1> DEFINE r == CleanupOrder[at]
<1>1. /\ pc = "cleanup" /\ at \in 1..7 /\ UNCHANGED <<role, stdin, rc>>
      /\ IF at = 7 THEN pc' = "destroy" /\ at' = 1 ELSE at' = at + 1 /\ pc' = pc
    BY ReleaseOrder DEF resources_create_exit, Advance, TypeOK
<1>2. /\ Pending = ptr /\ ptr \subseteq held /\ held \subseteq ptr \cup failed \cup busy
      /\ \A k \in 1..7 : k < at => CleanupOrder[k] \notin ptr
      /\ rc = 1 /\ MrBacked /\ BusyHasCause
    BY <1>1 DEF HeldInv, Pending, TypeOK
<1>3. \/ /\ r \in ptr
         /\ \E ok \in BOOLEAN : MayReturn(r, ok) /\ Release(r, ok)
         /\ ptr' = ptr \ {r} /\ sock' = sock
      \/ /\ r = "sock" /\ sock >= 0 /\ CloseSock /\ sock' = -1 /\ ptr' = ptr
      \/ /\ r \notin ptr /\ (r = "sock" => sock < 0)
         /\ UNCHANGED <<fds, sock, ptr, held, failed, busy, stray>>
    BY DEF resources_create_exit, Nulled
<1>4. r = "sock" <=> at = 7
    BY <1>1, ReleaseOrder
<1>5. /\ r = "pd" => CleanupOrder[1] \notin ptr /\ CleanupOrder[2] \notin ptr
      /\ r = "cq" => CleanupOrder[1] \notin ptr
      /\ r = "buf" => CleanupOrder[2] \notin ptr
    <2>1. (r = "pd" => at = 5) /\ (r = "cq" => at = 4) /\ (r = "buf" => at = 3)
        BY <1>1, ReleaseOrder
    <2> QED
        BY <1>2, <2>1
<1>6. /\ \A u \in UsersOf(r) : u \in held => u \in failed
      /\ r = "buf" /\ "mr" \in held => "mr" \in failed
    <2>1. \A u \in {"mr", "qp"} : u \in held /\ u \notin ptr => u \in failed
        BY <1>2 DEF TypeOK
    <2> QED
        BY <1>5, <2>1, ReleaseOrder DEF UsersOf
<1>7. /\ NoStrayRelease' /\ BusyHasCause' /\ MrBacked'
      /\ ptr' \subseteq ptr /\ r \notin ptr' /\ ptr' \subseteq held'
      /\ held' \subseteq ptr' \cup failed' \cup busy'
      /\ held' \subseteq Objects /\ failed' \subseteq Objects /\ busy' \subseteq {"pd", "cq"}
      /\ fds' \in [Fds -> {"free", "std", "sock", "ctx"}] /\ sock' \in {-1} \cup Fds
      /\ FdInv'
    <2>1. CASE r \in ptr
        <3>1. PICK ok \in BOOLEAN : MayReturn(r, ok) /\ Release(r, ok)
            BY <1>3, <2>1 DEF TypeOK, Objects
        <3>2. ptr' = ptr \ {r} /\ sock' = sock /\ r \in held
            BY <1>2, <1>3, <2>1 DEF TypeOK, Objects
        <3>3. /\ stray' = stray
              /\ held' \subseteq held /\ failed \subseteq failed' /\ busy \subseteq busy'
              /\ failed' \subseteq Objects /\ busy' \subseteq {"pd", "cq"}
              /\ held \ {r} \subseteq held'
              /\ r \in held' => r \in failed' \/ r \in busy'
              /\ BusyHasCause' /\ MrBacked'
              /\ fds' \in [Fds -> {"free", "std", "sock", "ctx"}]
              /\ \A i \in Fds : fds'[i] = fds[i] \/ (fds'[i] = "free" /\ fds[i] = "ctx")
              /\ \A i \in Fds :
                    fds'[i] = "ctx" => fds[i] = "ctx" /\ ("ctx" \in held => "ctx" \in held')
            BY <1>6, <3>1, <3>2, ReleaseEffect
        <3>4. FdInv'
            BY <1>1, <3>2, <3>3 DEF FdInv, TypeOK
        <3> QED
            BY <1>1, <1>2, <3>2, <3>3, <3>4 DEF TypeOK, NoStrayRelease
    <2>2. CASE r = "sock" /\ sock >= 0
        <3>1. CloseSock /\ sock' = -1 /\ ptr' = ptr
            BY <1>3, <2>2 DEF TypeOK, Objects
        <3>2. /\ fds' = [fds EXCEPT ![sock] = "free"] /\ UNCHANGED <<held, failed, busy>>
              /\ stray' = IF fds[sock] = "sock" THEN stray ELSE stray \cup {"sock"}
              /\ sock \in Fds
            BY <2>2, <3>1 DEF CloseSock, TypeOK
        <3>3. stdin => fds[sock] = "sock"
            BY <1>1, <2>2 DEF FdInv
        <3>4. FdInv'
            BY <1>1, <3>1, <3>2, SmallFds DEF FdInv, TypeOK
        <3>5. r \notin ptr
            BY <2>2 DEF TypeOK, Objects
        <3> QED
            BY <1>1, <1>2, <3>1, <3>2, <3>3, <3>4, <3>5
            DEF TypeOK, NoStrayRelease, BusyHasCause, MrBacked
    <2>3. CASE r \notin ptr /\ (r = "sock" => sock < 0)
        <3>0. ~(sock >= 0 /\ sock < 0)
            BY SmallFds DEF TypeOK
        <3>1. UNCHANGED <<fds, sock, ptr, held, failed, busy, stray>>
            BY <1>3, <2>3, <3>0
        <3>2. FdInv'
            BY <1>1, <3>1 DEF FdInv
        <3> QED
            BY <1>1, <1>2, <2>3, <3>1, <3>2
            DEF TypeOK, NoStrayRelease, BusyHasCause, MrBacked
    <2> QED
        BY <2>1, <2>2, <2>3, <1>3
<1> HIDE DEF r
<1>8. TypeOK'
    BY <1>1, <1>7 DEF TypeOK
<1>9. Pending' = ptr'
    <2>1. CASE at # 7
        BY <1>1, <2>1 DEF Pending
    <2>2. CASE at = 7
        <3>1. pc' = "destroy" /\ at' = 1
            BY <1>1, <2>2
        <3>2. CleanupOrder[6] \notin ptr
            BY <1>2, <2>2
        <3>3. ptr' \subseteq Objects \ {"devlist"}
            BY <1>7, <3>2, ReleaseOrder DEF TypeOK
        <3>4. Objects \ {"devlist"} \subseteq Todo(1)
            BY TodoStep
        <3> QED
            BY <3>1, <3>3, <3>4 DEF Pending
    <2> QED
        BY <2>1, <2>2
<1>10. pc' = "cleanup" => \A k \in 1..7 : k < at' => CleanupOrder[k] \notin ptr'
    BY <1>1, <1>2, <1>7 DEF r
<1>11. HeldInv'
    BY <1>1, <1>2, <1>7, <1>9, <1>10 DEF HeldInv
<1> QED
    BY <1>7, <1>8, <1>11

\* resources_destroy.
LEMMA DestroyStep == Inv /\ resources_destroy => Inv'
<1> SUFFICES ASSUME Inv, resources_destroy PROVE Inv'
    OBVIOUS
<1> USE DEF Inv
<1> DEFINE r == DestroyOrder[at]
<1>1. /\ pc = "destroy" /\ at \in 1..7 /\ UNCHANGED <<role, stdin, sock, ptr>>
      /\ IF at = 7 THEN pc' = "exit" /\ at' = 1 ELSE at' = at + 1 /\ pc' = pc
    BY ReleaseOrder DEF resources_destroy, Advance, TypeOK
<1>2. /\ Pending = ptr \cap Todo(at) /\ Pending \subseteq held
      /\ held \subseteq Pending \cup failed \cup busy
      /\ MrBacked /\ BusyHasCause
      /\ rc = 0 => failed = {} /\ busy = {}
    BY <1>1 DEF HeldInv, Pending
<1>3. \/ /\ r \in ptr
         /\ \E ok \in BOOLEAN :
                MayReturn(r, ok) /\ Release(r, ok) /\ rc' = IF ok THEN rc ELSE 1
      \/ r = "sock" /\ sock >= 0 /\ CloseSock /\ rc' \in {rc, 1}
      \/ /\ r \notin ptr /\ (r = "sock" => sock < 0)
         /\ UNCHANGED <<fds, held, failed, busy, stray, rc>>
    BY DEF resources_destroy
<1>4. /\ r \in Todo(at) /\ Todo(at + 1) = Todo(at) \ {r} /\ Todo(8) = {}
      /\ r = "sock" <=> at = 7
    BY <1>1, ReleaseOrder, TodoStep
<1>5. Pending' = Pending \ {r}
    <2>1. CASE at = 7
        <3>1. Todo(at) \ {r} = {}
            BY <1>4, <2>1
        <3> QED
            BY <1>1, <1>2, <2>1, <3>1 DEF Pending
    <2>2. CASE at # 7
        BY <1>1, <1>2, <1>4, <2>2 DEF Pending
    <2> QED
        BY <2>1, <2>2
<1>6. /\ \A u \in UsersOf(r) : u \in held => u \in failed
      /\ r = "buf" /\ "mr" \in held => "mr" \in failed
    <2>1. \A u \in {"mr", "qp"} : u \in held /\ u \notin Todo(at) => u \in failed
        BY <1>2 DEF TypeOK
    <2>2. /\ r = "pd" => "mr" \notin Todo(at) /\ "qp" \notin Todo(at)
          /\ r = "cq" => "qp" \notin Todo(at)
          /\ r = "buf" => "mr" \notin Todo(at)
        <3>1. (r = "pd" => at = 5) /\ (r = "cq" => at = 4) /\ (r = "buf" => at = 3)
            BY <1>1, ReleaseOrder
        <3>2. /\ \A k \in 5..7 : DestroyOrder[k] \notin {"mr", "qp"}
              /\ \A k \in 4..7 : DestroyOrder[k] # "qp"
              /\ \A k \in 3..7 : DestroyOrder[k] # "mr"
            BY ReleaseOrder
        <3> QED
            BY <3>1, <3>2 DEF Todo
    <2> QED
        BY <2>1, <2>2 DEF UsersOf
<1>7. /\ NoStrayRelease' /\ BusyHasCause' /\ MrBacked'
      /\ Pending' \subseteq held' /\ held' \subseteq Pending' \cup failed' \cup busy'
      /\ held' \subseteq Objects /\ failed' \subseteq Objects /\ busy' \subseteq {"pd", "cq"}
      /\ fds' \in [Fds -> {"free", "std", "sock", "ctx"}]
      /\ rc' \in {0, 1} /\ (rc' = 0 => failed' = {} /\ busy' = {})
      /\ FdInv'
    <2>1. CASE r \in ptr
        <3>1. PICK ok \in BOOLEAN :
                MayReturn(r, ok) /\ Release(r, ok) /\ rc' = IF ok THEN rc ELSE 1
            BY <1>3, <2>1 DEF TypeOK, Objects
        <3>2. r \in held
            BY <1>2, <1>4, <2>1
        <3>3. /\ stray' = stray
              /\ held' \subseteq held /\ failed \subseteq failed' /\ busy \subseteq busy'
              /\ failed' \subseteq Objects /\ busy' \subseteq {"pd", "cq"}
              /\ held \ {r} \subseteq held'
              /\ r \in held' => r \in failed' \/ r \in busy'
              /\ ok => failed' = failed /\ busy' = busy
              /\ BusyHasCause' /\ MrBacked'
              /\ fds' \in [Fds -> {"free", "std", "sock", "ctx"}]
              /\ \A i \in Fds : fds'[i] = fds[i] \/ (fds'[i] = "free" /\ fds[i] = "ctx")
              /\ \A i \in Fds :
                    fds'[i] = "ctx" => fds[i] = "ctx" /\ ("ctx" \in held => "ctx" \in held')
            BY <1>6, <3>1, <3>2, ReleaseEffect
        <3>4. at # 7 /\ pc' = "destroy"
            BY <1>1, <1>4, <2>1 DEF TypeOK, Objects
        <3>5. FdInv'
            BY <1>1, <3>3, <3>4 DEF FdInv, TypeOK
        <3>6. rc' \in {0, 1} /\ (rc' = 0 => failed' = {} /\ busy' = {})
            <4>1. CASE ok
                BY <1>2, <3>1, <3>3, <4>1 DEF TypeOK
            <4>2. CASE ~ok
                BY <3>1, <4>2
            <4> QED
                BY <4>1, <4>2
        <3>7. Pending' \subseteq held' /\ held' \subseteq Pending' \cup failed' \cup busy'
            BY <1>2, <1>5, <3>3
        <3> QED
            BY <1>1, <3>3, <3>5, <3>6, <3>7 DEF TypeOK, NoStrayRelease
    <2>2. CASE r = "sock" /\ sock >= 0
        <3>1. CloseSock /\ rc' \in {rc, 1}
            BY <1>3, <2>2 DEF TypeOK, Objects
        <3>2. /\ fds' = [fds EXCEPT ![sock] = "free"] /\ UNCHANGED <<held, failed, busy>>
              /\ stray' = IF fds[sock] = "sock" THEN stray ELSE stray \cup {"sock"}
              /\ sock \in Fds
            BY <2>2, <3>1 DEF CloseSock, TypeOK
        <3>3. stdin => fds[sock] = "sock"
            BY <1>1, <2>2 DEF FdInv
        <3>4. pc' = "exit"
            BY <1>1, <1>4, <2>2
        <3>5. FdInv'
            BY <1>1, <3>2, <3>4 DEF FdInv, TypeOK
        <3>6. "sock" \notin Pending
            BY <1>2 DEF TypeOK, Objects
        <3>7. Pending' \subseteq held' /\ held' \subseteq Pending' \cup failed' \cup busy'
            BY <1>2, <1>5, <2>2, <3>2, <3>6
        <3> QED
            BY <1>1, <1>2, <3>1, <3>2, <3>3, <3>5, <3>7
            DEF TypeOK, NoStrayRelease, BusyHasCause, MrBacked
    <2>3. CASE r \notin ptr /\ (r = "sock" => sock < 0)
        <3>0. ~(sock >= 0 /\ sock < 0)
            BY SmallFds DEF TypeOK
        <3>1. UNCHANGED <<fds, held, failed, busy, stray, rc>>
            BY <1>3, <2>3, <3>0
        <3>2. FdInv'
            <4>1. pc' = "exit" => \A i \in Fds : fds[i] # "sock"
                BY <1>1, <1>4, <2>3, <3>0, SmallFds DEF FdInv
            <4> QED
                BY <1>1, <3>1, <4>1 DEF FdInv
        <3>3. Pending' = Pending
            BY <1>2, <1>5, <2>3
        <3> QED
            BY <1>1, <1>2, <3>1, <3>2, <3>3
            DEF TypeOK, NoStrayRelease, BusyHasCause, MrBacked
    <2> QED
        BY <2>1, <2>2, <2>3, <1>3
<1> HIDE DEF r
<1>8. TypeOK'
    BY <1>1, <1>7 DEF TypeOK
<1>9. HeldInv'
    BY <1>1, <1>7 DEF HeldInv
<1> QED
    BY <1>7, <1>8, <1>9

\* Every step keeps the invariant.
LEMMA InvStep == Inv /\ [Next]_vars => Inv'
<1> SUFFICES ASSUME Inv, [Next]_vars PROVE Inv'
    OBVIOUS
<1>1. CASE transfer
    <2> USE DEF Inv
    <2>1. /\ pc = "use" /\ pc' = "destroy" /\ at' = 1 /\ rc' \in {0, 1}
          /\ UNCHANGED <<role, stdin, fds, sock, ptr, held, failed, busy, stray>>
        BY <1>1 DEF transfer
    <2>2. TypeOK' /\ NoStrayRelease'
        BY <2>1 DEF TypeOK, NoStrayRelease
    <2>3. FdInv'
        BY <2>1 DEF FdInv
    <2>4. ptr = held /\ failed = {} /\ busy = {} /\ "devlist" \notin ptr /\ ptr \subseteq Objects
        BY <2>1 DEF HeldInv, TypeOK
    <2>5. Pending' = ptr
        <3>1. Objects \ {"devlist"} \subseteq Todo(1)
            BY TodoStep
        <3> QED
            BY <2>1, <2>4, <3>1 DEF Pending
    <2>6. HeldInv'
        BY <2>1, <2>4, <2>5 DEF HeldInv, BusyHasCause, MrBacked
    <2> QED
        BY <2>2, <2>3, <2>6
<1>2. CASE Finished \/ UNCHANGED vars
    <2>1. UNCHANGED <<role, stdin, pc, at, fds, sock, ptr, held, failed, busy, stray, rc>>
        BY <1>2 DEF Finished, vars
    <2>2. TypeOK' /\ NoStrayRelease'
        BY <2>1 DEF Inv, TypeOK, NoStrayRelease
    <2>3. FdInv'
        BY <2>1 DEF Inv, FdInv
    <2>4. HeldInv'
        BY <2>1 DEF Inv, HeldInv, Pending, BusyHasCause, MrBacked
    <2> QED
        BY <2>2, <2>3, <2>4 DEF Inv
<1> QED
    BY <1>1, <1>2, ConnectStep, ConnectFailsStep, CreateStep, CreateFailsStep, CleanupStep,
       DestroyStep DEF Next

\* The inductive invariant holds in every reachable state.
LEMMA Invariance == Spec => []Inv
BY InitInv, InvStep, PTL DEF Spec

\* Nothing is released twice and close(res->sock) closes the connection and
\* nothing else, in a process that started with descriptor 0 open, whichever call
\* of resources_create or of a release path failed.
THEOREM NoStrayReleaseAlways == Spec => []NoStrayRelease
<1>1. Inv => NoStrayRelease
    BY DEF Inv
<1> QED
    BY <1>1, Invariance, PTL

\* The verbs refuse a release as busy only after another release had failed: the
\* orders of both release paths respect the dependencies.
THEOREM BusyHasCauseAlways == Spec => []BusyHasCause
<1>1. Inv => BusyHasCause
    BY DEF Inv, HeldInv
<1> QED
    BY <1>1, Invariance, PTL

\* res.buf is freed under a registered memory region only after ibv_dereg_mr has
\* failed, on every path.
THEOREM MrBackedAlways == Spec => []MrBacked
<1>1. Inv => MrBacked
    BY DEF Inv, HeldInv
<1> QED
    BY <1>1, Invariance, PTL

\* At the end of rcmain only what a failing release left is still held, no
\* descriptor of the program is open but for the device's, and a rest is reported.
THEOREM AllReleasedAlways == Spec => []AllReleased
<1>1. Inv => AllReleased
    <2> SUFFICES ASSUME Inv, pc = "exit"
                 PROVE /\ held \subseteq failed \cup busy
                       /\ \A i \in Fds : \/ fds[i] \in {"free", "std"}
                                         \/ fds[i] = "ctx" /\ "ctx" \in failed
                       /\ held # {} => rc = 1
        BY DEF AllReleased
    <2>1. held \subseteq failed \cup busy
        BY DEF Inv, HeldInv, Pending
    <2>2. held # {} => rc = 1
        BY <2>1 DEF Inv, HeldInv, TypeOK
    <2>3. ASSUME NEW i \in Fds
          PROVE fds[i] \in {"free", "std"} \/ (fds[i] = "ctx" /\ "ctx" \in failed)
        BY <2>1 DEF Inv, FdInv, TypeOK
    <2> QED
        BY <2>1, <2>2, <2>3
<1> QED
    BY <1>1, Invariance, PTL

\* The socket that sock_connect returned is the connection for as long as it is
\* used, unless it is descriptor 0.
THEOREM SockLiveAlways == Spec => []SockLive
<1>1. Inv => SockLive
    BY DEF Inv, FdInv, SockLive
<1> QED
    BY <1>1, Invariance, PTL
=============================================================================
