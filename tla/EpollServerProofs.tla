------------------------- MODULE EpollServerProofs -------------------------
(***************************************************************************)
(* Safety of EpollServer for any number of clients, descriptors and events *)
(* of a call, and any message and buffer size.                             *)
(***************************************************************************)
EXTENDS EpollServer, TcpLemmas

Steps == {"wait", "loop", "accept", "read", "write", "ended", "killed"}

(* The descriptors: each open one stands for one accepted connection, none *)
(* but open ones are listed, and the one that is being drained is not in   *)
(* the batch any more.                                                     *)
Numbered ==
  /\ ready \subseteq OpenFds /\ batch \cap Fds \subseteq OpenFds
  /\ pc \in {"read", "write", "killed"} => fd \in OpenFds \ batch
  /\ \A f \in OpenFds : Accepted(conn[f])
  /\ \A f, g \in OpenFds : conn[f] = conn[g] => f = g
  /\ pc = "wait" => batch = {}

Inv == TypeOK /\ Numbered /\ NoLostEdge

(* The variables one by one, as the provers like them. *)
LEMMA Types ==
  ASSUME TypeOK
  PROVE  /\ Sockets /\ tcp \in [Conns -> Connection]
         /\ conn \in [Fds -> Conns \cup {NONE}]
         /\ ready \subseteq Fds /\ batch \subseteq Fds \cup {Serv}
         /\ pc \in Steps /\ fd \in Fds \cup {Serv}
         /\ buf \in Buffer /\ buf \in Stream
         /\ \A f \in OpenFds : f \in Fds /\ conn[f] \in Conns
         /\ Serv \notin Fds /\ NONE \notin Conns
BY EpollAssumption, DescriptorAssumption
DEF TypeOK, Sockets, Buffer, Steps, OpenFds

(* The set of descriptors holds only the listening socket at first. *)
LEMMA InitInv == Init => Inv
<1> SUFFICES ASSUME Init PROVE Inv
  OBVIOUS
<1>1. tcp \in [Conns -> Connection]
  BY SocketsInit DEF Init, Sockets
<1>2. << >> \in Buffer
  BY TcpAssumption DEF Buffer, Stream
<1>3. OpenFds = {}
  BY DEF Init, AllClosed, OpenFds
<1>4. TypeOK
  BY <1>1, <1>2 DEF Init, AllClosed, TypeOK
<1>5. Numbered /\ NoLostEdge
  BY <1>3 DEF Init, Numbered, NoLostEdge
<1> QED
  BY <1>4, <1>5 DEF Inv

(* A client or the network touches one connection. *)
LEMMA OutsideOthers ==
  ASSUME Sockets, NEW c \in Conns, Outside(c)
  PROVE  Others(c)
BY DEF Outside, Connect, Send, Receive, Close, ResetArrives, Others, Sockets

(* What makes a connection readable is an edge. *)
LEMMA EdgesTell ==
  ASSUME NEW c \in Conns, ~Edge(c)
  PROVE  Readable(c)' <=> Readable(c)
BY DEF Edge, Readable, Is

(* The clients' and the network's steps, each of which reports its edge *)
LEMMA OutsideStep ==
  ASSUME Inv, NEW c \in Conns, OutsideEvent(c)
  PROVE  Inv'
<1>1. Outside(c) /\ UNCHANGED <<conn, batch, pc, fd, buf>> /\ Others(c) /\ Sockets
  BY Types, OutsideOthers DEF Inv, OutsideEvent
<1>2. Kept
  BY <1>1, OutsideSockets
<1>3. OpenFds' = OpenFds /\ \A f \in OpenFds : f \in Fds /\ conn[f] \in Conns
  BY <1>1, Types DEF Inv, OpenFds
<1>4. ready \subseteq ready' /\ ready' \subseteq Fds
  BY Types DEF Inv, OutsideEvent
<1>5. ready' \subseteq OpenFds
  BY DescriptorAssumption DEF Inv, Numbered, OutsideEvent, OpenFds
<1>6. TypeOK'
  BY <1>1, <1>2, <1>4, Types DEF Inv, TypeOK, Kept, Sockets
<1>7. Numbered'
  BY <1>1, <1>2, <1>3, <1>5 DEF Inv, Numbered, Kept, Accepted
<1>8. NoLostEdge'
  <2> SUFFICES ASSUME NEW f \in OpenFds, Readable(conn[f])',
                      f \notin ready \cup batch,
                      ~(f = fd /\ pc \in {"read", "write", "killed"})
               PROVE  f \in ready'
    BY <1>1, <1>3, <1>4 DEF NoLostEdge
  <2>1. ~Readable(conn[f]) /\ conn' = conn
    BY <1>1 DEF Inv, NoLostEdge
  <2>2. conn[f] = c
    BY <1>1, <1>3, <2>1 DEF Others, Readable, Is
  <2>3. Edge(c)
    BY <2>1, <2>2, EdgesTell
  <2> QED
    BY <2>2, <2>3, <1>3 DEF OutsideEvent
<1> QED
  BY <1>6, <1>7, <1>8 DEF Inv

(* epoll_wait() forgets only descriptors that are not readable. *)
LEMMA WaitStep ==
  ASSUME Inv, EpollWait
  PROVE  Inv'
<1>1. /\ pc = "wait" /\ pc' = "loop" /\ UNCHANGED <<tcp, conn, fd, buf>>
      /\ batch' \subseteq Reported /\ ready' = (ready \cap Reported) \ batch'
  BY DEF EpollWait
<1>2. Reported \subseteq ready \cup {Serv}
  BY DEF Reported
<1>3. OpenFds' = OpenFds
  BY <1>1 DEF OpenFds
<1>4. TypeOK'
  BY <1>1, <1>2, Types DEF Inv, TypeOK
<1>5. Numbered'
  BY <1>1, <1>2, <1>3, Types DEF Inv, Numbered, Accepted
<1>6. NoLostEdge'
  <2> SUFFICES ASSUME NEW f \in OpenFds, Readable(conn[f])
               PROVE  f \in ready' \cup batch'
    BY <1>1, <1>3 DEF NoLostEdge, Readable, Is
  <2>1. f \in ready
    BY <1>1 DEF Inv, Numbered, NoLostEdge
  <2>2. f \in Reported
    BY <2>1 DEF Reported
  <2> QED
    BY <1>1, <2>1, <2>2
<1> QED
  BY <1>4, <1>5, <1>6 DEF Inv

(* The loop over the events of a batch *)
LEMMA NextEventStep ==
  ASSUME Inv, NextEvent
  PROVE  Inv'
<1>1. pc = "loop" /\ UNCHANGED <<tcp, conn, ready, buf>> /\ OpenFds' = OpenFds
  BY DEF NextEvent, OpenFds
<1>2. CASE batch = {} /\ pc' = "wait" /\ UNCHANGED <<batch, fd>>
  <2>1. TypeOK'
    BY <1>1, <1>2, Types DEF Inv, TypeOK
  <2>2. Numbered' /\ NoLostEdge'
    BY <1>1, <1>2 DEF Inv, Numbered, NoLostEdge, Accepted, Readable, Is
  <2> QED
    BY <2>1, <2>2 DEF Inv
<1>3. CASE /\ fd' \in batch /\ batch' = batch \ {fd'}
           /\ pc' = IF fd' = Serv THEN "accept" ELSE "read"
  <2>1. TypeOK'
    BY <1>1, <1>3, Types DEF Inv, TypeOK
  <2>2. pc' = "read" => fd' \in OpenFds
    BY <1>3, Types DEF Inv, Numbered
  <2>3. Numbered'
    BY <1>1, <1>3, <2>2 DEF Inv, Numbered, Accepted
  <2>4. NoLostEdge'
    <3> SUFFICES ASSUME NEW f \in OpenFds, Readable(conn[f])
                 PROVE  f \in ready \cup batch' \/ (f = fd' /\ pc' = "read")
      BY <1>1 DEF NoLostEdge, Readable, Is
    <3>1. f \in ready \cup batch /\ f # Serv
      BY <1>1, Types DEF Inv, NoLostEdge
    <3> QED
      BY <1>3, <3>1
  <2> QED
    BY <2>1, <2>3, <2>4 DEF Inv
<1> QED
  BY <1>2, <1>3 DEF NextEvent

(* A connection is accepted once, as a number that is not open and in no   *)
(* list.                                                                   *)
LEMMA AcceptStep ==
  ASSUME Inv, NEW c \in Conns, AcceptClient(c)
  PROVE  Inv'
<1>1. PICK f \in Fds :
        /\ AcceptAs(c, f)
        /\ ready' = IF Readable(c) THEN ready \cup {f} ELSE ready
  BY DEF AcceptClient
<1>2. /\ pc = "accept" /\ pc' = "loop" /\ UNCHANGED <<batch, fd, buf>>
      /\ Accept(c) /\ f \notin OpenFds /\ conn' = [conn EXCEPT ![f] = c]
      /\ Sockets /\ conn \in [Fds -> Conns \cup {NONE}] /\ NONE \notin Conns
  BY <1>1, Types DEF AcceptClient, AcceptAs, Inv
<1>3. OpenFds' = OpenFds \cup {f} /\ conn'[f] = c
      /\ \A g \in OpenFds : g # f /\ conn'[g] = conn[g] /\ conn[g] \in Conns
  BY <1>2, Types DEF Inv, OpenFds
<1>4. /\ Sockets' /\ tcp[c].client = "queued" /\ tcp'[c].client = "accepted"
      /\ \A d \in Conns \ {c} : tcp'[d].client = tcp[d].client
      /\ \A d \in Conns : tcp'[d].up = tcp[d].up /\ tcp'[d].marks = tcp[d].marks
  BY <1>2, AcceptSockets DEF Accept, Sockets, Connection
<1>5. \A g \in OpenFds : conn[g] # c
  BY <1>4 DEF Inv, Numbered, Accepted
<1>6. TypeOK'
  <2>1. conn' \in [Fds -> Conns \cup {NONE}]
    BY <1>2
  <2> QED
    BY <1>1, <1>2, <1>4, <2>1, Types DEF Inv, TypeOK, Sockets
<1>7. Numbered'
  <2>1. ready' \subseteq OpenFds' /\ batch' \cap Fds \subseteq OpenFds'
    BY <1>1, <1>2, <1>3 DEF Inv, Numbered
  <2>2. \A g \in OpenFds' : Accepted(conn[g])'
    BY <1>3, <1>4, <1>5 DEF Inv, Numbered, Accepted
  <2>3. \A g, h \in OpenFds' : conn'[g] = conn'[h] => g = h
    BY <1>3, <1>5 DEF Inv, Numbered
  <2> QED
    BY <1>2, <2>1, <2>2, <2>3 DEF Numbered
<1>8. NoLostEdge'
  <2> SUFFICES ASSUME NEW g \in OpenFds', Readable(conn[g])'
               PROVE  g \in ready' \cup batch'
    BY DEF NoLostEdge
  <2>1. conn'[g] \in Conns /\ Readable(conn'[g])
    BY <1>2, <1>3, <1>4 DEF Readable, Is
  <2>2. CASE g = f
    BY <1>1, <1>3, <2>1, <2>2
  <2>3. CASE g \in OpenFds
    BY <1>1, <1>2, <1>3, <2>1, <2>3 DEF Inv, NoLostEdge
  <2> QED
    BY <1>3, <2>2, <2>3
<1> QED
  BY <1>6, <1>7, <1>8 DEF Inv

(* A step of the loop on the connection of fd, which stays open: only that *)
(* connection can become readable by it, and it is being drained.          *)
LEMMA DrainStep ==
  ASSUME Inv, pc \in {"read", "write"}, Kept, Others(conn[fd]),
         UNCHANGED <<conn, ready, batch, fd>>, buf' \in Buffer,
         \/ pc' \in {"read", "write", "killed"}
         \/ pc' = "loop" /\ ~Readable(conn[fd])'
  PROVE  Inv'
<1>1. /\ fd \in OpenFds /\ OpenFds' = OpenFds
      /\ \A f \in OpenFds : f \in Fds /\ conn[f] \in Conns
  BY Types DEF Inv, Numbered, OpenFds
<1>2. TypeOK'
  BY Types DEF Inv, TypeOK, Kept, Sockets
<1>3. Numbered'
  BY <1>1 DEF Inv, Numbered, Kept, Accepted
<1>4. NoLostEdge'
  <2> SUFFICES ASSUME NEW f \in OpenFds, Readable(conn[f])', f \notin ready \cup batch
               PROVE  f = fd /\ pc' \in {"read", "write", "killed"}
    BY <1>1 DEF NoLostEdge
  <2>1. CASE f = fd
    BY <2>1
  <2>2. CASE f # fd
    <3>1. conn[f] # conn[fd] /\ ~Readable(conn[f])
      BY <1>1, <2>2 DEF Inv, Numbered, NoLostEdge
    <3>2. tcp'[conn[f]] = tcp[conn[f]]
      BY <1>1, <3>1 DEF Others
    <3> QED
      BY <3>1, <3>2 DEF Readable, Is
  <2> QED
    BY <2>1, <2>2
<1> QED
  BY <1>2, <1>3, <1>4 DEF Inv

(* The number of the connection that was drained leaves every list. *)
LEMMA HangUpStep ==
  ASSUME Inv, pc = "read", HangUp, UNCHANGED <<tcp, batch, fd, buf>>
  PROVE  Inv'
<1>1. /\ fd \in OpenFds /\ fd \notin batch /\ pc' = "loop" /\ ready' = ready \ {fd}
      /\ conn' = [conn EXCEPT ![fd] = NONE] /\ conn \in [Fds -> Conns \cup {NONE}]
  BY Types DEF Inv, Numbered, HangUp, CloseFd
<1>2. /\ OpenFds' = OpenFds \ {fd}
      /\ \A f \in OpenFds \ {fd} : conn'[f] = conn[f]
  BY <1>1, Types DEF OpenFds, Inv
<1>3. TypeOK'
  BY <1>1, Types DEF Inv, TypeOK
<1>4. Numbered'
  BY <1>1, <1>2 DEF Inv, Numbered, Accepted
<1>5. NoLostEdge'
  BY <1>1, <1>2 DEF Inv, NoLostEdge, Readable, Is
<1> QED
  BY <1>3, <1>4, <1>5 DEF Inv

(* read(), until EAGAIN, a failure or the end of the stream *)
LEMMA ReadStep ==
  ASSUME Inv, Read
  PROVE  Inv'
<1> DEFINE c == conn[fd]
<1>1. pc = "read" /\ UNCHANGED <<batch, fd>> /\ Sockets /\ c \in Conns /\ buf \in Buffer
  BY Types DEF Read, Inv, Numbered
<1>2. CASE /\ ReadData(c) \/ ReadFails(c)
           /\ UNCHANGED <<conn, ready>> /\ buf' \in {buf, Data(c)} /\ pc' \in {"read", "write"}
  <2>1. Kept /\ Others(c) /\ Data(c) \in Buffer
    BY <1>1, <1>2, ReadSockets, GotBounds DEF ReadData, ReadFails, Others, Sockets
  <2> QED
    BY <1>1, <1>2, <2>1, DrainStep
<1>3. CASE ~Readable(c) /\ pc' = "loop" /\ UNCHANGED <<tcp, conn, ready, buf>>
  <2>1. Kept /\ Others(c) /\ ~Readable(conn[fd])'
    BY <1>1, <1>3 DEF Kept, Others, Sockets, Readable, Is
  <2> QED
    BY <1>1, <1>3, <2>1, DrainStep
<1>4. CASE ReadEof(c) /\ HangUp /\ UNCHANGED buf
  BY <1>1, <1>4, HangUpStep DEF ReadEof
<1> QED
  BY <1>1, <1>2, <1>3, <1>4 DEF Read

(* write(), which may end the server *)
LEMMA WriteStep ==
  ASSUME Inv, Write
  PROVE  Inv'
<1> DEFINE c == conn[fd]
           n == Smaller(Len(buf), Room(c))
<1>1. pc = "write" /\ UNCHANGED <<conn, ready, batch, fd>> /\ Sockets /\ c \in Conns
      /\ buf \in Buffer /\ buf \in Stream /\ << >> \in Buffer
  BY Types, TcpAssumption DEF Write, Inv, Numbered, Buffer, Stream
<1>2. n \in 0..Len(buf) /\ n <= Room(c)
  <2>1. Len(buf) \in Nat /\ Room(c) \in Nat
    BY <1>1, Fields, TcpAssumption DEF Room, Stream
  <2> QED
    BY <2>1 DEF Smaller
<1>3. WriteTakes(c, buf, n) \/ WriteFails(c) \/ WriteKills(c)
  BY DEF Write
<1>4. Kept /\ Others(c)
  <2>1. Kept
    BY <1>1, <1>2, <1>3, TakesSockets, WriteSockets
  <2>2. Others(c)
    BY <1>1, <1>3 DEF WriteTakes, WriteFails, WriteKills, Others, Sockets
  <2> QED
    BY <2>1, <2>2
<1>5. pc' \in {"read", "killed"} /\ buf' \in Buffer
  BY <1>1 DEF Write, ReadOn
<1> QED
  BY <1>1, <1>4, <1>5, DrainStep

(* Every step of the server and of the clients *)
LEMMA StepInv ==
  ASSUME Inv, [Next]_vars
  PROVE  Inv'
<1>1. CASE UNCHANGED vars
  BY <1>1 DEF vars, Inv, TypeOK, Numbered, NoLostEdge, OpenFds, Accepted, Readable, Is
<1>2. CASE AcceptFails \/ WaitFails
  BY <1>2 DEF AcceptFails, WaitFails, Inv, TypeOK, Numbered, NoLostEdge, OpenFds, Accepted, Readable, Is
<1> QED
  BY <1>1, <1>2, OutsideStep, WaitStep, NextEventStep, AcceptStep, ReadStep, WriteStep
  DEF Next, ServerStep, Accepts

(* The invariant holds always. *)
LEMMA Invariance == Spec => []Inv
<1>1. Inv /\ [Next]_vars => Inv'
  BY StepInv
<1> QED
  BY <1>1, InitInv, PTL DEF Spec

(* Whatever the order in which clients, the network and the server's       *)
(* thread take their steps, and however many events a call answers, no     *)
(* connection that is readable is forgotten.                               *)
THEOREM EdgesKept == Spec => []NoLostEdge
<1>1. Inv => NoLostEdge
  BY DEF Inv
<1> QED
  BY <1>1, Invariance, PTL

(* No event of a batch is handled for another connection than the one it   *)
(* was reported for, although the numbers of closed ones are given out     *)
(* again while the batch is worked off.                                    *)
THEOREM EventsCurrent == Spec => []NoStaleEvent
<1>1. Inv => NoStaleEvent
  BY DEF Inv, Numbered, NoStaleEvent
<1> QED
  BY <1>1, Invariance, PTL
-----------------------------------------------------------------------------
(* As long as the kernel has room for whatever a client may be sent, no    *)
(* write() is short, and every client gets its bytes back.                 *)

(* The bytes of connection c the server holds. *)
Held(c) == IF fd \in Fds /\ conn[fd] = c THEN buf ELSE << >>

Carried == /\ pc \notin {"write", "killed"} => buf = << >>
           /\ \A c \in Conns : Conserved(c, tcp[c], Held(c))

(* No byte is on its way at first. *)
LEMMA CarriedInit == Init => Carried
BY ConservedInit DEF Init, Carried, Held

(* The connections while the server holds nothing *)
LEMMA EmptyHanded ==
  ASSUME Inv, Carried, pc \notin {"write", "killed"}
  PROVE  /\ buf = << >> /\ << >> \in Stream /\ Sockets
         /\ \A c \in Conns : Conserved(c, tcp[c], << >>)
BY Types DEF Inv, Carried, Held, Stream

(* It is enough to look at the connection that is being drained. *)
LEMMA OneCarried ==
  ASSUME Inv, Carried, fd \in Fds, conn[fd] \in Conns, UNCHANGED <<conn, fd>>,
         Others(conn[fd]), Conserved(conn[fd], tcp'[conn[fd]], buf'),
         pc' \notin {"write", "killed"} => buf' = << >>
  PROVE  Carried'
BY DEF Carried, Held, Others

(* Steps without a system call on a client's connection *)
LEMMA QuietCarries ==
  ASSUME Inv, Carried, UNCHANGED <<tcp, buf>>, buf = << >>
  PROVE  Carried' /\ UNCHANGED Echo!vars
<1>1. Carried'
  BY DEF Carried, Held
<1> QED
  BY <1>1, EchoStutter

(* Bytes arrive at the end of the stream. *)
LEMMA OutsideCarries ==
  ASSUME Inv, Inv', Carried, NEW c \in Conns, OutsideEvent(c)
  PROVE  Carried' /\ [Echo!Next]_(Echo!vars)
<1>1. /\ Outside(c) /\ UNCHANGED <<conn, pc, fd, buf>>
      /\ Sockets /\ tcp' \in [Conns -> Connection]
      /\ Held(c) \in Stream /\ Conserved(c, tcp[c], Held(c))
  <2>1. << >> \in Stream
    BY DEF Stream
  <2> QED
    BY <2>1, Types DEF OutsideEvent, Inv, TypeOK, Carried, Held
<1>2. /\ Conserved(c, tcp'[c], Held(c)) /\ Others(c)
      /\ tcp'[c].echoed = tcp[c].echoed /\ tcp'[c].sent >= tcp[c].sent
  BY <1>1, OutsideConserves
<1>3. Carried'
  BY <1>1, <1>2 DEF Carried, Others, Held
<1>4. tcp[c].echoed = Run(c, 0, Len(tcp[c].echoed))
  BY <1>1 DEF Conserved
<1>5. [Echo!Next]_(Echo!vars)
  BY <1>1, <1>2, <1>4, EchoStep
<1> QED
  BY <1>3, <1>5

(* accept4() moves no bytes. *)
LEMMA AcceptCarries ==
  ASSUME Inv, Carried, NEW c \in Conns, AcceptClient(c)
  PROVE  Carried' /\ UNCHANGED Echo!vars
<1>1. pc = "accept" /\ Accept(c) /\ UNCHANGED buf
  BY DEF AcceptClient, AcceptAs
<1>2. \A d \in Conns : /\ Conserved(d, tcp'[d], << >>)
                       /\ tcp'[d].echoed = tcp[d].echoed /\ tcp'[d].sent = tcp[d].sent
  BY <1>1, EmptyHanded, AcceptConserves
<1>3. Carried'
  BY <1>1, <1>2, EmptyHanded DEF Carried, Held
<1>4. UNCHANGED Echo!vars
  BY <1>2 DEF Echo!vars
<1> QED
  BY <1>3, <1>4

(* read() moves bytes from the stream to buf. *)
LEMMA ReadCarries ==
  ASSUME Inv, Inv', Carried, Read
  PROVE  Carried' /\ [Echo!Next]_(Echo!vars)
<1> DEFINE c == conn[fd]
<1>1. /\ pc = "read" /\ UNCHANGED fd /\ fd \in Fds /\ c \in Conns
      /\ tcp' \in [Conns -> Connection] /\ tcp[c].sent \in Nat
      /\ buf = << >> /\ << >> \in Stream /\ Sockets /\ Conserved(c, tcp[c], << >>)
  BY Types, EmptyHanded, Lengths DEF Read, Inv, Numbered, TypeOK
<1>2. CASE ~Readable(c) /\ UNCHANGED <<tcp, buf>>
  BY <1>1, <1>2, QuietCarries
<1>3. CASE ReadEof(c) /\ UNCHANGED buf
  BY <1>1, <1>3, QuietCarries DEF ReadEof
<1>4. CASE ReadData(c) \/ ReadFails(c)
  <2>1. /\ Others(c) /\ tcp'[c].echoed = tcp[c].echoed /\ tcp'[c].sent = tcp[c].sent
        /\ ReadData(c) => Conserved(c, tcp'[c], Data(c))
        /\ ReadFails(c) => Conserved(c, tcp'[c], << >>)
    BY <1>1, <1>4, ReadConserves
  <2>2. tcp[c].echoed = Run(c, 0, Len(tcp[c].echoed)) /\ tcp'[c].sent >= tcp[c].sent
    BY <1>1, <2>1 DEF Conserved
  <2>3. [Echo!Next]_(Echo!vars)
    <3> HIDE DEF c
    <3> QED
      BY <1>1, <2>1, <2>2, EchoStep
  <2>4. CASE ReadData(c) /\ buf' = Data(c) /\ pc' = "write" /\ UNCHANGED conn
    BY <1>1, <2>1, <2>4, OneCarried, <2>3
  <2>5. CASE ReadFails(c) /\ UNCHANGED <<conn, buf, pc>>
    BY <1>1, <2>1, <2>5, OneCarried, <2>3
  <2> QED
    BY <1>2, <1>3, <2>4, <2>5 DEF Read
<1> QED
  BY <1>2, <1>3, <1>4 DEF Read

(* There is room for all that the server holds: what the client has sent   *)
(* fits the kernel's buffer, and what it holds has not been echoed.        *)
LEMMA RoomForAll ==
  ASSUME MaxBytes <= SendRoom, Sockets, NEW c \in Conns, NEW held \in Stream,
         Conserved(c, tcp[c], held), "dead" \notin tcp[c].marks
  PROVE  Smaller(Len(held), Room(c)) = Len(held)
<1>1. /\ Len(tcp[c].echoed) \in Nat /\ tcp[c].sent \in Nat /\ tcp[c].unread \in Nat
      /\ tcp[c].sent <= MaxBytes /\ Len(held) \in Nat
      /\ MaxBytes \in Nat /\ SendRoom \in Nat
  BY Lengths, Fields, TcpAssumption DEF Stream
<1>2. Len(tcp[c].echoed) + Len(held) \in 0..tcp[c].sent
  <2>1. InOrder(c, tcp[c].echoed, held, tcp[c].up, tcp[c].sent)
    BY DEF Conserved
  <2> QED
    BY <1>1, <2>1, OrderEchoed
<1>3. tcp[c].unread <= Len(tcp[c].echoed)
  BY DEF Conserved
<1>4. Len(held) <= MaxBytes /\ Len(held) <= SendRoom - tcp[c].unread
  BY <1>1, <1>2, <1>3
<1>5. Len(held) <= Room(c) /\ Room(c) \in Int
  BY <1>1, <1>4 DEF Room
<1> QED
  BY <1>1, <1>5 DEF Smaller

(* write() gives back all of buf, if the send buffer has room for all that *)
(* a client may send.                                                      *)
LEMMA WriteCarries ==
  ASSUME MaxBytes <= SendRoom, Inv, Inv', Carried, Write
  PROVE  Carried' /\ [Echo!Next]_(Echo!vars)
<1> DEFINE c == conn[fd]
<1>1. /\ UNCHANGED <<conn, fd>> /\ fd \in Fds /\ c \in Conns
      /\ tcp' \in [Conns -> Connection] /\ tcp[c].sent \in Nat
      /\ buf \in Stream /\ Len(buf) \in Nat /\ Len(tcp[c].echoed) \in Nat
      /\ Sockets /\ Conserved(c, tcp[c], buf)
  BY Types, Lengths DEF Write, Inv, Numbered, TypeOK, Carried, Held, Stream
<1>2. CASE WriteKills(c) /\ UNCHANGED buf /\ pc' = "killed"
  <2>1. UNCHANGED tcp
    BY <1>2 DEF WriteKills
  <2> QED
    BY <1>1, <1>2, <2>1, EchoStutter DEF Carried, Held
<1>3. CASE /\ WriteTakes(c, buf, Smaller(Len(buf), Room(c))) \/ WriteFails(c)
           /\ ReadOn
  <2>1. WriteTakes(c, buf, Len(buf)) \/ WriteFails(c)
    BY <1>1, <1>3, RoomForAll DEF WriteTakes, Is
  <2>2. /\ Conserved(c, tcp'[c], << >>) /\ Others(c) /\ tcp'[c].sent = tcp[c].sent
        /\ \/ tcp'[c].echoed = tcp[c].echoed
           \/ /\ tcp'[c].echoed = Run(c, 0, Len(tcp[c].echoed) + Len(buf))
              /\ Len(tcp[c].echoed) + Len(buf) \in 0..tcp[c].sent
    BY <1>1, <2>1, WriteConserves
  <2>3. Carried'
    BY <1>1, <1>3, <2>2, OneCarried DEF ReadOn
  <2>4. /\ tcp[c].echoed = Run(c, 0, Len(tcp[c].echoed)) /\ tcp'[c].sent >= tcp[c].sent
        /\ \/ tcp'[c].echoed = tcp[c].echoed
           \/ \E n \in Len(tcp[c].echoed)..tcp[c].sent : tcp'[c].echoed = Run(c, 0, n)
    <3>1. tcp[c].echoed = Run(c, 0, Len(tcp[c].echoed)) /\ tcp'[c].sent >= tcp[c].sent
      BY <1>1, <2>2 DEF Conserved
    <3> QED
      BY <1>1, <2>2, <3>1
  <2>5. [Echo!Next]_(Echo!vars)
    <3> HIDE DEF c
    <3> QED
      BY <1>1, <2>2, <2>4, EchoStep
  <2> QED
    BY <2>3, <2>5
<1> QED
  BY <1>2, <1>3 DEF Write

(* So no step loses or doubles a byte. *)
LEMMA CarriedStep ==
  ASSUME MaxBytes <= SendRoom, Inv, Inv', Carried, [Next]_vars
  PROVE  Carried' /\ [Echo!Next]_(Echo!vars)
<1>1. CASE UNCHANGED vars
  <2>1. UNCHANGED Echo!vars
    BY <1>1, EchoStutter DEF vars
  <2> QED
    BY <1>1, <2>1 DEF vars, Carried, Held
<1>2. CASE EpollWait \/ NextEvent \/ AcceptFails \/ WaitFails
  <2>1. pc \notin {"write", "killed"} /\ UNCHANGED <<tcp, buf>>
    BY <1>2 DEF EpollWait, NextEvent, AcceptFails, WaitFails
  <2> QED
    BY <2>1, EmptyHanded, QuietCarries
<1> QED
  BY <1>1, <1>2, OutsideCarries, AcceptCarries, ReadCarries, WriteCarries
  DEF Next, ServerStep, Accepts

(* Every client of the epoll server gets back the first bytes it sent, in  *)
(* order, provided the kernel takes all that a client may be sent: the     *)
(* result of write() is not looked at (see EpollShortWrite.cfg).           *)
THEOREM ImplementsEcho ==
  ASSUME MaxBytes <= SendRoom
  PROVE  Spec => RefinesEcho
<1>1. Init => Echo!Init
  BY EchoInit DEF Init
<1>2. Inv /\ Inv' /\ Carried /\ [Next]_vars => Carried' /\ [Echo!Next]_(Echo!vars)
  BY CarriedStep
<1> QED
  BY <1>1, <1>2, CarriedInit, Invariance, PTL DEF Spec, RefinesEcho, Echo!Spec
=============================================================================
