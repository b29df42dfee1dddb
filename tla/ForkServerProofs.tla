-------------------------- MODULE ForkServerProofs --------------------------
(***************************************************************************)
(* Safety of ForkServer for any finite number of clients, any message and  *)
(* buffer size and any interleaving of parent, children and signals.       *)
(***************************************************************************)
EXTENDS ForkServer, TcpLemmas, FiniteSetTheorems

(* Where a connection is in its life: it has a child only once accept4()   *)
(* has answered it, and between accept4() and close() it is the one the    *)
(* parent holds.                                                           *)
Lifecycle ==
  /\ \A c \in Conns : child[c] # "none" => tcp[c].client = "accepted"
  /\ \A c \in Conns : child[c] = "none" => cpc[c] = "start" /\ fds[c] = {}
  /\ pc # "accept" => /\ client_sock \in Conns
                      /\ tcp[client_sock].client = "accepted"
                      /\ fds[Parent] = {Serv, client_sock}
  /\ pc = "fork" => child[client_sock] = "none"

Inv == TypeOK /\ Lifecycle /\ Isolated

USE DEF Procs

(* Only the parent runs at first, with the listening socket. *)
LEMMA InitInv == Init => Inv
<1> SUFFICES ASSUME Init PROVE Inv
  OBVIOUS
<1>1. tcp \in [Conns -> Connection]
  BY SocketsInit DEF Init, Sockets
<1>2. << >> \in Buffer
  BY TcpAssumption DEF Buffer, Stream
<1>3. TypeOK
  BY <1>1, <1>2 DEF Init, TypeOK
<1>4. Lifecycle /\ Isolated
  BY NamesAssumption DEF Init, Lifecycle, Isolated
<1> QED
  BY <1>3, <1>4 DEF Inv

(* Every step of parent, children, signals and clients *)
LEMMA StepInv == Inv /\ [Next]_vars => Inv'
<1> SUFFICES ASSUME Inv, [Next]_vars PROVE Inv'
  OBVIOUS
<1>0. TypeOK /\ Lifecycle /\ Isolated /\ Sockets
  BY DEF Inv, TypeOK, Sockets
<1> USE NamesAssumption DEF childVars, parentVars, signalVars
<1>1. ASSUME NEW c \in Conns, ParentAccept(c) PROVE Inv'
  <2>1. /\ Sockets' /\ tcp[c].client = "queued" /\ tcp'[c].client = "accepted"
        /\ \A d \in Conns \ {c} : tcp'[d].client = tcp[d].client
    BY <1>0, <1>1, AcceptSockets DEF ParentAccept
  <2>2. TypeOK'
    BY <1>0, <1>1, <2>1 DEF ParentAccept, TypeOK, Sockets
  <2>3. Lifecycle' /\ Isolated'
    BY <1>0, <1>1, <2>1 DEF ParentAccept, TypeOK, Lifecycle, Isolated
  <2> QED
    BY <2>2, <2>3 DEF Inv
<1>2. CASE ParentForks
  <2>1. TypeOK'
    BY <1>0, <1>2 DEF ParentForks, TypeOK, Lifecycle
  <2>2. Lifecycle' /\ Isolated'
    BY <1>0, <1>2 DEF ParentForks, TypeOK, Lifecycle, Isolated
  <2> QED
    BY <2>1, <2>2 DEF Inv
<1>3. CASE ParentClosesClient
  <2>1. TypeOK'
    BY <1>0, <1>3 DEF ParentClosesClient, Closes, TypeOK
  <2>2. Lifecycle' /\ Isolated'
    BY <1>0, <1>3 DEF ParentClosesClient, Closes, TypeOK, Lifecycle, Isolated
  <2> QED
    BY <2>1, <2>2 DEF Inv
<1>4. CASE SignalDelivered
  BY <1>0, <1>4 DEF SignalDelivered, TypeOK, Lifecycle, Isolated, Inv
<1>5. CASE read_childproc
  <2>1. TypeOK'
    BY <1>0, <1>5 DEF read_childproc, WaitForOne, TypeOK, Zombies
  <2>2. Lifecycle' /\ Isolated'
    BY <1>0, <1>5 DEF read_childproc, WaitForOne, TypeOK, Lifecycle, Isolated, Zombies
  <2> QED
    BY <2>1, <2>2 DEF Inv
<1>6. ASSUME NEW c \in Conns, ChildStep(c) PROVE Inv'
  <2>1. CASE ChildClosesServ(c)
    <3>1. TypeOK'
      BY <1>0, <2>1 DEF ChildClosesServ, Closes, TypeOK, Goto
    <3>2. Lifecycle' /\ Isolated'
      BY <1>0, <2>1 DEF ChildClosesServ, Closes, At, Goto, TypeOK, Lifecycle, Isolated
    <3> QED
      BY <3>1, <3>2 DEF Inv
  <2>2. CASE ChildReads(c)
    <3>1. Kept
      BY <1>0, <2>2, ReadSockets DEF ChildReads
    <3>2. Data(c) \in Buffer
      BY <1>0, GotBounds
    <3>3. TypeOK'
      BY <1>0, <2>2, <3>1, <3>2 DEF ChildReads, Filled, TypeOK, Goto, Kept, Sockets
    <3>4. Lifecycle' /\ Isolated'
      BY <1>0, <2>2, <3>1 DEF ChildReads, At, Goto, TypeOK, Lifecycle, Isolated, Kept
    <3> QED
      BY <3>3, <3>4 DEF Inv
  <2>3. CASE ChildWrites(c)
    <3>1. Kept
      BY <1>0, <2>3, WriteSockets DEF ChildWrites, TypeOK, Buffer
    <3>2. << >> \in Buffer
      BY TcpAssumption DEF Buffer, Stream
    <3>3. TypeOK'
      <4>0. tcp' \in [Conns -> Connection]
        BY <3>1 DEF Kept, Sockets
      <4>1. CASE /\ Goto(c, "read") /\ buf' = [buf EXCEPT ![c] = << >>]
                 /\ UNCHANGED <<fds, child, signalVars, parentVars>>
        BY <1>0, <4>0, <4>1, <3>2 DEF TypeOK, Goto
      <4>2. CASE Exit(c) /\ UNCHANGED <<childVars, parentVars>>
        BY <1>0, <4>0, <4>2 DEF Exit, TypeOK
      <4> QED
        BY <2>3, <4>1, <4>2 DEF ChildWrites, ReadsOn
    <3>4. Lifecycle' /\ Isolated'
      BY <1>0, <2>3, <3>1
      DEF ChildWrites, ReadsOn, Exit, At, Goto, TypeOK, Lifecycle, Isolated, Kept
    <3> QED
      BY <3>3, <3>4 DEF Inv
  <2>4. CASE ChildCloses(c)
    <3>1. TypeOK'
      BY <1>0, <2>4 DEF ChildCloses, Closes, TypeOK, Goto
    <3>2. Lifecycle' /\ Isolated'
      BY <1>0, <2>4 DEF ChildCloses, Closes, At, Goto, TypeOK, Lifecycle, Isolated
    <3> QED
      BY <3>1, <3>2 DEF Inv
  <2>5. CASE ChildExits(c)
    <3>1. TypeOK'
      BY <1>0, <2>5 DEF ChildExits, Exit, TypeOK
    <3>2. Lifecycle' /\ Isolated'
      BY <1>0, <2>5 DEF ChildExits, Exit, At, TypeOK, Lifecycle, Isolated
    <3> QED
      BY <3>1, <3>2 DEF Inv
  <2> QED
    BY <1>6, <2>1, <2>2, <2>3, <2>4, <2>5 DEF ChildStep
<1>7. ASSUME NEW c \in Conns, Outside(c),
             UNCHANGED <<parentVars, fds, child, childVars, signalVars>>
      PROVE  Inv'
  <2>1. Kept
    BY <1>0, <1>7, OutsideSockets
  <2>2. TypeOK'
    BY <1>0, <1>7, <2>1 DEF TypeOK, Kept, Sockets
  <2>3. Lifecycle' /\ Isolated'
    BY <1>0, <1>7, <2>1 DEF TypeOK, Lifecycle, Isolated, Kept
  <2> QED
    BY <2>2, <2>3 DEF Inv
<1>8. CASE UNCHANGED vars
  BY <1>0, <1>8 DEF vars, Inv, TypeOK, Lifecycle, Isolated
<1> QED
  BY <1>1, <1>2, <1>3, <1>4, <1>5, <1>6, <1>7, <1>8 DEF Next, ParentStep

(* The invariant holds always. *)
LEMMA Invariance == Spec => []Inv
BY InitInv, StepInv, PTL DEF Spec

(* Every process and every connection is always well-formed; no read()     *)
(* overruns a child's buf.                                                 *)
THEOREM TypeCorrect == Spec => []TypeOK
<1>1. Inv => TypeOK
  BY DEF Inv
<1> QED
  BY <1>1, Invariance, PTL

(* Cardinalities of Zombies when a child ends and when one is reaped. *)
LEMMA ZombieCounts ==
  ASSUME TypeOK, NEW c \in Conns
  PROVE  /\ Cardinality(Zombies) \in Nat
         /\ child[c] = "running" /\ child' = [child EXCEPT ![c] = "zombie"] =>
              Cardinality(Zombies') = Cardinality(Zombies) + 1
         /\ child[c] = "zombie" /\ child' = [child EXCEPT ![c] = "reaped"] =>
              Cardinality(Zombies') = Cardinality(Zombies) - 1
<1>1. IsFiniteSet(Zombies)
  BY NamesAssumption, FS_Subset DEF Zombies
<1>2. ASSUME child[c] = "running", child' = [child EXCEPT ![c] = "zombie"]
      PROVE  Zombies' = Zombies \cup {c} /\ c \notin Zombies
  BY <1>2 DEF Zombies, TypeOK
<1>3. ASSUME child[c] = "zombie", child' = [child EXCEPT ![c] = "reaped"]
      PROVE  Zombies' = Zombies \ {c} /\ c \in Zombies
  BY <1>3 DEF Zombies, TypeOK
<1> QED
  BY <1>1, <1>2, <1>3, FS_CardinalityType, FS_AddElement, FS_RemoveElement

(* A child that ends adds a zombie and a signal, pending or merged; the    *)
(* handler takes one of each.                                              *)
LEMMA ZombiesStep ==
  ASSUME TypeOK, Lifecycle, Isolated, ZombiesAccounted, [Next]_vars
  PROVE  ZombiesAccounted'
<1> USE DEF childVars, parentVars, signalVars, ZombiesAccounted, At
<1>1. CASE UNCHANGED <<child, sigchld, handler, coalesced>>
  BY <1>1 DEF Zombies
<1>2. CASE ParentForks
  BY <1>2 DEF ParentForks, Lifecycle, TypeOK, Zombies
<1>3. CASE SignalDelivered
  BY <1>3 DEF SignalDelivered, Zombies, TypeOK
<1>4. CASE read_childproc
  <2>1. Zombies # {}
    <3>1. Cardinality(Zombies) # 0
      BY <1>4 DEF read_childproc, TypeOK
    <3>2. Cardinality({}) = 0
      BY FS_EmptySet
    <3> QED
      BY <3>1, <3>2
  <2>2. PICK c \in Zombies : child' = [child EXCEPT ![c] = "reaped"]
    BY <1>4, <2>1 DEF read_childproc, WaitForOne
  <2>3. Cardinality(Zombies') = Cardinality(Zombies) - 1 /\ Cardinality(Zombies) \in Nat
    BY <2>2, ZombieCounts DEF Zombies
  <2> QED
    BY <1>4, <2>3 DEF read_childproc, TypeOK
<1>5. ASSUME NEW c \in Conns, child[c] = "running", Exit(c)
      PROVE  ZombiesAccounted'
  <2>1. Cardinality(Zombies') = Cardinality(Zombies) + 1 /\ Cardinality(Zombies) \in Nat
    BY <1>5, ZombieCounts DEF Exit
  <2> QED
    BY <1>5, <2>1 DEF Exit, TypeOK
<1> QED
  <2>1. CASE UNCHANGED vars
    BY <2>1, <1>1 DEF vars
  <2>2. CASE ParentStep
    BY <2>2, <1>1, <1>2 DEF ParentStep, ParentAccept, ParentClosesClient
  <2>3. ASSUME NEW c \in Conns, ChildStep(c) PROVE ZombiesAccounted'
    BY <2>3, <1>1, <1>5
    DEF ChildStep, ChildClosesServ, ChildReads, ChildWrites, ChildCloses, ChildExits
  <2>4. CASE \E c \in Conns : Outside(c) /\ UNCHANGED <<parentVars, fds, child, childVars, signalVars>>
    BY <2>4, <1>1
  <2> QED
    BY <2>1, <2>2, <2>3, <2>4, <1>3, <1>4 DEF Next

(* Children that ended are accounted for, although any number of their     *)
(* signals may have been merged into one.                                  *)
THEOREM ZombiesCounted == Spec => []ZombiesAccounted
<1>1. Init => ZombiesAccounted
  <2> SUFFICES ASSUME Init PROVE ZombiesAccounted
    OBVIOUS
  <2>1. Zombies = {}
    BY DEF Init, Zombies
  <2> QED
    BY <2>1, FS_EmptySet DEF Init, ZombiesAccounted
<1>2. Inv /\ ZombiesAccounted /\ [Next]_vars => ZombiesAccounted'
  BY ZombiesStep DEF Inv
<1> QED
  BY <1>1, <1>2, Invariance, PTL DEF Spec

(* However accepts, forks, closes and signals interleave, no child holds   *)
(* another client's socket, and the parent none between two clients.       *)
THEOREM ClientsIsolated == Spec => []Isolated
<1>1. Inv => Isolated
  BY DEF Inv
<1> QED
  BY <1>1, Invariance, PTL
-----------------------------------------------------------------------------
(* What a client sent is echoed, in its child's buf or still unread, in    *)
(* this order; a buf is full only between a read() and the write().        *)
Carried ==
  \A c \in Conns : /\ Conserved(c, tcp[c], buf[c])
                   /\ cpc[c] # "write" => buf[c] = << >>

(* It is enough to look at the connection a step is about. *)
LEMMA OneCarried ==
  ASSUME Carried, NEW c \in Conns, Others(c),
         \A d \in Conns \ {c} : buf'[d] = buf[d] /\ cpc'[d] = cpc[d],
         Conserved(c, tcp'[c], buf'[c]), cpc'[c] # "write" => buf'[c] = << >>
  PROVE  Carried'
BY DEF Carried, Others

(* No byte is on its way at first. *)
LEMMA CarriedInit == Init => Carried
<1> SUFFICES ASSUME Init, NEW c \in Conns
             PROVE  Conserved(c, tcp[c], buf[c]) /\ buf[c] = << >>
  BY DEF Carried
<1> QED
  BY ConservedInit DEF Init

(* A child's read(), write() or anything else it does *)
LEMMA ChildCarries ==
  ASSUME Inv, Carried, NEW c \in Conns, ChildStep(c), Inv'
  PROVE  Carried' /\ [Echo!Next]_(Echo!vars)
<1>0. /\ Sockets /\ Sockets' /\ tcp' \in [Conns -> Connection]
      /\ buf \in [Conns -> Buffer] /\ buf[c] \in Stream
      /\ cpc \in [Conns -> {"start", "read", "write", "close", "exit"}]
      /\ Conserved(c, tcp[c], buf[c]) /\ (cpc[c] # "write" => buf[c] = << >>)
      /\ tcp[c].echoed = Run(c, 0, Len(tcp[c].echoed)) /\ tcp[c].sent \in Nat
  <2>1. tcp \in [Conns -> Connection] /\ tcp' \in [Conns -> Connection]
    BY DEF Inv, TypeOK
  <2>2. buf \in [Conns -> Buffer]
    BY DEF Inv, TypeOK
  <2>3. cpc \in [Conns -> {"start", "read", "write", "close", "exit"}]
    BY DEF Inv, TypeOK
  <2>4. Conserved(c, tcp[c], buf[c]) /\ (cpc[c] # "write" => buf[c] = << >>)
    BY DEF Carried
  <2> QED
    BY <2>1, <2>2, <2>3, <2>4, Lengths DEF Sockets, Conserved, Buffer
<1>1. CASE UNCHANGED <<tcp, buf>> /\ (cpc'[c] # "write" => cpc[c] # "write")
                                 /\ \A d \in Conns \ {c} : cpc'[d] = cpc[d]
  BY <1>0, <1>1, OneCarried, EchoStutter DEF Others
<1>2. CASE ChildClosesServ(c) \/ ChildCloses(c) \/ ChildExits(c)
  BY <1>0, <1>1, <1>2
  DEF ChildClosesServ, ChildCloses, ChildExits, Goto, At, childVars
<1>3. CASE ChildReads(c)
  <2>1. cpc[c] = "read" /\ buf[c] = << >> /\ Conserved(c, tcp[c], << >>)
    BY <1>3, <1>0 DEF ChildReads, At
  <2>2. /\ ReadData(c) \/ ReadFails(c) \/ ReadEof(c)
        /\ Others(c) /\ tcp'[c].echoed = tcp[c].echoed /\ tcp'[c].sent = tcp[c].sent
    BY <1>3, <1>0, <2>1, ReadConserves DEF ChildReads
  <2>3. [Echo!Next]_(Echo!vars)
    BY <2>2, <1>0, EchoStep
  <2>4. CASE ReadData(c) /\ buf' = Filled(c) /\ Goto(c, "write")
    <3>1. Conserved(c, tcp'[c], Data(c))
      BY <1>0, <2>1, <2>4, ReadConserves
    <3>2. /\ buf'[c] = Data(c) /\ cpc'[c] = "write"
          /\ \A d \in Conns \ {c} : buf'[d] = buf[d] /\ cpc'[d] = cpc[d]
      BY <1>0, <2>4 DEF Filled, Goto
    <3> QED
      BY <2>2, <2>3, <3>1, <3>2, OneCarried
  <2>5. CASE /\ ReadFails(c) \/ ReadEof(c)
             /\ UNCHANGED buf
             /\ UNCHANGED cpc \/ Goto(c, "close")
    <3>1. Conserved(c, tcp'[c], << >>)
      BY <1>0, <2>1, <2>5, ReadConserves
    <3>2. /\ buf'[c] = << >>
          /\ \A d \in Conns \ {c} : buf'[d] = buf[d] /\ cpc'[d] = cpc[d]
      BY <1>0, <2>1, <2>5 DEF Goto
    <3> QED
      BY <2>2, <2>3, <3>1, <3>2, OneCarried
  <2> QED
    BY <1>3, <2>4, <2>5 DEF ChildReads, childVars
<1>4. CASE ChildWrites(c)
  <2>1. CASE (WriteAll(c, buf[c]) \/ WriteFails(c)) /\ ReadsOn(c)
    <3>1. WriteTakes(c, buf[c], Len(buf[c])) \/ WriteFails(c)
      BY <2>1 DEF WriteAll
    <3>2. /\ Conserved(c, tcp'[c], << >>) /\ Others(c) /\ tcp'[c].sent = tcp[c].sent
          /\ \/ tcp'[c].echoed = tcp[c].echoed
             \/ /\ tcp'[c].echoed = Run(c, 0, Len(tcp[c].echoed) + Len(buf[c]))
                /\ Len(tcp[c].echoed) + Len(buf[c]) \in 0..tcp[c].sent
      BY <3>1, <1>0, WriteConserves
    <3>3. [Echo!Next]_(Echo!vars)
      <4>1. CASE tcp'[c].echoed = tcp[c].echoed
        BY <4>1, <3>2, <1>0, EchoStep
      <4>2. ASSUME tcp'[c].echoed = Run(c, 0, Len(tcp[c].echoed) + Len(buf[c])),
                   Len(tcp[c].echoed) + Len(buf[c]) \in 0..tcp[c].sent
            PROVE  [Echo!Next]_(Echo!vars)
        <5>1. Len(tcp[c].echoed) \in Nat /\ Len(buf[c]) \in Nat
          BY <1>0, Lengths DEF Stream
        <5>2. \E n \in Len(tcp[c].echoed)..tcp[c].sent : tcp'[c].echoed = Run(c, 0, n)
          BY <4>2, <5>1, <1>0
        <5> QED
          BY <5>2, <3>2, <1>0, EchoStep
      <4> QED
        BY <3>2, <4>1, <4>2
    <3>4. /\ buf'[c] = << >>
          /\ \A d \in Conns \ {c} : buf'[d] = buf[d] /\ cpc'[d] = cpc[d]
      BY <1>0, <2>1 DEF ReadsOn, Goto
    <3> QED
      BY <3>2, <3>3, <3>4, OneCarried
  <2>2. CASE WriteKills(c) /\ UNCHANGED childVars
    BY <1>0, <1>1, <2>2 DEF WriteKills, childVars
  <2> QED
    BY <1>4, <2>1, <2>2 DEF ChildWrites
<1> QED
  BY <1>2, <1>3, <1>4 DEF ChildStep

(* No step loses or doubles a byte. *)
LEMMA CarriedStep ==
  ASSUME Inv, Carried, [Next]_vars, Inv'
  PROVE  Carried' /\ [Echo!Next]_(Echo!vars)
<1>0. /\ Sockets /\ tcp' \in [Conns -> Connection]
      /\ buf \in [Conns -> Buffer]
  BY DEF Inv, TypeOK, Sockets
<1>1. CASE UNCHANGED <<tcp, buf, cpc>>
  BY <1>1, EchoStutter DEF Carried
<1>2. ASSUME NEW c \in Conns, ParentAccept(c)
      PROVE  Carried' /\ [Echo!Next]_(Echo!vars)
  <2>1. Accept(c) /\ UNCHANGED <<buf, cpc>>
    BY <1>2 DEF ParentAccept, childVars
  <2>2. \A d \in Conns : /\ Conserved(d, tcp'[d], buf[d])
                         /\ tcp'[d].echoed = tcp[d].echoed /\ tcp'[d].sent = tcp[d].sent
    BY <1>0, <2>1, AcceptConserves DEF Carried
  <2>3. Carried'
    BY <2>1, <2>2 DEF Carried
  <2>4. UNCHANGED Echo!vars
    BY <2>2 DEF Echo!vars
  <2> QED
    BY <2>3, <2>4
<1>3. ASSUME NEW c \in Conns, Outside(c), UNCHANGED <<buf, cpc>>
      PROVE  Carried' /\ [Echo!Next]_(Echo!vars)
  <2>1. Conserved(c, tcp[c], buf[c]) /\ buf[c] \in Stream
    BY <1>0 DEF Carried, Buffer
  <2>2. /\ Conserved(c, tcp'[c], buf[c]) /\ Others(c)
        /\ tcp'[c].echoed = tcp[c].echoed /\ tcp'[c].sent >= tcp[c].sent
    BY <1>0, <1>3, <2>1, OutsideConserves
  <2>3. Carried'
    BY <1>3, <2>2 DEF Carried, Others
  <2>4. tcp[c].echoed = Run(c, 0, Len(tcp[c].echoed))
    BY <2>1 DEF Conserved
  <2> QED
    BY <1>0, <2>2, <2>3, <2>4, EchoStep
<1> QED
  BY <1>1, <1>2, <1>3, ChildCarries
  DEF Next, ParentStep, ParentForks, ParentClosesClient, SignalDelivered, read_childproc,
      childVars, vars

(* Whatever the number of clients, the sizes of their messages and of the  *)
(* buffers, and however parent, children, signals, resets and clients that *)
(* go away interleave: what a client is sent back is always the first      *)
(* bytes it has sent, in order, and nothing of anybody else's.             *)
THEOREM ImplementsEcho == Spec => RefinesEcho
<1>1. Init => Echo!Init
  BY EchoInit DEF Init
<1>2. Inv /\ Inv' /\ Carried /\ [Next]_vars => Carried' /\ [Echo!Next]_(Echo!vars)
  BY CarriedStep
<1> QED
  BY <1>1, <1>2, CarriedInit, Invariance, PTL DEF Spec, RefinesEcho, Echo!Spec
=============================================================================
