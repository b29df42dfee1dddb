------------------------- MODULE ThreadServerProofs -------------------------
(***************************************************************************)
(* Safety of ThreadServer for any number of clients, descriptors and       *)
(* threads, and any message and buffer size.                               *)
(***************************************************************************)
EXTENDS ThreadServer, TcpLemmas, FiniteSetTheorems, WellFoundedInduction

Busy(t, f, place) == thread[t].pc = place /\ thread[t].sock = f

(* Each open number stands for one accepted connection. *)
Numbered ==
  /\ \A f \in OpenFds : Accepted(conn[f])
  /\ \A f, g \in OpenFds : conn[f] = conn[g] => f = g

(* The number of a connection that is not shared has one thread at most, *)
Alone ==
  \A f \in OpenFds : conn[f] \notin shared =>
    \A t, u \in Holders(f) : t = u

(* and a thread whose number was closed under it is not its only one: so   *)
(* the next connection of that number is shared from its first step on.    *)
Closers ==
  \A f \in Fds \ OpenFds, t \in Threads :
    Busy(t, f, "write") \/ Busy(t, f, "close") =>
      \E u \in Threads \ {t} : u \in Holders(f)

(* A thread has read something, or the end of it, only from a number that  *)
(* was a client's.                                                         *)
Named ==
  \A t \in Threads : thread[t].pc \in {"write", "close"} => thread[t].sock \in Fds

(* Nothing but close() by the client ends a stream. *)
Ends == \A c \in Conns : {"fin", "rst", "dead"} \cap tcp[c].marks # {} => Closed(c)

(* A thread closes a connection of its own only after its client has. *)
Told ==
  \A f \in OpenFds, t \in Threads :
    Busy(t, f, "close") /\ conn[f] \notin shared => Closed(conn[f])

Unclosed == \A c \in Conns \ shared : Released(c) => Closed(c)

(* The thread t is about to write what it has read to connection c. *)
Writer(t, c) == /\ thread[t].pc = "write"
                /\ thread[t].sock \in OpenFds /\ conn[thread[t].sock] = c

(* What the threads hold of connection c is held. *)
Holding(c, held) ==
  /\ \A t \in Threads : Writer(t, c) => thread[t].buf = held
  /\ (\A t \in Threads : ~Writer(t, c)) => held = << >>

Carried ==
  \A c \in Conns \ shared :
    \E held \in Stream : Holding(c, held) /\ Conserved(c, tcp[c], held)

Inv == /\ TypeOK /\ Numbered /\ Alone /\ Closers /\ Named
       /\ Ends /\ Told /\ Unclosed /\ Carried

Stages == {"none", "start", "read", "write", "close"}

(* The variables one by one, as the provers like them. *)
LEMMA Types ==
  ASSUME TypeOK
  PROVE  /\ Sockets /\ tcp \in [Conns -> Connection]
         /\ conn \in [Fds -> Conns \cup {NONE}]
         /\ pc \in {"accept", "create", "killed"}
         /\ client_sock \in Fds \cup {0, -1}
         /\ thread \in [Threads -> [pc : Stages, sock : Fds \cup {0, -1}, buf : Buffer]]
         /\ shared \subseteq Conns /\ NONE \notin Conns
         /\ \A f \in OpenFds : f \in Fds /\ conn[f] \in Conns
         /\ \A t \in Threads : thread[t].buf \in Stream /\ thread[t].buf \in Buffer
BY DescriptorAssumption DEF TypeOK, Sockets, Stages, OpenFds, Buffer

(* There is no thread at first. *)
LEMMA InitInv == Init => Inv
<1> SUFFICES ASSUME Init PROVE Inv
  OBVIOUS
<1>1. tcp \in [Conns -> Connection]
  BY SocketsInit DEF Init, Sockets
<1>2. << >> \in Buffer /\ << >> \in Stream
  BY TcpAssumption DEF Buffer, Stream
<1>3. OpenFds = {}
  BY DEF Init, AllClosed, OpenFds
<1>4. \A t \in Threads : thread[t].pc = "none"
  BY DEF Init
<1>5. TypeOK
  BY <1>1, <1>2 DEF Init, AllClosed, TypeOK
<1>6. Numbered /\ Alone /\ Closers /\ Named /\ Told
  BY <1>3, <1>4 DEF Numbered, Alone, Closers, Named, Told, Busy
<1>7. Ends /\ Unclosed
  BY DEF Init, TcpInit, Fresh, Ends, Unclosed, Released, Accepted
<1>8. Carried
  <2> SUFFICES ASSUME NEW c \in Conns
               PROVE  Holding(c, << >>) /\ Conserved(c, tcp[c], << >>)
    BY <1>2 DEF Carried
  <2> QED
    BY <1>4, ConservedInit DEF Init, Holding, Writer
<1> QED
  BY <1>5, <1>6, <1>7, <1>8 DEF Inv
-----------------------------------------------------------------------------
(* Sets of threads *)

(* Every set of numbers has a least one. *)
LEMMA Least ==
  ASSUME NEW S, S \subseteq Nat, S # {}
  PROVE  Min(S) \in S
<1> DEFINE R == OpToRel(<, Nat)
<1>1. IsWellFoundedOn(R, Nat)
  BY NatLessThanWellFounded
<1> HIDE DEF R
<1>2. PICK n \in S : \A m \in S : ~(<<m, n>> \in R)
  BY <1>1, WFMin
<1>3. ASSUME NEW m \in S PROVE ~(m < n)
  BY <1>2 DEF R, OpToRel
<1>4. \A m \in S : n <= m
  BY <1>2, <1>3
<1> QED
  BY <1>2, <1>4 DEF Min

(* Two different threads are more than one. *)
LEMMA TwoMembers ==
  ASSUME NEW S, S \subseteq Threads, NEW t \in S, NEW u \in S, t # u
  PROVE  Cardinality(S) > 1
<1>1. IsFiniteSet(Threads)
  BY FS_Interval, ThreadAssumption DEF Threads
<1>2. IsFiniteSet(S)
  BY <1>1, FS_Subset
<1>3. IsFiniteSet({t}) /\ Cardinality({t}) = 1
  BY FS_Singleton
<1>4. Cardinality({t, u}) = 2
  <2>1. {t, u} = {t} \cup {u} /\ u \notin {t}
    OBVIOUS
  <2>2. Cardinality({t} \cup {u}) = Cardinality({t}) + 1
    BY <2>1, <1>3, FS_AddElement
  <2> QED
    BY <2>1, <2>2, <1>3
<1>5. Cardinality({t, u}) <= Cardinality(S)
  <2>1. {t, u} \subseteq S
    OBVIOUS
  <2> QED
    BY <2>1, <1>2, FS_Subset
<1>6. Cardinality(S) \in Nat
  BY <1>2, FS_CardinalityType
<1> QED
  BY <1>4, <1>5, <1>6

(* A thread that goes from one statement of its loop to another keeps its  *)
(* number.                                                                 *)
Looping == {"read", "write", "close"}

GoesOn(t, place, data) == thread' = [thread EXCEPT ![t].pc = place, ![t].buf = data]

(* A thread's loop goes on, with the number it has. *)
LEMMA LoopStep ==
  ASSUME TypeOK, NEW t \in Threads, thread[t].pc \in Looping,
         NEW place \in Looping, NEW data \in Buffer, GoesOn(t, place, data)
  PROVE  /\ thread' \in [Threads -> [pc : Stages, sock : Fds \cup {0, -1}, buf : Buffer]]
         /\ thread'[t].pc = place /\ thread'[t].buf = data
         /\ thread'[t].sock = thread[t].sock
         /\ \A u \in Threads \ {t} : thread'[u] = thread[u]
         /\ \A f : Holders(f)' = Holders(f)
<1>0. thread \in [Threads -> [pc : Stages, sock : Fds \cup {0, -1}, buf : Buffer]]
  BY Types
<1>1. /\ thread' \in [Threads -> [pc : Stages, sock : Fds \cup {0, -1}, buf : Buffer]]
      /\ thread'[t].pc = place /\ thread'[t].buf = data
      /\ thread'[t].sock = thread[t].sock
      /\ \A u \in Threads \ {t} : thread'[u] = thread[u]
  BY <1>0 DEF GoesOn, Looping, Stages
<1>2. \A f : Holders(f)' = Holders(f)
  BY <1>1 DEF Holders, Looping
<1> QED
  BY <1>1, <1>2
-----------------------------------------------------------------------------
(* Steps on a connection *)

(* A client, the network or a system call keeps what is known of the ends. *)
LEMMA SocketStep ==
  ASSUME Sockets, Ends, NEW c \in Conns, NEW data \in Stream,
         \/ Outside(c) \/ ReadData(c) \/ ReadFails(c) \/ ReadEof(c)
         \/ WriteAll(c, data) \/ WriteFails(c) \/ WriteKills(c)
  PROVE  /\ Kept /\ Others(c) /\ Ends'
         /\ \A d \in Conns : Closed(d) => Closed(d)'
<1>1. Kept
  BY OutsideSockets, ReadSockets, WriteSockets
<1>2. Others(c)
  BY DEF Outside, Connect, Send, Receive, Close, ResetArrives, ReadData, ReadFails,
         ReadEof, WriteAll, WriteTakes, WriteFails, WriteKills, Others, Sockets
<1>3. \/ tcp'[c].marks \in {tcp[c].marks, tcp[c].marks \ {"err"}}
      \/ "closed" \in tcp'[c].marks
  <2>1. CASE Connect(c) \/ Send(c) \/ Receive(c)
    BY <2>1 DEF Connect, Send, Receive, Sockets, Connection
  <2>2. CASE Close(c)
    <3>1. \E e \in {"fin", "rst"} : tcp'[c].marks = tcp[c].marks \cup {"closed", e}
      BY <2>2 DEF Close, Sockets, Connection
    <3> QED
      BY <3>1
  <2>3. CASE ResetArrives(c)
    <3>1. "closed" \in tcp[c].marks
      BY <2>3 DEF ResetArrives, Is, Ends, Closed
    <3>2. \E e \in {{"dead"}, {"dead", "err"}} : tcp'[c].marks = (tcp[c].marks \ {"rst"}) \cup e
      BY <2>3 DEF ResetArrives, Sockets, Connection
    <3> QED
      BY <3>1, <3>2
  <2>4. CASE ReadData(c) \/ ReadEof(c) \/ WriteKills(c)
    BY <2>4 DEF ReadData, ReadEof, WriteKills, Sockets, Connection
  <2>5. CASE ReadFails(c) \/ WriteFails(c)
    BY <2>5 DEF ReadFails, WriteFails, Sockets, Connection
  <2>6. CASE WriteAll(c, data)
    <3>1. tcp'[c].marks = IF Closed(c) THEN tcp[c].marks \cup {"rst"} ELSE tcp[c].marks
      BY <2>6 DEF WriteAll, WriteTakes, Sockets, Connection
    <3> QED
      BY <3>1 DEF Closed, Is
  <2> QED
    BY <2>1, <2>2, <2>3, <2>4, <2>5, <2>6 DEF Outside
<1>4. \A d \in Conns : Closed(d) => Closed(d)'
  BY <1>2, <1>3 DEF Others, Closed, Is
<1>5. Ends'
  BY <1>2, <1>3 DEF Others, Closed, Is, Ends
<1> QED
  BY <1>1, <1>2, <1>4, <1>5

(* What a step on connection c leaves as it was, if the threads and their  *)
(* numbers stay.                                                           *)
LEMMA OutsideStep ==
  ASSUME Inv, NEW c \in Conns, Outside(c), UNCHANGED <<conn, serverVars, thread, shared>>
  PROVE  Inv'
<1>0. << >> \in Stream /\ Sockets
  BY Types DEF Inv, Stream
<1>1. /\ Kept /\ Others(c) /\ Ends'
      /\ \A d \in Conns : Closed(d) => Closed(d)'
  BY <1>0, SocketStep DEF Inv
<1>2. OpenFds' = OpenFds /\ (\A f : Holders(f)' = Holders(f))
      /\ \A f \in OpenFds : f \in Fds /\ conn[f] \in Conns
  BY Types DEF Inv, OpenFds, Holders
<1>3. TypeOK'
  BY <1>1, Types DEF Inv, TypeOK, serverVars, Kept, Sockets
<1>4. Numbered'
  BY <1>1, <1>2 DEF Inv, Numbered, Accepted, Kept
<1>5. Alone' /\ Closers' /\ Named'
  BY <1>2 DEF Inv, Alone, Closers, Busy, Named
<1>6. Told'
  BY <1>1, <1>2 DEF Inv, Told, Busy
<1>7. Unclosed'
  BY <1>1 DEF Inv, Unclosed, Released, Accepted, Kept
<1>8. Carried'
  <2> SUFFICES ASSUME NEW d \in Conns \ shared
               PROVE  \E held \in Stream : Holding(d, held)' /\ Conserved(d, tcp'[d], held)
    BY DEF Carried
  <2>1. PICK held \in Stream : Holding(d, held) /\ Conserved(d, tcp[d], held)
    BY DEF Inv, Carried
  <2>2. Holding(d, held)'
    BY <2>1, <1>2 DEF Holding, Writer
  <2>3. Conserved(d, tcp'[d], held)
    BY <2>1, <1>0, <1>1, OutsideConserves DEF Others
  <2> QED
    BY <2>2, <2>3
<1> QED
  BY <1>1, <1>3, <1>4, <1>5, <1>6, <1>7, <1>8 DEF Inv

(* Threads that are created, or have read their number, change nothing but *)
(* who holds which number.                                                 *)
LEMMA ThreadsStep ==
  ASSUME Inv, UNCHANGED <<tcp, conn>>, TypeOK', shared \subseteq shared',
         \A t \in Threads :
           /\ thread'[t].buf = thread[t].buf
           /\ \/ thread'[t] = thread[t]
              \/ /\ thread[t].pc \in {"none", "start"}
                 /\ thread'[t].pc \in {"start", "read"},
         Alone'
  PROVE  Inv'
<1>1. OpenFds' = OpenFds
  BY DEF OpenFds
<1>2. \A t \in Threads, f \in Fds, place \in {"write", "close"} :
        Busy(t, f, place)' <=> Busy(t, f, place)
  BY DEF Busy
<1>3. \A f \in Fds : Holders(f) \subseteq Holders(f)'
  BY DEF Holders
<1>4. Numbered' /\ Ends' /\ Unclosed'
  BY <1>1 DEF Inv, Numbered, Ends, Unclosed, Accepted, Released, Closed, Is
<1>5. Closers' /\ Named'
  <2>1. Closers'
    BY <1>1, <1>2, <1>3 DEF Inv, Closers
  <2>2. Named'
    BY DEF Inv, Named
  <2> QED
    BY <2>1, <2>2
<1>6. Told'
  BY <1>1, <1>2, Types DEF Inv, Told, Closed, Is
<1>7. Carried'
  <2>1. \A t \in Threads, c \in Conns : Writer(t, c)' <=> Writer(t, c)
    BY <1>1 DEF Writer
  <2>2. \A c \in Conns, held \in Stream : Holding(c, held) => Holding(c, held)'
    BY <2>1 DEF Holding
  <2> QED
    BY <2>2 DEF Inv, Carried
<1> QED
  BY <1>4, <1>5, <1>6, <1>7 DEF Inv

(* pthread_create() starts one of the threads there are none of yet. *)
LEMMA CreatesOne ==
  ASSUME CreateThread
  PROVE  UNCHANGED thread \/ \E t \in Threads : thread[t].pc = "none" /\ NewThread(t)
<1> DEFINE idle == {t \in Threads : thread[t].pc = "none"}
<1>1. ASSUME idle # {} PROVE Min(idle) \in idle
  <2>1. idle \subseteq Nat
    BY DEF Threads
  <2> HIDE DEF idle
  <2> QED
    BY <2>1, <1>1, Least
<1> QED
  BY <1>1 DEF CreateThread

(* pthread_create(), which gives client_sock's address away *)
LEMMA CreateStep ==
  ASSUME Inv, CreateThread
  PROVE  Inv'
<1>1. UNCHANGED <<tcp, conn, client_sock, shared>> /\ pc' = "accept"
  BY DEF CreateThread
<1>2. CASE UNCHANGED thread
  BY <1>1, <1>2 DEF Inv, TypeOK, Numbered, Alone, Closers, Named, Ends, Told, Unclosed, Carried,
    Busy, Holders, OpenFds, Accepted, Released, Closed, Is, Holding, Writer
<1>3. ASSUME NEW t \in Threads, thread[t].pc = "none", NewThread(t) PROVE Inv'
  <2>1. thread \in [Threads -> [pc : Stages, sock : Fds \cup {0, -1}, buf : Buffer]]
    BY Types DEF Inv
  <2>2. /\ thread' \in [Threads -> [pc : Stages, sock : Fds \cup {0, -1}, buf : Buffer]]
        /\ thread'[t].pc = "start" /\ thread'[t].buf = thread[t].buf
        /\ \A u \in Threads \ {t} : thread'[u] = thread[u]
    BY <1>3, <2>1 DEF NewThread, Stages
  <2>3. TypeOK'
    BY <1>1, <2>2, Types DEF Inv, TypeOK, Stages
  <2>4. \A f : Holders(f)' = Holders(f)
    BY <1>3, <2>2 DEF Holders
  <2>5. Alone'
    BY <1>1, <2>4 DEF Inv, Alone, OpenFds
  <2> QED
    BY <1>1, <1>3, <2>2, <2>3, <2>5, ThreadsStep
<1> QED
  BY <1>2, <1>3, CreatesOne

(* The thread reads its argument: whoever has the number by then shares it. *)
LEMMA ArgStep ==
  ASSUME Inv, NEW t \in Threads, ReadsArg(t)
  PROVE  Inv'
<1>1. /\ UNCHANGED <<tcp, conn, pc, client_sock>> /\ shared' = shared \cup Crowded'
      /\ thread[t].pc = "start"
  BY DEF ReadsArg, At, serverVars
<1>2. /\ thread \in [Threads -> [pc : Stages, sock : Fds \cup {0, -1}, buf : Buffer]]
      /\ client_sock \in Fds \cup {0, -1}
  BY Types DEF Inv
<1>3. /\ thread' \in [Threads -> [pc : Stages, sock : Fds \cup {0, -1}, buf : Buffer]]
      /\ thread'[t].pc = "read" /\ thread'[t].buf = thread[t].buf
      /\ \A u \in Threads \ {t} : thread'[u] = thread[u]
  BY <1>2 DEF ReadsArg, Stages
<1>4. OpenFds' = OpenFds /\ \A f \in OpenFds : f \in Fds /\ conn[f] \in Conns
  BY <1>1, Types DEF OpenFds, Inv
<1>5. TypeOK'
  <2>1. Crowded' \subseteq Conns
    BY DEF Crowded
  <2> QED
    BY <1>1, <1>3, <2>1, Types DEF Inv, TypeOK, Stages
<1>6. Alone'
  <2> SUFFICES ASSUME NEW f \in OpenFds, conn[f] \notin shared',
                      NEW u \in Holders(f)', NEW w \in Holders(f)', u # w
               PROVE  FALSE
    BY <1>1, <1>4 DEF Alone
  <2>1. f \in Fds /\ conn'[f] \in Conns
    BY <1>1, <1>4
  <2>2. Holders(f)' \subseteq Threads
    BY DEF Holders
  <2>3. Cardinality(Holders(f)') > 1
    BY <2>2, TwoMembers
  <2>4. conn'[f] \in Crowded'
    BY <2>1, <2>3 DEF Crowded
  <2> QED
    BY <1>1, <2>4
<1> QED
  BY <1>1, <1>3, <1>5, <1>6, ThreadsStep

(* A new connection takes a free number.  If a thread is left at that      *)
(* number with bytes in its buffer, or about to close it, another one is   *)
(* too, and the connection counts as shared.                               *)
LEMMA AcceptStep ==
  ASSUME Inv, NEW c \in Conns, AcceptClient(c)
  PROVE  Inv'
<1>1. PICK f \in Fds : AcceptAs(c, f) /\ client_sock' = f
  BY DEF AcceptClient
<1>2. /\ Accept(c) /\ f \notin OpenFds /\ conn' = [conn EXCEPT ![f] = c]
      /\ pc' = "create" /\ UNCHANGED thread /\ shared' = shared \cup Crowded'
      /\ Sockets /\ conn \in [Fds -> Conns \cup {NONE}] /\ NONE \notin Conns
  BY <1>1, Types DEF AcceptClient, AcceptAs, Inv
<1>3. /\ OpenFds' = OpenFds \cup {f} /\ conn'[f] = c /\ conn[f] = NONE
      /\ \A g \in OpenFds : g # f /\ conn'[g] = conn[g] /\ conn[g] \in Conns
  BY <1>2, Types DEF Inv, OpenFds
<1>4. /\ Sockets' /\ tcp[c].client = "queued" /\ tcp'[c].client = "accepted"
      /\ \A d \in Conns \ {c} : tcp'[d].client = tcp[d].client
      /\ \A d \in Conns : tcp'[d].marks = tcp[d].marks
  BY <1>2, AcceptSockets DEF Accept, Sockets, Connection
<1>5. \A g \in OpenFds : conn[g] # c
  BY <1>4 DEF Inv, Numbered, Accepted
<1>6. \A g : Holders(g)' = Holders(g)
  BY <1>2 DEF Holders
<1>7. \A g \in OpenFds' : conn'[g] \notin shared' =>
        \A t, u \in Holders(g) : t = u
  <2> SUFFICES ASSUME NEW g \in OpenFds', conn'[g] \notin shared',
                      NEW t \in Holders(g), NEW u \in Holders(g), t # u
               PROVE  FALSE
    OBVIOUS
  <2>1. Holders(g) \subseteq Threads
    BY DEF Holders
  <2>2. Cardinality(Holders(g)') > 1
    BY <2>1, <1>6, TwoMembers
  <2>3. g \in Fds /\ conn'[g] \in Conns
    BY <1>3, Types DEF Inv
  <2>4. conn'[g] \in Crowded'
    BY <2>2, <2>3 DEF Crowded
  <2> QED
    BY <2>4, <1>2
<1>8. c \notin shared' => \A t \in Threads : ~Busy(t, f, "write") /\ ~Busy(t, f, "close")
  <2> SUFFICES ASSUME c \notin shared', NEW t \in Threads,
                      Busy(t, f, "write") \/ Busy(t, f, "close")
               PROVE  FALSE
    OBVIOUS
  <2>1. PICK u \in Threads \ {t} : u \in Holders(f)
    BY <1>2 DEF Inv, Closers
  <2>2. t \in Holders(f)
    BY DEF Busy, Holders
  <2> QED
    BY <2>1, <2>2, <1>3, <1>7
<1>9. TypeOK'
  <2>1. conn' \in [Fds -> Conns \cup {NONE}]
    BY <1>2
  <2>2. Crowded' \subseteq Conns
    BY DEF Crowded
  <2> QED
    BY <1>1, <1>2, <1>4, <2>1, <2>2, Types DEF Inv, TypeOK, Sockets
<1>10. Numbered'
  <2>1. \A g \in OpenFds' : Accepted(conn[g])'
    BY <1>3, <1>4, <1>5 DEF Inv, Numbered, Accepted
  <2>2. \A g, h \in OpenFds' : conn'[g] = conn'[h] => g = h
    BY <1>3, <1>5 DEF Inv, Numbered
  <2> QED
    BY <2>1, <2>2 DEF Numbered
<1>11. Alone' /\ Closers' /\ Named'
  <2>1. Alone'
    BY <1>6, <1>7 DEF Alone
  <2>2. Closers'
    BY <1>2, <1>3, <1>6 DEF Inv, Closers, Busy
  <2>3. Named'
    BY <1>2 DEF Inv, Named
  <2> QED
    BY <2>1, <2>2, <2>3
<1>12. Ends'
  BY <1>4 DEF Inv, Ends, Closed, Is
<1>13. Told'
  <2> SUFFICES ASSUME NEW g \in OpenFds', NEW t \in Threads, Busy(t, g, "close"),
                      conn'[g] \notin shared'
               PROVE  "closed" \in tcp'[conn'[g]].marks
    BY <1>2 DEF Told, Closed, Is, Busy
  <2>1. g # f
    BY <1>3, <1>8
  <2>2. g \in OpenFds /\ conn'[g] = conn[g] /\ conn[g] \in Conns /\ conn[g] \notin shared
    BY <2>1, <1>2, <1>3
  <2> QED
    BY <2>2, <1>4 DEF Inv, Told, Closed, Is
<1>14. Unclosed'
  <2> SUFFICES ASSUME NEW d \in Conns \ shared', Released(d)'
               PROVE  Closed(d)'
    BY DEF Unclosed
  <2>1. d # c
    BY <1>3 DEF Released
  <2>2. Released(d)
    BY <2>1, <1>2, <1>3, <1>4 DEF Released, Accepted
  <2> QED
    BY <2>2, <1>2, <1>4 DEF Inv, Unclosed, Closed, Is
<1>15. Carried'
  <2> SUFFICES ASSUME NEW d \in Conns \ shared'
               PROVE  \E held \in Stream : Holding(d, held)' /\ Conserved(d, tcp'[d], held)
    BY DEF Carried
  <2>1. PICK held \in Stream : Holding(d, held) /\ Conserved(d, tcp[d], held)
    BY <1>2 DEF Inv, Carried
  <2>2. Conserved(d, tcp'[d], held)
    BY <2>1, <1>2, AcceptConserves
  <2>3. \A t \in Threads : Writer(t, d)' <=> Writer(t, d)
    <3> SUFFICES ASSUME NEW t \in Threads, thread[t].pc = "write"
                 PROVE  Writer(t, d)' <=> Writer(t, d)
      BY <1>2 DEF Writer
    <3>1. CASE thread[t].sock = f
      <4>1. d # c
        BY <3>1, <1>8 DEF Busy
      <4> QED
        BY <3>1, <4>1, <1>2, <1>3 DEF Writer
    <3>2. CASE thread[t].sock # f
      BY <3>2, <1>2, <1>3 DEF Writer
    <3> QED
      BY <3>1, <3>2
  <2>4. Holding(d, held)'
    BY <2>1, <2>3, <1>2 DEF Holding
  <2> QED
    BY <2>2, <2>4
<1> QED
  BY <1>9, <1>10, <1>11, <1>12, <1>13, <1>14, <1>15 DEF Inv

(* A thread goes on in its loop: it comes to write() or close() only from  *)
(* a read() that its number was open for, and to close() only when its     *)
(* client has closed the connection.                                       *)
LEMMA LoopInv ==
  ASSUME Inv, NEW t \in Threads, thread[t].pc \in Looping,
         NEW place \in Looping, NEW data \in Buffer, GoesOn(t, place, data),
         UNCHANGED <<conn, client_sock, shared>>, pc' \in {pc, "killed"},
         Kept, Ends', \A d \in Conns : Closed(d) => Closed(d)',
         place \in {"write", "close"} => thread[t].sock \in OpenFds,
         place = "close" => Closed(conn[thread[t].sock]),
         Carried'
  PROVE  Inv'
<1>1. OpenFds' = OpenFds /\ \A f \in OpenFds : f \in Fds /\ conn[f] \in Conns
  BY Types DEF OpenFds, Inv
<1>2. /\ thread' \in [Threads -> [pc : Stages, sock : Fds \cup {0, -1}, buf : Buffer]]
      /\ thread'[t].pc = place /\ thread'[t].sock = thread[t].sock
      /\ \A u \in Threads \ {t} : thread'[u] = thread[u]
      /\ \A f : Holders(f)' = Holders(f)
  BY LoopStep DEF Inv
<1>3. TypeOK'
  BY <1>2, Types DEF Inv, TypeOK, Stages, Kept, Sockets
<1>4. Numbered'
  BY <1>1 DEF Inv, Numbered, Accepted, Kept
<1>5. Alone'
  BY <1>1, <1>2 DEF Inv, Alone
<1>6. Closers' /\ Named'
  <2>1. Closers'
    BY <1>1, <1>2 DEF Inv, Closers, Busy
  <2>2. Named'
    BY <1>1, <1>2 DEF Inv, Named
  <2> QED
    BY <2>1, <2>2
<1>7. Told'
  BY <1>1, <1>2 DEF Inv, Told, Busy
<1>8. Unclosed'
  BY DEF Inv, Unclosed, Released, Accepted, Kept
<1> QED
  BY <1>3, <1>4, <1>5, <1>6, <1>7, <1>8 DEF Inv

(* The one thread of a connection that is not shared *)
LEMMA SoleWriter ==
  ASSUME Inv, NEW t \in Threads, thread[t].pc \in Looping, thread[t].sock \in OpenFds,
         conn[thread[t].sock] \notin shared,
         NEW u \in Threads, Writer(u, conn[thread[t].sock])
  PROVE  u = t
<1>1. thread[u].sock = thread[t].sock
  BY DEF Inv, Numbered, Writer
<1>2. u \in Holders(thread[t].sock) /\ t \in Holders(thread[t].sock)
  BY <1>1 DEF Holders, Writer, Looping
<1> QED
  BY <1>2 DEF Inv, Alone

(* What thread t, in the loop with an open number, does to the bytes held: *)
(* it is enough to look at the connection of that number.                  *)
LEMMA OneCarried ==
  ASSUME Inv, NEW t \in Threads, thread[t].pc \in Looping, thread[t].sock \in OpenFds,
         NEW place \in Looping, NEW data \in Buffer, GoesOn(t, place, data),
         UNCHANGED conn, UNCHANGED shared, Others(conn[thread[t].sock]),
         NEW now \in Stream, now = IF place = "write" THEN data ELSE << >>,
         conn[thread[t].sock] \notin shared =>
           Conserved(conn[thread[t].sock], tcp'[conn[thread[t].sock]], now)
  PROVE  Carried'
<1> DEFINE c == conn[thread[t].sock]
<1>0. TypeOK
  BY DEF Inv
<1>1. /\ OpenFds' = OpenFds /\ conn' = conn
      /\ c \in Conns /\ << >> \in Stream /\ data \in Stream
  BY <1>0, Types DEF OpenFds, Stream, Buffer
<1>2. /\ thread'[t].pc = place /\ thread'[t].buf = data
      /\ thread'[t].sock = thread[t].sock
      /\ \A u \in Threads \ {t} : thread'[u] = thread[u]
  BY <1>0, LoopStep
<1> SUFFICES ASSUME NEW d \in Conns \ shared
             PROVE  \E held \in Stream : Holding(d, held)' /\ Conserved(d, tcp'[d], held)
  BY DEF Carried
<1>3. CASE d = c
  <2>1. \A u \in Threads \ {t} : ~Writer(u, d)'
    <3>1. \A u \in Threads \ {t} : ~Writer(u, d)
      BY <1>3, SoleWriter
    <3> SUFFICES ASSUME NEW u \in Threads \ {t} PROVE ~Writer(u, d)'
      OBVIOUS
    <3>2. thread'[u] = thread[u] /\ ~Writer(u, d)
      BY <3>1, <1>2
    <3> QED
      BY <3>2, <1>1 DEF Writer
  <2>2. Writer(t, d)' <=> place = "write"
    BY <1>1, <1>2, <1>3 DEF Writer
  <2>3. CASE place = "write"
    <3>1. Holding(d, data)'
      BY <1>2, <2>1, <2>2, <2>3 DEF Holding
    <3>2. now = data
      BY <2>3
    <3> QED
      BY <1>1, <1>3, <3>1, <3>2
  <2>4. CASE place # "write"
    <3>1. Holding(d, << >>)'
      BY <2>1, <2>2, <2>4 DEF Holding
    <3>2. now = << >>
      BY <2>4
    <3> QED
      BY <1>1, <1>3, <3>1, <3>2
  <2> QED
    BY <2>3, <2>4
<1>4. CASE d # c
  <2>1. PICK held \in Stream : Holding(d, held) /\ Conserved(d, tcp[d], held)
    BY DEF Inv, Carried
  <2>2. \A u \in Threads : /\ Writer(u, d)' <=> Writer(u, d)
                           /\ Writer(u, d) => thread'[u].buf = thread[u].buf
    <3> SUFFICES ASSUME NEW u \in Threads
                 PROVE  /\ Writer(u, d)' <=> Writer(u, d)
                        /\ Writer(u, d) => thread'[u].buf = thread[u].buf
      OBVIOUS
    <3>1. CASE u = t
      BY <3>1, <1>1, <1>2, <1>4 DEF Writer
    <3>2. CASE u # t
      <4>1. thread'[u] = thread[u]
        BY <3>2, <1>2
      <4> QED
        BY <4>1, <1>1 DEF Writer
    <3> QED
      BY <3>1, <3>2
  <2>3. Holding(d, held)'
    BY <2>1, <2>2 DEF Holding
  <2>4. tcp'[d] = tcp[d]
    BY <1>4 DEF Others
  <2> QED
    BY <2>1, <2>3, <2>4
<1> QED
  BY <1>3, <1>4

(* What a connection that is not shared has in the buffer of its thread *)
LEMMA HeldBy ==
  ASSUME Inv, NEW t \in Threads, thread[t].pc \in Looping, thread[t].sock \in OpenFds,
         conn[thread[t].sock] \notin shared
  PROVE  Conserved(conn[thread[t].sock], tcp[conn[thread[t].sock]],
                   IF thread[t].pc = "write" THEN thread[t].buf ELSE << >>)
<1> DEFINE c == conn[thread[t].sock]
<1>1. c \in Conns \ shared
  BY Types DEF Inv
<1>2. PICK held \in Stream : Holding(c, held) /\ Conserved(c, tcp[c], held)
  BY <1>1 DEF Inv, Carried
<1>3. Writer(t, c) <=> thread[t].pc = "write"
  BY DEF Writer
<1>4. \A u \in Threads \ {t} : ~Writer(u, c)
  BY SoleWriter
<1> QED
  BY <1>2, <1>3, <1>4 DEF Holding

(* A thread's read(), of whatever connection has its number *)
LEMMA ReadsStep ==
  ASSUME Inv, NEW t \in Threads, Reads(t)
  PROVE  Inv'
<1> DEFINE c == conn[thread[t].sock]
<1>1. /\ thread[t].pc = "read" /\ thread[t].sock \in OpenFds
      /\ UNCHANGED <<conn, pc, client_sock, shared>> /\ c \in Conns /\ Sockets
      /\ thread \in [Threads -> [pc : Stages, sock : Fds \cup {0, -1}, buf : Buffer]]
      /\ thread[t].pc \in Looping /\ << >> \in Stream /\ Ends
  BY Types DEF Reads, At, serverVars, Inv, Looping, Stream
<1>2. c \notin shared => Conserved(c, tcp[c], << >>)
  BY <1>1, HeldBy
<1>3. ReadData(c) \/ ReadFails(c) \/ ReadEof(c)
  BY DEF Reads
<1>4. Kept /\ Others(c) /\ Ends' /\ \A d \in Conns : Closed(d) => Closed(d)'
  BY <1>1, <1>3, SocketStep
<1>5. Data(c) \in Buffer
  BY <1>1, GotBounds
<1>6. PICK place \in Looping, data \in Buffer :
        /\ GoesOn(t, place, data)
        /\ \/ ReadData(c) /\ place = "write" /\ data = Data(c)
           \/ ReadFails(c) /\ place = "read"
           \/ ReadEof(c) /\ place = "close"
  <2>1. CASE ReadData(c) /\ thread' = Filled(t, Data(c))
    <3>1. GoesOn(t, "write", Data(c))
      BY <1>1, <2>1 DEF Filled, GoesOn
    <3> QED
      BY <3>1, <2>1, <1>5 DEF Looping
  <2>2. CASE ReadFails(c) /\ UNCHANGED thread
    <3>1. thread[t].buf \in Buffer
      BY <1>1
    <3>2. GoesOn(t, "read", thread[t].buf)
      BY <1>1, <2>2 DEF GoesOn
    <3> QED
      BY <2>2, <3>1, <3>2 DEF Looping
  <2>3. CASE ReadEof(c) /\ thread' = [thread EXCEPT ![t].pc = "close"]
    <3>1. thread[t].buf \in Buffer
      BY <1>1
    <3>2. GoesOn(t, "close", thread[t].buf)
      BY <1>1, <2>3 DEF GoesOn
    <3> QED
      BY <2>3, <3>1, <3>2 DEF Looping
  <2> QED
    BY <2>1, <2>2, <2>3 DEF Reads
<1>7. PICK now \in Stream :
        /\ now = IF place = "write" THEN data ELSE << >>
        /\ c \notin shared => Conserved(c, tcp'[c], now)
  <2>1. c \notin shared => Conserved(c, tcp'[c], IF place = "write" THEN data ELSE << >>)
    BY <1>1, <1>2, <1>6, ReadConserves
  <2> QED
    BY <2>1, <1>1 DEF Buffer
<1>8. Carried'
  BY <1>1, <1>4, <1>6, <1>7, OneCarried
<1>9. place = "close" => Closed(c)
  BY <1>1, <1>6 DEF ReadEof, Ends, Is
<1> QED
  BY <1>1, <1>4, <1>6, <1>8, <1>9, LoopInv

(* A thread's write(), which may end the program *)
LEMMA WritesStep ==
  ASSUME Inv, NEW t \in Threads, Writes(t)
  PROVE  Inv'
<1> DEFINE c == conn[thread[t].sock]
           data == thread[t].buf
<1>1. /\ thread[t].pc = "write" /\ UNCHANGED <<conn, client_sock, shared>> /\ Sockets
      /\ thread \in [Threads -> [pc : Stages, sock : Fds \cup {0, -1}, buf : Buffer]]
      /\ thread[t].pc \in Looping /\ << >> \in Stream /\ << >> \in Buffer
      /\ data \in Stream /\ Ends /\ "read" \in Looping /\ pc' \in {pc, "killed"}
  BY Types, TcpAssumption DEF Writes, At, Inv, Looping, Stream, Buffer
<1>2. CASE c = NONE
  <2>1. ReadsOn(t) /\ UNCHANGED tcp
    BY <1>2 DEF Writes
  <2>2. GoesOn(t, "read", << >>)
    BY <2>1 DEF ReadsOn, GoesOn
  <2>3. /\ thread'[t].pc = "read" /\ thread'[t].sock = thread[t].sock
        /\ \A u \in Threads \ {t} : thread'[u] = thread[u]
    BY <1>1, <2>2, LoopStep DEF Inv
  <2>4. Carried'
    <3>1. ~Writer(t, NONE)' /\ \A d \in Conns : ~Writer(t, d) /\ ~Writer(t, d)'
      BY <1>2, <2>3, Types DEF Inv, Writer
    <3>2. \A d \in Conns, u \in Threads : Writer(u, d)' <=> Writer(u, d)
      BY <1>1, <2>3, <3>1 DEF Writer, OpenFds
    <3>3. \A d \in Conns, held \in Stream : Holding(d, held) => Holding(d, held)'
      BY <2>3, <3>1, <3>2 DEF Holding
    <3> QED
      BY <1>1, <2>1, <3>3 DEF Inv, Carried
  <2>5. Kept /\ Ends' /\ \A d \in Conns : Closed(d) => Closed(d)'
    BY <1>1, <2>1 DEF Kept, Sockets, Ends, Closed, Is
  <2> QED
    BY <1>1, <2>2, <2>4, <2>5, LoopInv
<1>3. CASE c # NONE /\ (WriteAll(c, data) \/ WriteFails(c)) /\ ReadsOn(t)
  <2>1. thread[t].sock \in OpenFds /\ c \in Conns
    <3>1. thread[t].sock \in OpenFds
      BY <1>1, <1>3 DEF Inv, Named, OpenFds
    <3> QED
      BY <3>1, Types DEF Inv
  <2>2. GoesOn(t, "read", << >>)
    BY <1>3 DEF ReadsOn, GoesOn
  <2>3. Kept /\ Others(c) /\ Ends' /\ \A d \in Conns : Closed(d) => Closed(d)'
    BY <1>1, <1>3, <2>1, SocketStep
  <2>4. c \notin shared => Conserved(c, tcp'[c], << >>)
    <3> SUFFICES ASSUME c \notin shared PROVE Conserved(c, tcp'[c], << >>)
      OBVIOUS
    <3>1. Conserved(c, tcp[c], data)
      BY <1>1, <2>1, HeldBy
    <3>2. WriteTakes(c, data, Len(data)) \/ WriteFails(c)
      BY <1>3 DEF WriteAll
    <3> QED
      BY <1>1, <2>1, <3>1, <3>2, WriteConserves
  <2>5. Carried'
    BY <1>1, <2>1, <2>2, <2>3, <2>4, OneCarried
  <2> QED
    BY <1>1, <2>2, <2>3, <2>5, LoopInv
<1>4. CASE WriteKills(c) /\ pc' = "killed" /\ UNCHANGED thread
  <2>1. UNCHANGED <<tcp, conn, client_sock, thread, shared>>
    BY <1>1, <1>4 DEF WriteKills
  <2> QED
    BY <2>1, <1>4 DEF Inv, TypeOK, Numbered, Alone, Closers, Named, Ends, Told, Unclosed, Carried,
      Busy, Holders, OpenFds, Accepted, Released, Closed, Is, Holding, Writer
<1> QED
  BY <1>2, <1>3, <1>4 DEF Writes

(* close(): the thread stays where it is, at a number that is free, and so *)
(* will be one of two when the number is given out again.                  *)
LEMMA ClosesStep ==
  ASSUME Inv, NEW t \in Threads, Closes(t)
  PROVE  Inv'
<1> DEFINE f == thread[t].sock
<1>1. /\ thread[t].pc = "close" /\ UNCHANGED <<tcp, pc, client_sock, shared>>
      /\ conn \in [Fds -> Conns \cup {NONE}] /\ Sockets /\ NONE \notin Conns
      /\ thread[t].pc \in Looping /\ "read" \in Looping /\ << >> \in Buffer
      /\ TypeOK /\ \A g \in OpenFds : g \in Fds /\ conn[g] \in Conns
  BY Types, TcpAssumption DEF Closes, At, serverVars, Inv, Looping, Stream, Buffer
<1>2. f \in Fds
  BY <1>1 DEF Inv, Named
<1>3. GoesOn(t, "read", << >>) /\ conn' = [conn EXCEPT ![f] = NONE]
  BY DEF Closes, ReadsOn, GoesOn, ClosesNumber, CloseFd
<1> HIDE DEF f
<1>4. /\ conn' \in [Fds -> Conns \cup {NONE}] /\ conn'[f] = NONE
      /\ \A g \in Fds \ {f} : conn'[g] = conn[g]
  BY <1>1, <1>2, <1>3
<1>5. OpenFds' = OpenFds \ {f} /\ \A g \in OpenFds' : conn'[g] = conn[g]
  BY <1>4 DEF OpenFds
<1>6. /\ thread' \in [Threads -> [pc : Stages, sock : Fds \cup {0, -1}, buf : Buffer]]
      /\ thread'[t].pc = "read" /\ thread'[t].sock = f
      /\ \A u \in Threads \ {t} : thread'[u] = thread[u]
      /\ \A g : Holders(g)' = Holders(g)
  BY <1>1, <1>3, LoopStep DEF f
<1>7. TypeOK'
  BY <1>1, <1>4, <1>6, Types DEF TypeOK, Stages, Sockets
<1>8. Numbered' /\ Ends'
  BY <1>1, <1>5 DEF Inv, Numbered, Accepted, Ends, Closed, Is
<1>9. Alone'
  BY <1>1, <1>5, <1>6 DEF Inv, Alone
<1>10. Closers'
  <2> SUFFICES ASSUME NEW g \in Fds \ OpenFds', NEW u \in Threads,
                      (Busy(u, g, "write") \/ Busy(u, g, "close"))'
               PROVE  \E w \in Threads \ {u} : w \in Holders(g)'
    BY DEF Closers
  <2>1. u # t /\ thread'[u] = thread[u]
    BY <1>6 DEF Busy
  <2>2. CASE g = f
    <3>1. t \in Holders(g)'
      BY <1>6, <2>2 DEF Holders
    <3> QED
      BY <2>1, <3>1
  <2>3. CASE g # f
    <3>1. g \in Fds \ OpenFds /\ (Busy(u, g, "write") \/ Busy(u, g, "close"))
      BY <2>1, <2>3, <1>5 DEF Busy
    <3> QED
      BY <3>1, <1>6 DEF Inv, Closers
  <2> QED
    BY <2>2, <2>3
<1>11. Named'
  BY <1>6 DEF Inv, Named
<1>12. Told'
  BY <1>1, <1>5, <1>6 DEF Inv, Told, Busy, Closed, Is
<1>13. Unclosed'
  <2> SUFFICES ASSUME NEW d \in Conns \ shared, Released(d)'
               PROVE  Closed(d)
    BY <1>1 DEF Unclosed, Closed, Is
  <2>1. Accepted(d) /\ \A g \in Fds \ {f} : conn[g] # d
    BY <1>1, <1>4 DEF Released, Accepted
  <2>2. CASE conn[f] = d
    <3>1. f \in OpenFds /\ Busy(t, f, "close")
      BY <1>1, <1>2, <2>2 DEF OpenFds, Busy, f
    <3> QED
      BY <2>2, <3>1 DEF Inv, Told
  <2>3. CASE conn[f] # d
    BY <2>1, <2>3 DEF Released, Inv, Unclosed
  <2> QED
    BY <2>2, <2>3
<1>14. Carried'
  <2> SUFFICES ASSUME NEW d \in Conns \ shared
               PROVE  \E held \in Stream : Holding(d, held)' /\ Conserved(d, tcp[d], held)
    BY <1>1 DEF Carried
  <2>1. PICK held \in Stream : Holding(d, held) /\ Conserved(d, tcp[d], held)
    BY DEF Inv, Carried
  <2>2. ASSUME NEW u \in Threads PROVE Writer(u, d)' <=> Writer(u, d)
    <3>1. CASE u = t
      BY <3>1, <1>1, <1>6 DEF Writer
    <3>2. CASE u # t /\ thread[u].sock # f
      BY <3>2, <1>5, <1>6 DEF Writer
    <3>3. CASE u # t /\ thread[u].sock = f
      <4>1. ~Writer(u, d)'
        BY <3>3, <1>5, <1>6 DEF Writer
      <4>2. ~Writer(u, d)
        <5> SUFFICES ASSUME Writer(u, d) PROVE FALSE
          OBVIOUS
        <5>1. f \in OpenFds /\ conn[f] = d
          BY <3>3 DEF Writer
        <5> QED
          BY <5>1, <3>3, <1>1, SoleWriter DEF f
      <4> QED
        BY <4>1, <4>2
    <3> QED
      BY <3>1, <3>2, <3>3
  <2>3. \A u \in Threads : Writer(u, d) => thread'[u].buf = thread[u].buf
    <3>1. ~Writer(t, d)
      BY <1>1 DEF Writer
    <3> QED
      BY <3>1, <1>6
  <2>4. Holding(d, held)'
    BY <2>1, <2>2, <2>3 DEF Holding
  <2> QED
    BY <2>1, <2>4
<1> QED
  BY <1>7, <1>8, <1>9, <1>10, <1>11, <1>12, <1>13, <1>14 DEF Inv

(* accept4() that fails leaves nothing but a number for the next thread. *)
LEMMA RefusedStep ==
  ASSUME Inv, AcceptFails
  PROVE  Inv'
<1>1. UNCHANGED <<tcp, conn, thread, shared>> /\ pc' = "create" /\ client_sock' = -1
  BY DEF AcceptFails
<1>2. TypeOK'
  BY <1>1 DEF Inv, TypeOK
<1>3. Alone'
  BY <1>1 DEF Inv, Alone, Holders, OpenFds
<1> QED
  BY <1>1, <1>2, <1>3, ThreadsStep

(* Every step of the process, of its threads and of the clients *)
LEMMA StepInv == Inv /\ [Next]_vars => Inv'
<1> SUFFICES ASSUME Inv, [Next]_vars PROVE Inv'
  OBVIOUS
<1>1. CASE MainStep
  BY <1>1, AcceptStep, RefusedStep, CreateStep DEF MainStep
<1>2. ASSUME NEW t \in Threads, ThreadStep(t) PROVE Inv'
  BY <1>2, ArgStep, ReadsStep, WritesStep, ClosesStep DEF ThreadStep
<1>3. ASSUME NEW c \in Conns, Outside(c), UNCHANGED <<conn, serverVars, thread, shared>>
      PROVE  Inv'
  BY <1>3, OutsideStep
<1>4. CASE UNCHANGED vars
  BY <1>4 DEF vars, serverVars, Inv, TypeOK, Numbered, Alone, Closers, Named, Ends, Told,
    Unclosed, Carried, Busy, Holders, OpenFds, Accepted, Released, Closed, Is, Holding, Writer
<1> QED
  BY <1>1, <1>2, <1>3, <1>4 DEF Next

(* The invariant holds always. *)
LEMMA Invariance == Spec => []Inv
BY InitInv, StepInv, PTL DEF Spec

(* However many clients, numbers and threads there are: two threads at one *)
(* number are the only cause of trouble in handle_client().  A connection  *)
(* that never had two gets its own bytes back, in order and without gaps,  *)
(* and is not closed before its client has closed it.                      *)
THEOREM UnsharedIntact == Spec => []IntactUnlessShared
<1>1. Inv => IntactUnlessShared
  <2> SUFFICES ASSUME Inv, NEW c \in Conns \ shared
               PROVE  Own(c) /\ (Released(c) => Closed(c))
    BY DEF IntactUnlessShared
  <2>1. PICK held \in Stream : Conserved(c, tcp[c], held)
    BY DEF Inv, Carried
  <2>2. Own(c)
    BY <2>1 DEF Conserved, Run, Own
  <2>3. Released(c) => Closed(c)
    BY DEF Inv, Unclosed
  <2> QED
    BY <2>2, <2>3
<1> QED
  BY <1>1, Invariance, PTL
-----------------------------------------------------------------------------
(* Bytes that are moved, dropped or sent, but never copied *)

(* No two bytes of B are the same, and none is newer than the last sent. *)
Apart(B) ==
  \A s, t \in Spots : \A i \in 1..Len(B[s]), j \in 1..Len(B[t]) :
    B[s][i] = B[t][j] => s = t /\ i = j

Known(B, last) ==
  \A s \in Spots : \A i \in 1..Len(B[s]) : B[s][i][2] <= last[B[s][i][1]]

(* A byte of two sequences in a row is one of the first or of the second. *)
LEMMA EitherOf ==
  ASSUME NEW s \in Stream, NEW t \in Stream, NEW i \in 1..Len(s \o t)
  PROVE  \/ i \in 1..Len(s) /\ (s \o t)[i] = s[i]
         \/ i - Len(s) \in 1..Len(t) /\ i \in Nat /\ (s \o t)[i] = t[i - Len(s)]
<1> DEFINE m == Len(s)
           n == Len(t)
           u == s \o t
<1>1. /\ Len(u) = Len(s) + Len(t)
      /\ \A j \in 1..Len(s) + Len(t) : u[j] = IF j <= Len(s) THEN s[j] ELSE t[j - Len(s)]
  BY ConcatProperties, Zenon DEF Stream
<1>2. m \in Nat /\ n \in Nat
  BY DEF Stream
<1>3. i \in 1..Len(u)
  OBVIOUS
<1> HIDE DEF u
<1>4. i \in 1..m + n
  BY <1>1, <1>3
<1>5. u[i] = IF i <= m THEN s[i] ELSE t[i - m]
  BY <1>1, <1>4
<1> HIDE DEF m, n
<1>6. CASE i <= m
  <2>1. i \in 1..m /\ u[i] = s[i]
    BY <1>2, <1>4, <1>5, <1>6
  <2> QED
    BY <2>1 DEF u, m, n
<1>7. CASE ~(i <= m)
  <2>1. i - m \in 1..n /\ i \in Nat /\ u[i] = t[i - m]
    BY <1>2, <1>4, <1>5, <1>7
  <2> QED
    BY <2>1 DEF u, m, n
<1> QED
  BY <1>6, <1>7

(* The bytes at one spot are dropped. *)
LEMMA Dropped ==
  ASSUME NEW B, NEW C, NEW last, Apart(B) /\ Known(B, last), NEW from \in Spots,
         C[from] = << >>, \A s \in Spots \ {from} : C[s] = B[s]
  PROVE  Apart(C) /\ Known(C, last)
<1>1. Len(C[from]) = 0
  OBVIOUS
<1>2. ASSUME NEW s \in Spots, NEW i \in 1..Len(C[s])
      PROVE  i \in 1..Len(B[s]) /\ C[s][i] = B[s][i]
  BY <1>1
<1>3. Known(C, last)
  BY <1>2 DEF Known
<1>4. Apart(C)
  <2> SUFFICES ASSUME NEW s \in Spots, NEW t \in Spots,
                      NEW i \in 1..Len(C[s]), NEW j \in 1..Len(C[t]), C[s][i] = C[t][j]
               PROVE  s = t /\ i = j
    BY DEF Apart
  <2> QED
    BY <1>2 DEF Apart
<1> QED
  BY <1>3, <1>4

(* The bytes at one spot are put behind those at another. *)
LEMMA PutBehind ==
  ASSUME NEW B, NEW C, NEW last, Apart(B) /\ Known(B, last),
         NEW from \in Spots, NEW to \in Spots \ {from},
         B[from] \in Stream, B[to] \in Stream,
         C[to] = B[to] \o B[from], C[from] = << >>,
         \A s \in Spots \ {from, to} : C[s] = B[s]
  PROVE  Apart(C) /\ Known(C, last)
<1> DEFINE n == Len(B[to])
           k == Len(B[from])
<1>1. n \in Nat /\ k \in Nat
  BY DEF Stream
<1>3. Len(C[from]) = 0
  OBVIOUS
<1>4. ASSUME NEW s \in Spots, NEW i \in 1..Len(C[s])
      PROVE  \/ s # to /\ s # from /\ i \in 1..Len(B[s]) /\ C[s][i] = B[s][i]
             \/ s = to /\ i \in 1..n /\ C[s][i] = B[to][i]
             \/ s = to /\ i - n \in 1..k /\ i \in Nat /\ C[s][i] = B[from][i - n]
  <2>1. CASE s = to
    <3>1. \/ i \in 1..n /\ C[to][i] = B[to][i]
          \/ i - n \in 1..k /\ i \in Nat /\ C[to][i] = B[from][i - n]
      <4> DEFINE u == B[to] \o B[from]
      <4>1. i \in 1..Len(u)
        BY <2>1
      <4>2. \/ i \in 1..n /\ u[i] = B[to][i]
            \/ i - n \in 1..k /\ i \in Nat /\ u[i] = B[from][i - n]
        BY <4>1, EitherOf, Zenon
      <4>3. C[to] = u
        OBVIOUS
      <4> HIDE DEF u, n, k
      <4> QED
        BY <4>2, <4>3
    <3> QED
      BY <2>1, <3>1
  <2>2. CASE s # to
    BY <1>3, <2>2
  <2> QED
    BY <2>1, <2>2
<1> HIDE DEF n, k
<1>5. Known(C, last)
  <2> SUFFICES ASSUME NEW s \in Spots, NEW i \in 1..Len(C[s])
               PROVE  C[s][i][2] <= last[C[s][i][1]]
    BY DEF Known
  <2> QED
    BY <1>4 DEF Known, n, k
<1>6. Apart(C)
  <2> SUFFICES ASSUME NEW s \in Spots, NEW t \in Spots,
                      NEW i \in 1..Len(C[s]), NEW j \in 1..Len(C[t]), C[s][i] = C[t][j]
               PROVE  s = t /\ i = j
    BY DEF Apart
  <2>1. \A q, r \in Spots : \A g \in 1..Len(B[q]), h \in 1..Len(B[r]) :
          B[q][g] = B[r][h] => q = r /\ g = h
    BY DEF Apart
  <2>2. \/ s # to /\ s # from /\ i \in 1..Len(B[s]) /\ C[s][i] = B[s][i]
        \/ s = to /\ i \in 1..n /\ C[s][i] = B[to][i]
        \/ s = to /\ i - n \in 1..k /\ i \in Nat /\ C[s][i] = B[from][i - n]
    BY <1>4
  <2>3. \/ t # to /\ t # from /\ j \in 1..Len(B[t]) /\ C[t][j] = B[t][j]
        \/ t = to /\ j \in 1..n /\ C[t][j] = B[to][j]
        \/ t = to /\ j - n \in 1..k /\ j \in Nat /\ C[t][j] = B[from][j - n]
    BY <1>4
  <2>4. CASE s # to
    BY <2>1, <2>2, <2>3, <2>4 DEF n, k
  <2>5. CASE s = to /\ i \in 1..n /\ C[s][i] = B[to][i]
    BY <2>1, <2>3, <2>5 DEF n, k
  <2>6. CASE s = to /\ i - n \in 1..k /\ i \in Nat /\ C[s][i] = B[from][i - n]
    <3>1. CASE t # to
      BY <2>1, <2>3, <2>6, <3>1 DEF n, k
    <3>2. CASE t = to /\ j \in 1..n /\ C[t][j] = B[to][j]
      BY <2>1, <2>6, <3>2 DEF n, k
    <3>3. CASE t = to /\ j - n \in 1..k /\ j \in Nat /\ C[t][j] = B[from][j - n]
      <4>1. i - n = j - n
        BY <2>1, <2>6, <3>3 DEF n, k
      <4> QED
        BY <1>1, <2>6, <3>3, <4>1
    <3> QED
      BY <2>3, <3>1, <3>2, <3>3
  <2> QED
    BY <2>2, <2>4, <2>5, <2>6
<1> QED
  BY <1>5, <1>6

(* The first k bytes at one spot are taken to another that is empty. *)
LEMMA TakenOff ==
  ASSUME NEW B, NEW C, NEW last, Apart(B) /\ Known(B, last),
         NEW from \in Spots, NEW to \in Spots \ {from},
         B[from] \in Stream, B[to] = << >>, NEW k \in 0..Len(B[from]),
         C[to] = SubSeq(B[from], 1, k), C[from] = SubSeq(B[from], k + 1, Len(B[from])),
         \A s \in Spots \ {from, to} : C[s] = B[s]
  PROVE  Apart(C) /\ Known(C, last)
<1> DEFINE n == Len(B[from])
<1>1. n \in Nat /\ k \in Nat /\ k <= n
  BY DEF Stream
<1>2. Len(C[to]) = k /\ \A i \in 1..k : C[to][i] = B[from][i]
  BY <1>1, SubSeqProperties DEF Stream
<1>3. Len(C[from]) = n - k /\ \A i \in 1..n - k : C[from][i] = B[from][i + k]
  BY <1>1, SubSeqProperties DEF Stream
<1>4. ASSUME NEW s \in Spots, NEW i \in 1..Len(C[s])
      PROVE  \/ s # to /\ s # from /\ i \in 1..Len(B[s]) /\ C[s][i] = B[s][i]
             \/ s = to /\ i \in 1..n /\ i <= k /\ C[s][i] = B[from][i]
             \/ s = from /\ i + k \in 1..n /\ i \in Nat /\ i > 0 /\ C[s][i] = B[from][i + k]
  <2>1. CASE s = to
    BY <1>1, <1>2, <2>1
  <2>2. CASE s = from
    BY <1>1, <1>3, <2>2
  <2> QED
    BY <2>1, <2>2
<1> HIDE DEF n
<1>5. Known(C, last)
  <2> SUFFICES ASSUME NEW s \in Spots, NEW i \in 1..Len(C[s])
               PROVE  C[s][i][2] <= last[C[s][i][1]]
    BY DEF Known
  <2> QED
    BY <1>4 DEF Known, n
<1>6. Apart(C)
  <2> SUFFICES ASSUME NEW s \in Spots, NEW t \in Spots,
                      NEW i \in 1..Len(C[s]), NEW j \in 1..Len(C[t]), C[s][i] = C[t][j]
               PROVE  s = t /\ i = j
    BY DEF Apart
  <2>1. \A q, r \in Spots : \A g \in 1..Len(B[q]), h \in 1..Len(B[r]) :
          B[q][g] = B[r][h] => q = r /\ g = h
    BY DEF Apart
  <2>2. \/ s # to /\ s # from /\ i \in 1..Len(B[s]) /\ C[s][i] = B[s][i]
        \/ s = to /\ i \in 1..n /\ i <= k /\ C[s][i] = B[from][i]
        \/ s = from /\ i + k \in 1..n /\ i \in Nat /\ i > 0 /\ C[s][i] = B[from][i + k]
    BY <1>4
  <2>3. \/ t # to /\ t # from /\ j \in 1..Len(B[t]) /\ C[t][j] = B[t][j]
        \/ t = to /\ j \in 1..n /\ j <= k /\ C[t][j] = B[from][j]
        \/ t = from /\ j + k \in 1..n /\ j \in Nat /\ j > 0 /\ C[t][j] = B[from][j + k]
    BY <1>4
  <2>4. CASE s # to /\ s # from
    BY <2>1, <2>2, <2>3, <2>4 DEF n
  <2>5. CASE s = to /\ i \in 1..n /\ i <= k /\ C[s][i] = B[from][i]
    <3>1. CASE t # to /\ t # from
      BY <2>1, <2>3, <2>5, <3>1 DEF n
    <3>2. CASE t = to /\ j \in 1..n /\ j <= k /\ C[t][j] = B[from][j]
      BY <2>1, <2>5, <3>2 DEF n
    <3>3. CASE t = from /\ j + k \in 1..n /\ j \in Nat /\ j > 0 /\ C[t][j] = B[from][j + k]
      <4>1. i = j + k
        BY <2>1, <2>5, <3>3 DEF n
      <4> QED
        BY <1>1, <2>5, <3>3, <4>1
    <3> QED
      BY <2>3, <3>1, <3>2, <3>3
  <2>6. CASE s = from /\ i + k \in 1..n /\ i \in Nat /\ i > 0 /\ C[s][i] = B[from][i + k]
    <3>1. CASE t # to /\ t # from
      BY <2>1, <2>3, <2>6, <3>1 DEF n
    <3>2. CASE t = to /\ j \in 1..n /\ j <= k /\ C[t][j] = B[from][j]
      <4>1. i + k = j
        BY <2>1, <2>6, <3>2 DEF n
      <4> QED
        BY <1>1, <2>6, <3>2, <4>1
    <3>3. CASE t = from /\ j + k \in 1..n /\ j \in Nat /\ j > 0 /\ C[t][j] = B[from][j + k]
      <4>1. i + k = j + k
        BY <2>1, <2>6, <3>3 DEF n
      <4> QED
        BY <1>1, <2>6, <3>3, <4>1
    <3> QED
      BY <2>3, <3>1, <3>2, <3>3
  <2> QED
    BY <2>2, <2>4, <2>5, <2>6
<1> QED
  BY <1>5, <1>6

(* The client of connection c sends further bytes. *)
LEMMA SentMore ==
  ASSUME NEW B, NEW C, NEW last \in [Conns -> Nat], Apart(B) /\ Known(B, last),
         B \in [Spots -> Stream], NEW c \in Conns, NEW to \in Spots, NEW n \in Nat,
         C[to] = B[to] \o Run(c, last[c], last[c] + n),
         \A s \in Spots \ {to} : C[s] = B[s]
  PROVE  Apart(C) /\ Known(C, [last EXCEPT ![c] = @ + n])
<1> DEFINE m == Len(B[to])
           p == last[c]
           more == [last EXCEPT ![c] = @ + n]
<1>1. m \in Nat /\ p \in Nat /\ B[to] \in Seq(Conns \X Nat)
  BY DEF Stream
<1>2. \A s \in Spots : \A i \in 1..Len(B[s]) : B[s][i] \in Conns \X Nat
  BY DEF Stream
<1>3. /\ Run(c, p, p + n) \in Seq(Conns \X Nat) /\ Len(Run(c, p, p + n)) = n
      /\ \A i \in 1..n : Run(c, p, p + n)[i] = <<c, p + i>>
  <2>1. p + n \in Nat /\ p <= p + n /\ (p + n) - p = n
    BY <1>1
  <2> QED
    BY <1>1, <2>1, RunType DEF Run
<1>5. \A d \in Conns : last[d] \in Nat /\ more[d] \in Nat /\ last[d] <= more[d]
  BY <1>1
<1>6. more[c] = p + n
  OBVIOUS
<1> HIDE DEF m, p, more
<1>7. ASSUME NEW s \in Spots, NEW i \in 1..Len(C[s])
      PROVE  \/ i \in 1..Len(B[s]) /\ C[s][i] = B[s][i]
             \/ s = to /\ i - m \in 1..n /\ i \in Nat /\ C[s][i] = <<c, p + (i - m)>>
  <2>1. CASE s = to
    <3>1. Run(c, p, p + n) \in Stream /\ C[to] = B[to] \o Run(c, p, p + n)
      BY <1>3 DEF p, Stream
    <3>2. \/ i \in 1..m /\ C[to][i] = B[to][i]
          \/ i - m \in 1..n /\ i \in Nat /\ C[to][i] = Run(c, p, p + n)[i - m]
      <4> DEFINE t == Run(c, p, p + n)
                 u == B[to] \o t
      <4>1. i \in 1..Len(u)
        BY <2>1, <3>1
      <4>2. Len(t) = n
        BY <1>3
      <4>3. t \in Stream /\ B[to] \in Stream
        BY <3>1
      <4> HIDE DEF t
      <4>4. \/ i \in 1..Len(B[to]) /\ u[i] = B[to][i]
            \/ i - Len(B[to]) \in 1..Len(t) /\ i \in Nat /\ u[i] = t[i - Len(B[to])]
        BY <4>1, <4>3, EitherOf, Zenon
      <4>5. C[to] = u
        BY <3>1 DEF t
      <4> HIDE DEF u
      <4> QED
        BY <4>2, <4>4, <4>5 DEF m, t
    <3> QED
      BY <1>3, <2>1, <3>2 DEF m
  <2>2. CASE s # to
    BY <2>2
  <2> QED
    BY <2>1, <2>2
<1>8. Known(C, more)
  <2> SUFFICES ASSUME NEW s \in Spots, NEW i \in 1..Len(C[s])
               PROVE  C[s][i][2] <= more[C[s][i][1]]
    BY DEF Known
  <2>1. CASE i \in 1..Len(B[s]) /\ C[s][i] = B[s][i]
    <3>1. B[s][i] \in Conns \X Nat /\ B[s][i][2] <= last[B[s][i][1]]
      BY <1>2, <2>1 DEF Known
    <3> QED
      BY <1>5, <2>1, <3>1
  <2>2. CASE s = to /\ i - m \in 1..n /\ i \in Nat /\ C[s][i] = <<c, p + (i - m)>>
    <3>1. C[s][i][1] = c /\ C[s][i][2] = p + (i - m)
      BY <2>2
    <3>2. p + (i - m) <= p + n
      BY <1>1, <2>2
    <3> QED
      BY <1>6, <3>1, <3>2
  <2> QED
    BY <1>7, <2>1, <2>2
<1>9. ASSUME NEW s \in Spots, NEW i \in 1..Len(B[s]), NEW j \in Nat, j > 0,
             B[s][i] = <<c, p + j>>
      PROVE  FALSE
  <2>1. B[s][i][2] <= last[B[s][i][1]]
    BY DEF Known
  <2> QED
    BY <1>1, <1>9, <2>1 DEF p
<1>10. ASSUME NEW s \in Spots, NEW t \in Spots, NEW i \in 1..Len(B[s]), NEW j \in 1..Len(B[t]),
              B[s][i] = B[t][j]
       PROVE  s = t /\ i = j
  BY <1>10 DEF Apart
<1>11. Apart(C)
  <2> SUFFICES ASSUME NEW s \in Spots, NEW t \in Spots,
                      NEW i \in 1..Len(C[s]), NEW j \in 1..Len(C[t]), C[s][i] = C[t][j]
               PROVE  s = t /\ i = j
    BY DEF Apart
  <2>0. m \in Nat /\ p \in Nat
    BY <1>1
  <2>1. \/ i \in 1..Len(B[s]) /\ C[s][i] = B[s][i]
        \/ s = to /\ i - m \in 1..n /\ i \in Nat /\ C[s][i] = <<c, p + (i - m)>>
    BY <1>7
  <2>2. \/ j \in 1..Len(B[t]) /\ C[t][j] = B[t][j]
        \/ t = to /\ j - m \in 1..n /\ j \in Nat /\ C[t][j] = <<c, p + (j - m)>>
    BY <1>7
  <2>3. CASE i \in 1..Len(B[s]) /\ j \in 1..Len(B[t]) /\ C[s][i] = B[s][i] /\ C[t][j] = B[t][j]
    <3>1. B[s][i] = B[t][j]
      BY <2>3
    <3> QED
      BY <1>10, <2>3, <3>1
  <2>4. ASSUME NEW g \in 1..n, C[s][i] = <<c, p + g>> PROVE ~(i \in 1..Len(B[s]) /\ C[s][i] = B[s][i])
    <3>1. g \in Nat /\ g > 0
      OBVIOUS
    <3> QED
      BY <1>9, <2>4, <3>1
  <2>5. ASSUME NEW g \in 1..n, C[t][j] = <<c, p + g>> PROVE ~(j \in 1..Len(B[t]) /\ C[t][j] = B[t][j])
    <3>1. g \in Nat /\ g > 0
      OBVIOUS
    <3> QED
      BY <1>9, <2>5, <3>1
  <2>6. CASE s = to /\ t = to /\ i \in Nat /\ j \in Nat /\ i - m \in 1..n /\ j - m \in 1..n
             /\ C[s][i] = <<c, p + (i - m)>> /\ C[t][j] = <<c, p + (j - m)>>
    <3>1. p + (i - m) = p + (j - m)
      BY <2>6
    <3> QED
      BY <2>0, <2>6, <3>1
  <2> QED
    BY <2>1, <2>2, <2>3, <2>4, <2>5, <2>6
<1> QED
  BY <1>8, <1>11 DEF more

Last == [c \in Conns |-> tcp[c].sent]

(* No byte is in two places, and a thread holds some only until it has *)
(* called write().                                                     *)
Once == /\ Apart(Bytes) /\ Known(Bytes, Last)
        /\ \A t \in Threads : thread[t].pc # "write" => thread[t].buf = << >>

(* The spots one by one *)
Found ==
  /\ \A c \in Conns : /\ <<"up", c>> \in Spots /\ Bytes[<<"up", c>>] = tcp[c].up
                      /\ <<"echoed", c>> \in Spots /\ Bytes[<<"echoed", c>>] = tcp[c].echoed
  /\ \A t \in Threads : <<"buf", t>> \in Spots /\ Bytes[<<"buf", t>>] = thread[t].buf
  /\ \A s \in Spots : \/ \E c \in Conns : s = <<"up", c>> \/ s = <<"echoed", c>>
                      \/ \E t \in Threads : s = <<"buf", t>>

(* hold what the variables say. *)
LEMMA BytesAre == Found
<1>1. ASSUME NEW c \in Conns
      PROVE  /\ <<"up", c>> \in Spots /\ Bytes[<<"up", c>>] = tcp[c].up
             /\ <<"echoed", c>> \in Spots /\ Bytes[<<"echoed", c>>] = tcp[c].echoed
  BY DEF Spots, Bytes
<1>2. ASSUME NEW t \in Threads
      PROVE  <<"buf", t>> \in Spots /\ Bytes[<<"buf", t>>] = thread[t].buf
  BY DEF Spots, Bytes
<1>3. ASSUME NEW s \in Spots
      PROVE  \/ \E c \in Conns : s = <<"up", c>> \/ s = <<"echoed", c>>
             \/ \E t \in Threads : s = <<"buf", t>>
  BY DEF Spots
<1> QED
  BY <1>1, <1>2, <1>3 DEF Found

(* The same of the next state *)
LEMMA BytesAfter ==
  /\ \A c \in Conns : /\ Bytes'[<<"up", c>>] = tcp'[c].up
                      /\ Bytes'[<<"echoed", c>>] = tcp'[c].echoed
  /\ \A t \in Threads : Bytes'[<<"buf", t>>] = thread'[t].buf
<1>1. Found'
  BY BytesAre, PTL
<1> QED
  BY <1>1 DEF Found

(* A step that moves no bytes *)
LEMMA Quiet ==
  ASSUME Once,
         \A c \in Conns : /\ tcp'[c].up = tcp[c].up /\ tcp'[c].echoed = tcp[c].echoed
                          /\ tcp'[c].sent = tcp[c].sent,
         \A t \in Threads : /\ thread'[t].buf = thread[t].buf
                            /\ thread'[t].pc # "write" =>
                                 thread[t].pc # "write" \/ thread[t].buf = << >>
  PROVE  Once'
<1>1. ASSUME NEW s \in Spots PROVE Bytes'[s] = Bytes[s]
  <2>1. ASSUME NEW c \in Conns, s = <<"up", c>> PROVE Bytes'[s] = Bytes[s]
    BY <2>1, BytesAre, BytesAfter DEF Found
  <2>2. ASSUME NEW c \in Conns, s = <<"echoed", c>> PROVE Bytes'[s] = Bytes[s]
    BY <2>2, BytesAre, BytesAfter DEF Found
  <2>3. ASSUME NEW t \in Threads, s = <<"buf", t>> PROVE Bytes'[s] = Bytes[s]
    BY <2>3, BytesAre, BytesAfter DEF Found
  <2> QED
    BY <2>1, <2>2, <2>3, BytesAre DEF Found
<1>2. Last' = Last
  BY DEF Last
<1>3. Apart(Bytes)' /\ Known(Bytes, Last)'
  <2> DEFINE B == Bytes
             C == Bytes'
  <2>1. Apart(B) /\ Known(B, Last) /\ \A s \in Spots : C[s] = B[s]
    BY <1>1 DEF Once
  <2> HIDE DEF B, C
  <2>2. Apart(C) /\ Known(C, Last)
    BY <2>1 DEF Apart, Known
  <2> QED
    BY <1>2, <2>2 DEF C, Apart, Known
<1> QED
  BY <1>3 DEF Once

(* A step on connection c in thread t *)
LEMMA OthersStay ==
  ASSUME NEW c, NEW t,
         \A d \in Conns \ {c} : tcp'[d].up = tcp[d].up /\ tcp'[d].echoed = tcp[d].echoed,
         \A u \in Threads \ {t} : thread'[u].buf = thread[u].buf
  PROVE  \A s \in Spots \ {<<"up", c>>, <<"echoed", c>>, <<"buf", t>>} : Bytes'[s] = Bytes[s]
<1> SUFFICES ASSUME NEW s \in Spots, s # <<"up", c>>, s # <<"echoed", c>>, s # <<"buf", t>>
             PROVE Bytes'[s] = Bytes[s]
  OBVIOUS
<1>1. ASSUME NEW d \in Conns, s = <<"up", d>> PROVE Bytes'[s] = Bytes[s]
  <2>1. d \in Conns \ {c}
    BY <1>1
  <2>2. tcp'[d].up = tcp[d].up
    BY <2>1
  <2>3. Bytes[<<"up", d>>] = tcp[d].up /\ Bytes'[<<"up", d>>] = tcp'[d].up
    BY BytesAre, BytesAfter DEF Found
  <2> QED
    BY <1>1, <2>2, <2>3
<1>2. ASSUME NEW d \in Conns, s = <<"echoed", d>> PROVE Bytes'[s] = Bytes[s]
  <2>1. d \in Conns \ {c}
    BY <1>2
  <2>2. tcp'[d].echoed = tcp[d].echoed
    BY <2>1
  <2>3. Bytes[<<"echoed", d>>] = tcp[d].echoed /\ Bytes'[<<"echoed", d>>] = tcp'[d].echoed
    BY BytesAre, BytesAfter DEF Found
  <2> QED
    BY <1>2, <2>2, <2>3
<1>3. ASSUME NEW u \in Threads, s = <<"buf", u>> PROVE Bytes'[s] = Bytes[s]
  <2>1. u # t
    BY <1>3
  <2> QED
    BY <1>3, <2>1, BytesAre, BytesAfter DEF Found
<1> QED
  BY <1>1, <1>2, <1>3, BytesAre DEF Found

(* All that Bytes holds are bytes of connections. *)
LEMMA AllStreams ==
  ASSUME TypeOK
  PROVE  Bytes \in [Spots -> Stream]
<1>1. ASSUME NEW s \in Spots PROVE Bytes[s] \in Stream
  <2>1. ASSUME NEW c \in Conns, s = <<"up", c>> \/ s = <<"echoed", c>> PROVE Bytes[s] \in Stream
    BY <2>1, BytesAre, Types, Fields DEF Found
  <2>2. ASSUME NEW t \in Threads, s = <<"buf", t>> PROVE Bytes[s] \in Stream
    BY <2>2, BytesAre, Types DEF Found
  <2> QED
    BY <2>1, <2>2, BytesAre DEF Found
<1> QED
  BY <1>1 DEF Bytes

(* What the lemmas above say of two functions holds of Bytes. *)
LEMMA OnceAfter ==
  ASSUME NEW C, C = Bytes', NEW last, last = Last', Apart(C) /\ Known(C, last)
  PROVE  Apart(Bytes)' /\ Known(Bytes, Last)'
BY DEF Apart, Known

(* A thread lets go of what it has read. *)
LEMMA OnceDropped ==
  ASSUME TypeOK, Once, NEW t \in Threads, ReadsOn(t),
         \A d \in Conns : /\ tcp'[d].up = tcp[d].up /\ tcp'[d].echoed = tcp[d].echoed
                          /\ tcp'[d].sent = tcp[d].sent
  PROVE  Once'
<1>1. /\ thread'[t].buf = << >> /\ thread'[t].pc = "read"
      /\ \A u \in Threads \ {t} : thread'[u] = thread[u]
  BY Types DEF ReadsOn
<1>2. PICK from \in Spots : from = <<"buf", t>>
  BY BytesAre DEF Found
<1>3. Bytes'[from] = << >>
  BY <1>1, <1>2, BytesAfter
<1>4. ASSUME NEW s \in Spots \ {from} PROVE Bytes'[s] = Bytes[s]
  <2>1. ASSUME NEW d \in Conns, s = <<"up", d>> PROVE Bytes'[s] = Bytes[s]
    BY <2>1, BytesAre, BytesAfter DEF Found
  <2>2. ASSUME NEW d \in Conns, s = <<"echoed", d>> PROVE Bytes'[s] = Bytes[s]
    BY <2>2, BytesAre, BytesAfter DEF Found
  <2>3. ASSUME NEW u \in Threads, s = <<"buf", u>> PROVE Bytes'[s] = Bytes[s]
    <3>1. u # t
      BY <1>2, <2>3
    <3> QED
      BY <1>1, <2>3, <3>1, BytesAre, BytesAfter DEF Found
  <2> QED
    BY <2>1, <2>2, <2>3, BytesAre DEF Found
<1>5. Last' = Last
  BY DEF Last
<1>6. Apart(Bytes') /\ Known(Bytes', Last)
  BY <1>3, <1>4, Dropped DEF Once
<1>7. Apart(Bytes)' /\ Known(Bytes, Last)'
  BY <1>5, <1>6, OnceAfter
<1> QED
  BY <1>1, <1>7 DEF Once

(* write() puts it behind what was written before. *)
LEMMA OnceWritten ==
  ASSUME TypeOK, Once, NEW t \in Threads, ReadsOn(t),
         NEW c \in Conns, WriteAll(c, thread[t].buf)
  PROVE  Once'
<1>0. /\ tcp \in [Conns -> Connection]
      /\ thread[t].buf \in Stream /\ tcp[c].echoed \in Stream
  BY Types, Fields
<1>1. /\ thread'[t].buf = << >> /\ thread'[t].pc = "read"
      /\ \A u \in Threads \ {t} : thread'[u] = thread[u]
  BY Types DEF ReadsOn
<1>2. /\ tcp'[c].echoed = tcp[c].echoed \o thread[t].buf
      /\ \A d \in Conns : tcp'[d].up = tcp[d].up /\ tcp'[d].sent = tcp[d].sent
      /\ \A d \in Conns \ {c} : tcp'[d].up = tcp[d].up /\ tcp'[d].echoed = tcp[d].echoed
  <2>1. SubSeq(thread[t].buf, 1, Len(thread[t].buf)) = thread[t].buf
    BY <1>0 DEF Stream
  <2>2. tcp'[c].echoed = tcp[c].echoed \o SubSeq(thread[t].buf, 1, Len(thread[t].buf))
    BY <1>0 DEF WriteAll, WriteTakes, Connection
  <2>3. /\ tcp'[c].up = tcp[c].up /\ tcp'[c].sent = tcp[c].sent
        /\ \A d \in Conns \ {c} : tcp'[d] = tcp[d]
    BY <1>0 DEF WriteAll, WriteTakes, Connection
  <2> QED
    BY <2>1, <2>2, <2>3
<1>3. PICK from \in Spots : from = <<"buf", t>>
  BY BytesAre DEF Found
<1>4. PICK to \in Spots : to = <<"echoed", c>>
  BY BytesAre DEF Found
<1>5. /\ to # from /\ Bytes[to] = tcp[c].echoed /\ Bytes[from] = thread[t].buf
      /\ Bytes'[to] = Bytes[to] \o Bytes[from] /\ Bytes'[from] = << >>
  <2>1. Bytes[to] = tcp[c].echoed /\ Bytes'[to] = tcp'[c].echoed
    BY <1>4, BytesAre, BytesAfter DEF Found
  <2>2. Bytes[from] = thread[t].buf /\ Bytes'[from] = thread'[t].buf
    BY <1>3, BytesAre, BytesAfter DEF Found
  <2>3. to # from
    BY <1>3, <1>4
  <2> QED
    BY <1>1, <1>2, <2>1, <2>2, <2>3
<1>6. ASSUME NEW s \in Spots \ {from, to} PROVE Bytes'[s] = Bytes[s]
  <2>1. CASE s = <<"up", c>>
    BY <1>2, <2>1, BytesAre, BytesAfter DEF Found
  <2>2. CASE s # <<"up", c>>
    <3>1. \A u \in Threads \ {t} : thread'[u].buf = thread[u].buf
      BY <1>1
    <3>2. \A r \in Spots \ {<<"up", c>>, <<"echoed", c>>, <<"buf", t>>} : Bytes'[r] = Bytes[r]
      BY <1>2, <3>1, OthersStay
    <3> QED
      BY <1>3, <1>4, <2>2, <3>2
  <2> QED
    BY <2>1, <2>2
<1>7. Last' = Last
  BY <1>2 DEF Last
<1>8. Apart(Bytes') /\ Known(Bytes', Last)
  <2>1. /\ Apart(Bytes) /\ Known(Bytes, Last) /\ to \in Spots \ {from}
        /\ Bytes[from] \in Stream /\ Bytes[to] \in Stream
        /\ Bytes'[to] = Bytes[to] \o Bytes[from] /\ Bytes'[from] = << >>
        /\ \A s \in Spots \ {from, to} : Bytes'[s] = Bytes[s]
    BY <1>0, <1>5, <1>6 DEF Once
  <2> QED
    BY <2>1, PutBehind
<1>9. Apart(Bytes)' /\ Known(Bytes, Last)'
  BY <1>7, <1>8, OnceAfter
<1> QED
  BY <1>1, <1>9 DEF Once

(* So write() copies nothing, whatever its outcome, *)
LEMMA OnceWrites ==
  ASSUME Inv, Once, NEW t \in Threads, Writes(t)
  PROVE  Once'
<1>0. /\ TypeOK /\ tcp \in [Conns -> Connection]
  BY Types DEF Inv
<1>1. PICK c : c = conn[thread[t].sock] /\ (c = NONE \/ c \in Conns)
  <2>1. thread[t].sock \in Fds
    BY DEF Inv, Named, Writes, At
  <2> QED
    BY <1>0, <2>1, Types
<1>2. CASE c = NONE /\ ReadsOn(t) /\ UNCHANGED tcp
  BY <1>0, <1>2, OnceDropped
<1>3. CASE c \in Conns /\ WriteAll(c, thread[t].buf) /\ ReadsOn(t)
  BY <1>0, <1>3, OnceWritten
<1>4. CASE c \in Conns /\ WriteFails(c) /\ ReadsOn(t)
  <2>1. \A d \in Conns : /\ tcp'[d].up = tcp[d].up /\ tcp'[d].echoed = tcp[d].echoed
                         /\ tcp'[d].sent = tcp[d].sent
    BY <1>0, <1>4 DEF WriteFails, Connection
  <2> QED
    BY <1>0, <1>4, <2>1, OnceDropped
<1>5. CASE WriteKills(c) /\ UNCHANGED thread
  BY <1>5, Quiet DEF WriteKills, Once
<1> QED
  BY <1>1, <1>2, <1>3, <1>4, <1>5 DEF Writes

(* read(): the empty buf of a thread takes bytes off a queue. *)
LEMMA OnceRead ==
  ASSUME TypeOK, Once, NEW t \in Threads, thread[t].pc = "read",
         NEW c \in Conns, ReadData(c), thread' = Filled(t, Data(c))
  PROVE  Once'
<1>0. /\ tcp \in [Conns -> Connection] /\ thread[t].buf = << >> /\ tcp[c].up \in Stream
      /\ Got(c) \in 0..Len(tcp[c].up)
  BY Types, Fields, GotBounds, Lengths DEF Once
<1>1. /\ thread'[t].buf = Data(c) /\ thread'[t].pc = "write"
      /\ \A u \in Threads \ {t} : thread'[u] = thread[u]
  BY Types DEF Filled
<1>2. /\ tcp'[c].up = SubSeq(tcp[c].up, Got(c) + 1, Len(tcp[c].up))
      /\ \A d \in Conns : tcp'[d].echoed = tcp[d].echoed /\ tcp'[d].sent = tcp[d].sent
      /\ \A d \in Conns \ {c} : tcp'[d].up = tcp[d].up /\ tcp'[d].echoed = tcp[d].echoed
  BY <1>0 DEF ReadData, Connection
<1>3. PICK from \in Spots : from = <<"up", c>>
  BY BytesAre DEF Found
<1>4. PICK to \in Spots : to = <<"buf", t>>
  BY BytesAre DEF Found
<1>5. /\ to # from /\ Bytes[from] = tcp[c].up /\ Bytes[to] = << >>
      /\ Bytes'[from] = tcp'[c].up /\ Bytes'[to] = Data(c)
  <2>1. Bytes[from] = tcp[c].up /\ Bytes'[from] = tcp'[c].up
    BY <1>3, BytesAre, BytesAfter DEF Found
  <2>2. Bytes[to] = thread[t].buf /\ Bytes'[to] = thread'[t].buf
    BY <1>4, BytesAre, BytesAfter DEF Found
  <2>3. to # from
    BY <1>3, <1>4
  <2> QED
    BY <1>0, <1>1, <2>1, <2>2, <2>3
<1>6. ASSUME NEW s \in Spots \ {from, to} PROVE Bytes'[s] = Bytes[s]
  <2>1. CASE s = <<"echoed", c>>
    BY <1>2, <2>1, BytesAre, BytesAfter DEF Found
  <2>2. CASE s # <<"echoed", c>>
    <3>1. \A u \in Threads \ {t} : thread'[u].buf = thread[u].buf
      BY <1>1
    <3>2. \A r \in Spots \ {<<"up", c>>, <<"echoed", c>>, <<"buf", t>>} : Bytes'[r] = Bytes[r]
      BY <1>2, <3>1, OthersStay
    <3> QED
      BY <1>3, <1>4, <2>2, <3>2
  <2> QED
    BY <2>1, <2>2
<1>7. Last' = Last
  BY <1>2 DEF Last
<1>8. Apart(Bytes') /\ Known(Bytes', Last)
  <2>1. PICK k \in Nat : k = Got(c)
    BY <1>0
  <2>2. /\ Apart(Bytes) /\ Known(Bytes, Last) /\ to \in Spots \ {from}
        /\ Bytes[from] \in Stream /\ Bytes[to] = << >> /\ k \in 0..Len(Bytes[from])
        /\ Bytes'[to] = SubSeq(Bytes[from], 1, k)
        /\ Bytes'[from] = SubSeq(Bytes[from], k + 1, Len(Bytes[from]))
        /\ \A s \in Spots \ {from, to} : Bytes'[s] = Bytes[s]
    BY <1>0, <1>2, <1>5, <1>6, <2>1 DEF Once, Data
  <2> QED
    BY <2>2, TakenOff
<1>9. Apart(Bytes)' /\ Known(Bytes, Last)'
  BY <1>7, <1>8, OnceAfter
<1> QED
  BY <1>1, <1>9 DEF Once

(* nor does read(), *)
LEMMA OnceReads ==
  ASSUME Inv, Once, NEW t \in Threads, Reads(t)
  PROVE  Once'
<1>0. TypeOK /\ tcp \in [Conns -> Connection] /\ thread[t].pc = "read" /\ thread[t].buf = << >>
  BY Types DEF Inv, Reads, At, Once
<1>1. PICK c \in Conns : c = conn[thread[t].sock]
  BY <1>0, Types DEF Reads
<1>2. CASE ReadData(c) /\ thread' = Filled(t, Data(c))
  BY <1>0, <1>2, OnceRead
<1>3. CASE ReadFails(c) /\ UNCHANGED thread
  <2>1. \A d \in Conns : /\ tcp'[d].up = tcp[d].up /\ tcp'[d].echoed = tcp[d].echoed
                         /\ tcp'[d].sent = tcp[d].sent
    BY <1>0, <1>3 DEF ReadFails, Connection
  <2> QED
    BY <1>3, <2>1, Quiet
<1>4. CASE ReadEof(c) /\ thread' = [thread EXCEPT ![t].pc = "close"]
  <2>1. \A d \in Conns : /\ tcp'[d].up = tcp[d].up /\ tcp'[d].echoed = tcp[d].echoed
                         /\ tcp'[d].sent = tcp[d].sent
    BY <1>4 DEF ReadEof
  <2>2. ASSUME NEW u \in Threads
        PROVE  /\ thread'[u].buf = thread[u].buf
               /\ thread'[u].pc # "write" => thread[u].pc # "write" \/ thread[u].buf = << >>
    BY <1>0, <1>4, Types
  <2> QED
    BY <2>1, <2>2, Quiet
<1> QED
  BY <1>1, <1>2, <1>3, <1>4 DEF Reads

(* The bytes of a send() are new. *)
LEMMA OnceSent ==
  ASSUME TypeOK, Once, NEW c \in Conns, Send(c), UNCHANGED thread
  PROVE  Once'
<1>0. /\ tcp \in [Conns -> Connection] /\ tcp[c].up \in Stream
      /\ tcp[c].sent \in Nat /\ \A d \in Conns : tcp[d].sent \in Nat
  BY Types, Fields, Lengths
<1>1. PICK n \in Nat :
          tcp' = [tcp EXCEPT
                  ![c].sent = @ + n,
                  ![c].up = @ \o [i \in 1..n |-> <<c, tcp[c].sent + i>>]]
  <2>1. PICK n \in 1..MaxBytes - tcp[c].sent :
          tcp' = [tcp EXCEPT
                  ![c].sent = @ + n,
                  ![c].up = @ \o [i \in 1..n |-> <<c, tcp[c].sent + i>>]]
    BY DEF Send
  <2>2. n \in Nat
    BY <1>0, TcpAssumption
  <2> QED
    BY <2>1, <2>2
<1>2. Run(c, tcp[c].sent, tcp[c].sent + n) = [i \in 1..n |-> <<c, tcp[c].sent + i>>]
  <2>1. (tcp[c].sent + n) - tcp[c].sent = n
    BY <1>0
  <2> QED
    BY <2>1 DEF Run
<1>3. /\ tcp'[c].sent = tcp[c].sent + n
      /\ tcp'[c].up = tcp[c].up \o Run(c, tcp[c].sent, tcp[c].sent + n)
      /\ tcp'[c].echoed = tcp[c].echoed
      /\ \A d \in Conns \ {c} : tcp'[d] = tcp[d]
  BY <1>0, <1>1, <1>2 DEF Connection
<1>4. PICK to \in Spots : to = <<"up", c>>
  BY BytesAre DEF Found
<1>5. Bytes[to] = tcp[c].up /\ Bytes'[to] = tcp'[c].up
  BY <1>4, BytesAre, BytesAfter DEF Found
<1>6. ASSUME NEW s \in Spots \ {to} PROVE Bytes'[s] = Bytes[s]
  <2>1. ASSUME NEW d \in Conns, s = <<"up", d>> PROVE Bytes'[s] = Bytes[s]
    <3>1. tcp'[d].up = tcp[d].up
      BY <1>3, <1>4, <2>1
    <3> QED
      BY <2>1, <3>1, BytesAre, BytesAfter DEF Found
  <2>2. ASSUME NEW d \in Conns, s = <<"echoed", d>> PROVE Bytes'[s] = Bytes[s]
    <3>1. tcp'[d].echoed = tcp[d].echoed
      BY <1>3
    <3> QED
      BY <2>2, <3>1, BytesAre, BytesAfter DEF Found
  <2>3. ASSUME NEW u \in Threads, s = <<"buf", u>> PROVE Bytes'[s] = Bytes[s]
    BY <2>3, BytesAre, BytesAfter DEF Found
  <2> QED
    BY <2>1, <2>2, <2>3, BytesAre DEF Found
<1>7. PICK last \in [Conns -> Nat] : last = Last
  BY <1>0 DEF Last
<1>8. last[c] = tcp[c].sent /\ Last' = [last EXCEPT ![c] = @ + n]
  BY <1>0, <1>3, <1>7 DEF Last
<1>9. Apart(Bytes') /\ Known(Bytes', [last EXCEPT ![c] = @ + n])
  <2>1. /\ Apart(Bytes) /\ Known(Bytes, last) /\ Bytes \in [Spots -> Stream]
        /\ Bytes'[to] = Bytes[to] \o Run(c, last[c], last[c] + n)
        /\ \A s \in Spots \ {to} : Bytes'[s] = Bytes[s]
    BY <1>3, <1>5, <1>6, <1>7, <1>8, AllStreams DEF Once
  <2> QED
    BY <2>1, SentMore
<1>10. Apart(Bytes)' /\ Known(Bytes, Last)'
  BY <1>8, <1>9, OnceAfter
<1> QED
  BY <1>10 DEF Once

(* and the clients and the network make only new bytes. *)
LEMMA OnceOutside ==
  ASSUME Inv, Once, NEW c \in Conns, Outside(c), UNCHANGED thread
  PROVE  Once'
<1>0. TypeOK /\ tcp \in [Conns -> Connection]
  BY Types DEF Inv
<1>1. CASE Send(c)
  BY <1>0, <1>1, OnceSent
<1>2. CASE Connect(c) \/ Receive(c) \/ Close(c) \/ ResetArrives(c)
  <2>1. \A d \in Conns : /\ tcp'[d].up = tcp[d].up /\ tcp'[d].echoed = tcp[d].echoed
                         /\ tcp'[d].sent = tcp[d].sent
    BY <1>0, <1>2 DEF Connect, Receive, Close, ResetArrives, Connection
  <2> QED
    BY <2>1, Quiet
<1> QED
  BY <1>1, <1>2 DEF Outside

(* Nothing has been sent at first. *)
LEMMA OnceInit == Init => Once
<1> SUFFICES ASSUME Init PROVE Once
  OBVIOUS
<1>0. \A c \in Conns : tcp[c].up = << >> /\ tcp[c].echoed = << >>
  <2>1. \A c \in Conns : tcp[c] = Fresh
    BY Zenon DEF Init, TcpInit
  <2>2. Fresh.up = << >> /\ Fresh.echoed = << >>
    BY DEF Fresh
  <2> QED
    BY <2>1, <2>2
<1>1. ASSUME NEW s \in Spots PROVE Bytes[s] = << >>
  <2>1. \A t \in Threads : thread[t].buf = << >>
    BY DEF Init
  <2> QED
    BY <1>0, <2>1, BytesAre DEF Found
<1>2. \A s \in Spots : Len(Bytes[s]) = 0
  BY <1>1
<1>3. Apart(Bytes) /\ Known(Bytes, Last)
  BY <1>2 DEF Apart, Known
<1> QED
  BY <1>3 DEF Once, Init

(* The loop of accept4() touches none, *)
LEMMA OnceMain ==
  ASSUME Inv, Once, MainStep
  PROVE  Once'
<1>0. /\ tcp \in [Conns -> Connection]
      /\ thread \in [Threads -> [pc : Stages, sock : Fds \cup {0, -1}, buf : Buffer]]
  BY Types DEF Inv
<1>1. ASSUME NEW c \in Conns, AcceptClient(c) PROVE Once'
  <2>1. \A d \in Conns : /\ tcp'[d].up = tcp[d].up /\ tcp'[d].echoed = tcp[d].echoed
                         /\ tcp'[d].sent = tcp[d].sent
    BY <1>0, <1>1 DEF AcceptClient, AcceptAs, Accept, Connection
  <2>2. UNCHANGED thread
    BY <1>1 DEF AcceptClient
  <2> QED
    BY <2>1, <2>2, Quiet
<1>2. CASE AcceptFails
  BY <1>2, Quiet DEF AcceptFails
<1>3. CASE CreateThread
  <2>1. UNCHANGED tcp
    BY <1>3 DEF CreateThread
  <2>2. ASSUME NEW t \in Threads, thread[t].pc = "none", NewThread(t) PROVE Once'
    <3>1. ASSUME NEW u \in Threads
          PROVE  /\ thread'[u].buf = thread[u].buf
                 /\ thread'[u].pc # "write" =>
                      thread[u].pc # "write" \/ thread[u].buf = << >>
      BY <1>0, <2>2 DEF NewThread
    <3> QED
      BY <2>1, <3>1, Quiet
  <2> QED
    BY <1>3, <2>1, <2>2, Quiet, CreatesOne
<1> QED
  BY <1>1, <1>2, <1>3 DEF MainStep

(* and so every step keeps them apart. *)
LEMMA OnceStep == Inv /\ Once /\ [Next]_vars => Once'
<1> SUFFICES ASSUME Inv, Once, [Next]_vars PROVE Once'
  OBVIOUS
<1>1. CASE MainStep
  BY <1>1, OnceMain
<1>2. ASSUME NEW t \in Threads, ThreadStep(t) PROVE Once'
  <2>0. /\ TypeOK
        /\ thread \in [Threads -> [pc : Stages, sock : Fds \cup {0, -1}, buf : Buffer]]
    BY Types DEF Inv
  <2>1. CASE ReadsArg(t)
    <3>1. UNCHANGED tcp /\ thread[t].pc = "start"
      BY <2>1 DEF ReadsArg, At
    <3>2. ASSUME NEW u \in Threads
          PROVE  /\ thread'[u].buf = thread[u].buf
                 /\ thread'[u].pc # "write" =>
                      thread[u].pc # "write" \/ thread[u].buf = << >>
      BY <2>0, <2>1, <3>1 DEF ReadsArg
    <3> QED
      BY <3>1, <3>2, Quiet
  <2>2. CASE Closes(t)
    BY <2>0, <2>2, OnceDropped DEF Closes
  <2> QED
    BY <1>2, <2>1, <2>2, OnceReads, OnceWrites DEF ThreadStep
<1>3. ASSUME NEW c \in Conns, Outside(c), UNCHANGED thread PROVE Once'
  BY <1>3, OnceOutside
<1>4. CASE UNCHANGED vars
  BY <1>4, Quiet DEF vars
<1> QED
  BY <1>1, <1>2, <1>3, <1>4 DEF Next

(* Whatever threads share a number, and however often it changes hands: no *)
(* byte a client sent is in two places, and so none is returned twice.     *)
THEOREM NeverTwice == Spec => []NoByteTwice
<1>1. Init => Inv /\ Once
  BY InitInv, OnceInit
<1>2. Inv /\ Once /\ [Next]_vars => (Inv /\ Once)'
  BY StepInv, OnceStep
<1>3. Inv /\ Once => NoByteTwice
  BY DEF Inv, Once, Apart, NoByteTwice
<1> QED
  BY <1>1, <1>2, <1>3, PTL DEF Spec
=============================================================================
