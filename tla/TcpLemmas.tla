----------------------------- MODULE TcpLemmas -----------------------------
(***************************************************************************)
(* Every step of a client, of the network and of a system call leaves each *)
(* connection well-formed.                                                 *)
(***************************************************************************)
EXTENDS Tcp, SequenceTheorems, TLAPS

Sockets == tcp \in [Conns -> Connection]

(* No connection is made at first. *)
LEMMA SocketsInit == TcpInit => Sockets
<1>1. << >> \in Stream /\ {} \in Marks /\ "none" \in Places
  BY DEF Stream, Marks, Places
<1>2. 0 \in 0..MaxBytes /\ 0 \in 0..SendRoom
  BY TcpAssumption
<1> QED
  BY <1>1, <1>2 DEF TcpInit, Sockets, Fresh, Connection

(* The fields of a connection; below, each replaced by a value of its type: *)
LEMMA Fields ==
  ASSUME Sockets, NEW c \in Conns
  PROVE  /\ tcp[c].client \in Places /\ tcp[c].sent \in 0..MaxBytes
         /\ tcp[c].up \in Stream /\ tcp[c].echoed \in Stream
         /\ tcp[c].unread \in 0..SendRoom /\ tcp[c].marks \in Marks
BY DEF Sockets, Connection

(* the client's place, *)
LEMMA NewClient ==
  ASSUME Sockets, NEW c \in Conns, NEW place \in Places
  PROVE  [tcp EXCEPT ![c].client = place] \in [Conns -> Connection]
BY DEF Sockets, Connection

(* what it has sent, *)
LEMMA NewSent ==
  ASSUME Sockets, NEW c \in Conns, NEW n \in 0..MaxBytes, NEW in \in Stream
  PROVE  [tcp EXCEPT ![c].sent = n, ![c].up = in] \in [Conns -> Connection]
BY DEF Sockets, Connection

(* what the server has not read, *)
LEMMA NewUp ==
  ASSUME Sockets, NEW c \in Conns, NEW in \in Stream
  PROVE  [tcp EXCEPT ![c].up = in] \in [Conns -> Connection]
BY DEF Sockets, Connection

(* how much the client has not read, *)
LEMMA NewUnread ==
  ASSUME Sockets, NEW c \in Conns, NEW held \in 0..SendRoom
  PROVE  [tcp EXCEPT ![c].unread = held] \in [Conns -> Connection]
BY DEF Sockets, Connection

(* the marks of the connection's end, *)
LEMMA NewMarks ==
  ASSUME Sockets, NEW c \in Conns, NEW m \in Marks
  PROVE  [tcp EXCEPT ![c].marks = m] \in [Conns -> Connection]
BY DEF Sockets, Connection

(* the marks and what is unread, when the client closes, *)
LEMMA NewClosed ==
  ASSUME Sockets, NEW c \in Conns, NEW m \in Marks, NEW held \in 0..SendRoom
  PROVE  [tcp EXCEPT ![c].marks = m, ![c].unread = held] \in [Conns -> Connection]
BY DEF Sockets, Connection

(* and what the server has written. *)
LEMMA NewEchoed ==
  ASSUME Sockets, NEW c \in Conns,
         NEW out \in Stream, NEW held \in 0..SendRoom, NEW m \in Marks
  PROVE  [tcp EXCEPT ![c].echoed = out, ![c].unread = held, ![c].marks = m]
           \in [Conns -> Connection]
BY DEF Sockets, Connection

(* What a client, the network or a system call does to connection c keeps  *)
(* the sockets well-formed, and nothing but accept4() accepts.             *)
Kept == /\ Sockets'
           /\ \A d \in Conns : tcp'[d].client = "accepted" <=> tcp[d].client = "accepted"

(* Streams joined are a stream, *)
LEMMA Joined ==
  ASSUME NEW s \in Stream, NEW t \in Stream
  PROVE  s \o t \in Stream
BY DEF Stream

(* and so are the parts of one. *)
LEMMA Parts ==
  ASSUME NEW s \in Stream, NEW i \in Nat, i <= Len(s)
  PROVE  SubSeq(s, 1, i) \in Stream /\ SubSeq(s, i + 1, Len(s)) \in Stream
BY DEF Stream

(* The clients' and the network's steps keep connections well-formed, *)
LEMMA OutsideSockets ==
  ASSUME Sockets, NEW c \in Conns, Outside(c)
  PROVE  Kept
<1> USE Fields
<1>1. CASE Connect(c)
  <2>1. "queued" \in Places
    BY DEF Places
  <2>2. Sockets'
    BY <1>1, <2>1, NewClient DEF Connect, Sockets
  <2> QED
    BY <1>1, <2>2 DEF Connect, Sockets, Connection, Kept
<1>2. CASE Send(c)
  <2>1. PICK n \in 1..MaxBytes - tcp[c].sent :
          tcp' = [tcp EXCEPT
                  ![c].sent = @ + n,
                  ![c].up = @ \o [i \in 1..n |-> <<c, tcp[c].sent + i>>]]
    BY <1>2 DEF Send
  <2>2. tcp[c].sent + n \in 0..MaxBytes
    BY TcpAssumption
  <2>3. [i \in 1..n |-> <<c, tcp[c].sent + i>>] \in Stream
    <3>1. \A i \in 1..n : <<c, tcp[c].sent + i>> \in Conns \X Nat
      BY TcpAssumption
    <3>2. n \in Nat
      BY TcpAssumption
    <3> QED
      BY <3>1, <3>2, IsASeq DEF Stream
  <2>4. tcp[c].up \o [i \in 1..n |-> <<c, tcp[c].sent + i>>] \in Stream
    BY <2>3, Joined
  <2>5. Sockets'
    BY <2>1, <2>2, <2>4, NewSent DEF Sockets
  <2> QED
    BY <2>1, <2>5 DEF Sockets, Connection, Kept
<1>3. CASE Receive(c)
  <2>1. PICK n \in 1..tcp[c].unread : tcp' = [tcp EXCEPT ![c].unread = @ - n]
    BY <1>3 DEF Receive
  <2>2. tcp[c].unread - n \in 0..SendRoom
    BY TcpAssumption
  <2>3. Sockets'
    BY <2>1, <2>2, NewUnread DEF Sockets
  <2> QED
    BY <2>1, <2>3 DEF Sockets, Connection, Kept
<1>4. CASE Close(c)
  <2>1. tcp[c].marks \cup {"closed", IF tcp[c].unread = 0 THEN "fin" ELSE "rst"} \in Marks
    BY DEF Marks
  <2>2. 0 \in 0..SendRoom
    BY TcpAssumption
  <2>3. Sockets'
    BY <1>4, <2>1, <2>2, NewClosed DEF Close, Sockets
  <2> QED
    BY <1>4, <2>3 DEF Close, Sockets, Connection, Kept
<1>5. CASE ResetArrives(c)
  <2>1. (tcp[c].marks \ {"rst"}) \cup (IF Is(c, "fin") THEN {"dead"} ELSE {"dead", "err"})
          \in Marks
    BY DEF Marks
  <2>2. Sockets'
    BY <1>5, <2>1, NewMarks DEF ResetArrives, Sockets
  <2> QED
    BY <1>5, <2>2 DEF ResetArrives, Sockets, Connection, Kept
<1> QED
  BY <1>1, <1>2, <1>3, <1>4, <1>5 DEF Outside

(* and so does accept4(), *)
LEMMA AcceptSockets ==
  ASSUME Sockets, NEW c \in Conns, Accept(c)
  PROVE  /\ Sockets'
         /\ tcp[c].client = "queued" /\ tcp'[c].client = "accepted"
         /\ \A d \in Conns \ {c} : tcp'[d].client = tcp[d].client
<1>1. "accepted" \in Places
  BY DEF Places
<1>2. Sockets'
  BY <1>1, NewClient DEF Accept, Sockets
<1> QED
  BY <1>2 DEF Accept, Sockets, Connection

(* read() takes no more than there is, nor than fits the buffer. *)
LEMMA GotBounds ==
  ASSUME Sockets, NEW c \in Conns
  PROVE  /\ Got(c) \in Nat /\ Got(c) <= Len(tcp[c].up)
         /\ Data(c) \in Buffer
<1>1. tcp[c].up \in Stream /\ Len(tcp[c].up) \in Nat
  BY Fields DEF Stream
<1>2. Got(c) \in Nat /\ Got(c) <= Len(tcp[c].up)
  BY <1>1, TcpAssumption DEF Got, Smaller
<1>3. Data(c) \in Stream
  BY <1>1, <1>2, Parts DEF Data
<1>4. Len(Data(c)) = Got(c)
  BY <1>1, <1>2 DEF Data, Stream
<1>5. Got(c) <= BUFFSIZE
  BY <1>1, TcpAssumption DEF Got, Smaller
<1> QED
  BY <1>2, <1>3, <1>4, <1>5 DEF Buffer

(* read() keeps connections well-formed, *)
LEMMA ReadSockets ==
  ASSUME Sockets, NEW c \in Conns, ReadData(c) \/ ReadFails(c) \/ ReadEof(c)
  PROVE  Kept
<1>1. CASE ReadData(c)
  <2>1. SubSeq(tcp[c].up, Got(c) + 1, Len(tcp[c].up)) \in Stream
    <3>1. tcp[c].up \in Stream /\ Len(tcp[c].up) \in Nat
      BY Fields DEF Stream
    <3> QED
      BY <3>1, GotBounds, Parts
  <2>2. Sockets'
    BY <1>1, <2>1, NewUp DEF ReadData, Sockets
  <2> QED
    BY <1>1, <2>2 DEF ReadData, Sockets, Connection, Kept
<1>2. CASE ReadFails(c)
  <2>1. tcp[c].marks \ {"err"} \in Marks
    BY Fields DEF Marks
  <2>2. Sockets'
    BY <1>2, <2>1, NewMarks DEF ReadFails, Sockets
  <2> QED
    BY <1>2, <2>2 DEF ReadFails, Sockets, Connection, Kept
<1>3. CASE ReadEof(c)
  BY <1>3 DEF ReadEof, Sockets, Kept
<1> QED
  BY <1>1, <1>2, <1>3

(* write() that takes n bytes, no more than there is room for. *)
LEMMA TakesSockets ==
  ASSUME Sockets, NEW c \in Conns, NEW data \in Stream, NEW n \in 0..Len(data),
         n <= Room(c), WriteTakes(c, data, n)
  PROVE  Kept
<1> DEFINE out == tcp[c].echoed \o SubSeq(data, 1, n)
           held == IF Closed(c) THEN 0 ELSE tcp[c].unread + n
           m == IF Closed(c) THEN tcp[c].marks \cup {"rst"} ELSE tcp[c].marks
<1>1. n \in Nat /\ n <= Len(data)
  BY DEF Stream
<1>2. out \in Stream
  <2>1. SubSeq(data, 1, n) \in Stream
    BY <1>1, Parts
  <2> QED
    BY <2>1, Fields, Joined
<1>3. held \in 0..SendRoom
  BY <1>1, Fields, TcpAssumption DEF Room
<1>4. m \in Marks
  BY Fields DEF Marks
<1>5. tcp' = [tcp EXCEPT ![c].echoed = out, ![c].unread = held, ![c].marks = m]
  BY DEF WriteTakes
<1> HIDE DEF out, held, m
<1>6. Sockets'
  BY <1>2, <1>3, <1>4, <1>5, NewEchoed DEF Sockets
<1> QED
  BY <1>5, <1>6 DEF Sockets, Connection, Kept

(* and so does write(). *)
LEMMA WriteSockets ==
  ASSUME Sockets, NEW c \in Conns, NEW data \in Stream,
         WriteAll(c, data) \/ WriteFails(c) \/ WriteKills(c)
  PROVE  Kept
<1>1. CASE WriteAll(c, data)
  <2>1. Len(data) \in Nat
    BY DEF Stream
  <2> QED
    BY <1>1, <2>1, TakesSockets DEF WriteAll
<1>2. CASE WriteFails(c)
  <2>1. tcp[c].marks \ {"err"} \in Marks
    BY Fields DEF Marks
  <2>2. Sockets'
    BY <1>2, <2>1, NewMarks DEF WriteFails, Sockets
  <2> QED
    BY <1>2, <2>2 DEF WriteFails, Sockets, Connection, Kept
<1>3. CASE WriteKills(c)
  BY <1>3 DEF WriteKills, Sockets, Kept
<1> QED
  BY <1>1, <1>2, <1>3
-----------------------------------------------------------------------------
(* Conservation: the bytes of a client are those echoed, those the server  *)
(* holds and those still unread, in the order they were sent.              *)

(* The bytes of connection c behind the m-th, up to the n-th. *)
Run(c, m, n) == [i \in 1..n - m |-> <<c, m + i>>]

(* A run of n - m bytes *)
LEMMA RunType ==
  ASSUME NEW c \in Conns, NEW m \in Nat, NEW n \in Nat, m <= n
  PROVE  Run(c, m, n) \in Seq(Conns \X Nat) /\ Len(Run(c, m, n)) = n - m
<1>1. \A i \in 1..n - m : <<c, m + i>> \in Conns \X Nat
  OBVIOUS
<1>2. n - m \in Nat
  OBVIOUS
<1> QED
  BY <1>1, <1>2, IsASeq DEF Run

(* Two runs that meet are one run. *)
LEMMA RunsJoin ==
  ASSUME NEW c \in Conns, NEW m \in Nat, NEW n \in Nat, NEW p \in Nat, m <= n, n <= p
  PROVE  Run(c, m, n) \o Run(c, n, p) = Run(c, m, p)
<1> DEFINE s == Run(c, m, n)
           t == Run(c, n, p)
           u == Run(c, m, p)
<1>1. /\ s \in Seq(Conns \X Nat) /\ Len(s) = n - m
      /\ t \in Seq(Conns \X Nat) /\ Len(t) = p - n
      /\ u \in Seq(Conns \X Nat) /\ Len(u) = p - m
  <2>1. m <= p
    OBVIOUS
  <2> QED
    BY <2>1, RunType
<1>2. /\ s \o t \in Seq(Conns \X Nat) /\ Len(s \o t) = p - m
      /\ \A i \in 1..p - m : (s \o t)[i] = IF i <= n - m THEN s[i] ELSE t[i - (n - m)]
  <2> HIDE DEF s, t
  <2>1. /\ s \o t \in Seq(Conns \X Nat) /\ Len(s \o t) = Len(s) + Len(t)
        /\ \A i \in 1..Len(s) + Len(t) :
             (s \o t)[i] = IF i <= Len(s) THEN s[i] ELSE t[i - Len(s)]
    BY <1>1, ConcatProperties
  <2>2. Len(s) + Len(t) = p - m
    BY <1>1
  <2> QED
    BY <1>1, <2>1, <2>2
<1>3. \A i \in 1..p - m : (s \o t)[i] = u[i]
  <2> SUFFICES ASSUME NEW i \in 1..p - m PROVE (s \o t)[i] = u[i]
    OBVIOUS
  <2>1. u[i] = <<c, m + i>>
    BY DEF Run
  <2>2. CASE i <= n - m
    <3>1. s[i] = <<c, m + i>>
      BY <2>2 DEF Run
    <3> QED
      BY <1>2, <2>1, <2>2, <3>1
  <2>3. CASE ~(i <= n - m)
    <3>1. i - (n - m) \in 1..p - n /\ n + (i - (n - m)) = m + i
      BY <2>3
    <3>2. t[i - (n - m)] = <<c, m + i>>
      BY <3>1 DEF Run
    <3> QED
      BY <1>2, <2>1, <2>3, <3>2
  <2> QED
    BY <2>2, <2>3
<1> HIDE DEF s, t, u
<1>4. s \o t = u
  BY <1>1, <1>2, <1>3, SeqEqual
<1> QED
  BY <1>4 DEF s, t, u

(* The parts of a run are runs. *)
LEMMA RunParts ==
  ASSUME NEW c \in Conns, NEW m \in Nat, NEW n \in Nat, m <= n, NEW k \in 0..n - m
  PROVE  /\ SubSeq(Run(c, m, n), 1, k) = Run(c, m, m + k)
         /\ SubSeq(Run(c, m, n), k + 1, n - m) = Run(c, m + k, n)
<1> DEFINE s == Run(c, m, n)
<1>1. s \in Seq(Conns \X Nat) /\ Len(s) = n - m /\ n - m \in Nat
  BY RunType
<1>2. /\ Len(SubSeq(s, 1, k)) = k /\ SubSeq(s, 1, k) \in Seq(Conns \X Nat)
      /\ \A i \in 1..k : SubSeq(s, 1, k)[i] = s[i]
  <2> HIDE DEF s
  <2> QED
    BY <1>1, SubSeqProperties
<1>3. /\ Len(SubSeq(s, k + 1, n - m)) = n - (m + k)
      /\ SubSeq(s, k + 1, n - m) \in Seq(Conns \X Nat)
      /\ \A i \in 1..n - (m + k) : SubSeq(s, k + 1, n - m)[i] = s[k + i]
  <2> HIDE DEF s
  <2> QED
    BY <1>1, SubSeqProperties
<1>4. m + k \in Nat /\ m <= m + k /\ m + k <= n
  OBVIOUS
<1>5. SubSeq(s, 1, k) = Run(c, m, m + k)
  <2>1. /\ Run(c, m, m + k) \in Seq(Conns \X Nat)
        /\ Len(Run(c, m, m + k)) = k
    <3>1. (m + k) - m = k
      OBVIOUS
    <3>2. /\ Run(c, m, m + k) \in Seq(Conns \X Nat)
          /\ Len(Run(c, m, m + k)) = (m + k) - m
      BY <1>4, RunType
    <3> QED
      BY <3>1, <3>2
  <2>2. \A i \in 1..k : s[i] = Run(c, m, m + k)[i]
    BY DEF Run
  <2> HIDE DEF s
  <2> QED
    BY <1>2, <2>1, <2>2, SeqEqual
<1>6. SubSeq(s, k + 1, n - m) = Run(c, m + k, n)
  <2>1. /\ Run(c, m + k, n) \in Seq(Conns \X Nat)
        /\ Len(Run(c, m + k, n)) = n - (m + k)
    BY <1>4, RunType
  <2>2. \A i \in 1..n - (m + k) : s[k + i] = Run(c, m + k, n)[i]
    BY DEF Run
  <2> HIDE DEF s
  <2> QED
    BY <1>3, <2>1, <2>2, SeqEqual
<1> QED
  BY <1>5, <1>6

(* The streams out, held and in of connection c, put together, are the     *)
(* first sent bytes of its client.                                         *)
InOrder(c, out, held, in, sent) ==
  \E m, n \in Nat :
    /\ m <= n /\ n <= sent
    /\ out = Run(c, 0, m) /\ held = Run(c, m, n) /\ in = Run(c, n, sent)

(* The client sends more bytes, total in all. *)
LEMMA OrderSent ==
  ASSUME NEW c \in Conns, NEW out, NEW held, NEW in,
         NEW sent \in Nat, InOrder(c, out, held, in, sent),
         NEW total \in Nat, sent <= total
  PROVE  InOrder(c, out, held, in \o Run(c, sent, total), total)
<1>1. PICK m, n \in Nat :
        /\ m <= n /\ n <= sent
        /\ out = Run(c, 0, m) /\ held = Run(c, m, n) /\ in = Run(c, n, sent)
  BY DEF InOrder
<1>2. Run(c, n, sent) \o Run(c, sent, total) = Run(c, n, total)
  BY <1>1, RunsJoin
<1> QED
  BY <1>1, <1>2 DEF InOrder

(* The server takes the first k of the bytes it has not read. *)
LEMMA OrderRead ==
  ASSUME NEW c \in Conns, NEW out, NEW in,
         NEW sent \in Nat, InOrder(c, out, << >>, in, sent), NEW k \in 0..Len(in)
  PROVE  InOrder(c, out, SubSeq(in, 1, k), SubSeq(in, k + 1, Len(in)), sent)
<1>1. PICK m, n \in Nat :
        /\ m <= n /\ n <= sent
        /\ out = Run(c, 0, m) /\ << >> = Run(c, m, n) /\ in = Run(c, n, sent)
  BY DEF InOrder
<1>2. m = n
  <2>1. Len(Run(c, m, n)) = 0
    BY <1>1
  <2> QED
    BY <2>1, <1>1, RunType
<1>3. Len(in) = sent - n
  <2>1. Len(Run(c, n, sent)) = sent - n
    BY <1>1, RunType
  <2> QED
    BY <2>1, <1>1
<1>4. /\ SubSeq(in, 1, k) = Run(c, n, n + k)
      /\ SubSeq(in, k + 1, Len(in)) = Run(c, n + k, sent)
  <2>1. k \in 0..sent - n
    BY <1>3
  <2>2. /\ SubSeq(Run(c, n, sent), 1, k) = Run(c, n, n + k)
        /\ SubSeq(Run(c, n, sent), k + 1, sent - n) = Run(c, n + k, sent)
    BY <2>1, <1>1, RunParts
  <2> QED
    BY <1>1, <1>3, <2>2
<1>5. n + k \in Nat /\ n + k <= sent /\ n <= n + k
  BY <1>1, <1>3
<1> QED
  BY <1>1, <1>2, <1>4, <1>5 DEF InOrder

(* The server writes all the bytes it holds. *)
LEMMA OrderEchoed ==
  ASSUME NEW c \in Conns, NEW out, NEW held, NEW in,
         NEW sent \in Nat, InOrder(c, out, held, in, sent)
  PROVE  /\ InOrder(c, out \o held, << >>, in, sent)
         /\ Len(out) + Len(held) \in 0..sent
         /\ out \o held = Run(c, 0, Len(out) + Len(held))
<1>1. PICK m, n \in Nat :
        /\ m <= n /\ n <= sent
        /\ out = Run(c, 0, m) /\ held = Run(c, m, n) /\ in = Run(c, n, sent)
  BY DEF InOrder
<1>2. Run(c, 0, m) \o Run(c, m, n) = Run(c, 0, n)
  <2>1. 0 \in Nat /\ 0 <= m
    OBVIOUS
  <2> QED
    BY <2>1, <1>1, RunsJoin
<1>3. Run(c, n, n) = << >>
  BY DEF Run
<1>4. Len(out) + Len(held) = n
  <2>1. 0 \in Nat /\ 0 <= m
    OBVIOUS
  <2>2. Len(Run(c, 0, m)) = m - 0 /\ Len(Run(c, m, n)) = n - m
    BY <2>1, <1>1, RunType
  <2> QED
    BY <1>1, <2>2
<1>5. out \o held = Run(c, 0, n) /\ << >> = Run(c, n, n) /\ n <= n
  BY <1>1, <1>2, <1>3
<1>6. InOrder(c, out \o held, << >>, in, sent)
  BY <1>1, <1>5 DEF InOrder
<1> QED
  BY <1>1, <1>4, <1>5, <1>6

(* The connection c in the state k, of which the server holds the bytes    *)
(* held: until a reset has arrived all of its bytes are in order, and what *)
(* has been echoed remains so afterwards.                                  *)
Conserved(c, k, held) ==
  /\ k.echoed = Run(c, 0, Len(k.echoed)) /\ Len(k.echoed) <= k.sent
  /\ k.unread <= Len(k.echoed)
  /\ "err" \in k.marks => "dead" \in k.marks
  /\ "dead" \in k.marks \/ InOrder(c, k.echoed, held, k.up, k.sent)

(* What an action on connection c leaves alone. *)
Others(c) == \A d \in Conns \ {c} : tcp'[d] = tcp[d]

(* No byte was sent at first. *)
LEMMA ConservedInit ==
  ASSUME TcpInit, NEW c \in Conns
  PROVE  Conserved(c, tcp[c], << >>)
<1>1. Run(c, 0, 0) = << >>
  BY DEF Run
<1>2. Len(<< >>) = 0
  OBVIOUS
<1>3. tcp[c] = Fresh
  BY DEF TcpInit
<1> QED
  BY <1>1, <1>2, <1>3 DEF Conserved, InOrder, Fresh

(* The numbers of a connection. *)
LEMMA Lengths ==
  ASSUME Sockets, NEW c \in Conns
  PROVE  /\ Len(tcp[c].echoed) \in Nat /\ Len(tcp[c].up) \in Nat
         /\ tcp[c].sent \in Nat /\ tcp[c].unread \in Nat
BY Fields, TcpAssumption DEF Stream

(* The client and the network add bytes behind the unread ones, or none. *)
LEMMA OutsideConserves ==
  ASSUME Sockets, NEW c \in Conns, Outside(c),
         NEW held \in Stream, Conserved(c, tcp[c], held)
  PROVE  /\ Conserved(c, tcp'[c], held) /\ Others(c)
         /\ tcp'[c].echoed = tcp[c].echoed /\ tcp'[c].sent >= tcp[c].sent
<1>0. /\ Len(tcp[c].echoed) \in Nat /\ Len(tcp[c].up) \in Nat
      /\ tcp[c].sent \in Nat /\ tcp[c].unread \in Nat
      /\ tcp[c].echoed \in Stream /\ tcp[c].up \in Stream
  BY Fields, Lengths
<1>1. CASE Connect(c)
  <2>1. /\ tcp'[c].sent = tcp[c].sent /\ tcp'[c].up = tcp[c].up
        /\ tcp'[c].echoed = tcp[c].echoed /\ tcp'[c].unread = tcp[c].unread
        /\ tcp'[c].marks = tcp[c].marks /\ Others(c)
    BY <1>1 DEF Connect, Sockets, Connection, Others
  <2> QED
    BY <2>1, <1>0 DEF Conserved
<1>2. CASE Send(c)
  <2>1. PICK n \in 1..MaxBytes - tcp[c].sent :
          tcp' = [tcp EXCEPT
                  ![c].sent = @ + n,
                  ![c].up = @ \o [i \in 1..n |-> <<c, tcp[c].sent + i>>]]
    BY <1>2 DEF Send
  <2>2. [i \in 1..n |-> <<c, tcp[c].sent + i>>] = Run(c, tcp[c].sent, tcp[c].sent + n)
    BY <1>0, TcpAssumption DEF Run
  <2>3. n \in Nat /\ n > 0 /\ tcp[c].sent + n \in Nat
    BY <1>0, TcpAssumption
  <2>4. /\ tcp'[c].sent = tcp[c].sent + n
        /\ tcp'[c].up = tcp[c].up \o Run(c, tcp[c].sent, tcp[c].sent + n)
        /\ tcp'[c].echoed = tcp[c].echoed /\ tcp'[c].unread = tcp[c].unread
        /\ tcp'[c].marks = tcp[c].marks /\ Others(c)
    BY <2>1, <2>2 DEF Sockets, Connection, Others
  <2>5. InOrder(c, tcp[c].echoed, held, tcp[c].up, tcp[c].sent) =>
          InOrder(c, tcp'[c].echoed, held, tcp'[c].up, tcp'[c].sent)
    BY <2>3, <2>4, <1>0, OrderSent
  <2> QED
    BY <2>3, <2>4, <2>5, <1>0 DEF Conserved
<1>3. CASE Receive(c)
  <2>1. PICK n \in 1..tcp[c].unread : tcp' = [tcp EXCEPT ![c].unread = @ - n]
    BY <1>3 DEF Receive
  <2>2. /\ tcp'[c].sent = tcp[c].sent /\ tcp'[c].up = tcp[c].up
        /\ tcp'[c].echoed = tcp[c].echoed /\ tcp'[c].unread = tcp[c].unread - n
        /\ tcp'[c].marks = tcp[c].marks /\ Others(c)
    BY <2>1 DEF Sockets, Connection, Others
  <2> QED
    BY <2>2, <1>0 DEF Conserved
<1>4. CASE Close(c)
  <2>1. PICK mark \in {"fin", "rst"} :
          tcp' = [tcp EXCEPT ![c].marks = @ \cup {"closed", mark}, ![c].unread = 0]
    BY <1>4 DEF Close
  <2>2. /\ tcp'[c].sent = tcp[c].sent /\ tcp'[c].up = tcp[c].up
        /\ tcp'[c].echoed = tcp[c].echoed /\ tcp'[c].unread = 0
        /\ tcp'[c].marks = tcp[c].marks \cup {"closed", mark} /\ Others(c)
    BY <2>1 DEF Sockets, Connection, Others
  <2> QED
    BY <2>2, <1>0 DEF Conserved
<1>5. CASE ResetArrives(c)
  <2>1. PICK more \in {{"dead"}, {"dead", "err"}} :
          tcp' = [tcp EXCEPT ![c].marks = (@ \ {"rst"}) \cup more]
    BY <1>5 DEF ResetArrives
  <2>2. /\ tcp'[c].sent = tcp[c].sent /\ tcp'[c].up = tcp[c].up
        /\ tcp'[c].echoed = tcp[c].echoed /\ tcp'[c].unread = tcp[c].unread
        /\ "dead" \in tcp'[c].marks /\ Others(c)
    BY <2>1 DEF Sockets, Connection, Others
  <2> QED
    BY <2>2, <1>0 DEF Conserved
<1> QED
  BY <1>1, <1>2, <1>3, <1>4, <1>5 DEF Outside

(* accept4() moves no bytes. *)
LEMMA AcceptConserves ==
  ASSUME Sockets, NEW c \in Conns, Accept(c), NEW d \in Conns, NEW held,
         Conserved(d, tcp[d], held)
  PROVE  /\ Conserved(d, tcp'[d], held)
         /\ tcp'[d].echoed = tcp[d].echoed /\ tcp'[d].sent = tcp[d].sent
<1>1. /\ tcp'[d].sent = tcp[d].sent /\ tcp'[d].up = tcp[d].up
      /\ tcp'[d].echoed = tcp[d].echoed /\ tcp'[d].unread = tcp[d].unread
      /\ tcp'[d].marks = tcp[d].marks
  BY DEF Accept, Sockets, Connection
<1> QED
  BY <1>1 DEF Conserved

(* read() by a server that holds nothing of the connection *)
LEMMA ReadConserves ==
  ASSUME Sockets, NEW c \in Conns, Conserved(c, tcp[c], << >>)
  PROVE  /\ ReadData(c) => Conserved(c, tcp'[c], Data(c))
         /\ ReadFails(c) \/ ReadEof(c) => Conserved(c, tcp'[c], << >>)
         /\ ReadData(c) \/ ReadFails(c) \/ ReadEof(c) =>
              /\ Others(c)
              /\ tcp'[c].echoed = tcp[c].echoed /\ tcp'[c].sent = tcp[c].sent
<1>1. CASE ReadData(c)
  <2>1. /\ tcp'[c].sent = tcp[c].sent /\ tcp'[c].echoed = tcp[c].echoed
        /\ tcp'[c].up = SubSeq(tcp[c].up, Got(c) + 1, Len(tcp[c].up))
        /\ tcp'[c].unread = tcp[c].unread
        /\ tcp'[c].marks = tcp[c].marks /\ Others(c)
    BY <1>1 DEF ReadData, Sockets, Connection, Others
  <2>2. Got(c) \in 0..Len(tcp[c].up) /\ tcp[c].sent \in Nat
    BY GotBounds, Lengths
  <2>3. InOrder(c, tcp[c].echoed, << >>, tcp[c].up, tcp[c].sent) =>
          InOrder(c, tcp'[c].echoed, Data(c), tcp'[c].up, tcp'[c].sent)
    BY <2>1, <2>2, OrderRead DEF Data
  <2>4. Conserved(c, tcp'[c], Data(c))
    BY <2>1, <2>3 DEF Conserved
  <2>5. ~ReadFails(c) /\ ~ReadEof(c)
    BY <1>1 DEF ReadData, ReadFails, ReadEof
  <2> QED
    BY <2>1, <2>4, <2>5
<1>2. CASE ReadFails(c)
  <2>1. /\ tcp'[c].sent = tcp[c].sent /\ tcp'[c].echoed = tcp[c].echoed
        /\ tcp'[c].up = tcp[c].up
        /\ tcp'[c].unread = tcp[c].unread
        /\ tcp'[c].marks = tcp[c].marks \ {"err"} /\ Others(c)
    BY <1>2 DEF ReadFails, Sockets, Connection, Others
  <2>2. Conserved(c, tcp'[c], << >>)
    BY <2>1 DEF Conserved
  <2>3. ~ReadData(c)
    BY <1>2 DEF ReadData, ReadFails
  <2> QED
    BY <2>1, <2>2, <2>3
<1>3. CASE ReadEof(c)
  <2>1. ~ReadData(c)
    BY <1>3 DEF ReadData, ReadEof
  <2> QED
    BY <2>1, <1>3 DEF ReadEof, Others
<1> QED
  BY <1>1, <1>2, <1>3

(* write() of everything the server holds: all of it is echoed, or a reset *)
(* has come before and nothing is. *)
LEMMA WriteConserves ==
  ASSUME Sockets, NEW c \in Conns, NEW held \in Stream, Conserved(c, tcp[c], held)
  PROVE  /\ WriteTakes(c, held, Len(held)) =>
              /\ Conserved(c, tcp'[c], << >>)
              /\ tcp'[c].echoed = Run(c, 0, Len(tcp[c].echoed) + Len(held))
              /\ Len(tcp[c].echoed) + Len(held) \in 0..tcp[c].sent
         /\ WriteFails(c) => /\ Conserved(c, tcp'[c], << >>)
                             /\ tcp'[c].echoed = tcp[c].echoed
         /\ WriteKills(c) => UNCHANGED tcp
         /\ WriteTakes(c, held, Len(held)) \/ WriteFails(c) =>
              Others(c) /\ tcp'[c].sent = tcp[c].sent
<1>0. /\ Len(tcp[c].echoed) \in Nat /\ tcp[c].sent \in Nat /\ tcp[c].unread \in Nat
      /\ Len(held) \in Nat /\ tcp[c].echoed \in Stream /\ tcp[c].marks \in Marks
  BY Fields, Lengths DEF Stream
<1>1. ASSUME WriteTakes(c, held, Len(held))
      PROVE  /\ Conserved(c, tcp'[c], << >>)
             /\ tcp'[c].echoed = Run(c, 0, Len(tcp[c].echoed) + Len(held))
             /\ Len(tcp[c].echoed) + Len(held) \in 0..tcp[c].sent
             /\ Others(c) /\ tcp'[c].sent = tcp[c].sent
  <2>1. SubSeq(held, 1, Len(held)) = held
    BY <1>0 DEF Stream
  <2>2. PICK more \in {{}, {"rst"}} :
          tcp' = [tcp EXCEPT ![c].echoed = @ \o held,
                             ![c].unread = IF Closed(c) THEN 0 ELSE @ + Len(held),
                             ![c].marks = @ \cup more]
    <3>1. tcp[c].marks \cup {} = tcp[c].marks
      OBVIOUS
    <3> QED
      BY <1>1, <2>1, <3>1 DEF WriteTakes
  <2>3. /\ tcp'[c].sent = tcp[c].sent /\ tcp'[c].up = tcp[c].up
        /\ tcp'[c].echoed = tcp[c].echoed \o held
        /\ tcp'[c].unread \in {0, tcp[c].unread + Len(held)}
        /\ tcp'[c].marks = tcp[c].marks \cup more /\ Others(c)
    BY <2>2 DEF Sockets, Connection, Others
  <2>4. "dead" \notin tcp[c].marks /\ "err" \notin tcp[c].marks
    BY <1>1 DEF WriteTakes, Is, Conserved
  <2>5. InOrder(c, tcp[c].echoed, held, tcp[c].up, tcp[c].sent)
    BY <2>4 DEF Conserved
  <2>6. /\ InOrder(c, tcp'[c].echoed, << >>, tcp'[c].up, tcp'[c].sent)
        /\ Len(tcp[c].echoed) + Len(held) \in 0..tcp[c].sent
        /\ tcp'[c].echoed = Run(c, 0, Len(tcp[c].echoed) + Len(held))
    <3>1. /\ InOrder(c, tcp[c].echoed \o held, << >>, tcp[c].up, tcp[c].sent)
          /\ Len(tcp[c].echoed) + Len(held) \in 0..tcp[c].sent
          /\ tcp[c].echoed \o held = Run(c, 0, Len(tcp[c].echoed) + Len(held))
      BY <2>5, <1>0, OrderEchoed
    <3> QED
      BY <2>3, <3>1
  <2>7. Len(tcp'[c].echoed) = Len(tcp[c].echoed) + Len(held)
    BY <2>3, <1>0, ConcatProperties DEF Stream
  <2>8. tcp'[c].unread <= Len(tcp'[c].echoed)
    BY <2>3, <2>7, <1>0 DEF Conserved
  <2>9. "err" \notin tcp'[c].marks
    BY <2>3, <2>4
  <2>10. Conserved(c, tcp'[c], << >>)
    BY <2>3, <2>6, <2>7, <2>8, <2>9 DEF Conserved
  <2> QED
    BY <2>3, <2>6, <2>10
<1>2. ASSUME WriteFails(c)
      PROVE  /\ Conserved(c, tcp'[c], << >>) /\ tcp'[c].echoed = tcp[c].echoed
             /\ Others(c) /\ tcp'[c].sent = tcp[c].sent
  <2>1. /\ tcp'[c].sent = tcp[c].sent /\ tcp'[c].echoed = tcp[c].echoed
        /\ tcp'[c].up = tcp[c].up
        /\ tcp'[c].unread = tcp[c].unread
        /\ tcp'[c].marks = tcp[c].marks \ {"err"} /\ Others(c)
    BY <1>2 DEF WriteFails, Sockets, Connection, Others
  <2>2. "dead" \in tcp'[c].marks
    BY <1>2, <2>1 DEF WriteFails, Is, Conserved
  <2> QED
    BY <2>1, <2>2 DEF Conserved
<1>3. WriteKills(c) => UNCHANGED tcp
  BY DEF WriteKills
<1> QED
  BY <1>1, <1>2, <1>3
-----------------------------------------------------------------------------
(* What a step on one connection is to EchoService. *)

(* The servers start as the abstract service does. *)
LEMMA EchoInit == TcpInit => Echo!Init
BY DEF TcpInit, Echo!Init, Fresh

(* The first n bytes are what the service calls so. *)
LEMMA RunIsBytes ==
  ASSUME NEW c \in Conns, NEW n \in Nat
  PROVE  Run(c, 0, n) = Echo!Bytes(c, n)
BY DEF Run, Echo!Bytes

(* More bytes of the client, more bytes echoed, or neither. *)
LEMMA EchoStep ==
  ASSUME NEW c \in Conns, Others(c), tcp' \in [Conns -> Connection], Sockets,
         tcp[c].echoed = Run(c, 0, Len(tcp[c].echoed)),
         \/ tcp'[c].echoed = tcp[c].echoed /\ tcp'[c].sent >= tcp[c].sent
         \/ /\ tcp'[c].sent = tcp[c].sent
            /\ \E n \in Len(tcp[c].echoed)..tcp[c].sent : tcp'[c].echoed = Run(c, 0, n)
  PROVE  [Echo!Next]_(Echo!vars)
<1> DEFINE s == [d \in Conns |-> tcp[d].sent]
           e == [d \in Conns |-> tcp[d].echoed]
           s2 == [d \in Conns |-> tcp'[d].sent]
           e2 == [d \in Conns |-> tcp'[d].echoed]
<1>0. /\ Len(tcp[c].echoed) \in Nat /\ tcp[c].sent \in Nat /\ tcp'[c].sent \in Nat
      /\ s2[c] = tcp'[c].sent /\ e[c] = tcp[c].echoed /\ s[c] = tcp[c].sent
  BY Lengths, TcpAssumption DEF Sockets, Connection
<1>1. CASE tcp'[c].echoed = tcp[c].echoed /\ tcp'[c].sent = tcp[c].sent
  <2>1. s2 = s /\ e2 = e
    BY <1>1 DEF Others
  <2> QED
    BY <2>1 DEF Echo!vars
<1>2. CASE tcp'[c].echoed = tcp[c].echoed /\ tcp'[c].sent > tcp[c].sent
  <2>1. s2 = [s EXCEPT ![c] = s2[c]] /\ e2 = e /\ s2[c] > s[c]
    BY <1>2, <1>0 DEF Others
  <2>2. Echo!Send(c)
    BY <2>1 DEF Echo!Send
  <2> QED
    BY <2>2 DEF Echo!Next
<1>3. ASSUME tcp'[c].sent = tcp[c].sent,
             NEW n \in Len(tcp[c].echoed) + 1..tcp[c].sent, tcp'[c].echoed = Run(c, 0, n)
      PROVE  [Echo!Next]_(Echo!vars)
  <2>1. s2 = s /\ e2 = [e EXCEPT ![c] = Run(c, 0, n)]
    BY <1>3 DEF Others
  <2>2. n \in Nat
    BY <1>0
  <2>3. n \in Len(e[c]) + 1..s[c]
    BY <1>0
  <2>4. e2 = [e EXCEPT ![c] = Echo!Bytes(c, n)]
    BY <2>1, <2>2, RunIsBytes
  <2>5. Echo!Echo(c)
    BY <2>1, <2>3, <2>4 DEF Echo!Echo
  <2> QED
    BY <2>5 DEF Echo!Next
<1> QED
  <2>1. CASE tcp'[c].echoed = tcp[c].echoed /\ tcp'[c].sent >= tcp[c].sent
    BY <2>1, <1>0, <1>1, <1>2
  <2>2. ASSUME tcp'[c].sent = tcp[c].sent,
               NEW n \in Len(tcp[c].echoed)..tcp[c].sent, tcp'[c].echoed = Run(c, 0, n)
        PROVE  [Echo!Next]_(Echo!vars)
    <3>1. CASE n = Len(tcp[c].echoed)
      BY <3>1, <2>2, <1>1
    <3>2. CASE n # Len(tcp[c].echoed)
      <4>1. n \in Len(tcp[c].echoed) + 1..tcp[c].sent
        BY <3>2, <1>0
      <4> QED
        BY <4>1, <2>2, <1>3
    <3> QED
      BY <3>1, <3>2
  <2> QED
    BY <2>1, <2>2

(* A step that touches no connection is none of the service. *)
LEMMA EchoStutter == UNCHANGED tcp => UNCHANGED Echo!vars
BY DEF Echo!vars
=============================================================================
