-------------------------------- MODULE Tcp --------------------------------
(***************************************************************************)
(* The sockets the servers under 网络编程入门 run on, and the clients at   *)
(* their other ends.  None of this is code of the repository: it is what   *)
(* read(), write() and accept4() answer to it.  A client sends bytes, does *)
(* not need to read what comes back, and may close at any time.  Closing   *)
(* with unread data, or data arriving after the close, makes the client's  *)
(* kernel send a reset.                                                    *)
(***************************************************************************)
EXTENDS Naturals, Sequences

CONSTANTS
  Conns,      \* the connections clients open, each once
  MaxBytes,   \* how many bytes a client sends on one
  BUFFSIZE,   \* how many bytes one read() asks for
  SendRoom    \* bytes of echo the kernel holds for a client that does not read

ASSUME TcpAssumption ==
  /\ MaxBytes \in Nat /\ BUFFSIZE \in Nat \ {0} /\ SendRoom \in Nat \ {0}

VARIABLE tcp  \* tcp[c]: the state of connection c

Places == {"none", "queued", "accepted"}
Stream == Seq(Conns \X Nat)

(* what fits the char buf[BUFFSIZE] of a server *)
Buffer == {s \in Stream : Len(s) <= BUFFSIZE}

Marks == SUBSET {
  "closed",  \* the client has called close()
  "fin",     \* the end of the client's stream has reached the server
  "rst",     \* a reset is on its way to the server
  "dead",    \* the reset has arrived
  "err"}     \* and its ECONNRESET has not been reported

Connection ==
  [client : Places,         \* as seen from the listening socket
   sent   : 0..MaxBytes,
   up     : Stream,         \* bytes the server has not read
   echoed : Stream,         \* bytes the server has written
   unread : 0..SendRoom,    \* echoed bytes the client has not read
   marks  : Marks]

Fresh == [client |-> "none", sent |-> 0, up |-> << >>, echoed |-> << >>,
          unread |-> 0, marks |-> {}]

Is(c, mark) == mark \in tcp[c].marks
Closed(c) == Is(c, "closed")

TcpInit == tcp = [c \in Conns |-> Fresh]

Open(c) == tcp[c].client # "none" /\ ~Closed(c)
-----------------------------------------------------------------------------
(* The client and the network. *)

Connect(c) == /\ tcp[c].client = "none"
              /\ tcp' = [tcp EXCEPT ![c].client = "queued"]

Send(c) == /\ Open(c)
           /\ \E n \in 1..MaxBytes - tcp[c].sent :
                tcp' = [tcp EXCEPT
                  ![c].sent = @ + n,
                  ![c].up = @ \o [i \in 1..n |-> <<c, tcp[c].sent + i>>]]

Receive(c) == /\ Open(c)
              /\ \E n \in 1..tcp[c].unread : tcp' = [tcp EXCEPT ![c].unread = @ - n]

Close(c) == /\ Open(c)
            /\ tcp' = [tcp EXCEPT
                 ![c].marks = @ \cup {"closed", IF tcp[c].unread = 0 THEN "fin" ELSE "rst"},
                 ![c].unread = 0]

ResetArrives(c) ==
  /\ Is(c, "rst")
  /\ tcp' = [tcp EXCEPT ![c].marks =
               (@ \ {"rst"}) \cup (IF Is(c, "fin") THEN {"dead"} ELSE {"dead", "err"})]

Outside(c) == Connect(c) \/ Send(c) \/ Receive(c) \/ Close(c) \/ ResetArrives(c)
-----------------------------------------------------------------------------
(* System calls of the server on connection c. *)

Accept(c) == /\ tcp[c].client = "queued"
             /\ tcp' = [tcp EXCEPT ![c].client = "accepted"]

Smaller(m, n) == IF m < n THEN m ELSE n

Readable(c) == tcp[c].up # << >> \/ Is(c, "fin") \/ Is(c, "dead")

GotTooMuch(c) == Len(tcp[c].up)                    \* mutant of Got
Got(c) == Smaller(BUFFSIZE, Len(tcp[c].up))

(* read() answers the data that is there, as much as fits the buffer ... *)
Data(c) == SubSeq(tcp[c].up, 1, Got(c))

ReadData(c) == /\ tcp[c].up # << >>
               /\ tcp' = [tcp EXCEPT ![c].up = SubSeq(@, Got(c) + 1, Len(@))]

(* ... or -1 with ECONNRESET, once ... *)
ReadFails(c) == /\ tcp[c].up = << >> /\ Is(c, "err")
                /\ tcp' = [tcp EXCEPT ![c].marks = @ \ {"err"}]

(* ... or 0. *)
ReadEof(c) == /\ tcp[c].up = << >> /\ ~Is(c, "err")
              /\ Is(c, "fin") \/ Is(c, "dead")
              /\ UNCHANGED tcp

(* write() after a reset raises SIGPIPE, which kills the process ... *)
WriteKills(c) == Is(c, "dead") /\ ~Is(c, "err") /\ UNCHANGED tcp

(* ... after it has reported the reset, if read() has not. *)
WriteFails(c) == /\ Is(c, "err")
                 /\ tcp' = [tcp EXCEPT ![c].marks = @ \ {"err"}]

(* write() takes n bytes of data; a client that is gone answers a reset *)
WriteTakes(c, data, n) ==
  /\ ~Is(c, "dead")
  /\ tcp' = [tcp EXCEPT
       ![c].echoed = @ \o SubSeq(data, 1, n),
       ![c].unread = IF Closed(c) THEN 0 ELSE @ + n,
       ![c].marks = IF Closed(c) THEN @ \cup {"rst"} ELSE @]

Room(c) == IF Closed(c) THEN MaxBytes ELSE SendRoom - tcp[c].unread

(* A blocking write() returns when the kernel has taken all of data. *)
WriteAll(c, data) == Len(data) <= Room(c) /\ WriteTakes(c, data, Len(data))
-----------------------------------------------------------------------------
(* Each client gets back what it sent, in order and without gaps, and      *)
(* never another client's bytes, however the server interleaves them: that *)
(* of the children, that of the iterations, and that of epoll as far as    *)
(* the kernel has room for what a client has not read.                     *)
Echo == INSTANCE EchoService WITH sent <- [c \in Conns |-> tcp[c].sent],
                                  echoed <- [c \in Conns |-> tcp[c].echoed]
RefinesEcho == Echo!Spec
=============================================================================
