--------------------------- MODULE LibeventServer ---------------------------
(***************************************************************************)
(* libevent_server_withbuffer.cxx: one thread in event_base_dispatch(), so *)
(* that a handler is one step: what libevent does with the socket and the  *)
(* evbuffers, and the callback it then makes.  A byte <<c, 0>> is a byte   *)
(* of the prefix of an answer.  libevent reads no more than fits msg at a  *)
(* time, so that the callback empties the input buffer.                    *)
(***************************************************************************)
EXTENDS Tcp

CONSTANTS
  Prefix,       \* the length of "I have recvieced the msg: "
  Nuls,         \* the bytes, among all a client may send, that are zero
  MaxOrphans    \* how many failures of accept4() are followed

ASSUME PrefixAssumption ==
  Prefix \in Nat \ {0} /\ MaxOrphans \in Nat /\ Nuls \subseteq Conns \X (Nat \ {0})

VARIABLES
  base,     \* main(): "init", "dispatch", "ended", "killed" by SIGPIPE, "overrun"
  bev,      \* bev[c]: the server's bufferevent of connection c
  output,   \* output[c]: its output buffer
  orphans   \* how many bufferevents the server has without a socket

baseVars == <<base, bev, output, orphans>>

Buffers == {"none", "open", "freed"}

BaseInit == /\ base = "init" /\ orphans = 0
            /\ bev = [c \in Conns |-> "none"] /\ output = [c \in Conns |-> << >>]
-----------------------------------------------------------------------------
(* A bind() or listen() that fails closes the socket, and tcp_server_init()*)
(* answers its number all the same: no event can be added, and dispatch    *)
(* returns at once.                                                        *)
Starts == /\ base = "init" /\ base' \in {"dispatch", "ended"}
          /\ UNCHANGED <<tcp, bev, output, orphans>>

(* accept_cb() *)
AcceptCb(c) ==
  /\ base = "dispatch" /\ Accept(c)
  /\ bev' = [bev EXCEPT ![c] = "open"]
  /\ UNCHANGED <<base, output, orphans>>

(* Nobody looks at the answer of accept4(): the number -1 gets a           *)
(* bufferevent, too, about which nothing will ever be reported.            *)
AcceptFails ==
  /\ base = "dispatch" /\ orphans < MaxOrphans
  /\ \E c \in Conns : tcp[c].client = "queued"
  /\ orphans' = orphans + 1
  /\ UNCHANGED <<tcp, base, bev, output>>

(* strlen(msg), and what strcat() takes: the bytes before the first zero. *)
EndsText(msg, n) == /\ \A i \in 1..n : msg[i] \notin Nuls
                    /\ n < Len(msg) => msg[n + 1] \in Nuls
TextLength(msg) == CHOOSE n \in 0..Len(msg) : EndsText(msg, n)
Text(msg) == SubSeq(msg, 1, TextLength(msg))

Answer(c, msg) == [i \in 1..Prefix |-> <<c, 0>>] \o Text(msg)

AnswerCut(c, msg) == SubSeq(Answer(c, msg), 1, TextLength(msg))  \* mutant of ReplyMsg
ReplyMsg(c, msg) == Answer(c, msg)

(* msg[len] behind a full msg, and a strcat() that does not fit reply_msg  *)
(* with its zero: both arrays are char[4096], like what libevent reads.    *)
Overruns(msg) == Len(msg) = BUFFSIZE \/ Prefix + TextLength(msg) >= BUFFSIZE

(* socket_read_cb().  Behind an overrun anything may happen: the model     *)
(* follows the server no further.                                          *)
ReadCb(c) ==
  /\ IF Overruns(Data(c)) THEN base' = "overrun" /\ UNCHANGED output
     ELSE output' = [output EXCEPT ![c] = @ \o ReplyMsg(c, Data(c))] /\ UNCHANGED base
  /\ UNCHANGED bev

(* event_cb(): bufferevent_free() drops what is not sent and closes. *)
EventCb(c) == /\ bev' = [bev EXCEPT ![c] = "freed"]
              /\ output' = [output EXCEPT ![c] = << >>]
              /\ UNCHANGED base

ServerReads(c) ==
  /\ base = "dispatch" /\ bev[c] = "open"
  /\ \/ ReadData(c) /\ ReadCb(c)
     \/ (ReadFails(c) \/ ReadEof(c)) /\ EventCb(c)
  /\ UNCHANGED orphans

(* What write() does not take stays in the output buffer. *)
ServerWrites(c) ==
  /\ base = "dispatch" /\ bev[c] = "open" /\ output[c] # << >>
  /\ \/ \E n \in {Smaller(Len(output[c]), Room(c))} \ {0} :
          /\ WriteTakes(c, output[c], n)
          /\ output' = [output EXCEPT ![c] = SubSeq(@, n + 1, Len(@))]
          /\ UNCHANGED <<base, bev>>
     \/ WriteFails(c) /\ EventCb(c)
     \/ WriteKills(c) /\ base' = "killed" /\ UNCHANGED <<bev, output>>
  /\ UNCHANGED orphans

BaseStep == Starts \/ AcceptFails
              \/ \E c \in Conns : AcceptCb(c) \/ ServerReads(c) \/ ServerWrites(c)
-----------------------------------------------------------------------------
BaseTypeOK ==
  /\ tcp \in [Conns -> Connection]
  /\ base \in {"init", "dispatch", "ended", "killed", "overrun"} /\ orphans \in 0..MaxOrphans
  /\ bev \in [Conns -> Buffers] /\ output \in [Conns -> Stream]

Own(bytes) == {i \in 1..Len(bytes) : bytes[i][2] # 0}

(* Byte k is not among bytes because of a zero before it in the same read, *)
(* with which all from there on were left out.                             *)
Skipped(c, bytes, k) ==
  \E z \in 1..k : /\ <<c, z>> \in Nuls /\ k < z + BUFFSIZE
                 /\ \A i \in Own(bytes) : bytes[i][2] \notin z..k

(* The prefixes left out, bytes are the first n of connection c, in order  *)
(* and each once, but for those that a zero has cut off.                   *)
Holds(c, bytes, n) ==
  /\ \A i \in Own(bytes) : bytes[i] \in {c} \X (1..n)
  /\ \A i, j \in Own(bytes) : i < j => bytes[i][2] < bytes[j][2]
  /\ \A k \in 1..n :
       (\E i \in Own(bytes) : bytes[i][2] = k) \/ Skipped(c, bytes, k)

(* However the bytes are cut on their way through four buffers, an answer  *)
(* holds what was sent: what the server has answered and is going to       *)
(* answer, the prefixes left out, and what it has not read yet, are the    *)
(* bytes the client has sent, except what followed a zero in the same      *)
(* read; and what comes first is a prefix.  So it is until the server      *)
(* writes past its arrays.                                                 *)
NothingElseLost ==
  /\ BaseTypeOK
  /\ base # "overrun" => \A c \in Conns :
       LET answers == tcp[c].echoed \o output[c]
       IN /\ answers # << >> => Head(answers)[2] = 0
          /\ bev[c] # "freed" => Holds(c, answers \o tcp[c].up, tcp[c].sent)
          /\ \E n \in 0..tcp[c].sent : Holds(c, tcp[c].echoed, n)
=============================================================================
