--------------------------- MODULE DialogueProofs ---------------------------
(***************************************************************************)
(* Safety of the two servers whose clients' programs are modelled too: of  *)
(* EchoDialogue for any clients, any number of users of client.cxx among   *)
(* them, and of LibeventDialogue, for any number of clients, any message   *)
(* and any buffer size.                                                    *)
(***************************************************************************)
EXTENDS EchoDialogue, LibeventServer, TcpLemmas, WellFoundedInduction

USE DEF serverVars, clientVars

(* What the loop of the server has done of its current client: message is  *)
(* full only between a read() and the write().                             *)
Loop ==
  /\ pc # "accept" => client_sock \in Conns
  /\ pc \notin {"write", "killed"} => message = << >>
  /\ pc = "write" => message # << >>

(* The bytes of connection c the server holds. *)
Held(c) == IF c = client_sock THEN message ELSE << >>

Carried == \A c \in Conns : Conserved(c, tcp[c], Held(c))

Inv == TypeOK /\ Loop /\ Carried

(* The variables one by one, as the provers like them. *)
LEMMA Types ==
  ASSUME Inv
  PROVE  /\ Sockets /\ tcp \in [Conns -> Connection]
         /\ pc \in {"accept", "read", "write", "close", "killed"}
         /\ client_sock \in Conns \cup {NONE}
         /\ message \in Buffer /\ message \in Stream
         /\ cpc \in [Users -> UserPlaces]
         /\ behind \subseteq Users
         /\ \A c \in Conns : Held(c) \in Stream /\ Conserved(c, tcp[c], Held(c))
<1>1. << >> \in Stream
  BY DEF Stream
<1> QED
  BY <1>1 DEF Inv, TypeOK, ServerTypeOK, Sockets, Carried, Held, Buffer

(* Nothing is connected at first. *)
LEMMA InitInv == Init => Inv
<1> SUFFICES ASSUME Init PROVE Inv
  OBVIOUS
<1>1. tcp \in [Conns -> Connection]
  BY SocketsInit DEF Init, ServerInit, Sockets
<1>2. << >> \in Buffer
  BY TcpAssumption DEF Buffer, Stream
<1>3. TypeOK
  BY <1>1, <1>2 DEF Init, ServerInit, TypeOK, ServerTypeOK, UserPlaces
<1>4. Loop
  BY DEF Init, ServerInit, Loop
<1>5. Carried
  BY ConservedInit DEF Init, ServerInit, Carried, Held
<1> QED
  BY <1>3, <1>4, <1>5 DEF Inv

(* A user's client does only what any client may do. *)
LEMMA UserIsAClient ==
  ASSUME NEW c \in Users, ClientStep(c)
  PROVE  c \in Conns /\ (Outside(c) \/ UNCHANGED tcp) /\ UNCHANGED serverVars
BY UsersAssumption
DEF ClientStep, Connects, Asks, AsksNothing, Hears, CutOff, Quits, Outside

(* A client's own record and what its calls make of it *)
LEMMA ClientTypes ==
  ASSUME Inv, [Next]_<<vars, clientVars>>
  PROVE  /\ cpc' \in [Users -> UserPlaces]
         /\ behind' \subseteq Users
<1>0. /\ cpc \in [Users -> UserPlaces]
      /\ behind \subseteq Users
  BY Types
<1>1. ASSUME NEW c \in Users, ClientStep(c)
      PROVE  /\ cpc' \in [Users -> UserPlaces]
             /\ behind' \subseteq Users
  BY <1>0, <1>1
  DEF ClientStep, Connects, Asks, AsksNothing, Hears, CutOff, Quits, Goto, ThenReads, UserPlaces
<1> QED
  BY <1>0, <1>1 DEF Next

(* A client or the network *)
LEMMA OutsideStep ==
  ASSUME Inv, [Next]_<<vars, clientVars>>,
         NEW c \in Conns, Outside(c), UNCHANGED serverVars
  PROVE  Inv' /\ [Echo!Next]_(Echo!vars)
<1>1. /\ Conserved(c, tcp'[c], Held(c)) /\ Others(c)
      /\ tcp'[c].echoed = tcp[c].echoed /\ tcp'[c].sent >= tcp[c].sent
  BY Types, OutsideConserves
<1>2. tcp' \in [Conns -> Connection]
  BY Types, OutsideSockets DEF Kept, Sockets
<1>3. TypeOK'
  BY <1>2, Types, ClientTypes DEF TypeOK, ServerTypeOK
<1>4. Loop'
  BY DEF Inv, Loop
<1>5. Carried'
  BY <1>1 DEF Inv, Carried, Others, Held
<1>6. tcp[c].echoed = Run(c, 0, Len(tcp[c].echoed))
  BY Types DEF Conserved
<1>7. [Echo!Next]_(Echo!vars)
  BY <1>1, <1>2, <1>6, Types, EchoStep
<1> QED
  BY <1>3, <1>4, <1>5, <1>7 DEF Inv

(* accept4(), of the server's next client *)
LEMMA AcceptStep ==
  ASSUME Inv, [Next]_<<vars, clientVars>>, NEW c \in Conns, AcceptClient(c)
  PROVE  Inv' /\ [Echo!Next]_(Echo!vars)
<1>1. /\ pc = "accept" /\ pc' = "read" /\ Accept(c)
      /\ client_sock' = c /\ message' = << >> /\ message = << >>
  BY DEF AcceptClient, Inv, Loop
<1>2. \A d \in Conns : /\ Conserved(d, tcp'[d], << >>)
                       /\ tcp'[d].echoed = tcp[d].echoed /\ tcp'[d].sent = tcp[d].sent
  BY <1>1, Types, AcceptConserves DEF Held
<1>3. tcp' \in [Conns -> Connection] /\ << >> \in Buffer
  BY <1>1, Types, AcceptSockets, TcpAssumption DEF Sockets, Buffer, Stream
<1>4. TypeOK'
  BY <1>1, <1>3, ClientTypes DEF TypeOK, ServerTypeOK
<1>5. Loop' /\ Carried'
  BY <1>1, <1>2 DEF Loop, Carried, Held
<1>6. UNCHANGED Echo!vars
  BY <1>2 DEF Echo!vars
<1> QED
  BY <1>4, <1>5, <1>6 DEF Inv

(* It is enough to look at the connection of the current client. *)
LEMMA OneCarried ==
  ASSUME Inv, client_sock \in Conns, UNCHANGED client_sock, Others(client_sock),
         Conserved(client_sock, tcp'[client_sock], message')
  PROVE  Carried'
BY DEF Inv, Carried, Held, Others

(* The server's read(): bytes, the end of the stream, or a failure *)
LEMMA ReadStep ==
  ASSUME Inv, [Next]_<<vars, clientVars>>, Reads
  PROVE  Inv' /\ [Echo!Next]_(Echo!vars)
<1> DEFINE c == client_sock
<1>1. /\ pc = "read" /\ c \in Conns /\ message = << >> /\ UNCHANGED client_sock
      /\ Conserved(c, tcp[c], << >>)
  BY Types DEF Reads, Inv, Loop, Held
<1>2. ReadData(c) \/ ReadFails(c) \/ ReadEof(c)
  BY DEF Reads
<1>3. /\ Others(c) /\ tcp'[c].echoed = tcp[c].echoed /\ tcp'[c].sent = tcp[c].sent
      /\ ReadData(c) => Conserved(c, tcp'[c], Data(c))
      /\ ReadFails(c) \/ ReadEof(c) => Conserved(c, tcp'[c], << >>)
  BY <1>1, <1>2, Types, ReadConserves
<1>4. tcp' \in [Conns -> Connection] /\ Data(c) \in Buffer
  BY <1>1, <1>2, Types, ReadSockets, GotBounds DEF Kept, Sockets
<1>5. [Echo!Next]_(Echo!vars)
  <2>1. tcp[c].echoed = Run(c, 0, Len(tcp[c].echoed)) /\ tcp[c].sent \in Nat
    BY <1>1, Types, Lengths DEF Conserved
  <2> HIDE DEF c
  <2> QED
    BY <1>1, <1>3, <1>4, <2>1, Types, EchoStep
<1>6. CASE ReadData(c) /\ Taken /\ pc' = "write"
  <2>1. message' = Data(c) /\ Data(c) # << >>
    <3>1. tcp[c].up \in Seq(Conns \X Nat) /\ tcp[c].up # << >>
      BY <1>1, <1>6, Types, Fields DEF ReadData, Stream
    <3>2. Len(tcp[c].up) \in Nat /\ Len(tcp[c].up) # 0
      BY <3>1
    <3>3. Got(c) \in Nat /\ Got(c) # 0 /\ Got(c) <= Len(tcp[c].up)
      BY <3>2, TcpAssumption DEF Got, Smaller
    <3>4. Len(Data(c)) = Got(c)
      BY <3>1, <3>3, SubSeqProperties DEF Data
    <3>5. Len(<< >>) = 0
      OBVIOUS
    <3> QED
      BY <1>6, <3>3, <3>4, <3>5 DEF Taken
  <2>2. TypeOK'
    BY <1>1, <1>4, <1>6, <2>1, Types, ClientTypes DEF TypeOK, ServerTypeOK
  <2>3. Loop'
    BY <1>1, <1>6, <2>1 DEF Loop
  <2>4. Carried'
    BY <1>1, <1>3, <1>6, <2>1, OneCarried
  <2> QED
    BY <1>5, <2>2, <2>3, <2>4 DEF Inv
<1>7. CASE /\ ReadFails(c) \/ ReadEof(c)
           /\ pc' \in {"read", "close"} /\ UNCHANGED message
  <2>1. TypeOK'
    BY <1>1, <1>4, <1>7, Types, ClientTypes DEF TypeOK, ServerTypeOK
  <2>2. Loop'
    BY <1>1, <1>7 DEF Loop
  <2>3. Carried'
    BY <1>1, <1>3, <1>7, OneCarried
  <2> QED
    BY <1>5, <2>1, <2>2, <2>3 DEF Inv
<1> QED
  BY <1>1, <1>6, <1>7 DEF Reads

(* The server's write(), which may end it *)
LEMMA WriteStep ==
  ASSUME Inv, [Next]_<<vars, clientVars>>, Writes
  PROVE  Inv' /\ [Echo!Next]_(Echo!vars)
<1> DEFINE c == client_sock
<1>1. /\ pc = "write" /\ c \in Conns /\ UNCHANGED client_sock
      /\ Conserved(c, tcp[c], message)
      /\ tcp[c].echoed = Run(c, 0, Len(tcp[c].echoed)) /\ tcp[c].sent \in Nat
  BY Types, Lengths DEF Writes, Inv, Loop, Held, Conserved
<1>2. CASE (WriteAll(c, message) \/ WriteFails(c)) /\ ReadsOn
  <2>1. WriteTakes(c, message, Len(message)) \/ WriteFails(c)
    BY <1>2 DEF WriteAll
  <2>2. /\ Conserved(c, tcp'[c], << >>) /\ Others(c) /\ tcp'[c].sent = tcp[c].sent
        /\ \/ tcp'[c].echoed = tcp[c].echoed
           \/ /\ tcp'[c].echoed = Run(c, 0, Len(tcp[c].echoed) + Len(message))
              /\ Len(tcp[c].echoed) + Len(message) \in 0..tcp[c].sent
    BY <1>1, <2>1, Types, WriteConserves
  <2>3. tcp' \in [Conns -> Connection] /\ << >> \in Buffer
    <3>1. Kept
      BY <1>1, <1>2, Types, WriteSockets
    <3> QED
      BY <3>1, TcpAssumption DEF Kept, Sockets, Buffer, Stream
  <2>4. TypeOK'
    BY <1>1, <1>2, <2>3, Types, ClientTypes DEF TypeOK, ServerTypeOK, ReadsOn
  <2>5. Loop'
    BY <1>1, <1>2 DEF Loop, ReadsOn
  <2>6. Carried'
    BY <1>1, <1>2, <2>2, OneCarried DEF ReadsOn
  <2>7. [Echo!Next]_(Echo!vars)
    <3>1. Len(tcp[c].echoed) \in Nat /\ Len(message) \in Nat
      BY <1>1, Types, Lengths DEF Stream
    <3>2. \/ tcp'[c].echoed = tcp[c].echoed
          \/ \E n \in Len(tcp[c].echoed)..tcp[c].sent : tcp'[c].echoed = Run(c, 0, n)
      BY <2>2, <3>1, <1>1
    <3> HIDE DEF c
    <3> QED
      BY <1>1, <2>2, <2>3, <3>2, Types, EchoStep
  <2> QED
    BY <2>4, <2>5, <2>6, <2>7 DEF Inv
<1>3. CASE WriteKills(c) /\ pc' = "killed" /\ UNCHANGED message
  <2>1. UNCHANGED tcp
    BY <1>3 DEF WriteKills
  <2>2. TypeOK'
    BY <1>1, <1>3, <2>1, Types, ClientTypes DEF TypeOK, ServerTypeOK
  <2>3. Loop'
    BY <1>1, <1>3 DEF Loop
  <2>4. Carried'
    BY <1>1, <1>3, <2>1 DEF Inv, Carried, Held
  <2> QED
    BY <2>1, <2>2, <2>3, <2>4, EchoStutter DEF Inv
<1> QED
  BY <1>2, <1>3 DEF Writes

(* Every step of the server and of the clients *)
LEMMA StepInv ==
  ASSUME Inv, [Next]_<<vars, clientVars>>
  PROVE  Inv' /\ [Echo!Next]_(Echo!vars)
<1>1. CASE UNCHANGED <<vars, clientVars>>
  <2>1. UNCHANGED Echo!vars
    BY <1>1, EchoStutter DEF vars
  <2> QED
    BY <1>1, <2>1 DEF vars, Inv, TypeOK, ServerTypeOK, Loop, Carried, Held
<1>2. CASE Closes
  <2>1. UNCHANGED <<tcp, client_sock, message>> /\ pc = "close" /\ pc' = "accept"
    BY <1>2 DEF Closes, AcceptNext
  <2>2. TypeOK'
    BY <2>1, Types, ClientTypes DEF TypeOK, ServerTypeOK
  <2>3. Loop' /\ Carried'
    BY <2>1 DEF Inv, Loop, Carried, Held
  <2>4. UNCHANGED Echo!vars
    BY <2>1, EchoStutter
  <2> QED
    BY <2>2, <2>3, <2>4 DEF Inv
<1>3. CASE ServerStep
  BY <1>2, <1>3, AcceptStep, ReadStep, WriteStep DEF ServerStep
<1>7. ASSUME UNCHANGED <<tcp, serverVars>> PROVE Inv' /\ [Echo!Next]_(Echo!vars)
  <2>1. UNCHANGED <<tcp, pc, client_sock, message>>
    BY <1>7 DEF serverVars
  <2>2. TypeOK'
    BY <2>1, Types, ClientTypes DEF TypeOK, ServerTypeOK
  <2>3. Loop' /\ Carried'
    BY <2>1 DEF Inv, Loop, Carried, Held
  <2>4. UNCHANGED Echo!vars
    BY <2>1, EchoStutter
  <2> QED
    BY <2>2, <2>3, <2>4 DEF Inv
<1>4. CASE \E c \in Users : ClientStep(c)
  BY <1>4, <1>7, UserIsAClient, OutsideStep
<1>5. CASE \E c \in Conns \ Users : Outside(c) /\ UNCHANGED <<serverVars, clientVars>>
  BY <1>5, OutsideStep
<1>6. CASE \E c \in Users : ResetArrives(c) /\ UNCHANGED <<serverVars, clientVars>>
  BY <1>6, OutsideStep, UsersAssumption DEF Outside
<1> QED
  BY <1>1, <1>3, <1>4, <1>5, <1>6 DEF Next

(* The invariant holds always. *)
LEMMA Invariance == Spec => []Inv
<1>1. Inv /\ [Next]_<<vars, clientVars>> => Inv'
  BY StepInv
<1> QED
  BY <1>1, InitInv, PTL DEF Spec

(* Every client of the iterative server gets back the first bytes it sent, *)
(* in order, whatever the clients before it did and wherever they stopped. *)
THEOREM ImplementsEcho == Spec => RefinesEcho
<1>1. Init => Echo!Init
  BY EchoInit DEF Init, ServerInit
<1>2. Inv /\ [Next]_<<vars, clientVars>> => [Echo!Next]_(Echo!vars)
  BY StepInv
<1> QED
  BY <1>1, <1>2, Invariance, PTL DEF Spec, RefinesEcho, Echo!Spec
-----------------------------------------------------------------------------
(* A user who has heard every answer whole has at most one question open,  *)
(* all of it in one place: unread by the server, in message, or echoed and *)
(* not heard; and quits only when there is none.                           *)
Prompt(c) ==
  /\ tcp[c].marks \in {{}, {"closed", "fin"}}
  /\ IF cpc[c] = "read"
     THEN /\ tcp[c].marks = {}
          /\ Len(tcp[c].up) + Len(Held(c)) + tcp[c].unread < BUFFSIZE
          /\ tcp[c].unread > 0 => tcp[c].up = << >> /\ Held(c) = << >>
          /\ Held(c) # << >> => tcp[c].up = << >>
     ELSE tcp[c].up = << >> /\ Held(c) = << >> /\ tcp[c].unread = 0

AllPrompt == \A c \in Users \ behind : Prompt(c)

(* A server that is gone leaves its clients' questions where they are. *)
Answered == (pc # "killed" => AllPrompt) /\ KilledByOthers

(* Nothing is asked at first. *)
LEMMA AnsweredInit == Init => Answered
BY UsersAssumption
DEF Init, ServerInit, TcpInit, Fresh, Answered, AllPrompt, Prompt, Held, KilledByOthers

(* The numbers of connection c. *)
LEMMA Numbers ==
  ASSUME Inv, NEW c \in Conns
  PROVE  /\ Len(tcp[c].up) \in Nat /\ Len(Held(c)) \in Nat /\ tcp[c].unread \in Nat
         /\ tcp[c].up \in Stream
         /\ Len(<< >>) = 0 /\ BUFFSIZE \in Nat \ {0}
         /\ Len(tcp[c].up) = 0 => tcp[c].up = << >>
BY Types, Lengths, Fields, TcpAssumption DEF Stream

(* A user another connection's step is not about *)
LEMMA PromptFrame ==
  ASSUME NEW u \in Users, Prompt(u), tcp'[u] = tcp[u],
         cpc'[u] = cpc[u], Held(u)' = Held(u)
  PROVE  Prompt(u)'
BY DEF Prompt

(* The server reads a question: it is now in message. *)
LEMMA PromptReads ==
  ASSUME Inv, Inv', Reads, UNCHANGED clientVars,
         NEW u \in Users, Prompt(u)
  PROVE  Prompt(u)'
<1> DEFINE c == client_sock
<1>0. /\ u \in Conns /\ c \in Conns /\ message = << >> /\ pc = "read" /\ client_sock' = c
      /\ Held(u) = << >> /\ Sockets /\ Conserved(c, tcp[c], << >>)
  BY Types, UsersAssumption DEF Reads, Inv, Loop, Held
<1>1. Others(c)
  BY <1>0, ReadConserves DEF Reads
<1>2. CASE u # c
  BY <1>0, <1>1, <1>2, PromptFrame DEF Others, Held
<1>3. CASE u = c /\ ReadEof(c) /\ UNCHANGED message
  BY <1>0, <1>3, PromptFrame DEF ReadEof, Held
<1>4. CASE u = c /\ ReadFails(c)
  BY <1>4 DEF ReadFails, Is, Prompt
<1>5. CASE u = c /\ ReadData(c) /\ Taken
  <2>1. tcp[c].up # << >> /\ cpc[c] = "read"
    BY <1>5 DEF ReadData, Prompt
  <2>2. /\ tcp[c].marks = {} /\ Len(tcp[c].up) < BUFFSIZE /\ tcp[c].unread = 0
    BY <1>0, <1>5, <2>1, Numbers DEF Prompt
  <2>3. Got(c) = Len(tcp[c].up)
    BY <1>0, <2>2, Numbers DEF Got, Smaller
  <2>4. /\ SubSeq(tcp[c].up, Got(c) + 1, Len(tcp[c].up)) = << >>
        /\ Len(Data(c)) = Len(tcp[c].up)
    <3>1. tcp[c].up \in Seq(Conns \X Nat)
      BY <1>0, Numbers DEF Stream
    <3> QED
      BY <2>3, <3>1 DEF Data
  <2>5. /\ tcp'[c].up = << >> /\ tcp'[c].marks = {} /\ tcp'[c].unread = 0
    BY <1>0, <1>5, <2>2, <2>4 DEF ReadData, Sockets, Connection
  <2>6. Held(u)' = Data(c) /\ Len(Held(u)') < BUFFSIZE /\ Len(Held(u)') \in Nat
    BY <1>0, <1>5, <2>2, <2>4, Numbers DEF Held, Taken
  <2>7. cpc'[u] = "read"
    BY <1>5, <2>1
  <2> QED
    BY <1>0, <1>5, <2>5, <2>6, <2>7, Numbers DEF Prompt
<1> QED
  BY <1>2, <1>3, <1>4, <1>5 DEF Reads

(* The server writes message: the answer is whole. *)
LEMMA PromptWrites ==
  ASSUME Inv, Inv', Writes, UNCHANGED clientVars,
         NEW u \in Users, Prompt(u)
  PROVE  Prompt(u)' /\ (pc' = "killed" => client_sock # u)
<1> DEFINE c == client_sock
<1>0. /\ u \in Conns /\ c \in Conns /\ message # << >> /\ pc = "write" /\ client_sock' = c
      /\ message \in Stream /\ Sockets /\ Conserved(c, tcp[c], message)
  BY Types, UsersAssumption DEF Writes, Inv, Loop, Held
<1>1. Others(c)
  <2>1. CASE WriteKills(c)
    BY <2>1 DEF WriteKills, Others
  <2>2. CASE WriteAll(c, message) \/ WriteFails(c)
    BY <1>0, <2>2, WriteConserves DEF WriteAll
  <2> QED
    BY <2>1, <2>2 DEF Writes
<1>2. CASE u # c
  BY <1>0, <1>1, <1>2, PromptFrame DEF Others, Held
<1>3. CASE u = c
  <2>1. /\ cpc[c] = "read" /\ tcp[c].marks = {} /\ tcp[c].up = << >>
        /\ Held(c) = message /\ tcp[c].unread = 0
        /\ Len(message) < BUFFSIZE /\ Len(message) \in Nat
    BY <1>0, <1>3, Numbers DEF Prompt, Held
  <2>2. WriteAll(c, message) /\ ReadsOn
    BY <1>3, <2>1 DEF Writes, WriteFails, WriteKills, Is
  <2>3. /\ tcp'[c].up = << >> /\ tcp'[c].marks = {} /\ tcp'[c].unread = Len(message)
    BY <1>0, <2>1, <2>2 DEF WriteAll, WriteTakes, Closed, Is, Sockets, Connection
  <2>4. Held(u)' = << >> /\ cpc'[u] = "read" /\ pc' = "read"
    BY <1>0, <1>3, <2>1, <2>2 DEF ReadsOn, Held
  <2> QED
    BY <1>0, <1>3, <2>1, <2>3, <2>4, Numbers DEF Prompt
<1> QED
  BY <1>2, <1>3

(* The other steps of the server concern no user's question. *)
LEMMA PromptServer ==
  ASSUME Inv, Inv', AllPrompt, ServerStep, UNCHANGED clientVars
  PROVE  Answered'
<1>1. CASE Reads
  <2>1. \A u \in Users \ behind : Prompt(u)'
    BY <1>1, PromptReads DEF AllPrompt
  <2>2. pc' # "killed"
    BY <1>1 DEF Reads
  <2> QED
    BY <2>1, <2>2 DEF Answered, AllPrompt, KilledByOthers
<1>2. CASE Writes
  <2>1. \A u \in Users \ behind : Prompt(u)' /\ (pc' = "killed" => client_sock # u)
    BY <1>2, PromptWrites DEF AllPrompt
  <2>2. UNCHANGED client_sock
    BY <1>2 DEF Writes
  <2> QED
    BY <2>1, <2>2 DEF Answered, AllPrompt, KilledByOthers
<1>3. ASSUME NEW c \in Conns, AcceptClient(c) PROVE Answered'
  <2>1. Accept(c) /\ message = << >> /\ message' = << >> /\ pc' = "read"
    BY <1>3 DEF AcceptClient, Inv, Loop
  <2>2. \A u \in Users : u \in Conns /\ Held(u) = << >> /\ Held(u)' = << >>
    BY <2>1, UsersAssumption DEF Held
  <2>3. \A d \in Conns : /\ tcp'[d].up = tcp[d].up /\ tcp'[d].marks = tcp[d].marks
                         /\ tcp'[d].unread = tcp[d].unread
    BY <2>1, Types DEF Accept, Sockets, Connection
  <2> QED
    BY <2>1, <2>2, <2>3 DEF Answered, AllPrompt, Prompt, KilledByOthers
<1>4. CASE Closes
  <2>1. UNCHANGED <<tcp, client_sock, message>> /\ pc' = "accept"
    BY <1>4 DEF Closes, AcceptNext
  <2> QED
    BY <2>1, PromptFrame DEF Answered, AllPrompt, Held, KilledByOthers
<1> QED
  BY <1>1, <1>2, <1>3, <1>4 DEF ServerStep

(* A user's own steps; the answer heard is a whole one. *)
LEMMA PromptUser ==
  ASSUME Inv, Inv', NEW u \in Users, Prompt(u), ClientStep(u), u \notin behind'
  PROVE  pc = "killed" \/ Prompt(u)'
<1>0. /\ u \in Conns /\ Sockets /\ UNCHANGED serverVars
      /\ cpc \in [Users -> UserPlaces]
      /\ Held(u)' = Held(u) /\ tcp[u].sent \in Nat
  BY Types, UsersAssumption, Lengths DEF ClientStep, Held
<1>1. CASE Connects(u)
  BY <1>0, <1>1 DEF Connects, Connect, Goto, Prompt, Sockets, Connection
<1>5. CASE AsksNothing(u)
  <2>1. /\ cpc[u] = "input" /\ cpc'[u] = "read" /\ tcp' = tcp
        /\ tcp[u].up = << >> /\ Held(u) = << >> /\ tcp[u].unread = 0
    BY <1>0, <1>5 DEF AsksNothing, ThenReads, Goto, Prompt
  <2>2. tcp[u].marks = {}
    BY <1>5 DEF AsksNothing, Open, Closed, Is, Prompt
  <2> QED
    BY <1>0, <2>1, <2>2, Numbers DEF Prompt
<1>6. CASE CutOff(u)
  BY <1>6 DEF CutOff
<1>2. CASE Asks(u)
  <2>1. PICK n \in 1..MaxBytes - tcp[u].sent :
          tcp' = [tcp EXCEPT
                  ![u].sent = @ + n,
                  ![u].up = @ \o [i \in 1..n |-> <<u, tcp[u].sent + i>>]]
    BY <1>2 DEF Asks, Send
  <2>2. n \in Nat /\ n < BUFFSIZE
    <3>1. n \in Nat /\ tcp'[u].sent = tcp[u].sent + n
      BY <1>0, <2>1, TcpAssumption DEF Sockets, Connection
    <3> QED
      BY <1>0, <1>2, <3>1, TcpAssumption DEF Asks, Word
  <2>3. /\ cpc[u] = "input" /\ cpc'[u] = "read"
        /\ tcp[u].up = << >> /\ Held(u) = << >> /\ tcp[u].unread = 0
    BY <1>0, <1>2 DEF Asks, ThenReads, Goto, Prompt
  <2>4. tcp[u].marks = {}
    BY <1>0, <1>2 DEF Asks, Send, Open, Closed, Is, Prompt
  <2>5. /\ tcp'[u].unread = 0 /\ tcp'[u].marks = tcp[u].marks
        /\ tcp'[u].up = tcp[u].up \o [i \in 1..n |-> <<u, tcp[u].sent + i>>]
    BY <1>0, <2>1, <2>3 DEF Sockets, Connection
  <2>6. Len(tcp'[u].up) = n
    <3>1. [i \in 1..n |-> <<u, tcp[u].sent + i>>] \in Seq(Conns \X Nat)
      BY <1>0, <2>2, IsASeq
    <3> QED
      BY <2>2, <2>3, <2>5, <3>1
  <2> QED
    BY <1>0, <2>2, <2>3, <2>4, <2>5, <2>6, Numbers DEF Prompt
<1>3. CASE Hears(u)
  <2>1. PICK n \in 1..tcp[u].unread : tcp' = [tcp EXCEPT ![u].unread = @ - n]
    BY <1>3 DEF Hears, Receive
  <2>2. /\ tcp'[u].marks = tcp[u].marks /\ tcp'[u].up = tcp[u].up
    BY <1>0, <2>1 DEF Sockets, Connection
  <2>3. tcp'[u].unread = 0
    BY <1>3 DEF Hears
  <2>4. tcp[u].unread > 0 /\ cpc[u] = "read" /\ cpc'[u] = "input"
    BY <1>0, <1>3, <2>1, Numbers DEF Hears, Goto
  <2> QED
    BY <1>0, <2>2, <2>3, <2>4 DEF Prompt
<1>4. CASE Quits(u)
  <2>1. /\ cpc[u] = "input" /\ cpc'[u] = "gone"
        /\ tcp[u].up = << >> /\ Held(u) = << >> /\ tcp[u].unread = 0
    BY <1>0, <1>4 DEF Quits, Goto, Prompt
  <2>2. /\ tcp'[u].marks = tcp[u].marks \cup {"closed", "fin"}
        /\ tcp'[u].up = tcp[u].up /\ tcp'[u].unread = 0
    BY <1>0, <1>4, <2>1 DEF Quits, Close, Sockets, Connection
  <2> QED
    BY <1>0, <2>1, <2>2 DEF Prompt
<1> QED
  BY <1>1, <1>2, <1>3, <1>4, <1>5, <1>6 DEF ClientStep

(* The clients' steps: a user asks only when all was answered. *)
LEMMA PromptOthers ==
  ASSUME Inv, NEW c \in Conns, Outside(c) \/ UNCHANGED tcp, UNCHANGED serverVars,
         NEW u \in Users, u # c, cpc'[u] = cpc[u], Prompt(u)
  PROVE  Prompt(u)'
<1>1. Others(c) /\ u \in Conns
  BY Types, OutsideConserves, UsersAssumption DEF Others
<1> QED
  BY <1>1, PromptFrame DEF Others, Held

(* So no step leaves a user with a half answer, *)
LEMMA PromptStep ==
  ASSUME Inv, Inv', AllPrompt, KilledByOthers, pc # "killed", [Next]_<<vars, clientVars>>
  PROVE  Answered'
<1>1. CASE UNCHANGED <<vars, clientVars>>
  BY <1>1 DEF vars, serverVars, clientVars, Answered, AllPrompt, Prompt, Held, KilledByOthers
<1>2. CASE ServerStep /\ UNCHANGED clientVars
  BY <1>2, PromptServer
<1>3. ASSUME NEW c \in Users, ClientStep(c) PROVE Answered'
  <2>1. c \in Conns /\ (Outside(c) \/ UNCHANGED tcp) /\ UNCHANGED serverVars
    BY <1>3, UserIsAClient
  <2>2. behind \subseteq behind' /\ \A u \in Users \ {c} : cpc'[u] = cpc[u]
    BY <1>3, Types
    DEF ClientStep, Connects, Asks, AsksNothing, Hears, CutOff, Quits, Goto, ThenReads
  <2>3. \A u \in Users \ behind' : Prompt(u)'
    BY <1>3, <2>1, <2>2, PromptUser, PromptOthers DEF AllPrompt
  <2> QED
    BY <2>1, <2>3 DEF Answered, AllPrompt, KilledByOthers, serverVars
<1>4. ASSUME NEW c \in Conns \ Users, Outside(c), UNCHANGED <<serverVars, clientVars>>
      PROVE  Answered'
  BY <1>4, PromptOthers DEF Answered, AllPrompt, KilledByOthers, serverVars, clientVars
<1>5. ASSUME NEW c \in Users, ResetArrives(c), UNCHANGED <<serverVars, clientVars>>
      PROVE  Answered'
  <2>1. c \in Conns /\ Outside(c)
    BY <1>5, UsersAssumption DEF Outside
  <2>2. c \in behind
    BY <1>5 DEF ResetArrives, Is, AllPrompt, Prompt
  <2> QED
    BY <1>5, <2>1, <2>2, PromptOthers
    DEF Answered, AllPrompt, KilledByOthers, serverVars, clientVars
<1> QED
  BY <1>1, <1>2, <1>3, <1>4, <1>5 DEF Next

(* and none brings back a server that is gone. *)
LEMMA AnsweredStep ==
  ASSUME Inv, Inv', Answered, [Next]_<<vars, clientVars>>
  PROVE  Answered'
<1>1. CASE pc # "killed"
  BY <1>1, PromptStep DEF Answered
<1>2. CASE pc = "killed"
  <2>1. ~ServerStep
    BY <1>2 DEF ServerStep, AcceptClient, Reads, Writes, Closes
  <2>2. UNCHANGED serverVars /\ behind \subseteq behind'
    BY <2>1 DEF Next, ClientStep, Connects, Asks, AsksNothing, Hears, CutOff, Quits,
                vars, serverVars, clientVars
  <2> QED
    BY <1>2, <2>2 DEF Answered, KilledByOthers, serverVars
<1> QED
  BY <1>1, <1>2

(* Both invariants hold always. *)
LEMMA AlwaysAnswered == Spec => [](Inv /\ Answered)
<1>1. Inv /\ Inv' /\ Answered /\ [Next]_<<vars, clientVars>> => Answered'
  BY AnsweredStep
<1> QED
  BY <1>1, AnsweredInit, Invariance, PTL DEF Spec

(* However long the dialogue and however the servers' other clients        *)
(* behave, what a user who hears whole answers is about to see printed by  *)
(* the server is terminated.                                               *)
THEOREM PrintsTerminated == Spec => []MessageTerminated
<1>1. Inv /\ Answered => MessageTerminated
  <2> SUFFICES ASSUME Inv, Answered, client_sock \in Users \ behind
               PROVE  Len(message) < BUFFSIZE
    BY DEF MessageTerminated, Inv
  <2>1. client_sock \in Conns /\ Held(client_sock) = message /\ Prompt(client_sock)
    BY UsersAssumption DEF Held, Answered, AllPrompt, KilledByOthers
  <2> QED
    BY <2>1, Numbers DEF Prompt
<1> QED
  BY <1>1, AlwaysAnswered, PTL

(* No user who hears whole answers ever gets the server killed. *)
THEOREM UsersDoNotKill == Spec => []KilledByOthers
<1>1. Answered => KilledByOthers
  BY DEF Answered
<1> QED
  BY <1>1, AlwaysAnswered, PTL
-----------------------------------------------------------------------------
(* The libevent server: what is in a stream of bytes. *)

(* Of the numbers behind m up to k, none from a zero on is in s. *)
Missing(c, s, m, k) ==
  \E z \in m + 1..k : /\ <<c, z>> \in Nuls /\ k < z + BUFFSIZE
                     /\ \A i \in 1..Len(s), l \in z..k : s[i] # <<c, l>>

(* The bytes of s that are of no prefix are those of connection c behind   *)
(* the m-th, up to the n-th, in order, but for those that a zero has cut   *)
(* off: Holds, one byte at a time.                                         *)
Carries(c, s, m, n) ==
  /\ \A i \in 1..Len(s) : s[i][2] = 0 \/ \E k \in m + 1..n : s[i] = <<c, k>>
  /\ \A k \in m + 1..n : (\E i \in 1..Len(s) : s[i] = <<c, k>>) \/ Missing(c, s, m, k)
  /\ \A i, j \in 1..Len(s) : i < j /\ s[i][2] # 0 /\ s[j][2] # 0 => s[i][2] < s[j][2]

(* It is what NothingElseLost says of the bytes. *)
LEMMA CarriesIsHolds ==
  ASSUME NEW c \in Conns, NEW s, NEW n \in Nat, Carries(c, s, 0, n)
  PROVE  Holds(c, s, n)
<1> DEFINE own == Own(s)
<1>1. own = {i \in 1..Len(s) : s[i][2] # 0}
  BY DEF Own
<1> HIDE DEF own
<1>2. ASSUME NEW i \in own PROVE \E k \in 1..n : s[i] = <<c, k>>
  BY <1>1 DEF Carries
<1>3. \A i \in own : s[i] \in {c} \X (1..n)
  BY <1>2
<1>4. \A i, j \in own : i < j => s[i][2] < s[j][2]
  BY <1>1 DEF Carries
<1>5. ASSUME NEW k \in 1..n
      PROVE  (\E i \in own : s[i][2] = k) \/ Skipped(c, s, k)
  <2>1. CASE \E i \in 1..Len(s) : s[i] = <<c, k>>
    <3>1. PICK i \in 1..Len(s) : s[i] = <<c, k>>
      BY <2>1
    <3>2. s[i][2] = k /\ k # 0
      BY <3>1
    <3> QED
      BY <1>1, <3>2
  <2>2. CASE Missing(c, s, 0, k)
    <3>0. 0 + 1 = 1
      OBVIOUS
    <3>1. PICK z \in 1..k : /\ <<c, z>> \in Nuls /\ k < z + BUFFSIZE
                           /\ \A i \in 1..Len(s), l \in z..k : s[i] # <<c, l>>
      BY <2>2, <3>0, Zenon DEF Missing
    <3>2. ASSUME NEW i \in own PROVE s[i][2] \notin z..k
      <4>1. i \in 1..Len(s)
        BY <1>1
      <4>2. PICK l \in 1..n : s[i] = <<c, l>>
        BY <1>2
      <4>3. s[i][2] = l
        BY <4>2
      <4> QED
        BY <3>1, <4>1, <4>2, <4>3
    <3> QED
      BY <3>1, <3>2 DEF Skipped, own
  <2>3. k \in 0 + 1..n
    OBVIOUS
  <2> QED
    BY <2>1, <2>2, <2>3, Zenon DEF Carries
<1> QED
  BY <1>3, <1>4, <1>5 DEF Holds, own

(* The bytes of two streams that meet, *)
LEMMA CarriesJoin ==
  ASSUME NEW c \in Conns, NEW s \in Stream, NEW t \in Stream,
         NEW m \in Nat, NEW n \in Nat, NEW p \in Nat, m <= n, n <= p,
         Carries(c, s, m, n), Carries(c, t, n, p)
  PROVE  Carries(c, s \o t, m, p)
<1> DEFINE u == s \o t
<1>1. /\ Len(s) \in Nat /\ Len(t) \in Nat /\ Len(u) = Len(s) + Len(t)
      /\ \A i \in 1..Len(s) + Len(t) : u[i] = IF i <= Len(s) THEN s[i] ELSE t[i - Len(s)]
  BY ConcatProperties DEF Stream
<1> HIDE DEF u
<1>2. ASSUME NEW i \in 1..Len(u)
      PROVE  \/ /\ i \in 1..Len(s) /\ u[i] = s[i]
             \/ /\ i - Len(s) \in 1..Len(t) /\ i > Len(s) /\ u[i] = t[i - Len(s)]
  <2>1. CASE i <= Len(s)
    BY <1>1, <2>1
  <2>2. CASE i > Len(s)
    BY <1>1, <2>2
  <2> QED
    BY <1>1, <2>1, <2>2
<1>3. ASSUME NEW i \in 1..Len(u), u[i][2] # 0 PROVE \E k \in m + 1..p : u[i] = <<c, k>>
  <2>1. CASE i \in 1..Len(s) /\ u[i] = s[i]
    <3>1. PICK k \in m + 1..n : u[i] = <<c, k>>
      BY <1>3, <2>1 DEF Carries
    <3>2. k \in m + 1..p
      OBVIOUS
    <3> QED
      BY <3>1, <3>2
  <2>2. CASE i - Len(s) \in 1..Len(t) /\ u[i] = t[i - Len(s)]
    <3>1. PICK k \in n + 1..p : u[i] = <<c, k>>
      BY <1>3, <2>2 DEF Carries
    <3>2. k \in m + 1..p
      OBVIOUS
    <3> QED
      BY <3>1, <3>2
  <2> QED
    BY <1>2, <2>1, <2>2
<1>4. ASSUME NEW k \in m + 1..p
      PROVE  (\E i \in 1..Len(u) : u[i] = <<c, k>>) \/ Missing(c, u, m, k)
  <2>1. CASE k <= n
    <3>0. k \in m + 1..n
      BY <2>1
    <3>1. CASE \E i \in 1..Len(s) : s[i] = <<c, k>>
      <4>1. PICK i \in 1..Len(s) : s[i] = <<c, k>>
        BY <3>1
      <4>2. i \in 1..Len(u) /\ u[i] = s[i]
        BY <1>1
      <4> QED
        BY <4>1, <4>2
    <3>2. CASE Missing(c, s, m, k)
      <4>1. PICK z \in m + 1..k : /\ <<c, z>> \in Nuls /\ k < z + BUFFSIZE
                                 /\ \A i \in 1..Len(s), l \in z..k : s[i] # <<c, l>>
        BY <3>2 DEF Missing
      <4>2. ASSUME NEW i \in 1..Len(u), NEW l \in z..k, u[i] = <<c, l>> PROVE FALSE
        <5>1. l <= n /\ l # 0 /\ u[i][2] = l
          BY <2>1, <4>2
        <5>2. i - Len(s) \in 1..Len(t) /\ u[i] = t[i - Len(s)]
          BY <1>2, <4>1, <4>2
        <5>3. PICK h \in n + 1..p : t[i - Len(s)] = <<c, h>>
          BY <5>1, <5>2 DEF Carries
        <5>4. u[i][2] = h
          BY <5>2, <5>3
        <5> QED
          BY <5>1, <5>4
      <4> QED
        BY <4>1, <4>2 DEF Missing
    <3> QED
      BY <3>0, <3>1, <3>2 DEF Carries
  <2>2. CASE k > n
    <3>0. k \in n + 1..p
      BY <2>2
    <3>1. CASE \E i \in 1..Len(t) : t[i] = <<c, k>>
      <4>1. PICK i \in 1..Len(t) : t[i] = <<c, k>>
        BY <3>1
      <4>2. Len(s) + i \in 1..Len(u) /\ u[Len(s) + i] = t[i]
        BY <1>1
      <4> QED
        BY <4>1, <4>2
    <3>2. CASE Missing(c, t, n, k)
      <4>1. PICK z \in n + 1..k : /\ <<c, z>> \in Nuls /\ k < z + BUFFSIZE
                                 /\ \A i \in 1..Len(t), l \in z..k : t[i] # <<c, l>>
        BY <3>2 DEF Missing
      <4>2. ASSUME NEW i \in 1..Len(u), NEW l \in z..k, u[i] = <<c, l>> PROVE FALSE
        <5>1. l > n /\ u[i][2] = l
          BY <4>2
        <5>2. i \in 1..Len(s) /\ u[i] = s[i]
          BY <1>2, <4>1, <4>2
        <5>3. PICK h \in m + 1..n : s[i] = <<c, h>>
          BY <5>1, <5>2 DEF Carries
        <5>4. u[i][2] = h
          BY <5>2, <5>3
        <5> QED
          BY <5>1, <5>4
      <4>3. z \in m + 1..k
        OBVIOUS
      <4> QED
        BY <4>1, <4>2, <4>3 DEF Missing
    <3> QED
      BY <3>0, <3>1, <3>2 DEF Carries
  <2> QED
    BY <2>1, <2>2
<1>5. ASSUME NEW i \in 1..Len(u), NEW j \in 1..Len(u), i < j, u[i][2] # 0, u[j][2] # 0
      PROVE  u[i][2] < u[j][2]
  <2>1. CASE i \in 1..Len(s) /\ u[i] = s[i] /\ j \in 1..Len(s) /\ u[j] = s[j]
    BY <1>5, <2>1 DEF Carries
  <2>2. CASE /\ i - Len(s) \in 1..Len(t) /\ u[i] = t[i - Len(s)]
             /\ j - Len(s) \in 1..Len(t) /\ u[j] = t[j - Len(s)]
    <3>1. i - Len(s) < j - Len(s)
      BY <1>1, <1>5
    <3> QED
      BY <1>5, <2>2, <3>1 DEF Carries
  <2>3. CASE i \in 1..Len(s) /\ u[i] = s[i] /\ j - Len(s) \in 1..Len(t) /\ u[j] = t[j - Len(s)]
    <3>1. PICK k \in m + 1..n : u[i] = <<c, k>>
      BY <1>5, <2>3 DEF Carries
    <3>2. PICK l \in n + 1..p : u[j] = <<c, l>>
      BY <1>5, <2>3 DEF Carries
    <3>3. u[i][2] = k /\ u[j][2] = l /\ k < l
      BY <3>1, <3>2
    <3> QED
      BY <3>3
  <2> QED
    BY <1>1, <1>2, <1>5, <2>1, <2>2, <2>3
<1> QED
  BY <1>3, <1>4, <1>5 DEF Carries, u

(* those of a run, *)
LEMMA CarriesRun ==
  ASSUME NEW c \in Conns, NEW m \in Nat, NEW n \in Nat, m <= n
  PROVE  Carries(c, Run(c, m, n), m, n)
<1> DEFINE s == Run(c, m, n)
<1>1. Len(s) = n - m
  BY RunType
<1>2. \A i \in 1..n - m : s[i] = <<c, m + i>>
  BY DEF Run
<1>3. \A i \in 1..n - m : m + i \in m + 1..n
  OBVIOUS
<1>4. \A k \in m + 1..n : k - m \in 1..n - m /\ m + (k - m) = k
  OBVIOUS
<1> HIDE DEF s
<1>5. \A k \in m + 1..n : s[k - m] = <<c, k>>
  BY <1>2, <1>4
<1>6. ASSUME NEW i \in 1..n - m, NEW j \in 1..n - m, i < j PROVE s[i][2] < s[j][2]
  <2>1. s[i] = <<c, m + i>> /\ s[j] = <<c, m + j>>
    BY <1>2, Zenon
  <2>2. s[i][2] = m + i /\ s[j][2] = m + j
    BY <2>1
  <2> QED
    BY <2>2, <1>6
<1>7. \A k \in m + 1..n : \E i \in 1..Len(s) : s[i] = <<c, k>>
  BY <1>1, <1>4, <1>5
<1>8. \A i \in 1..Len(s) : \E k \in m + 1..n : s[i] = <<c, k>>
  BY <1>1, <1>2, <1>3
<1> QED
  BY <1>1, <1>6, <1>7, <1>8 DEF Carries, s

(* those of a prefix, *)
LEMMA CarriesNone ==
  ASSUME NEW c \in Conns, NEW len \in Nat, NEW m \in Nat
  PROVE  LET s == [i \in 1..len |-> <<c, 0>>]
         IN  s \in Stream /\ Len(s) = len /\ Carries(c, s, m, m)
<1> DEFINE s == [i \in 1..len |-> <<c, 0>>]
<1>1. s \in Stream /\ Len(s) = len
  <2>1. \A i \in 1..len : <<c, 0>> \in Conns \X Nat
    OBVIOUS
  <2> QED
    BY <2>1, IsASeq DEF Stream
<1>2. \A i \in 1..len : s[i][2] = 0
  OBVIOUS
<1> HIDE DEF s
<1>3. Carries(c, s, m, m)
  BY <1>1, <1>2 DEF Carries
<1> QED
  BY <1>1, <1>3 DEF s

(* Every set of numbers has a least one. *)
LEMMA LeastNumber ==
  ASSUME NEW S, S \subseteq Nat, S # {}
  PROVE  \E n \in S : \A m \in S : n <= m
<1> DEFINE R == OpToRel(<, Nat)
<1>1. IsWellFoundedOn(R, Nat)
  BY NatLessThanWellFounded
<1> HIDE DEF R
<1>2. PICK n \in S : \A m \in S : ~(<<m, n>> \in R)
  BY <1>1, WFMin
<1>3. \A m \in S : ~(m < n)
  BY <1>2 DEF R, OpToRel
<1> QED
  BY <1>2, <1>3

(* and those of two parts. *)
LEMMA CarriesCut ==
  ASSUME NEW c \in Conns, NEW s \in Stream, NEW m \in Nat, NEW n \in Nat, m <= n,
         Carries(c, s, m, n), NEW k \in 0..Len(s)
  PROVE  \E x \in m..n : /\ Carries(c, SubSeq(s, 1, k), m, x)
                         /\ Carries(c, SubSeq(s, k + 1, Len(s)), x, n)
<1> DEFINE t == SubSeq(s, 1, k)
           u == SubSeq(s, k + 1, Len(s))
           S == {x \in m..n : \A i \in 1..k : s[i][2] <= x}
<1>0. Len(s) \in Nat /\ \A i \in 1..Len(s) : s[i][2] \in Nat
  BY DEF Stream
<1>1. /\ Len(t) = k /\ \A i \in 1..k : t[i] = s[i]
      /\ Len(u) = Len(s) - k /\ \A i \in 1..Len(s) - k : u[i] = s[k + i]
  BY <1>0, SubSeqProperties DEF Stream
<1> HIDE DEF t, u
<1>2. n \in S
  BY DEF Carries
<1>3. PICK x \in S : \A y \in S : x <= y
  <2>1. S \subseteq Nat
    OBVIOUS
  <2>2. S # {}
    BY <1>2
  <2> HIDE DEF S
  <2> QED
    BY <2>1, <2>2, LeastNumber
<1>4. x \in m..n /\ \A i \in 1..k : s[i][2] <= x
  OBVIOUS
<1>5. x = m \/ \E i \in 1..k : s[i] = <<c, x>>
  <2> SUFFICES ASSUME x # m, \A i \in 1..k : s[i] # <<c, x>> PROVE FALSE
    OBVIOUS
  <2>1. x - 1 \in m..n
    BY <1>4
  <2>2. ASSUME NEW i \in 1..k PROVE s[i][2] <= x - 1
    <3>1. i \in 1..Len(s) /\ s[i][2] <= x /\ s[i][2] \in Nat
      BY <1>0, <1>4
    <3>2. CASE s[i][2] = 0
      BY <1>4, <3>2
    <3>3. CASE s[i][2] # 0
      <4>1. PICK l \in m + 1..n : s[i] = <<c, l>>
        BY <3>1, <3>3 DEF Carries
      <4>2. s[i][2] = l /\ l # x
        BY <4>1
      <4> QED
        BY <1>4, <3>1, <4>2
    <3> QED
      BY <3>2, <3>3
  <2>3. x - 1 \in S
    BY <2>1, <2>2
  <2> QED
    BY <1>3, <1>4, <2>3
<1> HIDE DEF S
(* Whatever lies in the first part is no further than x, the rest is. *)
<1>6. ASSUME NEW i \in 1..Len(s), i > k, s[i][2] # 0
      PROVE  \E l \in x + 1..n : s[i] = <<c, l>>
  <2>1. PICK l \in m + 1..n : s[i] = <<c, l>>
    BY <1>6 DEF Carries
  <2>2. l > x
    <3>1. CASE x = m
      BY <3>1, <2>1
    <3>2. CASE x # m
      <4>1. PICK j \in 1..k : s[j] = <<c, x>>
        BY <1>5, <3>2
      <4>2. s[j][2] = x /\ x # 0 /\ s[i][2] = l /\ j < i /\ j \in 1..Len(s)
        BY <4>1, <2>1, <1>0, <1>4, <1>6, <3>2
      <4>3. s[j][2] < s[i][2]
        BY <4>2, <1>6 DEF Carries
      <4> QED
        BY <4>2, <4>3
    <3> QED
      BY <3>1, <3>2
  <2> QED
    BY <2>1, <2>2, <1>4
<1>7. Carries(c, t, m, x)
  <2>1. ASSUME NEW i \in 1..k, t[i][2] # 0 PROVE \E l \in m + 1..x : t[i] = <<c, l>>
    <3>1. t[i] = s[i] /\ i \in 1..Len(s) /\ s[i][2] <= x
      <4>1. i \in 1..Len(s)
        BY <1>0
      <4>2. t[i] = s[i]
        BY <1>1
      <4>3. s[i][2] <= x
        BY <1>4
      <4> QED
        BY <4>1, <4>2, <4>3
    <3>2. PICK l \in m + 1..n : s[i] = <<c, l>>
      BY <2>1, <3>1 DEF Carries
    <3>3. s[i][2] = l
      BY <3>2
    <3> QED
      BY <3>1, <3>2, <3>3, <1>4
  <2>2. ASSUME NEW l \in m + 1..x
        PROVE  (\E i \in 1..Len(t) : t[i] = <<c, l>>) \/ Missing(c, t, m, l)
    <3>0. l \in m + 1..n
      BY <1>4
    <3>1. ASSUME NEW i \in 1..Len(s), s[i] = <<c, l>>
          PROVE  \E j \in 1..Len(t) : t[j] = <<c, l>>
      <4>1. i <= k
        <5> SUFFICES ASSUME i > k PROVE FALSE
          BY <1>0
        <5>1. s[i][2] = l /\ l # 0
          BY <3>1
        <5>2. PICK h \in x + 1..n : s[i] = <<c, h>>
          BY <5>1, <1>6
        <5>3. s[i][2] = h
          BY <5>2
        <5> QED
          BY <5>1, <5>3, <1>4
      <4> QED
        BY <4>1, <3>1, <1>1
    <3>2. CASE Missing(c, s, m, l)
      <4>1. PICK z \in m + 1..l : /\ <<c, z>> \in Nuls /\ l < z + BUFFSIZE
                                 /\ \A i \in 1..Len(s), h \in z..l : s[i] # <<c, h>>
        BY <3>2 DEF Missing
      <4>2. \A i \in 1..Len(t) : i \in 1..Len(s) /\ t[i] = s[i]
        BY <1>0, <1>1
      <4> QED
        BY <4>1, <4>2 DEF Missing
    <3> QED
      BY <3>0, <3>1, <3>2 DEF Carries
  <2>3. ASSUME NEW i \in 1..k, NEW j \in 1..k, i < j, t[i][2] # 0, t[j][2] # 0
        PROVE  t[i][2] < t[j][2]
    <3>1. t[i] = s[i] /\ t[j] = s[j] /\ i \in 1..Len(s) /\ j \in 1..Len(s)
      BY <1>0, <1>1
    <3> QED
      BY <2>3, <3>1 DEF Carries
  <2> QED
    BY <1>1, <2>1, <2>2, <2>3 DEF Carries
<1>8. Carries(c, u, x, n)
  <2>0. \A i \in 1..Len(s) - k : u[i] = s[k + i] /\ k + i \in 1..Len(s) /\ k + i > k
    BY <1>0, <1>1
  <2>1. ASSUME NEW i \in 1..Len(s) - k, u[i][2] # 0
        PROVE  \E l \in x + 1..n : u[i] = <<c, l>>
    BY <2>0, <2>1, <1>6
  <2>2. ASSUME NEW l \in x + 1..n
        PROVE  (\E i \in 1..Len(u) : u[i] = <<c, l>>) \/ Missing(c, u, x, l)
    <3>1. l \in m + 1..n
      BY <1>4
    <3>2. ASSUME NEW i \in 1..Len(s), s[i] = <<c, l>>
          PROVE  \E j \in 1..Len(u) : u[j] = <<c, l>>
      <4>1. s[i][2] = l /\ ~(l <= x)
        BY <3>2, <1>4
      <4>2. i > k
        BY <4>1, <1>0, <1>4
      <4>3. i - k \in 1..Len(s) - k /\ k + (i - k) = i
        BY <4>2, <1>0
      <4> QED
        BY <3>2, <4>3, <2>0, <1>1
    <3>3. CASE Missing(c, s, m, l)
      <4>1. PICK z \in m + 1..l : /\ <<c, z>> \in Nuls /\ l < z + BUFFSIZE
                                 /\ \A i \in 1..Len(s), h \in z..l : s[i] # <<c, h>>
        BY <3>3 DEF Missing
      <4>2. z > x
        <5>1. CASE x = m
          BY <5>1
        <5>2. CASE x # m
          <6>1. PICK i \in 1..k : s[i] = <<c, x>>
            BY <1>5, <5>2
          <6>2. i \in 1..Len(s) /\ x \notin z..l /\ x <= l
            BY <4>1, <6>1, <1>0, <1>4
          <6> QED
            BY <6>2, <1>4
        <5> QED
          BY <5>1, <5>2
      <4>3. z \in x + 1..l
        BY <4>2, <1>4
      <4>4. ASSUME NEW i \in 1..Len(u) PROVE \A h \in z..l : u[i] # <<c, h>>
        <5>1. u[i] = s[k + i] /\ k + i \in 1..Len(s)
          BY <2>0, <1>1
        <5> QED
          BY <4>1, <5>1
      <4> QED
        BY <4>1, <4>3, <4>4 DEF Missing
    <3> QED
      BY <3>1, <3>2, <3>3 DEF Carries
  <2>3. ASSUME NEW i \in 1..Len(s) - k, NEW j \in 1..Len(s) - k, i < j,
               u[i][2] # 0, u[j][2] # 0
        PROVE  u[i][2] < u[j][2]
    <3>1. k + i < k + j
      BY <2>3, <1>0
    <3> QED
      BY <2>0, <2>3, <3>1 DEF Carries
  <2> QED
    BY <1>1, <2>1, <2>2, <2>3 DEF Carries
<1> QED
  BY <1>4, <1>7, <1>8 DEF t, u

(* strlen() finds the first zero, or the end. *)
LEMMA TextBounds ==
  ASSUME NEW msg \in Stream
  PROVE  LET n == TextLength(msg)
         IN  /\ n \in 0..Len(msg)
             /\ n < Len(msg) => msg[n + 1] \in Nuls
<1> DEFINE S == {n \in 0..Len(msg) : n < Len(msg) => msg[n + 1] \in Nuls}
<1>0. Len(msg) \in Nat
  BY DEF Stream
<1>1. Len(msg) \in S /\ S \subseteq Nat
  BY <1>0
<1> HIDE DEF S
<1>2. PICK n \in S : \A m \in S : n <= m
  BY <1>1, LeastNumber
<1> USE DEF S
<1>3. ASSUME NEW i \in 1..n PROVE msg[i] \notin Nuls
  <2> SUFFICES ASSUME msg[i] \in Nuls PROVE FALSE
    OBVIOUS
  <2>1. i - 1 \in 0..Len(msg) /\ (i - 1) + 1 = i /\ i - 1 < n
    BY <1>0
  <2>2. i - 1 \in S
    BY <2>1
  <2> QED
    BY <1>2, <2>1, <2>2
<1>4. n \in 0..Len(msg) /\ (n < Len(msg) => msg[n + 1] \in Nuls)
  OBVIOUS
<1> HIDE DEF S
<1>5. EndsText(msg, n)
  BY <1>3, <1>4 DEF EndsText
<1>6. TextLength(msg) \in 0..Len(msg) /\ EndsText(msg, TextLength(msg))
  BY <1>4, <1>5 DEF TextLength
<1> QED
  BY <1>6 DEF EndsText

(* A read of no more than fits msg, up to its first zero, *)
LEMMA CarriesText ==
  ASSUME NEW c \in Conns, NEW n \in Nat, NEW k \in 0..BUFFSIZE
  PROVE  /\ Text(Run(c, n, n + k)) \in Stream
         /\ Carries(c, Text(Run(c, n, n + k)), n, n + k)
<1> DEFINE msg == Run(c, n, n + k)
           x == TextLength(msg)
<1>0. k \in Nat /\ BUFFSIZE \in Nat /\ n + k \in Nat /\ n <= n + k
  BY TcpAssumption
<1>1. msg \in Stream /\ Len(msg) = k
  <2>1. msg \in Seq(Conns \X Nat) /\ Len(msg) = (n + k) - n
    BY <1>0, RunType
  <2> QED
    BY <1>0, <2>1 DEF Stream
<1>2. \A i \in 1..k : msg[i] = <<c, n + i>>
  BY <1>0 DEF Run
<1> HIDE DEF msg
<1>3. x \in 0..k /\ (x < k => msg[x + 1] \in Nuls)
  BY <1>1, TextBounds
<1> HIDE DEF x
<1>4. x \in 0..(n + k) - n
  BY <1>0, <1>3
<1>5. Text(msg) = Run(c, n, n + x)
  <2>1. SubSeq(Run(c, n, n + k), 1, x) = Run(c, n, n + x)
    BY <1>0, <1>4, RunParts
  <2> QED
    BY <2>1 DEF Text, msg, x
<1>6. n + x \in Nat /\ n <= n + x /\ n + x <= n + k
  BY <1>0, <1>3
<1> DEFINE s == Run(c, n, n + x)
<1>7. s \in Stream /\ Carries(c, s, n, n + x)
  BY <1>6, RunType, CarriesRun DEF Stream
<1>8. Len(s) = x /\ \A i \in 1..x : s[i] = <<c, n + i>>
  BY <1>6, <1>3, RunType DEF Run
<1> HIDE DEF s
<1>9. ASSUME NEW l \in n + 1..n + k
      PROVE  (\E i \in 1..Len(s) : s[i] = <<c, l>>) \/ Missing(c, s, n, l)
  <2>1. CASE l <= n + x
    <3>1. l - n \in 1..x /\ n + (l - n) = l
      BY <2>1, <1>3
    <3> QED
      BY <3>1, <1>8
  <2>2. CASE l > n + x
    <3> DEFINE z == n + x + 1
    <3>1. x < k /\ z \in n + 1..l /\ l < z + BUFFSIZE /\ x + 1 \in 1..k /\ n + (x + 1) = z
      BY <2>2, <1>0, <1>3
    <3>2. <<c, z>> \in Nuls
      BY <3>1, <1>2, <1>3
    <3>3. ASSUME NEW i \in 1..Len(s), NEW h \in z..l, s[i] = <<c, h>> PROVE FALSE
      <4>1. s[i] = <<c, n + i>> /\ i <= x
        BY <1>8, <1>3
      <4> QED
        BY <4>1, <3>3, <1>3
    <3> QED
      BY <3>1, <3>2, <3>3 DEF Missing
  <2> QED
    BY <2>1, <2>2, <1>3
<1>10. \A i \in 1..Len(s) : s[i][2] = 0 \/ \E l \in n + 1..n + k : s[i] = <<c, l>>
  BY <1>7, <1>6 DEF Carries
<1>11. Carries(c, s, n, n + k)
  BY <1>7, <1>9, <1>10 DEF Carries
<1> QED
  BY <1>5, <1>7, <1>11 DEF msg, s
-----------------------------------------------------------------------------
(* A bufferevent has written out, holds held and has not read in, of the   *)
(* sent bytes of connection c; and its first answer begins with a prefix.  *)
(* When it is freed the bytes it held and those it would read are gone.    *)
Relayed(c, out, held, in, sent, freed) ==
  /\ out # << >> => out[1][2] = 0
  /\ out = << >> /\ held # << >> => held[1][2] = 0
  /\ \E m, n \in Nat :
       /\ m <= n /\ n <= sent /\ Carries(c, out, 0, m)
       /\ IF freed THEN held = << >>
          ELSE Carries(c, held, m, n) /\ in = Run(c, n, sent)

(* The client sends more bytes, total in all. *)
LEMMA RelayedSent ==
  ASSUME NEW c \in Conns, NEW out, NEW held, NEW in, NEW freed,
         NEW sent \in Nat, Relayed(c, out, held, in, sent, freed),
         NEW total \in Nat, sent <= total
  PROVE  Relayed(c, out, held, in \o Run(c, sent, total), total, freed)
<1>1. PICK m, n \in Nat :
        /\ m <= n /\ n <= sent /\ Carries(c, out, 0, m)
        /\ IF freed THEN held = << >>
           ELSE Carries(c, held, m, n) /\ in = Run(c, n, sent)
  BY DEF Relayed
<1>2. Run(c, n, sent) \o Run(c, sent, total) = Run(c, n, total)
  BY <1>1, RunsJoin
<1>3. n <= total
  BY <1>1
<1> QED
  BY <1>1, <1>2, <1>3 DEF Relayed

(* The bufferevent is freed. *)
LEMMA RelayedFreed ==
  ASSUME NEW c \in Conns, NEW out, NEW held, NEW in, NEW freed, NEW sent \in Nat,
         Relayed(c, out, held, in, sent, freed)
  PROVE  Relayed(c, out, << >>, in, sent, TRUE)
BY DEF Relayed

(* socket_read_cb() takes the first k bytes and answers them. *)
LEMMA RelayedRead ==
  ASSUME NEW c \in Conns, NEW out \in Stream, NEW held \in Stream, NEW in \in Stream,
         NEW sent \in Nat, Relayed(c, out, held, in, sent, FALSE),
         NEW k \in 0..Len(in), k <= BUFFSIZE
  PROVE  Relayed(c, out, held \o ReplyMsg(c, SubSeq(in, 1, k)),
                 SubSeq(in, k + 1, Len(in)), sent, FALSE)
<1>1. PICK m, n \in Nat :
        /\ m <= n /\ n <= sent /\ Carries(c, out, 0, m)
        /\ Carries(c, held, m, n) /\ in = Run(c, n, sent)
  BY DEF Relayed
<1>2. Len(in) = sent - n
  BY <1>1, RunType
<1>3. /\ SubSeq(in, 1, k) = Run(c, n, n + k)
      /\ SubSeq(in, k + 1, Len(in)) = Run(c, n + k, sent)
  <2>1. k \in 0..sent - n
    BY <1>2
  <2>2. /\ SubSeq(Run(c, n, sent), 1, k) = Run(c, n, n + k)
        /\ SubSeq(Run(c, n, sent), k + 1, sent - n) = Run(c, n + k, sent)
    BY <2>1, <1>1, RunParts
  <2> QED
    BY <1>1, <1>2, <2>2
<1>4. n + k \in Nat /\ n + k <= sent /\ n <= n + k /\ m <= n + k
  BY <1>1, <1>2
<1> DEFINE zeros == [i \in 1..Prefix |-> <<c, 0>>]
           msg == Text(Run(c, n, n + k))
           reply == zeros \o msg
<1>5. zeros \in Stream /\ Len(zeros) = Prefix /\ Carries(c, zeros, n, n) /\ zeros[1] = <<c, 0>>
  <2>1. Prefix \in Nat \ {0} /\ zeros[1] = <<c, 0>>
    BY PrefixAssumption
  <2>2. zeros \in Stream /\ Len(zeros) = Prefix /\ Carries(c, zeros, n, n)
    BY <2>1, CarriesNone, Zenon
  <2> QED
    BY <2>1, <2>2
<1>6. msg \in Stream /\ Carries(c, msg, n, n + k)
  <2>1. k \in 0..BUFFSIZE
    BY <1>2, TcpAssumption
  <2> QED
    BY <1>1, <2>1, CarriesText
<1>7. ReplyMsg(c, SubSeq(in, 1, k)) = reply
  BY <1>3 DEF ReplyMsg, Answer
<1> HIDE DEF zeros, msg
<1>8. reply \in Stream /\ Carries(c, reply, n, n + k)
  BY <1>4, <1>5, <1>6, Joined, CarriesJoin
<1>9. reply[1][2] = 0
  <2>1. reply[1] = zeros[1]
    BY <1>5, <1>6, PrefixAssumption, ConcatProperties DEF Stream
  <2> QED
    BY <2>1, <1>5
<1> HIDE DEF reply
<1>10. Carries(c, held \o reply, m, n + k)
  BY <1>1, <1>4, <1>8, CarriesJoin
<1>11. held \o reply # << >> /\ out = << >> => (held \o reply)[1][2] = 0
  <2>1. CASE held = << >>
    <3>1. held \o reply = reply
      BY <1>8, <2>1 DEF Stream
    <3> QED
      BY <3>1, <1>9
  <2>2. CASE held # << >>
    <3>1. Len(held) \in Nat /\ Len(held) > 0 /\ Len(reply) \in Nat
      BY <1>8, <2>2 DEF Stream
    <3>2. (held \o reply)[1] = held[1]
      BY <1>8, <3>1, ConcatProperties DEF Stream
    <3> QED
      BY <2>2, <3>2 DEF Relayed
  <2> QED
    BY <2>1, <2>2
<1> QED
  BY <1>1, <1>3, <1>4, <1>7, <1>10, <1>11 DEF Relayed

(* The kernel takes the first k bytes of the output buffer. *)
LEMMA RelayedWritten ==
  ASSUME NEW c \in Conns, NEW out \in Stream, NEW held \in Stream, NEW in,
         NEW sent \in Nat, Relayed(c, out, held, in, sent, FALSE), NEW k \in 1..Len(held)
  PROVE  Relayed(c, out \o SubSeq(held, 1, k), SubSeq(held, k + 1, Len(held)),
                 in, sent, FALSE)
<1> DEFINE t == SubSeq(held, 1, k)
           u == SubSeq(held, k + 1, Len(held))
<1>1. PICK m, n \in Nat :
        /\ m <= n /\ n <= sent /\ Carries(c, out, 0, m)
        /\ Carries(c, held, m, n) /\ in = Run(c, n, sent)
  BY DEF Relayed
<1>2. Len(held) \in Nat /\ k \in Nat /\ k <= Len(held) /\ held # << >>
  BY DEF Stream
<1>3. t \in Stream /\ u \in Stream /\ Len(t) = k /\ t[1] = held[1]
  BY <1>2, Parts, SubSeqProperties DEF Stream
<1>4. PICK x \in m..n : Carries(c, t, m, x) /\ Carries(c, u, x, n)
  BY <1>1, <1>2, CarriesCut
<1> HIDE DEF t, u
<1>5. x \in Nat /\ m <= x /\ x <= n /\ 0 <= m
  BY <1>4
<1>6. Carries(c, out \o t, 0, x)
  BY <1>1, <1>3, <1>4, <1>5, CarriesJoin
<1>7. out \o t # << >> /\ (out \o t)[1][2] = 0
  <2>1. /\ Len(out) \in Nat /\ Len(t) \in Nat /\ Len(out \o t) = Len(out) + k
        /\ (out \o t)[1] = IF 1 <= Len(out) THEN out[1] ELSE t[1 - Len(out)]
    <3>0. out \in Seq(Conns \X Nat) /\ t \in Seq(Conns \X Nat)
      BY <1>3 DEF Stream
    <3>1. /\ Len(out) \in Nat /\ Len(t) \in Nat /\ Len(out \o t) = Len(out) + Len(t)
          /\ \A i \in 1..Len(out) + Len(t) :
               (out \o t)[i] = IF i <= Len(out) THEN out[i] ELSE t[i - Len(out)]
      BY <3>0, ConcatProperties
    <3>2. 1 \in 1..Len(out) + Len(t) /\ Len(t) = k
      BY <1>2, <1>3, <3>1
    <3> QED
      BY <3>1, <3>2
  <2>2. CASE out = << >>
    <3>1. Len(out) = 0
      BY <2>2
    <3>2. (out \o t)[1] = t[1]
      BY <2>1, <3>1
    <3> QED
      BY <1>2, <1>3, <2>1, <2>2, <3>2 DEF Relayed
  <2>3. CASE out # << >>
    <3>1. Len(out) > 0
      BY <2>3 DEF Stream
    <3>2. (out \o t)[1] = out[1]
      BY <2>1, <3>1
    <3> QED
      BY <2>1, <2>3, <3>1, <3>2 DEF Relayed
  <2> QED
    BY <2>2, <2>3
<1>8. x <= sent
  BY <1>1, <1>5
<1> QED
  BY <1>1, <1>4, <1>5, <1>6, <1>7 DEF Relayed, t, u

(* What it says of the bytes *)
LEMMA RelayedHolds ==
  ASSUME NEW c \in Conns, NEW out \in Stream, NEW held \in Stream, NEW in \in Stream,
         NEW sent \in Nat, NEW freed \in BOOLEAN, Relayed(c, out, held, in, sent, freed)
  PROVE  /\ out \o held # << >> => Head(out \o held)[2] = 0
         /\ freed \/ Holds(c, out \o held \o in, sent)
         /\ \E n \in 0..sent : Holds(c, out, n)
<1>1. PICK m, n \in Nat :
        /\ m <= n /\ n <= sent /\ Carries(c, out, 0, m)
        /\ IF freed THEN held = << >>
           ELSE Carries(c, held, m, n) /\ in = Run(c, n, sent)
  BY DEF Relayed
<1>2. \E l \in 0..sent : Holds(c, out, l)
  <2>1. Holds(c, out, m) /\ m \in 0..sent
    BY <1>1, CarriesIsHolds
  <2> QED
    BY <2>1
<1>3. ASSUME ~freed PROVE Holds(c, out \o held \o in, sent)
  <2>1. 0 <= m /\ 0 <= n
    OBVIOUS
  <2>2. Carries(c, out \o held, 0, n) /\ out \o held \in Stream
    BY <1>1, <1>3, <2>1, CarriesJoin, Joined
  <2>3. Carries(c, in, n, sent)
    BY <1>1, <1>3, CarriesRun
  <2> HIDE DEF Carries
  <2>4. Carries(c, out \o held \o in, 0, sent)
    BY <1>1, <2>1, <2>2, <2>3, CarriesJoin
  <2> QED
    BY <2>4, CarriesIsHolds
<1>4. ASSUME out \o held # << >> PROVE Head(out \o held)[2] = 0
  <2>1. /\ Len(out) \in Nat /\ Len(held) \in Nat /\ Len(out \o held) = Len(out) + Len(held)
        /\ out \o held \in Stream
        /\ \A i \in 1..Len(out) + Len(held) :
             (out \o held)[i] = IF i <= Len(out) THEN out[i] ELSE held[i - Len(out)]
    BY ConcatProperties, Joined DEF Stream
  <2>2. Head(out \o held) = (out \o held)[1] /\ 1 \in 1..Len(out) + Len(held)
    BY <1>4, <2>1 DEF Stream
  <2>3. CASE out # << >>
    <3>1. Len(out) > 0
      BY <2>3 DEF Stream
    <3>2. (out \o held)[1] = out[1]
      BY <2>1, <2>2, <3>1
    <3> QED
      BY <2>2, <2>3, <3>2 DEF Relayed
  <2>4. CASE out = << >>
    <3>1. Len(out) = 0
      BY <2>4
    <3>2. (out \o held)[1] = held[1] /\ held # << >>
      BY <2>1, <2>2, <3>1
    <3> QED
      BY <2>2, <2>4, <3>2 DEF Relayed
  <2> QED
    BY <2>3, <2>4
<1> QED
  BY <1>2, <1>3, <1>4

(* Every connection's bytes are accounted for. *)
BytesKept == \A c \in Conns :
  Relayed(c, tcp[c].echoed, output[c], tcp[c].up, tcp[c].sent, bev[c] = "freed")

(* A connection has a bufferevent once it is accepted. *)
Buffered == \A c \in Conns : bev[c] # "none" => tcp[c].client = "accepted"

RelayInv == BaseTypeOK /\ BytesKept /\ Buffered

(* Nothing is said of what the server holds once it has written past an    *)
(* array.                                                                  *)
Overrun == BaseTypeOK /\ base = "overrun"

(* The variables one by one *)
LEMMA RelayTypes ==
  ASSUME RelayInv
  PROVE  /\ Sockets /\ tcp \in [Conns -> Connection]
         /\ base \in {"init", "dispatch", "ended", "killed", "overrun"}
         /\ orphans \in 0..MaxOrphans
         /\ bev \in [Conns -> {"none", "open", "freed"}] /\ output \in [Conns -> Stream]
         /\ \A c \in Conns :
              /\ tcp[c].echoed \in Stream /\ tcp[c].up \in Stream /\ tcp[c].sent \in Nat
              /\ output[c] \in Stream
              /\ Relayed(c, tcp[c].echoed, output[c], tcp[c].up, tcp[c].sent, bev[c] = "freed")
<1>1. Sockets /\ output \in [Conns -> Stream]
  BY DEF RelayInv, BaseTypeOK, Sockets
<1>2. \A c \in Conns : tcp[c].echoed \in Stream /\ tcp[c].up \in Stream /\ tcp[c].sent \in Nat
  BY <1>1, Fields, Lengths
<1> QED
  BY <1>1, <1>2 DEF RelayInv, BytesKept, BaseTypeOK, Buffers, Sockets

(* Nothing was sent at first. *)
LEMMA RelayInit ==
  ASSUME TcpInit, BaseInit
  PROVE  RelayInv
<1>1. Sockets
  BY SocketsInit
<1>2. BaseTypeOK
  <2>1. << >> \in Stream /\ 0 \in 0..MaxOrphans /\ 0 \in 0..MaxBytes
    BY TcpAssumption, PrefixAssumption DEF Stream
  <2> QED
    BY <1>1, <2>1 DEF BaseInit, BaseTypeOK, Sockets, Buffers
<1>3. ASSUME NEW c \in Conns
      PROVE  Relayed(c, tcp[c].echoed, output[c], tcp[c].up, tcp[c].sent, bev[c] = "freed")
  <2>1. /\ tcp[c].echoed = << >> /\ tcp[c].up = << >> /\ tcp[c].sent = 0
        /\ output[c] = << >> /\ bev[c] = "none"
    BY DEF BaseInit, TcpInit, Fresh
  <2>2. Carries(c, << >>, 0, 0) /\ << >> = Run(c, 0, 0)
    BY DEF Carries, Run
  <2> QED
    BY <2>1, <2>2 DEF Relayed
<1>4. Buffered
  BY DEF BaseInit, Buffered
<1> QED
  BY <1>2, <1>3, <1>4 DEF RelayInv, BytesKept

(* It is enough to look at the connection a step is about. *)
LEMMA OneRelayed ==
  ASSUME RelayInv, NEW c \in Conns, Others(c),
         \A d \in Conns \ {c} : output'[d] = output[d] /\ bev'[d] = bev[d],
         Relayed(c, tcp'[c].echoed, output'[c], tcp'[c].up, tcp'[c].sent, bev'[c] = "freed")
  PROVE  BytesKept'
<1> SUFFICES ASSUME NEW d \in Conns
             PROVE  Relayed(d, tcp'[d].echoed, output'[d], tcp'[d].up, tcp'[d].sent,
                            bev'[d] = "freed")
  BY DEF BytesKept
<1>1. CASE d = c
  BY <1>1
<1>2. CASE d # c
  BY <1>2, RelayTypes DEF Others
<1> QED
  BY <1>1, <1>2

(* The clients and the network: bytes are added behind the unread ones, or *)
(* none are moved. *)
LEMMA OutsideRelays ==
  ASSUME RelayInv, NEW c \in Conns, Outside(c), UNCHANGED <<output, bev>>
  PROVE  Sockets' /\ BytesKept' /\ Buffered'
<1>0. Sockets /\ tcp[c].sent \in Nat /\ tcp \in [Conns -> Connection]
  BY RelayTypes
<1>1. Sockets' /\ Buffered'
  BY <1>0, OutsideSockets DEF Kept, RelayInv, Buffered
<1>2. CASE Send(c)
  <2>1. PICK n \in 1..MaxBytes - tcp[c].sent :
          tcp' = [tcp EXCEPT
                  ![c].sent = @ + n,
                  ![c].up = @ \o [i \in 1..n |-> <<c, tcp[c].sent + i>>]]
    BY <1>2 DEF Send
  <2>2. n \in Nat /\ tcp[c].sent + n \in Nat /\ tcp[c].sent <= tcp[c].sent + n
    BY <1>0, TcpAssumption
  <2>3. [i \in 1..n |-> <<c, tcp[c].sent + i>>] = Run(c, tcp[c].sent, tcp[c].sent + n)
    BY <1>0, <2>2 DEF Run
  <2>4. /\ tcp'[c].sent = tcp[c].sent + n /\ tcp'[c].echoed = tcp[c].echoed
        /\ tcp'[c].up = tcp[c].up \o Run(c, tcp[c].sent, tcp[c].sent + n) /\ Others(c)
    BY <1>0, <2>1, <2>3 DEF Connection, Others
  <2>5. Relayed(c, tcp[c].echoed, output[c], tcp[c].up \o Run(c, tcp[c].sent, tcp[c].sent + n),
                tcp[c].sent + n, bev[c] = "freed")
    BY <1>0, <2>2, RelayTypes, RelayedSent
  <2> QED
    BY <1>1, <2>4, <2>5, OneRelayed
<1>3. CASE ~Send(c)
  <2>1. /\ tcp'[c].sent = tcp[c].sent /\ tcp'[c].echoed = tcp[c].echoed
        /\ tcp'[c].up = tcp[c].up /\ Others(c)
    BY <1>0, <1>3 DEF Outside, Connect, Receive, Close, ResetArrives, Connection, Others
  <2> QED
    BY <1>1, <2>1, RelayTypes, OneRelayed
<1> QED
  BY <1>2, <1>3

(* The event loop accepts, *)
LEMMA AcceptRelays ==
  ASSUME RelayInv, NEW c \in Conns, AcceptCb(c)
  PROVE  RelayInv'
<1>0. Accept(c) /\ UNCHANGED <<base, output, orphans>> /\ bev' = [bev EXCEPT ![c] = "open"]
  BY DEF AcceptCb
<1>1. Sockets'
  BY <1>0, RelayTypes, AcceptSockets
<1>2. BaseTypeOK'
  BY <1>0, <1>1, RelayTypes DEF BaseTypeOK, Sockets, Buffers
<1>3. /\ tcp'[c].sent = tcp[c].sent /\ tcp'[c].echoed = tcp[c].echoed
      /\ tcp'[c].up = tcp[c].up /\ Others(c) /\ bev'[c] = "open"
  BY <1>0, RelayTypes DEF Accept, Connection, Others
<1>4. bev[c] # "freed"
  BY <1>0 DEF Accept, RelayInv, Buffered
<1>5. Buffered'
  BY <1>0, RelayTypes, AcceptSockets DEF RelayInv, Buffered
<1>6. BytesKept'
  BY <1>0, <1>3, <1>4, RelayTypes, OneRelayed
<1> QED
  BY <1>2, <1>5, <1>6 DEF RelayInv

(* Whatever a step of the event loop on a bufferevent does *)
LEMMA OnBuffer ==
  ASSUME RelayInv, NEW c \in Conns, bev[c] = "open", Kept, Others(c),
         base' \in {"dispatch", "killed"}, UNCHANGED orphans,
         NEW out \in Stream, output' = [output EXCEPT ![c] = out],
         NEW b \in {"open", "freed"}, bev' = [bev EXCEPT ![c] = b],
         Relayed(c, tcp'[c].echoed, out, tcp'[c].up, tcp'[c].sent, b = "freed")
  PROVE  RelayInv'
<1>1. BaseTypeOK'
  BY RelayTypes DEF BaseTypeOK, Kept, Sockets, Buffers
<1>2. output'[c] = out /\ bev'[c] = b
      /\ \A d \in Conns \ {c} : output'[d] = output[d] /\ bev'[d] = bev[d]
  BY RelayTypes
<1>3. BytesKept'
  BY <1>2, OneRelayed
<1>4. Buffered'
  BY <1>2 DEF Kept, RelayInv, Buffered
<1> QED
  BY <1>1, <1>3, <1>4 DEF RelayInv

(* socket_read_cb() answers, event_cb() frees, *)
LEMMA ReadRelays ==
  ASSUME RelayInv, NEW c \in Conns, ServerReads(c)
  PROVE  RelayInv' \/ Overrun'
<1>0. /\ base = "dispatch" /\ bev[c] = "open" /\ UNCHANGED orphans
      /\ Sockets /\ tcp \in [Conns -> Connection] /\ tcp[c].sent \in Nat
      /\ tcp[c].echoed \in Stream /\ tcp[c].up \in Stream /\ output[c] \in Stream
      /\ Relayed(c, tcp[c].echoed, output[c], tcp[c].up, tcp[c].sent, FALSE)
      /\ bev \in [Conns -> {"none", "open", "freed"}]
      /\ output \in [Conns -> Stream]
  BY RelayTypes DEF ServerReads
<1>3. CASE ReadData(c) /\ ReadCb(c) /\ Overruns(Data(c))
  <2>1. base' = "overrun" /\ UNCHANGED <<bev, output>> /\ Sockets'
    BY <1>0, <1>3, ReadSockets DEF ReadCb, Kept
  <2> QED
    BY <1>0, <2>1, RelayTypes DEF Overrun, BaseTypeOK, Sockets, Buffers
<1>1. CASE ReadData(c) /\ ReadCb(c) /\ ~Overruns(Data(c))
  <2> DEFINE k == Got(c)
             out == output[c] \o ReplyMsg(c, SubSeq(tcp[c].up, 1, k))
  <2>1. /\ tcp'[c].sent = tcp[c].sent /\ tcp'[c].echoed = tcp[c].echoed
        /\ tcp'[c].up = SubSeq(tcp[c].up, k + 1, Len(tcp[c].up)) /\ Others(c)
    BY <1>0, <1>1 DEF ReadData, Connection, Others
  <2>2. /\ k \in 0..Len(tcp[c].up) /\ k <= BUFFSIZE
        /\ SubSeq(tcp[c].up, 1, k) \in Stream
    <3>1. k \in Nat /\ k <= Len(tcp[c].up)
      BY <1>0, GotBounds
    <3>2. k <= BUFFSIZE
      BY <1>0, Lengths, TcpAssumption DEF Got, Smaller
    <3> QED
      BY <3>1, <3>2, <1>0, Parts, RelayTypes DEF Stream
  <2>3. Prefix \in Nat \ {0}
    BY PrefixAssumption
  <2>4. output' = [output EXCEPT ![c] = out] /\ UNCHANGED <<bev, base>>
    BY <1>1 DEF ReadCb, Data
  <2>5. out \in Stream
    <3>1. [i \in 1..Prefix |-> <<c, 0>>] \in Stream
      BY <2>3, CarriesNone
    <3>2. Text(SubSeq(tcp[c].up, 1, k)) \in Stream
      <4> DEFINE msg == SubSeq(tcp[c].up, 1, k)
      <4>1. msg \in Stream /\ Len(msg) \in Nat
        BY <2>2 DEF Stream
      <4> HIDE DEF msg
      <4>2. TextLength(msg) \in Nat /\ TextLength(msg) <= Len(msg)
        BY <4>1, TextBounds
      <4>3. Text(msg) \in Stream
        BY <4>1, <4>2, Parts DEF Text
      <4> QED
        BY <4>3 DEF msg
    <3>3. ReplyMsg(c, SubSeq(tcp[c].up, 1, k)) \in Stream
      BY <3>1, <3>2, Joined DEF ReplyMsg, Answer
    <3> QED
      BY <3>3, <1>0, Joined
  <2> HIDE DEF k
  <2>6. Relayed(c, tcp[c].echoed, out, SubSeq(tcp[c].up, k + 1, Len(tcp[c].up)),
                tcp[c].sent, FALSE)
    BY <1>0, <2>2, <2>3, RelayedRead
  <2> HIDE DEF out
  <2>7. Relayed(c, tcp'[c].echoed, out, tcp'[c].up, tcp'[c].sent, FALSE)
    BY <2>1, <2>6
  <2>8. Kept /\ bev' = [bev EXCEPT ![c] = "open"] /\ ("open" = "freed") = FALSE
    BY <1>0, <1>1, <2>4, ReadSockets
  <2> QED
    BY <1>0, <2>1, <2>4, <2>5, <2>7, <2>8, OnBuffer
<1>2. CASE (ReadFails(c) \/ ReadEof(c)) /\ EventCb(c)
  <2>1. /\ tcp'[c].sent = tcp[c].sent /\ tcp'[c].echoed = tcp[c].echoed
        /\ tcp'[c].up = tcp[c].up /\ Others(c)
    BY <1>0, <1>2 DEF ReadFails, ReadEof, Connection, Others
  <2>2. Relayed(c, tcp'[c].echoed, << >>, tcp'[c].up, tcp'[c].sent, "freed" = "freed")
    BY <1>0, <2>1, RelayedFreed
  <2>3. Kept
    BY <1>0, <1>2, ReadSockets
  <2>4. /\ output' = [output EXCEPT ![c] = << >>] /\ bev' = [bev EXCEPT ![c] = "freed"]
        /\ << >> \in Stream /\ base' = base
    BY <1>2 DEF EventCb, Stream
  <2> QED
    BY <1>0, <2>1, <2>2, <2>3, <2>4, OnBuffer
<1> QED
  BY <1>1, <1>2, <1>3 DEF ServerReads

(* and the kernel takes what it has room for. *)
LEMMA WriteRelays ==
  ASSUME RelayInv, NEW c \in Conns, ServerWrites(c)
  PROVE  RelayInv'
<1>0. /\ base = "dispatch" /\ bev[c] = "open" /\ UNCHANGED orphans
      /\ Sockets /\ tcp \in [Conns -> Connection] /\ tcp[c].sent \in Nat
      /\ tcp[c].echoed \in Stream /\ tcp[c].up \in Stream /\ output[c] \in Stream
      /\ Relayed(c, tcp[c].echoed, output[c], tcp[c].up, tcp[c].sent, FALSE)
      /\ bev \in [Conns -> {"none", "open", "freed"}]
      /\ output \in [Conns -> Stream]
  BY RelayTypes DEF ServerWrites
<1>1. ASSUME NEW n \in {Smaller(Len(output[c]), Room(c))} \ {0},
             WriteTakes(c, output[c], n),
             output' = [output EXCEPT ![c] = SubSeq(@, n + 1, Len(@))],
             UNCHANGED <<base, bev>>
      PROVE  RelayInv'
  <2>1. n \in 1..Len(output[c]) /\ n <= Room(c)
    <3>1. Len(output[c]) \in Nat /\ Room(c) \in Nat
      BY <1>0, Fields, TcpAssumption DEF Room, Stream
    <3> QED
      BY <3>1, <1>1 DEF Smaller
  <2>2. /\ tcp'[c].sent = tcp[c].sent /\ tcp'[c].up = tcp[c].up
        /\ tcp'[c].echoed = tcp[c].echoed \o SubSeq(output[c], 1, n) /\ Others(c)
    BY <1>0, <1>1 DEF WriteTakes, Connection, Others
  <2> DEFINE rest == SubSeq(output[c], n + 1, Len(output[c]))
  <2>3. rest \in Stream /\ Len(output[c]) \in Nat
    BY <1>0, <2>1, Parts DEF Stream
  <2>4. output' = [output EXCEPT ![c] = rest] /\ bev' = [bev EXCEPT ![c] = "open"]
    BY <1>0, <1>1
  <2>5. Relayed(c, tcp[c].echoed \o SubSeq(output[c], 1, n), rest, tcp[c].up, tcp[c].sent, FALSE)
    BY <1>0, <2>1, RelayedWritten
  <2> HIDE DEF rest
  <2>6. Relayed(c, tcp'[c].echoed, rest, tcp'[c].up, tcp'[c].sent, FALSE)
    BY <2>2, <2>5
  <2>7. Kept /\ ("open" = "freed") = FALSE
    <3>1. n \in 0..Len(output[c])
      BY <2>1, <2>3
    <3> QED
      BY <3>1, <1>0, <1>1, <2>1, TakesSockets
  <2> QED
    BY <1>0, <1>1, <2>2, <2>3, <2>4, <2>6, <2>7, OnBuffer
<1>2. CASE WriteFails(c) /\ EventCb(c)
  <2>1. /\ tcp'[c].sent = tcp[c].sent /\ tcp'[c].echoed = tcp[c].echoed
        /\ tcp'[c].up = tcp[c].up /\ Others(c)
    BY <1>0, <1>2 DEF WriteFails, Connection, Others
  <2>2. Relayed(c, tcp'[c].echoed, << >>, tcp'[c].up, tcp'[c].sent, "freed" = "freed")
    BY <1>0, <2>1, RelayedFreed
  <2>3. Kept
    BY <1>0, <1>2, WriteSockets
  <2>4. /\ output' = [output EXCEPT ![c] = << >>] /\ bev' = [bev EXCEPT ![c] = "freed"]
        /\ << >> \in Stream /\ base' = base
    BY <1>2 DEF EventCb, Stream
  <2> QED
    BY <1>0, <2>1, <2>2, <2>3, <2>4, OnBuffer
<1>3. CASE WriteKills(c) /\ base' = "killed" /\ UNCHANGED <<bev, output>>
  <2>1. UNCHANGED <<tcp, bev, output, orphans>>
    BY <1>0, <1>3 DEF WriteKills
  <2> QED
    BY <2>1, <1>3 DEF RelayInv, BaseTypeOK, BytesKept, Buffered
<1> QED
  BY <1>1, <1>2, <1>3 DEF ServerWrites

(* Every step of the server, *)
LEMMA RelayServer ==
  ASSUME RelayInv, BaseStep
  PROVE  RelayInv' \/ Overrun'
<1>1. CASE Starts \/ AcceptFails
  <2>1. UNCHANGED <<tcp, bev, output>>
    BY <1>1 DEF Starts, AcceptFails
  <2>2. base' \in {"init", "dispatch", "ended", "killed", "overrun"} /\ orphans' \in 0..MaxOrphans
    BY <1>1, RelayTypes, PrefixAssumption DEF Starts, AcceptFails
  <2> QED
    BY <2>1, <2>2 DEF RelayInv, BaseTypeOK, BytesKept, Buffered
<1> QED
  BY <1>1, AcceptRelays, ReadRelays, WriteRelays DEF BaseStep

(* of the clients and of the network *)
LEMMA RelayOutside ==
  ASSUME RelayInv, NEW c \in Conns, Outside(c), UNCHANGED baseVars
  PROVE  RelayInv'
<1>1. UNCHANGED <<base, bev, output, orphans>>
  BY DEF baseVars
<1>2. Sockets' /\ BytesKept' /\ Buffered'
  BY <1>1, OutsideRelays
<1> QED
  BY <1>1, <1>2 DEF RelayInv, BaseTypeOK, Sockets

(* Behind an overrun only clients and the network move. *)
LEMMA RelayOverrun ==
  ASSUME Overrun
  PROVE  /\ ~BaseStep
         /\ \A c \in Conns : Outside(c) /\ UNCHANGED baseVars => Overrun'
<1>1. ~BaseStep
  BY DEF Overrun, BaseStep, Starts, AcceptFails, AcceptCb, ServerReads, ServerWrites
<1>2. ASSUME NEW c \in Conns, Outside(c), UNCHANGED baseVars PROVE Overrun'
  <2>1. Sockets' /\ UNCHANGED <<base, bev, output, orphans>>
    BY <1>2, OutsideSockets DEF Overrun, BaseTypeOK, Sockets, Kept, baseVars
  <2> QED
    BY <2>1 DEF Overrun, BaseTypeOK, Sockets
<1> QED
  BY <1>1, <1>2
-----------------------------------------------------------------------------
(* The dialogue of the libevent server with its clients *)

CONSTANTS LineSize, ClientBuf
VARIABLE client

Libevent == INSTANCE LibeventDialogue

(* The sockets and the server of the dialogue are those above. *)
LEMMA SameCalls ==
  /\ Libevent!TcpInit <=> TcpInit
  /\ Libevent!BaseInit <=> BaseInit
  /\ Libevent!baseVars = baseVars
  /\ Libevent!BaseStep <=> BaseStep
  /\ \A c \in Conns :
       /\ Libevent!Connect(c) <=> Connect(c)
       /\ Libevent!Send(c) <=> Send(c)
       /\ Libevent!Receive(c) <=> Receive(c)
       /\ Libevent!Close(c) <=> Close(c)
       /\ Libevent!ResetArrives(c) <=> ResetArrives(c)
<1>1. Libevent!TcpInit <=> TcpInit
  BY DEF Libevent!TcpInit, TcpInit, Libevent!Fresh, Fresh
<1>2. (Libevent!BaseInit <=> BaseInit) /\ Libevent!baseVars = baseVars
  BY DEF Libevent!BaseInit, BaseInit, Libevent!baseVars, baseVars
<1>3. ASSUME NEW c \in Conns
      PROVE  /\ \A mark : Libevent!Is(c, mark) <=> Is(c, mark)
             /\ Libevent!Closed(c) <=> Closed(c)
             /\ Libevent!Open(c) <=> Open(c)
             /\ Libevent!Data(c) = Data(c) /\ Libevent!Got(c) = Got(c)
             /\ Libevent!Room(c) = Room(c)
  BY DEF Libevent!Is, Is, Libevent!Closed, Closed, Libevent!Open, Open,
         Libevent!Got, Got, Libevent!Smaller, Smaller, Libevent!Data, Data,
         Libevent!Room, Room
<1>4. ASSUME NEW c \in Conns
      PROVE  /\ Libevent!Connect(c) <=> Connect(c)
             /\ Libevent!Send(c) <=> Send(c)
             /\ Libevent!Receive(c) <=> Receive(c)
             /\ Libevent!Close(c) <=> Close(c)
             /\ Libevent!ResetArrives(c) <=> ResetArrives(c)
  <2>1. /\ Libevent!Connect(c) <=> Connect(c)
        /\ Libevent!Send(c) <=> Send(c)
        /\ Libevent!Receive(c) <=> Receive(c)
        /\ Libevent!Close(c) <=> Close(c)
    BY <1>3 DEF Libevent!Connect, Connect, Libevent!Send, Send, Libevent!Receive, Receive,
                Libevent!Close, Close
  <2>2. Libevent!ResetArrives(c) <=> ResetArrives(c)
    BY DEF Libevent!ResetArrives, ResetArrives, Libevent!Is, Is
  <2> QED
    BY <2>1, <2>2
<1>5. /\ Libevent!Starts <=> Starts
      /\ Libevent!AcceptFails <=> AcceptFails
  BY DEF Libevent!Starts, Starts, Libevent!AcceptFails, AcceptFails
<1>6. ASSUME NEW c \in Conns
      PROVE  /\ Libevent!AcceptCb(c) <=> AcceptCb(c)
             /\ Libevent!ServerReads(c) <=> ServerReads(c)
             /\ Libevent!ServerWrites(c) <=> ServerWrites(c)
  <2>1. Libevent!AcceptCb(c) <=> AcceptCb(c)
    BY DEF Libevent!AcceptCb, AcceptCb, Libevent!Accept, Accept
  <2>2. Libevent!EventCb(c) <=> EventCb(c)
    BY DEF Libevent!EventCb, EventCb
  <2>3. Libevent!ReadCb(c) <=> ReadCb(c)
    <3>1. \A msg : Libevent!TextLength(msg) = TextLength(msg)
      BY DEF Libevent!TextLength, TextLength, Libevent!EndsText, EndsText
    <3>2. \A msg : /\ Libevent!Overruns(msg) <=> Overruns(msg)
                   /\ Libevent!ReplyMsg(c, msg) = ReplyMsg(c, msg)
      BY <3>1 DEF Libevent!Overruns, Overruns, Libevent!Text, Text,
                  Libevent!ReplyMsg, ReplyMsg, Libevent!Answer, Answer
    <3> QED
      BY <1>3, <3>2 DEF Libevent!ReadCb, ReadCb
  <2>4. /\ Libevent!ReadData(c) <=> ReadData(c)
        /\ Libevent!ReadFails(c) <=> ReadFails(c)
        /\ Libevent!ReadEof(c) <=> ReadEof(c)
    BY <1>3 DEF Libevent!ReadData, ReadData, Libevent!ReadFails, ReadFails,
                Libevent!ReadEof, ReadEof
  <2>5. /\ Libevent!WriteKills(c) <=> WriteKills(c)
        /\ Libevent!WriteFails(c) <=> WriteFails(c)
    BY <1>3 DEF Libevent!WriteKills, WriteKills, Libevent!WriteFails, WriteFails
  <2>6. \A data, n : Libevent!WriteTakes(c, data, n) <=> WriteTakes(c, data, n)
    BY <1>3 DEF Libevent!WriteTakes, WriteTakes, Libevent!Is, Is, Libevent!Closed, Closed
  <2>7. Libevent!ServerReads(c) <=> ServerReads(c)
    BY <2>2, <2>3, <2>4 DEF Libevent!ServerReads, ServerReads
  <2>8. Libevent!ServerWrites(c) <=> ServerWrites(c)
    BY <1>3, <2>2, <2>5, <2>6
    DEF Libevent!ServerWrites, ServerWrites, Libevent!Smaller, Smaller
  <2> QED
    BY <2>1, <2>7, <2>8
<1>7. Libevent!BaseStep <=> BaseStep
  BY <1>5, <1>6 DEF Libevent!BaseStep, BaseStep
<1> QED
  BY <1>1, <1>2, <1>4, <1>7

(* A client of the dialogue does only what any client may do. *)
LEMMA ClientOfLibevent ==
  ASSUME [Libevent!Next]_(Libevent!vars)
  PROVE  \/ BaseStep
         \/ \E c \in Conns : Outside(c) /\ UNCHANGED baseVars
         \/ UNCHANGED <<tcp, baseVars>>
<1>1. CASE UNCHANGED Libevent!vars
  BY <1>1 DEF Libevent!vars, Libevent!baseVars, baseVars
<1>2. CASE Libevent!BaseStep
  BY <1>2, SameCalls
<1>3. ASSUME NEW c \in Conns,
             \/ Libevent!ClientStep(c) \/ Libevent!Arrives(c)
             \/ Libevent!Connects(c) \/ Libevent!CmdMsgCb(c) \/ Libevent!Leaves(c)
      PROVE  UNCHANGED baseVars /\ (UNCHANGED tcp \/ Outside(c))
  BY <1>3, SameCalls
  DEF Libevent!ClientStep, Libevent!Arrives, Libevent!Connects, Libevent!CmdMsgCb,
      Libevent!Leaves, Libevent!ClientWrites, Libevent!ClientReads,
      Libevent!ClientEventCb, Libevent!Finishes, Libevent!baseVars, baseVars, Outside
<1> QED
  BY <1>1, <1>2, <1>3 DEF Libevent!Next

(* However long the dialogue, however the buffers cut the messages, and    *)
(* wherever clients leave: until a reply overruns the server's arrays, the *)
(* bytes a client sent are, before its bufferevent is freed, answered or   *)
(* waiting, each once, in order and with no other client's, except those   *)
(* that a zero in the same read cut off; and answers begin with their      *)
(* prefix.                                                                 *)
THEOREM NoOtherByteLost == Libevent!Spec => []NothingElseLost
<1>1. RelayInv \/ Overrun => NothingElseLost
  <2>1. CASE Overrun
    BY <2>1 DEF Overrun, NothingElseLost
  <2>2. ASSUME RelayInv, NEW c \in Conns
        PROVE  /\ tcp[c].echoed \o output[c] # << >> =>
                    Head(tcp[c].echoed \o output[c])[2] = 0
               /\ \/ bev[c] = "freed"
                  \/ Holds(c, tcp[c].echoed \o output[c] \o tcp[c].up, tcp[c].sent)
               /\ \E n \in 0..tcp[c].sent : Holds(c, tcp[c].echoed, n)
    BY <2>2, RelayTypes, RelayedHolds
  <2>3. CASE RelayInv
    BY <2>2, <2>3 DEF NothingElseLost, RelayInv
  <2> QED
    BY <2>1, <2>3
<1>2. Libevent!Init => RelayInv
  BY RelayInit, SameCalls DEF Libevent!Init
<1>3. (RelayInv \/ Overrun) /\ [Libevent!Next]_(Libevent!vars) => (RelayInv \/ Overrun)'
  <2> SUFFICES ASSUME RelayInv \/ Overrun, [Libevent!Next]_(Libevent!vars)
               PROVE  RelayInv' \/ Overrun'
    OBVIOUS
  <2>1. CASE UNCHANGED <<tcp, baseVars>>
    BY <2>1 DEF baseVars, RelayInv, Overrun, BaseTypeOK, BytesKept, Buffered
  <2> QED
    BY <2>1, ClientOfLibevent, RelayServer, RelayOutside, RelayOverrun
<1> QED
  BY <1>1, <1>2, <1>3, PTL DEF Libevent!Spec
=============================================================================
