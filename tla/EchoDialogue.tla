---------------------------- MODULE EchoDialogue ----------------------------
(***************************************************************************)
(* TCPServerDemo/src/server.cxx and its clients.  Some run                 *)
(* TCPServerDemo/src/client.cxx, which is also the client of the other TCP *)
(* servers: it asks one question at a time, of fewer than BUFFSIZE bytes,  *)
(* and takes the result of a single read() for the answer.  The others are *)
(* any programs.                                                           *)
(***************************************************************************)
EXTENDS IterServer

CONSTANT Users   \* the connections of client.cxx

ASSUME UsersAssumption == Users \subseteq Conns

VARIABLES
  cpc,     \* where each user's client is in main()
  behind   \* history: the users who once took a part of an answer for the whole

clientVars == <<cpc, behind>>

Init == /\ ServerInit
        /\ cpc = [c \in Users |-> "connect"]
        /\ behind = {}

Goto(c, from, to) == cpc[c] = from /\ cpc' = [cpc EXCEPT ![c] = to]
-----------------------------------------------------------------------------
Connects(c) == Goto(c, "connect", "input") /\ Connect(c) /\ UNCHANGED behind

AnyWord == 1..MaxBytes                                      \* mutant of Word

(* std::cin >> message: the word that was typed, or at the end of the      *)
(* input the last answer again.  Users type no word that would overflow    *)
(* the char[BUFFSIZE], which nothing else prevents.                        *)
Word == 1..BUFFSIZE - 1

ThenAsks(c) == Goto(c, "input", "input")                    \* mutant of ThenReads
ThenReads(c) == Goto(c, "input", "read")

Asks(c) == /\ ThenReads(c)
           /\ Send(c) /\ tcp'[c].sent - tcp[c].sent \in Word
           /\ UNCHANGED behind

(* strlen() of a word that begins with a zero byte is 0: nothing is sent,  *)
(* and the answer is waited for.                                           *)
AsksNothing(c) == ThenReads(c) /\ Open(c) /\ UNCHANGED <<tcp, behind>>

(* read(sock, message, BUFFSIZE - 1) answers any part of what has come. *)
Hears(c) == /\ Goto(c, "read", "input")
            /\ Receive(c) /\ tcp[c].unread - tcp'[c].unread < BUFFSIZE
            /\ behind' = IF tcp'[c].unread = 0 THEN behind ELSE behind \cup {c}

(* It answers 0 or -1 when SIGPIPE has killed the server; the latter       *)
(* writes message[-1], and the model follows this client no further.       *)
CutOff(c) == /\ pc = "killed" /\ Goto(c, "read", "cut")
             /\ UNCHANGED <<tcp, behind>>

Quits(c) == Goto(c, "input", "gone") /\ Close(c) /\ UNCHANGED behind

ClientStep(c) == /\ \/ Connects(c) \/ Asks(c) \/ AsksNothing(c)
                    \/ Hears(c) \/ CutOff(c) \/ Quits(c)
                 /\ UNCHANGED serverVars

Next == \/ ServerStep /\ UNCHANGED clientVars
        \/ \E c \in Users : ClientStep(c)
        \/ \E c \in Conns \ Users : Outside(c) /\ UNCHANGED <<serverVars, clientVars>>
        \/ \E c \in Users : ResetArrives(c) /\ UNCHANGED <<serverVars, clientVars>>

Spec == Init /\ [][Next]_<<vars, clientVars>>

(* A client reads what has come; nothing is assumed of its user. *)
FairSpec == /\ Spec /\ Fairness
            /\ \A c \in Users : WF_<<vars, clientVars>>(Hears(c) /\ UNCHANGED serverVars)
-----------------------------------------------------------------------------
UserPlaces == {"connect", "input", "read", "cut", "gone"}

TypeOK == /\ ServerTypeOK
          /\ cpc \in [Users -> UserPlaces]
          /\ behind \subseteq Users

(* server.cxx:80 prints message as a string.  A zero byte ends it as long  *)
(* as the sender has heard every answer whole: then no two of its          *)
(* questions are on their way at a time, and each is shorter than the      *)
(* buffer.  A user who is behind sends the next question before the last   *)
(* was answered, and the two may fill the buffer.                          *)
MessageTerminated ==
  /\ TypeOK
  /\ client_sock \in Users \ behind => Len(message) < BUFFSIZE

(* A user who has heard every answer whole never gets the server killed by *)
(* SIGPIPE, whenever it quits: nothing is written to it any more.  One who *)
(* is behind may quit with two questions unanswered.                       *)
KilledByOthers == pc = "killed" => client_sock \notin Users \ behind

Unheard(c) == tcp[c].sent - (Len(tcp[c].echoed) - tcp[c].unread)

(* No user and server wait for each other: a user who waits for an answer  *)
(* to something, and is being served, hears something.  (One whose word    *)
(* began with a zero may wait for the answer to nothing for ever.)         *)
AnswerComes ==
  \A c \in Users :
    (cpc[c] = "read" /\ Accepted(c) /\ Unheard(c) > 0) ~> cpc[c] = "input"
=============================================================================
