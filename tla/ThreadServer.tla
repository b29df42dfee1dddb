---------------------------- MODULE ThreadServer ----------------------------
(***************************************************************************)
(* pthread_workproc() and handle_client() of MultiThreads/src/server.cxx:  *)
(* a detached thread per connection.  The thread is handed the address of  *)
(* the variable that the next accept4() overwrites, and its loop has no    *)
(* exit: after close() it goes on using the number.  A system call is one  *)
(* step, at its completion.                                                *)
(***************************************************************************)
EXTENDS Descriptors, Integers, FiniteSets, FiniteSetsExt

CONSTANTS
  MaxThreads,   \* as many threads pthread_create() can create
  OtherFailures \* whether accept4() fails for other reasons than EMFILE

ASSUME ThreadAssumption == MaxThreads \in Nat \ {0} /\ OtherFailures \in BOOLEAN

Threads == 1..MaxThreads

VARIABLES
  pc,           \* pthread_workproc(): "accept" or "create"; "killed" by SIGPIPE
  client_sock,  \* its local variable, and every thread's *arg
  thread,       \* thread[t]: where handle_client() is, and its local variables
  shared        \* history: the connections whose number two threads have held

serverVars == <<pc, client_sock>>
vars == <<tcp, conn, serverVars, thread, shared>>

(* The number of a thread past its first statement; no socket before. *)
Holders(f) == {t \in Threads : thread[t].pc \notin {"none", "start"} /\ thread[t].sock = f}

Crowded == {c \in Conns : \E f \in Fds : conn[f] = c /\ Cardinality(Holders(f)) > 1}

Init ==
  /\ TcpInit /\ AllClosed
  /\ pc = "accept" /\ client_sock = 0
  /\ thread = [t \in Threads |-> [pc |-> "none", sock |-> 0, buf |-> << >>]]
  /\ shared = {}
-----------------------------------------------------------------------------
(* pthread_workproc() *)

AcceptClient(c) ==
  /\ pc = "accept" /\ pc' = "create"
  /\ \E f \in Fds : AcceptAs(c, f) /\ client_sock' = f
  /\ UNCHANGED thread
  /\ shared' = shared \cup Crowded'

(* An answer -1, which nobody tests: the thread is created all the same. *)
AcceptFails ==
  /\ pc = "accept" /\ (OpenFds = Fds \/ OtherFailures)
  /\ pc' = "create" /\ client_sock' = -1
  /\ UNCHANGED <<tcp, conn, thread, shared>>

NewThread(t) == thread' = [thread EXCEPT ![t].pc = "start"]

(* A pthread_create() that fails, for want of threads, is not noticed. *)
CreateThread ==
  /\ pc = "create" /\ pc' = "accept"
  /\ LET idle == {t \in Threads : thread[t].pc = "none"}
     IN IF idle = {} THEN UNCHANGED thread ELSE NewThread(Min(idle))
  /\ UNCHANGED <<tcp, conn, client_sock, shared>>
-----------------------------------------------------------------------------
(* handle_client() in thread t *)

At(t, place) == pc # "killed" /\ thread[t].pc = place

\* int client_sock = *(int *)arg
ReadsArg(t) ==
  /\ At(t, "start")
  /\ thread' = [thread EXCEPT ![t].pc = "read", ![t].sock = client_sock]
  /\ UNCHANGED <<tcp, conn, serverVars>>
  /\ shared' = shared \cup Crowded'

StaticBuf(t, data) ==                              \* mutant of Filled
  [u \in Threads |-> [thread[u] EXCEPT !.buf = data,
                                       !.pc = IF u = t THEN "write" ELSE @]]

(* buf, as far as str_len says it is valid *)
Filled(t, data) == [thread EXCEPT ![t].buf = data, ![t].pc = "write"]

(* A read() that fails, also because the number is closed, is followed by  *)
(* a write() of (size_t)-1 bytes, which fails without an effect.           *)
Reads(t) ==
  /\ At(t, "read") /\ thread[t].sock \in OpenFds
  /\ LET c == conn[thread[t].sock] IN
     \/ ReadData(c) /\ thread' = Filled(t, Data(c))
     \/ ReadFails(c) /\ UNCHANGED thread
     \/ ReadEof(c) /\ thread' = [thread EXCEPT ![t].pc = "close"]
  /\ UNCHANGED <<conn, serverVars, shared>>

WritesTwice(t) ==                                  \* mutant of ReadsOn
  \/ thread' = [thread EXCEPT ![t].pc = "read", ![t].buf = << >>]
  \/ UNCHANGED thread

ReadsOn(t) == thread' = [thread EXCEPT ![t].pc = "read", ![t].buf = << >>]

(* The number may stand for another connection by now, or for none. *)
Writes(t) ==
  /\ At(t, "write")
  /\ LET c == conn[thread[t].sock] IN
     IF c = NONE THEN ReadsOn(t) /\ UNCHANGED <<tcp, pc>>
     ELSE \/ /\ WriteAll(c, thread[t].buf) \/ WriteFails(c)
             /\ ReadsOn(t) /\ UNCHANGED pc
          \/ WriteKills(c) /\ pc' = "killed" /\ UNCHANGED thread
  /\ UNCHANGED <<conn, client_sock, shared>>

LeavesOpen(t) == UNCHANGED conn                    \* mutant of ClosesNumber
ClosesNumber(t) == CloseFd(thread[t].sock)

Closes(t) == /\ At(t, "close")
             /\ ClosesNumber(t) /\ ReadsOn(t)
             /\ UNCHANGED <<tcp, serverVars, shared>>

ThreadStep(t) == ReadsArg(t) \/ Reads(t) \/ Writes(t) \/ Closes(t)
-----------------------------------------------------------------------------
MainStep == (\E c \in Conns : AcceptClient(c)) \/ AcceptFails \/ CreateThread

Next == \/ MainStep
        \/ \E t \in Threads : ThreadStep(t)
        \/ \E c \in Conns : Outside(c) /\ UNCHANGED <<conn, serverVars, thread, shared>>

Spec == Init /\ [][Next]_vars

(* Every thread is scheduled, and resets arrive. *)
FairSpec == /\ Spec /\ WF_vars(MainStep)
            /\ \A t \in Threads : WF_vars(ThreadStep(t))
            /\ \A c \in Conns : WF_tcp(ResetArrives(c))
-----------------------------------------------------------------------------
TypeOK ==
  /\ tcp \in [Conns -> Connection]
  /\ conn \in [Fds -> Conns \cup {NONE}]
  /\ pc \in {"accept", "create", "killed"}
  /\ client_sock \in Fds \cup {0, -1}
  /\ thread \in [Threads -> [pc : {"none", "start", "read", "write", "close"},
                             sock : Fds \cup {0, -1}, buf : Buffer]]
  /\ shared \subseteq Conns

(* Where the bytes of the clients are *)
Spots == ({"up", "echoed"} \X Conns) \cup ({"buf"} \X Threads)

Bytes == [s \in Spots |-> CASE s[1] = "up"     -> tcp[s[2]].up
                            [] s[1] = "echoed" -> tcp[s[2]].echoed
                            [] s[1] = "buf"    -> thread[s[2]].buf]

(* Whatever threads share a number, no byte a client sent is returned      *)
(* twice, to whomever: it is in one receive queue, in one buf, has been    *)
(* returned once, or was dropped.                                          *)
NoByteTwice ==
  /\ TypeOK
  /\ \A s, t \in Spots : \A i \in 1..Len(Bytes[s]), j \in 1..Len(Bytes[t]) :
       Bytes[s][i] = Bytes[t][j] => s = t /\ i = j

Own(c) == tcp[c].echoed = [i \in 1..Len(tcp[c].echoed) |-> <<c, i>>]

(* Two threads on one number are the only cause of trouble: a connection   *)
(* that never had two gets its own bytes back, in order and without gaps,  *)
(* and is not closed before its client has closed it.                      *)
IntactUnlessShared ==
  \A c \in Conns \ shared : Own(c) /\ (Released(c) => Closed(c))

(* A connection whose client has closed it is closed by any thread that    *)
(* holds its number, unless a write() after a reset ended the process.     *)
ConnectionsReleased ==
  \A c \in Conns :
    (Closed(c) /\ \E f \in Fds : conn[f] = c /\ Holders(f) # {})
      ~> (pc = "killed" \/ Released(c))

(* server.cxx:283: the messages of every client are answered *)
EverythingEchoed ==
  \A c \in Conns : \A n \in 1..MaxBytes :
    (Accepted(c) /\ tcp[c].sent = n)
      ~> (Len(tcp[c].echoed) >= n \/ Closed(c) \/ pc = "killed")
=============================================================================
