------------------------------ MODULE Hiredis ------------------------------
(***************************************************************************)
(* What the Redis clients stand on and the repository does not contain:    *)
(* hiredis' redisAsyncContext with its libevent adapter, and a Redis       *)
(* server with one channel.  A context belongs to one thread; nothing in   *)
(* it is locked.  <<p, k>> with k > 0 is the k-th message of client p, and *)
(* <<s, 0>> the SUBSCRIBE of client s or the confirmation it is answered.  *)
(***************************************************************************)
EXTENDS Naturals, Sequences

CONSTANTS Publishers, Subscribers,
          MaxMessages   \* how many messages one publisher is followed for

Clients == Publishers \cup Subscribers

ASSUME ClientsAssumption ==
  Publishers \cap Subscribers = {} /\ MaxMessages \in Nat

VARIABLES
  ctx,        \* ctx[p]: the redisAsyncContext of client p
  link,       \* link[p]: its connection
  subscribed  \* the clients subscribed at the server

redisVars == <<ctx, link, subscribed>>

Item == Clients \X (0..MaxMessages)

Context ==
  [memory    : {"none", "open", "freed"},
   callbacks : SUBSET {"connect", "disconnect"},   \* those that are set
   connected : BOOLEAN,
   obuf      : Seq(Item),                          \* commands not yet written
   watch     : SUBSET {"read", "write"}]           \* events added to the base

Link ==
  [state  : {"none", "connecting", "up", "down"},
   to     : Seq(Item),
   from   : Seq(Item),
   served : Nat]          \* how many commands the server has executed

RedisInit ==
  /\ ctx = [p \in Clients |-> [memory |-> "none", callbacks |-> {},
                               connected |-> FALSE, obuf |-> << >>, watch |-> {}]]
  /\ link = [p \in Clients |-> [state |-> "none", to |-> << >>, from |-> << >>,
                                served |-> 0]]
  /\ subscribed = {}

RedisTypeOK == /\ ctx \in [Clients -> Context] /\ link \in [Clients -> Link]
               /\ subscribed \subseteq Clients
-----------------------------------------------------------------------------
(* The server and the network. *)

Answers(p) == /\ link[p].state = "connecting"
              /\ \E s \in {"up", "down"} : link' = [link EXCEPT ![p].state = s]
              /\ UNCHANGED <<ctx, subscribed>>

(* SUBSCRIBE is confirmed; a message goes to all that are subscribed, and  *)
(* its publisher gets a reply.                                             *)
Executes(p) ==
  /\ link[p].state = "up" /\ link[p].to # << >>
  /\ LET item == Head(link[p].to)
         hearers == {p} \cup (IF item[2] = 0 THEN {} ELSE subscribed)
     IN /\ link' = [c \in Clients |->
             [link[c] EXCEPT
                !.to = IF c = p THEN Tail(@) ELSE @,
                !.served = IF c = p THEN @ + 1 ELSE @,
                !.from = IF c \in hearers THEN Append(@, item) ELSE @]]
        /\ subscribed' = IF item[2] = 0 THEN subscribed \cup {p} ELSE subscribed
  /\ UNCHANGED ctx

(* The server goes away; what it has sent still arrives. *)
HangsUp(p) == /\ link[p].state = "up"
              /\ link' = [link EXCEPT ![p].state = "down", ![p].to = << >>]
              /\ subscribed' = subscribed \ {p}
              /\ UNCHANGED ctx
-----------------------------------------------------------------------------
(* Calls of the thread that set the context up. *)

\* redisAsyncConnect() and redisLibeventAttach()
AsyncConnect(p) == /\ ctx' = [ctx EXCEPT ![p].memory = "open"]
                   /\ link' = [link EXCEPT ![p].state = "connecting"]
                   /\ UNCHANGED subscribed

(* redisAsyncSetConnectCallback() also asks for the event by which an      *)
(* established connection is noticed.                                      *)
SetConnectCallback(p) ==
  /\ ctx' = [ctx EXCEPT ![p].callbacks = @ \cup {"connect"},
                        ![p].watch = @ \cup {"write"}]
  /\ UNCHANGED <<link, subscribed>>

SetDisconnectCallback(p) ==
  /\ ctx' = [ctx EXCEPT ![p].callbacks = @ \cup {"disconnect"}]
  /\ UNCHANGED <<link, subscribed>>

(* redisAsyncCommand(): obuf, as the caller has seen it, with the command  *)
(* behind it; and then the write event.                                    *)
AppendTo(p, seen, item) == /\ ctx' = [ctx EXCEPT ![p].obuf = Append(seen, item)]
                           /\ UNCHANGED <<link, subscribed>>

AddWrite(p) == /\ ctx' = [ctx EXCEPT ![p].watch = @ \cup {"write"}]
               /\ UNCHANGED <<link, subscribed>>
-----------------------------------------------------------------------------
(* Calls of the thread in event_base_dispatch(). *)

NoEvents(p) == ctx[p].watch = {}

Writable(p) == "write" \in ctx[p].watch /\ link[p].state \notin {"none", "connecting"}
Readable(p) == "read" \in ctx[p].watch /\ (link[p].from # << >> \/ link[p].state = "down")

(* The context ends: its events go, its callbacks are told, its memory is  *)
(* freed, and whoever has a pointer to it keeps it.                        *)
Frees(p) == /\ ctx' = [ctx EXCEPT ![p].memory = "freed", ![p].watch = {}]
            /\ UNCHANGED <<link, subscribed>>

\* redisAsyncHandleWrite(): the connection is there, and write() takes obuf
WritesOut(p) == /\ Writable(p) /\ link[p].state = "up"
                /\ ctx' = [ctx EXCEPT ![p].connected = TRUE]
                /\ link' = [link EXCEPT ![p].to = @ \o ctx[p].obuf]
                /\ UNCHANGED subscribed

WriteFails(p) == Writable(p) /\ link[p].state = "down" /\ Frees(p)

\* what was written is taken off obuf
DropsWritten(p, n) ==
  /\ ctx' = [ctx EXCEPT ![p].obuf = SubSeq(@, n + 1, Len(@))]
  /\ UNCHANGED <<link, subscribed>>

\* _EL_DEL_WRITE or _EL_ADD_WRITE, as obuf was found empty or not; _EL_ADD_READ
Rearms(p, done) ==
  /\ ctx' = [ctx EXCEPT ![p].watch = IF done THEN {"read"} ELSE {"read", "write"}]
  /\ UNCHANGED <<link, subscribed>>

\* redisAsyncHandleRead(): one reply, or the end
ReadsReply(p) == /\ Readable(p) /\ link[p].from # << >>
                 /\ link' = [link EXCEPT ![p].from = Tail(@)]
                 /\ UNCHANGED <<ctx, subscribed>>

ReadsEnd(p) == Readable(p) /\ link[p].from = << >> /\ Frees(p)
=============================================================================
