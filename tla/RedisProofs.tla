---------------------------- MODULE RedisProofs ----------------------------
(***************************************************************************)
(* Safety of RedisPubSub for any publishers and subscribers, any number of *)
(* messages and any interleaving of their threads with the server.         *)
(***************************************************************************)
EXTENDS RedisPubSub, SequenceTheorems, TLAPS

Setting == {"init", "connect", "attached", "started", "callback", "post"}

(* main() is done with connect(), which succeeded *)
IsSet(p) == main[p] \notin Setting \cup {"returned"}

(* event_base_dispatch() has been called *)
Dispatched(p) == event[p] \notin {"none", "wait"}

(* What the main thread has done of connect() is in the context, and the   *)
(* semaphore is posted only after the last of it.                          *)
SettingUp(p) ==
  /\ main[p] \in {"init", "connect", "returned"} => ctx[p].memory = "none"
  /\ main[p] \in {"init", "connect", "attached"} => event[p] = "none"
  /\ main[p] \in {"attached", "started", "callback", "post"} => ctx[p].memory = "open"
  /\ main[p] \in {"callback", "post"} =>
       "connect" \in ctx[p].callbacks /\ "write" \in ctx[p].watch
  /\ main[p] = "post" => ctx[p].callbacks = {"connect", "disconnect"}
  /\ ~IsSet(p) => ~Dispatched(p) /\ sem[p] = 0
  /\ IsSet(p) => ctx[p].callbacks = {"connect", "disconnect"} /\ ctx[p].memory # "none"

(* The event thread never lets a context go that still has an event to     *)
(* come, and gives it up only when the connection is lost.                 *)
Dispatching(p) ==
  /\ ~Dispatched(p) => ~ctx[p].connected /\ ctx[p].memory # "freed"
  /\ ~Dispatched(p) /\ IsSet(p) => "write" \in ctx[p].watch
  /\ Dispatched(p) /\ ctx[p].memory = "open" => ctx[p].watch # {}
  /\ event[p] \in {"written", "disarm", "rearm"} => ctx[p].memory = "open"
  /\ event[p] = "ended" => ctx[p].memory = "freed"
  /\ ctx[p].memory = "freed" => ctx[p].watch = {} /\ link[p].state = "down"

(* obuf changes under a command only if the event thread is there, too. *)
Commanding(p) ==
  /\ main[p] = "append" => p \in raced \/ ctx[p].obuf = seen[p]
  /\ main[p] = "undefined" => p \in raced \/ link[p].state = "down"

Counting(p) ==
  /\ p \in Publishers => /\ given[p] <= MaxMessages
                         /\ main[p] \in {"append", "arm"} => given[p] < MaxMessages
  /\ p \notin Publishers => /\ given[p] <= 1
                            /\ main[p] \notin {"asleep", "undefined"} => given[p] = 0

Good(p) == SettingUp(p) /\ Dispatching(p) /\ Commanding(p) /\ Counting(p)

Inv == TypeOK /\ \A p \in Clients : Good(p)

(* What Good says of a client does not change with what happens to others. *)
Same(q) ==
  /\ main'[q] = main[q] /\ event'[q] = event[q] /\ sem'[q] = sem[q]
  /\ given'[q] = given[q] /\ seen'[q] = seen[q] /\ ctx'[q] = ctx[q]
  /\ link'[q].state = link[q].state
  /\ q \in raced => q \in raced'

(* A client that a step leaves alone stays good. *)
LEMMA SameGood == ASSUME NEW q, Good(q), Same(q) PROVE Good(q)'
BY DEF Good, Same, SettingUp, Dispatching, Commanding, Counting, IsSet, Dispatched, Setting
-----------------------------------------------------------------------------
(* What the calls of hiredis and the server do. *)

RedisSame(q) == ctx'[q] = ctx[q] /\ link'[q].state = link[q].state

Alone(p) == RedisTypeOK' /\ \A q \in Clients \ {p} : RedisSame(q)

(* A change of one context leaves the others, and the connections, alone.  *)
LEMMA ContextAlone ==
  ASSUME RedisTypeOK, NEW p \in Clients, NEW c \in Context,
         ctx' = [ctx EXCEPT ![p] = c], UNCHANGED <<link, subscribed>>
  PROVE  Alone(p) /\ ctx'[p] = c /\ link'[p].state = link[p].state
<1>1. ctx' \in [Clients -> Context]
  BY DEF RedisTypeOK
<1>2. ctx'[p] = c /\ \A q \in Clients \ {p} : ctx'[q] = ctx[q]
  BY DEF RedisTypeOK
<1>3. QED
  BY <1>1, <1>2 DEF RedisTypeOK, Alone, RedisSame

(* A change of one connection leaves the others, and the contexts, alone.  *)
LEMMA LinkAlone ==
  ASSUME RedisTypeOK, NEW p \in Clients, NEW l \in Link,
         link' = [link EXCEPT ![p] = l], UNCHANGED ctx, subscribed' \subseteq Clients
  PROVE  Alone(p) /\ link'[p] = l /\ ctx'[p] = ctx[p]
<1>1. link' \in [Clients -> Link]
  BY DEF RedisTypeOK
<1>2. RedisTypeOK'
  BY <1>1 DEF RedisTypeOK
<1>3. link'[p] = l /\ \A q \in Clients \ {p} : link'[q] = link[q]
  BY DEF RedisTypeOK
<1>4. QED
  BY <1>2, <1>3 DEF Alone, RedisSame

(* redisAsyncConnect() opens the context. *)
LEMMA ConnectDoes ==
  ASSUME RedisTypeOK, NEW p \in Clients, AsyncConnect(p)
  PROVE  /\ Alone(p)
         /\ ctx'[p] = [ctx[p] EXCEPT !.memory = "open"]
<1>1. ctx[p] \in Context /\ link[p] \in Link
  BY DEF RedisTypeOK
<1>2. [ctx[p] EXCEPT !.memory = "open"] \in Context
  BY <1>1 DEF Context
<1>3. ctx' \in [Clients -> Context] /\ ctx'[p] = [ctx[p] EXCEPT !.memory = "open"]
      /\ \A q \in Clients \ {p} : ctx'[q] = ctx[q]
  BY <1>2 DEF RedisTypeOK, AsyncConnect
<1>4. [link[p] EXCEPT !.state = "connecting"] \in Link
  BY <1>1 DEF Link
<1>5. link' \in [Clients -> Link] /\ \A q \in Clients \ {p} : link'[q] = link[q]
  BY <1>4 DEF RedisTypeOK, AsyncConnect
<1>6. RedisTypeOK'
  BY <1>3, <1>5 DEF RedisTypeOK, AsyncConnect
<1>7. QED
  BY <1>3, <1>5, <1>6 DEF Alone, RedisSame

(* The end of a context: its memory and its events go. *)
LEMMA FreesDoes ==
  ASSUME RedisTypeOK, NEW p \in Clients, Frees(p)
  PROVE  /\ Alone(p) /\ link'[p].state = link[p].state
         /\ ctx'[p] = [ctx[p] EXCEPT !.memory = "freed", !.watch = {}]
<1>1. ctx[p] \in Context
  BY DEF RedisTypeOK
<1>2. [ctx[p] EXCEPT !.memory = "freed", !.watch = {}] \in Context
  BY <1>1 DEF Context
<1>3. /\ ctx' \in [Clients -> Context]
      /\ ctx'[p] = [ctx[p] EXCEPT !.memory = "freed", !.watch = {}]
      /\ \A q \in Clients \ {p} : ctx'[q] = ctx[q]
  BY <1>2 DEF Frees, RedisTypeOK
<1>4. QED
  BY <1>3 DEF Frees, Alone, RedisSame, RedisTypeOK

(* The calls that set the context up or give it a command, in fields. *)
LEMMA CallsDo ==
  ASSUME RedisTypeOK, NEW p \in Clients
  PROVE  /\ SetConnectCallback(p) =>
              /\ Alone(p) /\ link'[p].state = link[p].state
              /\ ctx'[p] = [ctx[p] EXCEPT !.callbacks = @ \cup {"connect"},
                                          !.watch = @ \cup {"write"}]
         /\ SetDisconnectCallback(p) =>
              /\ Alone(p) /\ link'[p].state = link[p].state
              /\ ctx'[p] = [ctx[p] EXCEPT !.callbacks = @ \cup {"disconnect"}]
         /\ AddWrite(p) =>
              /\ Alone(p) /\ link'[p].state = link[p].state
              /\ ctx'[p] = [ctx[p] EXCEPT !.watch = @ \cup {"write"}]
<1>1. ctx[p] \in Context
  BY DEF RedisTypeOK
<1>2. ASSUME SetConnectCallback(p)
      PROVE  /\ Alone(p) /\ link'[p].state = link[p].state
             /\ ctx'[p] = [ctx[p] EXCEPT !.callbacks = @ \cup {"connect"},
                                         !.watch = @ \cup {"write"}]
  <2>1. [ctx[p] EXCEPT !.callbacks = @ \cup {"connect"}, !.watch = @ \cup {"write"}]
          \in Context
    BY <1>1 DEF Context
  <2>2. /\ ctx' \in [Clients -> Context]
        /\ ctx'[p] = [ctx[p] EXCEPT !.callbacks = @ \cup {"connect"},
                                    !.watch = @ \cup {"write"}]
        /\ \A q \in Clients \ {p} : ctx'[q] = ctx[q]
    BY <1>2, <2>1 DEF SetConnectCallback, RedisTypeOK
  <2>3. QED
    BY <1>2, <2>2 DEF SetConnectCallback, Alone, RedisSame, RedisTypeOK
<1>3. ASSUME SetDisconnectCallback(p)
      PROVE  /\ Alone(p) /\ link'[p].state = link[p].state
             /\ ctx'[p] = [ctx[p] EXCEPT !.callbacks = @ \cup {"disconnect"}]
  <2>1. [ctx[p] EXCEPT !.callbacks = @ \cup {"disconnect"}] \in Context
    BY <1>1 DEF Context
  <2>2. QED
    BY <1>3, <2>1, ContextAlone DEF SetDisconnectCallback
<1>4. ASSUME AddWrite(p)
      PROVE  /\ Alone(p) /\ link'[p].state = link[p].state
             /\ ctx'[p] = [ctx[p] EXCEPT !.watch = @ \cup {"write"}]
  <2>1. [ctx[p] EXCEPT !.watch = @ \cup {"write"}] \in Context
    BY <1>1 DEF Context
  <2>2. QED
    BY <1>4, <2>1, ContextAlone DEF AddWrite
<1>5. QED
  BY <1>2, <1>3, <1>4

(* redisAsyncCommand() writes the obuf it has seen, with the command. *)
LEMMA AppendDoes ==
  ASSUME RedisTypeOK, NEW p \in Clients, NEW obuf \in Seq(Item), NEW item \in Item,
         AppendTo(p, obuf, item)
  PROVE  /\ Alone(p) /\ link'[p].state = link[p].state
         /\ \E new \in Seq(Item) : ctx'[p] = [ctx[p] EXCEPT !.obuf = new]
<1>1. ctx[p] \in Context
  BY DEF RedisTypeOK
<1>2. Append(obuf, item) \in Seq(Item)
  OBVIOUS
<1>3. [ctx[p] EXCEPT !.obuf = Append(obuf, item)] \in Context
  BY <1>1, <1>2 DEF Context
<1>4. QED
  BY <1>2, <1>3, ContextAlone DEF AppendTo

(* The write handler drops the beginning of obuf. *)
LEMMA DropDoes ==
  ASSUME RedisTypeOK, NEW p \in Clients, NEW n \in Nat, DropsWritten(p, n)
  PROVE  /\ Alone(p) /\ link'[p].state = link[p].state
         /\ \E obuf \in Seq(Item) : ctx'[p] = [ctx[p] EXCEPT !.obuf = obuf]
<1> DEFINE rest == SubSeq(ctx[p].obuf, n + 1, Len(ctx[p].obuf))
<1>1. ctx[p] \in Context
  BY DEF RedisTypeOK
<1>2. ctx[p].obuf \in Seq(Item)
  BY <1>1 DEF Context
<1>3. rest \in Seq(Item)
  BY <1>2, SubSeqProperties
<1>4. [ctx[p] EXCEPT !.obuf = rest] \in Context
  BY <1>1, <1>3 DEF Context
<1>5. QED
  BY <1>3, <1>4, ContextAlone DEF DropsWritten

(* It leaves the context an event to come. *)
LEMMA RearmDoes ==
  ASSUME RedisTypeOK, NEW p \in Clients, NEW done \in BOOLEAN, Rearms(p, done)
  PROVE  /\ Alone(p) /\ link'[p].state = link[p].state
         /\ \E w \in SUBSET {"read", "write"} :
              w # {} /\ ctx'[p] = [ctx[p] EXCEPT !.watch = w]
<1> DEFINE w == IF done THEN {"read"} ELSE {"read", "write"}
<1>1. ctx[p] \in Context
  BY DEF RedisTypeOK
<1>2. w \in SUBSET {"read", "write"} /\ w # {}
  OBVIOUS
<1>3. [ctx[p] EXCEPT !.watch = w] \in Context
  BY <1>1, <1>2 DEF Context
<1>4. QED
  BY <1>2, <1>3, ContextAlone DEF Rearms

(* Writing obuf out needs a connection, and notices it. *)
LEMMA WriteDoes ==
  ASSUME RedisTypeOK, NEW p \in Clients, WritesOut(p)
  PROVE  /\ Alone(p) /\ link'[p].state = link[p].state
         /\ ctx'[p] = [ctx[p] EXCEPT !.connected = TRUE]
         /\ ctx[p].watch # {} /\ ctx[p].obuf \in Seq(Item)
<1>1. ctx[p] \in Context /\ link[p] \in Link
  BY DEF RedisTypeOK
<1>2. [ctx[p] EXCEPT !.connected = TRUE] \in Context /\ ctx[p].obuf \in Seq(Item)
  BY <1>1 DEF Context
<1>3. link[p].to \o ctx[p].obuf \in Seq(Item)
  BY <1>1, <1>2, ConcatProperties DEF Link
<1>4. [link[p] EXCEPT !.to = link[p].to \o ctx[p].obuf] \in Link
  BY <1>1, <1>3 DEF Link
<1>5. ctx' \in [Clients -> Context] /\ ctx'[p] = [ctx[p] EXCEPT !.connected = TRUE]
      /\ \A q \in Clients \ {p} : ctx'[q] = ctx[q]
  BY <1>2 DEF RedisTypeOK, WritesOut
<1>6. link' \in [Clients -> Link] /\ link'[p].state = link[p].state
      /\ \A q \in Clients \ {p} : link'[q] = link[q]
  BY <1>4 DEF RedisTypeOK, WritesOut, Link
<1>7. RedisTypeOK'
  BY <1>5, <1>6 DEF RedisTypeOK, WritesOut
<1>8. QED
  BY <1>2, <1>5, <1>6, <1>7 DEF Alone, RedisSame, WritesOut, Writable

(* Reading takes a reply off the connection. *)
LEMMA ReadDoes ==
  ASSUME RedisTypeOK, NEW p \in Clients, ReadsReply(p)
  PROVE  /\ Alone(p) /\ link'[p].state = link[p].state /\ ctx'[p] = ctx[p]
         /\ Head(link[p].from) \in Item
<1>1. link[p] \in Link
  BY DEF RedisTypeOK
<1>2. link[p].from \in Seq(Item) /\ link[p].from # << >>
  BY <1>1 DEF Link, ReadsReply
<1>3. Tail(link[p].from) \in Seq(Item) /\ Head(link[p].from) \in Item
  BY <1>2, HeadTailProperties
<1>4. [link[p] EXCEPT !.from = Tail(@)] \in Link
  BY <1>1, <1>3 DEF Link
<1>5. link' = [link EXCEPT ![p] = [link[p] EXCEPT !.from = Tail(@)]]
  BY DEF ReadsReply
<1>6. subscribed' \subseteq Clients
  BY DEF ReadsReply, RedisTypeOK
<1>7. Alone(p) /\ link'[p] = [link[p] EXCEPT !.from = Tail(@)] /\ ctx'[p] = ctx[p]
  BY <1>4, <1>5, <1>6, LinkAlone DEF ReadsReply
<1>8. QED
  BY <1>1, <1>3, <1>7 DEF Link

(* The server and the network keep the contexts, and no connection that is *)
(* lost comes back.                                                        *)
LEMMA ServerDoes ==
  ASSUME RedisTypeOK, NEW p \in Clients, Answers(p) \/ Executes(p) \/ HangsUp(p)
  PROVE  /\ RedisTypeOK' /\ ctx' = ctx
         /\ \A q \in Clients : link[q].state = "down" => link'[q].state = "down"
<1>1. link[p] \in Link
  BY DEF RedisTypeOK
<1>2. ASSUME Answers(p)
      PROVE  /\ RedisTypeOK' /\ ctx' = ctx
             /\ \A q \in Clients : link[q].state = "down" => link'[q].state = "down"
  <2>1. PICK s \in {"up", "down"} : link' = [link EXCEPT ![p].state = s]
    BY <1>2 DEF Answers
  <2>2. [link[p] EXCEPT !.state = s] \in Link
    BY <1>1 DEF Link
  <2>3. link' \in [Clients -> Link]
        /\ \A q \in Clients \ {p} : link'[q] = link[q]
    BY <2>1, <2>2 DEF RedisTypeOK
  <2>4. QED
    BY <1>2, <2>3 DEF RedisTypeOK, Answers
<1>3. ASSUME Executes(p)
      PROVE  /\ RedisTypeOK' /\ ctx' = ctx
             /\ \A q \in Clients : link[q].state = "down" => link'[q].state = "down"
  <2>1. link[p].to \in Seq(Item) /\ link[p].to # << >>
    BY <1>1, <1>3 DEF Link, Executes
  <2>2. Tail(link[p].to) \in Seq(Item) /\ Head(link[p].to) \in Item
    BY <2>1, HeadTailProperties
  <2>3. PICK hearers :
          link' = [c \in Clients |->
                     [link[c] EXCEPT
                        !.to = IF c = p THEN Tail(@) ELSE @,
                        !.served = IF c = p THEN @ + 1 ELSE @,
                        !.from = IF c \in hearers THEN Append(@, Head(link[p].to)) ELSE @]]
    BY <1>3 DEF Executes
  <2>4. ASSUME NEW c \in Clients
        PROVE  link'[c] \in Link /\ link'[c].state = link[c].state
    <3>1. link[c] \in Link
      BY DEF RedisTypeOK
    <3>2. /\ link[c].served \in Nat /\ link[c].served + 1 \in Nat
          /\ link[c].from \in Seq(Item)
          /\ Append(link[c].from, Head(link[p].to)) \in Seq(Item)
      BY <2>2, <3>1 DEF Link
    <3>3. QED
      BY <2>2, <2>3, <3>1, <3>2 DEF Link
  <2>5. link' \in [Clients -> Link]
    BY <2>3, <2>4
  <2>6. ctx' = ctx /\ subscribed' \subseteq Clients
    BY <1>3 DEF RedisTypeOK, Executes
  <2>7. QED
    BY <2>4, <2>5, <2>6 DEF RedisTypeOK
<1>4. ASSUME HangsUp(p)
      PROVE  /\ RedisTypeOK' /\ ctx' = ctx
             /\ \A q \in Clients : link[q].state = "down" => link'[q].state = "down"
  <2> DEFINE down == [link[p] EXCEPT !.state = "down", !.to = << >>]
  <2>0. << >> \in Seq(Item)
    OBVIOUS
  <2>1. down \in Link
    BY <1>1, <2>0 DEF Link
  <2>2. link \in [Clients -> Link]
    BY DEF RedisTypeOK
  <2>3. /\ link' \in [Clients -> Link] /\ link'[p] = down
        /\ \A q \in Clients \ {p} : link'[q] = link[q]
    BY <1>4, <2>1, <2>2 DEF HangsUp
  <2>4. link'[p].state = "down"
    BY <1>1, <2>3 DEF Link
  <2>5. QED
    BY <1>4, <2>3, <2>4 DEF RedisTypeOK, HangsUp
<1>5. QED
  BY <1>2, <1>3, <1>4
-----------------------------------------------------------------------------
(* The invariant holds initially and after every step. *)

(* It is enough that a step is well-typed, keeps its client good and       *)
(* leaves the others alone.                                                *)
LEMMA Enough ==
  ASSUME Inv, NEW p \in Clients, TypeOK', Good(p)', \A q \in Clients \ {p} : Same(q)
  PROVE  Inv'
<1>1. ASSUME NEW q \in Clients \ {p} PROVE Good(q)'
  BY SameGood DEF Inv
<1>2. QED
  BY <1>1 DEF Inv

(* An assignment to one element of an array. *)
LEMMA Assigned ==
  ASSUME NEW T, NEW f \in [Clients -> T], NEW p \in Clients, NEW v \in T
  PROVE  /\ [f EXCEPT ![p] = v] \in [Clients -> T] /\ [f EXCEPT ![p] = v][p] = v
         /\ \A q \in Clients \ {p} : [f EXCEPT ![p] = v][q] = f[q]
OBVIOUS

(* The main thread goes from one place to another. *)
LEMMA GotoDoes ==
  ASSUME main \in [Clients -> Places], NEW p \in Clients, NEW from, NEW to \in Places,
         Goto(p, from, to)
  PROVE  /\ main' \in [Clients -> Places] /\ main[p] = from /\ main'[p] = to
         /\ \A q \in Clients \ {p} : main'[q] = main[q]
BY DEF Goto

(* At the beginning nothing is set up. *)
LEMMA InitInv == Init => Inv
<1> SUFFICES ASSUME Init PROVE Inv
  OBVIOUS
<1>1. << >> \in Seq(Item)
  OBVIOUS
<1>2. ctx \in [Clients -> Context]
  BY <1>1 DEF Init, RedisInit, Context
<1>3. link \in [Clients -> Link]
  BY <1>1 DEF Init, RedisInit, Link
<1>4. RedisTypeOK
  BY <1>2, <1>3 DEF Init, RedisInit, RedisTypeOK
<1>5. seen \in [Clients -> Seq(Item)] /\ heard \in [Subscribers -> Seq(Item)]
  BY <1>1 DEF Init
<1>6. given \in [Clients -> 0..MaxMessages + 1] /\ sem \in [Clients -> 0..1]
  BY ClientsAssumption DEF Init
<1>7. TypeOK
  BY <1>4, <1>5, <1>6 DEF Init, TypeOK, Places, EventPlaces
<1>8. ASSUME NEW p \in Clients PROVE Good(p)
  <2>1. SettingUp(p)
    BY DEF Init, RedisInit, SettingUp, IsSet, Dispatched, Setting
  <2>2. Dispatching(p)
    BY DEF Init, RedisInit, Dispatching, IsSet, Dispatched, Setting
  <2>3. Commanding(p) /\ Counting(p)
    BY ClientsAssumption DEF Init, Commanding, Counting
  <2>4. QED
    BY <2>1, <2>2, <2>3 DEF Good
<1>9. QED
  BY <1>7, <1>8 DEF Inv

(* init() *)
LEMMA InitsInv == ASSUME Inv, NEW p \in Clients, Inits(p) PROVE Inv'
<1>1. main \in [Clients -> Places] /\ Good(p)
  BY DEF Inv, TypeOK
<1>2. sem \in [Clients -> 0..1]
  BY DEF Inv, TypeOK
<1>3. /\ main' \in [Clients -> Places]
      /\ main[p] = "init" /\ main'[p] \in {"connect", "returned"}
      /\ \A q \in Clients \ {p} : main'[q] = main[q]
  BY <1>1, GotoDoes DEF Inits, Places
<1>4. /\ sem' \in [Clients -> 0..1] /\ sem'[p] \in {0, sem[p]}
      /\ \A q \in Clients \ {p} : sem'[q] = sem[q]
  BY <1>2 DEF Inits, SemInit
<1>5. UNCHANGED <<ctx, link, subscribed, event, given, seen, written, heard, raced>>
  BY DEF Inits, redisVars, local
<1>6. TypeOK'
  BY <1>3, <1>4, <1>5 DEF Inv, TypeOK, RedisTypeOK
<1>7. Good(p)'
  BY <1>1, <1>3, <1>4, <1>5 DEF Good, SettingUp, Dispatching, Commanding, Counting,
                                IsSet, Dispatched, Setting
<1>8. QED
  BY <1>3, <1>4, <1>5, <1>6, <1>7, Enough DEF Same

(* connect() up to the context, or to its failure *)
LEMMA ConnectsInv == ASSUME Inv, NEW p \in Clients, Connects(p) PROVE Inv'
<1>1. main \in [Clients -> Places] /\ RedisTypeOK /\ Good(p)
  BY DEF Inv, TypeOK
<1>2. UNCHANGED <<event, sem, given, seen, written, heard, raced>>
  BY DEF Connects, local
<1>3. CASE Goto(p, "connect", "attached") /\ AsyncConnect(p)
  <2>1. /\ main' \in [Clients -> Places] /\ main[p] = "connect" /\ main'[p] = "attached"
        /\ \A q \in Clients \ {p} : main'[q] = main[q]
    BY <1>1, <1>3, GotoDoes DEF Places
  <2>2. Alone(p) /\ ctx'[p] = [ctx[p] EXCEPT !.memory = "open"]
    BY <1>1, <1>3, ConnectDoes
  <2>3. ctx[p] \in Context
    BY <1>1 DEF RedisTypeOK
  <2>4. TypeOK'
    BY <1>2, <2>1, <2>2 DEF Inv, TypeOK, Alone
  <2>5. Good(p)'
    BY <1>1, <1>2, <2>1, <2>2, <2>3
    DEF Context, Good, SettingUp, Dispatching, Commanding, Counting, IsSet, Dispatched,
        Setting
  <2>6. QED
    BY <1>2, <2>1, <2>2, <2>4, <2>5, Enough DEF Same, Alone, RedisSame
<1>4. CASE GivesUp(p) /\ UNCHANGED redisVars
  <2>1. /\ main' \in [Clients -> Places] /\ main[p] = "connect" /\ main'[p] = "returned"
        /\ \A q \in Clients \ {p} : main'[q] = main[q]
    BY <1>1, <1>4, GotoDoes DEF Places, GivesUp
  <2>2. UNCHANGED <<ctx, link, subscribed>>
    BY <1>4 DEF redisVars
  <2>3. TypeOK'
    BY <1>2, <2>1, <2>2 DEF Inv, TypeOK, RedisTypeOK
  <2>4. Good(p)'
    BY <1>1, <1>2, <2>1, <2>2
    DEF Good, SettingUp, Dispatching, Commanding, Counting, IsSet, Dispatched, Setting
  <2>5. QED
    BY <1>2, <2>1, <2>2, <2>3, <2>4, Enough DEF Same
<1>5. QED
  BY <1>3, <1>4 DEF Connects

(* pthread_create() and pthread_detach() *)
LEMMA StartsThreadInv == ASSUME Inv, NEW p \in Clients, StartsThread(p) PROVE Inv'
<1>1. main \in [Clients -> Places] /\ Good(p)
  BY DEF Inv, TypeOK
<1>2. event \in [Clients -> EventPlaces]
  BY DEF Inv, TypeOK
<1>3. /\ main' \in [Clients -> Places] /\ main[p] = "attached" /\ main'[p] = "started"
      /\ \A q \in Clients \ {p} : main'[q] = main[q]
  BY <1>1, GotoDoes DEF StartsThread, Places
<1>4. /\ event' \in [Clients -> EventPlaces] /\ event'[p] = "wait"
      /\ \A q \in Clients \ {p} : event'[q] = event[q]
  BY <1>2 DEF StartsThread, EventPlaces
<1>5. UNCHANGED <<ctx, link, subscribed, sem, given, seen, written, heard, raced>>
  BY DEF StartsThread, redisVars, local
<1>6. TypeOK'
  BY <1>3, <1>4, <1>5 DEF Inv, TypeOK, RedisTypeOK
<1>7. Good(p)'
  BY <1>1, <1>3, <1>4, <1>5 DEF Good, SettingUp, Dispatching, Commanding, Counting,
                                IsSet, Dispatched, Setting
<1>8. QED
  BY <1>3, <1>4, <1>5, <1>6, <1>7, Enough DEF Same

(* The two callbacks are set; the semaphore is still 0. *)
LEMMA SetsCallbacksInv == ASSUME Inv, NEW p \in Clients, SetsCallbacks(p) PROVE Inv'
<1>1. main \in [Clients -> Places] /\ RedisTypeOK /\ Good(p)
  BY DEF Inv, TypeOK
<1>2. ctx[p] \in Context
  BY <1>1 DEF RedisTypeOK
<1>3. UNCHANGED <<event, sem, given, seen, written, heard, raced>>
  BY DEF SetsCallbacks, local
<1>4. CASE Goto(p, "started", "callback") /\ SetConnectCallback(p)
  <2>1. /\ main' \in [Clients -> Places] /\ main[p] = "started" /\ main'[p] = "callback"
        /\ \A q \in Clients \ {p} : main'[q] = main[q]
    BY <1>1, <1>4, GotoDoes DEF Places
  <2>2. /\ Alone(p) /\ link'[p].state = link[p].state
        /\ ctx'[p] = [ctx[p] EXCEPT !.callbacks = @ \cup {"connect"},
                                    !.watch = @ \cup {"write"}]
    BY <1>1, <1>4, CallsDo
  <2>3. TypeOK'
    BY <1>3, <2>1, <2>2 DEF Inv, TypeOK, Alone
  <2>4. Good(p)'
    BY <1>1, <1>2, <1>3, <2>1, <2>2
    DEF Context, Good, SettingUp, Dispatching, Commanding, Counting, IsSet, Dispatched,
        Setting
  <2>5. QED
    BY <1>3, <2>1, <2>2, <2>3, <2>4, Enough DEF Same, Alone, RedisSame
<1>5. CASE Goto(p, "callback", "post") /\ SetDisconnectCallback(p)
  <2>1. /\ main' \in [Clients -> Places] /\ main[p] = "callback" /\ main'[p] = "post"
        /\ \A q \in Clients \ {p} : main'[q] = main[q]
    BY <1>1, <1>5, GotoDoes DEF Places
  <2>2. /\ Alone(p) /\ link'[p].state = link[p].state
        /\ ctx'[p] = [ctx[p] EXCEPT !.callbacks = @ \cup {"disconnect"}]
    BY <1>1, <1>5, CallsDo
  <2>3. TypeOK'
    BY <1>3, <2>1, <2>2 DEF Inv, TypeOK, Alone
  <2>4. ctx[p].callbacks \cup {"disconnect"} = {"connect", "disconnect"}
    BY <1>1, <1>2, <2>1 DEF Context, Good, SettingUp
  <2>5. Good(p)'
    BY <1>1, <1>2, <1>3, <2>1, <2>2, <2>4
    DEF Context, Good, SettingUp, Dispatching, Commanding, Counting, IsSet, Dispatched,
        Setting
  <2>6. QED
    BY <1>3, <2>1, <2>2, <2>3, <2>5, Enough DEF Same, Alone, RedisSame
<1>6. QED
  BY <1>4, <1>5 DEF SetsCallbacks

(* sem_post(): all is set up *)
LEMMA PostsInv == ASSUME Inv, NEW p \in Clients, Posts(p) PROVE Inv'
<1>1. main \in [Clients -> Places] /\ Good(p)
  BY DEF Inv, TypeOK
<1>2. sem \in [Clients -> 0..1]
  BY DEF Inv, TypeOK
<1>3. /\ main' \in [Clients -> Places] /\ main[p] = "post" /\ main'[p] = "ready"
      /\ \A q \in Clients \ {p} : main'[q] = main[q]
  BY <1>1, GotoDoes DEF Posts, Places
<1>4. sem[p] = 0
  BY <1>1, <1>3 DEF Good, SettingUp, IsSet, Setting
<1>5. sem' \in [Clients -> 0..1] /\ \A q \in Clients \ {p} : sem'[q] = sem[q]
  BY <1>2, <1>4 DEF Posts, SemPost
<1>6. UNCHANGED <<ctx, link, subscribed, event, given, seen, written, heard, raced>>
  BY DEF Posts, redisVars, local
<1>7. TypeOK'
  BY <1>3, <1>5, <1>6 DEF Inv, TypeOK, RedisTypeOK
<1>8. Good(p)'
  BY <1>1, <1>3, <1>6 DEF Good, SettingUp, Dispatching, Commanding, Counting,
                          IsSet, Dispatched, Setting
<1>9. QED
  BY <1>3, <1>5, <1>6, <1>7, <1>8, Enough DEF Same

(* Running into undefined behaviour is all right where Commanding allows it. *)
LEMMA UndefinedInv ==
  ASSUME Inv, NEW p \in Clients, Undefined(p), main[p] \in {"ready", "append", "arm"},
         UNCHANGED <<event, sem, heard>>, raced' \in {raced, raced \cup {p}},
         p \in raced' \/ link[p].state = "down"
  PROVE  Inv'
<1>1. main \in [Clients -> Places] /\ Good(p)
  BY DEF Inv, TypeOK
<1>2. /\ main' \in [Clients -> Places] /\ main'[p] = "undefined"
      /\ \A q \in Clients \ {p} : main'[q] = main[q]
  BY <1>1 DEF Undefined, Places
<1>3. UNCHANGED <<ctx, link, subscribed, given, seen, written>>
  BY DEF Undefined, redisVars, local
<1>4. raced' \subseteq Clients /\ raced \subseteq raced'
  BY DEF Inv, TypeOK
<1>5. TypeOK'
  BY <1>2, <1>3, <1>4 DEF Inv, TypeOK, RedisTypeOK
<1>6. SettingUp(p)' /\ Dispatching(p)'
  BY <1>1, <1>2, <1>3 DEF Good, SettingUp, Dispatching, IsSet, Dispatched, Setting
<1>7. Commanding(p)' /\ Counting(p)'
  BY <1>1, <1>2, <1>3 DEF Good, Commanding, Counting
<1>8. QED
  BY <1>2, <1>3, <1>4, <1>5, <1>6, <1>7, Enough DEF Good, Same

(* A command begins by looking at obuf. *)
LEMMA EntersInv == ASSUME Inv, NEW p \in Clients, Enters(p) PROVE Inv'
<1>1. main \in [Clients -> Places] /\ RedisTypeOK /\ Good(p)
  BY DEF Inv, TypeOK
<1>2. ctx[p] \in Context
  BY <1>1 DEF RedisTypeOK
<1>3. /\ main[p] = "ready" /\ raced' \in {raced, raced \cup {p}}
      /\ UNCHANGED <<event, sem, heard>>
  BY DEF Enters
<1>4. CASE ctx[p].memory # "open"
  <2>1. ctx[p].memory = "freed"
    BY <1>1, <1>2, <1>3, <1>4 DEF Context, Good, SettingUp, IsSet, Setting
  <2>2. link[p].state = "down" /\ Undefined(p)
    BY <1>1, <1>4, <2>1 DEF Good, Dispatching, Enters
  <2>3. QED
    BY <1>3, <2>2, UndefinedInv
<1>5. CASE ctx[p].memory = "open"
  <2>1. /\ Goto(p, "ready", "append") /\ seen' = [seen EXCEPT ![p] = ctx[p].obuf]
        /\ UNCHANGED <<ctx, link, subscribed, given, written>>
    BY <1>5 DEF Enters, redisVars
  <2>2. /\ main' \in [Clients -> Places] /\ main'[p] = "append"
        /\ \A q \in Clients \ {p} : main'[q] = main[q]
    BY <1>1, <2>1, GotoDoes DEF Places
  <2>3. seen \in [Clients -> Seq(Item)] /\ ctx[p].obuf \in Seq(Item)
    BY <1>2 DEF Inv, TypeOK, Context
  <2>4. /\ seen' \in [Clients -> Seq(Item)] /\ seen'[p] = ctx[p].obuf
        /\ \A q \in Clients \ {p} : seen'[q] = seen[q]
    BY <2>1, <2>3
  <2>5. raced' \subseteq Clients /\ raced \subseteq raced'
    BY <1>3 DEF Inv, TypeOK
  <2>6. TypeOK'
    BY <1>3, <2>1, <2>2, <2>4, <2>5 DEF Inv, TypeOK, RedisTypeOK
  <2>7. p \in Publishers => given[p] < MaxMessages
    BY DEF Enters
  <2>8. SettingUp(p)' /\ Dispatching(p)'
    BY <1>1, <1>3, <2>1, <2>2
    DEF Good, SettingUp, Dispatching, IsSet, Dispatched, Setting
  <2>9. Commanding(p)' /\ Counting(p)'
    BY <1>1, <1>3, <2>1, <2>2, <2>4, <2>7 DEF Good, Commanding, Counting
  <2>10. QED
    BY <1>3, <2>1, <2>2, <2>4, <2>5, <2>6, <2>8, <2>9, Enough DEF Good, Same
<1>6. QED
  BY <1>4, <1>5

(* The command is put behind the obuf that was seen. *)
LEMMA AppendsInv == ASSUME Inv, NEW p \in Clients, Appends(p) PROVE Inv'
<1>1. main \in [Clients -> Places] /\ RedisTypeOK /\ Good(p)
  BY DEF Inv, TypeOK
<1>2. main[p] = "append" /\ UNCHANGED <<event, sem, heard, raced>>
  BY DEF Appends
<1>3. CASE /\ ctx[p].memory = "open"
           /\ Goto(p, "append", "arm") /\ AppendTo(p, seen[p], Command(p))
           /\ UNCHANGED <<given, local>>
  <2>1. /\ main' \in [Clients -> Places] /\ main'[p] = "arm"
        /\ \A q \in Clients \ {p} : main'[q] = main[q]
    BY <1>1, <1>3, GotoDoes DEF Places
  <2>2. seen[p] \in Seq(Item) /\ given[p] \in 0..MaxMessages + 1
    BY DEF Inv, TypeOK
  <2>3. p \in Publishers => given[p] < MaxMessages
    BY <1>1, <1>2 DEF Good, Counting
  <2>4. Command(p) \in Item
    BY <2>2, <2>3, ClientsAssumption DEF Command, Item
  <2>5. /\ Alone(p) /\ link'[p].state = link[p].state
        /\ \E new \in Seq(Item) : ctx'[p] = [ctx[p] EXCEPT !.obuf = new]
    BY <1>1, <1>3, <2>2, <2>4, AppendDoes
  <2>6. ctx[p] \in Context /\ UNCHANGED <<given, seen, written>>
    BY <1>1, <1>3 DEF RedisTypeOK, local
  <2>7. TypeOK'
    BY <1>2, <2>1, <2>5, <2>6 DEF Inv, TypeOK, Alone
  <2>8. SettingUp(p)' /\ Dispatching(p)'
    BY <1>1, <1>2, <2>1, <2>5, <2>6
    DEF Context, Good, SettingUp, Dispatching, IsSet, Dispatched, Setting
  <2>9. Commanding(p)' /\ Counting(p)'
    BY <1>1, <1>2, <2>1, <2>6 DEF Good, Commanding, Counting
  <2>10. QED
    BY <1>2, <2>1, <2>5, <2>6, <2>7, <2>8, <2>9, Enough DEF Good, Same, Alone, RedisSame
<1>4. CASE (ctx[p].memory = "freed" \/ ctx[p].obuf # seen[p]) /\ Undefined(p)
  <2>1. p \in raced \/ link[p].state = "down"
    BY <1>1, <1>2, <1>4 DEF Good, Commanding, Dispatching
  <2>2. QED
    BY <1>2, <1>4, <2>1, UndefinedInv
<1>5. QED
  BY <1>3, <1>4 DEF Appends

(* The command returns. *)
LEMMA ArmsInv == ASSUME Inv, NEW p \in Clients, Arms(p) PROVE Inv'
<1>1. main \in [Clients -> Places] /\ RedisTypeOK /\ Good(p)
  BY DEF Inv, TypeOK
<1>2. main[p] = "arm" /\ UNCHANGED <<event, sem, heard, raced>>
  BY DEF Arms
<1>3. CASE ctx[p].memory = "freed"
  <2>1. link[p].state = "down" /\ Undefined(p)
    BY <1>1, <1>3 DEF Good, Dispatching, Arms
  <2>2. QED
    BY <1>2, <2>1, UndefinedInv
<1>4. CASE ctx[p].memory # "freed"
  <2>1. /\ Goto(p, "arm", AfterCommand(p)) /\ AddWrite(p)
        /\ given' = [given EXCEPT ![p] = @ + 1] /\ UNCHANGED <<seen, written>>
    BY <1>4 DEF Arms, local
  <2>2. /\ main' \in [Clients -> Places] /\ main'[p] = AfterCommand(p)
        /\ \A q \in Clients \ {p} : main'[q] = main[q]
    BY <1>1, <2>1, GotoDoes DEF Places, AfterCommand
  <2>3. /\ Alone(p) /\ link'[p].state = link[p].state
        /\ ctx'[p] = [ctx[p] EXCEPT !.watch = @ \cup {"write"}]
    BY <1>1, <2>1, CallsDo
  <2>4. ctx[p] \in Context
    BY <1>1 DEF RedisTypeOK
  <2>5. given \in [Clients -> 0..MaxMessages + 1] /\ given[p] \in 0..MaxMessages + 1
    BY DEF Inv, TypeOK
  <2>6. IF p \in Publishers THEN given[p] < MaxMessages ELSE given[p] = 0
    BY <1>1, <1>2 DEF Good, Counting
  <2>7. given[p] + 1 \in 0..MaxMessages + 1
    BY <2>5, <2>6, ClientsAssumption
  <2>8. /\ given' \in [Clients -> 0..MaxMessages + 1] /\ given'[p] = given[p] + 1
        /\ \A q \in Clients \ {p} : given'[q] = given[q]
    BY <2>1, <2>5, <2>7
  <2>9. TypeOK'
    BY <1>2, <2>1, <2>2, <2>3, <2>8 DEF Inv, TypeOK, Alone
  <2>10. SettingUp(p)' /\ Dispatching(p)'
    BY <1>1, <1>2, <1>4, <2>2, <2>3, <2>4
    DEF AfterCommand, Context, Good, SettingUp, Dispatching, IsSet, Dispatched, Setting
  <2>11. Commanding(p)'
    BY <2>2 DEF Commanding, AfterCommand
  <2>12. Counting(p)'
    <3>1. CASE p \in Publishers
      BY <2>2, <2>5, <2>6, <2>8, <3>1, ClientsAssumption DEF Counting, AfterCommand
    <3>2. CASE p \notin Publishers
      BY <2>2, <2>5, <2>6, <2>8, <3>2 DEF Counting, AfterCommand
    <3>3. QED
      BY <3>1, <3>2
  <2>13. QED
    BY <1>2, <2>1, <2>2, <2>3, <2>8, <2>9, <2>10, <2>11, <2>12, Enough
    DEF Good, Same, Alone, RedisSame
<1>5. QED
  BY <1>3, <1>4

(* The event thread gets past the semaphore when all is set up. *)
LEMMA WaitsInv == ASSUME Inv, NEW p \in Clients, Waits(p) PROVE Inv'
<1>1. event \in [Clients -> EventPlaces] /\ Good(p)
  BY DEF Inv, TypeOK
<1>2. sem \in [Clients -> 0..1] /\ sem[p] > 0 /\ sem' = [sem EXCEPT ![p] = @ - 1]
  BY DEF Inv, TypeOK, Waits
<1>3. /\ event' \in [Clients -> EventPlaces] /\ event[p] = "wait" /\ event'[p] = "dispatch"
      /\ \A q \in Clients \ {p} : event'[q] = event[q]
  BY <1>1 DEF Waits, At, EventGoto, EventPlaces
<1>4. sem' \in [Clients -> 0..1] /\ \A q \in Clients \ {p} : sem'[q] = sem[q]
  BY <1>2
<1>5. IsSet(p)
  BY <1>1, <1>2 DEF Good, SettingUp
<1>6. UNCHANGED <<ctx, link, subscribed, main, given, seen, written, heard, raced>>
  BY DEF Waits, redisVars, local
<1>7. TypeOK'
  BY <1>3, <1>4, <1>6 DEF Inv, TypeOK, RedisTypeOK
<1>8. Good(p)'
  BY <1>1, <1>3, <1>5, <1>6 DEF Good, SettingUp, Dispatching, Commanding, Counting,
                                IsSet, Dispatched, Setting
<1>9. QED
  BY <1>3, <1>4, <1>6, <1>7, <1>8, Enough DEF Same

(* Once it dispatches, all is set up. *)
LEMMA DispatchedIsSet ==
  ASSUME NEW p \in Clients, Good(p), Dispatched(p)
  PROVE  /\ IsSet(p) /\ ctx[p].memory # "none"
         /\ ctx[p].callbacks = {"connect", "disconnect"}
BY DEF Good, SettingUp

(* event_base_dispatch() returns only after the context has gone. *)
LEMMA ReturnsInv == ASSUME Inv, NEW p \in Clients, Returns(p) PROVE Inv'
<1>1. event \in [Clients -> EventPlaces] /\ RedisTypeOK /\ Good(p)
  BY DEF Inv, TypeOK
<1>2. /\ event' \in [Clients -> EventPlaces] /\ event[p] = "dispatch" /\ event'[p] = "ended"
      /\ \A q \in Clients \ {p} : event'[q] = event[q]
  BY <1>1 DEF Returns, At, EventGoto, EventPlaces
<1>3. UNCHANGED <<ctx, link, subscribed, main, sem, given, seen, written, heard, raced>>
  BY DEF Returns, redisVars, local
<1>4. IsSet(p) /\ ctx[p].memory # "none"
  BY <1>1, <1>2, DispatchedIsSet DEF Dispatched
<1>5. ctx[p].memory \in {"none", "open", "freed"}
  BY <1>1 DEF RedisTypeOK, Context
<1>6. ctx[p].memory = "freed"
  BY <1>1, <1>2, <1>4, <1>5 DEF Returns, NoEvents, Good, Dispatching, Dispatched
<1>7. TypeOK'
  BY <1>2, <1>3 DEF Inv, TypeOK, RedisTypeOK
<1>8. Good(p)'
  BY <1>1, <1>2, <1>3, <1>4, <1>6
  DEF Good, SettingUp, Dispatching, Commanding, Counting, IsSet, Dispatched, Setting
<1>9. QED
  BY <1>2, <1>3, <1>7, <1>8, Enough DEF Same

(* A step of the event thread on a context that lives on; obuf may change, *)
(* since the step is noticed by a command under way.                       *)
LEMMA WorksInv ==
  ASSUME Inv, NEW p \in Clients, At(p, event[p]), Dispatched(p),
         UNCHANGED <<main, sem, given, seen>>, Races(p), Alone(p),
         link'[p].state = link[p].state,
         ctx'[p].memory = ctx[p].memory, ctx'[p].callbacks = ctx[p].callbacks,
         ctx[p].memory = "open", ctx'[p].watch # {},
         event' \in [Clients -> EventPlaces],
         event'[p] \in {"dispatch", "written", "disarm", "rearm"},
         \A q \in Clients \ {p} : event'[q] = event[q],
         written' \in [Clients -> Nat], heard' \in [Subscribers -> Seq(Item)]
  PROVE  Inv'
<1>1. Good(p) /\ raced \subseteq Clients
  BY DEF Inv, TypeOK
<1>2. raced \subseteq raced' /\ raced' \subseteq Clients
  BY <1>1 DEF Races
<1>3. TypeOK'
  BY <1>2 DEF Inv, TypeOK, Alone
<1>4. IsSet(p) /\ ctx[p].callbacks = {"connect", "disconnect"}
  BY <1>1, DispatchedIsSet
<1>5. SettingUp(p)' /\ Dispatching(p)'
  BY <1>1, <1>4 DEF Good, SettingUp, Dispatching, IsSet, Dispatched, Setting
<1>6. Commanding(p)'
  BY <1>1 DEF Good, Commanding, Races, InCommand, At
<1>7. Counting(p)'
  BY <1>1 DEF Good, Counting
<1>8. QED
  BY <1>2, <1>3, <1>5, <1>6, <1>7, Enough DEF Good, Same, Alone, RedisSame

(* The event thread frees the context when the connection is lost. *)
LEMMA FreesInv ==
  ASSUME Inv, NEW p \in Clients, At(p, "dispatch"), Frees(p), link[p].state = "down",
         UNCHANGED <<main, event, sem, given, seen, written, heard>>, Races(p)
  PROVE  Inv'
<1>1. RedisTypeOK /\ Good(p) /\ raced \subseteq Clients
  BY DEF Inv, TypeOK
<1>2. /\ Alone(p) /\ link'[p].state = "down"
      /\ ctx'[p] = [ctx[p] EXCEPT !.memory = "freed", !.watch = {}]
  BY <1>1, FreesDoes
<1>3. ctx[p] \in Context
  BY <1>1 DEF RedisTypeOK
<1>4. raced \subseteq raced' /\ raced' \subseteq Clients
  BY <1>1 DEF Races
<1>5. TypeOK'
  BY <1>2, <1>4 DEF Inv, TypeOK, Alone
<1>6. IsSet(p) /\ ctx[p].callbacks = {"connect", "disconnect"}
  BY <1>1, DispatchedIsSet DEF At, Dispatched
<1>7. ctx'[p].memory = "freed" /\ ctx'[p].watch = {} /\ ctx'[p].callbacks = ctx[p].callbacks
  BY <1>2, <1>3 DEF Context
<1>8. SettingUp(p)' /\ Dispatching(p)'
  BY <1>1, <1>2, <1>6, <1>7
  DEF Good, At, SettingUp, Dispatching, IsSet, Dispatched, Setting
<1>9. Commanding(p)'
  BY <1>1, <1>2 DEF Good, Commanding, Races, InCommand, At
<1>10. Counting(p)'
  BY <1>1 DEF Good, Counting
<1>11. QED
  BY <1>2, <1>4, <1>5, <1>8, <1>9, <1>10, Enough DEF Good, Same, Alone, RedisSame

(* A context with an event to come lives. *)
LEMMA WatchedIsOpen ==
  ASSUME Inv, NEW p \in Clients, Dispatched(p), ctx[p].watch # {}
  PROVE  ctx[p].memory = "open"
<1>1. ctx[p].memory \in {"none", "open", "freed"} /\ Good(p)
  BY DEF Inv, TypeOK, RedisTypeOK, Context
<1>2. QED
  BY <1>1, DispatchedIsSet DEF Good, Dispatching

(* obuf is written out, or cannot be. *)
LEMMA HandlesWriteInv == ASSUME Inv, NEW p \in Clients, HandlesWrite(p) PROVE Inv'
<1>1. RedisTypeOK /\ event \in [Clients -> EventPlaces]
  BY DEF Inv, TypeOK
<1>2. /\ At(p, "dispatch") /\ Races(p) /\ Dispatched(p)
      /\ UNCHANGED <<main, sem, given, seen, heard>>
  BY DEF HandlesWrite, At, Dispatched
<1>3. CASE /\ WritesOut(p) /\ EventGoto(p, "written")
           /\ written' = [written EXCEPT ![p] = Len(ctx[p].obuf)]
  <2>1. /\ Alone(p) /\ link'[p].state = link[p].state
        /\ ctx'[p] = [ctx[p] EXCEPT !.connected = TRUE]
        /\ ctx[p].watch # {} /\ ctx[p].obuf \in Seq(Item)
    BY <1>1, <1>3, WriteDoes
  <2>2. ctx[p] \in Context
    BY <1>1 DEF RedisTypeOK
  <2>3. /\ ctx'[p].memory = ctx[p].memory /\ ctx'[p].callbacks = ctx[p].callbacks
        /\ ctx'[p].watch = ctx[p].watch
    BY <2>1, <2>2 DEF Context
  <2>4. /\ event' \in [Clients -> EventPlaces] /\ event'[p] = "written"
        /\ \A q \in Clients \ {p} : event'[q] = event[q]
    BY <1>1, <1>3 DEF EventGoto, EventPlaces
  <2>5. written' \in [Clients -> Nat] /\ heard' \in [Subscribers -> Seq(Item)]
    BY <1>2, <1>3, <2>1 DEF Inv, TypeOK
  <2>6. ctx[p].memory = "open"
    BY <1>2, <2>1, WatchedIsOpen
  <2>7. QED
    BY <1>2, <2>1, <2>3, <2>4, <2>5, <2>6, WorksInv DEF At
<1>4. CASE WriteFails(p) /\ UNCHANGED <<event, written>>
  BY <1>2, <1>4, FreesInv DEF WriteFails
<1>5. QED
  BY <1>3, <1>4 DEF HandlesWrite

(* What was written is dropped, and the events are set anew. *)
LEMMA FinishesWriteInv == ASSUME Inv, NEW p \in Clients, FinishesWrite(p) PROVE Inv'
<1>1. RedisTypeOK /\ event \in [Clients -> EventPlaces] /\ Good(p)
  BY DEF Inv, TypeOK
<1>2. /\ At(p, event[p]) /\ event[p] \in {"written", "disarm", "rearm"} /\ Dispatched(p)
      /\ Races(p) /\ UNCHANGED <<main, sem, given, seen, written, heard>>
  BY DEF FinishesWrite, At, Dispatched, local
<1>3. written' \in [Clients -> Nat] /\ heard' \in [Subscribers -> Seq(Item)]
  BY <1>2 DEF Inv, TypeOK
<1>4. ctx[p].memory = "open" /\ ctx[p].watch # {}
  BY <1>1, <1>2 DEF Good, Dispatching
<1>5. ctx[p] \in Context
  BY <1>1 DEF RedisTypeOK
<1>6. CASE /\ DropsWritten(p, written[p])
           /\ EventGoto(p, IF ctx'[p].obuf = << >> THEN "disarm" ELSE "rearm")
  <2>1. written[p] \in Nat
    BY DEF Inv, TypeOK
  <2>2. /\ Alone(p) /\ link'[p].state = link[p].state
        /\ \E obuf \in Seq(Item) : ctx'[p] = [ctx[p] EXCEPT !.obuf = obuf]
    BY <1>1, <1>6, <2>1, DropDoes
  <2>3. /\ ctx'[p].memory = ctx[p].memory /\ ctx'[p].callbacks = ctx[p].callbacks
        /\ ctx'[p].watch = ctx[p].watch
    BY <1>5, <2>2 DEF Context
  <2>4. /\ event' \in [Clients -> EventPlaces] /\ event'[p] \in {"disarm", "rearm"}
        /\ \A q \in Clients \ {p} : event'[q] = event[q]
    BY <1>1, <1>6 DEF EventGoto, EventPlaces
  <2>5. QED
    BY <1>2, <1>3, <1>4, <2>2, <2>3, <2>4, WorksInv
<1>7. ASSUME NEW done \in BOOLEAN, Rearms(p, done), EventGoto(p, "dispatch")
      PROVE  Inv'
  <2>1. /\ Alone(p) /\ link'[p].state = link[p].state
        /\ \E w \in SUBSET {"read", "write"} :
             w # {} /\ ctx'[p] = [ctx[p] EXCEPT !.watch = w]
    BY <1>1, <1>7, RearmDoes
  <2>2. /\ ctx'[p].memory = ctx[p].memory /\ ctx'[p].callbacks = ctx[p].callbacks
        /\ ctx'[p].watch # {}
    BY <1>5, <2>1 DEF Context
  <2>3. /\ event' \in [Clients -> EventPlaces] /\ event'[p] = "dispatch"
        /\ \A q \in Clients \ {p} : event'[q] = event[q]
    BY <1>1, <1>7 DEF EventGoto, EventPlaces
  <2>4. QED
    BY <1>2, <1>3, <1>4, <2>1, <2>2, <2>3, WorksInv
<1>8. QED
  BY <1>6, <1>7 DEF FinishesWrite

(* A reply is handed on, or the end is noticed. *)
LEMMA HandlesReadInv == ASSUME Inv, NEW p \in Clients, HandlesRead(p) PROVE Inv'
<1>1. RedisTypeOK /\ event \in [Clients -> EventPlaces]
  BY DEF Inv, TypeOK
<1>2. /\ At(p, "dispatch") /\ Races(p) /\ Dispatched(p)
      /\ UNCHANGED <<main, event, sem, given, seen, written>>
  BY DEF HandlesRead, At, Dispatched, local
<1>3. CASE /\ ReadsReply(p)
           /\ IF p \in Subscribers THEN Notify(p, Head(link[p].from)) ELSE UNCHANGED heard
  <2>1. /\ Alone(p) /\ link'[p].state = link[p].state /\ ctx'[p] = ctx[p]
        /\ Head(link[p].from) \in Item
    BY <1>1, <1>3, ReadDoes
  <2>2. ctx[p].watch # {}
    BY <1>3 DEF ReadsReply, Readable
  <2>3. ctx[p].memory = "open"
    BY <1>2, <2>2, WatchedIsOpen
  <2>4. heard \in [Subscribers -> Seq(Item)] /\ written' \in [Clients -> Nat]
    BY <1>2 DEF Inv, TypeOK
  <2>5. heard' \in [Subscribers -> Seq(Item)]
    <3>1. CASE p \in Subscribers
      <4>1. Append(heard[p], Head(link[p].from)) \in Seq(Item)
        BY <2>1, <2>4, <3>1
      <4>2. heard' = [heard EXCEPT ![p] = Append(heard[p], Head(link[p].from))]
        BY <1>3, <3>1 DEF Notify
      <4>3. QED
        BY <2>4, <4>1, <4>2
    <3>2. CASE p \notin Subscribers
      BY <1>3, <2>4, <3>2
    <3>3. QED
      BY <3>1, <3>2
  <2>6. event' \in [Clients -> EventPlaces] /\ event' = event /\ event[p] = "dispatch"
    BY <1>1, <1>2 DEF At
  <2>7. QED
    BY <1>2, <2>1, <2>2, <2>3, <2>4, <2>5, <2>6, WorksInv
<1>4. CASE ReadsEnd(p) /\ UNCHANGED heard
  <2>1. link[p].state = "down" /\ Frees(p)
    BY <1>4 DEF ReadsEnd, Readable
  <2>2. QED
    BY <1>2, <1>4, <2>1, FreesInv
<1>5. QED
  BY <1>3, <1>4 DEF HandlesRead

(* The server sees the connections only. *)
LEMMA ServerInv ==
  ASSUME Inv, NEW p \in Clients, Answers(p) \/ Executes(p) \/ HangsUp(p),
         UNCHANGED <<main, event, sem, given, local, heard, raced>>
  PROVE  Inv'
<1>1. RedisTypeOK
  BY DEF Inv, TypeOK
<1>2. /\ RedisTypeOK' /\ ctx' = ctx
      /\ \A q \in Clients : link[q].state = "down" => link'[q].state = "down"
  BY <1>1, ServerDoes
<1>3. TypeOK'
  BY <1>2 DEF Inv, TypeOK, local
<1>4. ASSUME NEW q \in Clients PROVE Good(q)'
  BY <1>2 DEF Inv, local, Good, SettingUp, Dispatching, Commanding, Counting, IsSet,
              Dispatched, Setting
<1>5. QED
  BY <1>3, <1>4 DEF Inv

(* Doing nothing changes nothing. *)
LEMMA StutterInv == Inv /\ UNCHANGED vars => Inv'
<1> SUFFICES ASSUME Inv, UNCHANGED vars PROVE Inv'
  OBVIOUS
<1>1. UNCHANGED <<ctx, link, subscribed, main, event, sem, given, seen, written, heard, raced>>
  BY DEF vars, redisVars, local
<1>2. TypeOK'
  BY <1>1 DEF Inv, TypeOK, RedisTypeOK
<1>3. ASSUME NEW q \in Clients PROVE Good(q)'
  BY <1>1, SameGood DEF Inv, Same
<1>4. QED
  BY <1>2, <1>3 DEF Inv

(* One step per action. *)
LEMMA StepInv == Inv /\ [Next]_vars => Inv'
<1> SUFFICES ASSUME Inv, [Next]_vars PROVE Inv'
  OBVIOUS
<1>1. CASE UNCHANGED vars
  BY <1>1, StutterInv
<1>2. ASSUME NEW p \in Clients, MainStep(p) PROVE Inv'
  BY <1>2, InitsInv, ConnectsInv, StartsThreadInv, SetsCallbacksInv, PostsInv, EntersInv,
     AppendsInv, ArmsInv DEF MainStep
<1>3. ASSUME NEW p \in Clients, EventStep(p) PROVE Inv'
  BY <1>3, WaitsInv, ReturnsInv, HandlesWriteInv, FinishesWriteInv, HandlesReadInv
  DEF EventStep
<1>4. ASSUME NEW p \in Clients, Answers(p) \/ Executes(p) \/ HangsUp(p),
             UNCHANGED <<main, event, sem, given, local, heard, raced>>
      PROVE  Inv'
  BY <1>4, ServerInv
<1>5. QED
  BY <1>1, <1>2, <1>3, <1>4 DEF Next, ServerStep

(* Hence the invariant always holds. *)
LEMMA Invariance == Spec => []Inv
BY InitInv, StepInv, PTL DEF Spec

(* The event thread never dispatches before both callbacks are set: its    *)
(* event base is never empty while the context lives, no connection is     *)
(* noticed before connect_callback() is set, and no end before both are.   *)
THEOREM CallbacksFirst == Spec => []SetUpFirst
<1>1. Inv => SetUpFirst
  <2> SUFFICES ASSUME Inv PROVE SetUpFirst
    OBVIOUS
  <2>1. ASSUME NEW p \in Clients
        PROVE  /\ event[p] = "ended" => ctx[p].memory = "freed"
               /\ ctx[p].connected => "connect" \in ctx[p].callbacks
               /\ ctx[p].memory = "freed" => ctx[p].callbacks = {"connect", "disconnect"}
    <3>1. Good(p)
      BY DEF Inv
    <3>2. CASE Dispatched(p)
      BY <3>1, <3>2, DispatchedIsSet DEF Good, Dispatching
    <3>3. CASE ~Dispatched(p)
      BY <3>1, <3>3 DEF Good, Dispatching, Dispatched
    <3>4. QED
      BY <3>2, <3>3
  <2>2. QED
    BY <2>1 DEF Inv, SetUpFirst
<1>2. QED
  BY <1>1, Invariance, PTL

(* The pointer that publish() and subscribe() use without a look points to *)
(* a living context, as long as the connection is there and the threads    *)
(* have not been in the context together.                                  *)
THEOREM ContextSafe == Spec => []ContextLives
<1>1. Inv => ContextLives
  BY DEF Inv, Good, Commanding, ContextLives
<1>2. QED
  BY <1>1, Invariance, PTL
-----------------------------------------------------------------------------
(* The way of a message: obuf, the server, the callback of a subscriber *)

(* The commands of client q are its own. *)
OwnItems(q, items) ==
  \A i \in 1..Len(items) :
    items[i][1] = q /\ (items[i][2] = 0 <=> q \notin Publishers)

Owning(q) == /\ OwnItems(q, ctx[q].obuf) /\ OwnItems(q, seen[q])
             /\ OwnItems(q, link[q].to)

(* There is no connection without a context. *)
Unlinked(q) == ctx[q].memory = "none" => link[q].state = "none"

Cmd(q, n) == <<q, IF q \in Publishers THEN n ELSE 0>>

(* Those not executed yet follow those that are, each of them once: in the *)
(* connection, and behind them in obuf, unless the event thread has        *)
(* written that and not yet dropped it.                                    *)
Lined(q) ==
  LET to   == link[q].to
      obuf == ctx[q].obuf
      kept == IF event[q] = "written" THEN 0 ELSE Len(obuf)
  IN /\ ~(InCommand(q) /\ InHandler(q))
     /\ event[q] = "written" => written[q] = Len(obuf)
     /\ \A i \in 1..Len(to) : to[i] = Cmd(q, link[q].served + i)
     /\ \A i \in 1..kept : obuf[i] = Cmd(q, link[q].served + Len(to) + i)
     /\ link[q].served + Len(to) + kept = given[q] + (IF main[q] = "arm" THEN 1 ELSE 0)

(* What s is told, or will be *)
Told(s) == heard[s] \o link[s].from

(* It has been told of the messages of p up to one, and up to the last one *)
(* that was executed while it is subscribed.                               *)
UpToDate(s, p) ==
  /\ InOrder(p, Told(s))
  /\ \A i \in Of(p, Told(s)) : Told(s)[i][2] <= link[p].served
  /\ s \in subscribed /\ Of(p, Told(s)) # {} =>
       \E k \in Of(p, Told(s)) : Told(s)[k][2] = link[p].served

(* It is told nothing before the confirmation. *)
Confirming(s) ==
  /\ s \in subscribed => Told(s) # << >>
  /\ s \notin subscribed /\ link[s].state # "down" => Told(s) = << >>
  /\ s \notin raced /\ s \in subscribed /\ link[s].state # "down" => link[s].served > 0
  /\ s \notin raced => \A i \in 1..Len(Told(s)) : Told(s)[i][2] = 0 <=> i = 1

Telling ==
  /\ \A q \in Clients : Owning(q) /\ Unlinked(q)
  /\ \A q \in Clients \ raced : link[q].state # "down" => Lined(q)
  /\ \A s \in Subscribers : Confirming(s)
  /\ \A s \in Subscribers : \A p \in Publishers \ raced : UpToDate(s, p)
-----------------------------------------------------------------------------
(* Sequences of messages *)

(* What is put behind the replies on their way is put behind all. *)
LEMMA ToldMore ==
  ASSUME NEW h \in Seq(Item), NEW f \in Seq(Item), NEW x \in Item
  PROVE  h \o Append(f, x) = Append(h \o f, x)
<1>1. << x >> \in Seq(Item) /\ h \o f \in Seq(Item)
  BY ConcatProperties
<1>2. Append(f, x) = f \o << x >> /\ Append(h \o f, x) = (h \o f) \o << x >>
  BY <1>1, AppendIsConcat
<1>3. (h \o f) \o << x >> = h \o (f \o << x >>)
  BY <1>1, ConcatAssociative
<1> QED
  BY <1>2, <1>3

(* A reply that is read stays among those told. *)
LEMMA ToldNext ==
  ASSUME NEW h \in Seq(Item), NEW f \in Seq(Item), f # << >>
  PROVE  Append(h, Head(f)) \o Tail(f) = h \o f
<1> DEFINE a == Append(h, Head(f))
           s == a \o Tail(f)
           t == h \o f
<1>1. /\ Head(f) \in Item /\ Tail(f) \in Seq(Item) /\ Len(Tail(f)) = Len(f) - 1
      /\ \A i \in 1..Len(Tail(f)) : Tail(f)[i] = f[i + 1]
  BY HeadTailProperties
<1>2. Head(f) = f[1] /\ Len(h) \in Nat /\ Len(f) \in Nat
  OBVIOUS
<1>3. /\ a \in Seq(Item) /\ Len(a) = Len(h) + 1 /\ a[Len(h) + 1] = f[1]
      /\ \A i \in 1..Len(h) : a[i] = h[i]
  BY <1>1, <1>2, AppendProperties
<1> HIDE DEF a
<1>4. /\ s \in Seq(Item) /\ Len(s) = Len(a) + Len(Tail(f))
      /\ \A i \in 1..Len(a) + Len(Tail(f)) :
           s[i] = IF i <= Len(a) THEN a[i] ELSE Tail(f)[i - Len(a)]
  BY <1>1, <1>3, ConcatProperties
<1>5. /\ t \in Seq(Item) /\ Len(t) = Len(h) + Len(f)
      /\ \A i \in 1..Len(h) + Len(f) : t[i] = IF i <= Len(h) THEN h[i] ELSE f[i - Len(h)]
  BY ConcatProperties
<1> HIDE DEF s, t
<1>6. Len(s) = Len(t)
  BY <1>1, <1>2, <1>3, <1>4, <1>5
<1>7. ASSUME NEW i \in 1..Len(s) PROVE s[i] = t[i]
  <2>1. CASE i <= Len(h)
    <3>1. s[i] = a[i] /\ i \in 1..Len(h)
      BY <1>1, <1>2, <1>3, <1>4, <2>1
    <3>2. t[i] = h[i]
      BY <1>2, <1>5, <1>6, <2>1
    <3> QED
      BY <1>3, <3>1, <3>2
  <2>2. CASE i = Len(h) + 1
    BY <1>1, <1>2, <1>3, <1>4, <1>5, <2>2
  <2>3. CASE i > Len(h) + 1
    <3>1. s[i] = Tail(f)[i - Len(a)] /\ i - Len(a) \in 1..Len(Tail(f))
      BY <1>1, <1>2, <1>3, <1>4, <2>3
    <3>2. t[i] = f[i - Len(h)] /\ (i - Len(a)) + 1 = i - Len(h)
      BY <1>1, <1>2, <1>3, <1>4, <1>5, <2>3
    <3> QED
      BY <1>1, <3>1, <3>2
  <2> QED
    BY <1>2, <2>1, <2>2, <2>3
<1>8. s = t
  BY <1>4, <1>5, <1>6, <1>7, SeqEqual
<1> QED
  BY <1>8 DEF s, t, a

(* A message that is not of p leaves those of p as they are; *)
LEMMA OfOthers ==
  ASSUME NEW u \in Seq(Item), NEW x \in Item, NEW p, x[1] # p
  PROVE  /\ Of(p, Append(u, x)) = Of(p, u)
         /\ \A i \in Of(p, u) : Append(u, x)[i] = u[i]
<1>1. /\ Len(Append(u, x)) = Len(u) + 1 /\ Append(u, x)[Len(u) + 1] = x
      /\ \A i \in 1..Len(u) : Append(u, x)[i] = u[i]
  BY AppendProperties
<1>2. Len(u) \in Nat
  OBVIOUS
<1> QED
  BY <1>1, <1>2 DEF Of

(* one of p is behind them. *)
LEMMA OfOwn ==
  ASSUME NEW u \in Seq(Item), NEW x \in Item
  PROVE  /\ Of(x[1], Append(u, x)) = Of(x[1], u) \cup {Len(u) + 1}
         /\ Append(u, x)[Len(u) + 1] = x
         /\ \A i \in Of(x[1], u) : i \in 1..Len(u) /\ Append(u, x)[i] = u[i]
<1>1. /\ Len(Append(u, x)) = Len(u) + 1 /\ Append(u, x)[Len(u) + 1] = x
      /\ \A i \in 1..Len(u) : Append(u, x)[i] = u[i]
  BY AppendProperties
<1>2. Len(u) \in Nat
  OBVIOUS
<1> QED
  BY <1>1, <1>2 DEF Of

(* The next message of p keeps the order. *)
LEMMA OrderGrows ==
  ASSUME NEW u \in Seq(Item), NEW p, NEW n \in Nat, NEW x \in Item, x = <<p, n + 1>>,
         InOrder(p, u), \A i \in Of(p, u) : u[i][2] <= n,
         Of(p, u) # {} => \E k \in Of(p, u) : u[k][2] = n
  PROVE  InOrder(p, Append(u, x))
<1> DEFINE v == Append(u, x)
           m == Len(u) + 1
<1>1. /\ Of(p, v) = Of(p, u) \cup {m} /\ v[m] = x
      /\ \A i \in Of(p, u) : i \in 1..Len(u) /\ v[i] = u[i]
  BY OfOwn
<1>2. Len(u) \in Nat /\ \A i \in Of(p, u) : u[i][2] \in Nat
  BY ClientsAssumption DEF Of, Item
<1>3. v[m][2] = n + 1
  BY <1>1
<1> HIDE DEF v
<1>4. ASSUME NEW i \in Of(p, v), NEW j \in Of(p, v), i < j PROVE v[i][2] < v[j][2]
  <2>1. i \in Of(p, u)
    BY <1>1, <1>2, <1>4
  <2>2. CASE j \in Of(p, u)
    BY <1>1, <1>4, <2>1, <2>2 DEF InOrder
  <2>3. CASE j = m
    <3>1. v[i][2] <= n /\ v[i][2] \in Nat
      BY <1>1, <1>2, <2>1
    <3> QED
      BY <1>3, <2>3, <3>1
  <2> QED
    BY <1>1, <2>2, <2>3
<1>5. ASSUME NEW i \in Of(p, v), NEW j \in Of(p, v), NEW l \in v[i][2]..v[j][2]
      PROVE  \E k \in Of(p, v) : v[k][2] = l
  <2>1. CASE l = n + 1
    BY <1>1, <1>3, <2>1
  <2>2. CASE l # n + 1
    <3>1. \A k \in Of(p, v) : v[k][2] \in Nat /\ v[k][2] <= n + 1
      BY <1>1, <1>2, <1>3
    <3>2. l <= n /\ i # m
      BY <1>3, <2>2, <3>1
    <3>3. i \in Of(p, u) /\ v[i] = u[i]
      BY <1>1, <3>2
    <3>4. PICK k \in Of(p, u) : u[k][2] = n
      BY <3>3
    <3>5. l \in u[i][2]..u[k][2]
      BY <1>2, <3>2, <3>3, <3>4
    <3>6. PICK h \in Of(p, u) : u[h][2] = l
      BY <3>3, <3>4, <3>5 DEF InOrder
    <3> QED
      BY <1>1, <3>6
  <2> QED
    BY <2>1, <2>2
<1> QED
  BY <1>4, <1>5 DEF InOrder, v
-----------------------------------------------------------------------------
(* Every step keeps Telling. *)

(* The sequences of a client *)
LEMMA Queues ==
  ASSUME TypeOK, NEW q \in Clients
  PROVE  /\ link[q] \in Link /\ ctx[q] \in Context
         /\ link[q].to \in Seq(Item) /\ link[q].from \in Seq(Item)
         /\ link[q].served \in Nat
         /\ ctx[q].obuf \in Seq(Item) /\ seen[q] \in Seq(Item)
         /\ given[q] \in Nat /\ written[q] \in Nat
BY ClientsAssumption DEF TypeOK, RedisTypeOK, Link, Context

(* What s is told is a sequence of messages. *)
LEMMA ToldIs ==
  ASSUME TypeOK, NEW s \in Subscribers
  PROVE  /\ heard[s] \in Seq(Item) /\ link[s].from \in Seq(Item)
         /\ Told(s) \in Seq(Item)
<1>1. heard[s] \in Seq(Item) /\ link[s].from \in Seq(Item)
  BY Queues DEF TypeOK, Clients
<1> QED
  BY <1>1, ConcatProperties DEF Told

(* A step that tells nobody anything new *)
LEMMA NothingTold ==
  ASSUME Telling, raced \subseteq raced', subscribed' \subseteq subscribed,
         \A s \in Subscribers :
           /\ Told(s)' = Told(s)
           /\ link'[s].state # "down" => /\ link[s].state # "down"
                                         /\ s \in subscribed => s \in subscribed',
         \A q \in Clients : link'[q].served = link[q].served
  PROVE  /\ \A s \in Subscribers : Confirming(s)'
         /\ \A s \in Subscribers : \A p \in Publishers \ raced' : UpToDate(s, p)'
<1>1. ASSUME NEW s \in Subscribers PROVE Confirming(s)'
  <2>1. Confirming(s) /\ s \in Clients
    BY DEF Telling, Clients
  <2> QED
    BY <2>1 DEF Confirming
<1>2. ASSUME NEW s \in Subscribers, NEW p \in Publishers \ raced' PROVE UpToDate(s, p)'
  <2>1. UpToDate(s, p) /\ p \in Clients
    BY DEF Telling, Clients
  <2> QED
    BY <2>1 DEF UpToDate, InOrder, Of
<1> QED
  BY <1>1, <1>2

(* A client that a step leaves alone, as far as its commands go *)
Unmoved(q) ==
  /\ main'[q] = main[q] /\ event'[q] = event[q] /\ given'[q] = given[q]
  /\ seen'[q] = seen[q] /\ written'[q] = written[q]
  /\ ctx'[q].obuf = ctx[q].obuf
  /\ link'[q].to = link[q].to /\ link'[q].served = link[q].served
  /\ Unlinked(q) => Unlinked(q)'

LineOf(q) == Owning(q) /\ Unlinked(q) /\ (q \notin raced /\ link[q].state # "down" => Lined(q))

(* stays in line. *)
LEMMA UnmovedLined ==
  ASSUME NEW q, LineOf(q), Unmoved(q), q \in raced => q \in raced',
         link'[q].state # "down" => link[q].state # "down"
  PROVE  LineOf(q)'
BY DEF LineOf, Unmoved, Owning, OwnItems, Lined, Cmd, InCommand, InHandler

(* A step of client p that tells nobody anything new *)
LEMMA LocalTelling ==
  ASSUME TypeOK, Telling, NEW p \in Clients, raced \subseteq raced', LineOf(p)',
         \A q \in Clients \ {p} : Unmoved(q),
         \A q \in Clients : /\ link'[q].served = link[q].served
                            /\ link'[q].state # "down" => link[q].state # "down",
         UNCHANGED subscribed,
         \A s \in Subscribers : Told(s)' = Told(s)
  PROVE  Telling'
<1>1. ASSUME NEW q \in Clients PROVE LineOf(q)'
  <2>1. LineOf(q)
    BY DEF Telling, LineOf
  <2>2. CASE q # p
    <3>1. q \in Clients \ {p} /\ (q \in raced => q \in raced')
      BY <2>2
    <3>2. Unmoved(q)
      BY <3>1, Zenon
    <3>3. link'[q].state # "down" => link[q].state # "down"
      BY Zenon
    <3> QED
      BY <2>1, <3>1, <3>2, <3>3, UnmovedLined
  <2> QED
    BY <2>2
<1>2. /\ \A s \in Subscribers : Confirming(s)'
      /\ \A s \in Subscribers : \A r \in Publishers \ raced' : UpToDate(s, r)'
  <2>1. /\ \A s \in Subscribers :
             /\ Told(s)' = Told(s)
             /\ link'[s].state # "down" => /\ link[s].state # "down"
                                           /\ s \in subscribed => s \in subscribed'
        /\ \A q \in Clients : link'[q].served = link[q].served
        /\ subscribed' \subseteq subscribed
    <3>1. ASSUME NEW s \in Subscribers
          PROVE  /\ Told(s)' = Told(s)
                 /\ link'[s].state # "down" => /\ link[s].state # "down"
                                               /\ s \in subscribed => s \in subscribed'
      <4>1. s \in Clients
        BY DEF Clients
      <4> QED
        BY <4>1, Zenon
    <3> QED
      BY <3>1
  <2> QED
    BY <2>1, NothingTold
<1> QED
  BY <1>1, <1>2 DEF Telling, LineOf

(* The calls of hiredis that move no command and no reply *)
StayPut ==
  /\ subscribed' = subscribed
  /\ \A q \in Clients :
       /\ ctx'[q].obuf = ctx[q].obuf
       /\ link'[q].to = link[q].to /\ link'[q].from = link[q].from
       /\ link'[q].served = link[q].served
       /\ link'[q].state # "down" => link[q].state # "down"
       /\ Unlinked(q) => Unlinked(q)'

(* are those that set up, arm or free a context. *)
LEMMA PutCalls ==
  ASSUME TypeOK, NEW p \in Clients,
         \/ AsyncConnect(p) /\ link[p].state = "none"
         \/ SetConnectCallback(p) \/ SetDisconnectCallback(p)
         \/ AddWrite(p) \/ Frees(p) \/ Answers(p)
         \/ \E done \in BOOLEAN : Rearms(p, done)
  PROVE  StayPut
<1>0. ctx \in [Clients -> Context] /\ link \in [Clients -> Link]
  BY DEF TypeOK, RedisTypeOK
<1>1. \A q \in Clients : ctx[q] \in Context /\ link[q] \in Link
  BY <1>0
<1>2. CASE /\ UNCHANGED <<link, subscribed>>
           /\ \A q \in Clients : /\ ctx'[q].obuf = ctx[q].obuf
                                 /\ ctx'[q].memory = "none" => ctx[q].memory = "none"
  BY <1>2 DEF StayPut, Unlinked
<1>3. CASE SetConnectCallback(p)
  BY <1>0, <1>1, <1>2, <1>3 DEF Context, SetConnectCallback
<1>4. CASE SetDisconnectCallback(p)
  BY <1>0, <1>1, <1>2, <1>4 DEF Context, SetDisconnectCallback
<1>5. CASE AddWrite(p)
  BY <1>0, <1>1, <1>2, <1>5 DEF Context, AddWrite
<1>6. CASE Frees(p)
  BY <1>0, <1>1, <1>2, <1>6 DEF Context, Frees
<1>7. ASSUME NEW done \in BOOLEAN, Rearms(p, done) PROVE StayPut
  <2>1. PICK w : ctx' = [ctx EXCEPT ![p].watch = w]
    BY <1>7 DEF Rearms
  <2>2. \A q \in Clients : /\ ctx'[q].obuf = ctx[q].obuf
                           /\ ctx'[q].memory = ctx[q].memory
    BY <1>0, <1>1, <2>1 DEF Context
  <2> QED
    BY <1>2, <1>7, <2>2 DEF Rearms
<1>8. ASSUME NEW state, link' = [link EXCEPT ![p].state = state], link[p].state # "down",
             NEW q \in Clients
      PROVE  /\ link'[q].to = link[q].to /\ link'[q].from = link[q].from
             /\ link'[q].served = link[q].served
             /\ link'[q].state # "down" => link[q].state # "down"
             /\ q # p => link'[q] = link[q]
  BY <1>0, <1>1, <1>8 DEF Link
<1>9. CASE AsyncConnect(p) /\ link[p].state = "none"
  <2>1. \A q \in Clients : /\ ctx'[q].obuf = ctx[q].obuf
                           /\ ctx'[q].memory = "none" => ctx[q].memory = "none" /\ q # p
    BY <1>0, <1>1, <1>9 DEF Context, AsyncConnect
  <2>2. link' = [link EXCEPT ![p].state = "connecting"] /\ subscribed' = subscribed
    BY <1>9 DEF AsyncConnect
  <2> QED
    BY <1>8, <1>9, <2>1, <2>2 DEF StayPut, Unlinked
<1>10. CASE Answers(p)
  <2>1. PICK s \in {"up", "down"} : link' = [link EXCEPT ![p].state = s]
    BY <1>10 DEF Answers
  <2>2. link[p].state = "connecting" /\ UNCHANGED <<ctx, subscribed>>
    BY <1>10 DEF Answers
  <2> QED
    BY <1>8, <2>1, <2>2 DEF StayPut, Unlinked
<1> QED
  BY <1>3, <1>4, <1>5, <1>6, <1>7, <1>9, <1>10

Working == {"append", "arm"}
Handling == {"written", "disarm", "rearm"}

(* A step of client p beside its commands *)
LEMMA Aside ==
  ASSUME TypeOK, Telling, NEW p \in Clients, StayPut, raced \subseteq raced',
         UNCHANGED <<given, seen, written, heard>>,
         \A q \in Clients \ {p} : main'[q] = main[q] /\ event'[q] = event[q],
         main'[p] = main[p] \/ {main[p], main'[p]} \cap Working = {},
         event'[p] = event[p] \/ {event[p], event'[p]} \cap Handling = {}
  PROVE  Telling'
<1>1. LineOf(p)
  BY DEF Telling, LineOf
<1>2. /\ ctx'[p].obuf = ctx[p].obuf /\ link'[p].to = link[p].to
      /\ link'[p].served = link[p].served
      /\ link'[p].state # "down" => link[p].state # "down"
      /\ Unlinked(p) => Unlinked(p)'
  BY DEF StayPut
<1>3. /\ InCommand(p)' <=> InCommand(p)
      /\ main'[p] = "arm" <=> main[p] = "arm"
  BY DEF InCommand, Working
<1>4. /\ InHandler(p)' <=> InHandler(p)
      /\ event'[p] = "written" <=> event[p] = "written"
  BY DEF InHandler, Handling
<1>5. LineOf(p)'
  BY <1>1, <1>2, <1>3, <1>4 DEF LineOf, Owning, OwnItems, Lined, Cmd
<1>6. ASSUME NEW q \in Clients \ {p} PROVE Unmoved(q)
  BY DEF Unmoved, StayPut
<1>7. ASSUME NEW s \in Subscribers PROVE Told(s)' = Told(s)
  BY DEF Told, StayPut, Clients
<1> QED
  BY <1>5, <1>6, <1>7, LocalTelling DEF StayPut

(* Making the context, *)
LEMMA SettingTells ==
  ASSUME Inv, Telling, NEW p \in Clients,
         Inits(p) \/ Connects(p) \/ StartsThread(p) \/ SetsCallbacks(p) \/ Posts(p)
  PROVE  Telling'
<1>0. TypeOK /\ main \in [Clients -> Places] /\ event \in [Clients -> EventPlaces]
  BY DEF Inv, TypeOK
<1>2. StayPut
  <2>1. CASE Connects(p) /\ AsyncConnect(p)
    <3>1. main[p] = "connect"
      BY <2>1 DEF Connects, Goto, GivesUp
    <3>2. link[p].state = "none"
      BY <3>1 DEF Inv, Good, SettingUp, Telling, Unlinked
    <3> QED
      BY <1>0, <2>1, <3>2, PutCalls
  <2>2. CASE SetsCallbacks(p)
    BY <1>0, <2>2, PutCalls DEF SetsCallbacks
  <2>3. CASE UNCHANGED redisVars
    BY <2>3 DEF redisVars, StayPut, Unlinked
  <2> QED
    BY <2>1, <2>2, <2>3 DEF Inits, Connects, StartsThread, Posts
<1>3. \E from, to \in Places \ Working : Goto(p, from, to)
  BY DEF Inits, Connects, GivesUp, StartsThread, SetsCallbacks, Posts, Places, Working
<1>4. /\ {main[p], main'[p]} \cap Working = {}
      /\ \A q \in Clients \ {p} : main'[q] = main[q]
  BY <1>0, <1>3 DEF Goto
<1>5. /\ \A q \in Clients \ {p} : event'[q] = event[q]
      /\ event'[p] = event[p] \/ {event[p], event'[p]} \cap Handling = {}
  <2>1. CASE StartsThread(p)
    <3>1. event' = [event EXCEPT ![p] = "wait"] /\ main[p] = "attached"
      BY <2>1 DEF StartsThread, Goto
    <3>2. event[p] = "none"
      BY <3>1 DEF Inv, Good, SettingUp
    <3> QED
      BY <1>0, <3>1, <3>2 DEF Handling
  <2>2. CASE event' = event
    <3>1. event'[p] = event[p] /\ \A q \in Clients \ {p} : event'[q] = event[q]
      BY <2>2
    <3> QED
      BY <3>1
  <2> QED
    BY <2>1, <2>2 DEF Inits, Connects, SetsCallbacks, Posts
<1>6. UNCHANGED <<given, seen, written, heard, raced>>
  BY DEF Inits, Connects, StartsThread, SetsCallbacks, Posts, local
<1> QED
  BY <1>0, <1>2, <1>4, <1>5, <1>6, Aside

(* waiting for it, and leaving the loop, say nothing to the server. *)
LEMMA WaitingTells ==
  ASSUME Inv, Telling, NEW p \in Clients, Waits(p) \/ Returns(p)
  PROVE  Telling'
<1>0. TypeOK /\ event \in [Clients -> EventPlaces]
  BY DEF Inv, TypeOK
<1>1. StayPut
  BY DEF Waits, Returns, redisVars, StayPut, Unlinked
<1>2. /\ \A q \in Clients \ {p} : event'[q] = event[q]
      /\ {event[p], event'[p]} \cap Handling = {}
  BY <1>0 DEF Waits, Returns, At, EventGoto, Handling
<1>3. main' = main /\ UNCHANGED <<given, seen, written, heard, raced>>
  BY DEF Waits, Returns, local
<1>4. main'[p] = main[p] /\ \A q \in Clients \ {p} : main'[q] = main[q] /\ event'[q] = event[q]
  BY <1>2, <1>3
<1> QED
  BY <1>0, <1>1, <1>2, <1>3, <1>4, Aside

(* Entering a command takes a look at obuf. *)
LEMMA EntersTells ==
  ASSUME Inv, Telling, NEW p \in Clients, Enters(p)
  PROVE  Telling'
<1>0. TypeOK /\ main \in [Clients -> Places] /\ seen \in [Clients -> Seq(Item)]
  BY DEF Inv, TypeOK
<1>1. raced \subseteq raced' /\ UNCHANGED <<ctx, link, subscribed, event, given, written, heard>>
  BY DEF Enters, Undefined, redisVars, local
<1>2. /\ main[p] = "ready" /\ main'[p] \in {"append", "undefined"}
      /\ \A q \in Clients \ {p} : main'[q] = main[q]
  BY <1>0 DEF Enters, Undefined, Goto
<1>3. /\ \A q \in Clients \ {p} : seen'[q] = seen[q]
      /\ seen'[p] \in {seen[p], ctx[p].obuf}
  BY <1>0 DEF Enters, Undefined, local
<1>4. LineOf(p)'
  <2>1. LineOf(p)
    BY DEF Telling, LineOf
  <2>2. Owning(p)' /\ Unlinked(p)'
    BY <1>1, <1>3, <2>1 DEF LineOf, Owning, Unlinked
  <2>3. ASSUME p \notin raced', link'[p].state # "down" PROVE Lined(p)'
    <3>1. ~InHandler(p)
      BY <2>3 DEF Enters
    <3>2. Lined(p)
      BY <1>1, <2>1, <2>3 DEF LineOf
    <3> QED
      BY <1>1, <1>2, <3>1, <3>2 DEF Lined, InHandler, Cmd
  <2> QED
    BY <2>2, <2>3 DEF LineOf
<1>5. ASSUME NEW q \in Clients \ {p} PROVE Unmoved(q)
  BY <1>1, <1>2, <1>3 DEF Unmoved, Unlinked
<1> QED
  BY <1>0, <1>1, <1>4, <1>5, LocalTelling DEF Told

(* A context that is gone takes the connection with it. *)
LEMMA UndefinedTells ==
  ASSUME Inv, Telling, NEW p \in Clients, Undefined(p), UNCHANGED <<event, heard, raced>>,
         p \in raced \/ link[p].state = "down"
  PROVE  Telling'
<1>0. TypeOK /\ main \in [Clients -> Places]
  BY DEF Inv, TypeOK
<1>1. UNCHANGED <<ctx, link, subscribed, event, given, seen, written, heard, raced>>
  BY DEF Undefined, redisVars, local
<1>2. \A q \in Clients \ {p} : main'[q] = main[q]
  BY <1>0 DEF Undefined
<1>3. LineOf(p)'
  BY <1>1 DEF Telling, LineOf, Owning, Unlinked
<1>4. ASSUME NEW q \in Clients \ {p} PROVE Unmoved(q)
  BY <1>1, <1>2 DEF Unmoved, Unlinked
<1> QED
  BY <1>0, <1>1, <1>3, <1>4, LocalTelling DEF Told

(* A command is an item, and a client's own. *)
LEMMA CommandIs ==
  ASSUME Inv, NEW p \in Clients, main[p] = "append"
  PROVE  Command(p) \in Item /\ Command(p) = Cmd(p, given[p] + 1)
<1>1. given[p] \in Nat /\ (p \in Publishers => given[p] < MaxMessages)
  BY Queues DEF Inv, Good, Counting
<1> QED
  BY <1>1, ClientsAssumption DEF Command, Cmd, Item

(* The command is put behind those that wait in obuf. *)
LEMMA AppendsTells ==
  ASSUME Inv, Telling, NEW p \in Clients, Appends(p)
  PROVE  Telling'
<1>0. /\ TypeOK /\ main \in [Clients -> Places] /\ ctx \in [Clients -> Context]
      /\ main[p] = "append" /\ UNCHANGED <<event, heard, raced>>
  BY DEF Inv, TypeOK, RedisTypeOK, Appends
<1>1. p \in raced \/ ctx[p].obuf = seen[p]
  BY <1>0 DEF Inv, Good, Commanding
<1>2. CASE /\ Goto(p, "append", "arm") /\ AppendTo(p, seen[p], Command(p))
           /\ UNCHANGED <<given, local>>
  <2>1. UNCHANGED <<link, subscribed, event, given, seen, written, heard, raced>>
    BY <1>0, <1>2 DEF AppendTo, local
  <2>2. main'[p] = "arm" /\ \A q \in Clients \ {p} : main'[q] = main[q]
    BY <1>0, <1>2 DEF Goto
  <2>3. /\ ctx'[p].obuf = Append(seen[p], Command(p)) /\ ctx'[p].memory = ctx[p].memory
        /\ \A q \in Clients \ {p} : ctx'[q] = ctx[q]
    BY <1>0, <1>2 DEF AppendTo, Context
  <2>4. seen[p] \in Seq(Item) /\ Command(p) \in Item /\ Command(p) = Cmd(p, given[p] + 1)
    BY <1>0, Queues, CommandIs
  <2>5. /\ Len(ctx'[p].obuf) = Len(seen[p]) + 1
        /\ ctx'[p].obuf[Len(seen[p]) + 1] = Cmd(p, given[p] + 1)
        /\ \A i \in 1..Len(seen[p]) : ctx'[p].obuf[i] = seen[p][i]
    BY <2>3, <2>4, AppendProperties
  <2>6. Len(seen[p]) \in Nat /\ given[p] \in Nat /\ link[p].served \in Nat
        /\ Len(link[p].to) \in Nat
    BY <1>0, Queues
  <2>7. LineOf(p)
    BY DEF Telling, LineOf
  <2>8. OwnItems(p, ctx'[p].obuf)
    <3>1. OwnItems(p, seen[p])
      BY <2>7 DEF LineOf, Owning
    <3>2. Cmd(p, given[p] + 1)[1] = p
          /\ (Cmd(p, given[p] + 1)[2] = 0 <=> p \notin Publishers)
      BY <2>6 DEF Cmd
    <3>3. ASSUME NEW i \in 1..Len(seen[p]) + 1
          PROVE  \/ i \in 1..Len(seen[p]) /\ ctx'[p].obuf[i] = seen[p][i]
                 \/ ctx'[p].obuf[i] = Cmd(p, given[p] + 1)
      <4>1. CASE i \in 1..Len(seen[p])
        BY <2>5, <4>1
      <4>2. CASE i = Len(seen[p]) + 1
        BY <2>5, <4>2
      <4> QED
        BY <2>6, <4>1, <4>2
    <3> QED
      BY <2>5, <3>1, <3>2, <3>3 DEF OwnItems
  <2>9. Owning(p)' /\ Unlinked(p)'
    BY <2>1, <2>3, <2>7, <2>8 DEF LineOf, Owning, OwnItems, Unlinked
  <2>10. ASSUME p \notin raced', link'[p].state # "down" PROVE Lined(p)'
    <3>1. Lined(p) /\ ctx[p].obuf = seen[p]
      BY <1>1, <2>1, <2>7, <2>10 DEF LineOf
    <3>2. ~InHandler(p) /\ event[p] # "written"
      BY <1>0, <3>1 DEF Lined, InCommand, InHandler
    <3>3. /\ \A i \in 1..Len(link[p].to) : link[p].to[i] = Cmd(p, link[p].served + i)
          /\ \A i \in 1..Len(seen[p]) :
               seen[p][i] = Cmd(p, link[p].served + Len(link[p].to) + i)
      BY <3>1, <3>2 DEF Lined
    <3>4. link[p].served + Len(link[p].to) + Len(seen[p]) = given[p]
      BY <1>0, <2>6, <3>1, <3>2 DEF Lined
    <3>5. link[p].served + Len(link[p].to) + (Len(seen[p]) + 1) = given[p] + 1
      <4> DEFINE a == link[p].served
                 b == Len(link[p].to)
                 c == Len(seen[p])
                 d == given[p]
      <4>1. a \in Nat /\ b \in Nat /\ c \in Nat /\ d \in Nat /\ a + b + c = d
        BY <2>6, <3>4
      <4> HIDE DEF a, b, c, d
      <4>2. a + b + (c + 1) = d + 1
        BY <4>1
      <4> QED
        BY <4>2 DEF a, b, c, d
    <3>6. \A i \in 1..Len(seen[p]) + 1 :
             ctx'[p].obuf[i] = Cmd(p, link[p].served + Len(link[p].to) + i)
      <4> SUFFICES ASSUME NEW i \in 1..Len(seen[p]) + 1
                   PROVE  ctx'[p].obuf[i] = Cmd(p, link[p].served + Len(link[p].to) + i)
        OBVIOUS
      <4>1. CASE i \in 1..Len(seen[p])
        BY <2>5, <3>3, <4>1
      <4>2. CASE i = Len(seen[p]) + 1
        <5>1. link[p].served + Len(link[p].to) + i = given[p] + 1
          BY <3>5, <4>2
        <5> QED
          BY <2>5, <4>2, <5>1
      <4> QED
        BY <2>6, <4>1, <4>2
    <3> QED
      BY <2>1, <2>2, <2>5, <3>2, <3>3, <3>5, <3>6 DEF Lined, InHandler, Cmd
  <2>11. LineOf(p)'
    BY <2>9, <2>10 DEF LineOf
  <2>12. ASSUME NEW q \in Clients \ {p} PROVE Unmoved(q)
    BY <2>1, <2>2, <2>3 DEF Unmoved, Unlinked
  <2> QED
    BY <1>0, <2>1, <2>11, <2>12, LocalTelling DEF Told
<1>3. CASE (ctx[p].memory = "freed" \/ ctx[p].obuf # seen[p]) /\ Undefined(p)
  <2>1. p \in raced \/ link[p].state = "down"
    BY <1>1, <1>3 DEF Inv, Good, Dispatching
  <2> QED
    BY <1>0, <1>3, <2>1, UndefinedTells
<1> QED
  BY <1>2, <1>3 DEF Appends

(* The command is given: it was in line already. *)
LEMMA ArmsTells ==
  ASSUME Inv, Telling, NEW p \in Clients, Arms(p)
  PROVE  Telling'
<1>0. /\ TypeOK /\ main \in [Clients -> Places] /\ given \in [Clients -> 0..MaxMessages + 1]
      /\ main[p] = "arm" /\ UNCHANGED <<event, heard, raced>>
  BY DEF Inv, TypeOK, Arms
<1>1. CASE /\ Goto(p, "arm", AfterCommand(p)) /\ AddWrite(p)
           /\ given' = [given EXCEPT ![p] = @ + 1] /\ UNCHANGED local
  <2>1. UNCHANGED <<link, subscribed, event, seen, written, heard, raced>> /\ StayPut
    BY <1>0, <1>1, PutCalls DEF AddWrite, local
  <2>2. main'[p] \in {"ready", "asleep"} /\ \A q \in Clients \ {p} : main'[q] = main[q]
    BY <1>0, <1>1 DEF Goto, AfterCommand
  <2>3. given'[p] = given[p] + 1 /\ \A q \in Clients \ {p} : given'[q] = given[q]
    BY <1>0, <1>1
  <2>4. given[p] \in Nat
    BY <1>0, Queues
  <2>5. LineOf(p)'
    <3>1. LineOf(p) /\ ctx'[p].obuf = ctx[p].obuf /\ Unlinked(p)'
      BY <2>1 DEF Telling, LineOf, StayPut
    <3>2. Owning(p)'
      BY <2>1, <3>1 DEF LineOf, Owning
    <3>3. ASSUME p \notin raced', link'[p].state # "down" PROVE Lined(p)'
      <4>1. Lined(p)
        BY <2>1, <3>1, <3>3 DEF LineOf
      <4> QED
        BY <1>0, <2>1, <2>2, <2>3, <2>4, <3>1, <4>1 DEF Lined, InCommand, InHandler, Cmd
    <3> QED
      BY <3>1, <3>2, <3>3 DEF LineOf
  <2>6. ASSUME NEW q \in Clients \ {p} PROVE Unmoved(q)
    BY <2>1, <2>2, <2>3 DEF Unmoved, Unlinked, StayPut
  <2> QED
    BY <1>0, <2>1, <2>5, <2>6, LocalTelling DEF Told
<1>2. CASE ctx[p].memory = "freed" /\ Undefined(p)
  <2>1. link[p].state = "down"
    BY <1>2 DEF Inv, Good, Dispatching
  <2> QED
    BY <1>0, <1>2, <2>1, UndefinedTells
<1> QED
  BY <1>1, <1>2 DEF Arms

(* Parts of a client's commands, and two of them in a row, are its own. *)
LEMMA OwnParts ==
  ASSUME NEW q, NEW s \in Seq(Item), NEW t \in Seq(Item), OwnItems(q, s)
  PROVE  /\ OwnItems(q, t) => OwnItems(q, s \o t)
         /\ \A n \in Nat : OwnItems(q, SubSeq(s, n + 1, Len(s)))
         /\ s # << >> => OwnItems(q, Tail(s))
<1>0. Len(s) \in Nat /\ Len(t) \in Nat
  OBVIOUS
<1>1. ASSUME OwnItems(q, t) PROVE OwnItems(q, s \o t)
  <2>1. /\ Len(s \o t) = Len(s) + Len(t)
        /\ \A i \in 1..Len(s) + Len(t) :
             (s \o t)[i] = IF i <= Len(s) THEN s[i] ELSE t[i - Len(s)]
    BY ConcatProperties
  <2>2. ASSUME NEW i \in 1..Len(s) + Len(t)
        PROVE  \/ i \in 1..Len(s) /\ (s \o t)[i] = s[i]
               \/ i - Len(s) \in 1..Len(t) /\ (s \o t)[i] = t[i - Len(s)]
    <3> DEFINE u == s \o t
    <3>1. u[i] = IF i <= Len(s) THEN s[i] ELSE t[i - Len(s)]
      BY <2>1
    <3> HIDE DEF u
    <3>2. \/ i \in 1..Len(s) /\ u[i] = s[i]
          \/ i - Len(s) \in 1..Len(t) /\ u[i] = t[i - Len(s)]
      BY <1>0, <3>1
    <3> QED
      BY <3>2 DEF u
  <2> DEFINE u == s \o t
  <2>3. \A i \in 1..Len(u) : \/ \E j \in 1..Len(s) : u[i] = s[j]
                             \/ \E j \in 1..Len(t) : u[i] = t[j]
    BY <2>1, <2>2
  <2> HIDE DEF u
  <2>4. OwnItems(q, u)
    BY <1>1, <2>3 DEF OwnItems
  <2> QED
    BY <2>4 DEF u
<1>2. ASSUME NEW n \in Nat PROVE OwnItems(q, SubSeq(s, n + 1, Len(s)))
  <2> DEFINE u == SubSeq(s, n + 1, Len(s))
  <2>1. \A i \in n + 1..Len(s) : s[i] \in Item
    BY <1>0
  <2>2. /\ Len(u) = IF n + 1 <= Len(s) THEN Len(s) - (n + 1) + 1 ELSE 0
        /\ \A i \in 1..Len(s) - (n + 1) + 1 : u[i] = s[n + 1 + i - 1]
    BY <1>0, <2>1, SubSeqProperties
  <2> HIDE DEF u
  <2>3. ASSUME NEW i \in 1..Len(u) PROVE \E j \in 1..Len(s) : u[i] = s[j]
    <3>1. i \in 1..Len(s) - (n + 1) + 1 /\ n + 1 + i - 1 \in 1..Len(s)
      BY <1>0, <2>2
    <3> QED
      BY <2>2, <3>1
  <2>4. OwnItems(q, u)
    BY <2>3 DEF OwnItems
  <2> QED
    BY <2>4 DEF u
<1>3. ASSUME s # << >> PROVE OwnItems(q, Tail(s))
  <2>1. /\ Len(Tail(s)) = Len(s) - 1
        /\ \A i \in 1..Len(Tail(s)) : Tail(s)[i] = s[i + 1]
    BY <1>3, HeadTailProperties
  <2>2. \A i \in 1..Len(Tail(s)) : i + 1 \in 1..Len(s)
    BY <1>0, <2>1
  <2> QED
    BY <2>1, <2>2 DEF OwnItems
<1> QED
  BY <1>1, <1>2, <1>3

(* What is written out is in line behind what was written before. *)
LEMMA WritesOutTells ==
  ASSUME Inv, Telling, NEW p \in Clients, event[p] = "dispatch", Races(p), WritesOut(p),
         EventGoto(p, "written"), written' = [written EXCEPT ![p] = Len(ctx[p].obuf)],
         UNCHANGED <<main, given, seen, heard>>
  PROVE  Telling'
<1>0. /\ TypeOK /\ ctx \in [Clients -> Context] /\ link \in [Clients -> Link]
      /\ event \in [Clients -> EventPlaces] /\ written \in [Clients -> Nat]
  BY DEF Inv, TypeOK, RedisTypeOK
<1> DEFINE to == link[p].to
           obuf == ctx[p].obuf
           n == link[p].served
<1>1. /\ to \in Seq(Item) /\ obuf \in Seq(Item) /\ Len(to) \in Nat /\ Len(obuf) \in Nat
      /\ n \in Nat
  BY <1>0, Queues
<1>2. /\ \A q \in Clients : ctx'[q].obuf = ctx[q].obuf /\ ctx'[q].memory = ctx[q].memory
      /\ subscribed' = subscribed
  BY <1>0 DEF WritesOut, Context
<1>3. /\ link'[p].to = to \o obuf
      /\ link'[p].served = n /\ link'[p].from = link[p].from
      /\ link'[p].state = link[p].state
      /\ \A q \in Clients \ {p} : link'[q] = link[q]
  BY <1>0 DEF WritesOut, Link
<1>4. /\ event'[p] = "written" /\ written'[p] = Len(obuf)
      /\ \A q \in Clients \ {p} : event'[q] = event[q] /\ written'[q] = written[q]
  BY <1>0 DEF EventGoto
<1>5. raced \subseteq raced' /\ (p \notin raced' => ~InCommand(p) /\ p \notin raced)
  BY DEF Races
<1>6. LineOf(p)
  BY DEF Telling, LineOf
<1>7. Owning(p)' /\ Unlinked(p)'
  <2>1. OwnItems(p, to \o obuf)
    BY <1>1, <1>6, OwnParts DEF LineOf, Owning
  <2> QED
    BY <1>2, <1>3, <1>6, <2>1 DEF LineOf, Owning, OwnItems, Unlinked
<1>8. ASSUME p \notin raced', link'[p].state # "down" PROVE Lined(p)'
  <2>1. /\ \A i \in 1..Len(to) : to[i] = Cmd(p, n + i)
        /\ \A i \in 1..Len(obuf) : obuf[i] = Cmd(p, n + Len(to) + i)
        /\ n + Len(to) + Len(obuf) = given[p] + (IF main[p] = "arm" THEN 1 ELSE 0)
    BY <1>3, <1>5, <1>6, <1>8 DEF LineOf, Lined
  <2>2. /\ Len(to \o obuf) = Len(to) + Len(obuf)
        /\ \A i \in 1..Len(to) + Len(obuf) :
             (to \o obuf)[i] = IF i <= Len(to) THEN to[i] ELSE obuf[i - Len(to)]
    BY <1>1, ConcatProperties
  <2>3. ASSUME NEW i \in 1..Len(to) + Len(obuf) PROVE (to \o obuf)[i] = Cmd(p, n + i)
    <3>1. CASE i <= Len(to)
      <4>1. i \in 1..Len(to) /\ (to \o obuf)[i] = to[i]
        BY <1>1, <2>2, <3>1
      <4> QED
        BY <2>1, <4>1
    <3>2. CASE ~(i <= Len(to))
      <4>1. (to \o obuf)[i] = obuf[i - Len(to)]
        BY <2>2, <3>2
      <4> HIDE DEF to, obuf, n
      <4>2. i - Len(to) \in 1..Len(obuf) /\ n + Len(to) + (i - Len(to)) = n + i
        BY <1>1, <3>2
      <4> QED
        BY <2>1, <4>1, <4>2
    <3> QED
      BY <3>1, <3>2
  <2> DEFINE new == link'[p].to
  <2>4. /\ Len(new) = Len(to) + Len(obuf)
        /\ \A i \in 1..Len(new) : new[i] = Cmd(p, n + i)
    BY <1>3, <2>2, <2>3
  <2>5. n + Len(new) + 0 = given[p] + (IF main[p] = "arm" THEN 1 ELSE 0)
    <3> HIDE DEF to, obuf, n, new
    <3> QED
      BY <1>1, <2>1, <2>4
  <2>6. ~InCommand(p)' /\ given'[p] = given[p] /\ main'[p] = main[p]
    BY <1>5, <1>8 DEF InCommand
  <2>7. /\ event'[p] = "written" /\ written'[p] = Len(ctx'[p].obuf)
        /\ link'[p].served = n
    BY <1>2, <1>3, <1>4
  <2>8. /\ \A i \in 1..Len(new) : new[i] = Cmd(p, link'[p].served + i)
        /\ link'[p].served + Len(new) + 0 = given'[p] + (IF main'[p] = "arm" THEN 1 ELSE 0)
    BY <2>4, <2>5, <2>6, <2>7
  <2> QED
    BY <2>6, <2>7, <2>8 DEF Lined, Cmd
<1>9. LineOf(p)'
  BY <1>7, <1>8 DEF LineOf
<1>10. ASSUME NEW q \in Clients \ {p} PROVE Unmoved(q)
  BY <1>2, <1>3, <1>4 DEF Unmoved, Unlinked
<1>11. ASSUME NEW q \in Clients
       PROVE  /\ link'[q].served = link[q].served
              /\ link'[q].state # "down" => link[q].state # "down"
  BY <1>3
<1>12. ASSUME NEW s \in Subscribers PROVE Told(s)' = Told(s)
  <2>1. link'[s].from = link[s].from
    BY <1>3 DEF Clients
  <2> QED
    BY <2>1 DEF Told
<1> QED
  BY <1>0, <1>2, <1>5, <1>9, <1>10, <1>11, <1>12, LocalTelling

(* write() takes obuf, or finds the connection lost. *)
LEMMA HandlesWriteTells ==
  ASSUME Inv, Telling, NEW p \in Clients, HandlesWrite(p)
  PROVE  Telling'
<1>0. TypeOK /\ event[p] = "dispatch" /\ Races(p) /\ UNCHANGED <<main, given, seen, heard>>
  BY DEF Inv, HandlesWrite, At
<1>1. CASE /\ WritesOut(p) /\ EventGoto(p, "written")
           /\ written' = [written EXCEPT ![p] = Len(ctx[p].obuf)]
  BY <1>0, <1>1, WritesOutTells
<1>2. CASE WriteFails(p) /\ UNCHANGED <<event, written>>
  <2>1. StayPut
    BY <1>0, <1>2, PutCalls DEF WriteFails
  <2>2. raced \subseteq raced'
    BY <1>0 DEF Races
  <2>3. /\ main'[p] = main[p] /\ event'[p] = event[p]
        /\ \A q \in Clients \ {p} : main'[q] = main[q] /\ event'[q] = event[q]
    BY <1>0, <1>2
  <2> QED
    BY <1>0, <1>2, <2>1, <2>2, <2>3, Aside
<1> QED
  BY <1>1, <1>2 DEF HandlesWrite

(* What was written is no longer in obuf. *)
LEMMA DropsTells ==
  ASSUME Inv, Telling, NEW p \in Clients, event[p] = "written", Races(p),
         DropsWritten(p, written[p]), NEW next \in {"disarm", "rearm"}, EventGoto(p, next),
         UNCHANGED <<main, given, seen, written, heard>>
  PROVE  Telling'
<1>0. /\ TypeOK /\ ctx \in [Clients -> Context] /\ event \in [Clients -> EventPlaces]
  BY DEF Inv, TypeOK, RedisTypeOK
<1> DEFINE rest == SubSeq(ctx[p].obuf, written[p] + 1, Len(ctx[p].obuf))
<1>1. /\ ctx[p].obuf \in Seq(Item) /\ written[p] \in Nat /\ << >> \in Seq(Item)
  BY <1>0, Queues
<1>2. /\ ctx'[p].obuf = rest /\ ctx'[p].memory = ctx[p].memory
      /\ \A q \in Clients \ {p} : ctx'[q] = ctx[q]
      /\ UNCHANGED <<link, subscribed>>
  BY <1>0 DEF DropsWritten, Context
<1>3. event'[p] = next /\ \A q \in Clients \ {p} : event'[q] = event[q]
  BY <1>0 DEF EventGoto
<1>4. LineOf(p) /\ raced \subseteq raced'
  BY DEF Telling, LineOf, Races
<1>5. Owning(p)' /\ Unlinked(p)'
  <2>1. OwnItems(p, rest)
    BY <1>1, <1>4, OwnParts DEF LineOf, Owning
  <2> HIDE DEF rest
  <2> QED
    BY <1>2, <1>4, <2>1 DEF LineOf, Owning, OwnItems, Unlinked
<1>6. ASSUME p \notin raced', link'[p].state # "down" PROVE Lined(p)'
  <2>1. Lined(p)
    BY <1>2, <1>4, <1>6 DEF LineOf
  <2>2. written[p] = Len(ctx[p].obuf) /\ ~InCommand(p)
    BY <2>1 DEF Lined, InHandler
  <2>3. rest = << >>
    BY <1>1, <2>2, SubSeqEmpty
  <2> HIDE DEF rest
  <2>4. Len(ctx'[p].obuf) = 0
    BY <1>2, <2>3
  <2>5. /\ \A i \in 1..Len(link[p].to) : link[p].to[i] = Cmd(p, link[p].served + i)
        /\ link[p].served + Len(link[p].to) + 0 = given[p] + (IF main[p] = "arm" THEN 1 ELSE 0)
    BY <2>1 DEF Lined
  <2> QED
    BY <1>2, <1>3, <2>2, <2>4, <2>5 DEF Lined, InCommand, Cmd
<1>7. LineOf(p)'
  BY <1>5, <1>6 DEF LineOf
<1>8. ASSUME NEW q \in Clients \ {p} PROVE Unmoved(q)
  BY <1>2, <1>3 DEF Unmoved, Unlinked
<1> QED
  BY <1>0, <1>2, <1>4, <1>7, <1>8, LocalTelling DEF Told

(* The events are set anew; nothing moves. *)
LEMMA RearmsTells ==
  ASSUME Inv, Telling, NEW p \in Clients, event[p] \in {"disarm", "rearm"}, Races(p),
         NEW done \in BOOLEAN, Rearms(p, done), EventGoto(p, "dispatch"),
         UNCHANGED <<main, given, seen, written, heard>>
  PROVE  Telling'
<1>0. TypeOK /\ event \in [Clients -> EventPlaces]
  BY DEF Inv, TypeOK
<1>1. StayPut /\ UNCHANGED <<link, subscribed>>
  BY <1>0, PutCalls DEF Rearms
<1>2. event'[p] = "dispatch" /\ \A q \in Clients \ {p} : event'[q] = event[q]
  BY <1>0 DEF EventGoto
<1>3. LineOf(p) /\ raced \subseteq raced' /\ ctx'[p].obuf = ctx[p].obuf
      /\ (Unlinked(p) => Unlinked(p)')
  BY <1>1 DEF Telling, LineOf, Races, StayPut
<1>4. ~InHandler(p)' /\ event[p] # "written" /\ event'[p] # "written"
  BY <1>2 DEF InHandler
<1>5. ASSUME Lined(p) PROVE Lined(p)'
  BY <1>1, <1>3, <1>4, <1>5 DEF Lined, Cmd
<1>6. LineOf(p)'
  BY <1>1, <1>3, <1>5 DEF LineOf, Owning, OwnItems
<1>7. ASSUME NEW q \in Clients \ {p} PROVE Unmoved(q)
  BY <1>1, <1>2 DEF Unmoved, StayPut
<1> QED
  BY <1>0, <1>1, <1>3, <1>6, <1>7, LocalTelling DEF Told

(* The rest of the write handler *)
LEMMA FinishesWriteTells ==
  ASSUME Inv, Telling, NEW p \in Clients, FinishesWrite(p)
  PROVE  Telling'
<1>0. Races(p) /\ UNCHANGED <<main, given, seen, written, heard>>
  BY DEF FinishesWrite, local
<1>1. CASE /\ At(p, "written") /\ DropsWritten(p, written[p])
           /\ EventGoto(p, IF ctx'[p].obuf = << >> THEN "disarm" ELSE "rearm")
  <2>1. PICK next \in {"disarm", "rearm"} : EventGoto(p, next)
    BY <1>1
  <2> QED
    BY <1>0, <1>1, <2>1, DropsTells DEF At
<1>2. CASE /\ At(p, "disarm") \/ At(p, "rearm")
           /\ Rearms(p, TRUE) \/ Rearms(p, FALSE)
           /\ EventGoto(p, "dispatch")
  BY <1>0, <1>2, RearmsTells DEF At
<1> QED
  BY <1>1, <1>2 DEF FinishesWrite

(* A reply that is read is passed on, and no longer on its way. *)
LEMMA HandlesReadTells ==
  ASSUME Inv, Telling, NEW p \in Clients, HandlesRead(p)
  PROVE  Telling'
<1>0. /\ TypeOK /\ link \in [Clients -> Link] /\ heard \in [Subscribers -> Seq(Item)]
      /\ Races(p) /\ UNCHANGED <<main, event, given, seen, written>>
  BY DEF Inv, TypeOK, RedisTypeOK, HandlesRead, local
<1>1. raced \subseteq raced'
  BY <1>0 DEF Races
<1>2. CASE /\ ReadsReply(p)
           /\ IF p \in Subscribers THEN Notify(p, Head(link[p].from)) ELSE UNCHANGED heard
  <2>1. /\ UNCHANGED <<ctx, subscribed>> /\ link[p].from # << >>
        /\ link'[p].from = Tail(link[p].from) /\ link'[p].to = link[p].to
        /\ link'[p].served = link[p].served /\ link'[p].state = link[p].state
        /\ \A q \in Clients \ {p} : link'[q] = link[q]
    BY <1>0, <1>2 DEF ReadsReply, Link
  <2>2. LineOf(p)'
    <3>1. LineOf(p)
      BY DEF Telling, LineOf
    <3> QED
      BY <1>0, <1>1, <2>1, <3>1 DEF LineOf, Owning, OwnItems, Unlinked, Lined, Cmd,
        InCommand, InHandler
  <2>3. ASSUME NEW q \in Clients \ {p} PROVE Unmoved(q)
    BY <1>0, <2>1 DEF Unmoved, Unlinked
  <2>4. ASSUME NEW q \in Clients
        PROVE  /\ link'[q].served = link[q].served
               /\ link'[q].state # "down" => link[q].state # "down"
    BY <2>1
  <2>5. ASSUME NEW s \in Subscribers PROVE Told(s)' = Told(s)
    <3>1. CASE s = p
      <4>1. heard'[p] = Append(heard[p], Head(link[p].from))
        BY <1>0, <1>2, <3>1 DEF Notify
      <4>2. heard[p] \in Seq(Item) /\ link[p].from \in Seq(Item)
        BY <1>0, <3>1, ToldIs
      <4> QED
        BY <2>1, <3>1, <4>1, <4>2, ToldNext DEF Told
    <3>2. CASE s # p
      <4>1. heard'[s] = heard[s]
        BY <1>0, <1>2, <3>2 DEF Notify
      <4>2. link'[s].from = link[s].from
        BY <2>1, <3>2 DEF Clients
      <4> QED
        BY <4>1, <4>2 DEF Told
    <3> QED
      BY <3>1, <3>2
  <2> QED
    BY <1>0, <1>1, <2>1, <2>2, <2>3, <2>4, <2>5, LocalTelling
<1>3. CASE ReadsEnd(p) /\ UNCHANGED heard
  <2>1. StayPut
    BY <1>0, <1>3, PutCalls DEF ReadsEnd
  <2>2. /\ main'[p] = main[p] /\ event'[p] = event[p]
        /\ \A q \in Clients \ {p} : main'[q] = main[q] /\ event'[q] = event[q]
    BY <1>0
  <2> QED
    BY <1>0, <1>1, <1>3, <2>1, <2>2, Aside
<1> QED
  BY <1>2, <1>3 DEF HandlesRead

(* What UpToDate says of the next state, in terms of what is told then *)
LEMMA UpToDateThen ==
  ASSUME NEW s, NEW p, NEW t, Told(s)' = t, NEW n, link'[p].served = n,
         InOrder(p, t), \A i \in Of(p, t) : t[i][2] <= n,
         s \in subscribed' /\ Of(p, t) # {} => \E k \in Of(p, t) : t[k][2] = n
  PROVE  UpToDate(s, p)'
BY DEF UpToDate, InOrder, Of

(* A reply to others changes nothing for the messages of p. *)
LEMMA OthersTold ==
  ASSUME NEW s, NEW p, UpToDate(s, p), Told(s) \in Seq(Item),
         NEW x \in Item, x[1] # p, Told(s)' = Append(Told(s), x),
         link'[p].served = link[p].served,
         s \in subscribed' /\ Of(p, Told(s)) # {} => s \in subscribed
  PROVE  UpToDate(s, p)'
<1> DEFINE u == Told(s)
           t == Append(u, x)
           n == link[p].served
<1>1. Of(p, t) = Of(p, u) /\ \A i \in Of(p, u) : t[i] = u[i]
  BY OfOthers
<1>2. /\ InOrder(p, u) /\ \A i \in Of(p, u) : u[i][2] <= n
      /\ s \in subscribed /\ Of(p, u) # {} => \E k \in Of(p, u) : u[k][2] = n
  BY DEF UpToDate
<1>3. s \in subscribed' /\ Of(p, u) # {} => s \in subscribed
  OBVIOUS
<1>4. Told(s)' = t /\ link'[p].served = n
  OBVIOUS
<1> HIDE DEF u, t, n
<1>5. /\ InOrder(p, t) /\ \A i \in Of(p, t) : t[i][2] <= n
      /\ s \in subscribed' /\ Of(p, t) # {} => \E k \in Of(p, t) : t[k][2] = n
  BY <1>1, <1>2, <1>3 DEF InOrder
<1> QED
  BY <1>4, <1>5, UpToDateThen

(* The next message of p is told to those who are subscribed. *)
LEMMA NextTold ==
  ASSUME NEW s, NEW p, UpToDate(s, p), Told(s) \in Seq(Item),
         link[p].served \in Nat, NEW x \in Item, x = <<p, link[p].served + 1>>,
         s \in subscribed, Told(s)' = Append(Told(s), x),
         link'[p].served = link[p].served + 1
  PROVE  UpToDate(s, p)'
<1> DEFINE u == Told(s)
           t == Append(u, x)
           n == link[p].served
<1>1. /\ Of(p, t) = Of(p, u) \cup {Len(u) + 1} /\ t[Len(u) + 1] = x
      /\ \A i \in Of(p, u) : i \in 1..Len(u) /\ t[i] = u[i]
  BY OfOwn
<1>2. /\ InOrder(p, u) /\ \A i \in Of(p, u) : u[i][2] <= n
      /\ Of(p, u) # {} => \E k \in Of(p, u) : u[k][2] = n
  BY DEF UpToDate
<1>3. n \in Nat /\ x = <<p, n + 1>> /\ u \in Seq(Item)
  OBVIOUS
<1>4. Told(s)' = t /\ link'[p].served = n + 1
  OBVIOUS
<1>5. InOrder(p, t)
  <2> HIDE DEF u, n
  <2> QED
    BY <1>2, <1>3, OrderGrows
<1>6. \A i \in Of(p, u) : u[i][2] \in Nat
  BY ClientsAssumption DEF Of, Item
<1> HIDE DEF u, t, n
<1>7. \A i \in Of(p, t) : t[i][2] <= n + 1
  BY <1>1, <1>2, <1>3, <1>6
<1>8. \E k \in Of(p, t) : t[k][2] = n + 1
  BY <1>1, <1>3
<1> QED
  BY <1>4, <1>5, <1>7, <1>8, UpToDateThen

(* What Executes does, client by client *)
LEMMA ExecutesDoes ==
  ASSUME TypeOK, NEW q \in Clients, Executes(q), heard' = heard,
         NEW item, item = Head(link[q].to)
  PROVE  /\ link[q].state = "up" /\ item \in Item /\ link[q].to # << >>
         /\ link'[q].to = Tail(link[q].to) /\ link'[q].served = link[q].served + 1
         /\ \A c \in Clients \ {q} : /\ link'[c].to = link[c].to
                                     /\ link'[c].served = link[c].served
         /\ \A c \in Clients : link'[c].state = link[c].state
         /\ \A s \in Subscribers :
              IF s = q \/ (item[2] # 0 /\ s \in subscribed)
              THEN Told(s)' = Append(Told(s), item)
              ELSE Told(s)' = Told(s)
         /\ subscribed' = IF item[2] = 0 THEN subscribed \cup {q} ELSE subscribed
<1> DEFINE hearers == {q} \cup (IF item[2] = 0 THEN {} ELSE subscribed)
<1>1. \A c \in Clients : link[c] \in Link /\ link[c].from \in Seq(Item)
  BY Queues
<1>2. link[q].to \in Seq(Item) /\ link[q].to # << >> /\ link[q].state = "up"
  BY <1>1 DEF Executes, Link
<1>3. item \in Item
  BY <1>2, HeadTailProperties
<1>4. /\ link' = [c \in Clients |->
             [link[c] EXCEPT
                !.to = IF c = q THEN Tail(@) ELSE @,
                !.served = IF c = q THEN @ + 1 ELSE @,
                !.from = IF c \in hearers THEN Append(@, item) ELSE @]]
      /\ subscribed' = IF item[2] = 0 THEN subscribed \cup {q} ELSE subscribed
  BY DEF Executes
<1> HIDE DEF hearers
<1>5. ASSUME NEW c \in Clients
      PROVE  /\ link'[c].to = IF c = q THEN Tail(link[c].to) ELSE link[c].to
             /\ link'[c].served = IF c = q THEN link[c].served + 1 ELSE link[c].served
             /\ link'[c].from = IF c \in hearers THEN Append(link[c].from, item)
                                                 ELSE link[c].from
             /\ link'[c].state = link[c].state
  BY <1>1, <1>4 DEF Link
<1>6. ASSUME NEW s \in Subscribers
      PROVE  Told(s)' = IF s \in hearers THEN Append(Told(s), item) ELSE Told(s)
  <2>1. heard[s] \in Seq(Item) /\ link[s].from \in Seq(Item) /\ s \in Clients
    BY ToldIs DEF Clients
  <2>2. CASE s \in hearers
    <3>1. Told(s)' = heard[s] \o Append(link[s].from, item)
      BY <1>4, <1>5, <2>1, <2>2 DEF Told
    <3> QED
      BY <1>3, <2>1, <2>2, <3>1, ToldMore DEF Told
  <2>3. CASE s \notin hearers
    <3>1. link'[s].from = link[s].from /\ heard'[s] = heard[s]
      BY <1>5, <2>1, <2>3
    <3>2. Told(s)' = heard'[s] \o link'[s].from
      BY DEF Told
    <3> QED
      BY <2>3, <3>1, <3>2 DEF Told
  <2> QED
    BY <2>2, <2>3
<1>7. \A s : s \in hearers <=> s = q \/ (item[2] # 0 /\ s \in subscribed)
  BY DEF hearers
<1> QED
  BY <1>2, <1>3, <1>4, <1>5, <1>6, <1>7

(* The line moves up by one. *)
LEMMA ExecutesLined ==
  ASSUME Inv, Telling, NEW q \in Clients, Executes(q),
         UNCHANGED <<main, event, given, seen, written, heard, raced>>
  PROVE  \A c \in Clients : LineOf(c)'
<1>0. TypeOK /\ UNCHANGED ctx
  BY DEF Inv, Executes
<1> DEFINE to == link[q].to
           obuf == ctx[q].obuf
           n == link[q].served
<1>1. /\ link[q].state = "up" /\ to # << >>
      /\ link'[q].to = Tail(to) /\ link'[q].served = n + 1
      /\ \A c \in Clients \ {q} : /\ link'[c].to = link[c].to
                                  /\ link'[c].served = link[c].served
      /\ \A c \in Clients : link'[c].state = link[c].state
  BY <1>0, ExecutesDoes
<1>2. /\ to \in Seq(Item) /\ n \in Nat /\ Len(to) \in Nat /\ Len(obuf) \in Nat
      /\ given[q] \in Nat
  BY <1>0, Queues
<1>3. \A c \in Clients : LineOf(c)
  BY DEF Telling, LineOf
<1>4. ASSUME NEW c \in Clients \ {q} PROVE LineOf(c)'
  <2>1. Unmoved(c)
    BY <1>0, <1>1 DEF Unmoved, Unlinked
  <2>2. LineOf(c) /\ link'[c].state = link[c].state /\ raced' = raced
    BY <1>1, <1>3
  <2> QED
    BY <2>1, <2>2, UnmovedLined
<1>5. Owning(q)' /\ Unlinked(q)'
  <2>1. OwnItems(q, Tail(to))
    BY <1>1, <1>2, <1>3, OwnParts DEF LineOf, Owning
  <2> QED
    BY <1>0, <1>1, <1>3, <2>1 DEF LineOf, Owning, OwnItems, Unlinked
<1>6. ASSUME q \notin raced' PROVE Lined(q)'
  <2>1. Lined(q)
    BY <1>1, <1>3, <1>6 DEF LineOf
  <2>2. /\ Len(Tail(to)) = Len(to) - 1
        /\ \A i \in 1..Len(Tail(to)) : Tail(to)[i] = to[i + 1]
    BY <1>1, <1>2, HeadTailProperties
  <2> DEFINE new == Tail(to)
             kept == IF event[q] = "written" THEN 0 ELSE Len(obuf)
             g == given[q] + (IF main[q] = "arm" THEN 1 ELSE 0)
             l == Len(to)
  <2>0. l \in Nat
    BY <1>2
  <2>3. /\ \A i \in 1..Len(to) : to[i] = Cmd(q, n + i)
        /\ \A i \in 1..kept : obuf[i] = Cmd(q, n + Len(to) + i)
        /\ n + Len(to) + kept = g
    BY <2>1 DEF Lined
  <2>4. kept \in Nat
    BY <1>2
  <2> HIDE DEF to, obuf, n, new, kept, g, l
  <2>5. ASSUME NEW i \in 1..Len(new) PROVE new[i] = Cmd(q, n + 1 + i)
    <3>1. i + 1 \in 1..Len(to) /\ n + 1 + i = n + (i + 1)
      BY <1>2, <2>2 DEF new
    <3> QED
      BY <2>2, <2>3, <3>1 DEF new
  <2>5a. Len(new) = l - 1
    BY <2>2 DEF new, l
  <2>6. n + 1 + Len(new) + kept = g
    <3>1. n + l + kept = g
      BY <2>3 DEF l
    <3> QED
      BY <1>2, <2>5a, <2>0, <2>4, <3>1
  <2>7. ASSUME NEW i \in 1..kept PROVE obuf[i] = Cmd(q, n + 1 + Len(new) + i)
    <3>1. i \in Nat /\ n + 1 + Len(new) + i = n + l + i
      BY <1>2, <2>5a, <2>0, <2>4
    <3>2. obuf[i] = Cmd(q, n + l + i)
      BY <2>3 DEF l
    <3> QED
      BY <3>1, <3>2
  <2>8. /\ \A i \in 1..Len(link'[q].to) : link'[q].to[i] = Cmd(q, link'[q].served + i)
        /\ link'[q].served + Len(link'[q].to) + kept = g
        /\ \A i \in 1..kept : obuf[i] = Cmd(q, link'[q].served + Len(link'[q].to) + i)
    BY <1>1, <2>5, <2>6, <2>7 DEF new, n, to
  <2> QED
    BY <1>0, <2>1, <2>8 DEF Lined, InCommand, InHandler, Cmd, kept, g, obuf
<1> QED
  BY <1>4, <1>5, <1>6 DEF LineOf

(* SUBSCRIBE is executed once. *)
LEMMA SubscribesOnce ==
  ASSUME Inv, Telling, NEW q \in Subscribers \ raced, link[q].to # << >>,
         link[q].state = "up"
  PROVE  q \notin subscribed
<1>1. q \in Clients /\ q \notin Publishers
  BY ClientsAssumption DEF Clients
<1>2. /\ link[q].to \in Seq(Item) /\ link[q].served \in Nat /\ given[q] \in Nat
      /\ Len(link[q].to) \in Nat /\ Len(ctx[q].obuf) \in Nat
  BY <1>1, Queues DEF Inv
<1>3. given[q] <= 1 /\ (main[q] = "arm" => given[q] = 0)
  BY <1>1 DEF Inv, Good, Counting
<1>4. PICK kept \in Nat : link[q].served + Len(link[q].to) + kept
                            = given[q] + (IF main[q] = "arm" THEN 1 ELSE 0)
  BY <1>1, <1>2 DEF Telling, Lined
<1>5. Len(link[q].to) > 0
  BY <1>2
<1>6. link[q].served = 0
  <2> DEFINE a == link[q].served
             b == Len(link[q].to)
             c == given[q]
             d == IF main[q] = "arm" THEN 1 ELSE 0
  <2>1. a \in Nat /\ b \in Nat /\ b > 0 /\ a + b + kept = c + d /\ c + d <= 1
    BY <1>2, <1>3, <1>4, <1>5
  <2> HIDE DEF a, b, c, d
  <2>2. a = 0
    BY <2>1
  <2> QED
    BY <2>2 DEF a
<1> QED
  BY <1>6 DEF Telling, Confirming

(* What a step does not tell s is no news for it; *)
LEMMA NotTold ==
  ASSUME TypeOK, NEW s \in Subscribers, NEW p \in Clients, UpToDate(s, p),
         Told(s)' = Told(s), s \in subscribed' => s \in subscribed,
         \/ link'[p].served = link[p].served
         \/ s \notin subscribed' /\ link'[p].served = link[p].served + 1
  PROVE  UpToDate(s, p)'
<1> DEFINE t == Told(s)
           n == link[p].served
           m == link'[p].served
<1>1. /\ InOrder(p, t) /\ \A i \in Of(p, t) : t[i][2] <= n
      /\ s \in subscribed /\ Of(p, t) # {} => \E k \in Of(p, t) : t[k][2] = n
  BY DEF UpToDate
<1>2. n \in Nat /\ t \in Seq(Item)
  BY Queues, ToldIs
<1>3. \A i \in Of(p, t) : t[i][2] \in Nat
  BY <1>2, ClientsAssumption DEF Of, Item
<1>4. m = n \/ (s \notin subscribed' /\ m = n + 1)
  OBVIOUS
<1>5. Told(s)' = t
  OBVIOUS
<1>6. s \in subscribed' => s \in subscribed
  OBVIOUS
<1> HIDE DEF t, n
<1>7. /\ \A i \in Of(p, t) : t[i][2] <= m
      /\ s \in subscribed' /\ Of(p, t) # {} => \E k \in Of(p, t) : t[k][2] = m
  BY <1>1, <1>2, <1>3, <1>4, <1>6
<1> QED
  BY <1>1, <1>5, <1>7, UpToDateThen

(* SUBSCRIBE tells its client that the messages begin. *)
LEMMA SubscribeTells ==
  ASSUME Inv, Telling, NEW q \in Subscribers, Executes(q),
         UNCHANGED <<main, event, given, seen, written, heard, raced>>
  PROVE  Telling'
<1>0. TypeOK /\ q \in Clients /\ q \notin Publishers
  BY ClientsAssumption DEF Inv, Clients
<1> DEFINE item == Head(link[q].to)
<1>1. /\ link[q].state = "up" /\ item \in Item /\ link[q].to # << >>
      /\ link'[q].served = link[q].served + 1
      /\ \A c \in Clients \ {q} : link'[c].served = link[c].served
      /\ \A c \in Clients : link'[c].state = link[c].state
      /\ \A s \in Subscribers :
           IF s = q \/ (item[2] # 0 /\ s \in subscribed)
           THEN Told(s)' = Append(Told(s), item)
           ELSE Told(s)' = Told(s)
      /\ subscribed' = IF item[2] = 0 THEN subscribed \cup {q} ELSE subscribed
  BY <1>0, ExecutesDoes
<1>2. item[1] = q /\ item[2] = 0
  <2>1. link[q].to[1] = item /\ 1 \in 1..Len(link[q].to)
    BY <1>0, <1>1, Queues
  <2> QED
    BY <1>0, <2>1 DEF Telling, Owning, OwnItems
<1> HIDE DEF item
<1>3. /\ subscribed' = subscribed \cup {q}
      /\ \A s \in Subscribers :
           Told(s)' = IF s = q THEN Append(Told(s), item) ELSE Told(s)
  BY <1>1, <1>2
<1>4. link[q].served \in Nat /\ \A s \in Subscribers : Told(s) \in Seq(Item)
  BY <1>0, Queues, ToldIs
<1>5. q \notin subscribed => Told(q) = << >>
  BY <1>1 DEF Telling, Confirming
<1>6. ASSUME NEW s \in Subscribers PROVE Confirming(s)'
  <2>1. Confirming(s) /\ s \in Clients
    BY DEF Telling, Clients
  <2>2. CASE s # q
    BY <1>1, <1>3, <2>1, <2>2 DEF Confirming
  <2>3. CASE s = q
    <3>1. Told(q)' = Append(Told(q), item) /\ q \in subscribed'
      BY <1>3
    <3>2. Told(q)' # << >> /\ link'[q].served > 0
      BY <1>1, <1>4, <3>1
    <3>3. ASSUME q \notin raced' PROVE \A i \in 1..Len(Told(q)') : Told(q)'[i][2] = 0 <=> i = 1
      <4>1. Told(q) = << >>
        BY <1>1, <1>5, <3>3, SubscribesOnce
      <4>2. Told(q)' = << item >>
        BY <1>1, <3>1, <4>1
      <4> QED
        BY <1>2, <4>2
    <3> QED
      BY <2>3, <3>1, <3>2, <3>3 DEF Confirming
  <2> QED
    BY <2>2, <2>3
<1>7. ASSUME NEW s \in Subscribers, NEW p \in Publishers \ raced' PROVE UpToDate(s, p)'
  <2>1. UpToDate(s, p) /\ p \in Clients \ {q}
    BY <1>0 DEF Telling, Clients
  <2>2. CASE s # q
    BY <1>0, <1>1, <1>3, <2>1, <2>2, NotTold
  <2>3. CASE s = q
    <3>1. Of(p, Told(s)) # {} => s \in subscribed
      BY <1>5, <2>3 DEF Of
    <3>2. Told(s)' = Append(Told(s), item) /\ link'[p].served = link[p].served
      BY <1>1, <1>3, <2>1, <2>3
    <3> QED
      BY <1>1, <1>2, <1>4, <2>1, <3>1, <3>2, OthersTold
  <2> QED
    BY <2>2, <2>3
<1> QED
  BY <1>0, <1>6, <1>7, ExecutesLined DEF Telling, LineOf

(* PUBLISH tells those that are subscribed the next message. *)
LEMMA PublishTells ==
  ASSUME Inv, Telling, NEW q \in Publishers, Executes(q),
         UNCHANGED <<main, event, given, seen, written, heard, raced>>
  PROVE  Telling'
<1>0. TypeOK /\ q \in Clients /\ q \notin Subscribers
  BY ClientsAssumption DEF Inv, Clients
<1> DEFINE item == Head(link[q].to)
<1>1. /\ link[q].state = "up" /\ item \in Item /\ link[q].to # << >>
      /\ link'[q].served = link[q].served + 1
      /\ \A c \in Clients \ {q} : link'[c].served = link[c].served
      /\ \A c \in Clients : link'[c].state = link[c].state
      /\ \A s \in Subscribers :
           IF s = q \/ (item[2] # 0 /\ s \in subscribed)
           THEN Told(s)' = Append(Told(s), item)
           ELSE Told(s)' = Told(s)
      /\ subscribed' = IF item[2] = 0 THEN subscribed \cup {q} ELSE subscribed
  BY <1>0, ExecutesDoes
<1>2. link[q].to[1] = item /\ 1 \in 1..Len(link[q].to) /\ link[q].served \in Nat
  BY <1>0, <1>1, Queues
<1>3. item[1] = q /\ item[2] # 0
  BY <1>0, <1>2 DEF Telling, Owning, OwnItems
<1>4. q \notin raced => item = <<q, link[q].served + 1>>
  BY <1>0, <1>1, <1>2 DEF Telling, Lined, Cmd
<1> HIDE DEF item
<1>5. /\ subscribed' = subscribed
      /\ \A s \in Subscribers :
           Told(s)' = IF s \in subscribed THEN Append(Told(s), item) ELSE Told(s)
  BY <1>0, <1>1, <1>3
<1>6. \A s \in Subscribers : Told(s) \in Seq(Item)
  BY <1>0, ToldIs
<1>7. ASSUME NEW s \in Subscribers PROVE Confirming(s)'
  <2>1. /\ Confirming(s) /\ s \in Clients \ {q}
        /\ link'[s].served = link[s].served /\ link'[s].state = link[s].state
    BY <1>0, <1>1 DEF Telling, Clients
  <2>2. CASE s \notin subscribed
    BY <1>5, <2>1, <2>2 DEF Confirming
  <2>3. CASE s \in subscribed
    <3> DEFINE t == Told(s)
    <3>1. Told(s)' = Append(t, item) /\ t \in Seq(Item) /\ t # << >>
      BY <1>5, <1>6, <2>1, <2>3 DEF Confirming
    <3>2. /\ s \notin raced => \A i \in 1..Len(t) : t[i][2] = 0 <=> i = 1
          /\ s \notin raced /\ link[s].state # "down" => link[s].served > 0
      BY <2>1, <2>3 DEF Confirming
    <3> HIDE DEF t
    <3>3. /\ Append(t, item) # << >> /\ Len(t) \in Nat /\ Len(t) > 0
          /\ Len(Append(t, item)) = Len(t) + 1 /\ Append(t, item)[Len(t) + 1] = item
          /\ \A i \in 1..Len(t) : Append(t, item)[i] = t[i]
      BY <1>1, <3>1, AppendProperties
    <3>4. s \notin raced => \A i \in 1..Len(Told(s)') : Told(s)'[i][2] = 0 <=> i = 1
      BY <1>3, <3>1, <3>2, <3>3
    <3> QED
      BY <1>5, <2>1, <2>3, <3>1, <3>2, <3>3, <3>4 DEF Confirming
  <2> QED
    BY <2>2, <2>3
<1>8. ASSUME NEW s \in Subscribers, NEW p \in Publishers \ raced' PROVE UpToDate(s, p)'
  <2>1. UpToDate(s, p) /\ p \in Clients /\ p \notin raced
    BY DEF Telling, Clients
  <2>2. CASE s \notin subscribed
    <3>1. Told(s)' = Told(s) /\ s \notin subscribed'
      BY <1>5, <2>2
    <3>2. link'[p].served = link[p].served \/ link'[p].served = link[p].served + 1
      BY <1>1, <2>1
    <3> QED
      BY <1>0, <2>1, <3>1, <3>2, NotTold
  <2>3. CASE s \in subscribed
    <3>1. Told(s)' = Append(Told(s), item) /\ Told(s) \in Seq(Item)
      BY <1>5, <1>6, <2>3
    <3>2. CASE p = q
      <4>1. item = <<p, link[p].served + 1>> /\ link[p].served \in Nat
        BY <1>2, <1>4, <2>1, <3>2
      <4>2. link'[p].served = link[p].served + 1
        BY <1>1, <3>2
      <4> QED
        BY <1>1, <2>1, <2>3, <3>1, <4>1, <4>2, NextTold
    <3>3. CASE p # q
      <4>1. item[1] # p /\ link'[p].served = link[p].served
        BY <1>1, <1>3, <2>1, <3>3
      <4> QED
        BY <1>1, <2>1, <2>3, <3>1, <4>1, OthersTold
    <3> QED
      BY <3>2, <3>3
  <2> QED
    BY <2>2, <2>3
<1> QED
  BY <1>0, <1>7, <1>8, ExecutesLined DEF Telling, LineOf

(* A connection that is lost takes what was not executed with it, and      *)
(* nothing that was told.                                                  *)
LEMMA HangsUpTells ==
  ASSUME Inv, Telling, NEW p \in Clients, HangsUp(p),
         UNCHANGED <<main, event, given, seen, written, heard, raced>>
  PROVE  Telling'
<1>0. TypeOK /\ link \in [Clients -> Link] /\ UNCHANGED ctx
  BY DEF Inv, TypeOK, RedisTypeOK, HangsUp
<1>1. /\ link[p].state = "up" /\ subscribed' = subscribed \ {p}
      /\ link'[p].state = "down" /\ link'[p].to = << >>
      /\ link'[p].served = link[p].served /\ link'[p].from = link[p].from
      /\ \A q \in Clients \ {p} : link'[q] = link[q]
  <2>1. link[p] \in Link
    BY <1>0
  <2> QED
    BY <1>0, <2>1 DEF HangsUp, Link
<1>2. ASSUME NEW q \in Clients PROVE LineOf(q)'
  <2>1. LineOf(q)
    BY DEF Telling, LineOf
  <2>2. CASE q = p
    <3>1. Owning(p)'
      BY <1>0, <1>1, <2>1, <2>2 DEF LineOf, Owning, OwnItems
    <3>2. Unlinked(p)'
      BY <1>0, <1>1, <2>1, <2>2 DEF LineOf, Unlinked
    <3> QED
      BY <1>1, <2>2, <3>1, <3>2 DEF LineOf
  <2>3. CASE q # p
    <3>1. link'[q] = link[q]
      BY <1>1, <2>3
    <3>2. Unmoved(q)
      BY <1>0, <3>1 DEF Unmoved, Unlinked
    <3> QED
      BY <2>1, <3>1, <3>2, UnmovedLined
  <2> QED
    BY <2>2, <2>3
<1>3. ASSUME NEW s \in Subscribers
      PROVE  /\ Told(s)' = Told(s)
             /\ link'[s].state # "down" => /\ link[s].state # "down"
                                           /\ s \in subscribed => s \in subscribed'
  <2>1. s \in Clients
    BY DEF Clients
  <2> QED
    BY <1>1, <2>1 DEF Told
<1>4. /\ \A q \in Clients : link'[q].served = link[q].served
      /\ raced \subseteq raced' /\ subscribed' \subseteq subscribed
  BY <1>1
<1> QED
  BY <1>2, <1>3, <1>4, NothingTold DEF Telling, LineOf

(* The server's steps and the network's *)
LEMMA ServerTells ==
  ASSUME Inv, Telling, NEW p \in Clients, Answers(p) \/ Executes(p) \/ HangsUp(p),
         UNCHANGED <<main, event, sem, given, local, heard, raced>>
  PROVE  Telling'
<1>0. TypeOK /\ UNCHANGED <<main, event, given, seen, written, heard, raced>>
  BY DEF Inv, local
<1>1. CASE Answers(p)
  <2>1. StayPut
    BY <1>0, <1>1, PutCalls
  <2>2. /\ main'[p] = main[p] /\ event'[p] = event[p]
        /\ \A q \in Clients \ {p} : main'[q] = main[q] /\ event'[q] = event[q]
    BY <1>0
  <2> QED
    BY <1>0, <2>1, <2>2, Aside
<1>2. CASE Executes(p)
  BY <1>0, <1>2, SubscribeTells, PublishTells DEF Clients
<1>3. CASE HangsUp(p)
  BY <1>0, <1>3, HangsUpTells
<1> QED
  BY <1>1, <1>2, <1>3

(* In the beginning nothing is on its way. *)
LEMMA InitTelling == Init => Telling
<1> SUFFICES ASSUME Init PROVE Telling
  OBVIOUS
<1>1. ASSUME NEW q \in Clients
      PROVE  /\ ctx[q].obuf = << >> /\ seen[q] = << >> /\ link[q].to = << >>
             /\ link[q].from = << >> /\ link[q].served = 0 /\ link[q].state = "none"
             /\ main[q] = "init" /\ event[q] = "none" /\ given[q] = 0
  BY DEF Init, RedisInit
<1>2. ASSUME NEW q \in Clients PROVE Owning(q) /\ Unlinked(q) /\ Lined(q)
  BY <1>1 DEF Owning, OwnItems, Unlinked, Lined, InCommand, InHandler
<1>3. ASSUME NEW s \in Subscribers
      PROVE  Told(s) = << >> /\ s \notin subscribed
  <2>1. heard[s] = << >> /\ link[s].from = << >> /\ s \notin subscribed
    BY <1>1 DEF Init, RedisInit, Clients
  <2> QED
    BY <2>1 DEF Told
<1>4. ASSUME NEW s \in Subscribers PROVE Confirming(s)
  BY <1>3 DEF Confirming
<1>5. ASSUME NEW s \in Subscribers, NEW p \in Publishers PROVE UpToDate(s, p)
  BY <1>3 DEF UpToDate, InOrder, Of
<1> QED
  BY <1>2, <1>4, <1>5 DEF Telling

(* One step per action. *)
LEMMA StepTelling == Inv /\ Telling /\ [Next]_vars => Telling'
<1> SUFFICES ASSUME Inv, Telling, [Next]_vars PROVE Telling'
  OBVIOUS
<1>1. CASE UNCHANGED vars
  <2>1. UNCHANGED <<ctx, link, subscribed, main, event, given, seen, written, heard, raced>>
    BY <1>1 DEF vars, redisVars, local
  <2>2. ASSUME NEW q \in Clients PROVE LineOf(q)'
    <3>1. LineOf(q)
      BY DEF Telling, LineOf
    <3>2. Unmoved(q)
      BY <2>1 DEF Unmoved, Unlinked
    <3> QED
      BY <2>1, <3>1, <3>2, UnmovedLined
  <2>3. \A s \in Subscribers : Told(s)' = Told(s)
    BY <2>1 DEF Told
  <2> QED
    BY <2>1, <2>2, <2>3, NothingTold DEF Telling, LineOf
<1>2. ASSUME NEW p \in Clients, MainStep(p) PROVE Telling'
  BY <1>2, SettingTells, EntersTells, AppendsTells, ArmsTells DEF MainStep
<1>3. ASSUME NEW p \in Clients, EventStep(p) PROVE Telling'
  BY <1>3, WaitingTells, HandlesWriteTells, FinishesWriteTells, HandlesReadTells
  DEF EventStep
<1>4. ASSUME NEW p \in Clients, Answers(p) \/ Executes(p) \/ HangsUp(p),
             UNCHANGED <<main, event, sem, given, local, heard, raced>>
      PROVE  Telling'
  BY <1>4, ServerTells
<1> QED
  BY <1>1, <1>2, <1>3, <1>4 DEF Next, ServerStep

(* The beginning of a sequence *)
LEMMA Beginning ==
  ASSUME NEW h \in Seq(Item), NEW f \in Seq(Item)
  PROVE  \A i \in 1..Len(h) : i \in 1..Len(h \o f) /\ (h \o f)[i] = h[i]
<1> DEFINE t == h \o f
<1>1. /\ Len(t) = Len(h) + Len(f) /\ Len(h) \in Nat /\ Len(f) \in Nat
      /\ \A i \in 1..Len(h) + Len(f) : t[i] = IF i <= Len(h) THEN h[i] ELSE f[i - Len(h)]
  BY ConcatProperties
<1> HIDE DEF t
<1>2. \A i \in 1..Len(h) : i \in 1..Len(t) /\ t[i] = h[i]
  BY <1>1
<1> QED
  BY <1>2 DEF t

(* What has been heard is the beginning of what is told. *)
LEMMA HeardInOrder ==
  ASSUME NEW h \in Seq(Item), NEW f \in Seq(Item), NEW p, InOrder(p, h \o f)
  PROVE  InOrder(p, h)
<1> DEFINE t == h \o f
<1>1. /\ t \in Seq(Item) /\ Len(t) = Len(h) + Len(f) /\ Len(h) \in Nat /\ Len(f) \in Nat
      /\ \A i \in 1..Len(h) + Len(f) : t[i] = IF i <= Len(h) THEN h[i] ELSE f[i - Len(h)]
  BY ConcatProperties
<1>2. InOrder(p, t)
  OBVIOUS
<1> HIDE DEF t
<1>3. \A i \in Of(p, h) : i \in 1..Len(h) /\ i \in Of(p, t) /\ t[i] = h[i]
  BY <1>1 DEF Of
<1>4. \A k \in Of(p, t) : /\ k \in Nat /\ t[k][2] \in Nat
                          /\ k \in 1..Len(h) => k \in Of(p, h)
                          /\ k \notin 1..Len(h) => k > Len(h)
  BY <1>1, ClientsAssumption DEF Of, Item
<1>5. ASSUME NEW i \in Of(p, h), NEW j \in Of(p, h), NEW n \in h[i][2]..h[j][2]
      PROVE  \E k \in Of(p, h) : h[k][2] = n
  <2>1. PICK k \in Of(p, t) : t[k][2] = n
    BY <1>2, <1>3 DEF InOrder
  <2>2. CASE k \in 1..Len(h)
    BY <1>3, <1>4, <2>1, <2>2
  <2>3. CASE k \notin 1..Len(h)
    <3>1. j < k
      BY <1>1, <1>3, <1>4, <2>3
    <3>2. t[j][2] < t[k][2]
      BY <1>2, <1>3, <3>1 DEF InOrder
    <3> QED
      BY <1>3, <1>4, <2>1, <3>2
  <2> QED
    BY <2>2, <2>3
<1> QED
  BY <1>2, <1>3, <1>5 DEF InOrder

(* A subscriber is told of the messages of each publisher as they were     *)
(* published, from one on and up to another, after the confirmation that   *)
(* begins them, whatever the threads, the server and the network do, as    *)
(* long as no two threads of either are in its context at a time.          *)
THEOREM MessagesInOrder == Spec => []ToldInOrder
<1>1. Spec => [](Inv /\ Telling)
  BY InitInv, StepInv, InitTelling, StepTelling, PTL DEF Spec
<1>2. Inv /\ Telling => ToldInOrder
  <2> SUFFICES ASSUME Inv, Telling, NEW s \in Subscribers \ raced
               PROVE  /\ \A i \in 1..Len(heard[s]) : heard[s][i][2] = 0 <=> i = 1
                      /\ \A p \in Publishers \ raced : InOrder(p, heard[s])
    BY DEF ToldInOrder
  <2>1. heard[s] \in Seq(Item) /\ link[s].from \in Seq(Item)
    BY ToldIs DEF Inv
  <2>2. \A i \in 1..Len(Told(s)) : Told(s)[i][2] = 0 <=> i = 1
    BY DEF Telling, Confirming
  <2>3. \A i \in 1..Len(heard[s]) : i \in 1..Len(Told(s)) /\ Told(s)[i] = heard[s][i]
    BY <2>1, Beginning DEF Told
  <2>4. ASSUME NEW p \in Publishers \ raced PROVE InOrder(p, heard[s])
    <3>1. InOrder(p, heard[s] \o link[s].from)
      BY DEF Telling, UpToDate, Told
    <3> QED
      BY <2>1, <3>1, HeardInOrder
  <2> QED
    BY <2>2, <2>3, <2>4
<1> QED
  BY <1>1, <1>2, PTL
=============================================================================
