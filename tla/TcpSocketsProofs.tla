-------------------------- MODULE TcpSocketsProofs --------------------------
(***************************************************************************)
(* The sockets of tcp.rs over one modem, for every number of tasks, calls, *)
(* bytes, chunks and faults, over TCP and over TLS.                        *)
(***************************************************************************)
EXTENDS TcpSockets, SequenceTheorems, FiniteSetTheorems, TLAPS

Sockets == [state : {"free", "opening", "open", "closed"}, conn : 0..MaxConnects,
            sent : 0..MaxData, rx : Seq(1..MaxData)]

(* The types of TypeOK, of the whole functions.                            *)
TypeInv ==
  /\ nextId \in [Clients -> Ids] /\ lock \in Tasks \cup {"free"}
  /\ pc \in [Tasks -> Labels] /\ id \in [Tasks -> Ids]
  /\ conn \in [Tasks -> 0..MaxConnects]
  /\ got \in [Tasks -> Seq(1..MaxData)]
  /\ failed \subseteq Tasks /\ chunks \in [Tasks -> 0..MaxChunks]
  /\ subs \subseteq Subscribers
  /\ heard \in [Subscribers -> Seq(Urcs)]
  /\ sock \in [Ids -> Sockets]
  /\ prompt \in {"command", "data", "cut"}
  /\ conns \in 0..MaxConnects /\ writes \in 0..MaxWrites
  /\ faults \in 0..MaxFaults

(* A task subscribes only for its own exchange, and socket_sub stays.      *)
SubsInv ==
  /\ \A t \in Tasks : /\ pc[t] \in {"openSend", "openWait"} => OpenSub(t) \in subs
                      /\ pc[t] = "pollDrain" => t \in subs
  /\ \A u \in subs \ {"socket_sub"} :
       \/ pc[u] = "pollDrain"
       \/ Transport = "Tcp" /\ pc[u] \in {"openSend", "openWait"}

(* One client whose ids have not wrapped: the connection with number n has *)
(* the id n - 1, and no other connection ever had it.                      *)
FreshIds ==
  /\ \A c, d \in Clients : c = d
  /\ MaxConnects <= IdSpace

(* No subscriber has the URC m waiting.                                    *)
Never(m) == \A u \in Subscribers : \A k \in DOMAIN heard[u] : heard[u][k] # m
Opened(i) == OpenUrc(i, 0)
Unheard(i) == Never(Opened(i))
Unclosed(i) == Never(ClosedUrc(i))

(* Whose a socket is.                                                      *)
OwnInv ==
  /\ \A c \in Clients : conns < IdSpace => nextId[c] = conns
  /\ \A t \in Tasks : pc[t] # "idle" => conn[t] \in 1..conns /\ id[t] = conn[t] - 1
  /\ \A t, u \in Tasks : pc[t] # "idle" /\ pc[u] # "idle" /\ id[t] = id[u] => t = u
  /\ \A i \in Ids : sock[i].state # "free" => sock[i].conn = i + 1

(* Where the opening of a socket is: untouched before the command, and     *)
(* told to be open only when it is.                                        *)
OpeningInv ==
  /\ \A i \in Ids : i >= conns => sock[i] = FreeSocket /\ Unheard(i)
  /\ \A t \in Tasks :
       /\ pc[t] \in {"openLock", "openSend"} => sock[id[t]] = FreeSocket /\ Unheard(id[t])
       /\ pc[t] = "openWait" => sock[id[t]].state \in {"open", "closed"} \/ Unheard(id[t])
       /\ pc[t] \in Holding => sock[id[t]].state \in {"open", "closed"}

(* Where its close is: told of a closed socket only, so that the last read *)
(* is of one.                                                              *)
ClosedInv ==
  /\ \A i \in Ids :
       i >= conns \/ sock[i].state \in {"opening", "open"} => Unclosed(i)
  /\ \A t \in Tasks :
       /\ pc[t] \in {"openLock", "openSend"} => Unclosed(id[t])
       /\ pc[t] = "readLast" => sock[id[t]].state = "closed"

(* The buffer r of a connection of n bytes is the end of them; what was    *)
(* read of the first n is in order and at most once, or all of it.         *)
Buffered(r, n) ==
  Len(r) <= n /\ \A k \in 1..Len(r) : r[k] = (n - Len(r)) + k
InOrder(g, n) ==
  /\ \A k \in 1..Len(g) : g[k] <= n
  /\ \A j, k \in 1..Len(g) : j < k => g[j] < g[k]
Whole(g, n) == Len(g) = n /\ \A k \in 1..n : g[k] = k

(* The stream of a connection from its first step on.                      *)
StreamInv ==
  /\ \A i \in Ids :
       /\ sock[i].state \in {"free", "opening"} => sock[i].sent = 0 /\ sock[i].rx = <<>>
       /\ Buffered(sock[i].rx, sock[i].sent)
  /\ \A t \in Tasks : pc[t] # "idle" =>
       /\ InOrder(got[t], Passed(id[t]))
       /\ t \notin failed => Whole(got[t], Passed(id[t]))
-----------------------------------------------------------------------------
(* Of the sequences of bytes and URCs.                                     *)
LEMMA PublishType ==
  ASSUME TypeInv, NEW m \in Urcs, Publish(m)
  PROVE  /\ heard' \in [Subscribers -> Seq(Urcs)]
         /\ subs' \subseteq Subscribers
<1>1. ASSUME NEW u \in Subscribers
      PROVE  Append(heard[u], m) \in Seq(Urcs)
  BY AppendProperties DEF TypeInv
<1> QED
  BY <1>1 DEF Publish, TypeInv

LEMMA SubscribeType ==
  ASSUME TypeInv, NEW u \in Subscribers, Subscribe(u) \/ Unsubscribe(u)
  PROVE  /\ heard' \in [Subscribers -> Seq(Urcs)]
         /\ subs' \subseteq Subscribers
<1>1. <<>> \in Seq(Urcs)
  BY EmptySeq
<1> QED
  BY <1>1 DEF TypeInv, Subscribe, Unsubscribe

LEMMA OpenSubType == \A t \in Tasks : OpenSub(t) \in Subscribers
BY DEF OpenSub, Subscribers

LEMMA HandOverType ==
  ASSUME TypeInv, NEW t \in Tasks, NEW n \in Nat, HandOver(t, n)
  PROVE  /\ sock' \in [Ids -> Sockets]
         /\ got[t] \o SubSeq(sock[id[t]].rx, 1, n) \in Seq(1..MaxData)
<1> DEFINE rx == sock[id[t]].rx
<1>1. id[t] \in Ids /\ sock[id[t]] \in Sockets /\ rx \in Seq(1..MaxData)
      /\ got[t] \in Seq(1..MaxData) /\ n <= Len(rx)
  BY DEF TypeInv, Sockets, HandOver
<1>2. Len(rx) \in Nat /\ \A i \in 1..Len(rx) : rx[i] \in 1..MaxData
  BY <1>1, LenProperties, ElementOfSeq
<1>3. SubSeq(rx, 1, n) \in Seq(1..MaxData) /\ SubSeq(rx, n + 1, Len(rx)) \in Seq(1..MaxData)
  <2>1. \A i \in 1..n : rx[i] \in 1..MaxData
    BY <1>1, <1>2
  <2>2. \A i \in n + 1..Len(rx) : rx[i] \in 1..MaxData
    BY <1>1, <1>2
  <2> HIDE DEF rx
  <2> QED
    BY <1>2, <2>1, <2>2, SubSeqProperties
<1>4. got[t] \o SubSeq(rx, 1, n) \in Seq(1..MaxData)
  BY <1>1, <1>3, ConcatProperties
<1>5. sock' \in [Ids -> Sockets]
  BY <1>1, <1>3 DEF HandOver, TypeInv, Sockets
<1> QED
  BY <1>4, <1>5

LEMMA TakeType ==
  ASSUME TypeInv, NEW t \in Tasks, NEW n \in Nat, Take(t, n)
  PROVE  got' \in [Tasks -> Seq(1..MaxData)] /\ sock' \in [Ids -> Sockets]
BY HandOverType DEF Take, TypeInv

LEMMA FreeSocketType ==
  /\ FreeSocket \in Sockets
  /\ \A c \in 0..MaxConnects :
       [FreeSocket EXCEPT !.state = "opening", !.conn = c] \in Sockets
<1>1. <<>> \in Seq(1..MaxData)
  BY EmptySeq
<1>2. MaxConnects \in Nat /\ MaxData \in Nat
  BY TcpSocketsAssumption DEF TcpSocketsAssumption
<1>3. FreeSocket \in Sockets
  BY <1>1, <1>2 DEF FreeSocket, Sockets
<1>4. ASSUME NEW c \in 0..MaxConnects
      PROVE  [FreeSocket EXCEPT !.state = "opening", !.conn = c] \in Sockets
  <2>1. [[FreeSocket EXCEPT !.state = "opening"] EXCEPT !.conn = c] \in Sockets
    BY <1>3 DEF Sockets
  <2> QED
    BY <2>1
<1> QED
  BY <1>3, <1>4

(* A socket changes its state or gets a byte.                              *)
LEMMA SocketType ==
  ASSUME TypeInv, NEW i \in Ids
  PROVE  /\ \A s \in {"free", "opening", "open", "closed"} :
              [sock EXCEPT ![i].state = s] \in [Ids -> Sockets]
         /\ \A n \in 0..MaxData : \A r \in Seq(1..MaxData) :
              [sock EXCEPT ![i].sent = n, ![i].rx = r] \in [Ids -> Sockets]
<1>1. sock \in [Ids -> Sockets] /\ sock[i] \in Sockets
  BY DEF TypeInv
<1>2. ASSUME NEW s \in {"free", "opening", "open", "closed"}
      PROVE  [sock EXCEPT ![i].state = s] \in [Ids -> Sockets]
  <2>1. [sock[i] EXCEPT !.state = s] \in Sockets
    BY <1>1 DEF Sockets
  <2> QED
    BY <1>1, <2>1
<1>3. ASSUME NEW n \in 0..MaxData, NEW r \in Seq(1..MaxData)
      PROVE  [sock EXCEPT ![i].sent = n, ![i].rx = r] \in [Ids -> Sockets]
  <2>1. [[sock[i] EXCEPT !.sent = n] EXCEPT !.rx = r] \in Sockets
    BY <1>1 DEF Sockets
  <2> QED
    BY <1>1, <2>1
<1> QED
  BY <1>2, <1>3

LEMMA FaultType == TypeInv /\ (UNCHANGED faults \/ Fault) => faults' \in 0..MaxFaults
BY TcpSocketsAssumption DEF TypeInv, Fault, TcpSocketsAssumption

LEMMA TypeInit == Init => TypeInv
<1>1. TcpSocketsAssumption
  BY TcpSocketsAssumption
<1>2. <<>> \in Seq(1..MaxData) /\ <<>> \in Seq(Urcs)
  BY EmptySeq
<1>3. FreeSocket \in Sockets
  BY FreeSocketType
<1> QED
  BY <1>1, <1>2, <1>3 DEF Init, TypeInv, TcpSocketsAssumption, Labels, Ids

LEMMA TypeStep == TypeInv /\ [Next]_vars => TypeInv'
<1> SUFFICES ASSUME TypeInv, [Next]_vars PROVE TypeInv'
  OBVIOUS
<1>0. /\ IdSpace \in Nat \ {0} /\ MaxConnects \in Nat /\ MaxWrites \in Nat
      /\ MaxData \in Nat /\ MaxChunks \in Nat /\ MaxRecv \in Nat
  BY TcpSocketsAssumption DEF TcpSocketsAssumption
<1>1. ASSUME NEW t \in Tasks, NEW c \in Clients, Connect(t, c) PROVE TypeInv'
  <2>1. <<>> \in Seq(1..MaxData)
    BY EmptySeq
  <2>2. nextId' \in [Clients -> Ids]
    <3>1. nextId[c] \in 0..(IdSpace - 1) /\ IdSpace \in Nat \ {0}
      BY <1>0 DEF TypeInv, Ids
    <3>2. (nextId[c] + 1) % IdSpace \in 0..(IdSpace - 1)
      BY <3>1
    <3> QED
      BY <1>1, <3>2 DEF Connect, TypeInv, Ids
  <2>3. conns' \in 0..MaxConnects /\ conn' \in [Tasks -> 0..MaxConnects]
    BY <1>0, <1>1 DEF Connect, TypeInv
  <2> QED
    BY <1>1, <2>1, <2>2, <2>3 DEF Connect, TypeInv, Goto, Labels, Exchanging, channel
<1>2. ASSUME NEW t \in Tasks, OpenLock(t) PROVE TypeInv'
  BY <1>2, OpenSubType, SubscribeType
    DEF OpenLock, stream, TypeInv, Goto, Lock, Labels, Exchanging, bounds
<1>3. ASSUME NEW t \in Tasks, OpenAccepted(t) PROVE TypeInv'
  <2>1. id[t] \in Ids /\ conn[t] \in 0..MaxConnects /\ OpenUrc(id[t], 563) \in Urcs
    BY DEF TypeInv, OpenUrc, Urcs
  <2>2. [FreeSocket EXCEPT !.state = "opening", !.conn = conn[t]] \in Sockets
    BY <2>1, FreeSocketType
  <2>3. sock' \in [Ids -> Sockets]
    BY <1>3, <2>1, <2>2 DEF OpenAccepted, stream, Heeded, TypeInv
  <2>4. heard' \in [Subscribers -> Seq(Urcs)] /\ subs' \subseteq Subscribers
    BY <1>3, <2>1, PublishType DEF OpenAccepted, stream, Heeded, TypeInv, channel
  <2> QED
    BY <1>3, <2>3, <2>4
       DEF OpenAccepted, stream, Heeded, TypeInv, Goto, Labels, Exchanging, bounds
<1>4. ASSUME NEW t \in Tasks, OpenRefused(t) PROVE TypeInv'
  <2>1. id[t] \in Ids /\ conn[t] \in 0..MaxConnects
    BY DEF TypeInv
  <2>2. [FreeSocket EXCEPT !.state = "opening", !.conn = conn[t]] \in Sockets
    BY <2>1, FreeSocketType
  <2>3. sock' \in [Ids -> Sockets] /\ faults' \in 0..MaxFaults
    <3>1. sock' = sock \/ sock' = [sock EXCEPT ![id[t]] =
                      [FreeSocket EXCEPT !.state = "opening", !.conn = conn[t]]]
      BY <1>4 DEF OpenRefused, stream, Heeded, Swallowed
    <3>2. sock' \in [Ids -> Sockets]
      BY <3>1, <2>1, <2>2 DEF TypeInv
    <3> QED
      BY <3>2, <1>4, FaultType DEF OpenRefused, stream, Heeded, Swallowed
  <2>4. heard' \in [Subscribers -> Seq(Urcs)] /\ subs' \subseteq Subscribers
    BY <1>4, SubscribeType
       DEF OpenRefused, stream, Heeded, Swallowed, OpenFails, TypeInv, channel,
           Subscribers
  <2> QED
    BY <1>4, <2>3, <2>4
       DEF OpenRefused, stream, Heeded, Swallowed, OpenFails, Unlock, TypeInv, Goto,
           Labels
<1>5. ASSUME NEW t \in Tasks, OpenPoll(t) PROVE TypeInv'
  <2> DEFINE s == OpenSub(t)
  <2>1. s \in Subscribers /\ heard[s] \in Seq(Urcs) /\ heard[s] # <<>>
    BY <1>5, OpenSubType DEF OpenPoll, stream, TypeInv
  <2>2. Tail(heard[s]) \in Seq(Urcs)
    BY <2>1, HeadTailProperties
  <2>3. \/ Unsubscribe(t)
        \/ subs' = subs /\ heard' = [heard EXCEPT ![s] = Tail(@)]
    BY <1>5 DEF OpenPoll, stream
  <2>4. heard' \in [Subscribers -> Seq(Urcs)] /\ subs' \subseteq Subscribers
    <3>1. CASE Unsubscribe(t)
      BY <3>1, SubscribeType DEF Subscribers
    <3>2. CASE subs' = subs /\ heard' = [heard EXCEPT ![s] = Tail(@)]
      <4> HIDE DEF s
      <4> QED
        BY <3>2, <2>1, <2>2 DEF TypeInv
    <3> QED
      BY <2>3, <3>1, <3>2
  <2>5. pc' \in [Tasks -> Labels] /\ lock' \in Tasks \cup {"free"}
    BY <1>5 DEF OpenPoll, stream, TypeInv, Goto, Unlock, Labels, Holding
  <2> QED
    BY <1>5, <2>4, <2>5 DEF OpenPoll, stream, TypeInv, bounds
<1>6. ASSUME NEW t \in Tasks, OpenTimeout(t) PROVE TypeInv'
  <2>1. heard' \in [Subscribers -> Seq(Urcs)] /\ subs' \subseteq Subscribers
    BY <1>6, SubscribeType
       DEF OpenTimeout, stream, OpenFails, TypeInv, channel, Subscribers
  <2> QED
    BY <1>6, <2>1, FaultType
       DEF OpenTimeout, stream, OpenFails, Unlock, TypeInv, Goto, Labels
<1>7. ASSUME NEW t \in Tasks, ReadLock(t) PROVE TypeInv'
  BY <1>7 DEF ReadLock, stream, TypeInv, Goto, Lock, Labels, Exchanging, channel, bounds
<1>8. ASSUME NEW t \in Tasks, NEW n \in 1..MaxData, ReadData(t, n) PROVE TypeInv'
  <2>1. got' \in [Tasks -> Seq(1..MaxData)] /\ sock' \in [Ids -> Sockets]
    BY <1>0, <1>8, TakeType DEF ReadData
  <2>2. failed' = failed
    BY <1>8 DEF ReadData, Take
  <2> QED
    BY <1>8, <2>1, <2>2
       DEF ReadData, stream, Heeded, TypeInv, Goto, Unlock, Labels, Holding, channel,
           bounds
<1>9. ASSUME NEW t \in Tasks, ReadEmpty(t) PROVE TypeInv'
  BY <1>9
     DEF ReadEmpty, stream, Heeded, TypeInv, Goto, Labels, Exchanging, channel, bounds
<1>10. ASSUME NEW t \in Tasks, NEW n \in 0..MaxData, ReadFails(t, n) PROVE TypeInv'
  <2>1. sock' \in [Ids -> Sockets] /\ faults' \in 0..MaxFaults
    BY <1>0, <1>10, HandOverType, FaultType DEF ReadFails, TypeInv
  <2> QED
    BY <1>10, <2>1, FaultType
       DEF ReadFails, stream, Heeded, Swallowed, TypeInv, Goto, Unlock, Labels, Holding,
           channel
<1>11. ASSUME NEW t \in Tasks, PollSubscribe(t) PROVE TypeInv'
  BY <1>11, SubscribeType
    DEF PollSubscribe, stream, TypeInv, Goto, Labels, Exchanging, Subscribers, bounds
<1>12. ASSUME NEW t \in Tasks, PollDrain(t) PROVE TypeInv'
  <2>1. pc' \in [Tasks -> Labels] /\ lock' \in Tasks \cup {"free"}
    BY <1>12 DEF PollDrain, stream, TypeInv, Goto, Unlock, Labels, Holding
  <2>2. heard' \in [Subscribers -> Seq(Urcs)] /\ subs' \subseteq Subscribers
    BY <1>12, SubscribeType DEF PollDrain, stream, Subscribers
  <2> QED
    BY <1>12, <2>1, <2>2 DEF PollDrain, stream, TypeInv, bounds
<1>13. ASSUME NEW t \in Tasks, NEW n \in 0..MaxData, ReadLast(t, n) PROVE TypeInv'
  <2>1. got' \in [Tasks -> Seq(1..MaxData)] /\ sock' \in [Ids -> Sockets]
    BY <1>0, <1>13, TakeType DEF ReadLast
  <2>2. failed' = failed
    BY <1>13 DEF ReadLast, Take
  <2> QED
    BY <1>13, <2>1, <2>2
       DEF ReadLast, stream, Heeded, TypeInv, Goto, Unlock, Labels, Holding, channel,
           bounds
<1>14. ASSUME NEW t \in Tasks, NEW n \in 1..MaxChunks, WriteLock(t, n) PROVE TypeInv'
  BY <1>0, <1>14 DEF WriteLock, stream, TypeInv, Goto, Lock, Labels, Exchanging, channel
<1>15. ASSUME NEW t \in Tasks, WriteCommand(t) PROVE TypeInv'
  BY <1>15, FaultType
     DEF WriteCommand, stream, Heeded, Swallowed, TypeInv, Goto, Labels, Exchanging,
         channel
<1>16. ASSUME NEW t \in Tasks, WritePayload(t) PROVE TypeInv'
  <2>1. pc' \in [Tasks -> Labels] /\ lock' \in Tasks \cup {"free"} /\ faults' \in 0..MaxFaults
    BY <1>16, FaultType
       DEF WritePayload, stream, Pushed, Unlock, TypeInv, Goto, Labels, Exchanging,
           Holding
  <2>2. chunks[t] \in 0..MaxChunks /\ 0 \in 0..MaxChunks
    BY <1>0 DEF TypeInv
  <2>3. \/ chunks' = [chunks EXCEPT ![t] = 0]
        \/ chunks[t] >= 1 /\ chunks' = [chunks EXCEPT ![t] = chunks[t] - 1]
    BY <1>16, <2>2 DEF WritePayload, stream, Pushed
  <2>4. chunks' \in [Tasks -> 0..MaxChunks]
    <3>1. chunks[t] >= 1 => chunks[t] - 1 \in 0..MaxChunks
      BY <1>0, <2>2
    <3> QED
      BY <2>2, <2>3, <3>1 DEF TypeInv
  <2> QED
    BY <1>16, <2>1, <2>4 DEF WritePayload, stream, TypeInv, channel
<1>17. ASSUME NEW t \in Tasks, CloseLock(t) PROVE TypeInv'
  BY <1>17
     DEF CloseLock, stream, TypeInv, Goto, Lock, Labels, Exchanging, channel, bounds
<1>18. ASSUME NEW t \in Tasks, Close(t) PROVE TypeInv'
  <2>1. FreeSocket \in Sockets
    BY FreeSocketType
  <2>2. sock' \in [Ids -> Sockets] /\ faults' \in 0..MaxFaults
    <3>1. sock' = sock \/ sock' = [sock EXCEPT ![id[t]] = FreeSocket]
      BY <1>18 DEF Close, stream, Heeded, Swallowed
    <3>2. sock' \in [Ids -> Sockets]
      BY <3>1, <2>1 DEF TypeInv
    <3> QED
      BY <3>2, <1>18, FaultType DEF Close, stream, Heeded, Swallowed
  <2> QED
    BY <1>18, <2>1, <2>2
       DEF Close, stream, Heeded, Swallowed, TypeInv, Goto, Unlock, Labels, channel
<1>19. ASSUME NEW t \in Tasks, DropHandle(t) PROVE TypeInv'
  BY <1>19, FaultType DEF DropHandle, stream, TypeInv, Goto, Labels, channel
<1>20. ASSUME NEW i \in Ids, ModemOpens(i) PROVE TypeInv'
  <2>1. sock' \in [Ids -> Sockets] /\ OpenUrc(i, 0) \in Urcs
    BY <1>20, SocketType DEF ModemOpens, stream, OpenUrc, Urcs
  <2>2. heard' \in [Subscribers -> Seq(Urcs)] /\ subs' \subseteq Subscribers
    BY <1>20, <2>1, PublishType DEF ModemOpens, stream
  <2> QED
    BY <1>20, <2>1, <2>2 DEF ModemOpens, stream, TypeInv, owner, bounds
<1>21. ASSUME NEW i \in Ids, ModemOpenFails(i) PROVE TypeInv'
  <2>1. OpenUrc(i, 566) \in Urcs /\ FreeSocket \in Sockets
    BY FreeSocketType DEF OpenUrc, Urcs
  <2>2. heard' \in [Subscribers -> Seq(Urcs)] /\ subs' \subseteq Subscribers
    BY <1>21, <2>1, PublishType DEF ModemOpenFails, stream
  <2> QED
    BY <1>21, <2>1, <2>2, FaultType DEF ModemOpenFails, stream, TypeInv, owner
<1>22. ASSUME NEW i \in Ids, PeerSends(i) PROVE TypeInv'
  <2>1. sock[i] \in Sockets
    BY DEF TypeInv
  <2>2. sock[i].sent + 1 \in 0..MaxData /\ sock[i].sent + 1 \in 1..MaxData
    BY <1>0, <1>22, <2>1 DEF PeerSends, stream, Sockets
  <2>3. Append(sock[i].rx, sock[i].sent + 1) \in Seq(1..MaxData)
    BY <2>1, <2>2, AppendProperties DEF Sockets
  <2>4. sock' \in [Ids -> Sockets]
    BY <1>22, <2>2, <2>3, SocketType DEF PeerSends, stream
  <2> QED
    BY <1>22, <2>4 DEF PeerSends, stream, TypeInv, owner, channel, bounds
<1>23. ASSUME NEW i \in Ids, PeerCloses(i) PROVE TypeInv'
  <2>1. sock' \in [Ids -> Sockets] /\ ClosedUrc(i) \in Urcs
    BY <1>23, SocketType DEF PeerCloses, stream, ClosedUrc, Urcs
  <2>2. heard' \in [Subscribers -> Seq(Urcs)] /\ subs' \subseteq Subscribers
    BY <1>23, <2>1, PublishType DEF PeerCloses, stream
  <2> QED
    BY <1>23, <2>1, <2>2 DEF PeerCloses, stream, TypeInv, owner, bounds
<1>24. CASE UNCHANGED vars
  BY <1>24 DEF vars, stream, owner, channel, bounds, TypeInv
<1> QED
  BY <1>1, <1>2, <1>3, <1>4, <1>5, <1>6, <1>7, <1>8, <1>9, <1>10, <1>11, <1>12, <1>13,
     <1>14, <1>15, <1>16, <1>17, <1>18, <1>19, <1>20, <1>21, <1>22, <1>23, <1>24
  DEF Next, LockStep, TaskStep, CallerStep, ModemStep

(* What a step does to the mutex: t takes it, keeps its side of it, or     *)
(* gives it back; and the modem waits for data once t has announced them.  *)
Takes(t) ==
  lock = "free" /\ lock' = t /\ pc[t] \notin Exchanging /\ pc'[t] \in Exchanging
Keeps(t) == lock' = lock /\ (pc[t] \in Exchanging <=> pc'[t] \in Exchanging)
Gives(t) == lock' = "free" /\ pc[t] \in Exchanging /\ pc'[t] \notin Exchanging

Moves(t) ==
  /\ pc' = [pc EXCEPT ![t] = pc'[t]]
  /\ Takes(t) \/ Keeps(t) \/ Gives(t)
  /\ \/ prompt' \in {"command", "cut"}
     \/ prompt' = prompt /\ pc[t] # "writePayload"
     \/ pc[t] = "writeCommand" /\ pc'[t] = "writePayload"

LEMMA EachMoves ==
  ASSUME TypeInv, [Next]_vars
  PROVE  (\E t \in Tasks : Moves(t)) \/ UNCHANGED <<lock, pc, prompt>>
<1>1. ASSUME NEW t \in Tasks, NEW c \in Clients, Connect(t, c) PROVE Moves(t)
  BY <1>1 DEF Connect, TypeInv, Goto, Moves, Keeps, Exchanging
<1>2. ASSUME NEW t \in Tasks, OpenLock(t) PROVE Moves(t)
  BY <1>2
     DEF OpenLock, stream, Goto, Lock, Unlock, TypeInv, Moves, Takes, Keeps, Gives,
         Exchanging
<1>3. ASSUME NEW t \in Tasks, OpenAccepted(t) PROVE Moves(t)
  BY <1>3
     DEF OpenAccepted, stream, Heeded, Goto, Lock, Unlock, TypeInv, Moves, Takes, Keeps,
         Gives, Exchanging
<1>4. ASSUME NEW t \in Tasks, OpenRefused(t) PROVE Moves(t)
  BY <1>4
     DEF OpenRefused, stream, Heeded, Swallowed, OpenFails, Goto, Lock, Unlock, TypeInv,
         Moves, Takes, Keeps, Gives, Exchanging
<1>5. ASSUME NEW t \in Tasks, OpenPoll(t) PROVE Moves(t)
  BY <1>5
     DEF OpenPoll, stream, Goto, Lock, Unlock, TypeInv, Moves, Takes, Keeps, Gives,
         Exchanging
<1>6. ASSUME NEW t \in Tasks, OpenTimeout(t) PROVE Moves(t)
  BY <1>6
     DEF OpenTimeout, stream, OpenFails, Goto, Lock, Unlock, TypeInv, Moves, Takes,
         Keeps, Gives, Exchanging
<1>7. ASSUME NEW t \in Tasks, ReadLock(t) PROVE Moves(t)
  BY <1>7
     DEF ReadLock, stream, Goto, Lock, Unlock, TypeInv, Moves, Takes, Keeps, Gives,
         Exchanging
<1>8. ASSUME NEW t \in Tasks, NEW n, ReadData(t, n) PROVE Moves(t)
  BY <1>8
     DEF ReadData, stream, Heeded, Goto, Lock, Unlock, TypeInv, Moves, Takes, Keeps,
         Gives, Exchanging
<1>9. ASSUME NEW t \in Tasks, ReadEmpty(t) PROVE Moves(t)
  BY <1>9
     DEF ReadEmpty, stream, Heeded, Goto, Lock, Unlock, TypeInv, Moves, Takes, Keeps,
         Gives, Exchanging
<1>10. ASSUME NEW t \in Tasks, NEW n \in 0..MaxData, ReadFails(t, n) PROVE Moves(t)
  BY <1>10
     DEF ReadFails, stream, Heeded, Swallowed, Goto, Lock, Unlock, TypeInv, Moves,
         Takes, Keeps, Gives, Exchanging
<1>11. ASSUME NEW t \in Tasks, PollSubscribe(t) PROVE Moves(t)
  BY <1>11
     DEF PollSubscribe, stream, Goto, Lock, Unlock, TypeInv, Moves, Takes, Keeps, Gives,
         Exchanging
<1>12. ASSUME NEW t \in Tasks, PollDrain(t) PROVE Moves(t)
  BY <1>12
     DEF PollDrain, stream, Goto, Lock, Unlock, TypeInv, Moves, Takes, Keeps, Gives,
         Exchanging
<1>13. ASSUME NEW t \in Tasks, NEW n, ReadLast(t, n) PROVE Moves(t)
  BY <1>13
     DEF ReadLast, stream, Heeded, Goto, Lock, Unlock, TypeInv, Moves, Takes, Keeps,
         Gives, Exchanging
<1>14. ASSUME NEW t \in Tasks, NEW n, WriteLock(t, n) PROVE Moves(t)
  BY <1>14
     DEF WriteLock, stream, Goto, Lock, Unlock, TypeInv, Moves, Takes, Keeps, Gives,
         Exchanging
<1>15. ASSUME NEW t \in Tasks, WriteCommand(t) PROVE Moves(t)
  BY <1>15
     DEF WriteCommand, stream, Heeded, Swallowed, Goto, Lock, Unlock, TypeInv, Moves,
         Takes, Keeps, Gives, Exchanging
<1>16. ASSUME NEW t \in Tasks, WritePayload(t) PROVE Moves(t)
  BY <1>16
     DEF WritePayload, stream, Pushed, Goto, Lock, Unlock, TypeInv, Moves, Takes, Keeps,
         Gives, Exchanging
<1>17. ASSUME NEW t \in Tasks, CloseLock(t) PROVE Moves(t)
  BY <1>17
     DEF CloseLock, stream, Goto, Lock, Unlock, TypeInv, Moves, Takes, Keeps, Gives,
         Exchanging
<1>18. ASSUME NEW t \in Tasks, Close(t) PROVE Moves(t)
  BY <1>18
     DEF Close, stream, Heeded, Swallowed, Goto, Lock, Unlock, TypeInv, Moves, Takes,
         Keeps, Gives, Exchanging
<1>19. ASSUME NEW t \in Tasks, DropHandle(t) PROVE Moves(t)
  BY <1>19
     DEF DropHandle, stream, Goto, Lock, Unlock, TypeInv, Moves, Takes, Keeps, Gives,
         Exchanging
<1>20. ASSUME NEW i \in Ids, ModemStep(i) PROVE UNCHANGED <<lock, pc, prompt>>
  BY <1>20
     DEF ModemStep, stream, ModemOpens, ModemOpenFails, PeerSends, PeerCloses, owner
<1>21. CASE UNCHANGED vars
  BY <1>21 DEF vars, stream, owner
<1> QED
  BY <1>1, <1>2, <1>3, <1>4, <1>5, <1>6, <1>7, <1>8, <1>9, <1>10, <1>11, <1>12, <1>13,
     <1>14, <1>15, <1>16, <1>17, <1>18, <1>19, <1>20, <1>21
  DEF Next, LockStep, TaskStep, CallerStep

LEMMA ExchangeStep == TypeInv /\ OneExchange /\ [Next]_vars => OneExchange'
<1> SUFFICES ASSUME TypeInv, OneExchange, [Next]_vars PROVE OneExchange'
  OBVIOUS
<1>1. "free" \notin Tasks
  BY TcpSocketsAssumption DEF TcpSocketsAssumption
<1>2. CASE UNCHANGED <<lock, pc, prompt>>
  BY <1>2 DEF OneExchange
<1>3. ASSUME NEW t \in Tasks, Moves(t) PROVE OneExchange'
  <2>1. /\ \A u \in Tasks : u # t => pc'[u] = pc[u]
        /\ pc[t] \in Exchanging <=> lock = t
    BY <1>3 DEF Moves, TypeInv, OneExchange
  <2>2. \A u \in Tasks : pc'[u] \in Exchanging <=> lock' = u
    BY <1>1, <1>3, <2>1 DEF Moves, Takes, Keeps, Gives, OneExchange
  <2>3. prompt' = "data" => \E u \in Tasks : pc'[u] = "writePayload" /\ lock' = u
    <3>1. CASE pc[t] = "writeCommand" /\ pc'[t] = "writePayload"
      BY <3>1, <2>2 DEF Exchanging
    <3>2. CASE prompt' = prompt /\ pc[t] # "writePayload"
      BY <3>2, <2>1, <2>2 DEF OneExchange, Exchanging
    <3> QED
      BY <3>1, <3>2, <1>3 DEF Moves
  <2> QED
    BY <2>2, <2>3 DEF OneExchange
<1> QED
  BY <1>2, <1>3, EachMoves

(* A task is among the subscribers during its own exchange only.           *)
LEMMA SubsStep == TypeInv /\ SubsInv /\ [Next]_vars => SubsInv'
<1> SUFFICES ASSUME TypeInv, SubsInv, [Next]_vars PROVE SubsInv'
  OBVIOUS
<1>0. /\ "socket_sub" \notin Tasks /\ Transport \in {"Tcp", "Tls"}
      /\ pc \in [Tasks -> Labels] /\ subs \subseteq Tasks \cup {"socket_sub"}
  BY TcpSocketsAssumption DEF TcpSocketsAssumption, TypeInv, Subscribers
<1>1. ASSUME NEW t \in Tasks, NEW c \in Clients, Connect(t, c) PROVE SubsInv'
  BY <1>0, <1>1 DEF Connect, SubsInv, Goto, OpenSub, channel
<1>2. ASSUME NEW t \in Tasks, OpenLock(t) PROVE SubsInv'
  BY <1>0, <1>2 DEF OpenLock, stream, SubsInv, Goto, Subscribe, OpenSub
<1>3. ASSUME NEW t \in Tasks, OpenAccepted(t) PROVE SubsInv'
  BY <1>0, <1>3
     DEF OpenAccepted, stream, Heeded, SubsInv, Goto, Publish, channel, OpenSub
<1>4. ASSUME NEW t \in Tasks, OpenRefused(t) PROVE SubsInv'
  BY <1>0, <1>4
     DEF OpenRefused, stream, Heeded, Swallowed, SubsInv, Goto, OpenFails, Unsubscribe,
         channel, OpenSub
<1>5. ASSUME NEW t \in Tasks, OpenPoll(t) PROVE SubsInv'
  BY <1>0, <1>5 DEF OpenPoll, stream, SubsInv, Goto, Unsubscribe, OpenSub
<1>6. ASSUME NEW t \in Tasks, OpenTimeout(t) PROVE SubsInv'
  BY <1>0, <1>6
     DEF OpenTimeout, stream, SubsInv, Goto, OpenFails, Unsubscribe, channel, OpenSub
<1>7. ASSUME NEW t \in Tasks, ReadLock(t) PROVE SubsInv'
  BY <1>0, <1>7 DEF ReadLock, stream, SubsInv, Goto, channel, OpenSub
<1>8. ASSUME NEW t \in Tasks, NEW n, ReadData(t, n) PROVE SubsInv'
  BY <1>0, <1>8 DEF ReadData, stream, Heeded, SubsInv, Goto, channel, OpenSub
<1>9. ASSUME NEW t \in Tasks, ReadEmpty(t) PROVE SubsInv'
  BY <1>0, <1>9 DEF ReadEmpty, stream, Heeded, SubsInv, Goto, channel, OpenSub
<1>10. ASSUME NEW t \in Tasks, NEW n \in 0..MaxData, ReadFails(t, n) PROVE SubsInv'
  BY <1>0, <1>10
     DEF ReadFails, stream, Heeded, Swallowed, SubsInv, Goto, channel, OpenSub
<1>11. ASSUME NEW t \in Tasks, PollSubscribe(t) PROVE SubsInv'
  BY <1>0, <1>11 DEF PollSubscribe, stream, SubsInv, Goto, Subscribe, OpenSub
<1>12. ASSUME NEW t \in Tasks, PollDrain(t) PROVE SubsInv'
  BY <1>0, <1>12 DEF PollDrain, stream, SubsInv, Goto, Unsubscribe, OpenSub
<1>13. ASSUME NEW t \in Tasks, NEW n, ReadLast(t, n) PROVE SubsInv'
  BY <1>0, <1>13 DEF ReadLast, stream, Heeded, SubsInv, Goto, channel, OpenSub
<1>14. ASSUME NEW t \in Tasks, NEW n, WriteLock(t, n) PROVE SubsInv'
  BY <1>0, <1>14 DEF WriteLock, stream, SubsInv, Goto, channel, OpenSub
<1>15. ASSUME NEW t \in Tasks, WriteCommand(t) PROVE SubsInv'
  BY <1>0, <1>15
     DEF WriteCommand, stream, Heeded, Swallowed, SubsInv, Goto, channel, OpenSub
<1>16. ASSUME NEW t \in Tasks, WritePayload(t) PROVE SubsInv'
  BY <1>0, <1>16 DEF WritePayload, stream, SubsInv, Goto, Pushed, channel, OpenSub
<1>17. ASSUME NEW t \in Tasks, CloseLock(t) PROVE SubsInv'
  BY <1>0, <1>17 DEF CloseLock, stream, SubsInv, Goto, channel, OpenSub
<1>18. ASSUME NEW t \in Tasks, Close(t) PROVE SubsInv'
  BY <1>0, <1>18 DEF Close, stream, Heeded, Swallowed, SubsInv, Goto, channel, OpenSub
<1>19. ASSUME NEW t \in Tasks, DropHandle(t) PROVE SubsInv'
  BY <1>0, <1>19 DEF DropHandle, stream, SubsInv, Goto, channel, OpenSub
<1>20. ASSUME NEW i \in Ids, ModemStep(i) PROVE SubsInv'
  BY <1>20
     DEF ModemStep, stream, ModemOpens, ModemOpenFails, PeerSends, PeerCloses, owner,
         channel, Publish, SubsInv, OpenSub
<1>21. CASE UNCHANGED vars
  BY <1>21 DEF vars, stream, owner, channel, SubsInv, OpenSub
<1> QED
  BY <1>1, <1>2, <1>3, <1>4, <1>5, <1>6, <1>7, <1>8, <1>9, <1>10, <1>11, <1>12, <1>13,
     <1>14, <1>15, <1>16, <1>17, <1>18, <1>19, <1>20, <1>21
  DEF Next, LockStep, TaskStep, CallerStep

LEMMA SubsInit == Init => SubsInv /\ OneExchange
BY TcpSocketsAssumption
  DEF TcpSocketsAssumption, Init, SubsInv, OneExchange, Exchanging

(* A subscriber that a task reads exists, and all variables have their     *)
(* types (tcp.rs, cellular.rs:1871-2060).                                  *)
THEOREM TypeCorrect == Spec => []TypeOK
<1>1. TypeInv /\ SubsInv => TypeOK
  BY DEF TypeInv, SubsInv, TypeOK, Sockets
<1> QED
  BY <1>1, TypeInit, TypeStep, SubsInit, SubsStep, PTL DEF Spec

(* Every command of a socket, its answer and its payload are exchanged     *)
(* under the mutex, by one task at a time, and the modem waits for data    *)
(* only from the task that announced it, or for the rest of a payload that *)
(* did not arrive whole (tcp.rs:22-24, cellular.rs:1788, 1948).            *)
THEOREM OneExchangeHolds == Spec => []OneExchange
BY TypeInit, TypeStep, SubsInit, ExchangeStep, PTL DEF Spec

(* Whoever holds the mutex is the only task that subscribes.               *)
LEMMA SubscribersOfOne ==
  TypeInv /\ SubsInv /\ OneExchange => SubscribersBounded
<1> SUFFICES ASSUME TypeInv, SubsInv, OneExchange PROVE SubscribersBounded
  OBVIOUS
<1>1. subs \subseteq {"socket_sub", lock}
  BY DEF TypeInv, SubsInv, OneExchange, Exchanging, Subscribers
<1>2. IsFiniteSet({"socket_sub", lock}) /\ Cardinality({"socket_sub", lock}) <= 2
  <2>1. IsFiniteSet({lock}) /\ Cardinality({lock}) = 1
    BY FS_Singleton
  <2>2. {"socket_sub", lock} = {lock} \cup {"socket_sub"}
    OBVIOUS
  <2> QED
    BY <2>1, <2>2, FS_AddElement
<1>3. /\ Cardinality(subs) <= Cardinality({"socket_sub", lock})
      /\ Cardinality(subs) \in Nat /\ Cardinality({"socket_sub", lock}) \in Nat
  BY <1>1, <1>2, FS_Subset, FS_CardinalityType
<1> QED
  BY <1>2, <1>3 DEF SubscribersBounded

(* The sockets take two slots of the URC channel at most, whatever the     *)
(* number of tasks (cellular.rs:87, 1871).                                 *)
THEOREM SubscribersBoundedHolds == Spec => []SubscribersBounded
BY TypeInit, TypeStep, SubsInit, SubsStep, ExchangeStep, SubscribersOfOne, PTL DEF Spec

-----------------------------------------------------------------------------
(* What a step does to the sockets.  Most leave them alone and tell nobody *)
(* that one is open.                                                       *)
Quiet ==
  \A i \in Ids : (Unheard(i) => Unheard(i)') /\ (Unclosed(i) => Unclosed(i)')

Told(t) == \E u \in Subscribers : \E k \in DOMAIN heard[u] : heard[u][k] = Opened(id[t])

Stays(t) ==
  \/ pc[t] # "close" /\ pc'[t] = "close"
  \/ pc[t] \notin {"eof", "close"} /\ pc'[t] \notin {"eof", "close", "readLast"}
  \/ pc[t] = "pollDrain" /\ pc'[t] = "readLast" /\ ~Unclosed(id[t])

Advances(t) ==
  \/ pc'[t] = "idle"
  \/ pc[t] \in Holding /\ pc'[t] \in Holding /\ Stays(t)
  \/ pc[t] = "openLock" /\ pc'[t] = "openSend"
  \/ pc[t] = "openSend" /\ pc'[t] = "openWait"
  \/ pc[t] = "openWait" /\ pc'[t] = "openWait"
  \/ pc[t] = "openWait" /\ pc'[t] = "open" /\ Told(t)

ByTask(t) ==
  /\ pc[t] # "idle" /\ pc' = [pc EXCEPT ![t] = pc'[t]]
  /\ Quiet /\ UNCHANGED <<nextId, id, conn, conns>>

Leaves(t) == ByTask(t) /\ Advances(t) /\ UNCHANGED <<stream, sock>>

Begins(t) ==
  /\ ByTask(t) /\ pc[t] = "openSend" /\ pc'[t] \in {"openWait", "idle"}
  /\ sock' = [sock EXCEPT ![id[t]] = [FreeSocket EXCEPT !.state = "opening", !.conn = conn[t]]]
  /\ UNCHANGED stream

Reads(t) ==
  /\ ByTask(t) /\ pc[t] \in Holding /\ pc'[t] \in Holding
  /\ \E n \in Nat :
       /\ Take(t, n)
       /\ \/ n > 0 /\ pc[t] \in {"readRecv", "readLast"} /\ pc'[t] = "open"
          \/ n = 0 /\ sock[id[t]].rx = <<>> /\ pc[t] = "readLast" /\ pc'[t] = "eof"

Loses(t) ==
  /\ ByTask(t) /\ pc[t] \in {"readRecv", "readLast"} /\ pc'[t] = "open"
  /\ UNCHANGED sock \/ \E n \in Nat : HandOver(t, n)
  /\ failed' = failed \cup {t} /\ UNCHANGED got

Frees(t) ==
  /\ ByTask(t) /\ pc[t] \in Holding /\ pc'[t] = "idle"
  /\ sock' = [sock EXCEPT ![id[t]] = FreeSocket] /\ UNCHANGED stream

(* Publishing one URC brings no other, and a subscriber that comes, goes   *)
(* or takes its first message brings none.                                 *)
LEMMA PublishNever ==
  ASSUME TypeInv, NEW x, Never(x), NEW m \in Urcs, m # x, Publish(m)
  PROVE  \A u \in Subscribers : \A k \in DOMAIN heard'[u] : heard'[u][k] # x
<1> SUFFICES ASSUME NEW u \in Subscribers, NEW k \in DOMAIN heard'[u] PROVE heard'[u][k] # x
  OBVIOUS
<1>1. heard[u] \in Seq(Urcs)
  BY DEF TypeInv
<1>2. CASE heard'[u] = heard[u]
  BY <1>2 DEF Never
<1>3. CASE heard'[u] = Append(heard[u], m)
  <2>1. /\ Append(heard[u], m) \in Seq(Urcs) /\ Len(Append(heard[u], m)) = Len(heard[u]) + 1
        /\ \A j \in 1..Len(heard[u]) : Append(heard[u], m)[j] = heard[u][j]
        /\ Append(heard[u], m)[Len(heard[u]) + 1] = m
    BY <1>1, AppendProperties
  <2>2. k \in 1..(Len(heard[u]) + 1) /\ DOMAIN heard[u] = 1..Len(heard[u]) /\ Len(heard[u]) \in Nat
    BY <1>1, <1>3, <2>1, LenProperties
  <2> QED
    BY <1>3, <2>1, <2>2 DEF Never
<1> QED
  BY <1>2, <1>3 DEF Publish

LEMMA RemovalNever ==
  ASSUME TypeInv, NEW x, Never(x), NEW u \in Subscribers,
         \/ heard' = heard
         \/ heard' = [heard EXCEPT ![u] = <<>>]
         \/ heard[u] # <<>> /\ heard' = [heard EXCEPT ![u] = Tail(heard[u])]
  PROVE  \A v \in Subscribers : \A k \in DOMAIN heard'[v] : heard'[v][k] # x
<1> SUFFICES ASSUME NEW v \in Subscribers, NEW k \in DOMAIN heard'[v] PROVE heard'[v][k] # x
  OBVIOUS
<1>1. heard \in [Subscribers -> Seq(Urcs)]
  BY DEF TypeInv
<1>2. CASE heard'[v] = heard[v]
  BY <1>2 DEF Never
<1>3. CASE heard'[v] = <<>>
  BY <1>3
<1>4. CASE heard[v] # <<>> /\ heard'[v] = Tail(heard[v])
  <2>1. /\ Tail(heard[v]) \in Seq(Urcs) /\ Len(Tail(heard[v])) = Len(heard[v]) - 1
        /\ \A j \in 1..Len(Tail(heard[v])) : Tail(heard[v])[j] = heard[v][j + 1]
    BY <1>1, <1>4, HeadTailProperties
  <2>2. /\ k \in 1..Len(Tail(heard[v])) /\ DOMAIN heard[v] = 1..Len(heard[v])
        /\ Len(heard[v]) \in Nat
    BY <1>1, <1>4, <2>1, LenProperties
  <2>3. k + 1 \in DOMAIN heard[v]
    BY <2>1, <2>2
  <2> QED
    BY <1>4, <2>1, <2>2, <2>3 DEF Never
<1> QED
  BY <1>1, <1>2, <1>3, <1>4

(* Only the modem says that a socket is open or closed.                    *)
LEMMA PublishUnheard ==
  ASSUME TypeInv, NEW i, NEW m \in Urcs, Publish(m)
  PROVE  /\ m # Opened(i) /\ Unheard(i) => Unheard(i)'
         /\ m # ClosedUrc(i) /\ Unclosed(i) => Unclosed(i)'
<1>1. ASSUME m # Opened(i), Unheard(i) PROVE Unheard(i)'
  BY <1>1, PublishNever DEF Unheard, Never, Opened, OpenUrc
<1>2. ASSUME m # ClosedUrc(i), Unclosed(i) PROVE Unclosed(i)'
  BY <1>2, PublishNever DEF Unclosed, Never, ClosedUrc
<1> QED
  BY <1>1, <1>2

LEMMA QuietPublish ==
  ASSUME TypeInv, NEW m \in Urcs, m.urc = "open" /\ m.err # 0, Publish(m)
  PROVE  Quiet
<1>1. \A i \in Ids : m # Opened(i) /\ m # ClosedUrc(i)
  BY DEF Opened, OpenUrc, ClosedUrc
<1> QED
  BY <1>1, PublishUnheard DEF Quiet

LEMMA QuietRemoval ==
  ASSUME TypeInv, NEW u \in Subscribers,
         \/ heard' = heard
         \/ heard' = [heard EXCEPT ![u] = <<>>]
         \/ heard[u] # <<>> /\ heard' = [heard EXCEPT ![u] = Tail(heard[u])]
  PROVE  Quiet
<1> SUFFICES ASSUME NEW i \in Ids
             PROVE  (Unheard(i) => Unheard(i)') /\ (Unclosed(i) => Unclosed(i)')
  BY DEF Quiet
<1>1. ASSUME Unheard(i) PROVE Unheard(i)'
  BY <1>1, RemovalNever DEF Unheard, Never, Opened, OpenUrc
<1>2. ASSUME Unclosed(i) PROVE Unclosed(i)'
  BY <1>2, RemovalNever DEF Unclosed, Never, ClosedUrc
<1> QED
  BY <1>1, <1>2

(* Every step of a task is one of these or a Connect.                      *)
LEMMA LeavesSame ==
  ASSUME TypeInv, NEW t \in Tasks, Goto(t, pc'[t]), pc[t] # "idle", Advances(t),
         UNCHANGED <<nextId, id, conn, conns, stream, sock>>, Quiet
  PROVE  Leaves(t)
BY DEF Goto, Leaves, ByTask

LEMMA EachAffects ==
  ASSUME TypeInv, [Next]_vars
  PROVE  \/ \E t \in Tasks : Leaves(t) \/ Begins(t) \/ Reads(t) \/ Loses(t) \/ Frees(t)
         \/ \E t \in Tasks, c \in Clients : Connect(t, c)
         \/ \E i \in Ids : ModemStep(i)
         \/ UNCHANGED vars
<1>0. /\ pc \in [Tasks -> Labels] /\ heard \in [Subscribers -> Seq(Urcs)]
      /\ \A t \in Tasks : t \in Subscribers /\ OpenSub(t) \in Subscribers
      /\ (UNCHANGED heard => Quiet)
  BY QuietRemoval DEF TypeInv, Subscribers, OpenSub
<1>1. ASSUME NEW t \in Tasks, OpenLock(t) PROVE Leaves(t)
  <2>1. Quiet
    BY <1>0, <1>1, QuietRemoval DEF OpenLock, stream, Subscribe
  <2> QED
    BY <1>0, <1>1, <2>1, LeavesSame DEF OpenLock, stream, Goto, Advances, bounds
<1>2. ASSUME NEW t \in Tasks, OpenAccepted(t) PROVE Leaves(t) \/ Begins(t)
  <2>1. OpenUrc(id[t], 563) \in Urcs
    BY DEF TypeInv, OpenUrc, Urcs
  <2>2. UNCHANGED channel \/ Publish(OpenUrc(id[t], 563))
    BY <1>2 DEF OpenAccepted, stream, Heeded
  <2>3. Quiet
    BY <1>0, <2>1, <2>2, QuietPublish DEF OpenUrc, channel
  <2>4. ByTask(t) /\ Advances(t) /\ UNCHANGED stream /\ pc'[t] = "openWait"
    BY <1>0, <1>2, <2>3 DEF OpenAccepted, stream, Heeded, Goto, ByTask, Advances, bounds
  <2> QED
    BY <1>2, <2>4 DEF OpenAccepted, stream, Heeded, Leaves, Begins
<1>3. ASSUME NEW t \in Tasks, OpenRefused(t) PROVE Leaves(t) \/ Begins(t)
  <2>1. Quiet
    BY <1>0, <1>3, QuietRemoval
       DEF OpenRefused, stream, Heeded, Swallowed, OpenFails, Unsubscribe, channel
  <2>2. ByTask(t) /\ Advances(t) /\ UNCHANGED stream /\ pc'[t] = "idle"
    BY <1>0, <1>3, <2>1
       DEF OpenRefused, stream, Heeded, Swallowed, OpenFails, Goto, ByTask, Advances
  <2> QED
    BY <1>3, <2>2 DEF OpenRefused, stream, Heeded, Swallowed, Leaves, Begins
<1>4. ASSUME NEW t \in Tasks, OpenPoll(t) PROVE Leaves(t)
  <2> DEFINE s == OpenSub(t)
             m == Head(heard[s])
  <2>1. Quiet
    BY <1>0, <1>4, QuietRemoval DEF OpenPoll, stream, Unsubscribe
  <2>2. heard[s] \in Seq(Urcs) /\ heard[s] # <<>>
    BY <1>0, <1>4 DEF OpenPoll, stream
  <2>3. m = heard[s][1] /\ m \in Urcs /\ 1 \in DOMAIN heard[s]
    BY <2>2, HeadTailProperties, EmptySeq, LenProperties
  <2>4. CASE IsOurs(t, m) /\ m.err = 0
    <3>1. m = Opened(id[t])
      BY <2>3, <2>4 DEF IsOurs, Urcs, Opened, OpenUrc
    <3>2. Told(t)
      BY <1>0, <2>3, <3>1 DEF Told
    <3>3. Goto(t, "open")
      BY <1>4, <2>4 DEF OpenPoll, stream
    <3> QED
      BY <1>0, <1>4, <2>1, <3>2, <3>3, LeavesSame
         DEF OpenPoll, stream, Goto, Advances, bounds
  <2>5. CASE IsOurs(t, m) /\ m.err # 0
    <3>1. Goto(t, "idle")
      BY <1>4, <2>5 DEF OpenPoll, stream
    <3> QED
      BY <1>0, <1>4, <2>1, <3>1, LeavesSame DEF OpenPoll, stream, Goto, Advances, bounds
  <2>6. CASE ~IsOurs(t, m)
    <3>1. pc' = pc
      BY <1>4, <2>6 DEF OpenPoll, stream
    <3> QED
      BY <1>0, <1>4, <2>1, <3>1, LeavesSame DEF OpenPoll, stream, Goto, Advances, bounds
  <2> QED
    BY <2>4, <2>5, <2>6
<1>5. ASSUME NEW t \in Tasks, OpenTimeout(t) PROVE Leaves(t)
  <2>1. Quiet
    BY <1>0, <1>5, QuietRemoval DEF OpenTimeout, stream, OpenFails, Unsubscribe, channel
  <2> QED
    BY <1>0, <1>5, <2>1, LeavesSame DEF OpenTimeout, stream, OpenFails, Goto, Advances
<1>6. ASSUME NEW t \in Tasks, ReadLock(t) PROVE Leaves(t)
  BY <1>0, <1>6, LeavesSame
     DEF ReadLock, stream, Goto, Advances, Stays, Holding, channel, bounds
<1>7. ASSUME NEW t \in Tasks, ReadEmpty(t) PROVE Leaves(t)
  BY <1>0, <1>7, LeavesSame
     DEF ReadEmpty, stream, Heeded, Goto, Advances, Stays, Holding, channel, bounds
<1>8. ASSUME NEW t \in Tasks, NEW n \in 0..MaxData, ReadFails(t, n) PROVE Loses(t)
  BY <1>0, <1>8 DEF ReadFails, Loses, ByTask, Goto, channel
<1>9. ASSUME NEW t \in Tasks, PollSubscribe(t) PROVE Leaves(t)
  <2>1. Quiet
    BY <1>0, <1>9, QuietRemoval DEF PollSubscribe, stream, Subscribe
  <2> QED
    BY <1>0, <1>9, <2>1, LeavesSame
       DEF PollSubscribe, stream, Goto, Advances, Stays, Holding, bounds
<1>10. ASSUME NEW t \in Tasks, PollDrain(t) PROVE Leaves(t)
  <2>1. Quiet
    BY <1>0, <1>10, QuietRemoval DEF PollDrain, stream, Unsubscribe
  <2>2. (\E k \in DOMAIN heard[t] : heard[t][k] = ClosedUrc(id[t])) => ~Unclosed(id[t])
    BY <1>0 DEF Unclosed, Never
  <2>3. /\ pc[t] = "pollDrain"
        /\ \/ pc'[t] = "readLast" /\ ~Unclosed(id[t])
           \/ pc'[t] = "readDelay"
    BY <1>0, <1>10, <2>2 DEF PollDrain, stream, Goto
  <2>4. Goto(t, pc'[t]) /\ UNCHANGED <<nextId, id, conn, conns, stream, sock>>
    BY <1>0, <1>10 DEF PollDrain, stream, Goto, bounds
  <2>5. Advances(t)
    BY <2>3 DEF Advances, Stays, Holding
  <2> QED
    BY <2>1, <2>3, <2>4, <2>5, LeavesSame
<1>11. ASSUME NEW t \in Tasks, WriteCommand(t) PROVE Leaves(t)
  BY <1>0, <1>11, LeavesSame
     DEF WriteCommand, stream, Heeded, Swallowed, Goto, Advances, Stays, Holding,
         channel
<1>12. ASSUME NEW t \in Tasks, WritePayload(t) PROVE Leaves(t)
  BY <1>0, <1>12, LeavesSame
     DEF WritePayload, stream, Goto, Advances, Stays, Holding, Pushed, channel
<1>13. ASSUME NEW t \in Tasks, CloseLock(t) PROVE Leaves(t)
  BY <1>0, <1>13, LeavesSame
     DEF CloseLock, stream, Goto, Advances, Stays, Holding, channel, bounds
<1>14. ASSUME NEW t \in Tasks, DropHandle(t) PROVE Leaves(t)
  BY <1>0, <1>14, LeavesSame DEF DropHandle, stream, Goto, Advances, Holding, channel
<1>15. ASSUME NEW t \in Tasks, NEW n \in 1..MaxChunks, WriteLock(t, n) PROVE Leaves(t)
  BY <1>0, <1>15, LeavesSame
     DEF WriteLock, stream, Goto, Advances, Stays, Holding, channel
<1>16. ASSUME NEW t \in Tasks, NEW n \in 1..MaxData, ReadData(t, n) PROVE Reads(t)
  BY <1>0, <1>16
     DEF ReadData, stream, Heeded, Reads, ByTask, Goto, Holding, channel, bounds
<1>17. ASSUME NEW t \in Tasks, NEW n \in 0..MaxData, ReadLast(t, n) PROVE Reads(t)
  BY <1>0, <1>17
     DEF ReadLast, stream, Heeded, Reads, ByTask, Goto, Holding, channel, bounds
<1>18. ASSUME NEW t \in Tasks, Close(t) PROVE Leaves(t) \/ Frees(t)
  <2>1. ByTask(t) /\ Advances(t) /\ UNCHANGED stream /\ pc'[t] = "idle" /\ pc[t] \in Holding
    BY <1>0, <1>18
       DEF Close, stream, Heeded, Swallowed, ByTask, Advances, Goto, Holding, channel
  <2> QED
    BY <1>18, <2>1 DEF Close, stream, Heeded, Swallowed, Leaves, Frees
<1> QED
  BY <1>1, <1>2, <1>3, <1>4, <1>5, <1>6, <1>7, <1>8, <1>9, <1>10, <1>11, <1>12, <1>13,
     <1>14, <1>15, <1>16, <1>17, <1>18
  DEF Next, LockStep, TaskStep, CallerStep

(* A read takes from the front of its own buffer, no more.                 *)
LEMMA ReadTouches ==
  ASSUME TypeInv, NEW t \in Tasks, Reads(t) \/ Loses(t)
  PROVE  /\ ByTask(t) /\ pc[t] \in Holding /\ pc'[t] \in {"open", "eof"}
         /\ id[t] \in Ids /\ sock[id[t]] \in Sockets
         /\ sock'[id[t]].state = sock[id[t]].state /\ sock'[id[t]].conn = sock[id[t]].conn
         /\ sock'[id[t]].sent = sock[id[t]].sent
         /\ \A i \in Ids : i # id[t] => sock'[i] = sock[i]
         /\ \A u \in Tasks : u # t => got'[u] = got[u] /\ (u \in failed' <=> u \in failed)
<1>1. /\ id[t] \in Ids /\ sock[id[t]] \in Sockets /\ sock \in [Ids -> Sockets]
      /\ got \in [Tasks -> Seq(1..MaxData)]
  BY DEF TypeInv
<1>2. /\ ByTask(t) /\ pc[t] \in Holding /\ pc'[t] \in {"open", "eof"}
      /\ UNCHANGED sock \/ \E n \in Nat : HandOver(t, n)
      /\ \A u \in Tasks : u # t => got'[u] = got[u] /\ (u \in failed' <=> u \in failed)
  BY <1>1 DEF Reads, Loses, Take, Holding
<1> QED
  BY <1>1, <1>2 DEF HandOver, Sockets

-----------------------------------------------------------------------------
(* One client and no wrap: whose a socket is.                              *)
LEMMA ConnectId ==
  ASSUME FreshIds, TypeInv, OwnInv, NEW t \in Tasks, NEW c \in Clients, Connect(t, c)
  PROVE  /\ nextId[c] = conns /\ conns \in Ids
         /\ pc[t] = "idle" /\ pc' = [pc EXCEPT ![t] = "openLock"]
         /\ id' = [id EXCEPT ![t] = conns] /\ conn' = [conn EXCEPT ![t] = conns + 1]
         /\ got' = [got EXCEPT ![t] = <<>>] /\ failed' = failed \ {t}
         /\ conns' = conns + 1 /\ UNCHANGED <<heard, sock>>
<1>1. conns \in Nat /\ conns < IdSpace /\ IdSpace \in Nat
  BY TcpSocketsAssumption DEF TcpSocketsAssumption, TypeInv, FreshIds, Connect
<1>2. nextId[c] = conns
  BY <1>1 DEF OwnInv
<1> QED
  BY <1>1, <1>2 DEF Connect, Goto, channel, Ids

(* A task that steps is not the owner of another one's socket.             *)
LEMMA OneOwner ==
  ASSUME OwnInv, NEW t \in Tasks, NEW u \in Tasks, ByTask(t), pc[u] # "idle", u # t
  PROVE  id[u] # id[t]
BY DEF OwnInv, ByTask

LEMMA OwnStep ==
  FreshIds /\ TypeInv /\ OwnInv /\ [Next]_vars => OwnInv'
<1> SUFFICES ASSUME FreshIds, TypeInv, OwnInv, [Next]_vars PROVE OwnInv'
  OBVIOUS
<1>0. /\ pc \in [Tasks -> Labels] /\ id \in [Tasks -> Ids] /\ conn \in [Tasks -> 0..MaxConnects]
      /\ sock \in [Ids -> Sockets] /\ conns \in Nat
  BY TcpSocketsAssumption DEF TcpSocketsAssumption, TypeInv
<1>1. ASSUME NEW t \in Tasks, ByTask(t), NEW j \in Ids,
             \/ sock' = sock
             \/ /\ sock'[j].state # "free" => sock'[j].conn = j + 1
                /\ \A i \in Ids : i # j => sock'[i] = sock[i]
      PROVE  OwnInv'
  <2>1. \A u \in Tasks : pc'[u] # "idle" => pc[u] # "idle"
    BY <1>0, <1>1 DEF ByTask
  <2>2. \A i \in Ids : sock'[i].state # "free" => sock'[i].conn = i + 1
    BY <1>1 DEF OwnInv
  <2> QED
    BY <1>1, <2>1, <2>2 DEF OwnInv, ByTask
<1>2. ASSUME NEW t \in Tasks, Leaves(t) PROVE OwnInv'
  BY <1>0, <1>1, <1>2 DEF Leaves
<1>3. ASSUME NEW t \in Tasks, Begins(t) PROVE OwnInv'
  <2>1. id[t] \in Ids /\ conn[t] = id[t] + 1
    BY <1>0, <1>3 DEF Begins, OwnInv, Ids
  <2>2. sock'[id[t]].conn = id[t] + 1 /\ \A i \in Ids : i # id[t] => sock'[i] = sock[i]
    BY <1>0, <1>3, <2>1 DEF Begins, FreeSocket
  <2> QED
    BY <1>1, <1>3, <2>1, <2>2 DEF Begins
<1>4. ASSUME NEW t \in Tasks, Reads(t) \/ Loses(t) PROVE OwnInv'
  BY <1>1, <1>4, ReadTouches DEF OwnInv
<1>5. ASSUME NEW t \in Tasks, Frees(t) PROVE OwnInv'
  <2>1. id[t] \in Ids
    BY <1>0
  <2>2. sock'[id[t]].state = "free" /\ \A i \in Ids : i # id[t] => sock'[i] = sock[i]
    BY <1>0, <1>5, <2>1 DEF Frees, FreeSocket
  <2> QED
    BY <1>1, <1>5, <2>1, <2>2 DEF Frees
<1>6. ASSUME NEW t \in Tasks, NEW c \in Clients, Connect(t, c) PROVE OwnInv'
  <2>1. \A d \in Clients : d = c
    BY DEF FreshIds
  <2>2. conns' < IdSpace => nextId'[c] = conns'
    <3>1. IdSpace \in Nat \ {0} /\ nextId \in [Clients -> Ids]
      BY TcpSocketsAssumption DEF TcpSocketsAssumption, TypeInv
    <3>2. conns + 1 < IdSpace => (conns + 1) % IdSpace = conns + 1
      BY <1>0, <3>1
    <3> QED
      BY <1>6, <3>1, <3>2, ConnectId DEF Connect
  <2>3. \A u \in Tasks : pc[u] # "idle" => u # t /\ id[u] # conns
    BY <1>0, <1>6, ConnectId DEF OwnInv
  <2>4. ASSUME NEW u \in Tasks, pc'[u] # "idle"
        PROVE  conn'[u] \in 1..conns' /\ id'[u] = conn'[u] - 1
    <3>1. CASE u = t
      BY <1>0, <1>6, <3>1, ConnectId
    <3>2. CASE u # t
      <4>1. pc[u] # "idle" /\ conn'[u] = conn[u] /\ id'[u] = id[u] /\ conns' = conns + 1
        BY <1>0, <1>6, <2>4, <3>2, ConnectId
      <4> QED
        BY <1>0, <4>1 DEF OwnInv
    <3> QED
      BY <3>1, <3>2
  <2>5. \A u, v \in Tasks : pc'[u] # "idle" /\ pc'[v] # "idle" /\ id'[u] = id'[v] => u = v
    <3>1. /\ pc'[t] = "openLock" /\ id'[t] = conns
          /\ \A u \in Tasks : u # t => pc'[u] = pc[u] /\ id'[u] = id[u]
      BY <1>0, <1>6, ConnectId
    <3> QED
      BY <2>3, <3>1 DEF OwnInv
  <2> QED
    BY <1>6, <2>1, <2>2, <2>4, <2>5, ConnectId DEF OwnInv
<1>7. ASSUME NEW i \in Ids, ModemStep(i) PROVE OwnInv'
  <2>1. UNCHANGED <<nextId, pc, id, conn, conns>>
    BY <1>7
       DEF ModemStep, stream, ModemOpens, ModemOpenFails, PeerSends, PeerCloses, owner,
           bounds
  <2>2. /\ \A j \in Ids : j # i => sock'[j] = sock[j]
        /\ \/ sock'[i].state = "free"
           \/ sock[i].state # "free" /\ sock'[i].conn = sock[i].conn
    BY <1>0, <1>7
       DEF ModemStep, stream, ModemOpens, ModemOpenFails, PeerSends, PeerCloses,
           Sockets, FreeSocket
  <2> QED
    BY <2>1, <2>2 DEF OwnInv
<1>8. CASE UNCHANGED vars
  BY <1>8 DEF vars, stream, owner, bounds, OwnInv
<1> QED
  BY <1>2, <1>3, <1>4, <1>5, <1>6, <1>7, <1>8, EachAffects

(* A socket is opened once, by the task that has its id.                   *)
LEMMA OpeningStep ==
  FreshIds /\ TypeInv /\ OwnInv /\ OpeningInv /\ [Next]_vars => OpeningInv'
<1> SUFFICES ASSUME FreshIds, TypeInv, OwnInv, OpeningInv, [Next]_vars PROVE OpeningInv'
  OBVIOUS
<1>0. /\ pc \in [Tasks -> Labels] /\ id \in [Tasks -> Ids] /\ conn \in [Tasks -> 0..MaxConnects]
      /\ sock \in [Ids -> Sockets] /\ conns \in Nat
  BY TcpSocketsAssumption DEF TcpSocketsAssumption, TypeInv
<1>1. ASSUME NEW t \in Tasks, ByTask(t),
             \A i \in Ids : i # id[t] => sock'[i] = sock[i],
             /\ pc'[t] \in {"openLock", "openSend"} => sock'[id[t]] = FreeSocket /\ Unheard(id[t])'
             /\ pc'[t] = "openWait" => sock'[id[t]].state \in {"open", "closed"} \/ Unheard(id[t])'
             /\ pc'[t] \in Holding => sock'[id[t]].state \in {"open", "closed"}
      PROVE  OpeningInv'
  <2>1. /\ \A u \in Tasks : u # t => pc'[u] = pc[u]
        /\ Quiet /\ UNCHANGED <<id, conns>> /\ id[t] \in Ids /\ id[t] < conns
    BY <1>0, <1>1 DEF ByTask, OwnInv
  <2>2. \A i \in Ids : i >= conns => sock'[i] = FreeSocket /\ Unheard(i)'
    <3>1. \A i \in Ids : i >= conns => i # id[t]
      BY <1>0, <2>1 DEF Ids
    <3> QED
      BY <1>1, <2>1, <3>1 DEF OpeningInv, Quiet
  <2>3. ASSUME NEW u \in Tasks, u # t, pc[u] # "idle"
        PROVE  sock'[id[u]] = sock[id[u]] /\ (Unheard(id[u]) => Unheard(id[u])')
    BY <1>0, <1>1, <2>1, <2>3, OneOwner DEF Quiet
  <2>4. ASSUME NEW u \in Tasks
        PROVE  /\ pc'[u] \in {"openLock", "openSend"} => sock'[id[u]] = FreeSocket /\ Unheard(id[u])'
               /\ pc'[u] = "openWait" => sock'[id[u]].state \in {"open", "closed"} \/ Unheard(id[u])'
               /\ pc'[u] \in Holding => sock'[id[u]].state \in {"open", "closed"}
    BY <1>1, <2>1, <2>3 DEF OpeningInv, Holding
  <2> QED
    BY <2>1, <2>2, <2>4 DEF OpeningInv, Unheard, Never
<1>2. ASSUME NEW t \in Tasks, Leaves(t) PROVE OpeningInv'
  <2>1. ByTask(t) /\ Advances(t) /\ sock' = sock /\ id[t] \in Ids /\ Quiet
    BY <1>0, <1>2 DEF Leaves, ByTask
  <2>2. Told(t) => ~Unheard(id[t])
    BY DEF Told, Unheard, Never
  <2>3. /\ pc'[t] \in {"openLock", "openSend"} => sock[id[t]] = FreeSocket /\ Unheard(id[t])
        /\ pc'[t] = "openWait" => sock[id[t]].state \in {"open", "closed"} \/ Unheard(id[t])
        /\ pc'[t] \in Holding => sock[id[t]].state \in {"open", "closed"}
    BY <2>1, <2>2 DEF OpeningInv, Advances, Holding
  <2>4. Unheard(id[t]) => Unheard(id[t])'
    BY <2>1 DEF ByTask, Quiet
  <2> QED
    BY <1>1, <2>1, <2>3, <2>4
<1>3. ASSUME NEW t \in Tasks, Begins(t) PROVE OpeningInv'
  <2>1. ByTask(t) /\ pc[t] = "openSend" /\ pc'[t] \in {"openWait", "idle"} /\ id[t] \in Ids
    BY <1>0, <1>3 DEF Begins
  <2>2. \A i \in Ids : i # id[t] => sock'[i] = sock[i]
    BY <1>0, <1>3 DEF Begins
  <2>3. Unheard(id[t])'
    BY <2>1 DEF OpeningInv, ByTask, Quiet
  <2> QED
    BY <1>1, <2>1, <2>2, <2>3 DEF Holding
<1>4. ASSUME NEW t \in Tasks, Reads(t) \/ Loses(t) PROVE OpeningInv'
  BY <1>1, <1>4, ReadTouches DEF OpeningInv, Holding
<1>5. ASSUME NEW t \in Tasks, Frees(t) PROVE OpeningInv'
  <2>1. ByTask(t) /\ pc'[t] = "idle" /\ \A i \in Ids : i # id[t] => sock'[i] = sock[i]
    BY <1>0, <1>5 DEF Frees
  <2> QED
    BY <1>1, <2>1 DEF Holding
<1>6. ASSUME NEW t \in Tasks, NEW c \in Clients, Connect(t, c) PROVE OpeningInv'
  <2>1. \A i \in Ids : i >= conns' => sock'[i] = FreeSocket /\ Unheard(i)'
    <3>1. conns' = conns + 1 /\ UNCHANGED <<heard, sock>>
      BY <1>6, ConnectId
    <3>2. \A i \in Ids : i >= conns' => i >= conns
      BY <1>0, <3>1 DEF Ids
    <3> QED
      BY <3>1, <3>2 DEF OpeningInv, Unheard, Never
  <2>2. sock[conns] = FreeSocket /\ Unheard(conns)
    BY <1>0, <1>6, ConnectId DEF OpeningInv
  <2>3. ASSUME NEW u \in Tasks
        PROVE  /\ pc'[u] \in {"openLock", "openSend"} => sock'[id'[u]] = FreeSocket /\ Unheard(id[u])'
               /\ pc'[u] = "openWait" => sock'[id'[u]].state \in {"open", "closed"} \/ Unheard(id[u])'
               /\ pc'[u] \in Holding => sock'[id'[u]].state \in {"open", "closed"}
    <3>1. CASE u = t
      BY <1>0, <1>6, <2>2, <3>1, ConnectId DEF Unheard, Never, Holding
    <3>2. CASE u # t
      BY <1>0, <1>6, <3>2, ConnectId DEF OpeningInv, Unheard, Never
    <3> QED
      BY <3>1, <3>2
  <2> QED
    BY <2>1, <2>3 DEF OpeningInv, Unheard, Never

<1>7. ASSUME NEW i \in Ids, ModemStep(i) PROVE OpeningInv'
  <2>1. UNCHANGED <<pc, id, conns>> /\ \A j \in Ids : j # i => sock'[j] = sock[j]
    BY <1>0, <1>7
       DEF ModemStep, stream, ModemOpens, ModemOpenFails, PeerSends, PeerCloses, owner,
           bounds
  <2>2. sock[i].state \in {"opening", "open"} /\ sock[i] # FreeSocket
    BY <1>7
       DEF ModemStep, stream, ModemOpens, ModemOpenFails, PeerSends, PeerCloses,
           FreeSocket
  <2>3. \A j \in Ids : j # i => (Unheard(j) => Unheard(j)')
    <3>1. /\ OpenUrc(i, 0) \in Urcs /\ OpenUrc(i, 566) \in Urcs /\ ClosedUrc(i) \in Urcs
          /\ \A j \in Ids : j # i => OpenUrc(i, 0) # Opened(j) /\ OpenUrc(i, 566) # Opened(j)
                                       /\ ClosedUrc(i) # Opened(j)
      BY DEF OpenUrc, ClosedUrc, Urcs, Opened
    <3>2. Publish(OpenUrc(i, 0)) \/ Publish(OpenUrc(i, 566)) \/ Publish(ClosedUrc(i))
          \/ UNCHANGED heard
      BY <1>7
         DEF ModemStep, stream, ModemOpens, ModemOpenFails, PeerSends, PeerCloses,
             channel
    <3>3. UNCHANGED heard => Quiet
      BY QuietRemoval DEF Subscribers
    <3> QED
      BY <3>1, <3>2, <3>3, PublishUnheard DEF Quiet
  <2>4. \/ sock'[i].state \in {"open", "closed"}
        \/ sock[i].state = "opening" /\ (Unheard(i) => Unheard(i)')
    <3>1. CASE ModemOpenFails(i)
      <4>1. OpenUrc(i, 566) \in Urcs /\ OpenUrc(i, 566) # Opened(i)
        BY DEF OpenUrc, Urcs, Opened
      <4> QED
        BY <3>1, <4>1, PublishUnheard DEF ModemOpenFails, stream
    <3>2. CASE ~ModemOpenFails(i)
      BY <1>0, <1>7, <3>2
         DEF ModemStep, stream, ModemOpens, PeerSends, PeerCloses, Sockets
    <3> QED
      BY <3>1, <3>2
  <2>5. \A j \in Ids : j >= conns => sock'[j] = FreeSocket /\ Unheard(j)'
    BY <2>1, <2>2, <2>3 DEF OpeningInv
  <2>6. ASSUME NEW u \in Tasks
        PROVE  /\ pc[u] \in {"openLock", "openSend"} => sock'[id[u]] = FreeSocket /\ Unheard(id[u])'
               /\ pc[u] = "openWait" => sock'[id[u]].state \in {"open", "closed"} \/ Unheard(id[u])'
               /\ pc[u] \in Holding => sock'[id[u]].state \in {"open", "closed"}
    <3>1. id[u] \in Ids
      BY <1>0
    <3>2. CASE id[u] = i
      BY <2>1, <2>2, <2>4, <3>2 DEF OpeningInv, Unheard, Never
    <3>3. CASE id[u] # i
      BY <2>1, <2>3, <3>1, <3>3 DEF OpeningInv, Unheard, Never
    <3> QED
      BY <3>2, <3>3
  <2> QED
    BY <2>1, <2>5, <2>6 DEF OpeningInv, Unheard, Never
<1>8. CASE UNCHANGED vars
  BY <1>8 DEF vars, stream, owner, channel, bounds, OpeningInv, Unheard, Never
<1> QED
  BY <1>2, <1>3, <1>4, <1>5, <1>6, <1>7, <1>8, EachAffects

(* A close is told of a socket that was open, and only then is it read for *)
(* the last time.                                                          *)
LEMMA ClosedStep ==
  FreshIds /\ TypeInv /\ OwnInv /\ OpeningInv /\ ClosedInv /\ [Next]_vars => ClosedInv'
<1> SUFFICES ASSUME FreshIds, TypeInv, OwnInv, OpeningInv, ClosedInv, [Next]_vars
             PROVE  ClosedInv'
  OBVIOUS
<1>0. /\ pc \in [Tasks -> Labels] /\ id \in [Tasks -> Ids] /\ conn \in [Tasks -> 0..MaxConnects]
      /\ sock \in [Ids -> Sockets] /\ conns \in Nat
  BY TcpSocketsAssumption DEF TcpSocketsAssumption, TypeInv
<1>1. ASSUME NEW t \in Tasks, ByTask(t),
             \A i \in Ids : i # id[t] => sock'[i] = sock[i],
             /\ sock'[id[t]].state \in {"opening", "open"} => Unclosed(id[t])
             /\ pc'[t] \in {"openLock", "openSend"} => Unclosed(id[t])
             /\ pc'[t] = "readLast" => sock'[id[t]].state = "closed"
      PROVE  ClosedInv'
  <2>1. /\ \A u \in Tasks : u # t => pc'[u] = pc[u]
        /\ UNCHANGED <<id, conns>> /\ id[t] \in Ids
        /\ \A i \in Ids : Unclosed(i) => Unclosed(i)'
    BY <1>0, <1>1 DEF ByTask, Quiet
  <2>2. \A i \in Ids : i >= conns \/ sock'[i].state \in {"opening", "open"} => Unclosed(i)'
    BY <1>1, <2>1 DEF ClosedInv
  <2>3. ASSUME NEW u \in Tasks
        PROVE  /\ pc'[u] \in {"openLock", "openSend"} => Unclosed(id[u])'
               /\ pc'[u] = "readLast" => sock'[id[u]].state = "closed"
    <3>1. CASE u = t
      BY <1>1, <2>1, <3>1
    <3>2. CASE u # t /\ pc[u] # "idle"
      <4>1. id[u] \in Ids /\ sock'[id[u]] = sock[id[u]] /\ pc'[u] = pc[u]
        BY <1>0, <1>1, <2>1, <3>2, OneOwner
      <4> QED
        BY <2>1, <4>1 DEF ClosedInv
    <3>3. CASE u # t /\ pc[u] = "idle"
      BY <2>1, <3>3
    <3> QED
      BY <3>1, <3>2, <3>3
  <2> QED
    BY <2>1, <2>2, <2>3 DEF ClosedInv, Unclosed, Never
<1>2. ASSUME NEW t \in Tasks, Leaves(t) PROVE ClosedInv'
  <2>1. ByTask(t) /\ Advances(t) /\ sock' = sock /\ id[t] \in Ids /\ sock[id[t]] \in Sockets
    BY <1>0, <1>2 DEF Leaves
  <2>2. sock[id[t]].state \in {"opening", "open"} => Unclosed(id[t])
    BY <2>1 DEF ClosedInv
  <2>3. pc'[t] \in {"openLock", "openSend"} => Unclosed(id[t])
    BY <2>1 DEF ClosedInv, Advances, Holding
  <2>4. pc'[t] = "readLast" => sock[id[t]].state = "closed"
    BY <2>1, <2>2 DEF OpeningInv, Advances, Stays, Holding
  <2> QED
    BY <1>1, <2>1, <2>2, <2>3, <2>4
<1>3. ASSUME NEW t \in Tasks, Begins(t) PROVE ClosedInv'
  <2>1. ByTask(t) /\ pc[t] = "openSend" /\ pc'[t] \in {"openWait", "idle"} /\ id[t] \in Ids
    BY <1>0, <1>3 DEF Begins
  <2>2. \A i \in Ids : i # id[t] => sock'[i] = sock[i]
    BY <1>0, <1>3 DEF Begins
  <2>3. Unclosed(id[t])
    BY <2>1 DEF ClosedInv
  <2> QED
    BY <1>1, <2>1, <2>2, <2>3
<1>4. ASSUME NEW t \in Tasks, Reads(t) \/ Loses(t) PROVE ClosedInv'
  BY <1>1, <1>4, ReadTouches DEF ClosedInv
<1>5. ASSUME NEW t \in Tasks, Frees(t) PROVE ClosedInv'
  <2>1. ByTask(t) /\ pc'[t] = "idle" /\ \A i \in Ids : i # id[t] => sock'[i] = sock[i]
    BY <1>0, <1>5 DEF Frees
  <2>2. sock'[id[t]].state = "free"
    BY <1>0, <1>5 DEF Frees, FreeSocket
  <2> QED
    BY <1>1, <2>1, <2>2
<1>6. ASSUME NEW t \in Tasks, NEW c \in Clients, Connect(t, c) PROVE ClosedInv'
  <2>1. conns' = conns + 1 /\ conns \in Ids /\ UNCHANGED <<heard, sock>>
        /\ \A i \in Ids : Unclosed(i)' = Unclosed(i)
    BY <1>6, ConnectId DEF Unclosed, Never
  <2>2. \A i \in Ids : i >= conns' => i >= conns
    BY <1>0, <2>1 DEF Ids
  <2>3. Unclosed(conns)
    BY <1>0, <2>1 DEF ClosedInv
  <2>4. ASSUME NEW u \in Tasks
        PROVE  /\ pc'[u] \in {"openLock", "openSend"} => Unclosed(id'[u])
               /\ pc'[u] = "readLast" => sock[id'[u]].state = "closed"
    <3>1. CASE u = t
      <4>1. pc'[u] = "openLock" /\ id'[u] = conns
        BY <1>0, <1>6, <3>1, ConnectId
      <4> QED
        BY <2>3, <4>1
    <3>2. CASE u # t
      <4>1. pc'[u] = pc[u] /\ id'[u] = id[u]
        BY <1>0, <1>6, <3>2, ConnectId
      <4> QED
        BY <4>1 DEF ClosedInv
    <3> QED
      BY <3>1, <3>2
  <2> QED
    BY <2>1, <2>2, <2>4 DEF ClosedInv, Unclosed, Never
<1>7. ASSUME NEW i \in Ids, ModemStep(i) PROVE ClosedInv'
  <2>1. UNCHANGED <<pc, id, conns>> /\ \A j \in Ids : j # i => sock'[j] = sock[j]
    BY <1>0, <1>7
       DEF ModemStep, stream, ModemOpens, ModemOpenFails, PeerSends, PeerCloses, owner,
           bounds
  <2>2. /\ sock[i].state \in {"opening", "open"} /\ sock[i] # FreeSocket
        /\ \/ sock'[i].state = "closed" /\ Publish(ClosedUrc(i))
           \/ sock'[i].state \in {"open", "free"}
              /\ (UNCHANGED heard \/ Publish(OpenUrc(i, 0)) \/ Publish(OpenUrc(i, 566)))
    BY <1>0, <1>7
       DEF ModemStep, stream, ModemOpens, ModemOpenFails, PeerSends, PeerCloses,
           FreeSocket, channel, Sockets
  <2>3. \A j \in Ids : j # i \/ sock'[i].state # "closed" => (Unclosed(j) => Unclosed(j)')
    <3>1. /\ OpenUrc(i, 0) \in Urcs /\ OpenUrc(i, 566) \in Urcs /\ ClosedUrc(i) \in Urcs
          /\ \A j \in Ids : /\ OpenUrc(i, 0) # ClosedUrc(j) /\ OpenUrc(i, 566) # ClosedUrc(j)
                            /\ j # i => ClosedUrc(i) # ClosedUrc(j)
      BY DEF OpenUrc, ClosedUrc, Urcs
    <3>2. UNCHANGED heard => \A j \in Ids : Unclosed(j) => Unclosed(j)'
      BY DEF Unclosed, Never
    <3> QED
      BY <2>2, <3>1, <3>2, PublishUnheard
  <2>4. \A j \in Ids : j >= conns \/ sock'[j].state \in {"opening", "open"} => Unclosed(j)'
    <3>1. i < conns
      BY <1>0, <2>2 DEF OpeningInv, Ids
    <3>2. ASSUME NEW j \in Ids, j >= conns \/ sock'[j].state \in {"opening", "open"}
          PROVE  Unclosed(j)'
      <4>1. CASE j = i
        BY <1>0, <2>2, <2>3, <3>1, <3>2, <4>1 DEF ClosedInv, Ids
      <4>2. CASE j # i
        BY <2>1, <2>3, <3>2, <4>2 DEF ClosedInv
      <4> QED
        BY <4>1, <4>2
    <3> QED
      BY <3>2
  <2>5. ASSUME NEW u \in Tasks
        PROVE  /\ pc[u] \in {"openLock", "openSend"} => Unclosed(id[u])'
               /\ pc[u] = "readLast" => sock'[id[u]].state = "closed"
    <3>1. id[u] \in Ids
      BY <1>0
    <3>2. pc[u] \in {"openLock", "openSend", "readLast"} => id[u] # i
      BY <2>2 DEF OpeningInv, ClosedInv
    <3> QED
      BY <2>1, <2>3, <3>1, <3>2 DEF ClosedInv
  <2> QED
    BY <2>1, <2>4, <2>5 DEF ClosedInv, Unclosed, Never
<1>8. CASE UNCHANGED vars
  BY <1>8 DEF vars, stream, owner, channel, bounds, ClosedInv, Unclosed, Never
<1> QED
  BY <1>2, <1>3, <1>4, <1>5, <1>6, <1>7, <1>8, EachAffects

-----------------------------------------------------------------------------
(* Of the bytes: a buffer that gives some away is still the end of what    *)
(* came, and what is read continues the stream; a byte that comes is the   *)
(* next one; what was read stays in order when more is lost.               *)
LEMMA HandsOver ==
  ASSUME NEW S, NEW r \in Seq(S), NEW m \in Nat, Buffered(r, m), NEW n \in 0..Len(r)
  PROVE  LET rest == SubSeq(r, n + 1, Len(r))
         IN  Len(rest) = Len(r) - n /\ Buffered(rest, m)
<1> DEFINE rest == SubSeq(r, n + 1, Len(r))
<1>1. Len(r) \in Nat /\ \A i \in 1..Len(r) : r[i] \in S
  BY LenProperties, ElementOfSeq
<1>2. /\ Len(rest) = Len(r) - n
      /\ \A i \in 1..(Len(r) - n) : rest[i] = r[n + i]
  <2>1. \A i \in n + 1..Len(r) : r[i] \in S
    BY <1>1
  <2>2. /\ Len(rest) = IF n + 1 <= Len(r) THEN Len(r) - (n + 1) + 1 ELSE 0
        /\ \A i \in 1..(Len(r) - (n + 1) + 1) : rest[i] = r[(n + 1) + i - 1]
    BY <1>1, <2>1, SubSeqProperties
  <2> HIDE DEF rest
  <2> QED
    BY <1>1, <2>2
<1> HIDE DEF rest
<1>3. Buffered(rest, m)
  BY <1>1, <1>2 DEF Buffered
<1> QED
  BY <1>2, <1>3 DEF rest

LEMMA FirstBytes ==
  ASSUME NEW S, NEW r \in Seq(S), NEW m \in Nat, Buffered(r, m), NEW n \in 0..Len(r)
  PROVE  /\ SubSeq(r, 1, n) \in Seq(S) /\ Len(SubSeq(r, 1, n)) = n
         /\ \A k \in 1..n : SubSeq(r, 1, n)[k] = (m - Len(r)) + k
<1> DEFINE more == SubSeq(r, 1, n)
<1>1. Len(r) \in Nat /\ n \in Nat /\ \A i \in 1..Len(r) : r[i] \in S
  BY LenProperties, ElementOfSeq
<1>2. more \in Seq(S) /\ Len(more) = n /\ \A i \in 1..n : more[i] = r[i]
  <2>1. \A i \in 1..n : r[i] \in S
    BY <1>1
  <2>2. /\ more \in Seq(S)
        /\ Len(more) = IF 1 <= n THEN n - 1 + 1 ELSE 0
        /\ \A i \in 1..(n - 1 + 1) : more[i] = r[1 + i - 1]
    BY <1>1, <2>1, SubSeqProperties
  <2> HIDE DEF more
  <2> QED
    BY <1>1, <2>2
<1> HIDE DEF more
<1>3. \A i \in 1..n : more[i] = (m - Len(r)) + i
  BY <1>1, <1>2 DEF Buffered
<1> QED
  BY <1>2, <1>3 DEF more

LEMMA Continues ==
  ASSUME NEW S, NEW g \in Seq(S), NEW r \in Seq(S), NEW m \in Nat, S \subseteq Nat,
         Buffered(r, m), NEW n \in 0..Len(r)
  PROVE  /\ InOrder(g, m - Len(r)) => InOrder(g \o SubSeq(r, 1, n), (m - Len(r)) + n)
         /\ Whole(g, m - Len(r)) => Whole(g \o SubSeq(r, 1, n), (m - Len(r)) + n)
<1> DEFINE p == m - Len(r)
           more == SubSeq(r, 1, n)
<1>1. Len(r) \in Nat /\ n \in Nat /\ \A i \in 1..Len(r) : r[i] \in S
  BY LenProperties, ElementOfSeq
<1>2. more \in Seq(S) /\ Len(more) = n /\ \A i \in 1..n : more[i] = p + i
  BY FirstBytes
<1> HIDE DEF more
<1>3. p \in Nat /\ \A i \in 1..n : more[i] = p + i
  BY <1>1, <1>2 DEF Buffered
<1> HIDE DEF p
<1>4. /\ g \o more \in Seq(S) /\ Len(g \o more) = Len(g) + n /\ Len(g) \in Nat
      /\ \A i \in 1..(Len(g) + n) :
           (g \o more)[i] = IF i <= Len(g) THEN g[i] ELSE more[i - Len(g)]
      /\ \A i \in 1..Len(g) : g[i] \in Nat
  BY <1>2, ConcatProperties, LenProperties, ElementOfSeq
<1> DEFINE h == g \o more
<1>5. /\ Len(h) = Len(g) + n
      /\ \A i \in 1..Len(g) : h[i] = g[i]
      /\ \A i \in (Len(g) + 1)..(Len(g) + n) : h[i] = p + (i - Len(g))
  BY <1>3, <1>4
<1> HIDE DEF h
<1>6. ASSUME InOrder(g, p) PROVE InOrder(h, p + n)
  <2>1. ASSUME NEW k \in 1..Len(h) PROVE h[k] <= p + n
    <3>1. CASE k <= Len(g)
      <4>1. h[k] \in Nat /\ h[k] <= p
        BY <1>4, <1>5, <1>6, <3>1 DEF InOrder
      <4> QED
        BY <1>1, <1>3, <4>1
    <3>2. CASE k > Len(g)
      <4>1. k \in (Len(g) + 1)..(Len(g) + n) /\ k \in Nat
        BY <1>1, <1>4, <1>5, <2>1, <3>2
      <4>2. h[k] = p + (k - Len(g))
        BY <1>5, <4>1
      <4>3. k - Len(g) \in Nat /\ k - Len(g) <= n
        BY <1>1, <1>4, <4>1
      <4> QED
        BY <1>1, <1>3, <4>2, <4>3
    <3>3. k \in Nat
      BY <1>1, <1>4, <1>5, <2>1
    <3> QED
      BY <1>4, <3>1, <3>2, <3>3
  <2>2. ASSUME NEW j \in 1..Len(h), NEW k \in 1..Len(h), j < k PROVE h[j] < h[k]
    <3>1. CASE k <= Len(g)
      BY <1>1, <1>4, <1>5, <1>6, <2>2, <3>1 DEF InOrder
    <3>2. CASE j <= Len(g) /\ k > Len(g)
      <4>1. h[j] <= p /\ h[j] \in Nat
        BY <1>4, <1>5, <1>6, <3>2 DEF InOrder
      <4>2. /\ k \in (Len(g) + 1)..(Len(g) + n)
            /\ k - Len(g) \in Nat /\ k - Len(g) > 0
        BY <1>1, <1>4, <1>5, <2>2, <3>2
      <4>3. h[k] = p + (k - Len(g))
        BY <1>5, <4>2
      <4> QED
        BY <1>3, <4>1, <4>2, <4>3
    <3>3. CASE j > Len(g)
      <4>1. /\ j \in (Len(g) + 1)..(Len(g) + n) /\ k \in (Len(g) + 1)..(Len(g) + n)
            /\ j \in Nat /\ k \in Nat
        BY <1>1, <1>4, <1>5, <2>2, <3>3
      <4>2. h[j] = p + (j - Len(g)) /\ h[k] = p + (k - Len(g))
        BY <1>5, <4>1
      <4> QED
        BY <1>3, <1>4, <2>2, <4>1, <4>2
    <3> QED
      BY <1>1, <1>4, <1>5, <3>1, <3>2, <3>3
  <2> QED
    BY <2>1, <2>2 DEF InOrder
<1>7. ASSUME Whole(g, p) PROVE Whole(h, p + n)
  BY <1>3, <1>4, <1>5, <1>7 DEF Whole
<1> QED
  BY <1>6, <1>7 DEF h, more, p

LEMMA Comes ==
  ASSUME NEW S, NEW r \in Seq(S), NEW m \in Nat, m + 1 \in S, Buffered(r, m)
  PROVE  /\ Len(Append(r, m + 1)) = Len(r) + 1
         /\ Buffered(Append(r, m + 1), m + 1)
<1> DEFINE q == Append(r, m + 1)
<1>1. /\ Len(q) = Len(r) + 1 /\ Len(r) \in Nat
      /\ \A i \in 1..Len(r) : q[i] = r[i]
      /\ q[Len(r) + 1] = m + 1
  BY AppendProperties, LenProperties
<1> HIDE DEF q
<1>2. Buffered(q, m + 1)
  <2>1. Len(r) <= m /\ \A k \in 1..Len(r) : r[k] = (m - Len(r)) + k
    BY DEF Buffered
  <2>2. ASSUME NEW k \in 1..(Len(r) + 1) PROVE q[k] = ((m + 1) - (Len(r) + 1)) + k
    <3>1. CASE k <= Len(r)
      <4>1. q[k] = r[k] /\ r[k] = (m - Len(r)) + k
        BY <1>1, <2>1, <2>2, <3>1
      <4>2. (m - Len(r)) + k = ((m + 1) - (Len(r) + 1)) + k
        BY <1>1
      <4> QED
        BY <4>1, <4>2
    <3>2. CASE k = Len(r) + 1
      <4>1. q[k] = m + 1 /\ m + 1 = ((m + 1) - (Len(r) + 1)) + k
        BY <1>1, <3>2
      <4> QED
        BY <4>1
    <3> QED
      BY <1>1, <3>1, <3>2
  <2> QED
    BY <1>1, <2>1, <2>2 DEF Buffered
<1> QED
  BY <1>1, <1>2 DEF q

LEMMA StaysInOrder ==
  ASSUME NEW g \in Seq(1..MaxData), NEW p \in Nat, NEW n \in Nat, InOrder(g, p)
  PROVE  InOrder(g, p + n)
<1>1. Len(g) \in Nat /\ \A k \in 1..Len(g) : g[k] \in Nat
  <2>1. \A k \in 1..Len(g) : g[k] \in 1..MaxData
    BY ElementOfSeq
  <2> QED
    BY <2>1, LenProperties, TcpSocketsAssumption DEF TcpSocketsAssumption
<1> QED
  BY <1>1 DEF InOrder

(* A task's read, and what a socket has let go.                            *)
LEMMA PassedType ==
  ASSUME TypeInv, StreamInv, NEW i \in Ids
  PROVE  /\ sock[i].rx \in Seq(1..MaxData) /\ sock[i].sent \in Nat
         /\ Len(sock[i].rx) \in Nat /\ Len(sock[i].rx) <= sock[i].sent
         /\ Passed(i) \in Nat
<1>1. sock[i].rx \in Seq(1..MaxData) /\ sock[i].sent \in Nat
  BY TcpSocketsAssumption DEF TypeInv, Sockets, TcpSocketsAssumption
<1>2. Len(sock[i].rx) \in Nat /\ Len(sock[i].rx) <= sock[i].sent
  BY <1>1, LenProperties DEF StreamInv, Buffered
<1> QED
  BY <1>1, <1>2 DEF Passed

LEMMA LetsGo ==
  ASSUME TypeInv, StreamInv, NEW t \in Tasks, NEW n \in Nat, HandOver(t, n)
  PROVE  LET i == id[t] IN
         /\ n \in 0..Len(sock[i].rx)
         /\ Buffered(sock'[i].rx, sock'[i].sent)
         /\ Len(sock'[i].rx) = Len(sock[i].rx) - n /\ sock'[i].sent = sock[i].sent
         /\ sock'[i].sent - Len(sock'[i].rx) = Passed(i) + n
<1> DEFINE i == id[t]
           r == sock[i].rx
           m == sock[i].sent
<1>1. i \in Ids /\ sock \in [Ids -> Sockets] /\ sock[i] \in Sockets
  BY DEF TypeInv
<1>2. r \in Seq(1..MaxData) /\ m \in Nat /\ Len(r) \in Nat /\ Len(r) <= m
  BY <1>1, PassedType
<1>3. n \in 0..Len(r)
  BY <1>2 DEF HandOver
<1>4. sock'[i].rx = SubSeq(r, n + 1, Len(r)) /\ sock'[i].sent = m
  BY <1>1 DEF HandOver, Sockets
<1>5. Buffered(r, m)
  BY <1>1 DEF StreamInv
<1> HIDE DEF i, r, m
<1>6. /\ Len(SubSeq(r, n + 1, Len(r))) = Len(r) - n
      /\ Buffered(SubSeq(r, n + 1, Len(r)), m)
  BY <1>2, <1>3, <1>5, HandsOver
<1>7. /\ Buffered(sock'[i].rx, sock'[i].sent)
      /\ Len(sock'[i].rx) = Len(r) - n /\ sock'[i].sent = m
  BY <1>4, <1>6
<1>8. Passed(i) = m - Len(r)
  BY DEF Passed, r, m
<1>9. sock'[i].sent - Len(sock'[i].rx) = Passed(i) + n
  BY <1>2, <1>3, <1>7, <1>8
<1> QED
  BY <1>3, <1>7, <1>9 DEF i, r, m

(* A byte that comes goes to the end of the buffer.                        *)
LEMMA ModemKeeps ==
  ASSUME TypeInv, StreamInv, NEW i \in Ids, ModemStep(i)
  PROVE  /\ Buffered(sock'[i].rx, sock'[i].sent) /\ Passed(i)' = Passed(i)
         /\ sock'[i].state \in {"free", "opening"} => sock'[i].sent = 0 /\ sock'[i].rx = <<>>
<1>0. sock \in [Ids -> Sockets] /\ sock[i] \in Sockets
  BY DEF TypeInv
<1>2. \/ /\ sock'[i].sent = sock[i].sent /\ sock'[i].rx = sock[i].rx
         /\ \/ sock'[i].state \in {"open", "closed"}
            \/ sock'[i].sent = 0 /\ sock'[i].rx = <<>>
      \/ /\ sock'[i].state = "open" /\ sock'[i].sent = sock[i].sent + 1
         /\ sock'[i].sent \in 1..MaxData
         /\ sock'[i].rx = Append(sock[i].rx, sock[i].sent + 1)
  BY <1>0 DEF ModemStep, ModemOpens, ModemOpenFails, PeerSends, PeerCloses, Sockets,
                    StreamInv, FreeSocket
<1>3. /\ sock[i].rx \in Seq(1..MaxData) /\ sock[i].sent \in Nat /\ Len(sock[i].rx) \in Nat
      /\ Buffered(sock[i].rx, sock[i].sent)
  BY PassedType DEF StreamInv
<1>4. Buffered(sock'[i].rx, sock'[i].sent) /\ Passed(i)' = Passed(i)
  <2>1. CASE sock'[i].sent = sock[i].sent /\ sock'[i].rx = sock[i].rx
    BY <1>3, <2>1 DEF Passed
  <2>2. CASE /\ sock'[i].sent = sock[i].sent + 1 /\ sock'[i].sent \in 1..MaxData
             /\ sock'[i].rx = Append(sock[i].rx, sock[i].sent + 1)
    <3> DEFINE r == sock[i].rx
               m == sock[i].sent
    <3>1. r \in Seq(1..MaxData) /\ m \in Nat /\ m + 1 \in 1..MaxData /\ Buffered(r, m)
          /\ Len(r) \in Nat
      BY <1>3, <2>2
    <3> HIDE DEF r, m
    <3>2. Len(Append(r, m + 1)) = Len(r) + 1 /\ Buffered(Append(r, m + 1), m + 1)
      BY <3>1, Comes
    <3>3. sock'[i].rx = Append(r, m + 1) /\ sock'[i].sent = m + 1
          /\ Passed(i) = m - Len(r) /\ Passed(i)' = sock'[i].sent - Len(sock'[i].rx)
      BY <2>2 DEF r, m, Passed
    <3>4. m - Len(r) = (m + 1) - (Len(r) + 1)
      BY <3>1
    <3> QED
      BY <3>2, <3>3, <3>4
  <2> QED
    BY <1>2, <2>1, <2>2
<1> QED
  BY <1>2, <1>4, EmptySeq

LEMMA StreamStep ==
  FreshIds /\ TypeInv /\ OwnInv /\ OpeningInv /\ StreamInv /\ [Next]_vars => StreamInv'
<1> SUFFICES ASSUME FreshIds, TypeInv, OwnInv, OpeningInv, StreamInv, [Next]_vars
             PROVE  StreamInv'
  OBVIOUS
<1>0. /\ pc \in [Tasks -> Labels] /\ id \in [Tasks -> Ids] /\ conn \in [Tasks -> 0..MaxConnects]
      /\ sock \in [Ids -> Sockets] /\ got \in [Tasks -> Seq(1..MaxData)] /\ MaxData \in Nat
  BY TcpSocketsAssumption DEF TcpSocketsAssumption, TypeInv
<1>1. ASSUME NEW t \in Tasks, ByTask(t),
             \A i \in Ids : i # id[t] => sock'[i] = sock[i],
             \A u \in Tasks : u # t => got'[u] = got[u] /\ (u \in failed' <=> u \in failed),
             sock'[id[t]].state \in {"free", "opening"} =>
               sock'[id[t]].sent = 0 /\ sock'[id[t]].rx = <<>>,
             Buffered(sock'[id[t]].rx, sock'[id[t]].sent),
             pc'[t] # "idle" =>
               /\ InOrder(got'[t], Passed(id[t])')
               /\ t \notin failed' => Whole(got'[t], Passed(id[t])')
      PROVE  StreamInv'
  <2>1. id' = id /\ \A u \in Tasks : u # t => pc'[u] = pc[u]
    BY <1>0, <1>1 DEF ByTask
  <2>2. ASSUME NEW i \in Ids
        PROVE  /\ sock'[i].state \in {"free", "opening"} => sock'[i].sent = 0 /\ sock'[i].rx = <<>>
               /\ Buffered(sock'[i].rx, sock'[i].sent)
    BY <1>1, Zenon DEF StreamInv
  <2>3. ASSUME NEW u \in Tasks, pc'[u] # "idle"
        PROVE  /\ InOrder(got'[u], Passed(id[u])')
               /\ u \notin failed' => Whole(got'[u], Passed(id[u])')
    <3>1. CASE u = t
      BY <1>1, <2>3, <3>1
    <3>2. CASE u # t
      <4>1. sock'[id[u]] = sock[id[u]] /\ id[u] \in Ids
        BY <1>0, <1>1, <2>1, <2>3, <3>2, OneOwner
      <4>2. /\ pc[u] # "idle" /\ got'[u] = got[u] /\ (u \in failed' <=> u \in failed)
            /\ Passed(id[u])' = Passed(id[u])
        BY <1>1, <2>1, <2>3, <3>2, <4>1 DEF Passed
      <4>3. InOrder(got[u], Passed(id[u])) /\ (u \notin failed => Whole(got[u], Passed(id[u])))
        BY <4>2 DEF StreamInv
      <4> QED
        BY <4>2, <4>3, Zenon
    <3> QED
      BY <3>1, <3>2
  <2>4. ASSUME NEW u \in Tasks, pc'[u] # "idle"
        PROVE  /\ InOrder(got[u], Passed(id[u]))'
               /\ (u \notin failed)' => Whole(got[u], Passed(id[u]))'
    BY <2>1, <2>3, <2>4 DEF InOrder, Whole, Passed
  <2> QED
    BY <2>2, <2>4 DEF StreamInv, Buffered
<1>2. ASSUME NEW t \in Tasks, Leaves(t) PROVE StreamInv'
  <2>1. ByTask(t) /\ UNCHANGED <<got, failed, sock>> /\ id[t] \in Ids /\ pc[t] # "idle"
    BY <1>0, <1>2 DEF Leaves, ByTask, stream
  <2>2. Passed(id[t])' = Passed(id[t])
    BY <2>1 DEF Passed, ByTask
  <2>3. /\ InOrder(got'[t], Passed(id[t])')
        /\ t \notin failed' => Whole(got'[t], Passed(id[t])')
    BY <2>1, <2>2 DEF StreamInv
  <2> QED
    BY <1>1, <2>1, <2>3 DEF StreamInv
<1>3. ASSUME NEW t \in Tasks, Begins(t) PROVE StreamInv'
  <2>1. /\ ByTask(t) /\ pc[t] # "idle" /\ UNCHANGED <<got, failed, id>> /\ id[t] \in Ids
        /\ sock[id[t]] = FreeSocket
    BY <1>0, <1>3 DEF Begins, ByTask, OpeningInv, stream
  <2>2. /\ \A i \in Ids : i # id[t] => sock'[i] = sock[i]
        /\ sock'[id[t]].sent = 0 /\ sock'[id[t]].rx = <<>>
        /\ sock[id[t]].sent = 0 /\ sock[id[t]].rx = <<>>
    BY <1>0, <1>3, <2>1 DEF Begins, FreeSocket
  <2>3. Passed(id[t])' = Passed(id[t])
    BY <2>1, <2>2 DEF Passed
  <2>4. Buffered(sock[id[t]].rx, sock[id[t]].sent)
    BY <2>1 DEF StreamInv
  <2>5. /\ InOrder(got'[t], Passed(id[t])')
        /\ t \notin failed' => Whole(got'[t], Passed(id[t])')
    BY <2>1, <2>3 DEF StreamInv
  <2>6. Buffered(sock'[id[t]].rx, sock'[id[t]].sent)
    BY <2>2, <2>4
  <2> QED
    BY <1>1, <2>1, <2>2, <2>5, <2>6
<1>4. ASSUME NEW t \in Tasks, Reads(t) \/ Loses(t) PROVE StreamInv'
  <2>1. /\ ByTask(t) /\ pc[t] \in Holding /\ pc[t] # "idle" /\ id' = id /\ id[t] \in Ids
        /\ sock[id[t]].state \in {"open", "closed"}
        /\ sock'[id[t]].state = sock[id[t]].state
        /\ \A i \in Ids : i # id[t] => sock'[i] = sock[i]
        /\ \A u \in Tasks : u # t => got'[u] = got[u] /\ (u \in failed' <=> u \in failed)
    BY <1>4, ReadTouches DEF OpeningInv, ByTask
  <2>2. /\ got[t] \in Seq(1..MaxData) /\ sock[id[t]].rx \in Seq(1..MaxData)
        /\ sock[id[t]].sent \in Nat /\ 1..MaxData \subseteq Nat /\ Passed(id[t]) \in Nat
        /\ Passed(id[t]) = sock[id[t]].sent - Len(sock[id[t]].rx)
        /\ Buffered(sock[id[t]].rx, sock[id[t]].sent)
        /\ InOrder(got[t], Passed(id[t])) /\ (t \notin failed => Whole(got[t], Passed(id[t])))
    BY <1>0, <2>1, PassedType DEF StreamInv, Passed
  <2>3. CASE Reads(t)
    <3>1. PICK n \in Nat : Take(t, n)
      BY <2>3 DEF Reads
    <3>2. /\ n \in 0..Len(sock[id[t]].rx) /\ Buffered(sock'[id[t]].rx, sock'[id[t]].sent)
          /\ Passed(id[t])' = Passed(id[t]) + n
      <4>1. HandOver(t, n)
        BY <3>1 DEF Take
      <4> QED
        BY <2>1, <4>1, LetsGo DEF Passed
    <3>3. got'[t] = got[t] \o SubSeq(sock[id[t]].rx, 1, n) /\ failed' = failed
      BY <1>0, <3>1 DEF Take
    <3>4. /\ InOrder(got'[t], Passed(id[t]) + n)
          /\ t \notin failed => Whole(got'[t], Passed(id[t]) + n)
      <4> DEFINE g == got[t]
                 r == sock[id[t]].rx
                 m == sock[id[t]].sent
                 p == Passed(id[t])
      <4>1. /\ g \in Seq(1..MaxData) /\ r \in Seq(1..MaxData) /\ m \in Nat /\ n \in 0..Len(r)
            /\ Buffered(r, m) /\ InOrder(g, p) /\ (t \notin failed => Whole(g, p))
            /\ p = m - Len(r) /\ got'[t] = g \o SubSeq(r, 1, n)
        BY <2>2, <3>2, <3>3
      <4> HIDE DEF g, r, m, p
      <4>2. /\ InOrder(g, p) => InOrder(g \o SubSeq(r, 1, n), p + n)
            /\ Whole(g, p) => Whole(g \o SubSeq(r, 1, n), p + n)
        BY <2>2, <4>1, Continues
      <4> QED
        BY <4>1, <4>2 DEF p
    <3>5. /\ InOrder(got'[t], Passed(id[t])')
          /\ t \notin failed' => Whole(got'[t], Passed(id[t])')
      BY <3>2, <3>3, <3>4
    <3> QED
      BY <1>1, <2>1, <3>2, <3>5
  <2>4. CASE Loses(t)
    <3>1. t \in failed' /\ got' = got
      BY <2>4 DEF Loses
    <3>2. PICK n \in Nat : /\ Buffered(sock'[id[t]].rx, sock'[id[t]].sent)
                           /\ Passed(id[t])' = Passed(id[t]) + n
      <4>1. CASE UNCHANGED sock
        <5>1. Passed(id[t])' = Passed(id[t]) + 0
          BY <2>1, <2>2, <4>1 DEF Passed
        <5> QED
          BY <2>2, <4>1, <5>1
      <4>2. CASE \E n \in Nat : HandOver(t, n)
        BY <2>1, <4>2, LetsGo DEF Passed
      <4> QED
        BY <2>4, <4>1, <4>2 DEF Loses
    <3>3. InOrder(got'[t], Passed(id[t])')
      BY <2>2, <3>1, <3>2, StaysInOrder
    <3> QED
      BY <1>1, <2>1, <3>1, <3>2, <3>3
  <2> QED
    BY <1>4, <2>3, <2>4
<1>5. ASSUME NEW t \in Tasks, Frees(t) PROVE StreamInv'
  <2>1. /\ ByTask(t) /\ pc'[t] = "idle" /\ UNCHANGED <<got, failed>> /\ id[t] \in Ids
        /\ \A i \in Ids : i # id[t] => sock'[i] = sock[i]
        /\ sock'[id[t]].sent = 0 /\ sock'[id[t]].rx = <<>>
    BY <1>0, <1>5 DEF Frees, FreeSocket, stream
  <2>2. Buffered(sock'[id[t]].rx, sock'[id[t]].sent)
    BY <2>1 DEF Buffered
  <2> QED
    BY <1>1, <2>1, <2>2
<1>6. ASSUME NEW t \in Tasks, NEW c \in Clients, Connect(t, c) PROVE StreamInv'
  <2>1. /\ sock[conns] = FreeSocket /\ conns \in Ids /\ sock' = sock /\ failed' = failed \ {t}
        /\ \A u \in Tasks : /\ u = t => id'[u] = conns /\ got'[u] = <<>>
                            /\ u # t => pc'[u] = pc[u] /\ id'[u] = id[u] /\ got'[u] = got[u]
    BY <1>0, <1>6, ConnectId DEF OpeningInv, TypeInv
  <2>2. ASSUME NEW u \in Tasks, pc'[u] # "idle"
        PROVE  /\ InOrder(got'[u], Passed(id[u])')
               /\ u \notin failed' => Whole(got'[u], Passed(id[u])')
    <3>1. CASE u = t
      <4>1. got'[u] = <<>> /\ Passed(id[u])' = 0
        BY <2>1, <3>1 DEF FreeSocket, Passed
      <4> QED
        BY <4>1 DEF InOrder, Whole
    <3>2. CASE u # t
      <4>1. /\ pc[u] # "idle" /\ got'[u] = got[u] /\ Passed(id[u])' = Passed(id[u])
            /\ (u \in failed' <=> u \in failed)
        BY <2>1, <2>2, <3>2 DEF Passed
      <4>2. InOrder(got[u], Passed(id[u])) /\ (u \notin failed => Whole(got[u], Passed(id[u])))
        BY <4>1 DEF StreamInv
      <4> QED
        BY <4>1, <4>2, Zenon
    <3> QED
      BY <3>1, <3>2
  <2>3. ASSUME NEW u \in Tasks, pc'[u] # "idle"
        PROVE  /\ InOrder(got[u], Passed(id[u]))'
               /\ (u \notin failed)' => Whole(got[u], Passed(id[u]))'
    BY <2>2, <2>3 DEF InOrder, Whole
  <2> QED
    BY <2>1, <2>3 DEF StreamInv, Buffered
<1>7. ASSUME NEW i \in Ids, ModemStep(i) PROVE StreamInv'
  <2>1. UNCHANGED <<pc, id, got, failed>> /\ \A j \in Ids : j # i => sock'[j] = sock[j]
    BY <1>0, <1>7
      DEF ModemStep, ModemOpens, ModemOpenFails, PeerSends, PeerCloses, owner, stream
  <2>4. /\ Buffered(sock'[i].rx, sock'[i].sent) /\ Passed(i)' = Passed(i)
        /\ sock'[i].state \in {"free", "opening"} => sock'[i].sent = 0 /\ sock'[i].rx = <<>>
    BY <1>7, ModemKeeps
  <2>5. \A j \in Ids : Passed(j)' = Passed(j) /\ Buffered(sock'[j].rx, sock'[j].sent)
    <3>1. ASSUME NEW j \in Ids, j # i
          PROVE  Passed(j)' = Passed(j) /\ Buffered(sock'[j].rx, sock'[j].sent)
      BY <2>1, <3>1 DEF Passed, StreamInv
    <3> QED
      BY <2>4, <3>1
  <2>6. ASSUME NEW u \in Tasks, pc'[u] # "idle"
        PROVE  /\ InOrder(got[u], Passed(id[u]))'
               /\ (u \notin failed)' => Whole(got[u], Passed(id[u]))'
    <3>1. pc[u] # "idle" /\ id'[u] = id[u] /\ Passed(id[u])' = Passed(id[u])
          /\ got'[u] = got[u] /\ failed' = failed
      BY <1>0, <2>1, <2>5, <2>6 DEF Passed
    <3>2. InOrder(got[u], Passed(id[u])) /\ (u \notin failed => Whole(got[u], Passed(id[u])))
      BY <3>1 DEF StreamInv
    <3> QED
      BY <3>1, <3>2 DEF InOrder, Whole
  <2>7. \A j \in Ids : sock'[j].state \in {"free", "opening"} => sock'[j].sent = 0 /\ sock'[j].rx = <<>>
    BY <2>1, <2>4 DEF StreamInv
  <2> QED
    BY <2>5, <2>6, <2>7 DEF StreamInv, Buffered
<1>8. CASE UNCHANGED vars
  BY <1>8 DEF vars, owner, stream, StreamInv, Passed
<1> QED
  BY <1>2, <1>3, <1>4, <1>5, <1>6, <1>7, <1>8, EachAffects


LEMMA OwnInit == Init => OwnInv /\ OpeningInv /\ StreamInv
<1> SUFFICES ASSUME Init PROVE OwnInv /\ OpeningInv /\ StreamInv
  OBVIOUS
<1>1. \A i \in Ids : Unheard(i)
  BY DEF Init, Unheard, Never
<1>2. \A i \in Ids : sock[i] = FreeSocket
  BY DEF Init
<1> QED
  BY <1>1, <1>2 DEF Init, OwnInv, OpeningInv, StreamInv, FreeSocket, Holding, Buffered

LEMMA ClosedInit == Init => ClosedInv
<1>1. ASSUME Init, NEW i \in Ids PROVE Unclosed(i)
  BY <1>1 DEF Init, Unclosed, Never
<1>2. Init => \A i \in Ids : sock[i].state = "free"
  BY DEF Init, FreeSocket
<1>3. Init => \A t \in Tasks : pc[t] = "idle"
  BY DEF Init
<1> QED
  BY <1>1, <1>2, <1>3 DEF ClosedInv

LEMMA Owned == TypeInv /\ OwnInv /\ OpeningInv => HandleOwnsSocket
<1> SUFFICES ASSUME TypeInv, OwnInv, OpeningInv, NEW t \in Tasks, pc[t] \in Holding
             PROVE  sock[id[t]].conn = conn[t] /\ sock[id[t]].state \in {"open", "closed"}
  BY DEF HandleOwnsSocket
<1>1. id[t] \in Ids /\ conn[t] \in 0..MaxConnects /\ conns \in Nat /\ pc[t] # "idle"
  BY TcpSocketsAssumption DEF TcpSocketsAssumption, TypeInv, Holding
<1>2. id[t] = conn[t] - 1 /\ sock[id[t]].state \in {"open", "closed"}
  BY <1>1 DEF OwnInv, OpeningInv
<1>3. sock[id[t]].conn = id[t] + 1
  BY <1>1, <1>2 DEF OwnInv
<1> QED
  BY <1>1, <1>2, <1>3 DEF Ids

LEMMA Intact == TypeInv /\ StreamInv => StreamIntact
<1> SUFFICES ASSUME TypeInv, StreamInv, NEW t \in Tasks, pc[t] \in Holding
             PROVE  LET rx == sock[id[t]].rx
                        n == Passed(id[t])
                    IN /\ rx = [k \in 1..Len(rx) |-> n + k]
                       /\ \A k \in DOMAIN got[t] : got[t][k] <= n
                       /\ \A j, k \in DOMAIN got[t] : j < k => got[t][j] < got[t][k]
                       /\ t \notin failed => got[t] = [k \in 1..n |-> k]
  BY DEF StreamIntact
<1> DEFINE rx == sock[id[t]].rx
           n == Passed(id[t])
           g == got[t]
<1>1. /\ id[t] \in Ids /\ pc[t] # "idle" /\ g \in Seq(1..MaxData) /\ rx \in Seq(1..MaxData)
      /\ n = sock[id[t]].sent - Len(rx) /\ Buffered(rx, sock[id[t]].sent)
      /\ InOrder(g, n) /\ (t \notin failed => Whole(g, n))
  BY PassedType DEF TypeInv, StreamInv, Passed, Holding
<1> HIDE DEF g, rx, n
<1>2. /\ DOMAIN g = 1..Len(g) /\ g \in [1..Len(g) -> 1..MaxData]
      /\ rx \in [1..Len(rx) -> 1..MaxData]
  BY <1>1, LenProperties
<1>3. /\ rx = [k \in 1..Len(rx) |-> n + k]
      /\ t \notin failed => g = [k \in 1..n |-> k]
  BY <1>1, <1>2 DEF Buffered, Whole
<1> QED
  BY <1>1, <1>2, <1>3 DEF InOrder, g, rx, n

(* The handle a connect returns is the socket it asked for, open until the *)
(* peer closes it, after any number of lost answers, late results and      *)
(* handles dropped without close, as long as one client has used each id   *)
(* at most once (tcp.rs:151-180, cellular.rs:1895-1910).                   *)
THEOREM HandleOwnsSocketHolds ==
  ASSUME FreshIds
  PROVE  Spec => []HandleOwnsSocket
<1>1. TypeInv /\ OwnInv /\ OpeningInv /\ [Next]_vars => OwnInv' /\ OpeningInv'
  BY FreshIds, OwnStep, OpeningStep
<1> QED
  BY <1>1, TypeInit, TypeStep, OwnInit, Owned, PTL DEF Spec

(* And its stream is in order and at most once, whatever the sizes of the  *)
(* reads, and whole until one of them returns an error (tcp.rs:251-270).   *)
THEOREM StreamIntactHolds ==
  ASSUME FreshIds
  PROVE  Spec => []StreamIntact
<1>1. TypeInv /\ OwnInv /\ OpeningInv /\ StreamInv /\ [Next]_vars
      => OwnInv' /\ OpeningInv' /\ StreamInv'
  BY FreshIds, OwnStep, OpeningStep, StreamStep
<1> QED
  BY <1>1, TypeInit, TypeStep, OwnInit, Intact, PTL DEF Spec
-----------------------------------------------------------------------------
(* The service.  A step changes what one task sees of its socket at most.  *)
Others(t) ==
  \A u \in Tasks : u # t =>
    /\ HandleOf(u)' = HandleOf(u) /\ PeerOf(u)' = PeerOf(u)
    /\ CameOf(u)' = CameOf(u) /\ PassedOf(u)' = PassedOf(u)
    /\ ReadOf(u)' = ReadOf(u) /\ (FailedOf(u)' <=> FailedOf(u))

Same(t) ==
  /\ HandleOf(t)' = HandleOf(t) /\ PeerOf(t)' = PeerOf(t)
  /\ CameOf(t)' = CameOf(t) /\ PassedOf(t)' = PassedOf(t)
  /\ ReadOf(t)' = ReadOf(t) /\ (FailedOf(t)' <=> FailedOf(t))

SocketInv == TypeInv /\ OwnInv /\ OpeningInv /\ ClosedInv /\ StreamInv

LEMMA Unseen ==
  ASSUME NEW t \in Tasks, Others(t), Same(t)
  PROVE  UNCHANGED Service!vars
<1>1. ASSUME NEW u \in Tasks PROVE Same(u)
  BY DEF Others, Same
<1> QED
  BY <1>1 DEF Same, Service!vars

LEMMA EndsSeen ==
  ASSUME NEW t \in Tasks, Others(t), Live(t), ~Live(t)'
  PROVE  Service!Ends(t)
<1>1. /\ HandleOf(t) # "none" /\ HandleOf(t)' = "none" /\ PeerOf(t)' = "silent"
      /\ CameOf(t)' = 0 /\ PassedOf(t)' = 0 /\ ReadOf(t)' = <<>> /\ ~FailedOf(t)'
  BY DEF Live, HandleOf, PeerOf, CameOf, PassedOf, ReadOf, FailedOf
<1> QED
  BY <1>1 DEF Others, Service!Ends

LEMMA OthersSame ==
  ASSUME TypeInv, OwnInv, NEW t \in Tasks, ByTask(t),
         \A i \in Ids : i # id[t] => sock'[i] = sock[i],
         \A u \in Tasks : u # t => got'[u] = got[u] /\ (u \in failed' <=> u \in failed)
  PROVE  Others(t)
<1> SUFFICES ASSUME NEW u \in Tasks, u # t
             PROVE  /\ HandleOf(u)' = HandleOf(u) /\ PeerOf(u)' = PeerOf(u)
                    /\ CameOf(u)' = CameOf(u) /\ PassedOf(u)' = PassedOf(u)
                    /\ ReadOf(u)' = ReadOf(u) /\ (FailedOf(u)' <=> FailedOf(u))
  BY DEF Others
<1>1. /\ pc'[u] = pc[u] /\ id'[u] = id[u] /\ got'[u] = got[u] /\ id[u] \in Ids
      /\ (u \in failed' <=> u \in failed)
  BY DEF TypeInv, ByTask
<1>2. Live(u) => sock'[id[u]] = sock[id[u]]
  BY <1>1, OneOwner DEF Live
<1> QED
  BY <1>1, <1>2 DEF HandleOf, PeerOf, CameOf, PassedOf, Passed, ReadOf, FailedOf, Live

LEMMA ServiceInit == Init => Service!Init
BY DEF Init, HandleOf, PeerOf, CameOf, PassedOf, Passed, ReadOf, FailedOf, Live,
       Service!Init

LEMMA LeavesSeen ==
  ASSUME SocketInv, NEW t \in Tasks, Leaves(t)
  PROVE  [Service!Next]_(Service!vars)
<1>1. /\ ByTask(t) /\ pc[t] # "idle" /\ Advances(t) /\ UNCHANGED <<got, failed, sock, id>>
      /\ pc[t] \in Labels
  BY DEF Leaves, ByTask, SocketInv, TypeInv, stream
<1>2. Others(t)
  BY <1>1, OthersSame DEF SocketInv
<1>3. CASE Live(t) /\ ~Live(t)'
  BY <1>2, <1>3, EndsSeen DEF Service!Next
<1>4. CASE ~Live(t) /\ ~Live(t)'
  <2>1. Same(t)
    BY <1>4 DEF Same, HandleOf, PeerOf, CameOf, PassedOf, Passed, ReadOf, FailedOf, Live
  <2> QED
    BY <1>2, <2>1, Unseen
<1>5. CASE Live(t) /\ Live(t)' /\ HandleOf(t)' = HandleOf(t)
  <2>1. Same(t)
    BY <1>1, <1>5 DEF Same, PeerOf, CameOf, PassedOf, Passed, ReadOf, FailedOf
  <2> QED
    BY <1>2, <2>1, Unseen
<1>6. CASE pc[t] = "openWait" /\ pc'[t] = "open"
  <2>1. sock[id[t]].state \in {"open", "closed"}
    BY <1>1, <1>6 DEF SocketInv, OpeningInv, Advances, Told, Unheard, Never, Holding
  <2>2. /\ HandleOf(t) = "connecting" /\ HandleOf(t)' = "open" /\ PeerOf(t) # "silent"
        /\ PeerOf(t)' = PeerOf(t) /\ CameOf(t)' = CameOf(t) /\ PassedOf(t)' = PassedOf(t)
        /\ ReadOf(t)' = ReadOf(t) /\ (FailedOf(t)' <=> FailedOf(t))
    BY <1>1, <1>6, <2>1
       DEF HandleOf, PeerOf, CameOf, PassedOf, Passed, ReadOf, FailedOf, Live
  <2>3. Service!Connected(t)
    BY <1>2, <2>2 DEF Others, Service!Connected
  <2> QED
    BY <2>3 DEF Service!Next
<1>7. \/ Live(t) /\ ~Live(t)'
      \/ ~Live(t) /\ ~Live(t)'
      \/ Live(t) /\ Live(t)' /\ HandleOf(t)' = HandleOf(t)
      \/ pc[t] = "openWait" /\ pc'[t] = "open"
  BY <1>1 DEF Advances, Stays, Live, HandleOf, Holding, Labels, Exchanging
<1> QED
  BY <1>3, <1>4, <1>5, <1>6, <1>7

LEMMA BeginsSeen ==
  ASSUME SocketInv, NEW t \in Tasks, Begins(t)
  PROVE  [Service!Next]_(Service!vars)
<1>1. /\ ByTask(t) /\ pc[t] = "openSend" /\ pc'[t] \in {"openWait", "idle"}
      /\ UNCHANGED <<got, failed, id>> /\ id[t] \in Ids /\ sock[id[t]] = FreeSocket
      /\ sock \in [Ids -> Sockets]
  BY DEF Begins, ByTask, SocketInv, TypeInv, OpeningInv, stream
<1>2. /\ \A i \in Ids : i # id[t] => sock'[i] = sock[i]
      /\ sock'[id[t]].state = "opening" /\ sock'[id[t]].sent = 0 /\ sock'[id[t]].rx = <<>>
      /\ sock[id[t]].state = "free" /\ sock[id[t]].sent = 0 /\ sock[id[t]].rx = <<>>
  BY <1>1 DEF Begins, FreeSocket
<1>3. Others(t)
  BY <1>1, <1>2, OthersSame DEF SocketInv
<1>4. CASE pc'[t] = "idle"
  <2>1. Service!Ends(t)
    BY <1>1, <1>3, <1>4, EndsSeen DEF Live
  <2> QED
    BY <2>1 DEF Service!Next
<1>5. CASE pc'[t] = "openWait"
  <2>1. Same(t)
    BY <1>1, <1>2, <1>5
       DEF Same, HandleOf, PeerOf, CameOf, PassedOf, Passed, ReadOf, FailedOf, Live
  <2> QED
    BY <1>3, <2>1, Unseen
<1> QED
  BY <1>1, <1>4, <1>5

LEMMA FreesSeen ==
  ASSUME SocketInv, NEW t \in Tasks, Frees(t)
  PROVE  [Service!Next]_(Service!vars)
<1>1. /\ ByTask(t) /\ pc'[t] = "idle" /\ UNCHANGED <<got, failed>>
      /\ \A i \in Ids : i # id[t] => sock'[i] = sock[i]
  BY DEF Frees, SocketInv, TypeInv, stream
<1>2. Others(t)
  BY <1>1, OthersSame DEF SocketInv
<1>3. CASE Live(t)
  <2>1. Service!Ends(t)
    BY <1>1, <1>2, <1>3, EndsSeen DEF Live
  <2> QED
    BY <2>1 DEF Service!Next
<1>4. CASE ~Live(t)
  <2>1. Same(t)
    BY <1>1, <1>4
       DEF Same, HandleOf, PeerOf, CameOf, PassedOf, Passed, ReadOf, FailedOf, Live
  <2> QED
    BY <1>2, <2>1, Unseen
<1> QED
  BY <1>3, <1>4

(* A read returns the next bytes of the stream, or nothing at its end.     *)
LEMMA ReadsSeen ==
  ASSUME SocketInv, NEW t \in Tasks, Reads(t)
  PROVE  [Service!Next]_(Service!vars)
<1> DEFINE i == id[t]
           s == sock[i]
<1>1. /\ ByTask(t) /\ pc[t] \in {"readRecv", "readLast"} /\ pc'[t] \in {"open", "eof"}
      /\ id' = id /\ i \in Ids /\ s.state \in {"open", "closed"}
      /\ s.rx \in Seq(1..MaxData) /\ s.sent \in Nat /\ got[t] \in Seq(1..MaxData)
      /\ Len(s.rx) \in Nat /\ Passed(i) \in Nat /\ Passed(i) = s.sent - Len(s.rx)
      /\ got \in [Tasks -> Seq(1..MaxData)] /\ Buffered(s.rx, s.sent) /\ 1..MaxData \subseteq Nat
  BY PassedType
     DEF Reads, ByTask, SocketInv, TypeInv, OpeningInv, StreamInv, Holding, Passed
<1>2. /\ sock'[i].state = s.state /\ sock'[i].sent = s.sent
      /\ \A j \in Ids : j # i => sock'[j] = sock[j]
      /\ \A u \in Tasks : u # t => got'[u] = got[u] /\ (u \in failed' <=> u \in failed)
  BY ReadTouches DEF SocketInv
<1>3. Others(t)
  BY <1>1, <1>2, OthersSame DEF SocketInv
<1>4. PICK n \in Nat :
        /\ Take(t, n)
        /\ \/ n > 0 /\ pc'[t] = "open"
           \/ n = 0 /\ s.rx = <<>> /\ pc[t] = "readLast" /\ pc'[t] = "eof"
  BY DEF Reads
<1>5. /\ n \in 0..Len(s.rx) /\ Passed(i)' = Passed(i) + n /\ failed' = failed
      /\ got'[t] = got[t] \o SubSeq(s.rx, 1, n)
  <2>1. HandOver(t, n) /\ failed' = failed /\ got'[t] = got[t] \o SubSeq(s.rx, 1, n)
    BY <1>1, <1>4 DEF Take
  <2>2. TypeInv /\ StreamInv
    BY DEF SocketInv
  <2> QED
    BY <1>1, <2>1, <2>2, LetsGo DEF Passed
<1>6. SubSeq(s.rx, 1, n) = [k \in 1..n |-> Passed(i) + k]
  <2> DEFINE r == s.rx
             m == s.sent
             p == Passed(i)
             g == got[t]
  <2>1. /\ r \in Seq(1..MaxData) /\ m \in Nat /\ n \in 0..Len(r) /\ Buffered(r, m)
        /\ p = m - Len(r) /\ g \in Seq(1..MaxData)
    BY <1>1, <1>5
  <2> HIDE DEF r, m, p, g
  <2>2. SubSeq(r, 1, n) = [k \in 1..n |-> p + k]
    <3> DEFINE S == 1..MaxData
    <3>1. S \subseteq Nat /\ r \in Seq(S) /\ g \in Seq(S)
      BY <1>1, <2>1
    <3> HIDE DEF S
    <3> DEFINE q == SubSeq(r, 1, n)
    <3>2. q \in Seq(S) /\ Len(q) = n /\ \A k \in 1..n : q[k] = (m - Len(r)) + k
      BY <2>1, <3>1, FirstBytes
    <3> HIDE DEF q
    <3>3. q \in [1..n -> S] /\ \A k \in 1..n : q[k] = p + k
      BY <2>1, <3>2, LenProperties
    <3>4. q = [k \in 1..n |-> p + k]
      BY <3>3
    <3> QED
      BY <3>4 DEF q
  <2> QED
    BY <2>2 DEF r, p
<1>7. /\ HandleOf(t) = "open" /\ PeerOf(t) = s.state /\ PeerOf(t)' = s.state
      /\ CameOf(t) = s.sent /\ CameOf(t)' = s.sent
      /\ PassedOf(t) = Passed(i) /\ PassedOf(t)' = Passed(i) + n
      /\ ReadOf(t) = got[t] /\ ReadOf(t)' = got'[t] /\ (FailedOf(t)' <=> FailedOf(t))
  <2>1. Live(t) /\ Live(t)' /\ id'[t] = i
    BY <1>1 DEF Live
  <2>2. PassedOf(t)' = Passed(i)'
    BY <1>1, <2>1 DEF PassedOf, Passed
  <2> QED
    BY <1>1, <1>2, <1>5, <2>1, <2>2
       DEF HandleOf, PeerOf, CameOf, PassedOf, ReadOf, FailedOf
<1> HIDE DEF s, i
<1>8. CASE n > 0 /\ pc'[t] = "open"
  <2>1. HandleOf(t)' = "open"
    BY <1>8 DEF HandleOf
  <2>2. n \in 1..(CameOf(t) - PassedOf(t))
    BY <1>1, <1>5, <1>7, <1>8
  <2>3. ReadOf(t)' = ReadOf(t) \o Service!Bytes(PassedOf(t), n)
    BY <1>5, <1>6, <1>7 DEF Service!Bytes
  <2>4. Service!Read(t)
    BY <1>3, <1>7, <2>1, <2>2, <2>3 DEF Others, Service!Read
  <2> QED
    BY <2>4 DEF Service!Next
<1>9. CASE n = 0 /\ s.rx = <<>> /\ pc[t] = "readLast" /\ pc'[t] = "eof"
  <2>1. s.state = "closed"
    BY <1>9 DEF SocketInv, ClosedInv, s, i
  <2>2. PassedOf(t) = CameOf(t) /\ PassedOf(t)' = PassedOf(t)
    BY <1>1, <1>7, <1>9
  <2>3. ReadOf(t)' = ReadOf(t)
    BY <1>1, <1>5, <1>7, <1>9, SubSeqEmpty, ConcatEmptySeq
  <2>4. HandleOf(t)' = "eof"
    BY <1>9 DEF HandleOf
  <2>5. Service!EndOfFile(t)
    BY <1>3, <1>7, <2>1, <2>2, <2>3, <2>4 DEF Others, Service!EndOfFile
  <2> QED
    BY <2>5 DEF Service!Next
<1> QED
  BY <1>4, <1>8, <1>9

(* A read that fails loses what had left the modem.                        *)
LEMMA LosesSeen ==
  ASSUME SocketInv, NEW t \in Tasks, Loses(t)
  PROVE  [Service!Next]_(Service!vars)
<1> DEFINE i == id[t]
           s == sock[i]
<1>1. /\ ByTask(t) /\ pc[t] \in {"readRecv", "readLast"} /\ pc'[t] = "open"
      /\ id' = id /\ i \in Ids /\ s.sent \in Nat /\ Len(s.rx) \in Nat
      /\ Passed(i) \in Nat /\ Passed(i) = s.sent - Len(s.rx)
      /\ failed' = failed \cup {t} /\ got' = got
  BY PassedType DEF Loses, ByTask, SocketInv, TypeInv, Passed
<1>2. /\ sock'[i].state = s.state /\ sock'[i].sent = s.sent
      /\ \A j \in Ids : j # i => sock'[j] = sock[j]
      /\ \A u \in Tasks : u # t => got'[u] = got[u] /\ (u \in failed' <=> u \in failed)
  BY ReadTouches DEF SocketInv
<1>3. Others(t)
  BY <1>1, <1>2, OthersSame DEF SocketInv
<1>4. PICK n \in Nat : n \in 0..Len(s.rx) /\ Passed(i)' = Passed(i) + n
  <2>1. CASE UNCHANGED sock
    <3>1. 0 \in 0..Len(s.rx) /\ Passed(i)' = Passed(i) + 0
      BY <1>1, <2>1 DEF Passed
    <3> QED
      BY <3>1
  <2>2. CASE \E n \in Nat : HandOver(t, n)
    <3>1. TypeInv /\ StreamInv
      BY DEF SocketInv
    <3> QED
      BY <1>1, <2>2, <3>1, LetsGo DEF Passed
  <2> QED
    BY <2>1, <2>2 DEF Loses
<1>5. Live(t) /\ Live(t)' /\ id'[t] = i
  BY <1>1 DEF Live
<1>6. /\ HandleOf(t) = "open" /\ HandleOf(t)' = "open" /\ PeerOf(t)' = PeerOf(t)
      /\ CameOf(t) = s.sent /\ CameOf(t)' = CameOf(t) /\ PassedOf(t) = Passed(i)
      /\ ReadOf(t)' = ReadOf(t) /\ FailedOf(t)'
  BY <1>1, <1>2, <1>5 DEF HandleOf, PeerOf, CameOf, PassedOf, ReadOf, FailedOf
<1>7. PassedOf(t)' = PassedOf(t) + n
  BY <1>1, <1>4, <1>5, <1>6 DEF PassedOf, Passed
<1>8. n \in 0..(CameOf(t) - PassedOf(t))
  BY <1>1, <1>4, <1>6
<1> HIDE DEF s, i
<1>9. Service!ReadFails(t)
  BY <1>3, <1>6, <1>7, <1>8 DEF Others, Service!ReadFails
<1> QED
  BY <1>9 DEF Service!Next

LEMMA ConnectSeen ==
  ASSUME FreshIds, SocketInv, NEW t \in Tasks, NEW c \in Clients, Connect(t, c)
  PROVE  [Service!Next]_(Service!vars)
<1>1. /\ pc[t] = "idle" /\ pc' = [pc EXCEPT ![t] = "openLock"]
      /\ id' = [id EXCEPT ![t] = conns] /\ got' = [got EXCEPT ![t] = <<>>]
      /\ failed' = failed \ {t} /\ UNCHANGED sock /\ sock[conns] = FreeSocket
      /\ pc \in [Tasks -> Labels] /\ id \in [Tasks -> Ids] /\ got \in [Tasks -> Seq(1..MaxData)]
  <2>1. TypeInv /\ OwnInv /\ OpeningInv
    BY DEF SocketInv
  <2>2. /\ pc \in [Tasks -> Labels] /\ id \in [Tasks -> Ids]
        /\ got \in [Tasks -> Seq(1..MaxData)] /\ conns \in Nat
    BY <2>1, TcpSocketsAssumption DEF TypeInv, TcpSocketsAssumption
  <2> QED
    BY <2>1, <2>2, ConnectId DEF OpeningInv
<1>2. Others(t)
  <2>1. ASSUME NEW u \in Tasks, u # t
        PROVE  /\ pc'[u] = pc[u] /\ id'[u] = id[u] /\ got'[u] = got[u] /\ sock' = sock
               /\ (u \in failed' <=> u \in failed)
    BY <1>1, <2>1
  <2> QED
    BY <2>1
       DEF Others, HandleOf, PeerOf, CameOf, PassedOf, Passed, ReadOf, FailedOf, Live
<1>3. /\ HandleOf(t) = "none" /\ HandleOf(t)' = "connecting"
      /\ PeerOf(t) = "silent" /\ PeerOf(t)' = "silent" /\ CameOf(t) = 0 /\ CameOf(t)' = 0
      /\ PassedOf(t) = 0 /\ PassedOf(t)' = 0 /\ ReadOf(t) = <<>> /\ ReadOf(t)' = <<>>
      /\ ~FailedOf(t) /\ ~FailedOf(t)'
  BY <1>1
     DEF HandleOf, PeerOf, CameOf, PassedOf, Passed, ReadOf, FailedOf, Live, FreeSocket
<1>4. Service!Connect(t)
  BY <1>2, <1>3 DEF Others, Service!Connect
<1> QED
  BY <1>4 DEF Service!Next

(* What the modem does to a socket, its owner sees, and nobody else.       *)
LEMMA ModemSeen ==
  ASSUME SocketInv, NEW i \in Ids, ModemStep(i)
  PROVE  [Service!Next]_(Service!vars)
<1>1. /\ UNCHANGED <<pc, id, got, failed>> /\ id \in [Tasks -> Ids] /\ pc \in [Tasks -> Labels]
      /\ \A j \in Ids : j # i => sock'[j] = sock[j]
      /\ sock[i] \in Sockets /\ sock \in [Ids -> Sockets]
  BY DEF ModemStep, stream, ModemOpens, ModemOpenFails, PeerSends, PeerCloses, owner,
         SocketInv, TypeInv
<1>2. ASSUME NEW u \in Tasks, ~Live(u) \/ id[u] # i PROVE Same(u)
  <2>1. Live(u) => sock'[id[u]] = sock[id[u]]
    BY <1>1, <1>2
  <2> QED
    BY <1>1, <2>1
       DEF Same, HandleOf, PeerOf, CameOf, PassedOf, Passed, ReadOf, FailedOf, Live
<1>3. CASE \A u \in Tasks : ~Live(u) \/ id[u] # i
  BY <1>2, <1>3 DEF Same, Service!vars
<1>4. ASSUME NEW t \in Tasks, Live(t), id[t] = i
      PROVE  [Service!Next]_(Service!vars)
  <2>1. Others(t)
    <3>1. \A u \in Tasks : u # t => ~Live(u) \/ id[u] # i
      BY <1>4 DEF SocketInv, OwnInv, Live
    <3> QED
      BY <1>2, <3>1 DEF Others, Same
  <2>2. /\ HandleOf(t)' = HandleOf(t) /\ ReadOf(t)' = ReadOf(t)
        /\ (FailedOf(t)' <=> FailedOf(t)) /\ Live(t)' /\ id'[t] = i
        /\ PassedOf(t) = Passed(i) /\ PassedOf(t)' = Passed(i)'
    BY <1>1, <1>4 DEF HandleOf, ReadOf, FailedOf, PassedOf, Passed, Live
  <2>0. PassedOf(t)' = PassedOf(t)
    BY <2>2, ModemKeeps DEF SocketInv
  <2>3. CASE ModemOpens(i)
    <3>1. /\ sock[i].state = "opening" /\ sock'[i].state = "open" /\ sock'[i].sent = sock[i].sent
          /\ HandleOf(t) = "connecting"
      BY <1>1, <1>4, <2>3
         DEF ModemOpens, stream, Sockets, SocketInv, OpeningInv, HandleOf, Live, Labels,
             Holding, Exchanging
    <3>2. PeerOf(t) = "silent" /\ PeerOf(t)' = "open" /\ CameOf(t)' = CameOf(t)
      BY <1>4, <2>2, <3>1 DEF PeerOf, CameOf
    <3>3. Service!PeerAccepts(t)
      BY <2>0, <2>1, <2>2, <3>1, <3>2 DEF Others, Service!PeerAccepts
    <3> QED
      BY <3>3 DEF Service!Next
  <2>4. CASE ModemOpenFails(i)
    <3>1. sock[i].state = "opening" /\ sock[i].sent = 0 /\ sock'[i] = FreeSocket
      BY <1>1, <2>4 DEF ModemOpenFails, stream, SocketInv, StreamInv
    <3>2. PeerOf(t)' = PeerOf(t) /\ CameOf(t)' = CameOf(t)
      BY <1>4, <2>2, <3>1 DEF PeerOf, CameOf, FreeSocket
    <3> QED
      BY <2>0, <2>1, <2>2, <3>2, Unseen DEF Same
  <2>5. CASE PeerSends(i)
    <3>1. /\ sock[i].state = "open" /\ sock'[i].state = "open"
          /\ sock[i].sent < MaxData /\ sock'[i].sent = sock[i].sent + 1
      BY <1>1, <2>5 DEF PeerSends, stream, Sockets
    <3>2. /\ PeerOf(t) = "open" /\ PeerOf(t)' = "open" /\ CameOf(t) < MaxData
          /\ CameOf(t)' = CameOf(t) + 1
      BY <1>4, <2>2, <3>1 DEF PeerOf, CameOf
    <3>3. Service!PeerSends(t)
      BY <2>0, <2>1, <2>2, <3>2 DEF Others, Service!PeerSends
    <3> QED
      BY <3>3 DEF Service!Next
  <2>6. CASE PeerCloses(i)
    <3>1. sock[i].state = "open" /\ sock'[i].state = "closed" /\ sock'[i].sent = sock[i].sent
      BY <1>1, <2>6 DEF PeerCloses, stream, Sockets
    <3>2. PeerOf(t) = "open" /\ PeerOf(t)' = "closed" /\ CameOf(t)' = CameOf(t)
      BY <1>4, <2>2, <3>1 DEF PeerOf, CameOf
    <3>3. Service!PeerCloses(t)
      BY <2>0, <2>1, <2>2, <3>2 DEF Others, Service!PeerCloses
    <3> QED
      BY <3>3 DEF Service!Next
  <2> QED
    BY <2>3, <2>4, <2>5, <2>6 DEF ModemStep, stream
<1> QED
  BY <1>3, <1>4

LEMMA SocketStep ==
  FreshIds /\ SocketInv /\ [Next]_vars => SocketInv' /\ [Service!Next]_(Service!vars)
<1> SUFFICES ASSUME FreshIds, SocketInv, [Next]_vars
             PROVE  SocketInv' /\ [Service!Next]_(Service!vars)
  OBVIOUS
<1>1. SocketInv'
  BY TypeStep, OwnStep, OpeningStep, ClosedStep, StreamStep DEF SocketInv
<1>2. ASSUME UNCHANGED vars PROVE [Service!Next]_(Service!vars)
  <2>1. UNCHANGED <<pc, id, got, failed, sock>>
    BY <1>2 DEF vars, stream, owner
  <2> QED
    BY <2>1
       DEF Service!vars, HandleOf, PeerOf, CameOf, PassedOf, Passed, ReadOf, FailedOf,
           Live
<1>3. [Service!Next]_(Service!vars)
  <2>1. ASSUME NEW t \in Tasks, Reads(t) \/ Loses(t) PROVE [Service!Next]_(Service!vars)
    BY <2>1, ReadsSeen, LosesSeen
  <2>2. TypeInv
    BY DEF SocketInv
  <2> QED
    BY <1>2, <2>1, <2>2, EachAffects, LeavesSeen, BeginsSeen, FreesSeen, ConnectSeen,
       ModemSeen
<1> QED
  BY <1>1, <1>3

(* Every handle is a stream of its own, of which only a read that returns  *)
(* an error loses bytes, and its end of file is the peer's close after     *)
(* nothing was left (tcp.rs:237-274), whatever the sizes of the reads, the *)
(* tasks, the faults and the URCs that come late.                          *)
THEOREM SocketImplementation ==
  ASSUME FreshIds
  PROVE  Spec => ImplementsSocketService
<1>1. SocketInv /\ [Next]_vars => SocketInv' /\ [Service!Next]_(Service!vars)
  BY FreshIds, SocketStep
<1>2. Init => SocketInv
  BY TypeInit, OwnInit, ClosedInit DEF SocketInv
<1> QED
  BY <1>1, <1>2, ServiceInit, PTL DEF Spec, Service!Spec, ImplementsSocketService
=============================================================================
