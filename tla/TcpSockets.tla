----------------------------- MODULE TcpSockets -----------------------------
(***************************************************************************)
(* QuectelTcpClient and ModemSocket (src/src/tcp.rs) over the socket       *)
(* functions of QuectelBG9X (src/src/cellular.rs): tasks that connect,     *)
(* read, write and close sockets of one modem shared behind a mutex, the   *)
(* modem that runs the sockets, and the URC channel that carries its       *)
(* results.  A step is what a task does between two awaits.                *)
(***************************************************************************)
EXTENDS Naturals, FiniteSets, Sequences

CONSTANTS
  Tasks, Clients,  (* callers, and the QuectelTcpClients over the modem     *)
  Transport,       (* "Tcp" or "Tls", of every client                       *)
  IdSpace,         (* values of next_id: 256                                *)
  ModemIds,        (* socket identifiers of the modem: 12                   *)
  MaxRecv,         (* bytes one QIRD returns at most: 512                   *)
  MaxConnects,     (* bound: calls of connect                               *)
  MaxData,         (* bound: bytes a peer sends on one connection           *)
  MaxChunks,       (* bound: 256-byte chunks of one write                   *)
  MaxWrites,       (* bound: calls of write                                 *)
  MaxFaults        (* bound: failures and handles dropped without close     *)

ASSUME TcpSocketsAssumption ==
  /\ Transport \in {"Tcp", "Tls"}
  /\ IdSpace \in Nat \ {0} /\ ModemIds \in 1..IdSpace /\ MaxRecv \in Nat \ {0}
  /\ {MaxConnects, MaxData, MaxChunks, MaxWrites, MaxFaults} \subseteq Nat
  /\ {"free", "socket_sub"} \cap Tasks = {}

VARIABLES
  nextId,    (* next_id of each client                                      *)
  lock,      (* the task that holds the modem's mutex, or "free"            *)
  pc,        (* where each task is                                          *)
  id,        (* client_id of its ModemSocket, or of the one it is opening   *)
  conn,      (* the call of connect it stems from: names the remote address *)
  got,       (* bytes its reads have returned                               *)
  failed,    (* tasks to which a read of the present handle returned Err    *)
  chunks,    (* left to send of the write in progress                       *)
  subs,      (* the URC channel's subscribers: tasks, or socket_sub       *)
  heard,     (* URCs waiting in each                                        *)
  sock,      (* the modem's sockets                                         *)
  prompt,    (* the modem's mode for what comes over the UART next: for a   *)
             (* command, for announced data, or for data that was cut off   *)
  conns, writes, faults

owner == <<nextId, lock, pc, id, conn>>
stream == <<got, failed>>
channel == <<subs, heard>>
bounds == <<conns, writes, faults>>
vars == <<owner, stream, chunks, channel, sock, prompt, bounds>>

Ids == 0..(IdSpace - 1)
Subscribers == Tasks \cup {"socket_sub"}
FreeSocket == [state |-> "free", conn |-> 0, sent |-> 0, rx |-> <<>>]

Init ==
  /\ nextId = [c \in Clients |-> 0] /\ lock = "free"
  /\ pc = [t \in Tasks |-> "idle"] /\ id = [t \in Tasks |-> 0]
  /\ conn = [t \in Tasks |-> 0] /\ got = [t \in Tasks |-> <<>>]
  /\ failed = {} /\ chunks = [t \in Tasks |-> 0]
  /\ subs = {} /\ heard = [u \in Subscribers |-> <<>>]
  /\ sock = [i \in Ids |-> FreeSocket] /\ prompt = "command"
  /\ conns = 0 /\ writes = 0 /\ faults = 0

Goto(t, label) == pc' = [pc EXCEPT ![t] = label]
Lock(t) == lock = "free" /\ lock' = t
Unlock == lock' = "free"
Fault == faults < MaxFaults /\ faults' = faults + 1

(* While the modem waits for the rest of announced data it takes whatever  *)
(* comes for it, answers none of it, and may have all it wants with it.    *)
Heeded == prompt = "command" /\ UNCHANGED prompt
Swallowed == prompt # "command" /\ prompt' \in {"command", prompt}
-----------------------------------------------------------------------------
(* The URC channel: a message reaches the subscribers that exist when it   *)
(* is published.                                                           *)
OpenUrc(i, err) == [urc |-> "open", id |-> i, err |-> err]
ClosedUrc(i) == [urc |-> "closed", id |-> i, err |-> 0]

Publish(m) ==
  /\ heard' = [u \in Subscribers |->
                 IF u \in subs THEN Append(heard[u], m) ELSE heard[u]]
  /\ UNCHANGED subs

Subscribe(u) ==
  subs' = subs \cup {u} /\ heard' = [heard EXCEPT ![u] = <<>>]

Unsubscribe(u) ==
  subs' = subs \ {u} /\ heard' = [heard EXCEPT ![u] = <<>>]
-----------------------------------------------------------------------------
(* connect: the identifier is taken before anything can fail.              *)
Connect(t, c) ==
  /\ pc[t] = "idle" /\ conns < MaxConnects
  /\ conns' = conns + 1
  /\ id' = [id EXCEPT ![t] = nextId[c]]
  /\ nextId' = [nextId EXCEPT ![c] = (@ + 1) % IdSpace]
  /\ conn' = [conn EXCEPT ![t] = conns + 1]
  /\ got' = [got EXCEPT ![t] = <<>>] /\ failed' = failed \ {t}
  /\ Goto(t, "openLock")
  /\ UNCHANGED <<lock, chunks, channel, sock, prompt, writes, faults>>

(* tcp_socket_open subscribes for the call, ssl_socket_open replaces       *)
(* socket_sub and leaves it subscribed.                                    *)
OpenSub(t) == IF Transport = "Tcp" THEN t ELSE "socket_sub"

OpenLock(t) ==
  /\ pc[t] = "openLock" /\ Lock(t)
  /\ Subscribe(OpenSub(t))
  /\ Goto(t, "openSend")
  /\ UNCHANGED <<nextId, id, conn, stream, chunks, sock, prompt, bounds>>

OpenFails(t) ==
  /\ Goto(t, "idle") /\ Unlock
  /\ \/ Transport = "Tcp" /\ Unsubscribe(t)
     \/ Transport = "Tls" /\ UNCHANGED channel

(* The modem takes the command, or tells by URC that the identifier is in  *)
(* use.                                                                    *)
OpenAccepted(t) ==
  /\ pc[t] = "openSend" /\ id[t] < ModemIds /\ Heeded
  /\ \/ /\ sock[id[t]].state = "free"
        /\ sock' = [sock EXCEPT ![id[t]] =
                      [FreeSocket EXCEPT !.state = "opening", !.conn = conn[t]]]
        /\ UNCHANGED channel
     \/ /\ sock[id[t]].state # "free"
        /\ Publish(OpenUrc(id[t], 563))
        /\ UNCHANGED sock
  /\ Goto(t, "openWait")
  /\ UNCHANGED <<nextId, lock, id, conn, stream, chunks, bounds>>

(* ERROR for an identifier out of range or in use, and ERROR or no answer  *)
(* for no such reason; without an answer the modem may be opening.         *)
OpenRefused(t) ==
  /\ pc[t] = "openSend"
  /\ \/ Swallowed /\ UNCHANGED <<sock, faults>>
     \/ /\ Heeded /\ (id[t] >= ModemIds \/ sock[id[t]].state # "free")
        /\ UNCHANGED <<sock, faults>>
     \/ Heeded /\ Fault /\ UNCHANGED sock
     \/ /\ Heeded /\ Fault /\ id[t] < ModemIds /\ sock[id[t]].state = "free"
        /\ sock' = [sock EXCEPT ![id[t]] =
                      [FreeSocket EXCEPT !.state = "opening", !.conn = conn[t]]]
  /\ OpenFails(t)
  /\ UNCHANGED <<nextId, id, conn, stream, chunks, conns, writes>>

(* One message per round of 200 ms: ours ends the call, any other is       *)
(* dropped.                                                                *)
IsOurs_AnyId(t, m) == m.urc = "open"
IsOurs(t, m) == m.urc = "open" /\ m.id = id[t]

OpenPoll(t) ==
  /\ pc[t] = "openWait" /\ heard[OpenSub(t)] # <<>>
  /\ LET m == Head(heard[OpenSub(t)]) IN
     \/ /\ ~IsOurs(t, m)
        /\ heard' = [heard EXCEPT ![OpenSub(t)] = Tail(@)]
        /\ UNCHANGED <<subs, lock, pc>>
     \/ /\ IsOurs(t, m)
        /\ Goto(t, IF m.err = 0 THEN "open" ELSE "idle") /\ Unlock
        /\ \/ Transport = "Tcp" /\ Unsubscribe(t)
           \/ /\ Transport = "Tls" /\ UNCHANGED subs
              /\ heard' = [heard EXCEPT ![OpenSub(t)] = Tail(@)]
  /\ UNCHANGED <<nextId, id, conn, stream, chunks, sock, prompt, bounds>>

(* 30 s without a result: whatever the modem does next is nobody's.        *)
OpenTimeout(t) ==
  /\ pc[t] = "openWait" /\ Fault
  /\ OpenFails(t)
  /\ UNCHANGED <<nextId, id, conn, stream, chunks, sock, prompt, conns,
                 writes>>
-----------------------------------------------------------------------------
(* read: a round takes the lock, asks for data, and if there is none polls *)
(* for the peer's close with a subscriber of its own.                      *)
ReadLock_PollsOnly(t) ==
  /\ pc[t] \in {"open", "readDelay"} /\ Lock(t)
  /\ Goto(t, IF pc[t] = "open" THEN "readRecv" ELSE "pollSubscribe")
  /\ UNCHANGED <<nextId, id, conn, stream, chunks, channel, sock, prompt, bounds>>

ReadLock(t) ==
  /\ pc[t] \in {"open", "readDelay"} /\ Lock(t)
  /\ Goto(t, "readRecv")
  /\ UNCHANGED <<nextId, id, conn, stream, chunks, channel, sock, prompt, bounds>>

(* tcp_socket_recv and ssl_socket_recv: up to MaxRecv bytes, fewer when    *)
(* the caller's buffer is smaller, leave the modem.                        *)
HandOver(t, n) ==
  /\ n <= MaxRecv /\ n <= Len(sock[id[t]].rx)
  /\ sock' = [sock EXCEPT ![id[t]].rx = SubSeq(@, n + 1, Len(@))]

Take(t, n) ==
  /\ HandOver(t, n)
  /\ got' = [got EXCEPT ![t] = @ \o SubSeq(sock[id[t]].rx, 1, n)]
  /\ UNCHANGED failed

ReadData(t, n) ==
  /\ pc[t] = "readRecv" /\ n > 0 /\ Heeded
  /\ Take(t, n)
  /\ Goto(t, "open") /\ Unlock
  /\ UNCHANGED <<nextId, id, conn, chunks, channel, bounds>>

ReadEmpty(t) ==
  /\ pc[t] = "readRecv" /\ sock[id[t]].rx = <<>> /\ Heeded
  /\ Goto(t, "pollSubscribe")
  /\ UNCHANGED <<nextId, lock, id, conn, stream, chunks, channel, sock, bounds>>

(* ERROR, no answer, or one that is lost or cannot be parsed after n bytes *)
(* have left the modem: read returns SocketRecvFailed, and they are gone.  *)
ReadFails(t, n) ==
  /\ pc[t] \in {"readRecv", "readLast"}
  /\ \/ Swallowed /\ n = 0 /\ UNCHANGED <<sock, faults>>
     \/ Heeded /\ Fault /\ HandOver(t, n)
  /\ failed' = failed \cup {t}
  /\ Goto(t, "open") /\ Unlock
  /\ UNCHANGED <<nextId, id, conn, got, chunks, channel, conns, writes>>

(* socket_poll_closed, in two steps: another thread may publish between    *)
(* its subscription and its drain.                                         *)
PollSubscribe(t) ==
  /\ pc[t] = "pollSubscribe"
  /\ Subscribe(t) /\ Goto(t, "pollDrain")
  /\ UNCHANGED <<nextId, lock, id, conn, stream, chunks, sock, prompt, bounds>>

PollDrain_KeepsSubscriber(t) ==
  /\ pc[t] = "pollDrain"
  /\ \/ /\ \E k \in DOMAIN heard[t] : heard[t][k] = ClosedUrc(id[t])
        /\ Goto(t, "readLast") /\ UNCHANGED lock /\ Unsubscribe(t)
     \/ /\ \A k \in DOMAIN heard[t] : heard[t][k] # ClosedUrc(id[t])
        /\ Goto(t, "readDelay") /\ Unlock /\ UNCHANGED channel
  /\ UNCHANGED <<nextId, id, conn, stream, chunks, sock, prompt, bounds>>

PollDrain_AnyId(t) ==
  /\ pc[t] = "pollDrain"
  /\ \/ /\ \E k \in DOMAIN heard[t] : heard[t][k].urc = "closed"
        /\ Goto(t, "readLast") /\ UNCHANGED lock
     \/ /\ \A k \in DOMAIN heard[t] : heard[t][k].urc # "closed"
        /\ Goto(t, "readDelay") /\ Unlock
  /\ Unsubscribe(t)
  /\ UNCHANGED <<nextId, id, conn, stream, chunks, sock, prompt, bounds>>

PollDrain(t) ==
  /\ pc[t] = "pollDrain"
  /\ \/ /\ \E k \in DOMAIN heard[t] : heard[t][k] = ClosedUrc(id[t])
        /\ Goto(t, "readLast") /\ UNCHANGED lock
     \/ /\ \A k \in DOMAIN heard[t] : heard[t][k] # ClosedUrc(id[t])
        /\ Goto(t, "readDelay") /\ Unlock
  /\ Unsubscribe(t)
  /\ UNCHANGED <<nextId, id, conn, stream, chunks, sock, prompt, bounds>>

(* The bytes that came alongside the close, or Ok(0): end of file.         *)
ReadLast_Eof(t, n) ==
  /\ pc[t] = "readLast" /\ n = 0 /\ Heeded
  /\ sock' = [sock EXCEPT ![id[t]].rx = <<>>]
  /\ Goto(t, "eof") /\ Unlock
  /\ UNCHANGED <<nextId, id, conn, stream, chunks, channel, bounds>>

ReadLast(t, n) ==
  /\ pc[t] = "readLast" /\ Heeded
  /\ n = 0 <=> sock[id[t]].rx = <<>>
  /\ Take(t, n)
  /\ Goto(t, IF n = 0 THEN "eof" ELSE "open") /\ Unlock
  /\ UNCHANGED <<nextId, id, conn, chunks, channel, bounds>>
-----------------------------------------------------------------------------
(* write: the lock is held for all the chunks.                             *)
WriteLock(t, n) ==
  /\ pc[t] = "open" /\ Lock(t)
  /\ writes < MaxWrites /\ writes' = writes + 1
  /\ chunks' = [chunks EXCEPT ![t] = n]
  /\ Goto(t, "writeCommand")
  /\ UNCHANGED <<nextId, id, conn, stream, channel, sock, prompt, conns, faults>>

(* QISEND/QSSLSEND: its answer, prompt or error, is ignored.               *)
WriteCommand_LocksPerCommand(t) ==
  /\ pc[t] = "writeCommand"
  /\ prompt' = IF sock[id[t]].state = "open" THEN "data" ELSE prompt
  /\ Goto(t, "writePayload") /\ Unlock
  /\ UNCHANGED <<nextId, id, conn, stream, chunks, channel, sock, bounds>>

WriteCommand(t) ==
  /\ pc[t] = "writeCommand"
  /\ \/ /\ prompt = "command" /\ sock[id[t]].state = "open"
        /\ prompt' = "data" /\ UNCHANGED faults
     \/ sock[id[t]].state # "open" /\ Heeded /\ UNCHANGED faults
     \/ Heeded /\ Fault
     \/ Swallowed /\ UNCHANGED faults
  /\ Goto(t, "writePayload")
  /\ UNCHANGED <<nextId, lock, id, conn, stream, chunks, channel, sock, conns,
                 writes>>

(* The payload goes out, whatever the modem expects; SEND OK and SEND FAIL *)
(* are not waited for, nor does anybody notice bytes that the line loses,  *)
(* and write returns buf.len() after the last chunk.                       *)
(* When it does not go out whole, write returns SocketSendFailed and gives *)
(* the mutex back with the modem still waiting for the rest.               *)
Pushed(t) ==
  /\ chunks' = [chunks EXCEPT ![t] = @ - 1]
  /\ \/ chunks[t] > 1 /\ Goto(t, "writeCommand") /\ UNCHANGED lock
     \/ chunks[t] = 1 /\ Goto(t, "open") /\ Unlock

WritePayload(t) ==
  /\ pc[t] = "writePayload"
  /\ \/ /\ Pushed(t) /\ UNCHANGED faults
        /\ prompt' = "command" \/ (prompt = "cut" /\ UNCHANGED prompt)
     \/ Pushed(t) /\ Fault /\ prompt = "data" /\ prompt' = "cut"
     \/ /\ Fault /\ Goto(t, "open") /\ Unlock      (* SocketSendFailed *)
        /\ chunks' = [chunks EXCEPT ![t] = 0]
        /\ prompt' = "command" \/ (prompt # "command" /\ prompt' = "cut")
  /\ UNCHANGED <<nextId, id, conn, stream, channel, sock, conns, writes>>
-----------------------------------------------------------------------------
(* close consumes the handle whether or not the modem closed the socket.   *)
CloseLock(t) ==
  /\ pc[t] \in {"open", "eof"} /\ Lock(t)
  /\ Goto(t, "close")
  /\ UNCHANGED <<nextId, id, conn, stream, chunks, channel, sock, prompt, bounds>>

Close(t) ==
  /\ pc[t] = "close"
  /\ \/ /\ Heeded /\ UNCHANGED faults
        /\ sock' = [sock EXCEPT ![id[t]] = FreeSocket]
     \/ Heeded /\ Fault /\ UNCHANGED sock
     \/ Swallowed /\ UNCHANGED <<sock, faults>>
  /\ Goto(t, "idle") /\ Unlock
  /\ UNCHANGED <<nextId, id, conn, stream, chunks, channel, conns, writes>>

(* A handle goes out of scope: there is no Drop that closes the socket.    *)
DropHandle(t) ==
  /\ pc[t] \in {"open", "eof"} /\ Fault
  /\ Goto(t, "idle")
  /\ UNCHANGED <<nextId, lock, id, conn, stream, chunks, channel, sock, prompt,
                 conns, writes>>
-----------------------------------------------------------------------------
(* The modem and the peers.                                                *)
ModemOpens(i) ==
  /\ sock[i].state = "opening"
  /\ sock' = [sock EXCEPT ![i].state = "open"]
  /\ Publish(OpenUrc(i, 0))
  /\ UNCHANGED <<owner, stream, chunks, prompt, bounds>>

ModemOpenFails(i) ==
  /\ sock[i].state = "opening" /\ Fault
  /\ sock' = [sock EXCEPT ![i] = FreeSocket]
  /\ Publish(OpenUrc(i, 566))
  /\ UNCHANGED <<owner, stream, chunks, prompt, conns, writes>>

PeerSends(i) ==
  /\ sock[i].state = "open" /\ sock[i].sent < MaxData
  /\ sock' = [sock EXCEPT ![i].sent = @ + 1,
                                 ![i].rx = Append(@, sock[i].sent + 1)]
  /\ UNCHANGED <<owner, stream, chunks, channel, prompt, bounds>>

PeerCloses(i) ==
  /\ sock[i].state = "open"
  /\ sock' = [sock EXCEPT ![i].state = "closed"]
  /\ Publish(ClosedUrc(i))
  /\ UNCHANGED <<owner, stream, chunks, prompt, bounds>>
-----------------------------------------------------------------------------
LockStep(t) ==
  OpenLock(t) \/ (pc[t] = "readDelay" /\ ReadLock(t))

TaskStep(t) ==
  \/ OpenAccepted(t) \/ OpenRefused(t) \/ OpenPoll(t) \/ OpenTimeout(t)
  \/ \E n \in 1..MaxData : ReadData(t, n)
  \/ ReadEmpty(t) \/ PollSubscribe(t) \/ PollDrain(t)
  \/ \E n \in 0..MaxData : ReadLast(t, n) \/ ReadFails(t, n)
  \/ WriteCommand(t) \/ WritePayload(t) \/ Close(t)

CallerStep(t) ==
  \/ \E c \in Clients : Connect(t, c)
  \/ (pc[t] = "open" /\ ReadLock(t))
  \/ \E n \in 1..MaxChunks : WriteLock(t, n)
  \/ CloseLock(t) \/ DropHandle(t)

ModemStep(i) ==
  ModemOpens(i) \/ ModemOpenFails(i) \/ PeerSends(i) \/ PeerCloses(i)

Next ==
  \/ \E t \in Tasks : LockStep(t) \/ TaskStep(t) \/ CallerStep(t)
  \/ \E i \in Ids : ModemStep(i)

Spec == Init /\ [][Next]_vars

(* Every task is polled; the modem ends every open it began; and whoever   *)
(* waits for the mutex gets it in the end: it is free for the 100 ms       *)
(* between two rounds of a read and between any two calls, and a release   *)
(* wakes its waiters.                                                      *)
Fairness ==
  /\ \A t \in Tasks : SF_vars(LockStep(t)) /\ WF_vars(TaskStep(t))
  /\ \A i \in Ids : WF_vars(ModemOpens(i))
FairSpec == Spec /\ Fairness
-----------------------------------------------------------------------------
Exchanging == {"openSend", "openWait", "readRecv", "pollSubscribe",
               "pollDrain", "readLast", "writeCommand", "writePayload", "close"}
Holding == {"open", "readRecv", "pollSubscribe", "pollDrain", "readLast",
            "readDelay", "eof", "writeCommand", "writePayload", "close"}
Labels == Exchanging \cup Holding \cup {"idle", "openLock"}
Urcs == [urc : {"open", "closed"}, id : Ids, err : {0, 563, 566}]

(* Types; only a subscriber that exists is read.                           *)
TypeOK ==
  /\ nextId \in [Clients -> Ids] /\ lock \in Tasks \cup {"free"}
  /\ pc \in [Tasks -> Labels] /\ id \in [Tasks -> Ids]
  /\ conn \in [Tasks -> 0..MaxConnects]
  /\ \A t \in Tasks : got[t] \in Seq(1..MaxData)
  /\ failed \subseteq Tasks /\ chunks \in [Tasks -> 0..MaxChunks]
  /\ subs \subseteq Subscribers
  /\ \A u \in Subscribers : heard[u] \in Seq(Urcs)
  /\ \A t \in Tasks : /\ pc[t] = "openWait" => OpenSub(t) \in subs
                      /\ pc[t] = "pollDrain" => t \in subs
  /\ \A i \in Ids : /\ sock[i].state \in {"free", "opening", "open", "closed"}
                    /\ sock[i].conn \in 0..MaxConnects
                    /\ sock[i].sent \in 0..MaxData
                    /\ sock[i].rx \in Seq(1..MaxData)
  /\ prompt \in {"command", "data", "cut"}
  /\ conns \in 0..MaxConnects /\ writes \in 0..MaxWrites
  /\ faults \in 0..MaxFaults

(* The mutex makes the tasks' exchanges with the modem atomic              *)
(* (tcp.rs:22-24), a write with all its chunks included: the modem expects *)
(* announced bytes only while the task that announced them is about to     *)
(* send them, and otherwise only the rest of a payload that did not arrive *)
(* whole (cellular.rs:1788, 1948).                                         *)
OneExchange ==
  /\ \A t \in Tasks : pc[t] \in Exchanging <=> lock = t
  /\ prompt = "data" => \E t \in Tasks : pc[t] = "writePayload" /\ lock = t

(* The ModemSocket a connect returns is the connection that connect asked  *)
(* for, through lost answers, results that come after the timeout and      *)
(* handles dropped without close (tcp.rs:151-180, cellular.rs:1895-1910).  *)
(* It holds of one client before its ids wrap.                             *)
HandleOwnsSocket ==
  \A t \in Tasks : pc[t] \in Holding =>
    /\ sock[id[t]].conn = conn[t]
    /\ sock[id[t]].state \in {"open", "closed"}

(* The bytes of a connection that have left the modem for its task.        *)
Passed(i) == sock[i].sent - Len(sock[i].rx)

(* What the modem still buffers is the end of what the peer sent, and what *)
(* the reads returned is in order and at most once.  As long as no read of *)
(* the handle returned an error it is whole: short reads, empty rounds and *)
(* the last read after a close lose nothing (tcp.rs:251-270).              *)
StreamIntact ==
  \A t \in Tasks : pc[t] \in Holding =>
    LET rx == sock[id[t]].rx
        n == Passed(id[t])
    IN /\ rx = [k \in 1..Len(rx) |-> n + k]
       /\ \A k \in DOMAIN got[t] : got[t][k] <= n
       /\ \A j, k \in DOMAIN got[t] : j < k => got[t][j] < got[t][k]
       /\ t \notin failed => got[t] = [k \in 1..n |-> k]

(* The sockets use two of the channel's three subscribers at most, however *)
(* many tasks there are: subscribe().unwrap() in tcp_socket_open does not  *)
(* panic and MQTT or a file transfer finds a slot (cellular.rs:87, 1871).  *)
SubscribersBounded ==
  Cardinality(subs) <= 2

(* A read that found nothing still returns the bytes that come later, with *)
(* other tasks competing for the modem (tcp.rs:245-270).                   *)
ReadGetsData ==
  \A t \in Tasks : (pc[t] = "readDelay" /\ sock[id[t]].rx # <<>>)
                     ~> pc[t] = "open"

(* tcp.rs:247-250: read "must block until at least one byte is available   *)
(* or the peer closes" and returns EOF "when the peer is gone".            *)
EofIsSeen ==
  \A t \in Tasks : (pc[t] = "readDelay" /\ sock[id[t]].state = "closed")
                     ~> pc[t] \in {"open", "eof"}
-----------------------------------------------------------------------------
(* The service as the tasks see it: of a socket, from connect to close.    *)
Live(t) == pc[t] \notin {"idle", "close"}

HandleOf(t) ==
  CASE pc[t] \in {"idle", "close"} -> "none"
    [] pc[t] \in {"openLock", "openSend", "openWait"} -> "connecting"
    [] pc[t] = "eof" -> "eof"
    [] OTHER -> "open"

PeerOf(t) ==
  IF Live(t) /\ sock[id[t]].state \in {"open", "closed"}
  THEN sock[id[t]].state ELSE "silent"

CameOf(t) == IF Live(t) THEN sock[id[t]].sent ELSE 0
PassedOf(t) == IF Live(t) THEN Passed(id[t]) ELSE 0
ReadOf(t) == IF Live(t) THEN got[t] ELSE <<>>
FailedOf(t) == Live(t) /\ t \in failed

Service == INSTANCE SocketService WITH
  handle <- [t \in Tasks |-> HandleOf(t)], peer <- [t \in Tasks |-> PeerOf(t)],
  came <- [t \in Tasks |-> CameOf(t)], passed <- [t \in Tasks |-> PassedOf(t)],
  read <- [t \in Tasks |-> ReadOf(t)], failed <- {t \in Tasks : FailedOf(t)}

(* Every handle is a stream of its own: what its peer sent, in order and   *)
(* once, whole but for what a read that returned an error lost, and an end *)
(* of file only after the peer closed and nothing was left                 *)
(* (tcp.rs:237-274).  It holds of one client before its ids wrap.          *)
ImplementsSocketService == Service!Spec
=============================================================================
