---------------------------- MODULE SocketService ----------------------------
(***************************************************************************)
(* What tcp.rs promises a program of its sockets, without modem, mutex,    *)
(* identifiers, URCs or failures: each handle is a stream of its own that  *)
(* returns what its peer sent, in order and once, and ends only after the  *)
(* peer has closed and nothing is left.  Only a read that returns an error *)
(* may lose bytes of it.                                                   *)
(***************************************************************************)
EXTENDS Naturals, Sequences

CONSTANTS
  Tasks,     (* of the program, with at most one handle each               *)
  MaxData    (* bound: bytes a peer sends on one connection                *)

VARIABLES
  handle,    (* "none", "connecting", "open" or "eof"                      *)
  peer,      (* of the handle's connection: "silent" before it is there,   *)
             (* "open" or "closed"                                         *)
  came,      (* number of bytes the peer has sent                          *)
  passed,    (* number of those that are behind the next read              *)
  read,      (* the bytes its reads returned: the k-th sent is byte k      *)
  failed     (* tasks to which a read of the handle returned an error      *)

vars == <<handle, peer, came, passed, read, failed>>

(* The n bytes after the m-th.                                             *)
Bytes(m, n) == [k \in 1..n |-> m + k]

Init ==
  /\ handle = [t \in Tasks |-> "none"] /\ peer = [t \in Tasks |-> "silent"]
  /\ came = [t \in Tasks |-> 0] /\ passed = [t \in Tasks |-> 0]
  /\ read = [t \in Tasks |-> <<>>] /\ failed = {}

Connect(t) ==
  /\ handle[t] = "none" /\ handle' = [handle EXCEPT ![t] = "connecting"]
  /\ UNCHANGED <<peer, came, passed, read, failed>>

(* A connection may be there before the program knows.                     *)
PeerAccepts(t) ==
  /\ handle[t] = "connecting" /\ peer[t] = "silent"
  /\ peer' = [peer EXCEPT ![t] = "open"]
  /\ UNCHANGED <<handle, came, passed, read, failed>>

PeerSends(t) ==
  /\ peer[t] = "open" /\ came[t] < MaxData
  /\ came' = [came EXCEPT ![t] = @ + 1]
  /\ UNCHANGED <<handle, peer, passed, read, failed>>

PeerCloses(t) ==
  /\ peer[t] = "open" /\ peer' = [peer EXCEPT ![t] = "closed"]
  /\ UNCHANGED <<handle, came, passed, read, failed>>

(* connect returns Ok only with a connection that the peer accepted.       *)
Connected(t) ==
  /\ handle[t] = "connecting" /\ peer[t] # "silent"
  /\ handle' = [handle EXCEPT ![t] = "open"]
  /\ UNCHANGED <<peer, came, passed, read, failed>>

Read(t) ==
  /\ handle[t] = "open"
  /\ \E n \in 1..(came[t] - passed[t]) :
       /\ read' = [read EXCEPT ![t] = @ \o Bytes(passed[t], n)]
       /\ passed' = [passed EXCEPT ![t] = @ + n]
  /\ UNCHANGED <<handle, peer, came, failed>>

(* An error; some bytes may have been lost with it.                        *)
ReadFails(t) ==
  /\ handle[t] = "open"
  /\ \E n \in 0..(came[t] - passed[t]) : passed' = [passed EXCEPT ![t] = @ + n]
  /\ failed' = failed \cup {t}
  /\ UNCHANGED <<handle, peer, came, read>>

(* Ok(0).                                                                  *)
EndOfFile(t) ==
  /\ handle[t] = "open" /\ peer[t] = "closed" /\ passed[t] = came[t]
  /\ handle' = [handle EXCEPT ![t] = "eof"]
  /\ UNCHANGED <<peer, came, passed, read, failed>>

(* An open that failed, a close, or a handle that is dropped.              *)
Ends(t) ==
  /\ handle[t] # "none" /\ handle' = [handle EXCEPT ![t] = "none"]
  /\ peer' = [peer EXCEPT ![t] = "silent"]
  /\ came' = [came EXCEPT ![t] = 0] /\ passed' = [passed EXCEPT ![t] = 0]
  /\ read' = [read EXCEPT ![t] = <<>>] /\ failed' = failed \ {t}

Next ==
  \E t \in Tasks :
    \/ Connect(t) \/ PeerAccepts(t) \/ PeerSends(t) \/ PeerCloses(t)
    \/ Connected(t) \/ Read(t) \/ ReadFails(t) \/ EndOfFile(t) \/ Ends(t)

Spec == Init /\ [][Next]_vars
=============================================================================
