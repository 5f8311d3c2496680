-------------------------- MODULE MqttSessionProofs --------------------------
(***************************************************************************)
(* The MQTT calls, for every set of revisions and SSL contexts, any number *)
(* of rounds in a wait and any number of calls, URCs and failures.         *)
(***************************************************************************)
EXTENDS MqttSession, FiniteSetTheorems, FunctionTheorems, SequenceTheorems, TLAPS

(* The types, with the labels spelled out.                                 *)
Waits == {"openWait", "connectWait", "publishWait", "disconnectWait", "statusWait", "closeWait"}
AllLabels ==
  {"idle", "configure", "configureOnly", "sslEnable", "factoryReset", "open", "connect",
   "publish", "disconnect", "close"} \cup Waits
Subscribed == Waits \cup {"open", "connect", "publish", "disconnect", "status", "close"}
Urcs == [kind : Kinds \cup {"other"}, ok : {"yes", "no"}]
TypeInv ==
  /\ rev \in Revisions /\ pc \in AllLabels /\ ctx \in Contexts \cup {"plain"}
  /\ round \in 0..Rounds /\ late \in {"yes", "no"}
  /\ op \in {"none", "connect", "publish", "disconnect"} /\ gained \subseteq Kinds
  /\ result \in {"none", "Ok", "Err"} /\ subscribed \in {"yes", "no"}
  /\ heard \in Seq(Urcs)
  /\ flag \in {"yes", "no"} /\ lostReset \in {"yes", "no"}
  /\ conf \in [Contexts -> {"none", "partial", "full"}]
  /\ inFlight \in Nat /\ acks \in [Kinds -> Nat] /\ used \in [Kinds -> Nat]
  /\ pc \in Subscribed => subscribed = "yes"
  /\ pc = "idle" => subscribed = "no" /\ heard = <<>>
  /\ pc \in {"configure", "configureOnly", "sslEnable"} => ctx \in Contexts

(* How far a call is, and which one it is.                                 *)
Progress ==
  /\ pc \in {"configure", "sslEnable", "open", "openWait", "connect", "connectWait"} =>
       op = "connect"
  /\ pc \in {"publish", "publishWait"} => op = "publish"
  /\ pc \in {"disconnect", "disconnectWait", "statusWait", "close", "closeWait"} =>
       op = "disconnect"
  /\ pc \in {"configureOnly", "factoryReset"} => op = "none"
  /\ pc \in {"close", "closeWait"} => late = "yes"
  /\ late = "no" =>
       /\ pc \in {"connect", "connectWait"} => "open" \in gained
       /\ pc = "statusWait" => "disconnect" \in gained

(* A flag that is set has a context to show for it.                        *)
FlagInv ==
  (flag = "yes" \/ pc = "sslEnable") /\ lostReset = "no" => \E c \in Contexts : conf[c] # "none"

(* What was acted on and what is still to be looked at was all reported.   *)
Successes(h, k) == {i \in DOMAIN h : h[i].kind = k /\ h[i].ok = "yes"}
Count(h, k) == Cardinality(Successes(h, k))
Counted == \A k \in Kinds : used[k] + Count(heard, k) <= acks[k]

MqttInv == TypeInv /\ Progress /\ FlagInv /\ Counted /\ OkIsReported


-----------------------------------------------------------------------------
(* Counting the success reports of a kind in a queue.                      *)
Is(m, k) == m.kind = k /\ m.ok = "yes"

LEMMA CountType ==
  ASSUME NEW h \in Seq(Urcs), NEW k
  PROVE  IsFiniteSet(Successes(h, k)) /\ Count(h, k) \in Nat
<1>1. IsFiniteSet(1..Len(h)) /\ DOMAIN h = 1..Len(h)
  BY LenProperties, FS_Interval
<1>2. Successes(h, k) \in SUBSET (1..Len(h))
  BY <1>1 DEF Successes
<1> QED
  BY <1>1, <1>2, FS_Subset, FS_CardinalityType DEF Count

LEMMA CountEmpty == \A k : Count(<<>>, k) = 0
<1>1. \A k : Successes(<<>>, k) = {}
  BY DEF Successes
<1> QED
  BY <1>1, FS_EmptySet DEF Count

LEMMA CountAppend ==
  ASSUME NEW h \in Seq(Urcs), NEW m \in Urcs, NEW k
  PROVE  /\ Append(h, m) \in Seq(Urcs)
         /\ Is(m, k) => Count(Append(h, m), k) = Count(h, k) + 1
         /\ ~Is(m, k) => Count(Append(h, m), k) = Count(h, k)
<1> DEFINE a == Append(h, m)
           n == Len(h)
<1>1. /\ a \in Seq(Urcs) /\ Len(a) = n + 1 /\ a[n + 1] = m
      /\ \A i \in 1..n : a[i] = h[i]
  BY AppendProperties
<1>2. DOMAIN h = 1..n /\ DOMAIN a = 1..(n + 1) /\ n \in Nat
  BY <1>1, LenProperties
<1> HIDE DEF a, n
<1>3. n + 1 \notin DOMAIN h /\ DOMAIN a = DOMAIN h \cup {n + 1}
  BY <1>2
<1>4. n + 1 \notin Successes(h, k)
  BY <1>3 DEF Successes
<1>5. CASE Is(m, k)
  <2>1. Successes(a, k) = Successes(h, k) \cup {n + 1}
    BY <1>1, <1>2, <1>3, <1>5 DEF Successes, Is
  <2> QED
    BY <1>1, <1>4, <1>5, <2>1, CountType, FS_AddElement DEF Count, a
<1>6. CASE ~Is(m, k)
  <2>1. Successes(a, k) = Successes(h, k)
    BY <1>1, <1>2, <1>3, <1>6 DEF Successes, Is
  <2> QED
    BY <1>1, <1>6, <2>1 DEF Count, a
<1> QED
  BY <1>1, <1>5, <1>6 DEF a

LEMMA CountTail ==
  ASSUME NEW h \in Seq(Urcs), h # <<>>, NEW k
  PROVE  /\ Tail(h) \in Seq(Urcs) /\ Head(h) \in Urcs
         /\ Is(Head(h), k) => Count(h, k) = Count(Tail(h), k) + 1
         /\ ~Is(Head(h), k) => Count(h, k) = Count(Tail(h), k)
<1> DEFINE t == Tail(h)
           n == Len(t)
           T == Successes(t, k)
           S == Successes(h, k) \ {1}
           f == [i \in T |-> i + 1]
<1>1. /\ t \in Seq(Urcs) /\ Head(h) \in Urcs /\ Head(h) = h[1] /\ Len(h) = n + 1
      /\ \A i \in 1..n : t[i] = h[i + 1]
  BY HeadTailProperties, LenProperties
<1>2. DOMAIN t = 1..n /\ DOMAIN h = 1..(n + 1) /\ n \in Nat
  BY <1>1, LenProperties
<1> HIDE DEF t, n
<1>3. \A i \in T : i \in Nat /\ i + 1 \in S
  BY <1>1, <1>2 DEF Successes
<1>4. ASSUME NEW j \in S PROVE \E i \in T : j = i + 1
  <2>1. j \in 1..(n + 1) /\ j # 1 /\ h[j].kind = k /\ h[j].ok = "yes"
    BY <1>2, <1>4 DEF Successes
  <2>2. j - 1 \in 1..n /\ t[j - 1] = h[j]
    BY <1>1, <1>2, <2>1
  <2>3. j - 1 \in T /\ j = (j - 1) + 1
    BY <1>2, <2>1, <2>2 DEF Successes
  <2> QED
    BY <2>3
<1>5. /\ f \in [T -> S]
      /\ \A i, j \in T : f[i] = f[j] => i = j
      /\ \A j \in S : \E i \in T : f[i] = j
  BY <1>3, <1>4
<1> HIDE DEF T, S, f
<1>6. ExistsBijection(T, S)
  BY <1>5, Fun_IsBij, Fun_ExistsBij
<1>7. IsFiniteSet(T) /\ Cardinality(S) = Cardinality(T) /\ Cardinality(T) = Count(t, k)
      /\ Count(t, k) \in Nat
  BY <1>1, <1>6, CountType, FS_Bijection DEF Count, T
<1>8. /\ IsFiniteSet(Successes(h, k)) /\ Count(h, k) \in Nat
      /\ Cardinality(S) = IF 1 \in Successes(h, k) THEN Count(h, k) - 1 ELSE Count(h, k)
  BY CountType, FS_RemoveElement DEF Count, S
<1>9. 1 \in Successes(h, k) <=> Is(Head(h), k)
  BY <1>1, <1>2 DEF Successes, Is
<1> QED
  BY <1>1, <1>7, <1>8, <1>9 DEF t


LEMMA TwoReports ==
  ASSUME NEW h \in Seq(Urcs), NEW a \in Urcs, NEW b \in Urcs
  PROVE  h \o <<a, b>> = Append(Append(h, a), b)
<1>1. <<a, b>> = <<a>> \o <<b>> /\ <<a>> \in Seq(Urcs) /\ <<b>> \in Seq(Urcs)
  <2>1. <<a>> \in Seq(Urcs) /\ <<b>> \in Seq(Urcs)
    OBVIOUS
  <2>2. <<a, b>> = Append(<<a>>, b)
    OBVIOUS
  <2> QED
    BY <2>1, <2>2, AppendIsConcat
<1>2. Append(h, a) = h \o <<a>> /\ Append(h, a) \in Seq(Urcs)
  BY AppendIsConcat, AppendProperties
<1>3. Append(Append(h, a), b) = Append(h, a) \o <<b>>
  BY <1>2, AppendIsConcat
<1>4. (h \o <<a>>) \o <<b>> = h \o (<<a>> \o <<b>>)
  BY <1>1, ConcatAssociative
<1> QED
  BY <1>1, <1>2, <1>3, <1>4

-----------------------------------------------------------------------------
LEMMA WaitIs ==
  /\ DOMAIN Wait = Waits
  /\ Wait["openWait"] = "open" /\ Wait["connectWait"] = "connect"
  /\ Wait["publishWait"] = "publish" /\ Wait["disconnectWait"] = "disconnect"
  /\ Wait["statusWait"] = "status" /\ Wait["closeWait"] = "close"
  /\ \A w \in Waits : Wait[w] \in Kinds
BY DEF Wait, Waits, Kinds

(* Every step is one of these.                                             *)
CallBegins ==
  \/ \E c \in Contexts \cup {"plain"} : MqttConnectCall(c)
  \/ \E l \in {"publish", "disconnect"} : MqttCall(l)
  \/ \E c \in Contexts : DirectCall("configureOnly", c)
  \/ DirectCall("factoryReset", "plain")
Sending == SendOpen \/ SendConnect \/ SendPublish \/ SendDisconnect \/ SendClose

LEMMA NextSteps ==
  ASSUME [Next]_vars
  PROVE  \/ CallBegins \/ ResetSslContext \/ Configure \/ SslEnable \/ FactoryReset
         \/ Sending \/ CommandFails \/ Poll \/ Expire \/ ModemStep \/ UNCHANGED vars
BY DEF Next, CallStep, CallBegins, Sending

(* A call begins with no URC but later ones in its subscriber.             *)
LEMMA CallBeginsWhat ==
  ASSUME CallBegins
  PROVE  /\ pc = "idle" /\ round' = 0 /\ late' = "no" /\ gained' = {} /\ result' = "none"
         /\ UNCHANGED <<ssl, modem, used, rev>>
         /\ \/ UNCHANGED <<heard, subscribed>>
            \/ heard' = <<>> /\ subscribed' = "yes"
         /\ \/ /\ pc' = "open" /\ op' = "connect" /\ ctx' = "plain" /\ subscribed' = "yes"
            \/ /\ pc' = "sslEnable" /\ op' = "connect" /\ ctx' \in Contexts /\ flag = "yes"
            \/ /\ pc' = "configure" /\ op' = "connect" /\ ctx' \in Contexts
            \/ /\ pc' \in {"publish", "disconnect"} /\ op' = pc' /\ ctx' = "plain"
               /\ subscribed' = "yes"
            \/ /\ pc' = "configureOnly" /\ op' = "none" /\ ctx' \in Contexts
            \/ /\ pc' = "factoryReset" /\ op' = "none" /\ ctx' = "plain"
<1>1. CASE \E c \in Contexts \cup {"plain"} : MqttConnectCall(c)
  BY <1>1 DEF MqttConnectCall, Call
<1>2. CASE \E l \in {"publish", "disconnect"} : MqttCall(l)
  BY <1>2 DEF MqttCall, Call
<1>3. CASE \E c \in Contexts : DirectCall("configureOnly", c)
  BY <1>3 DEF DirectCall, Call
<1>4. CASE DirectCall("factoryReset", "plain")
  BY <1>4 DEF DirectCall, Call
<1> QED
  BY <1>1, <1>2, <1>3, <1>4 DEF CallBegins

(* What the modem puts in the subscriber is typed, and is counted first.   *)
LEMMA ModemStepWhat ==
  ASSUME TypeInv, Counted, ModemStep
  PROVE  /\ UNCHANGED <<call, subscribed, ssl, used, rev>>
         /\ heard' \in Seq(Urcs) /\ (subscribed = "no" => heard' = heard)
         /\ inFlight' \in Nat /\ acks' \in [Kinds -> Nat] /\ Counted'
<1>1. /\ UNCHANGED <<call, subscribed, ssl, used, rev>>
      /\ heard \in Seq(Urcs) /\ subscribed \in {"yes", "no"} /\ inFlight \in Nat
      /\ acks \in [Kinds -> Nat] /\ used \in [Kinds -> Nat]
  BY DEF ModemStep, TypeInv
<1>2. \A k \in Kinds : /\ Count(heard, k) \in Nat /\ acks[k] \in Nat /\ used[k] \in Nat
                       /\ used[k] + Count(heard, k) <= acks[k]
  BY <1>1, CountType DEF Counted
<1>3. ASSUME NEW kind \in Kinds \cup {"other"}, NEW ok \in {"yes", "no"}
      PROVE  /\ Urc(kind, ok) \in Urcs
             /\ \A k \in Kinds : Is(Urc(kind, ok), k) <=> k = kind /\ ok = "yes"
  BY DEF Urc, Urcs, Is
<1>4. ASSUME NEW kind \in Kinds, Publish(Urc(kind, "yes")),
             acks' = [acks EXCEPT ![kind] = @ + 1]
      PROVE  /\ heard' \in Seq(Urcs) /\ (subscribed = "no" => heard' = heard)
             /\ acks' \in [Kinds -> Nat] /\ Counted'
  <2>1. heard' \in {heard, Append(heard, Urc(kind, "yes"))}
          /\ (subscribed = "no" => heard' = heard)
    BY <1>1, <1>4 DEF Publish
  <2>2. acks' \in [Kinds -> Nat]
    BY <1>1, <1>4
  <2>3. ASSUME NEW k \in Kinds PROVE used'[k] + Count(heard', k) <= acks'[k]
    <3>1. \/ Count(heard', k) = Count(heard, k)
          \/ Count(heard', k) = Count(heard, k) + 1 /\ k = kind
      <4>1. CASE heard' = heard
        BY <4>1
      <4>2. CASE heard' = Append(heard, Urc(kind, "yes"))
        <5>1. Urc(kind, "yes") \in Urcs /\ (Is(Urc(kind, "yes"), k) <=> k = kind)
          BY <1>3
        <5> QED
          BY <1>1, <4>2, <5>1, CountAppend
      <4> QED
        BY <2>1, <4>1, <4>2
    <3>2. used'[k] = used[k] /\ acks'[k] = IF k = kind THEN acks[k] + 1 ELSE acks[k]
      BY <1>1, <1>4
    <3> QED
      BY <1>2, <3>1, <3>2
  <2> QED
    <3>1. heard' \in Seq(Urcs)
      <4>1. Urc(kind, "yes") \in Urcs
        BY <1>3
      <4>2. Append(heard, Urc(kind, "yes")) \in Seq(Urcs)
        BY <1>1, <4>1, AppendProperties
      <4> QED
        BY <1>1, <2>1, <4>2
    <3> QED
      BY <2>1, <2>2, <2>3, <3>1 DEF Counted
<1>5. ASSUME NEW m \in Urcs, \A k \in Kinds : ~Is(m, k), acks' = acks,
             \/ Publish(m)
             \/ subscribed = "yes" /\ heard' = Append(heard, m)
      PROVE  /\ heard' \in Seq(Urcs) /\ (subscribed = "no" => heard' = heard) /\ Counted'
  <2>1. heard' \in {heard, Append(heard, m)} /\ (subscribed = "no" => heard' = heard)
    BY <1>1, <1>5 DEF Publish
  <2>2. \A k \in Kinds : Count(heard', k) = Count(heard, k)
    <3>1. CASE heard' = heard
      BY <3>1
    <3>2. CASE heard' = Append(heard, m)
      BY <1>1, <1>5, <3>2, CountAppend
    <3> QED
      BY <2>1, <3>1, <3>2
  <2>3. heard' \in Seq(Urcs)
    BY <1>1, <2>1, AppendProperties
  <2> QED
    BY <1>1, <1>2, <1>5, <2>1, <2>2, <2>3 DEF Counted
<1>6. ASSUME NEW kind \in Kinds, NEW from, NEW to, Report(kind, from, to)
      PROVE  /\ heard' \in Seq(Urcs) /\ (subscribed = "no" => heard' = heard)
             /\ inFlight' \in Nat /\ acks' \in [Kinds -> Nat] /\ Counted'
  BY <1>1, <1>4, <1>6 DEF Report
<1>7. ASSUME NEW kind \in Kinds, Publish(Urc(kind, "no")), acks' = acks, inFlight' \in Nat
      PROVE  /\ heard' \in Seq(Urcs) /\ (subscribed = "no" => heard' = heard)
             /\ inFlight' \in Nat /\ acks' \in [Kinds -> Nat] /\ Counted'
  BY <1>1, <1>3, <1>5, <1>7
<1>8. ASSUME NEW kind \in Kinds, NEW from, NEW to, Rejects(kind, from, to)
      PROVE  /\ heard' \in Seq(Urcs) /\ (subscribed = "no" => heard' = heard)
             /\ inFlight' \in Nat /\ acks' \in [Kinds -> Nat] /\ Counted'
  BY <1>1, <1>7, <1>8 DEF Rejects
<1>9. {"open", "connect", "publish", "close", "status", "disconnect"} = Kinds
  BY DEF Kinds
<1>10. CASE \/ Report("open", "opening", "open") \/ Report("close", "closing", "none")
            \/ Report("connect", "connecting", "connected")
  BY <1>1, <1>6, <1>9, <1>10
<1>11. CASE Rejects("open", "opening", "none") \/ Rejects("connect", "connecting", "none")
  BY <1>1, <1>8, <1>9, <1>11
<1>12. CASE PublishReport
  <2>1. inFlight' \in Nat
    BY <1>1, <1>12 DEF PublishReport
  <2> QED
    BY <1>1, <1>4, <1>7, <1>9, <1>12, <2>1 DEF PublishReport
<1>13. CASE LinkLost
  BY <1>1, <1>7, <1>9, <1>13 DEF LinkLost
<1>14. CASE Disconnected
  <2>1. CASE rev # "R200"
    BY <1>1, <1>4, <1>9, <1>14, <2>1 DEF Disconnected
  <2>2. CASE rev = "R200"
    <3> DEFINE a == Urc("disconnect", "yes")
               b == Urc("status", "yes")
    <3>1. a \in Urcs /\ b \in Urcs
          /\ \A k \in Kinds : (Is(a, k) <=> k = "disconnect") /\ (Is(b, k) <=> k = "status")
      BY <1>3, <1>9
    <3>2. /\ acks' = [acks EXCEPT !["disconnect"] = @ + 1, !["status"] = @ + 1]
          /\ \/ heard' = heard
             \/ subscribed = "yes" /\ heard' = heard \o <<a, b>>
          /\ inFlight' = inFlight
      BY <1>1, <1>14, <2>2 DEF Disconnected
    <3> HIDE DEF a, b
    <3>3. /\ heard \o <<a, b>> = Append(Append(heard, a), b)
          /\ Append(heard, a) \in Seq(Urcs) /\ Append(Append(heard, a), b) \in Seq(Urcs)
      BY <1>1, <3>1, TwoReports, AppendProperties
    <3>4. acks' \in [Kinds -> Nat]
      <4>1. /\ acks["disconnect"] \in Nat /\ acks["disconnect"] + 1 \in Nat
            /\ acks["status"] \in Nat /\ acks["status"] + 1 \in Nat
        BY <1>1, <1>9
      <4> QED
        BY <1>1, <1>9, <3>2, <4>1
    <3>5. ASSUME NEW k \in Kinds PROVE used'[k] + Count(heard', k) <= acks'[k]
      <4>1. acks'[k] = IF k \in {"disconnect", "status"} THEN acks[k] + 1 ELSE acks[k]
        BY <1>1, <1>9, <3>2
      <4>2. Count(Append(heard, a), k) = IF k = "disconnect" THEN Count(heard, k) + 1
                                                             ELSE Count(heard, k)
        BY <1>1, <3>1, CountAppend
      <4>3. Count(Append(Append(heard, a), b), k) =
              IF k = "status" THEN Count(Append(heard, a), k) + 1
                              ELSE Count(Append(heard, a), k)
        BY <3>1, <3>3, CountAppend
      <4>4. \/ Count(heard', k) = Count(heard, k)
            \/ k \in {"disconnect", "status"} /\ Count(heard', k) = Count(heard, k) + 1
            \/ k \notin {"disconnect", "status"} /\ Count(heard', k) = Count(heard, k)
        BY <3>2, <3>3, <4>2, <4>3
      <4>5. used'[k] = used[k]
        BY <1>1
      <4> QED
        BY <1>2, <4>1, <4>4, <4>5
    <3>6. heard' \in Seq(Urcs) /\ (subscribed = "no" => heard' = heard)
      BY <1>1, <3>2, <3>3
    <3> QED
      BY <1>1, <3>2, <3>4, <3>5, <3>6 DEF Counted
  <2> QED
    BY <2>1, <2>2
<1>15. CASE OtherUrc
  BY <1>1, <1>3, <1>5, <1>15 DEF OtherUrc, modem, Kinds
<1> QED
  BY <1>10, <1>11, <1>12, <1>13, <1>14, <1>15 DEF ModemStep


-----------------------------------------------------------------------------
(* Where a wait goes.                                                      *)
LEMMA OnwardWhat ==
  ASSUME NEW expired \in BOOLEAN, Onward(expired)
  PROVE  /\ ctx' = ctx
         /\ \/ /\ \/ pc = "openWait" /\ pc' = "connect"
                  \/ pc = "disconnectWait" /\ pc' = "statusWait"
                  \/ pc = "statusWait" /\ pc' = "close" /\ expired
               /\ round' = 0 /\ UNCHANGED <<result, subscribed>>
            \/ /\ pc \in {"connectWait", "publishWait", "closeWait", "disconnectWait", "statusWait"}
               /\ pc = "statusWait" => ~expired
               /\ pc' = "idle" /\ result' = "Ok" /\ subscribed' = "no" /\ round' = round
BY DEF Onward, Goes

(* A round of a wait.                                                      *)
Acts ==
  /\ heard # <<>> /\ Succeeds(Head(heard))
  /\ used' = [used EXCEPT ![Wait[pc]] = @ + 1] /\ gained' = gained \cup {Wait[pc]}
  /\ Onward(FALSE) /\ UNCHANGED late
  /\ heard' = IF subscribed' = "no" THEN <<>> ELSE Rest

LEMMA PollWhat ==
  ASSUME Poll
  PROVE  /\ pc \in Waits /\ round < Rounds /\ UNCHANGED <<op, ssl, modem, rev>>
         /\ \/ Acts
            \/ heard # <<>> /\ Return("Err") /\ UNCHANGED used
            \/ /\ round' = round + 1 /\ heard' = Rest
               /\ UNCHANGED <<pc, ctx, late, gained, result, subscribed, used>>
BY WaitIs DEF Poll, Passes, Acts, bounds

LEMMA TypeIs == TypeInv <=> TypeOK
<1>1. Labels = AllLabels
  BY WaitIs DEF Labels, AllLabels, Kinds
<1>2. DOMAIN Wait \cup Kinds = Subscribed
  BY WaitIs DEF Subscribed, Kinds
<1> QED
  BY <1>1, <1>2 DEF TypeInv, TypeOK, Urcs


-----------------------------------------------------------------------------
LEMMA OnwardType ==
  ASSUME TypeInv, pc \in Waits, NEW expired \in BOOLEAN, Onward(expired)
  PROVE  /\ pc' \in AllLabels /\ ctx' \in Contexts \cup {"plain"} /\ round' \in 0..Rounds
         /\ result' \in {"none", "Ok", "Err"} /\ subscribed' \in {"yes", "no"}
         /\ pc' \in Subscribed => subscribed' = "yes"
         /\ pc' = "idle" => subscribed' = "no"
         /\ pc' \notin {"configure", "configureOnly", "sslEnable"}
<1>1. /\ ctx \in Contexts \cup {"plain"} /\ round \in 0..Rounds /\ 0 \in 0..Rounds
      /\ result \in {"none", "Ok", "Err"} /\ subscribed = "yes"
  BY MqttSessionAssumption DEF TypeInv, MqttSessionAssumption, Subscribed
<1> QED
  BY <1>1, OnwardWhat DEF AllLabels, Subscribed, Waits

LEMMA TypeStep ==
  ASSUME TypeInv, Counted, [Next]_vars
  PROVE  TypeInv'
<1>1. <<>> \in Seq(Urcs)
  BY EmptySeq
<1>2. heard \in Seq(Urcs) /\ Rest \in Seq(Urcs)
  BY <1>1, HeadTailProperties DEF TypeInv, Rest
<1>3. CASE CallBegins
  <2>1. heard' = <<>> /\ subscribed' \in {"yes", "no"} /\ round' = 0 /\ 0 \in 0..Rounds
    BY <1>3, CallBeginsWhat, MqttSessionAssumption DEF TypeInv, MqttSessionAssumption
  <2> QED
    BY <1>1, <1>3, <2>1, CallBeginsWhat
       DEF TypeInv, AllLabels, Subscribed, Waits, ssl, modem
<1>4. CASE ResetSslContext
  BY <1>4 DEF TypeInv, ResetSslContext, call, modem, bounds
<1>5. CASE Configure
  BY <1>1, <1>5
     DEF TypeInv, Configure, Configured, ConfigureFails, Return, AllLabels, Subscribed, Waits,
         modem
<1>6. CASE SslEnable
  BY <1>1, <1>6 DEF TypeInv, SslEnable, Return, AllLabels, Subscribed, Waits, ssl, modem
<1>7. CASE FactoryReset
  BY <1>1, <1>7 DEF TypeInv, FactoryReset, Return, AllLabels, Subscribed, Waits, ssl, modem
<1>8. CASE Sending
  <2>1. \A k \in Kinds : Urc(k, "no") \in Urcs
    BY DEF Urcs, Urc
  <2>2. heard' \in Seq(Urcs)
    <3>1. Append(heard, Urc("open", "no")) \in Seq(Urcs)
      BY <1>2, <2>1, AppendProperties DEF Kinds
    <3> QED
      BY <1>2, <1>8, <3>1
         DEF Sending, SendOpen, SendConnect, SendPublish, SendDisconnect, SendClose, Publish
  <2>3. /\ pc \in {"open", "connect", "publish", "disconnect", "close"} /\ pc' \in Waits
        /\ round' = 0 /\ UNCHANGED <<ctx, late, op, gained, result, subscribed, ssl, used, rev>>
        /\ inFlight' \in {inFlight, inFlight + 1} /\ acks' = acks
    BY <1>8 DEF Sending, SendOpen, SendConnect, SendPublish, SendDisconnect, SendClose, Sends,
                Takes, modem, bounds, Waits
  <2> QED
    BY <2>2, <2>3, MqttSessionAssumption
       DEF TypeInv, AllLabels, Subscribed, Waits, ssl, MqttSessionAssumption
<1>9. CASE CommandFails
  <2>1. inFlight' \in {inFlight, inFlight + 1} /\ acks' = acks
    BY <1>9 DEF CommandFails, Takes, modem
  <2>2. /\ pc' = "idle" /\ result' = "Err" /\ subscribed' = "no" /\ heard' = <<>>
        /\ UNCHANGED <<ctx, round, late, op, gained, ssl, used, rev>>
    BY <1>9 DEF CommandFails, Return
  <2> QED
    BY <1>1, <2>1, <2>2 DEF TypeInv, AllLabels, Subscribed, Waits, ssl
<1>10. CASE Poll
  <2>1. pc \in Waits /\ round < Rounds /\ UNCHANGED <<op, ssl, modem, rev>>
    BY <1>10, PollWhat
  <2>2. CASE Acts
    <3>1. Wait[pc] \in Kinds
      BY <2>1, WaitIs
    <3>2. used' \in [Kinds -> Nat] /\ gained' \subseteq Kinds /\ late' = late
      BY <2>2, <3>1 DEF TypeInv, Acts
    <3>3. heard' \in Seq(Urcs) /\ (subscribed' = "no" => heard' = <<>>)
      BY <1>1, <1>2, <2>2 DEF Acts
    <3>4. Onward(FALSE)
      BY <2>2 DEF Acts
    <3> QED
      BY <2>1, <3>2, <3>3, <3>4, OnwardType DEF TypeInv, ssl, modem
  <2>3. CASE Return("Err") /\ UNCHANGED used
    BY <1>1, <2>1, <2>3 DEF TypeInv, Return, AllLabels, Subscribed, Waits, ssl, modem
  <2>4. CASE /\ round' = round + 1 /\ heard' = Rest
             /\ UNCHANGED <<pc, ctx, late, gained, result, subscribed, used>>
    <3>1. round' \in 0..Rounds
      BY <2>1, <2>4, MqttSessionAssumption DEF TypeInv, MqttSessionAssumption
    <3>2. pc # "idle"
      BY <2>1 DEF Waits
    <3> QED
      BY <1>2, <2>1, <2>4, <3>1, <3>2 DEF TypeInv, ssl, modem
  <2> QED
    BY <1>10, <2>2, <2>3, <2>4, PollWhat
<1>11. CASE Expire
  <2>1. /\ pc \in Waits /\ late' = "yes" /\ Onward(TRUE)
        /\ heard' = (IF subscribed' = "no" THEN <<>> ELSE heard)
        /\ UNCHANGED <<op, gained, ssl, modem, used, rev>>
    BY <1>11, WaitIs DEF Expire, bounds
  <2> QED
    BY <1>1, <1>2, <2>1, OnwardType DEF TypeInv, ssl, modem
<1>12. CASE ModemStep
  BY <1>12, ModemStepWhat DEF TypeInv, call, ssl
<1>13. CASE UNCHANGED vars
  BY <1>13 DEF TypeInv, vars, call, ssl, modem, bounds
<1> QED
  BY <1>3, <1>4, <1>5, <1>6, <1>7, <1>8, <1>9, <1>10, <1>11, <1>12, <1>13, NextSteps

(* A success is looked at once, and counted as acted on from then on.      *)
LEMMA CountedStep ==
  ASSUME TypeInv, Counted, [Next]_vars
  PROVE  Counted'
<1>1. /\ heard \in Seq(Urcs) /\ acks \in [Kinds -> Nat] /\ used \in [Kinds -> Nat]
      /\ \A k \in Kinds : /\ Count(heard, k) \in Nat /\ Count(<<>>, k) = 0
                          /\ used[k] + Count(heard, k) <= acks[k]
  BY CountType, CountEmpty DEF TypeInv, Counted
<1>2. ASSUME heard' \in {heard, <<>>}, used' = used, acks' = acks
      PROVE  Counted'
  <2>1. \A k \in Kinds : Count(heard', k) <= Count(heard, k) /\ Count(heard', k) \in Nat
    BY <1>1, <1>2
  <2> QED
    BY <1>1, <1>2, <2>1 DEF Counted
<1>3. CASE CallBegins
  BY <1>2, <1>3, CallBeginsWhat DEF modem
<1>4. CASE ResetSslContext \/ Configure \/ SslEnable \/ FactoryReset \/ CommandFails
            \/ Expire \/ UNCHANGED vars
  <2>1. heard' \in {heard, <<>>} /\ used' = used /\ acks' = acks
    BY <1>4 DEF ResetSslContext, Configure, Configured, ConfigureFails, SslEnable, FactoryReset,
                CommandFails, Takes, Expire, Return, vars, modem
  <2> QED
    BY <1>2, <2>1
<1>5. CASE Sending
  <2>1. used' = used /\ acks' = acks
    BY <1>5 DEF Sending, SendOpen, SendConnect, SendPublish, SendDisconnect, SendClose, Sends,
                Takes, modem
  <2>2. heard' = heard \/ heard' = Append(heard, Urc("open", "no"))
    BY <1>5 DEF Sending, SendOpen, SendConnect, SendPublish, SendDisconnect, SendClose, Publish
  <2>3. Urc("open", "no") \in Urcs /\ \A k \in Kinds : ~Is(Urc("open", "no"), k)
    BY DEF Urc, Urcs, Is, Kinds
  <2>4. \A k \in Kinds : Count(Append(heard, Urc("open", "no")), k) = Count(heard, k)
    BY <1>1, <2>3, CountAppend
  <2> QED
    BY <1>1, <2>1, <2>2, <2>4 DEF Counted
<1>6. CASE Poll
  <2>1. pc \in Waits /\ UNCHANGED modem
    BY <1>6, PollWhat
  <2>2. heard # <<>> => /\ Rest = Tail(heard) /\ Tail(heard) \in Seq(Urcs)
                        /\ \A k \in Kinds :
                             /\ Count(Rest, k) \in Nat
                             /\ Count(heard, k) \in {Count(Rest, k), Count(Rest, k) + 1}
                             /\ Is(Head(heard), k) => Count(heard, k) = Count(Rest, k) + 1
    BY <1>1, CountTail, CountType DEF Rest
  <2>3. CASE Acts
    <3>1. Wait[pc] \in Kinds /\ Is(Head(heard), Wait[pc]) /\ heard # <<>>
      BY <2>1, <2>3, WaitIs DEF Acts, Succeeds, Is
    <3>2. ASSUME NEW k \in Kinds PROVE used'[k] + Count(heard', k) <= acks'[k]
      <4>1. used'[k] = IF k = Wait[pc] THEN used[k] + 1 ELSE used[k]
        BY <1>1, <2>3, <3>1 DEF Acts
      <4>2. heard' = <<>> \/ heard' = Rest
        BY <2>3 DEF Acts
      <4>3. Count(heard', k) <= Count(Rest, k) /\ Count(heard', k) \in Nat
        BY <1>1, <2>2, <3>1, <4>2
      <4>4. /\ Count(Rest, k) \in Nat
            /\ Count(heard, k) \in {Count(Rest, k), Count(Rest, k) + 1}
            /\ k = Wait[pc] => Count(heard, k) = Count(Rest, k) + 1
        BY <2>2, <3>1
      <4>5. acks'[k] = acks[k] /\ acks[k] \in Nat /\ used[k] \in Nat
              /\ used[k] + Count(heard, k) <= acks[k]
        BY <1>1, <2>1 DEF modem
      <4> QED
        BY <4>1, <4>3, <4>4, <4>5
    <3> QED
      BY <3>2 DEF Counted
  <2>4. CASE Return("Err") /\ UNCHANGED used
    BY <1>2, <2>1, <2>4 DEF Return, modem
  <2>5. CASE heard' = Rest /\ UNCHANGED used
    <3>1. CASE heard = <<>>
      BY <1>2, <2>1, <2>5, <3>1 DEF Rest, modem
    <3>2. CASE heard # <<>>
      <4>1. ASSUME NEW k \in Kinds
            PROVE  Count(heard', k) \in Nat /\ Count(heard', k) <= Count(heard, k)
        <5>1. heard' = Rest
          BY <2>5
        <5>2. Count(Rest, k) \in Nat /\ Count(heard, k) \in {Count(Rest, k), Count(Rest, k) + 1}
          BY <2>2, <3>2
        <5>3. Count(Rest, k) <= Count(heard, k)
          BY <5>2
        <5> QED
          BY <5>1, <5>2, <5>3
      <4> QED
        BY <1>1, <2>1, <2>5, <4>1 DEF Counted, modem
    <3> QED
      BY <3>1, <3>2
  <2> QED
    BY <1>6, <2>3, <2>4, <2>5, PollWhat
<1>7. CASE ModemStep
  BY <1>7, ModemStepWhat
<1> QED
  BY <1>3, <1>4, <1>5, <1>6, <1>7, NextSteps


(* A call comes to the wait for a report only after the reports before it. *)
LEMMA ProgressStep ==
  ASSUME TypeInv, Progress, OkIsReported, [Next]_vars
  PROVE  Progress' /\ OkIsReported'
<1>1. CASE CallBegins
  BY <1>1, CallBeginsWhat DEF Progress, OkIsReported
<1>2. CASE ResetSslContext \/ UNCHANGED vars \/ ModemStep
  <2>1. UNCHANGED call
    BY <1>2 DEF ResetSslContext, vars, ModemStep
  <2> QED
    BY <2>1 DEF Progress, OkIsReported, call
<1>3. ASSUME pc' = "idle", result' = "Err" PROVE Progress' /\ OkIsReported'
  BY <1>3 DEF Progress, OkIsReported
<1>4. CASE Configure
  <2>1. CASE pc' = "sslEnable" /\ pc = "configure"
    <3>1. op' = op /\ result' = result
      BY <1>4, <2>1 DEF Configure, Configured, ConfigureFails, Return
    <3> QED
      BY <2>1, <3>1 DEF Progress, OkIsReported
  <2>2. CASE pc' = "idle" /\ result' = "Ok" /\ pc = "configureOnly"
    <3>1. op' = op
      BY <1>4, <2>2 DEF Configure, Configured, ConfigureFails, Return
    <3> QED
      BY <2>2, <3>1 DEF Progress, OkIsReported, Needs
  <2> QED
    BY <1>3, <1>4, <2>1, <2>2 DEF Configure, Configured, ConfigureFails, Return
<1>5. CASE SslEnable
  <2>1. CASE pc' = "open" /\ pc = "sslEnable" /\ UNCHANGED op
    BY <2>1 DEF Progress, OkIsReported
  <2> QED
    BY <1>3, <1>5, <2>1 DEF SslEnable, Return
<1>6. CASE FactoryReset
  <2>1. pc = "factoryReset" /\ pc' = "idle" /\ op' = op
    BY <1>6 DEF FactoryReset, Return
  <2> QED
    BY <2>1 DEF Progress, OkIsReported, Needs
<1>7. CASE CommandFails
  BY <1>3, <1>7 DEF CommandFails, Return
<1>8. CASE Sending
  <2>1. /\ \/ pc = "open" /\ pc' = "openWait"
           \/ pc = "connect" /\ pc' = "connectWait"
           \/ pc = "publish" /\ pc' = "publishWait"
           \/ pc = "disconnect" /\ pc' = "disconnectWait"
           \/ pc = "close" /\ pc' = "closeWait"
        /\ UNCHANGED <<late, op, gained, result>>
    BY <1>8 DEF Sending, SendOpen, SendConnect, SendPublish, SendDisconnect, SendClose, Sends
  <2> QED
    BY <2>1 DEF Progress, OkIsReported
<1>9. CASE Poll
  <2>1. pc \in Waits /\ op' = op
    BY <1>9, PollWhat
  <2>2. CASE Acts
    <3>1. /\ gained' = gained \cup {Wait[pc]} /\ late' = late /\ Onward(FALSE)
      BY <2>2 DEF Acts
    <3>2. /\ pc = "openWait" => Wait[pc] = "open"
          /\ pc = "connectWait" => Wait[pc] = "connect"
          /\ pc = "publishWait" => Wait[pc] = "publish"
          /\ pc = "disconnectWait" => Wait[pc] = "disconnect"
      BY WaitIs
    <3>3. CASE pc' # "idle"
      BY <2>1, <3>1, <3>2, <3>3, OnwardWhat DEF Progress, OkIsReported
    <3>4. CASE pc' = "idle"
      <4>1. pc \in {"connectWait", "publishWait", "closeWait", "disconnectWait", "statusWait"}
        BY <3>1, <3>4, OnwardWhat
      <4>2. late = "no" => Needs(op) \subseteq gained'
        BY <3>1, <3>2, <4>1 DEF Progress, Needs
      <4> QED
        BY <2>1, <3>1, <3>4, <4>2 DEF Progress, OkIsReported
    <3> QED
      BY <3>3, <3>4
  <2>3. CASE Return("Err")
    BY <1>3, <2>3 DEF Return
  <2>4. CASE UNCHANGED <<pc, late, gained, result>>
    BY <2>1, <2>4 DEF Progress, OkIsReported
  <2> QED
    BY <1>9, <2>2, <2>3, <2>4, PollWhat
<1>10. CASE Expire
  <2>1. Onward(TRUE) /\ late' = "yes" /\ op' = op
    BY <1>10 DEF Expire
  <2> QED
    BY <2>1, OnwardWhat DEF Progress, OkIsReported
<1> QED
  BY <1>1, <1>2, <1>4, <1>5, <1>6, <1>7, <1>8, <1>9, <1>10, NextSteps

(* The flag goes up with a context and down with all of them.              *)
LEMMA FlagStep ==
  ASSUME TypeInv, FlagInv, [Next]_vars
  PROVE  FlagInv'
<1>1. CASE CallBegins
  BY <1>1, CallBeginsWhat DEF FlagInv, ssl
<1>2. CASE ResetSslContext
  BY <1>2 DEF ResetSslContext, FlagInv, call
<1>3. CASE Configure
  <2>1. ctx \in Contexts /\ conf \in [Contexts -> {"none", "partial", "full"}]
    BY <1>3 DEF Configure, TypeInv
  <2>2. \/ conf' = [conf EXCEPT ![ctx] = "full"] \/ conf' = [conf EXCEPT ![ctx] = "partial"]
        \/ conf' = conf /\ flag' = flag /\ pc' = "idle"
    BY <1>3 DEF Configure, Configured, ConfigureFails, Return
  <2>3. CASE conf' = conf /\ flag' = flag /\ pc' = "idle"
    BY <1>3, <2>3 DEF Configure, FlagInv
  <2>4. CASE conf' = [conf EXCEPT ![ctx] = "full"] \/ conf' = [conf EXCEPT ![ctx] = "partial"]
    <3>1. conf'[ctx] # "none"
      BY <2>1, <2>4
    <3> QED
      BY <2>1, <3>1 DEF FlagInv
  <2> QED
    BY <2>2, <2>3, <2>4
<1>4. CASE SslEnable \/ CommandFails \/ Expire \/ Sending \/ Poll \/ ModemStep \/ UNCHANGED vars
  <2>1. UNCHANGED ssl
    BY <1>4, PollWhat
       DEF SslEnable, CommandFails, Expire, ModemStep, vars, Sending, SendOpen, SendConnect,
           SendPublish, SendDisconnect, SendClose, Sends
  <2>2. pc' = "sslEnable" => pc = "sslEnable"
    <3>1. CASE SslEnable \/ CommandFails \/ Sending
      BY <3>1 DEF SslEnable, CommandFails, Sending, SendOpen, SendConnect,
                  SendPublish, SendDisconnect, SendClose, Sends, Return
    <3>2. CASE Expire
      BY <3>2, OnwardWhat DEF Expire
    <3>3. CASE Poll
      BY <3>3, PollWhat, OnwardWhat DEF Acts, Return
    <3>4. CASE ModemStep \/ UNCHANGED vars
      BY <3>4 DEF ModemStep, call, vars
    <3> QED
      BY <1>4, <3>1, <3>2, <3>3, <3>4
  <2> QED
    BY <2>1, <2>2 DEF FlagInv, ssl
<1>5. CASE FactoryReset
  <2>1. /\ pc' = "idle"
        /\ flag' = "no" \/ lostReset' = "yes" \/ UNCHANGED ssl
    BY <1>5 DEF FactoryReset, Return
  <2> QED
    BY <2>1 DEF FlagInv, ssl
<1> QED
  BY <1>1, <1>2, <1>3, <1>4, <1>5, NextSteps

-----------------------------------------------------------------------------
LEMMA MqttInductive ==
  /\ Init => MqttInv
  /\ MqttInv /\ [Next]_vars => MqttInv'
<1>1. ASSUME Init PROVE MqttInv
  <2>1. <<>> \in Seq(Urcs) /\ None \in [Kinds -> Nat] /\ 0 \in 0..Rounds
    BY EmptySeq, MqttSessionAssumption DEF None, MqttSessionAssumption
  <2>2. TypeInv
    BY <1>1, <2>1 DEF Init, TypeInv, AllLabels, Subscribed, Waits
  <2>3. Counted
    BY <1>1, CountEmpty DEF Init, Counted, None
  <2> QED
    BY <1>1, <2>2, <2>3 DEF Init, MqttInv, Progress, FlagInv, OkIsReported
<1>2. ASSUME MqttInv, [Next]_vars PROVE MqttInv'
  BY <1>2, TypeStep, CountedStep, ProgressStep, FlagStep DEF MqttInv
<1> QED
  BY <1>1, <1>2

LEMMA MqttAlways == Spec => []MqttInv
BY MqttInductive, PTL DEF Spec

(* Types; a call that waits for a URC subscribed before it sent a command. *)
THEOREM TypeCorrect == Spec => []TypeOK
<1>1. MqttInv => TypeOK
  BY TypeIs DEF MqttInv
<1> QED
  BY <1>1, MqttAlways, PTL

(* Every success the driver acts on is a report the modem made and no      *)
(* other success was taken from.                                           *)
THEOREM NoForgedSuccessHolds == Spec => []NoForgedSuccess
<1>1. MqttInv => NoForgedSuccess
  <2> SUFFICES ASSUME MqttInv, NEW k \in Kinds PROVE used[k] <= acks[k]
    BY DEF NoForgedSuccess
  <2>1. heard \in Seq(Urcs) /\ used[k] \in Nat /\ acks[k] \in Nat
          /\ used[k] + Count(heard, k) <= acks[k]
    BY DEF MqttInv, TypeInv, Counted
  <2>2. Count(heard, k) \in Nat
    BY <2>1, CountType
  <2> QED
    BY <2>1, <2>2
<1> QED
  BY <1>1, MqttAlways, PTL

(* An Ok without an expired wait means that this very call saw every       *)
(* success report it needs.                                                *)
THEOREM OkIsReportedHolds == Spec => []OkIsReported
<1>1. MqttInv => OkIsReported
  BY DEF MqttInv
<1> QED
  BY <1>1, MqttAlways, PTL

(* MQTT over TLS is set up only on a modem with a context that was         *)
(* configured since its last factory reset, if no reset's answer was lost. *)
THEOREM SslAfterConfigureHolds == Spec => []SslAfterConfigure
<1>1. MqttInv => SslAfterConfigure
  BY DEF MqttInv, FlagInv, SslAfterConfigure
<1> QED
  BY <1>1, MqttAlways, PTL

-----------------------------------------------------------------------------
LEMMA StageIs ==
  /\ Stage("configure") = 6 /\ Stage("configureOnly") = 6 /\ Stage("disconnect") = 6
  /\ Stage("sslEnable") = 5 /\ Stage("disconnectWait") = 5 /\ Stage("open") = 4
  /\ Stage("statusWait") = 4 /\ Stage("openWait") = 3 /\ Stage("close") = 3
  /\ Stage("connect") = 2 /\ Stage("publish") = 2 /\ Stage("connectWait") = 1
  /\ Stage("publishWait") = 1 /\ Stage("closeWait") = 1 /\ Stage("factoryReset") = 1
  /\ Stage("idle") = 0
BY DEF Stage

Further == Stage(pc') < Stage(pc)
Counts == pc' = pc /\ round < round' /\ round' <= Rounds

Still == UNCHANGED <<pc, round>>

LEMMA OnwardFurther ==
  ASSUME NEW expired \in BOOLEAN, Onward(expired)
  PROVE  Further
BY OnwardWhat, StageIs DEF Further

LEMMA PollCounts ==
  ASSUME TypeInv, Poll
  PROVE  Further \/ Counts
<1>1. pc \in Waits /\ round \in Nat /\ Rounds \in Nat /\ round < Rounds
  BY PollWhat, MqttSessionAssumption DEF TypeInv, MqttSessionAssumption
<1>2. CASE Acts
  BY <1>2, OnwardFurther DEF Acts
<1>3. CASE Return("Err")
  BY <1>1, <1>3, StageIs DEF Return, Further, Waits
<1>4. CASE round' = round + 1 /\ pc' = pc
  BY <1>1, <1>4 DEF Counts
<1> QED
  BY <1>2, <1>3, <1>4, PollWhat

(* Each step of a call takes it to a later stage or uses a round of its    *)
(* wait up, with any number of rounds and whatever URCs come.              *)
THEOREM CallsEndHolds == Spec => CallsEnd
<1>1. ASSUME MqttInv, CallStep PROVE Further \/ Counts
  <2>1. CASE Configure
    BY <2>1, StageIs DEF Configure, Configured, ConfigureFails, Return, Further
  <2>2. CASE SslEnable \/ FactoryReset
    BY <2>2, StageIs DEF SslEnable, FactoryReset, Return, Further
  <2>3. CASE SendOpen \/ SendConnect \/ SendPublish \/ SendDisconnect \/ SendClose
    BY <2>3, StageIs
       DEF SendOpen, SendConnect, SendPublish, SendDisconnect, SendClose, Sends, Further
  <2>4. CASE CommandFails
    BY <2>4, StageIs DEF CommandFails, Kinds, Return, Further
  <2>5. CASE Poll
    BY <1>1, <2>5, PollCounts DEF MqttInv
  <2>6. CASE Expire
    BY <2>6, OnwardFurther DEF Expire
  <2> QED
    BY <1>1, <2>1, <2>2, <2>3, <2>4, <2>5, <2>6 DEF CallStep
<1>2. ASSUME MqttInv, Next, pc # "idle"
      PROVE  Further \/ Counts \/ (~CallStep /\ Still)
  <2>1. ~ResetSslContext /\ \A l, c : ~Call(l, c)
    BY <1>2 DEF ResetSslContext, Call
  <2>2. CallStep \/ ModemStep
    BY <1>2, <2>1 DEF Next, MqttConnectCall, MqttCall, DirectCall
  <2>3. ModemStep => Still
    BY DEF ModemStep, call, Still
  <2> QED
    BY <1>1, <1>2, <2>2, <2>3
<1>3. MqttInv /\ [Next]_vars =>
        [pc # "idle" => Further \/ Counts \/ (~CallStep /\ Still)]_vars
  BY <1>2
<1> QED
  BY MqttInductive, <1>3, PTL DEF Spec, CallsEnd, Further, Counts, Still
=============================================================================
