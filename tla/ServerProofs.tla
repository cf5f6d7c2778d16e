---------------------------- MODULE ServerProofs ----------------------------
(***************************************************************************)
(* Machine-checked proofs about Server, for every number of edits of the   *)
(* policy file and every set of broken versions.  ServerIInv ties what is  *)
(* still deferred to what may still run: that relation is what makes the   *)
(* metadata store close last.                                              *)
(***************************************************************************)
EXTENDS Server, SequenceTheorems, TLAPS

Early == {"off", "open", "init", "policy", "watch"}
Leaving == {"unwind", "joinSweeper", "joinReload", "exited"}

(* The calls run() defers, in that order. *)
Calls == <<"close", "stop", "stopPolicyReload", "stopRetentionCleanup">>

CallName == {"close", "stop", "stopPolicyReload", "stopRetentionCleanup"}
Prefix(s) == s \in Seq(CallName) /\ Len(s) <= 4 /\ \A i \in 1..Len(s) : s[i] = Calls[i]

Depth == Len(defers)

Deferred ==
  /\ Prefix(defers)
  /\ main \in {"off", "open", "exited"} => Depth = 0
  /\ main \in {"init", "policy", "watch"} => Depth = 1
  /\ main = "joinReload" => Depth = 2
  /\ main \in {"retention", "joinSweeper"} => Depth = 3
  /\ main \in {"processor", "wait"} => Depth = 4
  /\ storeOpen <=> Depth # 0

(* A loop does not run before its start is deferred, nor after its join. *)
LoopsBracketed ==
  /\ main \in Early => reload.pc = "off"
  /\ main \in Early \cup {"retention"} => sweeper.pc = "off"
  /\ main = "exited" \/ (main = "unwind" /\ Depth \in {0, 1, 2}) => reload.pc \in {"off", "ended"}
  /\ main \in {"exited", "joinReload"} \/ (main = "unwind" /\ Depth \in {0, 1, 2, 3}) => sweeper.pc \in {"off", "ended"}

AdaptersBracketed ==
  /\ main \in Early \cup {"retention", "processor"} => milter.pc = "off" /\ http.pc = "off"
  /\ main \in Leaving => milter.pc \in {"off", "received"} /\ http.pc \in {"off", "received"}
  /\ session = "process" => milter.pc \in {"serving", "closing"} \/ milter.err
  /\ api.pc # "idle" => http.pc \in {"serving", "closing"} \/ http.timedOut

(* A reload in progress has read a version, and there is a policy to serve. *)
PolicyHeld ==
  /\ reload.pc = "swap" => reload.seen # 0
  /\ api.pc = "swap" => api.seen # 0
  /\ config.policy /\ (main \in {"watch", "retention", "processor", "wait"} \/ milter.pc # "off") => current # 0
  /\ current \notin Broken

ReloadType == [pc : {"off", "select", "read", "swap", "ended"}, cancelled : BOOLEAN, seen : 0..MaxVersion]
SweeperType == [pc : {"off", "select", "sweep", "ended"}, cancelled : BOOLEAN, seen : {0}]
AdapterType ==
  [pc : {"off", "bind", "serving", "closing", "returned", "received"}, err : BOOLEAN, timedOut : BOOLEAN]
ApiType == [pc : {"idle", "swap"}, seen : 0..MaxVersion]

Types ==
  /\ main \in Early \cup {"retention", "processor", "wait"} \cup Leaving
  /\ hup \in {0, 1} /\ file \in 1..MaxVersion /\ current \in 0..MaxVersion
  /\ reload \in ReloadType /\ sweeper \in SweeperType
  /\ milter \in AdapterType /\ http \in AdapterType
  /\ session \in {"none", "process"} /\ api \in ApiType

ServerIInv == Types /\ Deferred /\ LoopsBracketed /\ AdaptersBracketed /\ PolicyHeld

-----------------------------------------------------------------------------
(* The stack of deferred calls: pushing the next ones and popping the last. *)

(* Defer: the next calls extend the prefix. *)
LEMMA PushLaw ==
  ASSUME NEW s, Prefix(s), NEW c \in Seq(CallName), Len(s) + Len(c) <= 4,
         \A j \in 1..Len(c) : c[j] = Calls[Len(s) + j]
  PROVE  Prefix(s \o c) /\ Len(s \o c) = Len(s) + Len(c)
<1>1. s \in Seq(CallName) /\ Len(s) \in Nat /\ Len(c) \in Nat
  BY LenProperties DEF Prefix
<1>2. /\ s \o c \in Seq(CallName)
      /\ Len(s \o c) = Len(s) + Len(c)
      /\ \A i \in 1..Len(s) + Len(c) : (s \o c)[i] = IF i <= Len(s) THEN s[i] ELSE c[i - Len(s)]
  BY <1>1, ConcatProperties, Zenon
<1>3. ASSUME NEW i \in 1..Len(s \o c) PROVE (s \o c)[i] = Calls[i]
  <2>1. CASE i <= Len(s)
    BY <2>1, <1>1, <1>2 DEF Prefix
  <2>2. CASE i > Len(s)
    <3>1. i - Len(s) \in 1..Len(c) /\ Len(s) + (i - Len(s)) = i
      BY <2>2, <1>1, <1>2
    <3> QED
      BY <3>1, <2>2, <1>1, <1>2
  <2> QED
    BY <2>1, <2>2, <1>1, <1>2
<1> QED
  BY <1>2, <1>3 DEF Prefix

(* No call is deferred exactly at depth 0. *)
LEMMA EmptyLaw ==
  ASSUME NEW s, Prefix(s)
  PROVE  s = <<>> <=> Len(s) = 0
BY LenProperties, EmptySeq DEF Prefix

(* Unwind: the last call is known from the depth, and the rest is a prefix. *)
LEMMA PopLaw ==
  ASSUME NEW s, Prefix(s), Len(s) # 0
  PROVE  /\ Len(s) \in 1..4 /\ s[Len(s)] = Calls[Len(s)]
         /\ Prefix(SubSeq(s, 1, Len(s) - 1)) /\ Len(SubSeq(s, 1, Len(s) - 1)) = Len(s) - 1
<1>1. s \in Seq(CallName) /\ Len(s) \in 1..4
  <2>1. s \in Seq(CallName) /\ Len(s) \in Nat
    BY LenProperties DEF Prefix
  <2>2. \A n \in Nat : n # 0 /\ n <= 4 => n \in 1..4
    OBVIOUS
  <2> QED
    BY <2>1, <2>2 DEF Prefix
<1>2. \A i \in 1..Len(s) - 1 : s[i] \in CallName
  BY <1>1, ElementOfSeq
<1>3. /\ SubSeq(s, 1, Len(s) - 1) \in Seq(CallName)
      /\ Len(SubSeq(s, 1, Len(s) - 1)) = Len(s) - 1
      /\ \A i \in 1..Len(s) - 1 : SubSeq(s, 1, Len(s) - 1)[i] = s[i]
  <2> DEFINE n == Len(s) - 1
  <2>1. n \in Int /\ 1 \in Int /\ n - 1 + 1 = n /\ (1 <= n \/ n = 0)
    BY <1>1
  <2>2. \A i \in 1..n : s[i] \in CallName
    BY <1>2
  <2> HIDE DEF n
  <2>3. /\ SubSeq(s, 1, n) \in Seq(CallName)
        /\ Len(SubSeq(s, 1, n)) = IF 1 <= n THEN n - 1 + 1 ELSE 0
        /\ \A i \in 1..n - 1 + 1 : SubSeq(s, 1, n)[i] = s[1 + i - 1]
    BY <2>1, <2>2, SubSeqProperties
  <2>4. Len(SubSeq(s, 1, n)) = n /\ \A i \in 1..n : SubSeq(s, 1, n)[i] = s[i]
    BY <2>1, <2>3
  <2> QED
    BY <2>3, <2>4 DEF n
<1> QED
  BY <1>1, <1>3 DEF Prefix

(* What the three places that defer push. *)
LEMMA DeferLaw ==
  ASSUME NEW s, Prefix(s)
  PROVE  /\ Len(s) = 0 => Prefix(s \o <<"close">>) /\ Len(s \o <<"close">>) = 1
         /\ Len(s) = 1 => /\ Prefix(s \o <<"stop", "stopPolicyReload">>)
                          /\ Len(s \o <<"stop", "stopPolicyReload">>) = 3
         /\ Len(s) = 3 => Prefix(s \o <<"stopRetentionCleanup">>) /\ Len(s \o <<"stopRetentionCleanup">>) = 4
<1>1. CASE Len(s) = 0
  <2> DEFINE c == <<"close">>
  <2>1. c \in Seq(CallName) /\ Len(c) = 1
    BY DEF CallName
  <2>2. \A j \in 1..Len(c) : c[j] = Calls[Len(s) + j]
    BY <1>1 DEF Calls
  <2> HIDE DEF c
  <2>a. c \in Seq(CallName) /\ Len(s) + Len(c) <= 4
    BY <1>1, <2>1
  <2>3. Prefix(s \o c) /\ Len(s \o c) = Len(s) + Len(c)
    BY <2>a, <2>2, PushLaw, Zenon
  <2> QED
    BY <1>1, <2>1, <2>3 DEF c
<1>2. CASE Len(s) = 1
  <2> DEFINE c == <<"stop", "stopPolicyReload">>
  <2>1. c \in Seq(CallName) /\ Len(c) = 2
    BY DEF CallName
  <2>2. \A j \in 1..Len(c) : c[j] = Calls[Len(s) + j]
    BY <1>2 DEF Calls
  <2> HIDE DEF c
  <2>a. c \in Seq(CallName) /\ Len(s) + Len(c) <= 4
    BY <1>2, <2>1
  <2>3. Prefix(s \o c) /\ Len(s \o c) = Len(s) + Len(c)
    BY <2>a, <2>2, PushLaw, Zenon
  <2> QED
    BY <1>2, <2>1, <2>3 DEF c
<1>3. CASE Len(s) = 3
  <2> DEFINE c == <<"stopRetentionCleanup">>
  <2>1. c \in Seq(CallName) /\ Len(c) = 1
    BY DEF CallName
  <2>2. \A j \in 1..Len(c) : c[j] = Calls[Len(s) + j]
    BY <1>3 DEF Calls
  <2> HIDE DEF c
  <2>a. c \in Seq(CallName) /\ Len(s) + Len(c) <= 4
    BY <1>3, <2>1
  <2>3. Prefix(s \o c) /\ Len(s \o c) = Len(s) + Len(c)
    BY <2>a, <2>2, PushLaw, Zenon
  <2> QED
    BY <1>3, <2>1, <2>3 DEF c
<1> QED
  BY <1>1, <1>2, <1>3

-----------------------------------------------------------------------------
(* One step of the server. *)

(* An adapter record after a step: errors are never taken back. *)
Moved(a, b, pc) ==
  /\ b \in AdapterType /\ b.pc = pc
  /\ a.err => b.err
  /\ a.timedOut => b.timedOut

(* What the steps of an adapter do to its record. *)
LEMMA AdapterLaws ==
  ASSUME NEW a \in AdapterType
  PROVE  /\ \A pc \in {"bind", "serving", "closing", "received"} : Moved(a, [a EXCEPT !.pc = pc], pc)
         /\ Moved(a, [a EXCEPT !.pc = "closing", !.err = TRUE], "closing")
         /\ Moved(a, Returned(a, FALSE), "returned")
         /\ Moved(a, Returned(a, TRUE), "returned") /\ Returned(a, TRUE).err
         /\ LET b == [Returned(a, TRUE) EXCEPT !.timedOut = TRUE] IN Moved(a, b, "returned") /\ b.err /\ b.timedOut
BY DEF AdapterType, Returned, Moved

(* From any state that satisfies the invariant, a step leads to one that does. *)
LEMMA ServerStep == ServerIInv /\ [Next]_vars => ServerIInv'
<1> SUFFICES ASSUME ServerIInv, [Next]_vars PROVE ServerIInv'
  OBVIOUS
<1> USE ServerAssumption DEF ServerIInv, Types, Deferred, LoopsBracketed, AdaptersBracketed, PolicyHeld,
        Early, Leaving, mainVars, policyVars, adapterVars
<1>d. UNCHANGED defers => Depth' = Depth /\ (Prefix(defers) => Prefix(defers'))
  BY DEF Depth, Prefix
<1>0. CASE UNCHANGED vars
  BY <1>0, <1>d DEF vars
<1>1. CASE OpenStore
  <2>1. Prefix(defers) /\ Depth = 0
    BY <1>1 DEF OpenStore
  <2>a. Prefix(defers \o <<"close">>) /\ Len(defers \o <<"close">>) = 1
    BY <2>1, DeferLaw DEF Depth
  <2>2. UNCHANGED defers \/ (Prefix(defers') /\ Depth' = 1)
    BY <1>1, <2>a DEF Depth, OpenStore, Defer, Fail
  <2> QED
    BY <1>1, <1>d, <2>1, <2>2 DEF OpenStore, Defer, Fail
<1>2. CASE watchPolicyReload
  <2>1. Prefix(defers) /\ Depth = 1
    BY <1>2 DEF watchPolicyReload
  <2>a. Prefix(defers \o <<"stop", "stopPolicyReload">>) /\ Len(defers \o <<"stop", "stopPolicyReload">>) = 3
    BY <2>1, DeferLaw DEF Depth
  <2>2. (Prefix(defers') /\ Depth' = 3)
    BY <1>2, <2>a DEF Depth, watchPolicyReload, Defer
  <2>3. reload' \in ReloadType /\ reload'.pc = "select"
    BY <1>2, <1>d DEF watchPolicyReload, ReloadType
  <2> QED
    BY <1>2, <1>d, <2>1, <2>2, <2>3 DEF watchPolicyReload, Defer
<1>3. CASE watchRetentionCleanup
  <2>1. Prefix(defers) /\ Depth = 3
    BY <1>3 DEF watchRetentionCleanup
  <2>a. Prefix(defers \o <<"stopRetentionCleanup">>) /\ Len(defers \o <<"stopRetentionCleanup">>) = 4
    BY <2>1, DeferLaw DEF Depth
  <2>2. UNCHANGED defers \/ (Prefix(defers') /\ Depth' = 4)
    BY <1>3, <2>a DEF Depth, watchRetentionCleanup, Defer, Fail
  <2>3. sweeper' \in SweeperType \/ UNCHANGED sweeper
    BY <1>3, <1>d DEF watchRetentionCleanup, SweeperType
  <2>4. main' = "unwind" => Depth' \notin {0, 1, 2}
    BY <1>3, <1>d, <2>1 DEF watchRetentionCleanup, Fail
  <2> QED
    BY <1>3, <1>d, <2>1, <2>2, <2>3, <2>4 DEF watchRetentionCleanup, Defer, Fail, SweeperType
<1>4. CASE Unwind
  <2>1. Prefix(defers) /\ Len(defers) # 0
    BY <1>4, EmptyLaw DEF Unwind
  <2>2. Depth \in 1..4 /\ NextDefer.call = Calls[Depth]
    BY <2>1, PopLaw DEF NextDefer, Depth
  <2>3. Prefix(defers') /\ Depth' = Depth - 1
    BY <1>4, <2>1, PopLaw DEF Unwind, NextDefer, Depth
  <2>4. reload' \in ReloadType /\ reload'.pc = reload.pc /\ reload'.seen = reload.seen
    BY <1>4 DEF Unwind, CancelReload, ReloadType
  <2>5. sweeper' \in SweeperType /\ sweeper'.pc = sweeper.pc
    BY <1>4 DEF Unwind, SweeperType
  <2>6. CASE Depth = 4
    <3>1. NextDefer.call = "stopRetentionCleanup"
      BY <2>2, <2>6 DEF Calls
    <3> QED
      BY <1>4, <2>3, <2>4, <2>5, <2>6, <3>1 DEF Unwind
  <2>7. CASE Depth = 3
    <3>1. NextDefer.call = "stopPolicyReload"
      BY <2>2, <2>7 DEF Calls
    <3> QED
      BY <1>4, <2>3, <2>4, <2>5, <2>7, <3>1 DEF Unwind
  <2>8. CASE Depth = 2
    <3>1. NextDefer.call = "stop"
      BY <2>2, <2>8 DEF Calls
    <3> QED
      BY <1>4, <2>3, <2>4, <2>5, <2>8, <3>1 DEF Unwind
  <2>9. CASE Depth = 1
    <3>1. NextDefer.call = "close"
      BY <2>2, <2>9 DEF Calls
    <3> QED
      BY <1>4, <2>3, <2>4, <2>5, <2>9, <3>1 DEF Unwind
  <2> QED
    BY <2>2, <2>6, <2>7, <2>8, <2>9
<1>5. CASE InitDrivers
  BY <1>5, <1>d DEF InitDrivers, Fail, ReloadType, SweeperType, AdapterType, ApiType
<1>6. CASE NewStore
  BY <1>6, <1>d DEF NewStore, Fail, ReloadType, SweeperType, AdapterType, ApiType
<1>7. CASE StartAdapters
  <2>1. \/ main' = "wait" /\ Moved(milter, milter', "bind") /\ Moved(http, http', "bind")
        \/ main' = "unwind" /\ UNCHANGED <<milter, http>>
    BY <1>7, <1>d, AdapterLaws DEF StartAdapters, Fail
  <2>2. CASE main' = "wait"
    BY <1>7, <1>d, <2>1, <2>2 DEF StartAdapters, Moved
  <2>3. CASE main' = "unwind"
    <3>1. Depth' = Depth /\ Depth \notin {0, 1, 2, 3}
      BY <1>7, <1>d DEF StartAdapters
    <3> QED
      BY <1>7, <1>d, <2>1, <2>3, <3>1 DEF StartAdapters
  <2> QED
    BY <2>1, <2>2, <2>3
<1>8. CASE ReceiveErr
  <2>1. ASSUME milter.pc = "returned", milter' = [milter EXCEPT !.pc = "received"], UNCHANGED http,
               main' = IF http.pc = "received" THEN "unwind" ELSE main
        PROVE  ServerIInv'
    <3>1. Moved(milter, milter', "received")
      BY <2>1, AdapterLaws
    <3>2. CASE http.pc = "received"
      <4>1. Depth' = Depth /\ Depth \notin {0, 1, 2, 3}
        BY <1>8, <1>d DEF ReceiveErr
      <4> QED
        BY <1>8, <1>d, <2>1, <3>1, <3>2, <4>1 DEF ReceiveErr, Moved
    <3>3. CASE http.pc # "received"
      BY <1>8, <1>d, <2>1, <3>1, <3>3 DEF ReceiveErr, Moved
    <3> QED
      BY <3>2, <3>3
  <2>2. ASSUME http.pc = "returned", http' = [http EXCEPT !.pc = "received"], UNCHANGED milter,
               main' = IF milter.pc = "received" THEN "unwind" ELSE main
        PROVE  ServerIInv'
    <3>1. Moved(http, http', "received")
      BY <2>2, AdapterLaws
    <3>2. CASE milter.pc = "received"
      <4>1. Depth' = Depth /\ Depth \notin {0, 1, 2, 3}
        BY <1>8, <1>d DEF ReceiveErr
      <4> QED
        BY <1>8, <1>d, <2>2, <3>1, <3>2, <4>1 DEF ReceiveErr, Moved
    <3>3. CASE milter.pc # "received"
      BY <1>8, <1>d, <2>2, <3>1, <3>3 DEF ReceiveErr, Moved
    <3> QED
      BY <3>2, <3>3
  <2> QED
    BY <1>8, <1>d, <2>1, <2>2 DEF ReceiveErr
<1>9. CASE Join
  <2>1. CASE main = "joinSweeper"
    <3>1. Depth' = Depth /\ Depth \notin {0, 1, 2}
      BY <1>9, <1>d, <2>1 DEF Join
    <3> QED
      BY <1>9, <1>d, <2>1, <3>1 DEF Join
  <2>2. CASE main = "joinReload"
    BY <1>9, <1>d, <2>2 DEF Join
  <2> QED
    BY <1>9, <1>d, <2>1, <2>2 DEF Join
<1>10. CASE Exit
  <2>1. Depth = 0
    BY <1>10, EmptyLaw DEF Exit, Depth
  <2> QED
    BY <1>10, <1>d, <2>1 DEF Exit
<1>11. CASE EditPolicy
  BY <1>11, <1>d DEF EditPolicy, ReloadType, SweeperType, AdapterType, ApiType
<1>12. CASE Hangup
  BY <1>12, <1>d DEF Hangup, ReloadType, SweeperType, AdapterType, ApiType
<1>13. CASE Terminate
  BY <1>13, <1>d DEF Terminate, Running, ReloadType, SweeperType, AdapterType, ApiType
<1>14. CASE ReloadEnds
  BY <1>14, <1>d DEF ReloadEnds, Running, ReloadType, SweeperType, AdapterType, ApiType
<1>15. CASE handleSIGHUP
  BY <1>15, <1>d DEF handleSIGHUP, Running, ReloadType, SweeperType, AdapterType, ApiType
<1>16. CASE ReloadRead
  <2>1. file \in 0..MaxVersion /\ file # 0
    OBVIOUS
  <2>2. reload' \in ReloadType /\ reload'.pc = "swap" /\ reload'.seen = file
    BY <1>16, <1>d, <2>1 DEF ReloadRead, ReloadType
  <2> QED
    BY <1>16, <1>d, <2>1, <2>2 DEF ReloadRead, Running, ReloadType
<1>17. CASE ReloadSwap
  BY <1>17, <1>d DEF ReloadSwap, Running, Swapped, ReloadType, SweeperType, AdapterType, ApiType
<1>18. CASE ApiRead
  BY <1>18, <1>d DEF ApiRead, Running, ReloadType, SweeperType, AdapterType, ApiType
<1>19. CASE ApiSwap
  BY <1>19, <1>d DEF ApiSwap, Running, Swapped, ReloadType, SweeperType, AdapterType, ApiType
<1>20. CASE SweeperEnds
  BY <1>20, <1>d DEF SweeperEnds, Running, ReloadType, SweeperType, AdapterType, ApiType
<1>21. CASE SweepBegin
  BY <1>21, <1>d DEF SweepBegin, Running, ReloadType, SweeperType, AdapterType, ApiType
<1>22. CASE SweepEnd
  BY <1>22, <1>d DEF SweepEnd, Running, ReloadType, SweeperType, AdapterType, ApiType
<1>23. CASE MilterListen
  <2>1. \/ Moved(milter, milter', "serving")
        \/ Moved(milter, milter', "returned") /\ milter'.err
    BY <1>23, <1>d, AdapterLaws DEF MilterListen, Running
  <2> QED
    BY <1>23, <1>d, <2>1 DEF MilterListen, Running, Moved
<1>24. CASE MilterServeFails
  <2>1. Moved(milter, milter', "returned") /\ milter'.err
    BY <1>24, <1>d, AdapterLaws DEF MilterServeFails, Running
  <2> QED
    BY ZenonT(30), <1>24, <1>d, <2>1 DEF MilterServeFails, Running, Moved
<1>25. CASE MilterShutdown
  <2>1. Moved(milter, milter', "closing")
    BY <1>25, <1>d, AdapterLaws DEF MilterShutdown, Running
  <2> QED
    BY <1>25, <1>d, <2>1 DEF MilterShutdown, Running, Moved
<1>26. CASE MilterClosed
  <2>1. Moved(milter, milter', "returned") /\ (session # "none" => milter'.err)
    BY <1>26, <1>d, AdapterLaws DEF MilterClosed, Running
  <2> QED
    BY ZenonT(30), <1>26, <1>d, <2>1 DEF MilterClosed, Running, Moved
<1>27. CASE SessionBegin
  BY <1>27, <1>d DEF SessionBegin, Running, ReloadType, SweeperType, AdapterType, ApiType
<1>28. CASE SessionEnd
  BY <1>28, <1>d DEF SessionEnd, Running, ReloadType, SweeperType, AdapterType, ApiType
<1>29. CASE HttpListen
  <2>1. Moved(http, http', "serving") \/ Moved(http, http', "returned")
    BY <1>29, <1>d, AdapterLaws DEF HttpListen, Running
  <2> QED
    BY <1>29, <1>d, <2>1 DEF HttpListen, Running, Moved
<1>30. CASE HttpShutdown
  <2>1. Moved(http, http', "closing")
    BY <1>30, <1>d, AdapterLaws DEF HttpShutdown, Running
  <2> QED
    BY <1>30, <1>d, <2>1 DEF HttpShutdown, Running, Moved
<1>31. CASE HttpClosed
  <2>1. Moved(http, http', "returned") /\ (api.pc # "idle" => http'.timedOut)
    BY <1>31, <1>d, AdapterLaws DEF HttpClosed, Running
  <2> QED
    BY ZenonT(30), <1>31, <1>d, <2>1 DEF HttpClosed, Running, Moved
<1>32. CASE Finished
  BY <1>32, <1>d, <1>0 DEF Finished
<1> QED
  BY <1>0, <1>1, <1>2, <1>3, <1>4, <1>5, <1>6, <1>7, <1>8, <1>9, <1>10, <1>11, <1>12,
     <1>13, <1>14, <1>15, <1>16, <1>17, <1>18, <1>19, <1>20, <1>21, <1>22, <1>23, <1>24,
     <1>25, <1>26, <1>27, <1>28, <1>29, <1>30, <1>31, <1>32 DEF Next, MainStep, ReloadStep

(* The command starts with nothing deferred and nothing running. *)
LEMMA ServerFresh ==
  ASSUME Fresh, main \in {"off", "open"}, file \in 1..MaxVersion
  PROVE  ServerIInv
<1>1. Prefix(<<>>) /\ Len(<<>>) = 0
  BY EmptySeq DEF Prefix
<1>2. Types
  BY ServerAssumption DEF Fresh, Types, Loop, Adapter, ReloadType, SweeperType, AdapterType, ApiType, Early, Leaving
<1>3. Deferred
  BY <1>1 DEF Fresh, Deferred, Depth
<1>4. LoopsBracketed /\ AdaptersBracketed /\ PolicyHeld
  BY ServerAssumption DEF Fresh, LoopsBracketed, AdaptersBracketed, PolicyHeld, Loop, Adapter, Early, Leaving
<1> QED
  BY <1>2, <1>3, <1>4 DEF ServerIInv

(* The invariant says more than ServerInv. *)
LEMMA ServerIInvImplies == ServerIInv => ServerInv
<1> SUFFICES ASSUME ServerIInv PROVE ServerInv
  OBVIOUS
<1> USE DEF ServerIInv
<1>1. TypeOK
  BY DEF Types, TypeOK, Early, Leaving, ReloadType, SweeperType, AdapterType
<1>2. PolicyValid
  BY DEF PolicyHeld, PolicyValid
<1>3. ClosesLast
  <2> SUFFICES ASSUME ~storeOpen, reload.pc # "off"
               PROVE  /\ reload.pc = "ended" /\ sweeper.pc \in {"off", "ended"}
                      /\ milter.pc \in {"off", "received"} /\ http.pc \in {"off", "received"}
                      /\ session = "process" => milter.err
                      /\ api.pc # "idle" => http.timedOut
    BY DEF ClosesLast
  <2>1. Depth = 0
    BY DEF Deferred
  <2>2. main \in {"unwind", "exited"}
    BY <2>1 DEF Types, Deferred, LoopsBracketed, Early, Leaving
  <2> QED
    BY <2>1, <2>2 DEF LoopsBracketed, AdaptersBracketed, Leaving
<1> QED
  BY <1>1, <1>2, <1>3 DEF ServerInv

-----------------------------------------------------------------------------
(* An invalid policy is never applied, there is a policy while the process  *)
(* serves, and the store closes after everything that uses it: for any      *)
(* number of edits, signals and reloads, and any set of broken versions.    *)
THEOREM ServerCorrect == Spec => []ServerInv
<1>1. Init => ServerIInv
  <2> SUFFICES ASSUME Init PROVE ServerIInv
    OBVIOUS
  <2>1. file \in 1..MaxVersion
    BY ServerAssumption DEF Init
  <2> QED
    BY <2>1, ServerFresh DEF Init
<1> QED
  BY <1>1, ServerStep, ServerIInvImplies, PTL DEF Spec
=============================================================================
