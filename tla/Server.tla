------------------------------- MODULE Server -------------------------------
(* cmd/attachra: the life of the server process.  Start-up with its early   *)
(* error returns, the two adapters, the SIGHUP watcher and the retention    *)
(* loop, policy reloads by signal and by API call, SIGTERM, and the         *)
(* deferred teardown.                                                       *)
(*                                                                          *)
(* The policy file is a version number; those in Broken do not validate.    *)
EXTENDS Integers, Sequences

CONSTANTS
  MaxVersion,   \* bound: the last edit of the policy file
  Broken        \* versions that do not validate

ASSUME ServerAssumption == MaxVersion \in Nat \ {0} /\ Broken \subseteq 1..MaxVersion

VARIABLES
  config,       \* whether a policy and retention are configured
  main, defers, \* where run() is, and its deferred calls, the last one last
  failed,       \* firstErr, or an early error
  ctx,          \* the signal context is cancelled
  storeOpen,    \* the metadata store
  file,         \* version of the policy file on disk
  current,      \* policy.Store.current, 0 without a store
  hup, watched, \* hupCh (buffer 1) and whether signals are relayed to it
  reload,       \* the SIGHUP loop
  sweeper,      \* the retention loop
  milter, session,      \* the milter adapter and a session of it
  http, api,            \* the HTTP adapter and POST /policies/reload
  asked         \* history: the file when SIGHUP was last sent

mainVars == <<main, defers, failed>>
policyVars == <<file, current, asked>>
adapterVars == <<milter, session, http, api>>
vars == <<config, mainVars, ctx, storeOpen, policyVars, hup, watched, reload, sweeper, adapterVars>>

Loop == [pc |-> "off", cancelled |-> FALSE, seen |-> 0]
Adapter == [pc |-> "off", err |-> FALSE, timedOut |-> FALSE]

Fresh ==
  /\ defers = <<>> /\ failed = FALSE
  /\ ctx = FALSE /\ storeOpen = FALSE /\ current = 0 /\ asked = 0
  /\ hup = 0 /\ watched = FALSE
  /\ reload = Loop /\ sweeper = Loop
  /\ milter = Adapter /\ session = "none"
  /\ http = Adapter /\ api = [pc |-> "idle", seen |-> 0]

Init ==
  /\ config \in [policy : BOOLEAN, retention : BOOLEAN] /\ file \in {1} \cup Broken
  /\ main = "open" /\ Fresh

-----------------------------------------------------------------------------
(* run: start-up.  Every step may fail and return 1, unwinding what has     *)
(* been deferred so far.                                                    *)

Defer(calls) == defers' = defers \o calls
Fail == main' = "unwind" /\ failed' = TRUE

OpenStore ==
  /\ main = "open"
  /\ \/ main' = "init" /\ storeOpen' = TRUE /\ Defer(<<"close">>) /\ UNCHANGED failed
     \/ Fail /\ UNCHANGED <<storeOpen, defers>>
  /\ UNCHANGED <<config, ctx, policyVars, hup, watched, reload, sweeper, adapterVars>>

(* storage.New and link.NewEngine *)
InitDrivers ==
  /\ main = "init"
  /\ (main' = "policy" /\ UNCHANGED failed) \/ Fail
  /\ UNCHANGED <<config, defers, ctx, storeOpen, policyVars, hup, watched, reload, sweeper, adapterVars>>

(* policy.NewStore, if a policy is configured *)
NewStore ==
  /\ main = "policy"
  /\ IF config.policy /\ file \in Broken
       THEN Fail /\ UNCHANGED current
       ELSE main' = "watch" /\ current' = (IF config.policy THEN file ELSE 0) /\ UNCHANGED failed
  /\ UNCHANGED <<config, defers, ctx, storeOpen, file, asked, hup, watched, reload, sweeper, adapterVars>>

(* signal.NotifyContext and watchPolicyReload *)
watchPolicyReload ==
  /\ main = "watch" /\ main' = "retention"
  /\ Defer(<<"stop", "stopPolicyReload">>)
  /\ watched' = TRUE /\ reload' = [reload EXCEPT !.pc = "select"]
  /\ UNCHANGED <<config, failed, ctx, storeOpen, policyVars, hup, sweeper, adapterVars>>

(* retention.New and watchRetentionCleanup *)
watchRetentionCleanup ==
  /\ main = "retention"
  /\ \/ /\ main' = "processor" /\ Defer(<<"stopRetentionCleanup">>)
        /\ sweeper' = IF config.retention THEN [sweeper EXCEPT !.pc = "select"] ELSE sweeper
        /\ UNCHANGED failed
     \/ config.retention /\ Fail /\ UNCHANGED <<defers, sweeper>>
  /\ UNCHANGED <<config, ctx, storeOpen, policyVars, hup, watched, reload, adapterVars>>

(* Templates, processor and trusted proxies; then both adapters start. *)
StartAdapters ==
  /\ main = "processor"
  /\ \/ /\ main' = "wait" /\ UNCHANGED failed
        /\ milter' = [milter EXCEPT !.pc = "bind"] /\ http' = [http EXCEPT !.pc = "bind"]
     \/ Fail /\ UNCHANGED <<milter, http>>
  /\ UNCHANGED <<config, defers, ctx, storeOpen, policyVars, hup, watched, reload, sweeper, session, api>>

(* One of the two receives from errCh; run returns after the second. *)
ReceiveErr ==
  /\ main = "wait"
  /\ \/ /\ milter.pc = "returned" /\ milter' = [milter EXCEPT !.pc = "received"] /\ UNCHANGED http
        /\ failed' = (failed \/ milter.err)
        /\ main' = IF http.pc = "received" THEN "unwind" ELSE main
     \/ /\ http.pc = "returned" /\ http' = [http EXCEPT !.pc = "received"] /\ UNCHANGED milter
        /\ failed' = (failed \/ http.err)
        /\ main' = IF milter.pc = "received" THEN "unwind" ELSE main
  /\ UNCHANGED <<config, defers, ctx, storeOpen, policyVars, hup, watched, reload, sweeper, session, api>>

-----------------------------------------------------------------------------
(* run: the deferred calls, last first. *)

(* Mutant: in the order they were deferred. *)
NextDeferFIFO == [call |-> Head(defers), rest |-> Tail(defers)]

NextDefer == [call |-> defers[Len(defers)], rest |-> SubSeq(defers, 1, Len(defers) - 1)]

(* Mutant: the loop is left to the parent context. *)
CancelReloadParentOnly == UNCHANGED reload

(* stop of watchPolicyReload cancels the loop's own context. *)
CancelReload == reload' = [reload EXCEPT !.cancelled = TRUE]

Unwind ==
  /\ main = "unwind" /\ defers # <<>>
  /\ defers' = NextDefer.rest
  /\ \/ /\ NextDefer.call = "stopRetentionCleanup" /\ main' = "joinSweeper"
        /\ sweeper' = [sweeper EXCEPT !.cancelled = TRUE]
        /\ UNCHANGED <<ctx, storeOpen, watched, reload>>
     \/ /\ NextDefer.call = "stopPolicyReload" /\ main' = "joinReload"
        /\ watched' = FALSE /\ CancelReload
        /\ UNCHANGED <<ctx, storeOpen, sweeper>>
     \/ /\ NextDefer.call = "stop" /\ ctx' = TRUE
        /\ UNCHANGED <<main, storeOpen, watched, reload, sweeper>>
     \/ /\ NextDefer.call = "close" /\ storeOpen' = FALSE
        /\ UNCHANGED <<main, ctx, watched, reload, sweeper>>
  /\ UNCHANGED <<config, failed, policyVars, hup, adapterVars>>

(* wg.Wait *)
Join ==
  /\ \/ main = "joinSweeper" /\ sweeper.pc \in {"off", "ended"}
     \/ main = "joinReload" /\ reload.pc = "ended"
  /\ main' = "unwind"
  /\ UNCHANGED <<config, defers, failed, ctx, storeOpen, policyVars, hup, watched, reload, sweeper, adapterVars>>

Exit ==
  /\ main = "unwind" /\ defers = <<>> /\ main' = "exited"
  /\ UNCHANGED <<config, defers, failed, ctx, storeOpen, policyVars, hup, watched, reload, sweeper, adapterVars>>

Running == main # "exited"

-----------------------------------------------------------------------------
(* The outside world: edits of the policy file, SIGHUP, SIGTERM. *)

EditPolicy ==
  /\ file < MaxVersion /\ file' = file + 1
  /\ UNCHANGED <<config, mainVars, ctx, storeOpen, current, asked, hup, watched, reload, sweeper, adapterVars>>

(* Mutants: hupCh has no buffer; hupCh queues without bound. *)
HangupUnbuffered ==
  /\ watched /\ asked' = file
  /\ hup' = IF reload.pc = "select" THEN 1 ELSE hup
  /\ UNCHANGED <<config, mainVars, ctx, storeOpen, file, current, watched, reload, sweeper, adapterVars>>
HangupQueued ==
  /\ watched /\ asked' = file /\ hup < 2 /\ hup' = hup + 1
  /\ UNCHANGED <<config, mainVars, ctx, storeOpen, file, current, watched, reload, sweeper, adapterVars>>

(* The runtime drops a signal when the buffer is full. *)
Hangup ==
  /\ watched /\ asked' = file /\ hup' = 1
  /\ UNCHANGED <<config, mainVars, ctx, storeOpen, file, current, watched, reload, sweeper, adapterVars>>

(* SIGTERM or SIGINT, once the process listens for them. *)
Terminate ==
  /\ Running /\ reload.pc # "off" /\ ctx' = TRUE
  /\ UNCHANGED <<config, mainVars, storeOpen, policyVars, hup, watched, reload, sweeper, adapterVars>>

-----------------------------------------------------------------------------
(* runPolicyReloadLoop *)

(* select picks any of the cases that are ready. *)
ReloadEnds ==
  /\ Running /\ reload.pc = "select" /\ (ctx \/ reload.cancelled)
  /\ reload' = [reload EXCEPT !.pc = "ended"]
  /\ UNCHANGED <<config, mainVars, ctx, storeOpen, policyVars, hup, watched, sweeper, adapterVars>>

handleSIGHUP ==
  /\ Running /\ reload.pc = "select" /\ hup = 1 /\ hup' = 0
  /\ reload' = IF config.policy THEN [reload EXCEPT !.pc = "read"] ELSE [reload EXCEPT !.seen = file]
  /\ UNCHANGED <<config, mainVars, ctx, storeOpen, policyVars, watched, sweeper, adapterVars>>

(* Mutant: the swap does not wait for the verdict. *)
SwappedUnchecked(version) == version

(* Store.Reload reads the file, then parses and validates what it read, and *)
(* swaps the pointer only if that succeeds.                                 *)
Swapped(version) == IF version \in Broken THEN current ELSE version

ReloadRead ==
  /\ Running /\ reload.pc = "read"
  /\ reload' = [reload EXCEPT !.pc = "swap", !.seen = file]
  /\ UNCHANGED <<config, mainVars, ctx, storeOpen, policyVars, hup, watched, sweeper, adapterVars>>

ReloadSwap ==
  /\ Running /\ reload.pc = "swap"
  /\ reload' = [reload EXCEPT !.pc = "select"] /\ current' = Swapped(reload.seen)
  /\ UNCHANGED <<config, mainVars, ctx, storeOpen, file, asked, hup, watched, sweeper, adapterVars>>

(* reloadPolicy: the same through the API; answers 500 without a store. *)
ApiRead ==
  /\ Running /\ http.pc = "serving" /\ config.policy /\ api.pc = "idle"
  /\ api' = [pc |-> "swap", seen |-> file]
  /\ UNCHANGED <<config, mainVars, ctx, storeOpen, policyVars, hup, watched, reload, sweeper, milter, session, http>>

ApiSwap ==
  /\ Running /\ api.pc = "swap"
  /\ api' = [pc |-> "idle", seen |-> 0] /\ current' = Swapped(api.seen)
  /\ UNCHANGED <<config, mainVars, ctx, storeOpen, file, asked, hup, watched, reload, sweeper, milter, session, http>>

-----------------------------------------------------------------------------
(* runRetentionCleanupLoop: a pass is Retention.tla's subject. *)

SweeperEnds ==
  /\ Running /\ sweeper.pc = "select" /\ (ctx \/ sweeper.cancelled)
  /\ sweeper' = [sweeper EXCEPT !.pc = "ended"]
  /\ UNCHANGED <<config, mainVars, ctx, storeOpen, policyVars, hup, watched, reload, adapterVars>>

SweepBegin ==
  /\ Running /\ sweeper.pc = "select" /\ sweeper' = [sweeper EXCEPT !.pc = "sweep"]
  /\ UNCHANGED <<config, mainVars, ctx, storeOpen, policyVars, hup, watched, reload, adapterVars>>

SweepEnd ==
  /\ Running /\ sweeper.pc = "sweep" /\ sweeper' = [sweeper EXCEPT !.pc = "select"]
  /\ UNCHANGED <<config, mainVars, ctx, storeOpen, policyVars, hup, watched, reload, adapterVars>>

-----------------------------------------------------------------------------
(* The adapters.  Serve of go-milter and of net/http, and their Shutdown,   *)
(* are external: Shutdown waits for the work in flight, until its timeout.  *)

Returned(a, err) == [a EXCEPT !.pc = "returned", !.err = @ \/ err]

MilterListen ==
  /\ Running /\ milter.pc = "bind"
  /\ milter' = [milter EXCEPT !.pc = "serving"] \/ milter' = Returned(milter, TRUE)
  /\ UNCHANGED <<config, mainVars, ctx, storeOpen, policyVars, hup, watched, reload, sweeper, session, http, api>>

MilterServeFails ==
  /\ Running /\ milter.pc = "serving" /\ milter' = Returned(milter, TRUE)
  /\ UNCHANGED <<config, mainVars, ctx, storeOpen, policyVars, hup, watched, reload, sweeper, session, http, api>>

MilterShutdown ==
  /\ Running /\ milter.pc = "serving" /\ ctx /\ milter' = [milter EXCEPT !.pc = "closing"]
  /\ UNCHANGED <<config, mainVars, ctx, storeOpen, policyVars, hup, watched, reload, sweeper, session, http, api>>

MilterClosed ==
  /\ Running /\ milter.pc = "closing"
  /\ milter' = IF session = "none" THEN Returned(milter, FALSE) ELSE [Returned(milter, TRUE) EXCEPT !.timedOut = TRUE]
  /\ UNCHANGED <<config, mainVars, ctx, storeOpen, policyVars, hup, watched, reload, sweeper, session, http, api>>

(* Process runs with context.Background(): nothing interrupts it. *)
SessionBegin ==
  /\ Running /\ milter.pc = "serving" /\ session = "none" /\ session' = "process"
  /\ UNCHANGED <<config, mainVars, ctx, storeOpen, policyVars, hup, watched, reload, sweeper, milter, http, api>>

SessionEnd ==
  /\ Running /\ session = "process" /\ session' = "none"
  /\ UNCHANGED <<config, mainVars, ctx, storeOpen, policyVars, hup, watched, reload, sweeper, milter, http, api>>

(* The public listener.  The admin listener, whose failure is only logged,  *)
(* changes nothing else and is left out.                                    *)
HttpListen ==
  /\ Running /\ http.pc = "bind"
  /\ http' = [http EXCEPT !.pc = "serving"] \/ http' = Returned(http, TRUE)
  /\ UNCHANGED <<config, mainVars, ctx, storeOpen, policyVars, hup, watched, reload, sweeper, milter, session, api>>

(* ctx is done, or Serve failed: Shutdown of both servers either way. *)
HttpShutdown ==
  /\ Running /\ http.pc = "serving"
  /\ \/ ctx /\ http' = [http EXCEPT !.pc = "closing"]
     \/ http' = [http EXCEPT !.pc = "closing", !.err = TRUE]
  /\ UNCHANGED <<config, mainVars, ctx, storeOpen, policyVars, hup, watched, reload, sweeper, milter, session, api>>

HttpClosed ==
  /\ Running /\ http.pc = "closing"
  /\ http' = IF api.pc = "idle" THEN Returned(http, FALSE) ELSE [Returned(http, TRUE) EXCEPT !.timedOut = TRUE]
  /\ UNCHANGED <<config, mainVars, ctx, storeOpen, policyVars, hup, watched, reload, sweeper, milter, session, api>>

-----------------------------------------------------------------------------
Finished == main = "exited" /\ UNCHANGED vars

MainStep == OpenStore \/ InitDrivers \/ NewStore \/ watchPolicyReload \/ watchRetentionCleanup
            \/ StartAdapters \/ ReceiveErr \/ Unwind \/ Join \/ Exit
ReloadStep == handleSIGHUP \/ ReloadRead \/ ReloadSwap

Next ==
  \/ MainStep \/ ReloadStep \/ ReloadEnds
  \/ EditPolicy \/ Hangup \/ Terminate \/ ApiRead \/ ApiSwap
  \/ SweeperEnds \/ SweepBegin \/ SweepEnd
  \/ MilterListen \/ MilterServeFails \/ MilterShutdown \/ MilterClosed \/ SessionBegin \/ SessionEnd
  \/ HttpListen \/ HttpShutdown \/ HttpClosed
  \/ Finished

(* Goroutines that can run do run, and a select that stays ready is taken:  *)
(* its exit, because ctx.Done stays ready, needs strong fairness only       *)
(* against signals that keep coming.  Nothing is assumed of the outside     *)
(* world, of failures, or of a session.                                     *)
Fairness ==
  /\ WF_vars(MainStep) /\ WF_vars(ReloadStep) /\ SF_vars(ReloadEnds)
  /\ SF_vars(SweeperEnds) /\ WF_vars(SweepEnd) /\ WF_vars(ApiSwap)
  /\ WF_vars(MilterListen) /\ WF_vars(MilterShutdown) /\ WF_vars(MilterClosed)
  /\ WF_vars(HttpListen) /\ WF_vars(ctx /\ HttpShutdown) /\ WF_vars(HttpClosed)

Spec == Init /\ [][Next]_vars /\ Fairness

-----------------------------------------------------------------------------
(* Properties. *)

(* Where run() and its goroutines can be; the buffer of hupCh is one. *)
TypeOK ==
  /\ main \in {"off", "open", "init", "policy", "watch", "retention", "processor", "wait",
               "unwind", "joinSweeper", "joinReload", "exited"}
  /\ hup \in 0..1 /\ file \in 1..MaxVersion /\ current \in 0..MaxVersion
  /\ reload.pc \in {"off", "select", "read", "swap", "ended"}
  /\ sweeper.pc \in {"off", "select", "sweep", "ended"}
  /\ \A a \in {milter, http} : a.pc \in {"off", "bind", "serving", "closing", "returned", "received"}

(* "an invalid policy must never be applied" (Store.Reload), whatever the   *)
(* edits, signals and API calls that race; and once a policy is configured  *)
(* and the adapters are started there is one (Store.Current).               *)
PolicyValid ==
  /\ current \notin Broken
  /\ config.policy /\ milter.pc # "off" => current # 0

(* The metadata store is closed after everything that uses it has ended:    *)
(* both loops are joined and both adapters returned, and only work that     *)
(* outlived a 30-second shutdown, or a failed milter listener, is left.     *)
ClosesLast ==
  ~storeOpen /\ reload.pc # "off" =>
    /\ reload.pc = "ended" /\ sweeper.pc \in {"off", "ended"}
    /\ {milter.pc, http.pc} \subseteq {"off", "received"}
    /\ session = "process" => milter.err
    /\ api.pc # "idle" => http.timedOut

(* "stop() [is] correct regardless of defer order or whether the parent ctx *)
(* is still live": once the process is told to stop, or run returns early,  *)
(* it exits.                                                                *)
StopsCleanly == (ctx \/ main = "unwind") ~> (main = "exited")

(* A SIGHUP is never lost: although hupCh holds one signal and drops the    *)
(* others, a read of the file follows the last one sent, so the reload sees *)
(* that edit or a later one (runPolicyReloadLoop), unless the loop is told  *)
(* to end.                                                                  *)
HupNotLost == \A v \in 1..MaxVersion : asked = v ~> (reload.seen >= v \/ ctx \/ reload.cancelled)

(* A valid policy while the process serves, and an open store as long as    *)
(* anything uses it.                                                        *)
ServerInv == TypeOK /\ PolicyValid /\ ClosesLast
=============================================================================
