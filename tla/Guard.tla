-------------------------------- MODULE Guard --------------------------------
(***************************************************************************)
(* The failguard: guard.Watch polling a migrated edge, cmdGuard around it  *)
(* (the flags, the rollback hook, the exit code), SIGTERM through the root *)
(* context, and the systemd unit that restarts it.                         *)
(*                                                                         *)
(* One guard watches one URL.  The environment is the site, which goes up  *)
(* and down; the operator, who may stop the guard; the ticker; the hook,   *)
(* which ends with success or failure; a kill that no handler sees.        *)
(***************************************************************************)
EXTENDS Naturals

CONSTANTS
  Thresholds,   \* the values of --fails explored (cmdGuard refuses n < 1)
  MaxKills      \* bound: how many times the process may be killed outright

ASSUME ThresholdsAssumption == Thresholds \subseteq Nat \ {0}
ASSUME MaxKillsAssumption   == MaxKills \in Nat

VARIABLES
  opts,       \* the flags of this invocation; they never change
  up,         \* would a check sent now find the expected status?
  stop,       \* the root context is cancelled (SIGINT, SIGTERM)
  tickReady,  \* the ticker's one-slot channel holds a tick
  pc,         \* where Watch is
  fails,      \* consecutive failed checks, as Watch counts them
  evidence,   \* of those, how many the site itself caused (history only)
  hook,       \* the rollback hook: how its last run ended, if it has
  exit,       \* the exit code of the process, once it has one
  kills       \* kills so far

guardVars == <<opts, up, stop, tickReady, pc, fails, evidence, hook, exit, kills>>

\* The unit runs with a hook and --keep-watching, and never with --once.
Options ==
  {o \in [once: BOOLEAN, keepWatching: BOOLEAN, hook: BOOLEAN,
          supervised: BOOLEAN, fails: Thresholds] :
     o.supervised => o.keepWatching /\ o.hook /\ ~o.once}

Places    == {"tick", "checking", "trigger", "select", "done"}
Outcomes  == {"none", "running", "ok", "failed", "lost"}
ExitCodes == {"running", "0", "1", "20", "killed"}

-----------------------------------------------------------------------------
(* Watch's state when a process starts: no failure counted, and the first  *)
(* check is made at once, before any tick.                                 *)

GuardInit ==
  /\ opts \in Options
  /\ up \in BOOLEAN
  /\ stop = FALSE
  /\ tickReady = FALSE
  /\ pc = "tick"
  /\ fails = 0
  /\ evidence = 0
  /\ hook = "none"
  /\ exit = "running"
  /\ kills = 0

Return(code) == pc' = "done" /\ exit' = code

\* What follows a tick that returned (false, nil): Watch returns it when Once
\* is set, and waits in its select otherwise.
AfterTick ==
  IF opts.once THEN Return("0") ELSE pc' = "select" /\ UNCHANGED exit

-----------------------------------------------------------------------------
(* The environment.                                                        *)

SiteChanges ==
  /\ up' = ~up
  /\ UNCHANGED <<opts, stop, tickReady, pc, fails, evidence, hook, exit, kills>>

StopKillsHook ==
  /\ ~stop
  /\ pc # "done"
  /\ stop' = TRUE
  /\ IF pc = "trigger" THEN Return("1") ELSE UNCHANGED <<pc, exit>>
  /\ UNCHANGED <<opts, up, tickReady, fails, evidence, hook, kills>>

\* SIGINT or SIGTERM: signal.NotifyContext cancels the root context and
\* nothing else.  A running hook is in a process group of its own.
Stop ==
  /\ ~stop
  /\ pc # "done"
  /\ stop' = TRUE
  /\ UNCHANGED <<opts, up, tickReady, pc, fails, evidence, hook, exit, kills>>

\* time.Ticker drops a tick nobody has read: its channel holds one.
TickerFires ==
  /\ ~opts.once
  /\ pc # "done"
  /\ ~tickReady
  /\ tickReady' = TRUE
  /\ UNCHANGED <<opts, up, stop, pc, fails, evidence, hook, exit, kills>>

\* SIGKILL or the OOM killer.  What became of a running hook is not known.
Kill ==
  /\ kills < MaxKills
  /\ pc # "done"
  /\ kills' = kills + 1
  /\ hook' = IF hook = "running" THEN "lost" ELSE hook
  /\ Return("killed")
  /\ UNCHANGED <<opts, up, stop, tickReady, fails, evidence>>

-----------------------------------------------------------------------------
(* One tick: the check is sent, it returns, and Watch counts it.           *)

SendCheck ==
  /\ pc = "tick"
  /\ ~stop
  /\ pc' = "checking"
  /\ UNCHANGED <<opts, up, stop, tickReady, fails, evidence, hook, exit, kills>>

TallyForgetting(healthy, bySite) ==
  /\ fails' = IF healthy THEN 0 ELSE 1
  /\ evidence' = IF healthy \/ ~bySite THEN 0 ELSE 1

Tally(healthy, bySite) ==
  /\ fails' = IF healthy THEN 0 ELSE fails + 1
  /\ evidence' = IF healthy THEN 0 ELSE IF bySite THEN evidence + 1 ELSE evidence

TallyWithoutReset(healthy, bySite) ==
  /\ fails' = IF healthy THEN fails ELSE fails + 1
  /\ evidence' = IF healthy THEN 0 ELSE IF bySite THEN evidence + 1 ELSE evidence

\* OnUnhealthy is called; with a hook, the shell starts.
Trigger ==
  /\ pc' = "trigger"
  /\ hook' = IF opts.hook THEN "running" ELSE hook
  /\ UNCHANGED exit

CountKeepingFailures(healthy, bySite) ==
  /\ TallyWithoutReset(healthy, bySite)
  /\ IF fails' >= opts.fails THEN Trigger ELSE AfterTick /\ UNCHANGED hook

\* fails++ or fails = 0, and the comparison with the threshold.
Count(healthy, bySite) ==
  /\ Tally(healthy, bySite)
  /\ IF fails' >= opts.fails THEN Trigger ELSE AfterTick /\ UNCHANGED hook

\* The site answered, well or badly, or the client's ten seconds ran out.
CheckAnswered ==
  /\ pc = "checking"
  /\ Count(up, ~up)
  /\ UNCHANGED <<opts, up, stop, tickReady, kills>>

\* The context is cancelled, before the request was sent or while it was in
\* flight: client.Do returns the context's error, and the tick counts a failure.
CheckCancelled ==
  /\ pc \in {"tick", "checking"}
  /\ stop
  /\ Count(FALSE, FALSE)
  /\ UNCHANGED <<opts, up, stop, tickReady, kills>>

-----------------------------------------------------------------------------
(* The threshold is reached: OnUnhealthy runs, and Watch waits for it.     *)

\* OnUnhealthy returned nil: return (true, nil), or reset and carry on.
Fired ==
  IF opts.keepWatching
  THEN AfterTick /\ fails' = 0 /\ evidence' = 0
  ELSE Return("20") /\ UNCHANGED <<fails, evidence>>

\* No --on-unhealthy: the trigger is skipped and reported as done.
SkipHook ==
  /\ pc = "trigger"
  /\ ~opts.hook
  /\ Fired
  /\ UNCHANGED <<opts, up, stop, tickReady, hook, kills>>

HookSucceeds ==
  /\ pc = "trigger"
  /\ opts.hook
  /\ hook' = "ok"
  /\ Fired
  /\ UNCHANGED <<opts, up, stop, tickReady, kills>>

HookFailsQuietly ==
  /\ pc = "trigger"
  /\ opts.hook
  /\ hook' = "failed"
  /\ Fired
  /\ UNCHANGED <<opts, up, stop, tickReady, kills>>

\* A hook that fails ends the watch with an error, --keep-watching or not.
HookFails ==
  /\ pc = "trigger"
  /\ opts.hook
  /\ hook' = "failed"
  /\ Return("1")
  /\ UNCHANGED <<opts, up, stop, tickReady, fails, evidence, kills>>

-----------------------------------------------------------------------------
(* The select between ctx.Done and the ticker: either may win when both    *)
(* are ready.                                                              *)

SelectTick ==
  /\ pc = "select"
  /\ tickReady
  /\ tickReady' = FALSE
  /\ pc' = "tick"
  /\ UNCHANGED <<opts, up, stop, fails, evidence, hook, exit, kills>>

SelectDoneNever == FALSE /\ UNCHANGED guardVars

SelectDone ==
  /\ pc = "select"
  /\ stop
  /\ Return("1")
  /\ UNCHANGED <<opts, up, stop, tickReady, fails, evidence, hook, kills>>

RestartOnCrashOnly ==
  /\ opts.supervised
  /\ pc = "done"
  /\ ~stop
  /\ exit = "killed"
  /\ pc' = "tick" /\ fails' = 0 /\ evidence' = 0 /\ tickReady' = FALSE
  /\ exit' = "running"
  /\ UNCHANGED <<opts, up, stop, hook, kills>>

\* Restart=always: a guard that ended, however it ended, is started again
\* unless it was stopped on purpose.
Restart ==
  /\ opts.supervised
  /\ pc = "done"
  /\ ~stop
  /\ pc' = "tick" /\ fails' = 0 /\ evidence' = 0 /\ tickReady' = FALSE
  /\ exit' = "running"
  /\ UNCHANGED <<opts, up, stop, hook, kills>>

-----------------------------------------------------------------------------

GuardNext ==
  \/ SiteChanges \/ Stop \/ TickerFires \/ Kill
  \/ SendCheck \/ CheckAnswered \/ CheckCancelled
  \/ SkipHook \/ HookSucceeds \/ HookFails
  \/ SelectTick \/ SelectDone \/ Restart

GuardSpec == GuardInit /\ [][GuardNext]_guardVars

\* A check ends (the client has a timeout), the hook is assumed to end, the
\* ticker ticks, and Go's select picks a ready case uniformly at random, so
\* neither case is passed over for ever.
Fairness ==
  /\ WF_guardVars(SendCheck)
  /\ WF_guardVars(CheckAnswered \/ CheckCancelled)
  /\ WF_guardVars(SkipHook \/ HookSucceeds \/ HookFails)
  /\ WF_guardVars(TickerFires)
  /\ SF_guardVars(SelectTick)
  /\ SF_guardVars(SelectDone)
  /\ WF_guardVars(Restart)

FairSpec == GuardSpec /\ Fairness
-----------------------------------------------------------------------------
(* Properties.                                                             *)

\* Every variable keeps its type; fails never passes the threshold of the run.
TypeOK ==
  /\ opts \in Options
  /\ up \in BOOLEAN /\ stop \in BOOLEAN /\ tickReady \in BOOLEAN
  /\ pc \in Places
  /\ fails \in 0 .. opts.fails
  /\ evidence \in 0 .. opts.fails
  /\ hook \in Outcomes
  /\ exit \in ExitCodes
  /\ kills \in 0 .. MaxKills

\* While nobody has stopped the guard, the trigger fires on exactly --fails
\* consecutive checks that the site itself failed: a recovery in between starts
\* the count again, and so does a trigger that has fired (Watch's tick).
FiresOnlyOnOutage ==
  [][pc # "trigger" /\ pc' = "trigger" /\ ~stop => evidence' = opts.fails]_guardVars

\* cmdGuard's exit code tells what happened: 20 that the trigger ran to its end,
\* 1 that the guard was stopped or its hook failed, 0 only a single check that
\* fired nothing or fired and was told to carry on.
ExitTellsOutcome ==
  /\ exit = "20" => /\ fails = opts.fails /\ ~opts.keepWatching
                    /\ opts.hook => hook = "ok"
  /\ exit = "1"  => stop \/ hook = "failed"
  /\ exit = "0"  => opts.once /\ (hook = "none" \/ opts.keepWatching)

\* The process never ends by itself with its hook still running: stopping the
\* watch lets the rollback finish (detachProcessGroup, cmd.Run).
HookFinishes == exit \in {"0", "1", "20"} => hook # "running"

\* An outage that does not end is acted on, by a guard nobody stops or kills
\* (or whose supervisor starts it again).
OutageActedOn ==
  ( /\ <>[]~up
    /\ [](~stop /\ ~opts.once)
    /\ [](exit = "killed" => opts.supervised) ) => <>(pc = "trigger")

\* Under the unit the rollback is tried again for as long as the outage lasts,
\* after a hook that failed as after one that did not help.
SupervisedNeverGivesUp ==
  (<>[]~up /\ [](~stop /\ opts.supervised)) => []<>(hook = "running")

\* A stopped guard ends.
StopEnds == stop ~> pc = "done"

=============================================================================
