-------------------------------- MODULE Main --------------------------------
(***************************************************************************)
(* The main loop and the signals (main.c).  A handler only sets a flag; the*)
(* loop tests the flag, does the work and clears the flag, and a signal    *)
(* can arrive between any two of these steps.  The alarm is set again by   *)
(* its own handler.  After a KILL from an operator, bopm executes itself:  *)
(* handlers go back to their defaults, the alarm keeps running.  SIGUSR1   *)
(* and SIGINT are sent only to a bopm that has its handlers.               *)
(***************************************************************************)
EXTENDS Integers

CONSTANTS
  OPT_DEBUG,           \* bopm runs in the foreground
  NEG_CACHE_REBUILD    \* options.h; the negative cache is on

ASSUME MainConfig ==
  /\ OPT_DEBUG \in BOOLEAN
  /\ NEG_CACHE_REBUILD \in Nat

VARIABLES
  pc,         \* where main is, see Places
  RESTART, REOPEN, ALARMED,
  alarm,      \* an alarm is set
  handled,    \* the signal handlers are installed
  nc_counter, \* scan_timer's static counter
  moved       \* history: the log files were moved and SIGUSR1 was sent, and
              \* they have not been opened again since

vars == <<pc, RESTART, REOPEN, ALARMED, alarm, handled, nc_counter, moved>>

\* boot: before fork; setup: from fork to the first alarm; cycles: irc_cycle and
\* scan_cycle; restart, reopen, timers: at the tests of the flags; reopened,
\* timed: before the flag is cleared.
Places == {"boot", "setup", "cycles", "restart", "reopen", "reopened", "timers",
           "timed", "exited", "killed"}

Running == pc \in Places \ {"exited", "killed"}

-----------------------------------------------------------------------------
(* Starting *)

\* fork: the child, which goes on, has no alarm.  In debug mode there is none.
main_fork ==
  /\ pc = "boot"
  /\ pc' = "setup"
  /\ alarm' = (alarm /\ OPT_DEBUG)
  /\ UNCHANGED <<RESTART, REOPEN, ALARMED, handled, nc_counter, moved>>

\* fork, opening the log, the configuration or the pid file fails.
main_failed ==
  /\ pc \in {"boot", "setup"}
  /\ pc' = "exited"
  /\ UNCHANGED <<RESTART, REOPEN, ALARMED, alarm, handled, nc_counter, moved>>

\* The log files are opened, the handlers installed, the first alarm set.
main_setup ==
  /\ pc = "setup"
  /\ pc' = "cycles"
  /\ handled' = TRUE
  /\ alarm' = TRUE
  /\ moved' = FALSE
  /\ UNCHANGED <<RESTART, REOPEN, ALARMED, nc_counter>>

-----------------------------------------------------------------------------
(* The loop *)

\* irc_cycle and scan_cycle; m_kill calls main_restart, irc_init may exit.
main_cycles ==
  /\ pc = "cycles"
  /\ \/ pc' = "restart" /\ RESTART' \in {RESTART, TRUE}
     \/ pc' = "exited" /\ UNCHANGED RESTART
  /\ UNCHANGED <<REOPEN, ALARMED, alarm, handled, nc_counter, moved>>

\* No restart, or one whose execve has failed.
main_no_restart ==
  /\ pc = "restart"
  /\ RESTART => ~ OPT_DEBUG
  /\ pc' = "reopen"
  /\ RESTART' = FALSE
  /\ UNCHANGED <<REOPEN, ALARMED, alarm, handled, nc_counter, moved>>

\* In debug mode, or if getrlimit fails, bopm dies.
main_no_exec ==
  /\ pc = "restart"
  /\ RESTART
  /\ pc' = "exited"
  /\ UNCHANGED <<RESTART, REOPEN, ALARMED, alarm, handled, nc_counter, moved>>

\* execve.
main_exec ==
  /\ pc = "restart"
  /\ RESTART /\ ~ OPT_DEBUG
  /\ pc' = "boot"
  /\ RESTART' = FALSE /\ REOPEN' = FALSE /\ ALARMED' = FALSE
  /\ handled' = FALSE
  /\ nc_counter' = 0
  /\ UNCHANGED <<alarm, moved>>

\* log_close, log_open and the same for the scan log: the files are opened by their
\* names again.  bopm exits if that of the log fails, and goes on without a scan
\* log.
log_open(then) ==
  \/ pc' = then /\ moved' = FALSE
  \/ pc' = "exited" /\ UNCHANGED moved

\* The log files are closed and opened if REOPEN is set.
main_reopen ==
  /\ pc = "reopen"
  /\ IF REOPEN THEN log_open("reopened")
               ELSE pc' = "timers" /\ UNCHANGED moved
  /\ UNCHANGED <<RESTART, REOPEN, ALARMED, alarm, handled, nc_counter>>

\* The flag is cleared; a SIGUSR1 since main_reopen is forgotten.
main_reopened ==
  /\ pc = "reopened"
  /\ pc' = "timers"
  /\ REOPEN' = FALSE
  /\ UNCHANGED <<RESTART, ALARMED, alarm, handled, nc_counter, moved>>

\* Fault: the counter is not static, and is 0 whenever scan_timer is called.
scan_timer_Automatic == nc_counter' = IF 0 >= NEG_CACHE_REBUILD THEN 0 ELSE 1

\* scan_timer: the negative cache is rebuilt when the counter is reset.
scan_timer == nc_counter' = IF nc_counter >= NEG_CACHE_REBUILD THEN 0 ELSE nc_counter + 1

\* irc_timer, scan_timer and command_timer are called if ALARMED is set.
main_timers ==
  /\ pc = "timers"
  /\ IF ALARMED THEN pc' = "timed" /\ scan_timer
                ELSE pc' = "cycles" /\ UNCHANGED nc_counter
  /\ UNCHANGED <<RESTART, REOPEN, ALARMED, alarm, handled, moved>>

\* Fault: both flags are cleared.
main_timed_Both ==
  /\ pc = "timed"
  /\ pc' = "cycles"
  /\ ALARMED' = FALSE /\ REOPEN' = FALSE
  /\ UNCHANGED <<RESTART, alarm, handled, nc_counter, moved>>

\* The flag is cleared.
main_timed ==
  /\ pc = "timed"
  /\ pc' = "cycles"
  /\ ALARMED' = FALSE
  /\ UNCHANGED <<RESTART, REOPEN, alarm, handled, nc_counter, moved>>

-----------------------------------------------------------------------------
(* Signals *)

\* Fault: the handler does not set the next alarm.
do_signal_SIGALRM_Once ==
  /\ Running /\ alarm /\ handled
  /\ ALARMED' = TRUE
  /\ alarm' = FALSE
  /\ UNCHANGED <<pc, RESTART, REOPEN, handled, nc_counter, moved>>

\* A second is over: do_signal sets the flag and the next alarm.
do_signal_SIGALRM ==
  /\ Running /\ alarm /\ handled
  /\ ALARMED' = TRUE
  /\ UNCHANGED <<pc, RESTART, REOPEN, alarm, handled, nc_counter, moved>>

\* The same before the handler is installed: the default is to terminate.
SIGALRM_default ==
  /\ Running /\ alarm /\ ~ handled
  /\ pc' = "killed"
  /\ UNCHANGED <<RESTART, REOPEN, ALARMED, alarm, handled, nc_counter, moved>>

\* The log files are moved and SIGUSR1 sent.
do_signal_SIGUSR1 ==
  /\ Running /\ handled
  /\ REOPEN' = TRUE
  /\ moved' = TRUE
  /\ UNCHANGED <<pc, RESTART, ALARMED, alarm, handled, nc_counter>>

do_signal_SIGINT ==
  /\ Running /\ handled
  /\ pc' = "exited"
  /\ UNCHANGED <<RESTART, REOPEN, ALARMED, alarm, handled, nc_counter, moved>>

-----------------------------------------------------------------------------
Init ==
  /\ pc = "boot"
  /\ RESTART = FALSE /\ REOPEN = FALSE /\ ALARMED = FALSE
  /\ alarm = FALSE /\ handled = FALSE /\ nc_counter = 0 /\ moved = FALSE

\* What main does outside of irc_cycle and scan_cycle.
MainGoesOn ==
  \/ main_fork \/ main_failed \/ main_setup
  \/ main_no_restart \/ main_no_exec \/ main_exec
  \/ main_reopen \/ main_reopened \/ main_timers \/ main_timed

Next ==
  \/ main_cycles \/ MainGoesOn
  \/ do_signal_SIGALRM \/ SIGALRM_default \/ do_signal_SIGUSR1 \/ do_signal_SIGINT

Spec == Init /\ [][Next]_vars

\* main runs, and a second that an alarm waits for passes.  Nothing is assumed of
\* irc_cycle: its read of a line may block for ever (NoDataTimesOut of IRC).
FairSpec ==
  /\ Spec
  /\ WF_vars(MainGoesOn)
  /\ WF_vars(do_signal_SIGALRM)

-----------------------------------------------------------------------------
(* Properties *)

\* irc_cycle and scan_cycle come back whenever they are called: no read waits for
\* ever for the end of a line.
CyclesReturn == []<>(pc # "cycles")

\* The 1 second timers are called again and again, unless bopm ends or restarts,
\* if irc_cycle always comes back, although an alarm is lost that comes after they
\* were called and before ALARMED is cleared.
TimersRun == CyclesReturn => []<>(pc \in {"timed", "boot"} \/ ~ Running)

\* And so the negative cache is rebuilt for ever.
CacheRebuilt ==
  CyclesReturn => /\ []<>(nc_counter = 0 \/ ~ Running)
                  /\ []<>(nc_counter > 0 \/ ~ Running \/ pc = "boot")

\* "send a USR1 signal to BOPM after moving its logfiles - this will cause BOPM
\* to reopen those files": unless it comes after the files were reopened and
\* before REOPEN is cleared, where it is lost, also if bopm is restarting; and if
\* irc_cycle always comes back.  (SIGUSR1, installed without SA_RESTART, breaks a
\* read that is blocked, but not one that begins right after it.)
LogsReopened ==
  CyclesReturn => (moved /\ REOPEN /\ pc # "reopened" ~> ~ moved \/ ~ Running)
=============================================================================
