----------------------------- MODULE EventLoop -----------------------------
(***************************************************************************)
(* The control skeleton of the metaserver process: Metaserver::Process(),  *)
(* the two signal handlers it polls (SIGALRMHandler, SIGINTHandler), the   *)
(* SignalManager that dispatches to them, alarm(2), the blocking           *)
(* recvfrom(2) and the system(3) calls that run the list/delist command.   *)
(*                                                                         *)
(* What a datagram does to the server lists is left to module Metaserver,  *)
(* which extends this one; here a datagram only occupies the loop.  Time   *)
(* is absent as well: an armed alarm may go off at any moment.             *)
(***************************************************************************)
EXTENDS Naturals

CONSTANTS
  QueueLimit,   \* datagrams the socket's receive buffer holds; more are dropped
  DEBUG,        \* TRUE for a build with -DDEBUG
  ExecuteSet    \* mExecute[0] != '\0': a command was given with --execute

ASSUME LoopAssumption ==
  /\ QueueLimit \in Nat \ {0}
  /\ DEBUG \in BOOLEAN
  /\ ExecuteSet \in BOOLEAN

VARIABLES
  pc,               \* the call or test the process is about to perform
  mAlarm,           \* SIGALRMHandler::mAlarm
  mGracefulQuit,    \* SIGINTHandler::mGracefulQuit
  mSignalHandlers,  \* the signals SignalManager has a handler for
  armed,            \* an alarm(2) request is outstanding in the kernel
  queued            \* datagrams waiting in the socket's receive buffer

loopVars == <<pc, mAlarm, mGracefulQuit, mSignalHandlers, armed, queued>>

(***************************************************************************)
(* The program points.  The process is about to evaluate the named test    *)
(* or call; "blocked" is the wait inside recvfrom(2), after the kernel has *)
(* found the receive buffer empty.                                         *)
(***************************************************************************)
Startup  == {"Initialize", "Process", "alarm"}
Reaping  == {"Reaper", "systemReap"}
InSystem == {"systemList", "systemDelist", "systemReap"}
Serving  == {"GetGracefulQuit", "GetAlarm", "recvfrom", "blocked"}
              \cup Reaping \cup InSystem
Ended    == {"quit", "failed", "killed"}

Signal == {"SIGALRM", "SIGINT"}

LoopInit ==
  /\ pc = "Initialize"
  /\ mAlarm = FALSE
  /\ mGracefulQuit = FALSE
  /\ mSignalHandlers = {}
  /\ armed = FALSE
  /\ queued = 0

-----------------------------------------------------------------------------
(* Start-up. *)

RegisterHandler(signum) == mSignalHandlers' = mSignalHandlers \cup {signum}

\* Initialize(): the SIGINT handler is in place before the socket is bound;
\* when bind fails, main returns 2.
LoopInitialize ==
  /\ pc = "Initialize"
  /\ RegisterHandler("SIGINT")
  /\ pc' \in {"Process", "failed"}
  /\ UNCHANGED <<mAlarm, mGracefulQuit, armed, queued>>

\* Mutant: the alarm is asked for before its handler is registered.
AlarmFirst ==
  /\ pc = "Process"
  /\ armed' = TRUE
  /\ pc' = "alarm"
  /\ UNCHANGED <<mAlarm, mGracefulQuit, mSignalHandlers, queued>>

\* Process() registers the SIGALRM handler and only then asks for an alarm.
LoopRegisterAlarm ==
  /\ pc = "Process"
  /\ RegisterHandler("SIGALRM")
  /\ pc' = "alarm"
  /\ UNCHANGED <<mAlarm, mGracefulQuit, armed, queued>>

LoopFirstAlarm ==
  /\ pc = "alarm"
  /\ armed' = TRUE
  /\ pc' = "GetGracefulQuit"
  /\ UNCHANGED <<mAlarm, mGracefulQuit, mSignalHandlers, queued>>

-----------------------------------------------------------------------------
(* One pass of the for(;;) loop. *)

\* Interrupted() reports and calls exit(0).
LoopCheckQuit ==
  /\ pc = "GetGracefulQuit"
  /\ pc' = IF mGracefulQuit THEN "quit" ELSE "GetAlarm"
  /\ UNCHANGED <<mAlarm, mGracefulQuit, mSignalHandlers, armed, queued>>

\* Mutant: the flag is cleared before it is tested.
ClearThenTestAlarm ==
  /\ pc = "GetAlarm"
  /\ mAlarm' = FALSE
  /\ pc' = "recvfrom"
  /\ UNCHANGED <<mGracefulQuit, mSignalHandlers, armed, queued>>

\* The flag is cleared before the Reaper runs.
LoopCheckAlarm ==
  /\ pc = "GetAlarm"
  /\ mAlarm' = FALSE
  /\ pc' = IF mAlarm THEN "Reaper" ELSE "recvfrom"
  /\ UNCHANGED <<mGracefulQuit, mSignalHandlers, armed, queued>>

\* A DEBUG build runs the command for a stale server before erasing it.
LoopReapHook ==
  /\ pc = "Reaper"
  /\ DEBUG /\ ExecuteSet
  /\ pc' = "systemReap"
  /\ UNCHANGED <<mAlarm, mGracefulQuit, mSignalHandlers, armed, queued>>

\* Mutant: the Reaper does not ask for the next alarm.
ReaperDoneNoAlarm ==
  /\ pc = "Reaper"
  /\ pc' = "recvfrom"
  /\ UNCHANGED <<mAlarm, mGracefulQuit, mSignalHandlers, armed, queued>>

\* The Reaper's last statement asks for the next alarm.
LoopReaperDone ==
  /\ pc = "Reaper"
  /\ armed' = TRUE
  /\ pc' = "recvfrom"
  /\ UNCHANGED <<mAlarm, mGracefulQuit, mSignalHandlers, queued>>

\* recvfrom finds the receive buffer empty and waits.
LoopBlock ==
  /\ pc = "recvfrom"
  /\ queued = 0
  /\ pc' = "blocked"
  /\ UNCHANGED <<mAlarm, mGracefulQuit, mSignalHandlers, armed, queued>>

\* Mutant: after a datagram the loop resumes behind the test for SIGINT.
ReceiveSkipsQuitTest ==
  /\ pc \in {"recvfrom", "blocked"}
  /\ queued > 0
  /\ queued' = queued - 1
  /\ pc' \in {"GetAlarm"}
              \cup (IF ExecuteSet THEN {"systemList", "systemDelist"} ELSE {})
  /\ UNCHANGED <<mAlarm, mGracefulQuit, mSignalHandlers, armed>>

\* Mutant: a failed recvfrom is handled like a datagram.
ReceiveUnchecked ==
  /\ pc \in {"recvfrom", "blocked"}
  /\ queued' = queued - 1
  /\ pc' \in {"GetGracefulQuit"}
              \cup (IF ExecuteSet THEN {"systemList", "systemDelist"} ELSE {})
  /\ UNCHANGED <<mAlarm, mGracefulQuit, mSignalHandlers, armed>>

\* recvfrom returns a datagram and its handler runs; a handler that lists or
\* delists a server goes on to run the command.
LoopReceive ==
  /\ pc \in {"recvfrom", "blocked"}
  /\ queued > 0
  /\ queued' = queued - 1
  /\ pc' \in {"GetGracefulQuit"}
              \cup (IF ExecuteSet THEN {"systemList", "systemDelist"} ELSE {})
  /\ UNCHANGED <<mAlarm, mGracefulQuit, mSignalHandlers, armed>>

\* system(3) returns, whatever the command's exit status.
LoopHookReturns ==
  /\ pc \in InSystem
  /\ pc' = IF pc = "systemReap" THEN "Reaper" ELSE "GetGracefulQuit"
  /\ UNCHANGED <<mAlarm, mGracefulQuit, mSignalHandlers, armed, queued>>

-----------------------------------------------------------------------------
(* The kernel: signals and datagrams. *)

\* Mutant: handlers installed with SA_RESTART, so a wait in recvfrom goes on.
DispatcherRestarting(signum) ==
  IF signum \in mSignalHandlers
  THEN /\ mAlarm' = (mAlarm \/ signum = "SIGALRM")
       /\ mGracefulQuit' = (mGracefulQuit \/ signum = "SIGINT")
       /\ UNCHANGED pc
  ELSE /\ pc' = "killed"
       /\ UNCHANGED <<mAlarm, mGracefulQuit>>

\* A signal without a handler takes its default action, which ends the
\* process.  With one, Dispatcher calls it, and it only sets its flag; the
\* handlers are installed without SA_RESTART, so a wait in recvfrom ends
\* with EINTR and the loop starts over.
Dispatcher(signum) ==
  IF signum \in mSignalHandlers
  THEN /\ mAlarm' = (mAlarm \/ signum = "SIGALRM")
       /\ mGracefulQuit' = (mGracefulQuit \/ signum = "SIGINT")
       /\ pc' = IF pc = "blocked" THEN "GetGracefulQuit" ELSE pc
  ELSE /\ pc' = "killed"
       /\ UNCHANGED <<mAlarm, mGracefulQuit>>

SIGALRM ==
  /\ pc \notin Ended
  /\ armed
  /\ armed' = FALSE
  /\ Dispatcher("SIGALRM")
  /\ UNCHANGED <<mSignalHandlers, queued>>

\* system(3) ignores SIGINT in the caller until the command has ended.
SIGINT ==
  /\ pc \notin Ended \cup InSystem
  /\ Dispatcher("SIGINT")
  /\ UNCHANGED <<mSignalHandlers, armed, queued>>

\* A datagram reaches the bound socket; a full buffer drops it.
Arrive ==
  /\ pc \notin {"Initialize"} \cup Ended
  /\ queued < QueueLimit
  /\ queued' = queued + 1
  /\ UNCHANGED <<pc, mAlarm, mGracefulQuit, mSignalHandlers, armed>>

-----------------------------------------------------------------------------

Loop ==
  \/ LoopInitialize \/ LoopRegisterAlarm \/ LoopFirstAlarm
  \/ LoopCheckQuit \/ LoopCheckAlarm \/ LoopReapHook \/ LoopReaperDone
  \/ LoopBlock \/ LoopReceive \/ LoopHookReturns

LoopNext == Loop \/ SIGALRM \/ SIGINT \/ Arrive

LoopSafety == LoopInit /\ [][LoopNext]_loopVars

(***************************************************************************)
(* Fairness.  The process is scheduled, the command ends, and the kernel   *)
(* delivers an alarm it was asked for.  A pass of the Reaper walks four    *)
(* finite lists that no other code touches, so it ends (SF: the command of *)
(* a DEBUG build leaves and re-enters it).  Nothing obliges a datagram to  *)
(* arrive, nor an operator to send SIGINT.                                 *)
(***************************************************************************)
LoopSpec ==
  /\ LoopSafety
  /\ WF_loopVars(Loop)
  /\ SF_loopVars(LoopReaperDone)
  /\ WF_loopVars(SIGALRM)

(* Some server or client out there keeps talking to the metaserver. *)
Traffic == WF_loopVars(Arrive)

-----------------------------------------------------------------------------
(* Properties. *)

(* The values the loop's variables range over. *)
LoopTypeOK ==
  /\ pc \in Startup \cup Serving \cup Ended
  /\ mAlarm \in BOOLEAN
  /\ mGracefulQuit \in BOOLEAN
  /\ mSignalHandlers \in SUBSET Signal
  /\ armed \in BOOLEAN
  /\ queued \in 0..QueueLimit

(***************************************************************************)
(* The reaping clock never stops.  alarm(2) is one-shot and only Reaper()  *)
(* asks for the next one, so losing a single expiry would end reaping for  *)
(* good: while the process serves, either an alarm is outstanding, or its  *)
(* expiry is recorded in mAlarm, or the Reaper is at work.                 *)
(***************************************************************************)
ClockAlive == pc \in Serving => armed \/ mAlarm \/ pc \in Reaping

(***************************************************************************)
(* A signal's default action can end the process only before Initialize()  *)
(* has registered the first handler: never by an alarm that outruns its    *)
(* handler, and never by SIGINT once the process has begun to serve.       *)
(***************************************************************************)
KilledOnlyAtStartup == pc = "killed" => mSignalHandlers = {}

(***************************************************************************)
(* As long as datagrams keep arriving, an expired alarm is followed by a   *)
(* sweep of the lists, or the process is shutting down.                    *)
(***************************************************************************)
AlarmSwept == Traffic => (mAlarm ~> (pc = "Reaper" \/ pc = "quit"))

(***************************************************************************)
(* As long as datagrams keep arriving, a recorded SIGINT ends the process  *)
(* through Interrupted().                                                  *)
(***************************************************************************)
InterruptHonoured == Traffic => (mGracefulQuit ~> pc = "quit")

(***************************************************************************)
(* Without any assumption on traffic: sweeping goes on forever, or the     *)
(* process ends, or it sleeps in recvfrom with the alarm's flag already    *)
(* raised.  That last case is the wake-up lost between the test of the     *)
(* flag and the call of recvfrom; the property says nothing else can stop  *)
(* the sweeps.                                                             *)
(***************************************************************************)
OnlyLostWakeupStopsSweeps ==
  \/ []<>(pc = "Reaper")
  \/ <>(pc \in Ended)
  \/ <>[](pc = "blocked" /\ mAlarm)

(***************************************************************************)
(* An alarm that goes off while the process sleeps in recvfrom wakes it,   *)
(* with no datagram needed: the handler is installed without SA_RESTART,   *)
(* and the loop starts over on EINTR.                                      *)
(***************************************************************************)
AlarmWakesSleeper ==
  (pc = "blocked" /\ armed) ~> (pc = "Reaper" \/ pc \in Ended \/ queued > 0)
=============================================================================
