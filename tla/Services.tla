-------------------------------- MODULE Services --------------------------------
(***************************************************************************)
(* The kernel services that share no state with one another, side by side: *)
(* page mapping, block requests, the scheduler, the console with its line  *)
(* editor, the file commands of the shell over the VFS, the timer and      *)
(* ACPI.  As no step of one can enable, disable or change a step of        *)
(* another, each behaviour follows one of them, chosen at the start, while *)
(* the others stay as they were.                                           *)
(***************************************************************************)
EXTENDS PageMap, BlockQueue, TaskScheduler, Console, Shell, Timer, Acpi

VARIABLE service     \* the service this behaviour follows

svVars == << service, pmVars, bqVars, tsVars, cnVars, shVars, tmVars, acVars >>

Service == {"pages", "blocks", "tasks", "console", "shell", "timer", "acpi"}

SvInit ==
  /\ service \in Service
  /\ PmInit /\ BqInit /\ TsInit /\ ShInit /\ TmInit
  /\ CnInit /\ (service # "console" => buffered /\ quiet /\ ~ spare /\ cy = 0)
  /\ AcInit /\ (service # "acpi" => machine = CHOOSE m \in Machines : TRUE)

Pages ==
  /\ service = "pages" /\ PmNext
  /\ UNCHANGED << service, bqVars, tsVars, cnVars, shVars, tmVars, acVars >>

Blocks ==
  /\ service = "blocks" /\ BqNext
  /\ UNCHANGED << service, pmVars, tsVars, cnVars, shVars, tmVars, acVars >>

Tasks ==
  /\ service = "tasks" /\ TsNext
  /\ UNCHANGED << service, pmVars, bqVars, cnVars, shVars, tmVars, acVars >>

Screen ==
  /\ service = "console" /\ CnNext
  /\ UNCHANGED << service, pmVars, bqVars, tsVars, shVars, tmVars, acVars >>

Files ==
  /\ service = "shell" /\ ShNext
  /\ UNCHANGED << service, pmVars, bqVars, tsVars, cnVars, tmVars, acVars >>

Clock ==
  /\ service = "timer" /\ TmNext
  /\ UNCHANGED << service, pmVars, bqVars, tsVars, cnVars, shVars, acVars >>

Power ==
  /\ service = "acpi" /\ AcNext
  /\ UNCHANGED << service, pmVars, bqVars, tsVars, cnVars, shVars, tmVars >>

SvNext == Pages \/ Blocks \/ Tasks \/ Screen \/ Files \/ Clock \/ Power

\* The fairness of the timer and of ACPI, in the behaviours that follow them.
SvFairness ==
  /\ WF_tmVars(service = "timer" /\ TimerIrq)
  /\ WF_tmVars(service = "timer" /\ TestTicks)
  /\ WF_tmVars(service = "timer" /\ Halt)
  /\ WF_acVars(service = "acpi" /\ PowerStep)

SvSpec == SvInit /\ [][SvNext]_svVars /\ SvFairness

-----------------------------------------------------------------------------
TypeOK == /\ PmTypeOK /\ BqTypeOK /\ TsTypeOK /\ CnTypeOK /\ ShTypeOK /\ TmTypeOK /\ AcTypeOK
          /\ service \in Service
=============================================================================
