---------------------------- MODULE HostRecovery ----------------------------
(***************************************************************************)
(* The launched sessions across Host stops: the boot recovery pass         *)
(* (launching/application/recoverAfterHostStart.ts, sessionResumer.ts,     *)
(* domain/reconcileOnBoot.ts), the grouped report with Retry and Dismiss   *)
(* (recoveryActions.ts), the exit check (sessionExited.ts), Stop dwarf and *)
(* Stop everything (crew/application/stop.ts, endOwned.ts, stopAll.ts).    *)
(*                                                                         *)
(* A handler that commits and then tells crew does so in two transactions: *)
(* only a Host stop can come between them.  No driver of this build is     *)
(* adoptable, so the adopt row of the boot table is left out.              *)
(***************************************************************************)
EXTENDS Naturals, FiniteSets

CONSTANTS
  Dwarfs,          \* the launched dwarfs
  MaxProcs         \* bound on the processes one session ever has

ASSUME RecoveryAssumption ==
  /\ IsFiniteSet(Dwarfs)
  /\ MaxProcs \in Nat \ {0}

VARIABLES
  \* the database
  record,          \* launch_records: each dwarf's row
  presence,        \* crew: "running", "unrecovered" or "gone"
  item,            \* the items of the latest recovery report
  \* the memory of one Host life
  up,
  phase,           \* the display phase of the report, machine 16
  job,             \* what is left of the recovery pass for each dwarf
  found,           \* the dwarfs this pass listed
  covered,         \* the dwarfs the recovery covers
  retry,           \* what is left of the running Retry for each dwarf
  stop,            \* each dwarf's stop in flight
  stopAll,         \* Stop everything: the rows as they were, and the outcomes
  tell,            \* what crew is told right after the commit that decided it
  held,            \* the process of the driver session the Host holds, or NoProc
  exits,           \* the dwarfs whose session's exit the Host has not taken yet
  \* the operating system
  procs,           \* the running processes of each session
  started,         \* how many each session ever had
  \* history
  deaf,            \* running dwarfs whose exit was dropped as covered
  untold,          \* dwarfs the Host stopped before it told crew of their departure
  lost,            \* processes no record names, or a boot could not probe
  swept            \* dwarfs Stop everything took, with no step of the recovery left for them

osVars == <<procs, started>>
storeVars == <<record, presence, item>>
reportVars == <<phase, job, found, covered, retry>>
stopVars == <<stop, stopAll>>
sessionVars == <<tell, held, exits>>
history == <<deaf, untold, lost, swept>>
vars == <<storeVars, up, reportVars, stopVars, sessionVars, osVars, history>>

-----------------------------------------------------------------------------
(* Data *)

NoProc == 0

\* A live row has no endedAt; stopped_by_person only silences a toast and is left out.
Rows == [live : BOOLEAN, intent : BOOLEAN, proc : 0..MaxProcs]

\* endedAt set: the row loses its resume intent (the table's CHECK).
Ended(r) == [r EXCEPT !.live = FALSE, !.intent = FALSE]

NoJob == [t |-> "none"]
\* A job carries the row as it was read, to write it back with the new process.
EndSurvivor(r, then) == [t |-> "end", row |-> r, then |-> then]
Resume(r) == [t |-> "resume", row |-> r]
Own(r, p) == [t |-> "own", row |-> r, proc |-> p]

NoStop == [t |-> "none"]
\* SessionTerminator.end reads the identity to kill when it is asked.
Ending(owned, p) == [t |-> "ending", owned |-> owned, proc |-> p]

NoStopAll == [t |-> "none"]

\* What ends a dwarf's life in crew; a recovery's two causes take only an unrecovered one.
RecoveryEnds == {"recovery-failed", "recovery-dismissed"}
Departures == {"closed"} \cup RecoveryEnds

\* The rest of a synchronous handler follows its commit before anything else runs.
Quiet == \A d \in Dwarfs : tell[d] = "none"
Runs == up /\ Quiet

Alive(d) == record[d].proc # NoProc /\ record[d].proc \in procs[d]

\* machine 2: a recovery's departure takes only a dwarf still unrecovered.
Told(now, what) ==
  IF now = "gone" \/ what = "none" \/ (what \in RecoveryEnds /\ now = "running") THEN now
  ELSE IF what = "unrecovered" THEN "unrecovered" ELSE "gone"

\* Crew hears what the transaction before decided.
CrewIsTold ==
  /\ up /\ ~Quiet
  /\ presence' = [d \in Dwarfs |-> Told(presence[d], tell[d])]
  /\ tell' = [d \in Dwarfs |-> "none"]
  /\ UNCHANGED <<record, item, up, reportVars, stopVars, held, exits, osVars, history>>

-----------------------------------------------------------------------------
(* Sessions *)

\* A process ends by itself; the Host hears of it through the driver session.
ProcessExits(d) ==
  /\ \E p \in procs[d] :
       /\ procs' = [procs EXCEPT ![d] = @ \ {p}]
       /\ exits' = IF held[d] = p THEN exits \cup {d} ELSE exits
  /\ UNCHANGED <<storeVars, up, reportVars, stopVars, tell, held, started, history>>

\* SessionExitedCheck.exited: a covered dwarf's exit is not heard.
Drops(d) == record[d].live /\ d \in covered

ExitIsHeard(d) ==
  /\ Runs /\ d \in exits /\ job[d].t # "own" /\ retry[d].t # "own"
  /\ exits' = exits \ {d}
  /\ held' = [held EXCEPT ![d] = NoProc]
  /\ IF Drops(d)
     THEN /\ deaf' = deaf \cup {d}
          /\ UNCHANGED <<record, tell>>
     ELSE /\ record' = [record EXCEPT ![d] = IF @.live THEN Ended(@) ELSE @]
          /\ tell' = IF presence[d] = "gone" THEN tell
                     ELSE [tell EXCEPT ![d] = "closed"]
          /\ UNCHANGED deaf
  /\ UNCHANGED <<presence, item, up, reportVars, stopVars, osVars, untold, lost, swept>>

-----------------------------------------------------------------------------
(* Stop dwarf and Stop everything *)

\* What the terminator will kill: the recorded process of a live record.
Target(d) == Ending(record[d].live, record[d].proc)

\* stop(): the row only learns that the person asked; its resume intent stays.
StopAsked(d) ==
  /\ Runs /\ presence[d] # "gone" /\ stop[d] = NoStop
  /\ stop' = [stop EXCEPT ![d] = Target(d)]
  /\ UNCHANGED <<storeVars, up, reportVars, stopAll, sessionVars, osVars, history>>

\* killTree confirmed the exit, or with no identity the driver session is gone.
Killed(d, target) ==
  /\ target.owned
  /\ target.proc = NoProc => held[d] = NoProc
  /\ procs' = [procs EXCEPT ![d] = @ \ {target.proc}]
  /\ exits' = IF held[d] # NoProc /\ held[d] = target.proc /\ target.proc \in procs[d]
              THEN exits \cup {d} ELSE exits

StopEnds(d) ==
  /\ Runs /\ stop[d].t = "ending"
  /\ Killed(d, stop[d])
  /\ presence' = [presence EXCEPT ![d] = "gone"]
  /\ stop' = [stop EXCEPT ![d] = NoStop]
  /\ UNCHANGED <<record, item, up, reportVars, stopAll, tell, held, started, history>>

\* A failed end keeps the dwarf; one that departed meanwhile is gone after all.
StopFails(d) ==
  /\ Runs /\ stop[d].t = "ending"
  /\ stop' = [stop EXCEPT ![d] = NoStop]
  /\ UNCHANGED <<storeVars, up, reportVars, stopAll, sessionVars, osVars, history>>

LiveDwarfs == {d \in Dwarfs : record[d].live}

\* With a fault: Stop everything leaves the resume intent until the ends settled.
MarkStoppedOnly(r) == r

\* One transaction: every live record stopped by the person, with no resume intent.
MarkStopped(r) == [r EXCEPT !.intent = FALSE]

Free(d) == job[d] = NoJob /\ retry[d] = NoJob

StopAllAsked ==
  /\ Runs /\ stopAll = NoStopAll
  /\ stopAll' = [t |-> "ending", before |-> record,
                 target |-> [d \in Dwarfs |-> Target(d)],
                 outcome |-> [d \in Dwarfs |-> IF d \notin LiveDwarfs THEN "none"
                                               ELSE IF presence[d] = "gone" THEN "ended"
                                               ELSE "pending"]]
  /\ record' = [d \in Dwarfs |-> IF record[d].live THEN MarkStopped(record[d]) ELSE record[d]]
  /\ swept' = swept \cup {d \in LiveDwarfs : Free(d)}
  /\ UNCHANGED <<presence, item, up, reportVars, stop, sessionVars, osVars>>
  /\ UNCHANGED <<deaf, untold, lost>>

StopAllEnds(d) ==
  /\ Runs /\ stopAll.t = "ending" /\ stopAll.outcome[d] = "pending"
  /\ \/ /\ Killed(d, stopAll.target[d])
        /\ stopAll' = [stopAll EXCEPT !.outcome[d] = "ended"]
     \/ /\ stopAll' = [stopAll EXCEPT !.outcome[d] = "failed"]
        /\ UNCHANGED <<procs, exits>>
  /\ UNCHANGED <<storeVars, up, reportVars, stop, tell, held, started, history>>

\* The dwarfs whose end failed and that did not depart meanwhile.
Failed == {d \in Dwarfs : stopAll.outcome[d] = "failed" /\ presence[d] # "gone"}

\* restore(): a session that could not be ended gets back what it had.
Restored(d) == IF record[d].live
               THEN [record[d] EXCEPT !.intent = stopAll.before[d].intent]
               ELSE record[d]

NoMemory ==
  /\ phase' = "none" /\ found' = {} /\ covered' = {} /\ exits' = {}
  /\ job' = [d \in Dwarfs |-> NoJob] /\ retry' = [d \in Dwarfs |-> NoJob]
  /\ stop' = [d \in Dwarfs |-> NoStop] /\ stopAll' = NoStopAll
  /\ tell' = [d \in Dwarfs |-> "none"] /\ held' = [d \in Dwarfs |-> NoProc]

\* The Host is gone with its memory; the sessions' processes may live on.
HostIsGone ==
  /\ up' = FALSE /\ NoMemory /\ deaf' = {}
  /\ lost' = {q \in Dwarfs \X (1..MaxProcs) :
                q[2] \in procs[q[1]] /\ (q[2] # record[q[1]].proc \/ q \in lost)}

\* Every end settled: the Host exits when none failed, and keeps running otherwise.
StopAllSettles ==
  /\ Runs /\ stopAll.t = "ending" /\ \A d \in Dwarfs : stopAll.outcome[d] # "pending"
  /\ presence' = [d \in Dwarfs |-> IF stopAll.outcome[d] = "ended" THEN "gone" ELSE presence[d]]
  /\ IF Failed = {}
     THEN HostIsGone /\ UNCHANGED <<record, swept>>
     ELSE /\ record' = [d \in Dwarfs |-> IF d \in Failed THEN Restored(d) ELSE record[d]]
          /\ swept' = swept \ Failed
          /\ stopAll' = NoStopAll
          /\ UNCHANGED <<up, reportVars, stop, sessionVars, deaf, lost>>
  /\ UNCHANGED <<item, osVars, untold>>

-----------------------------------------------------------------------------
(* A Host stop, and the next Host *)

Crash ==
  /\ up /\ HostIsGone
  /\ untold' = untold \cup {d \in Dwarfs : tell[d] \in Departures}
  /\ UNCHANGED <<storeVars, osVars, swept>>

\* reconcileOnBoot(): the first row of the table that matches; can: its driver resumes sessions.
Verdict(d, how, alive, can) ==
  IF ~record[d].live THEN "none"
  ELSE IF how = "rebooted" \/ (how = "os-session-end" /\ ~alive) \/ ~record[d].intent THEN "ended"
  ELSE IF alive THEN "end-survivor"
  ELSE IF can THEN "resume" ELSE "unrecovered"

\* classify(): the rows decided, the report saved, the jobs queued; crew is told after it.
Classified(verdict, known, can) ==
  LET ends == {d \in Dwarfs : verdict[d] = "ended"}
      listed == {d \in Dwarfs : verdict[d] = "unrecovered"} IN
  /\ record' = [d \in Dwarfs |-> IF d \in ends THEN Ended(record[d]) ELSE record[d]]
  /\ tell' = [d \in Dwarfs |-> IF d \in ends THEN "closed"
                               ELSE IF d \in listed THEN "unrecovered" ELSE "none"]
  /\ job' = [d \in Dwarfs |-> CASE verdict[d] = "end-survivor" -> EndSurvivor(record[d], d \in can)
                                [] verdict[d] = "resume" -> Resume(record[d])
                                [] OTHER -> NoJob]
  /\ found' = listed
  /\ covered' = LiveDwarfs \ ends
  /\ item' = [d \in Dwarfs |-> IF d \in listed THEN "open" ELSE "none"]
  /\ lost' = lost \cup {<<d, record[d].proc>> : d \in {e \in LiveDwarfs : Alive(e)} \ known}

\* known: the processes the probe saw; can: the dwarfs whose driver resumes sessions.
Boot ==
  /\ ~up
  /\ \E how \in {"crashed", "rebooted", "os-session-end"},
        known \in SUBSET {d \in LiveDwarfs : Alive(d)}, can \in SUBSET LiveDwarfs :
       /\ how = "rebooted" => \A d \in Dwarfs : procs[d] = {}
       /\ Classified([d \in Dwarfs |-> Verdict(d, how, d \in known, d \in can)], known, can)
  /\ up' = TRUE /\ phase' = "collecting"
  /\ UNCHANGED <<presence, retry, stopVars, held, exits, osVars, deaf, untold, swept>>

\* With a fault: crew is told, the report is not.
GivenUpUnlisted(d) ==
  /\ presence' = [presence EXCEPT ![d] = Told(@, "unrecovered")]
  /\ job' = [job EXCEPT ![d] = NoJob]
  /\ UNCHANGED found

\* With a fault: the job is listed and never done.
GivenUpKeepsJob(d) ==
  /\ found' = found \cup {d}
  /\ presence' = [presence EXCEPT ![d] = Told(@, "unrecovered")]
  /\ UNCHANGED job

\* unrecovered(): listed with its first reason, and marked in crew.
GivenUp(d) ==
  /\ found' = found \cup {d}
  /\ presence' = [presence EXCEPT ![d] = Told(@, "unrecovered")]
  /\ job' = [job EXCEPT ![d] = NoJob]

\* With a fault: the resume follows also when the survivor could not be ended.
AfterFailedEndResumes(d) ==
  /\ job' = [job EXCEPT ![d] = Resume(job[d].row)]
  /\ UNCHANGED <<found, presence>>

AfterFailedEnd(d) == GivenUp(d)

\* A survivor is ended first; crew answers at once for a dwarf that departed meanwhile.
SurvivorEnds(d) ==
  /\ Runs /\ job[d].t = "end"
  /\ \/ /\ IF presence[d] = "gone" THEN UNCHANGED <<procs, exits>> ELSE Killed(d, Target(d))
        /\ IF job[d].then
           THEN job' = [job EXCEPT ![d] = Resume(job[d].row)] /\ UNCHANGED <<found, presence>>
           ELSE GivenUp(d)
     \/ /\ presence[d] # "gone"
        /\ AfterFailedEnd(d)
        /\ UNCHANGED <<procs, exits>>
  /\ UNCHANGED <<record, item, up, phase, covered, retry, stopVars, tell, held, started, history>>

\* The driver starts a process for the session.
Starts(d) ==
  /\ started[d] < MaxProcs
  /\ started' = [started EXCEPT ![d] = @ + 1]
  /\ procs' = [procs EXCEPT ![d] = @ \cup {started[d] + 1}]
  /\ held' = [held EXCEPT ![d] = started[d] + 1]

\* SessionResumer.resume: the driver answers with a session, or refuses.
ResumeStarts(d) ==
  /\ Runs /\ job[d].t = "resume"
  /\ \/ /\ Starts(d)
        /\ job' = [job EXCEPT ![d] = Own(job[d].row, started[d] + 1)]
        /\ UNCHANGED <<found, presence>>
     \/ /\ GivenUp(d)
        /\ UNCHANGED <<procs, started, held>>
  /\ UNCHANGED <<record, item, up, phase, covered, retry, stopVars, tell, exits, history>>

\* ownResumed(): the row as it was read, with the process its pid shows, if it shows one.
Owned(d, j) ==
  \E p \in {NoProc} \cup ({j.proc} \cap procs[d]) :
    /\ record' = [record EXCEPT ![d] = [j.row EXCEPT !.proc = p]]
    /\ presence' = [presence EXCEPT ![d] = IF @ = "unrecovered" THEN "running" ELSE @]

ResumeIsOwned(d) ==
  /\ Runs /\ job[d].t = "own"
  /\ Owned(d, job[d])
  /\ job' = [job EXCEPT ![d] = NoJob]
  /\ UNCHANGED <<item, up, phase, found, covered, retry, stopVars, sessionVars, osVars, history>>

\* resumeAll(): every job settled; a lost turn or a message marked failed lists its dwarf too.
ResumesSettle ==
  /\ Runs /\ phase = "collecting" /\ \A d \in Dwarfs : job[d] = NoJob
  /\ \E interrupted \in SUBSET covered :
       LET listed == found \cup interrupted IN
       /\ found' = {}
       /\ item' = [d \in Dwarfs |-> IF d \in listed THEN "open" ELSE item[d]]
       /\ phase' = IF listed = {} THEN "none" ELSE "pending-display"
  /\ UNCHANGED <<record, presence, up, job, covered, retry, stopVars, sessionVars, osVars, history>>

-----------------------------------------------------------------------------
(* The report *)

Shown ==
  /\ Runs /\ phase = "pending-display"
  /\ phase' = "shown"
  /\ UNCHANGED <<storeVars, up, job, found, covered, retry, stopVars, sessionVars, osVars, history>>

Open == {d \in Dwarfs : item[d] = "open"}
Unrecovered == {d \in Dwarfs : presence[d] = "unrecovered"}

Queued == [t |-> "queued"]

\* retryRecovery(): the dwarfs still unrecovered resume, the others settle as they are.
RetryAsked ==
  /\ Runs /\ phase \in {"pending-display", "shown"} /\ Open # {}
  /\ phase' = "retrying"
  /\ item' = [d \in Dwarfs |-> IF d \in Open \ Unrecovered THEN "resumed" ELSE item[d]]
  /\ retry' = [d \in Dwarfs |-> IF d \in Open \cap Unrecovered THEN Queued ELSE NoJob]
  /\ UNCHANGED <<record, presence, up, job, found, covered, stopVars, sessionVars, osVars, history>>

\* failed(): the item settles, the record ends, and the dwarf walks out by its route.
RetryFails(d) ==
  /\ item' = [item EXCEPT ![d] = "failed"]
  /\ record' = [record EXCEPT ![d] = IF @.live THEN Ended(@) ELSE @]
  /\ tell' = [tell EXCEPT ![d] = "recovery-failed"]
  /\ retry' = [retry EXCEPT ![d] = NoJob]

RetryStarts(d) ==
  /\ Runs /\ retry[d].t = "queued"
  /\ \/ /\ record[d].live
        /\ Starts(d)
        /\ retry' = [retry EXCEPT ![d] = Own(record[d], started[d] + 1)]
        /\ UNCHANGED <<item, record, tell>>
     \/ /\ RetryFails(d)
        /\ UNCHANGED <<procs, started, held>>
  /\ UNCHANGED <<presence, up, phase, job, found, covered, stopVars, exits, history>>

RetryIsOwned(d) ==
  /\ Runs /\ retry[d].t = "own"
  /\ Owned(d, retry[d])
  /\ item' = [item EXCEPT ![d] = "resumed"]
  /\ retry' = [retry EXCEPT ![d] = NoJob]
  /\ UNCHANGED <<up, phase, job, found, covered, stopVars, sessionVars, osVars, history>>

RetriesSettle ==
  /\ Runs /\ phase = "retrying" /\ \A d \in Dwarfs : retry[d] = NoJob
  /\ phase' = "settled"
  /\ UNCHANGED <<storeVars, up, job, found, covered, retry, stopVars, sessionVars, osVars, history>>

\* With a fault: a dismissal ends the record of every listed dwarf, a running one's too.
DismissedAll(d) == IF d \in Open /\ record[d].live THEN Ended(record[d]) ELSE record[d]

\* The record of a listed dwarf still unrecovered ends; one whose session runs keeps its own.
Dismissed(d) == IF d \in Open \cap Unrecovered /\ record[d].live THEN Ended(record[d]) ELSE record[d]

DismissAsked ==
  /\ Runs /\ phase \in {"pending-display", "shown"} /\ Open # {}
  /\ phase' = "settled"
  /\ record' = [d \in Dwarfs |-> Dismissed(d)]
  /\ item' = [d \in Dwarfs |-> IF d \in Open THEN "none" ELSE item[d]]
  /\ tell' = [d \in Dwarfs |-> IF d \in Open THEN "recovery-dismissed" ELSE "none"]
  /\ UNCHANGED <<presence, up, job, found, covered, retry, stopVars, held, exits, osVars, history>>

-----------------------------------------------------------------------------
\* Each session was launched by the first Host and runs.
Init ==
  /\ record = [d \in Dwarfs |-> [live |-> TRUE, intent |-> TRUE, proc |-> 1]]
  /\ presence = [d \in Dwarfs |-> "running"]
  /\ item = [d \in Dwarfs |-> "none"]
  /\ up = TRUE /\ phase = "none"
  /\ job = [d \in Dwarfs |-> NoJob] /\ found = {} /\ covered = {}
  /\ retry = [d \in Dwarfs |-> NoJob]
  /\ stop = [d \in Dwarfs |-> NoStop] /\ stopAll = NoStopAll
  /\ tell = [d \in Dwarfs |-> "none"] /\ held = [d \in Dwarfs |-> 1] /\ exits = {}
  /\ procs = [d \in Dwarfs |-> {1}] /\ started = [d \in Dwarfs |-> 1]
  /\ deaf = {} /\ untold = {} /\ lost = {} /\ swept = {}

-----------------------------------------------------------------------------
Pass(d) == SurvivorEnds(d) \/ ResumeStarts(d) \/ ResumeIsOwned(d)
Retrying(d) == RetryStarts(d) \/ RetryIsOwned(d)
Person == (\E d \in Dwarfs : StopAsked(d)) \/ StopAllAsked \/ RetryAsked \/ DismissAsked
Ends == \/ \E d \in Dwarfs : StopEnds(d) \/ StopFails(d) \/ StopAllEnds(d)
        \/ StopAllSettles

Next == \/ \E d \in Dwarfs : ProcessExits(d) \/ ExitIsHeard(d) \/ Pass(d) \/ Retrying(d)
        \/ CrewIsTold \/ Person \/ Ends \/ Crash \/ Boot
        \/ ResumesSettle \/ Shown \/ RetriesSettle

Spec == Init /\ [][Next]_vars

(* The pass, a Retry and what crew is told are the Host's own timers and continuations. *)
Fairness ==
  /\ \A d \in Dwarfs : WF_vars(Pass(d)) /\ WF_vars(Retrying(d))
  /\ WF_vars(CrewIsTold) /\ WF_vars(ResumesSettle) /\ WF_vars(RetriesSettle)

FairSpec == Spec /\ Fairness

-----------------------------------------------------------------------------
(* Properties *)

Jobs == {NoJob, Queued} \cup [t : {"end"}, row : Rows, then : BOOLEAN]
        \cup [t : {"resume"}, row : Rows] \cup [t : {"own"}, row : Rows, proc : 1..MaxProcs]

Stops == [t : {"ending"}, owned : BOOLEAN, proc : 0..MaxProcs]
Outcomes == {"none", "ended", "pending", "failed"}

\* Types.
TypeOK ==
  /\ record \in [Dwarfs -> Rows]
  /\ presence \in [Dwarfs -> {"running", "unrecovered", "gone"}]
  /\ item \in [Dwarfs -> {"none", "open", "resumed", "failed"}]
  /\ up \in BOOLEAN
  /\ phase \in {"none", "collecting", "pending-display", "shown", "retrying", "settled"}
  /\ job \in [Dwarfs -> Jobs] /\ retry \in [Dwarfs -> Jobs]
  /\ found \subseteq Dwarfs /\ covered \subseteq Dwarfs /\ exits \subseteq Dwarfs
  /\ held \in [Dwarfs -> 0..MaxProcs] /\ started \in [Dwarfs -> 1..MaxProcs]
  /\ procs \in [Dwarfs -> SUBSET (1..MaxProcs)]
  /\ tell \in [Dwarfs -> Departures \cup {"none", "unrecovered"}]
  /\ stop \in [Dwarfs -> {NoStop} \cup Stops]
  /\ stopAll \in {NoStopAll} \cup [t : {"ending"}, before : [Dwarfs -> Rows],
                                  target : [Dwarfs -> Stops], outcome : [Dwarfs -> Outcomes]]
  /\ deaf \subseteq Dwarfs /\ untold \subseteq Dwarfs /\ swept \subseteq Dwarfs
  /\ lost \subseteq Dwarfs \X (0..MaxProcs)

\* Once the pass has ended, a dwarf crew shows unrecovered is one the report still offers to
\* Retry or Dismiss, unless the Host stopped between deciding its departure and telling crew.
ListedIsOffered ==
  Runs /\ phase # "collecting" =>
    \A d \in Dwarfs : presence[d] = "unrecovered" =>
      \/ item[d] = "open" /\ phase \in {"pending-display", "shown", "retrying"}
      \/ d \in untold

\* Once the pass has ended, a dwarf shown running has a live record and a session the Host
\* hears, unless its exit is waiting, was dropped as covered, or its departure was never told.
RunningIsHeard ==
  Runs /\ phase # "collecting" =>
    \A d \in Dwarfs : presence[d] = "running" =>
      \/ record[d].live /\ held[d] # NoProc
      \/ d \in deaf \cup untold

\* INV-56 for the boot pass: for a dwarf in its mine it asks a driver to resume the session only
\* when no process of it runs but those no record names or the boot could not probe.
PassEndsSurvivorFirst ==
  [][\A d \in Dwarfs : presence[d] # "gone" /\ job[d].t = "resume" /\ job'[d].t = "own" =>
       {p \in procs[d] : <<d, p>> \notin lost} = {}]_vars

\* S4.23: no later boot takes up a session Stop everything took, whatever stopped the Host
\* meanwhile; a session it could not end is the Host's again.
StopAllResumesNothing == \A d \in swept : job[d] = NoJob

\* The pass ends, unless the Host stops.
PassEnds == phase = "collecting" ~> phase # "collecting"

\* sessionExited.ts:12: the exit dropped for a covered dwarf is that of its old process, never
\* that of the session the Host holds for it.
DroppedExitIsOld == [][\A d \in deaf' \ deaf : held[d] = NoProc]_vars
=============================================================================
