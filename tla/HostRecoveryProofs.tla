------------------------- MODULE HostRecoveryProofs -------------------------
(***************************************************************************)
(* What holds of the recovery after a Host start for any number of         *)
(* launched dwarfs, of Host stops and of processes: its typing, that a     *)
(* dwarf shown running is heard and one shown unrecovered is offered, that *)
(* the pass resumes no session beside a survivor, and that a later boot    *)
(* takes up nothing Stop everything took.                                  *)
(***************************************************************************)
EXTENDS HostRecovery, TLAPS

-----------------------------------------------------------------------------
(* The inductive invariant *)

\* The pass has jobs only while it collects, a Retry only while it retries, and both
\* only while the Host is up, as what is still to be told.
WorkHasItsPhase ==
  \A d \in Dwarfs :
    /\ job[d] # NoJob => up /\ phase = "collecting" /\ job[d].t # "queued"
    /\ retry[d] # NoJob => up /\ phase = "retrying" /\ retry[d].t \in {"queued", "own"}
    /\ tell[d] # "none" => up
    /\ tell[d] = "unrecovered" => phase = "collecting" /\ d \in found

\* A job works on a live row; between the start and the row the driver session is held.
JobsAreLive ==
  \A d \in Dwarfs :
    /\ job[d] # NoJob => job[d].row.live
    /\ job[d].t = "own" => held[d] # NoProc
    /\ retry[d].t = "own" => retry[d].row.live /\ held[d] # NoProc

\* What is told next takes the dwarf out of its mine.
Leaving(d) == tell[d] \in Departures /\ Told(presence[d], tell[d]) = "gone"

\* A dwarf whose record ended left, is leaving, or was never told of.
EndedLeaves ==
  \A d \in Dwarfs : ~ record[d].live => presence[d] = "gone" \/ d \in untold \/ Leaving(d)

\* A Retry waits only for dwarfs that do not run.
QueuedAreDown == \A d \in Dwarfs : retry[d] = Queued => presence[d] # "running"

\* A dwarf shown running is heard, or the pass still has to do with it.
RunningIsTracked ==
  up => \A d \in Dwarfs : presence[d] = "running" =>
    \/ record[d].live /\ held[d] # NoProc
    \/ d \in deaf \cup untold
    \/ job[d] # NoJob \/ tell[d] \in {"closed", "unrecovered"}

\* What holds of a dwarf shown unrecovered, by the phase of the report.
OfferedIn(d) ==
  CASE phase = "collecting" -> d \in found \/ job[d] # NoJob
    [] phase \in {"pending-display", "shown"} -> item[d] = "open"
    [] phase = "retrying" -> item[d] = "open" /\ retry[d] # NoJob
    [] OTHER -> FALSE

UnrecoveredIsTracked ==
  up => \A d \in Dwarfs : presence[d] = "unrecovered" =>
    OfferedIn(d) \/ d \in untold \/ Leaving(d)

\* A process of d no record names, or a boot could not probe.
Lost(d, p) == <<d, p>> \in lost

\* While the Host is down the processes its record does not name are written down as lost,
\* and during the pass nothing else runs beside the survivor that is to be ended.
StrangersOf(d) ==
  \A p \in procs[d] :
    /\ ~ up \/ job[d].t = "end" => p = record[d].proc \/ Lost(d, p)
    /\ job[d].t = "resume" /\ presence[d] # "gone" => Lost(d, p)

StrangersAreLost == \A d \in Dwarfs : StrangersOf(d)

\* What Stop everything took has no resume intent, and nothing left to give it one back.
SweptHasNoIntent ==
  \A d \in swept :
    /\ job[d] = NoJob
    /\ ~ record[d].intent
    /\ retry[d].t = "own" => ~ retry[d].row.intent

RecoveryInv ==
  /\ TypeOK
  /\ WorkHasItsPhase /\ JobsAreLive /\ EndedLeaves /\ QueuedAreDown
  /\ RunningIsTracked /\ UnrecoveredIsTracked /\ StrangersAreLost /\ SweptHasNoIntent
-----------------------------------------------------------------------------
(* Lemmas about the data *)

\* What the kind of a job says of it.
LEMMA JobShape ==
  ASSUME NEW j \in Jobs
  PROVE  /\ j.t \in {"none", "queued", "end", "resume", "own"}
         /\ j.t = "none" <=> j = NoJob
         /\ j.t = "queued" <=> j = Queued
         /\ j.t \in {"end", "resume", "own"} => j.row \in Rows
         /\ j.t = "own" => j.proc \in 1..MaxProcs
BY DEF Jobs, NoJob, Queued

\* The jobs a pass or a Retry makes.
LEMMA JobsMade ==
  ASSUME NEW r \in Rows, NEW b \in BOOLEAN, NEW p \in 1..MaxProcs
  PROVE  /\ NoJob \in Jobs /\ NoJob.t = "none"
         /\ Queued \in Jobs /\ Queued.t = "queued"
         /\ EndSurvivor(r, b) \in Jobs
         /\ EndSurvivor(r, b).t = "end" /\ EndSurvivor(r, b).row = r
         /\ Resume(r) \in Jobs /\ Resume(r).t = "resume" /\ Resume(r).row = r
         /\ Own(r, p) \in Jobs
         /\ Own(r, p).t = "own" /\ Own(r, p).row = r /\ Own(r, p).proc = p
BY DEF Jobs, NoJob, Queued, EndSurvivor, Resume, Own

LEMMA NoJobs ==
  /\ NoJob \in Jobs /\ NoJob.t = "none"
  /\ Queued \in Jobs /\ Queued.t = "queued" /\ Queued # NoJob
BY DEF Jobs, NoJob, Queued

\* The rows the Host writes.
LEMMA RowsMade ==
  ASSUME NEW r \in Rows
  PROVE  /\ Ended(r) \in Rows /\ ~ Ended(r).live /\ ~ Ended(r).intent /\ Ended(r).proc = r.proc
         /\ MarkStopped(r) \in Rows /\ MarkStopped(r).live = r.live
         /\ ~ MarkStopped(r).intent /\ MarkStopped(r).proc = r.proc
         /\ \A p \in 0..MaxProcs : /\ [r EXCEPT !.proc = p] \in Rows
                                   /\ [r EXCEPT !.proc = p].live = r.live
                                   /\ [r EXCEPT !.proc = p].intent = r.intent
         /\ \A i \in BOOLEAN : /\ [r EXCEPT !.intent = i] \in Rows
                               /\ [r EXCEPT !.intent = i].live = r.live
                               /\ [r EXCEPT !.intent = i].proc = r.proc
BY DEF Rows, Ended, MarkStopped

\* A stop takes its target as the record has it.
LEMMA TargetType ==
  ASSUME TypeOK, NEW d \in Dwarfs
  PROVE  Target(d) \in Stops /\ Target(d).proc = record[d].proc /\ Target(d).owned = record[d].live
BY DEF TypeOK, Target, Ending, Stops, Rows

\* Zero is no process.
LEMMA ProcNumbers ==
  /\ NoProc \in 0..MaxProcs /\ NoProc \notin 1..MaxProcs
  /\ 1..MaxProcs \subseteq 0..MaxProcs /\ 1 \in 1..MaxProcs
BY RecoveryAssumption DEF NoProc

\* What a kill leaves of the processes, and of the exits to hear.
LEMMA KilledType ==
  ASSUME TypeOK, NEW d \in Dwarfs, NEW STATE target, Killed(d, target)
  PROVE  /\ procs' = [procs EXCEPT ![d] = @ \ {target.proc}]
         /\ procs' \in [Dwarfs -> SUBSET (1..MaxProcs)]
         /\ exits' \subseteq Dwarfs
         /\ target.owned
         /\ \A e \in Dwarfs : procs'[e] \subseteq procs[e]
BY DEF Killed, TypeOK

\* A start gives the session a process, and the Host holds it.
LEMMA StartsType ==
  ASSUME TypeOK, NEW d \in Dwarfs, Starts(d)
  PROVE  /\ started' \in [Dwarfs -> 1..MaxProcs]
         /\ procs' \in [Dwarfs -> SUBSET (1..MaxProcs)]
         /\ held' \in [Dwarfs -> 0..MaxProcs]
         /\ held' = [held EXCEPT ![d] = started[d] + 1]
         /\ held'[d] # NoProc
         /\ started[d] + 1 \in 1..MaxProcs
         /\ \A e \in Dwarfs \ {d} : procs'[e] = procs[e]
<1>1. started[d] \in 1..MaxProcs /\ started[d] < MaxProcs
  BY DEF TypeOK, Starts
<1>2. started[d] + 1 \in 1..MaxProcs /\ started[d] + 1 # 0
  BY <1>1, RecoveryAssumption
<1> QED BY <1>2, ProcNumbers DEF TypeOK, Starts, NoProc

-----------------------------------------------------------------------------
(* Types *)

LEMMA InitType == Init => TypeOK
<1> SUFFICES ASSUME Init PROVE TypeOK
  OBVIOUS
<1>1. [live |-> TRUE, intent |-> TRUE, proc |-> 1] \in Rows
  BY ProcNumbers DEF Rows
<1> QED BY <1>1, ProcNumbers, NoJobs DEF Init, TypeOK, Departures, RecoveryEnds

\* The memory a Host stop leaves.
LEMMA NoMemoryType ==
  ASSUME NoMemory
  PROVE  /\ phase' = "none" /\ found' = {} /\ covered' = {} /\ exits' = {}
         /\ job' \in [Dwarfs -> Jobs] /\ retry' \in [Dwarfs -> Jobs]
         /\ stop' \in [Dwarfs -> {NoStop} \cup Stops] /\ stopAll' = NoStopAll
         /\ tell' \in [Dwarfs -> Departures \cup {"none", "unrecovered"}]
         /\ held' \in [Dwarfs -> 0..MaxProcs]
         /\ \A d \in Dwarfs : job'[d] = NoJob /\ retry'[d] = NoJob /\ tell'[d] = "none"
BY NoJobs, ProcNumbers DEF NoMemory

LEMMA HostIsGoneType ==
  ASSUME HostIsGone
  PROVE  lost' \subseteq Dwarfs \X (0..MaxProcs) /\ up' = FALSE /\ deaf' = {}
BY DEF HostIsGone

LEMMA TypeStep == TypeOK /\ [Next]_vars => TypeOK'
<1> SUFFICES ASSUME TypeOK, [Next]_vars PROVE TypeOK'
  OBVIOUS
<1> USE DEF storeVars, osVars, reportVars, stopVars, sessionVars, history
<1>1. ASSUME NEW d \in Dwarfs, ProcessExits(d) PROVE TypeOK'
  BY <1>1 DEF ProcessExits, TypeOK
<1>2. ASSUME NEW d \in Dwarfs, ExitIsHeard(d) PROVE TypeOK'
  <2>1. record[d] \in Rows /\ Ended(record[d]) \in Rows
    BY RowsMade DEF TypeOK
  <2> QED BY <1>2, <2>1, ProcNumbers DEF ExitIsHeard, TypeOK, Departures
<1>3. ASSUME NEW d \in Dwarfs, SurvivorEnds(d) PROVE TypeOK'
  <2>1. job[d] \in Jobs /\ job[d].t = "end"
    BY <1>3 DEF SurvivorEnds, TypeOK
  <2>2. Resume(job[d].row) \in Jobs
    BY <2>1, JobShape, JobsMade, ProcNumbers
  <2>3. procs' \in [Dwarfs -> SUBSET (1..MaxProcs)] /\ exits' \subseteq Dwarfs
    BY <1>3, KilledType DEF SurvivorEnds, TypeOK
  <2>4. /\ job' \in [Dwarfs -> Jobs] /\ found' \subseteq Dwarfs
        /\ presence' \in [Dwarfs -> {"running", "unrecovered", "gone"}]
    BY <1>3, <2>2, NoJobs DEF SurvivorEnds, GivenUp, AfterFailedEnd, TypeOK, Told
  <2> QED BY <1>3, <2>3, <2>4 DEF SurvivorEnds, TypeOK
<1>4. ASSUME NEW d \in Dwarfs, ResumeStarts(d) PROVE TypeOK'
  <2>1. job[d] \in Jobs /\ job[d].row \in Rows
    BY <1>4, JobShape DEF ResumeStarts, TypeOK
  <2>2. CASE Starts(d) /\ job' = [job EXCEPT ![d] = Own(job[d].row, started[d] + 1)]
                       /\ UNCHANGED <<found, presence>>
    <3>1. Own(job[d].row, started[d] + 1) \in Jobs
      BY <2>1, <2>2, StartsType, JobsMade
    <3> QED BY <1>4, <2>2, <3>1, StartsType DEF ResumeStarts, TypeOK
  <2>3. CASE GivenUp(d) /\ UNCHANGED <<procs, started, held>>
    BY <1>4, <2>3, NoJobs DEF ResumeStarts, GivenUp, TypeOK, Told
  <2> QED BY <1>4, <2>2, <2>3 DEF ResumeStarts
<1>5. ASSUME NEW d \in Dwarfs, NEW j \in Jobs, j.t = "own", Owned(d, j)
      PROVE  /\ record' \in [Dwarfs -> Rows]
             /\ presence' \in [Dwarfs -> {"running", "unrecovered", "gone"}]
  <2>1. j.row \in Rows /\ j.proc \in 0..MaxProcs
    BY <1>5, JobShape, ProcNumbers
  <2>2. PICK p \in {NoProc} \cup ({j.proc} \cap procs[d]) :
          /\ record' = [record EXCEPT ![d] = [j.row EXCEPT !.proc = p]]
          /\ presence' = [presence EXCEPT ![d] = IF @ = "unrecovered" THEN "running" ELSE @]
    BY <1>5 DEF Owned
  <2>3. [j.row EXCEPT !.proc = p] \in Rows
    BY <2>1, <2>2, RowsMade, ProcNumbers
  <2> QED BY <2>2, <2>3 DEF TypeOK
<1>6. ASSUME NEW d \in Dwarfs, ResumeIsOwned(d) PROVE TypeOK'
  <2>1. /\ record' \in [Dwarfs -> Rows]
        /\ presence' \in [Dwarfs -> {"running", "unrecovered", "gone"}]
    BY <1>5, <1>6 DEF ResumeIsOwned, TypeOK
  <2> QED BY <1>6, <2>1, NoJobs DEF ResumeIsOwned, TypeOK
<1>7. ASSUME NEW d \in Dwarfs, RetryStarts(d) PROVE TypeOK'
  <2>1. record[d] \in Rows /\ Ended(record[d]) \in Rows
    BY RowsMade DEF TypeOK
  <2>2. CASE /\ record[d].live /\ Starts(d)
             /\ retry' = [retry EXCEPT ![d] = Own(record[d], started[d] + 1)]
             /\ UNCHANGED <<item, record, tell>>
    <3>1. Own(record[d], started[d] + 1) \in Jobs
      BY <2>1, <2>2, StartsType, JobsMade
    <3> QED BY <1>7, <2>2, <3>1, StartsType DEF RetryStarts, TypeOK
  <2>3. CASE RetryFails(d) /\ UNCHANGED <<procs, started, held>>
    BY <1>7, <2>1, <2>3, NoJobs DEF RetryStarts, RetryFails, TypeOK, Departures, RecoveryEnds
  <2> QED BY <1>7, <2>2, <2>3 DEF RetryStarts
<1>8. ASSUME NEW d \in Dwarfs, RetryIsOwned(d) PROVE TypeOK'
  <2>1. /\ record' \in [Dwarfs -> Rows]
        /\ presence' \in [Dwarfs -> {"running", "unrecovered", "gone"}]
    BY <1>5, <1>8 DEF RetryIsOwned, TypeOK
  <2> QED BY <1>8, <2>1, NoJobs DEF RetryIsOwned, TypeOK
<1>9. CASE CrewIsTold
  BY <1>9 DEF CrewIsTold, TypeOK, Told
<1>10. ASSUME NEW d \in Dwarfs, StopAsked(d) PROVE TypeOK'
  BY <1>10, TargetType DEF StopAsked, TypeOK
<1>11. CASE StopAllAsked
  <2> DEFINE what == [d \in Dwarfs |-> Target(d)]
             how == [d \in Dwarfs |-> IF d \notin LiveDwarfs THEN "none"
                                      ELSE IF presence[d] = "gone" THEN "ended" ELSE "pending"]
  <2>1. what \in [Dwarfs -> Stops] /\ how \in [Dwarfs -> Outcomes]
    BY TargetType DEF Outcomes
  <2>2. stopAll' = [t |-> "ending", before |-> record, target |-> what, outcome |-> how]
    BY <1>11 DEF StopAllAsked
  <2> HIDE DEF what, how
  <2>3. stopAll' \in [t : {"ending"}, before : [Dwarfs -> Rows],
                      target : [Dwarfs -> Stops], outcome : [Dwarfs -> Outcomes]]
    BY <2>1, <2>2 DEF TypeOK
  <2>4. \A d \in Dwarfs : MarkStopped(record[d]) \in Rows
    BY RowsMade DEF TypeOK
  <2>5. record' \in [Dwarfs -> Rows] /\ swept' \subseteq Dwarfs
    BY <1>11, <2>4 DEF StopAllAsked, TypeOK, LiveDwarfs
  <2> QED BY <1>11, <2>3, <2>5 DEF StopAllAsked, TypeOK
<1>12. CASE RetryAsked
  <2>1. /\ retry' = [d \in Dwarfs |-> IF d \in Open \cap Unrecovered THEN Queued ELSE NoJob]
        /\ item' = [d \in Dwarfs |-> IF d \in Open \ Unrecovered THEN "resumed" ELSE item[d]]
    BY <1>12 DEF RetryAsked
  <2> QED BY <1>12, <2>1, NoJobs DEF RetryAsked, TypeOK
<1>13. CASE DismissAsked
  <2>1. \A d \in Dwarfs : Dismissed(d) \in Rows
    BY RowsMade DEF TypeOK, Dismissed
  <2> QED BY <1>13, <2>1 DEF DismissAsked, TypeOK, Departures, RecoveryEnds
<1>14. ASSUME NEW d \in Dwarfs, StopEnds(d) PROVE TypeOK'
  <2>1. procs' \in [Dwarfs -> SUBSET (1..MaxProcs)] /\ exits' \subseteq Dwarfs
    BY <1>14, KilledType DEF StopEnds
  <2> QED BY <1>14, <2>1 DEF StopEnds, TypeOK
<1>15. ASSUME NEW d \in Dwarfs, StopFails(d) PROVE TypeOK'
  BY <1>15 DEF StopFails, TypeOK
<1>16. ASSUME NEW d \in Dwarfs, StopAllEnds(d) PROVE TypeOK'
  <2>1. procs' \in [Dwarfs -> SUBSET (1..MaxProcs)] /\ exits' \subseteq Dwarfs
    BY <1>16, KilledType DEF StopAllEnds, TypeOK
  <2>2. stopAll \in [t : {"ending"}, before : [Dwarfs -> Rows],
                     target : [Dwarfs -> Stops], outcome : [Dwarfs -> Outcomes]]
    BY <1>16 DEF StopAllEnds, TypeOK, NoStopAll
  <2>3. PICK o \in {"ended", "failed"} : stopAll' = [stopAll EXCEPT !.outcome[d] = o]
    BY <1>16 DEF StopAllEnds
  <2>4. stopAll' \in [t : {"ending"}, before : [Dwarfs -> Rows],
                      target : [Dwarfs -> Stops], outcome : [Dwarfs -> Outcomes]]
    BY <2>2, <2>3 DEF Outcomes
  <2> QED BY <1>16, <2>1, <2>4 DEF StopAllEnds, TypeOK
<1>17. CASE StopAllSettles
  <2>1. stopAll \in [t : {"ending"}, before : [Dwarfs -> Rows],
                     target : [Dwarfs -> Stops], outcome : [Dwarfs -> Outcomes]]
    BY <1>17 DEF StopAllSettles, TypeOK, NoStopAll
  <2>2. presence' \in [Dwarfs -> {"running", "unrecovered", "gone"}]
    BY <1>17 DEF StopAllSettles, TypeOK
  <2>3. CASE HostIsGone /\ UNCHANGED <<record, swept>>
    BY <1>17, <2>2, <2>3, NoMemoryType, HostIsGoneType DEF StopAllSettles, TypeOK, HostIsGone
  <2>4. CASE /\ record' = [d \in Dwarfs |-> IF d \in Failed THEN Restored(d) ELSE record[d]]
             /\ swept' = swept \ Failed
             /\ stopAll' = NoStopAll
             /\ UNCHANGED <<up, reportVars, stop, sessionVars, deaf, lost>>
    <3>1. \A d \in Dwarfs : stopAll.before[d].intent \in BOOLEAN /\ record[d] \in Rows
      BY <2>1 DEF Rows, TypeOK
    <3>2. \A d \in Dwarfs : Restored(d) \in Rows
      BY <3>1, RowsMade DEF Restored
    <3> QED BY <1>17, <2>2, <2>4, <3>2 DEF StopAllSettles, TypeOK
  <2> QED BY <1>17, <2>3, <2>4 DEF StopAllSettles
<1>18. CASE Crash
  BY <1>18, NoMemoryType, HostIsGoneType DEF Crash, TypeOK, HostIsGone
<1>19. CASE Boot
  <2>1. PICK how \in {"crashed", "rebooted", "os-session-end"},
             known \in SUBSET {d \in LiveDwarfs : Alive(d)}, can \in SUBSET LiveDwarfs :
          Classified([d \in Dwarfs |-> Verdict(d, how, d \in known, d \in can)], known, can)
    BY <1>19 DEF Boot
  <2> DEFINE verdict == [d \in Dwarfs |-> Verdict(d, how, d \in known, d \in can)]
  <2>2. Classified(verdict, known, can)
    BY <2>1
  <2> HIDE DEF verdict
  <2>3. /\ record' \in [Dwarfs -> Rows] /\ job' \in [Dwarfs -> Jobs]
        /\ tell' \in [Dwarfs -> Departures \cup {"none", "unrecovered"}]
        /\ item' \in [Dwarfs -> {"none", "open", "resumed", "failed"}]
        /\ found' \subseteq Dwarfs /\ covered' \subseteq Dwarfs
    <3>1. /\ \A d \in Dwarfs : record[d] \in Rows /\ Ended(record[d]) \in Rows
          /\ \A d \in Dwarfs : Resume(record[d]) \in Jobs /\ NoJob \in Jobs
          /\ \A d \in Dwarfs, c \in BOOLEAN : EndSurvivor(record[d], c) \in Jobs
      BY RowsMade, JobsMade, ProcNumbers DEF TypeOK
    <3>2. ASSUME NEW d \in Dwarfs PROVE EndSurvivor(record[d], d \in can) \in Jobs
      <4>1. (d \in can) \in BOOLEAN
        OBVIOUS
      <4> QED BY <3>1, <4>1, Zenon
    <3>3. record' \in [Dwarfs -> Rows]
      BY <2>2, <3>1 DEF Classified
    <3>4. job' \in [Dwarfs -> Jobs]
      BY <2>2, <3>1, <3>2 DEF Classified
    <3>5. tell' \in [Dwarfs -> Departures \cup {"none", "unrecovered"}]
      BY <2>2 DEF Classified, Departures
    <3>6. /\ item' \in [Dwarfs -> {"none", "open", "resumed", "failed"}]
          /\ found' \subseteq Dwarfs /\ covered' \subseteq Dwarfs
      BY <2>2 DEF Classified, LiveDwarfs, TypeOK
    <3> QED BY <3>3, <3>4, <3>5, <3>6
  <2>4. lost' \subseteq Dwarfs \X (0..MaxProcs)
    BY <2>2 DEF Classified, TypeOK, LiveDwarfs, Rows
  <2> QED BY <1>19, <2>3, <2>4 DEF Boot, TypeOK
<1>20. CASE ResumesSettle
  BY <1>20 DEF ResumesSettle, TypeOK
<1>21. CASE Shown
  BY <1>21 DEF Shown, TypeOK
<1>22. CASE RetriesSettle
  BY <1>22 DEF RetriesSettle, TypeOK
<1>23. CASE UNCHANGED vars
  BY <1>23 DEF vars, TypeOK
<1> QED
  BY <1>1, <1>2, <1>3, <1>4, <1>6, <1>7, <1>8, <1>9, <1>10, <1>11, <1>12, <1>13, <1>14,
     <1>15, <1>16, <1>17, <1>18, <1>19, <1>20, <1>21, <1>22, <1>23
  DEF Next, Pass, Retrying, Person, Ends

\* Every record, job, report item, stop and process of the recovery stays well-formed
\* (recoverAfterHostStart.ts, recoveryActions.ts, stopAll.ts).
THEOREM TypeCorrect == Spec => []TypeOK
<1> QED BY InitType, TypeStep, PTL DEF Spec
-----------------------------------------------------------------------------
(* One step keeps the invariant *)

\* What crew makes of what it is told.
LEMMA ToldFacts ==
  ASSUME NEW now \in {"running", "unrecovered", "gone"}
  PROVE  /\ \A what \in Departures \cup {"none", "unrecovered"} :
              /\ Told("gone", what) = "gone"
              /\ Told(now, what) = "unrecovered" =>
                   what = "unrecovered" \/ (what = "none" /\ now = "unrecovered")
              /\ Told(now, what) = "running" => now = "running" /\ what \notin {"closed", "unrecovered"}
         /\ Told(now, "none") = now /\ Told(now, "closed") = "gone"
         /\ \A what \in RecoveryEnds : now # "running" => Told(now, what) = "gone"
BY DEF Told, Departures, RecoveryEnds

\* What a step leaves of the processes and the jobs, it leaves of the strangers among them.
LEMMA StrangersKept ==
  ASSUME TypeOK, TypeOK', StrangersAreLost,
         NEW d \in Dwarfs,
         procs'[d] \subseteq procs[d],
         record'[d].proc = record[d].proc,
         lost \subseteq lost',
         ~ up' => ~ up,
         job'[d].t = "end" => job[d].t = "end",
         job'[d].t = "resume" => job[d].t = "resume",
         presence[d] = "gone" => presence'[d] = "gone"
  PROVE  StrangersOf(d)'
<1> SUFFICES ASSUME NEW p \in procs[d]
             PROVE  /\ ~ up' \/ job'[d].t = "end" => p = record'[d].proc \/ Lost(d, p)'
                    /\ job'[d].t = "resume" /\ presence'[d] # "gone" => Lost(d, p)'
  BY DEF StrangersOf
<1>1. Lost(d, p) => Lost(d, p)'
  BY DEF Lost
<1>2. /\ ~ up \/ job[d].t = "end" => p = record[d].proc \/ Lost(d, p)
      /\ job[d].t = "resume" /\ presence[d] # "gone" => Lost(d, p)
  BY DEF StrangersAreLost, StrangersOf
<1> QED BY <1>1, <1>2

\* The parts of the invariant, with the groups of variables opened.
LEMMA Undisturbed ==
  ASSUME RecoveryInv, TypeOK',
         UNCHANGED <<record, presence, item, up, phase, job, found, retry, tell, held>>,
         UNCHANGED <<deaf, untold, lost, swept>>,
         \A d \in Dwarfs : procs'[d] \subseteq procs[d]
  PROVE  RecoveryInv'
<1>1. /\ WorkHasItsPhase' /\ JobsAreLive' /\ EndedLeaves' /\ QueuedAreDown'
      /\ RunningIsTracked' /\ UnrecoveredIsTracked' /\ SweptHasNoIntent'
  BY DEF RecoveryInv, WorkHasItsPhase, JobsAreLive, EndedLeaves, QueuedAreDown,
    RunningIsTracked, UnrecoveredIsTracked, SweptHasNoIntent, OfferedIn, Leaving
<1>2. StrangersAreLost'
  BY StrangersKept DEF RecoveryInv, StrangersAreLost
<1> QED BY <1>1, <1>2 DEF RecoveryInv

\* A dwarf whose job is given up is listed, and no longer runs in its mine.
LEMMA GivenUpKeeps ==
  ASSUME RecoveryInv, TypeOK', Runs,
         NEW x \in Dwarfs, job[x] # NoJob, GivenUp(x),
         UNCHANGED <<record, item, up, phase, retry, tell, held, deaf, untold, lost, swept>>,
         \A d \in Dwarfs : procs'[d] \subseteq procs[d]
  PROVE  RecoveryInv'
<1> USE DEF Runs, Quiet
<1>1. TypeOK /\ phase = "collecting" /\ \A d \in Dwarfs : tell[d] = "none"
  BY DEF RecoveryInv, WorkHasItsPhase
<1>2. /\ found' = found \cup {x} /\ job' = [job EXCEPT ![x] = NoJob]
      /\ presence' = [presence EXCEPT ![x] = Told(@, "unrecovered")]
  BY DEF GivenUp
<1>3. Told(presence[x], "unrecovered") = IF presence[x] = "gone" THEN "gone" ELSE "unrecovered"
  BY <1>1 DEF Told, TypeOK, RecoveryEnds
<1>4. WorkHasItsPhase' /\ JobsAreLive' /\ QueuedAreDown' /\ SweptHasNoIntent'
  BY <1>1, <1>2, <1>3, NoJobs
  DEF RecoveryInv, WorkHasItsPhase, JobsAreLive, QueuedAreDown, SweptHasNoIntent, TypeOK
<1>5. EndedLeaves'
  BY <1>1, <1>2, <1>3 DEF RecoveryInv, EndedLeaves, Leaving, Departures, RecoveryEnds, TypeOK
<1>6. RunningIsTracked' /\ UnrecoveredIsTracked'
  BY <1>1, <1>2, <1>3
  DEF RecoveryInv, RunningIsTracked, UnrecoveredIsTracked, OfferedIn, Leaving, Departures,
    RecoveryEnds, TypeOK
<1>7. StrangersAreLost'
  <2>1. ASSUME NEW d \in Dwarfs
        PROVE  /\ job'[d].t = "end" => job[d].t = "end"
               /\ job'[d].t = "resume" => job[d].t = "resume"
               /\ presence[d] = "gone" => presence'[d] = "gone"
    BY <1>1, <1>2, <1>3, NoJobs DEF TypeOK
  <2> QED BY <1>1, <2>1, StrangersKept DEF RecoveryInv, StrangersAreLost
<1> QED BY <1>4, <1>5, <1>6, <1>7 DEF RecoveryInv

\* A Host that is gone leaves no work, and knows which processes no record names.
LEMMA HostGoneKeeps ==
  ASSUME RecoveryInv, TypeOK', up, HostIsGone,
         UNCHANGED <<record, procs, swept>>,
         \A d \in Dwarfs : presence'[d] \in {presence[d], "gone"},
         untold' = untold \cup {d \in Dwarfs : tell[d] \in Departures}
  PROVE  RecoveryInv'
<1>1. /\ up' = FALSE
      /\ \A d \in Dwarfs : job'[d] = NoJob /\ retry'[d] = NoJob /\ tell'[d] = "none"
  BY NoMemoryType DEF HostIsGone
<1>2. WorkHasItsPhase' /\ JobsAreLive' /\ QueuedAreDown'
  BY <1>1, NoJobs DEF WorkHasItsPhase, JobsAreLive, QueuedAreDown
<1>3. EndedLeaves'
  BY DEF RecoveryInv, EndedLeaves, Leaving
<1>4. RunningIsTracked' /\ UnrecoveredIsTracked'
  BY <1>1 DEF RunningIsTracked, UnrecoveredIsTracked
<1>5. StrangersAreLost'
  <2> SUFFICES ASSUME NEW d \in Dwarfs, NEW p \in procs[d], p # record[d].proc
               PROVE  Lost(d, p)'
    BY <1>1, NoJobs DEF StrangersAreLost, StrangersOf
  <2>1. <<d, p>> \in Dwarfs \X (1..MaxProcs)
    BY DEF RecoveryInv, TypeOK
  <2> QED BY <2>1 DEF HostIsGone, Lost
<1>6. SweptHasNoIntent'
  BY <1>1, NoJobs DEF RecoveryInv, SweptHasNoIntent, TypeOK
<1> QED BY <1>2, <1>3, <1>4, <1>5, <1>6 DEF RecoveryInv

\* What the boot makes of each dwarf.
LEMMA BootFacts ==
  ASSUME TypeOK, Boot, NEW d \in Dwarfs
  PROVE  /\ ~ record[d].live => /\ record'[d] = record[d] /\ tell'[d] = "none"
                                /\ job'[d] = NoJob
         /\ record[d].live =>
              \/ record'[d] = Ended(record[d]) /\ tell'[d] = "closed" /\ job'[d] = NoJob
              \/ /\ record'[d] = record[d] /\ tell'[d] = "unrecovered" /\ job'[d] = NoJob
                 /\ d \in found'
              \/ /\ record'[d] = record[d] /\ tell'[d] = "none" /\ record[d].intent
                 /\ job'[d].t = "end" /\ job'[d] # NoJob /\ job'[d].row = record[d]
              \/ /\ record'[d] = record[d] /\ tell'[d] = "none" /\ record[d].intent
                 /\ job'[d].t = "resume" /\ job'[d] # NoJob /\ job'[d].row = record[d]
                 /\ Alive(d) => Lost(d, record[d].proc)'
         /\ lost \subseteq lost'
<1>1. PICK how \in {"crashed", "rebooted", "os-session-end"},
           known \in SUBSET {e \in LiveDwarfs : Alive(e)}, can \in SUBSET LiveDwarfs :
        Classified([e \in Dwarfs |-> Verdict(e, how, e \in known, e \in can)], known, can)
  BY DEF Boot
<1> DEFINE verdict == [e \in Dwarfs |-> Verdict(e, how, e \in known, e \in can)]
<1>2. Classified(verdict, known, can)
  BY <1>1
<1>3. /\ ~ record[d].live => verdict[d] = "none"
      /\ record[d].live => verdict[d] \in {"ended", "unrecovered", "end-survivor", "resume"}
      /\ verdict[d] \in {"end-survivor", "resume"} => record[d].intent
      /\ verdict[d] = "resume" => d \notin known
  BY DEF Verdict
<1> HIDE DEF verdict
<1>4. /\ record'[d] = IF verdict[d] = "ended" THEN Ended(record[d]) ELSE record[d]
      /\ tell'[d] = IF verdict[d] = "ended" THEN "closed"
                    ELSE IF verdict[d] = "unrecovered" THEN "unrecovered" ELSE "none"
      /\ verdict[d] = "unrecovered" => d \in found'
      /\ lost \subseteq lost'
  BY <1>2 DEF Classified
<1>5. /\ verdict[d] = "end-survivor" => job'[d] = EndSurvivor(record[d], d \in can)
      /\ verdict[d] = "resume" => job'[d] = Resume(record[d])
      /\ verdict[d] \notin {"end-survivor", "resume"} => job'[d] = NoJob
  BY <1>2 DEF Classified
<1>6. /\ EndSurvivor(record[d], d \in can).t = "end"
      /\ EndSurvivor(record[d], d \in can).row = record[d]
      /\ Resume(record[d]).t = "resume" /\ Resume(record[d]).row = record[d]
      /\ NoJob.t = "none"
  BY DEF EndSurvivor, Resume, NoJob
<1>7. ASSUME verdict[d] = "resume", record[d].live, Alive(d) PROVE Lost(d, record[d].proc)'
  BY <1>2, <1>3, <1>7 DEF Classified, Lost, LiveDwarfs
<1> QED BY <1>3, <1>4, <1>5, <1>6, <1>7

LEMMA InvStep == RecoveryInv /\ [Next]_vars => RecoveryInv'
<1> SUFFICES ASSUME RecoveryInv, [Next]_vars PROVE RecoveryInv'
  OBVIOUS
<1> USE DEF storeVars, osVars, reportVars, stopVars, sessionVars, history, Runs, Quiet
<1>a. TypeOK /\ TypeOK'
  BY TypeStep DEF RecoveryInv
<1>b. /\ WorkHasItsPhase /\ JobsAreLive /\ EndedLeaves /\ QueuedAreDown
      /\ RunningIsTracked /\ UnrecoveredIsTracked /\ StrangersAreLost /\ SweptHasNoIntent
  BY DEF RecoveryInv
<1>d. swept \subseteq Dwarfs /\ swept' \subseteq Dwarfs
  BY <1>a DEF TypeOK
<1>1. ASSUME NEW x \in Dwarfs, ProcessExits(x) PROVE RecoveryInv'
  BY <1>1, <1>a, Undisturbed DEF ProcessExits, TypeOK
<1>2. ASSUME NEW x \in Dwarfs, ExitIsHeard(x) PROVE RecoveryInv'
  <2>1. \A d \in Dwarfs : tell[d] = "none"
    BY <1>2 DEF ExitIsHeard
  <2>2. Ended(record[x]).proc = record[x].proc /\ ~ Ended(record[x]).intent
    BY <1>a, RowsMade DEF TypeOK
  <2>3. WorkHasItsPhase' /\ JobsAreLive' /\ QueuedAreDown'
    BY <1>2, <1>a, <1>b DEF ExitIsHeard, WorkHasItsPhase, JobsAreLive, QueuedAreDown, TypeOK
  <2>4. EndedLeaves' /\ RunningIsTracked'
    BY <1>2, <1>a, <1>b, <2>1, ToldFacts
    DEF ExitIsHeard, Drops, EndedLeaves, RunningIsTracked, Leaving, Departures, TypeOK
  <2>5. UnrecoveredIsTracked'
    BY <1>2, <1>a, <1>b, <2>1, ToldFacts
    DEF ExitIsHeard, UnrecoveredIsTracked, OfferedIn, Leaving, Departures, TypeOK
  <2>6. SweptHasNoIntent'
    BY <1>2, <1>a, <1>b, <2>2 DEF ExitIsHeard, SweptHasNoIntent, TypeOK
  <2>7. StrangersAreLost'
    <3>1. ASSUME NEW d \in Dwarfs PROVE record'[d].proc = record[d].proc
      BY <1>2, <1>a, <2>2 DEF ExitIsHeard, TypeOK
    <3> QED BY <1>2, <1>a, <1>b, <3>1, StrangersKept DEF ExitIsHeard, StrangersAreLost
  <2> QED BY <1>a, <2>3, <2>4, <2>5, <2>6, <2>7 DEF RecoveryInv
<1>3. ASSUME NEW x \in Dwarfs, SurvivorEnds(x) PROVE RecoveryInv'
  <2>1. /\ job[x] \in Jobs /\ job[x].t = "end" /\ job[x] # NoJob /\ job[x].row \in Rows
        /\ \A d \in Dwarfs : tell[d] = "none" /\ tell'[d] = "none"
        /\ up /\ phase = "collecting" /\ UNCHANGED <<record, retry, lost, swept, up, phase>>
    BY <1>3, <1>a, <1>b, JobShape, NoJobs DEF SurvivorEnds, WorkHasItsPhase, TypeOK
  <2>2. /\ Resume(job[x].row).t = "resume" /\ Resume(job[x].row).row = job[x].row
        /\ Resume(job[x].row) # NoJob
    BY <2>1, JobsMade, ProcNumbers
  <2>3. CASE job' = [job EXCEPT ![x] = Resume(job[x].row)] /\ UNCHANGED <<found, presence>>
             /\ IF presence[x] = "gone" THEN UNCHANGED <<procs, exits>> ELSE Killed(x, Target(x))
    <3>1. /\ WorkHasItsPhase' /\ JobsAreLive' /\ EndedLeaves' /\ QueuedAreDown'
          /\ SweptHasNoIntent'
      BY <1>3, <1>a, <1>b, <2>1, <2>2, <2>3
      DEF SurvivorEnds, WorkHasItsPhase, JobsAreLive, EndedLeaves, QueuedAreDown,
        SweptHasNoIntent, Leaving, TypeOK
    <3>2. RunningIsTracked' /\ UnrecoveredIsTracked'
      BY <1>3, <1>a, <1>b, <2>1, <2>2, <2>3
      DEF SurvivorEnds, RunningIsTracked, UnrecoveredIsTracked, OfferedIn, Leaving, TypeOK
    <3>3. ASSUME NEW d \in Dwarfs, d # x PROVE StrangersOf(d)'
      <4>1. procs'[d] \subseteq procs[d]
        BY <1>a, <2>3, <3>3, KilledType
      <4> QED BY <1>a, <1>b, <2>1, <2>3, <3>3, <4>1, StrangersKept DEF TypeOK
    <3>4. StrangersOf(x)'
      <4>1. CASE presence[x] = "gone"
        BY <1>a, <2>1, <2>2, <2>3, <4>1 DEF StrangersOf, TypeOK
      <4>2. CASE presence[x] # "gone"
        <5>0. Killed(x, Target(x))
          BY <2>3, <4>2
        <5>1. procs'[x] = procs[x] \ {record[x].proc}
          <6>1. Target(x).proc = record[x].proc
            BY <1>a, TargetType
          <6>2. procs' = [procs EXCEPT ![x] = @ \ {Target(x).proc}]
            BY <5>0 DEF Killed
          <6> QED BY <1>a, <6>1, <6>2 DEF TypeOK
        <5>2. \A p \in procs'[x] : Lost(x, p)
          BY <1>b, <2>1, <5>1 DEF StrangersAreLost, StrangersOf
        <5> QED BY <1>a, <2>1, <2>2, <2>3, <5>2 DEF StrangersOf, Lost, TypeOK
      <4> QED BY <4>1, <4>2
    <3> QED BY <1>a, <3>1, <3>2, <3>3, <3>4 DEF RecoveryInv, StrangersAreLost
  <2>4. CASE GivenUp(x) /\ \A d \in Dwarfs : procs'[d] \subseteq procs[d]
    BY <1>3, <1>a, <2>1, <2>4, GivenUpKeeps DEF SurvivorEnds
  <2>5. ASSUME Killed(x, Target(x)) PROVE \A d \in Dwarfs : procs'[d] \subseteq procs[d]
    BY <1>a, <2>5, KilledType
  <2> QED BY <1>3, <2>3, <2>4, <2>5 DEF SurvivorEnds, AfterFailedEnd
<1>4. ASSUME NEW x \in Dwarfs, ResumeStarts(x) PROVE RecoveryInv'
  <2>1. /\ job[x] \in Jobs /\ job[x].t = "resume" /\ job[x] # NoJob /\ job[x].row \in Rows
        /\ \A d \in Dwarfs : tell[d] = "none" /\ tell'[d] = "none"
        /\ up /\ phase = "collecting" /\ retry[x] = NoJob
    BY <1>4, <1>a, <1>b, JobShape, NoJobs DEF ResumeStarts, WorkHasItsPhase, TypeOK
  <2>2. CASE /\ Starts(x) /\ job' = [job EXCEPT ![x] = Own(job[x].row, started[x] + 1)]
             /\ UNCHANGED <<found, presence>>
    <3>1. /\ job'[x].t = "own" /\ job'[x].row = job[x].row /\ job'[x] # NoJob
          /\ \A d \in Dwarfs \ {x} : job'[d] = job[d] /\ held'[d] = held[d]
          /\ held'[x] # NoProc /\ procs' \in [Dwarfs -> SUBSET (1..MaxProcs)]
          /\ \A d \in Dwarfs \ {x} : procs'[d] = procs[d]
      BY <1>a, <2>1, <2>2, StartsType, JobsMade DEF TypeOK
    <3>2. /\ WorkHasItsPhase' /\ JobsAreLive' /\ EndedLeaves' /\ QueuedAreDown'
          /\ SweptHasNoIntent'
      BY <1>4, <1>b, <2>1, <2>2, <3>1
      DEF ResumeStarts, WorkHasItsPhase, JobsAreLive, EndedLeaves, QueuedAreDown,
        SweptHasNoIntent, Leaving
    <3>3. RunningIsTracked' /\ UnrecoveredIsTracked'
      BY <1>4, <1>b, <2>1, <2>2, <3>1
      DEF ResumeStarts, RunningIsTracked, UnrecoveredIsTracked, OfferedIn, Leaving
    <3>4. ASSUME NEW d \in Dwarfs, d # x PROVE StrangersOf(d)'
      BY <1>4, <1>a, <1>b, <2>2, <3>1, <3>4, StrangersKept DEF ResumeStarts
    <3>5. StrangersOf(x)'
      BY <1>4, <2>1, <3>1 DEF ResumeStarts, StrangersOf
    <3> QED BY <1>a, <3>2, <3>3, <3>4, <3>5 DEF RecoveryInv, StrangersAreLost
  <2>3. CASE GivenUp(x) /\ UNCHANGED <<procs, started, held>>
    BY <1>4, <1>a, <2>1, <2>3, GivenUpKeeps DEF ResumeStarts
  <2> QED BY <1>4, <2>2, <2>3 DEF ResumeStarts
<1>5. ASSUME NEW x \in Dwarfs, NEW j \in Jobs, j.t = "own", j.row.live, Owned(x, j)
      PROVE  /\ record'[x].live /\ record'[x].intent = j.row.intent
             /\ presence'[x] = IF presence[x] = "unrecovered" THEN "running" ELSE presence[x]
             /\ \A d \in Dwarfs \ {x} : record'[d] = record[d] /\ presence'[d] = presence[d]
  <2>1. PICK p \in {NoProc} \cup ({j.proc} \cap procs[x]) :
          /\ record' = [record EXCEPT ![x] = [j.row EXCEPT !.proc = p]]
          /\ presence' = [presence EXCEPT ![x] = IF @ = "unrecovered" THEN "running" ELSE @]
    BY <1>5 DEF Owned
  <2>2. j.row \in Rows /\ p \in 0..MaxProcs
    BY <1>5, <2>1, JobShape, ProcNumbers
  <2> QED BY <1>5, <1>a, <2>1, <2>2, RowsMade DEF TypeOK
<1>6. ASSUME NEW x \in Dwarfs, ResumeIsOwned(x) PROVE RecoveryInv'
  <2>1. /\ job[x] \in Jobs /\ job[x].t = "own" /\ job[x] # NoJob /\ job[x].row.live
        /\ \A d \in Dwarfs : tell[d] = "none" /\ tell'[d] = "none"
        /\ up /\ phase = "collecting" /\ \A d \in Dwarfs : retry[d] = NoJob
        /\ held[x] # NoProc /\ x \notin swept
    BY <1>6, <1>a, <1>b, NoJobs
    DEF ResumeIsOwned, WorkHasItsPhase, JobsAreLive, SweptHasNoIntent, TypeOK
  <2>2. /\ record'[x].live
        /\ presence'[x] = IF presence[x] = "unrecovered" THEN "running" ELSE presence[x]
        /\ \A d \in Dwarfs \ {x} : record'[d] = record[d] /\ presence'[d] = presence[d]
        /\ job'[x] = NoJob /\ \A d \in Dwarfs \ {x} : job'[d] = job[d]
    BY <1>5, <1>6, <1>a, <2>1 DEF ResumeIsOwned, TypeOK
  <2>3. WorkHasItsPhase' /\ JobsAreLive' /\ EndedLeaves'
    BY <1>6, <1>b, <2>1, <2>2, NoJobs
    DEF ResumeIsOwned, WorkHasItsPhase, JobsAreLive, EndedLeaves, Leaving
  <2>7. QueuedAreDown' /\ SweptHasNoIntent'
    BY <1>6, <1>b, <1>d, <2>1, <2>2, NoJobs DEF ResumeIsOwned, QueuedAreDown, SweptHasNoIntent
  <2>4. RunningIsTracked' /\ UnrecoveredIsTracked'
    BY <1>6, <1>b, <2>1, <2>2
    DEF ResumeIsOwned, RunningIsTracked, UnrecoveredIsTracked, OfferedIn, Leaving
  <2>5. ASSUME NEW d \in Dwarfs, d # x PROVE StrangersOf(d)'
    BY <1>6, <1>a, <1>b, <2>2, <2>5, StrangersKept DEF ResumeIsOwned
  <2>6. StrangersOf(x)'
    BY <1>6, <2>1, <2>2, NoJobs DEF ResumeIsOwned, StrangersOf
  <2> QED BY <1>a, <2>3, <2>4, <2>5, <2>6, <2>7 DEF RecoveryInv, StrangersAreLost
<1>7. ASSUME NEW x \in Dwarfs, RetryStarts(x) PROVE RecoveryInv'
  <2>1. /\ retry[x] = Queued /\ record[x] \in Rows
        /\ \A d \in Dwarfs : tell[d] = "none" /\ job[d] = NoJob
        /\ up /\ phase = "retrying" /\ presence[x] # "running"
    BY <1>7, <1>a, <1>b, JobShape, NoJobs DEF RetryStarts, WorkHasItsPhase, QueuedAreDown, TypeOK
  <2>2. CASE /\ record[x].live /\ Starts(x)
             /\ retry' = [retry EXCEPT ![x] = Own(record[x], started[x] + 1)]
             /\ UNCHANGED <<item, record, tell>>
    <3>1. /\ retry'[x].t = "own" /\ retry'[x].row = record[x] /\ retry'[x] # NoJob
          /\ retry'[x] # Queued
          /\ \A d \in Dwarfs \ {x} : retry'[d] = retry[d] /\ held'[d] = held[d]
          /\ held'[x] # NoProc
      BY <1>a, <2>1, <2>2, StartsType, JobsMade DEF TypeOK
    <3>2. /\ WorkHasItsPhase' /\ JobsAreLive' /\ EndedLeaves' /\ QueuedAreDown'
          /\ SweptHasNoIntent'
      BY <1>7, <1>b, <2>1, <2>2, <3>1, NoJobs
      DEF RetryStarts, WorkHasItsPhase, JobsAreLive, EndedLeaves, QueuedAreDown,
        SweptHasNoIntent, Leaving
    <3>3. RunningIsTracked' /\ UnrecoveredIsTracked'
      BY <1>7, <1>b, <2>1, <2>2, <3>1
      DEF RetryStarts, RunningIsTracked, UnrecoveredIsTracked, OfferedIn, Leaving
    <3>4. StrangersAreLost'
      BY <1>7, <2>1, NoJobs DEF RetryStarts, StrangersAreLost, StrangersOf
    <3> QED BY <1>a, <3>2, <3>3, <3>4 DEF RecoveryInv
  <2>3. CASE RetryFails(x) /\ UNCHANGED <<procs, started, held>>
    <3>1. /\ retry'[x] = NoJob /\ \A d \in Dwarfs \ {x} : retry'[d] = retry[d]
          /\ tell'[x] = "recovery-failed" /\ \A d \in Dwarfs \ {x} : tell'[d] = tell[d]
          /\ ~ record'[x].live
          /\ record'[x].intent => record[x].intent
          /\ \A d \in Dwarfs \ {x} : record'[d] = record[d] /\ item'[d] = item[d]
      BY <1>a, <1>b, <2>1, <2>3 DEF RetryFails, TypeOK, Ended, Rows
    <3>2. /\ WorkHasItsPhase' /\ JobsAreLive' /\ QueuedAreDown' /\ SweptHasNoIntent'
      BY <1>7, <1>b, <1>d, <2>1, <2>3, <3>1, NoJobs
      DEF RetryStarts, WorkHasItsPhase, JobsAreLive, QueuedAreDown, SweptHasNoIntent
    <3>3. Leaving(x)'
      BY <1>7, <1>a, <2>1, <3>1, ToldFacts
      DEF RetryStarts, Leaving, Departures, RecoveryEnds, TypeOK
    <3>4. EndedLeaves' /\ RunningIsTracked' /\ UnrecoveredIsTracked'
      BY <1>7, <1>b, <2>1, <2>3, <3>1, <3>3
      DEF RetryStarts, EndedLeaves, RunningIsTracked, UnrecoveredIsTracked, OfferedIn, Leaving
    <3>5. StrangersAreLost'
      BY <1>7, <2>1, NoJobs DEF RetryStarts, StrangersAreLost, StrangersOf
    <3> QED BY <1>a, <3>2, <3>4, <3>5 DEF RecoveryInv
  <2> QED BY <1>7, <2>2, <2>3 DEF RetryStarts
<1>8. ASSUME NEW x \in Dwarfs, RetryIsOwned(x) PROVE RecoveryInv'
  <2>1. /\ retry[x] \in Jobs /\ retry[x].t = "own" /\ retry[x].row.live
        /\ x \in swept => ~ retry[x].row.intent
        /\ \A d \in Dwarfs : tell[d] = "none" /\ tell'[d] = "none" /\ job[d] = NoJob
        /\ up /\ phase = "retrying" /\ held[x] # NoProc
    BY <1>8, <1>a, <1>b, NoJobs
    DEF RetryIsOwned, WorkHasItsPhase, JobsAreLive, SweptHasNoIntent, TypeOK
  <2>2. /\ record'[x].live /\ record'[x].intent = retry[x].row.intent
        /\ presence'[x] = IF presence[x] = "unrecovered" THEN "running" ELSE presence[x]
        /\ \A d \in Dwarfs \ {x} : record'[d] = record[d] /\ presence'[d] = presence[d]
        /\ retry'[x] = NoJob /\ \A d \in Dwarfs \ {x} : retry'[d] = retry[d]
        /\ \A d \in Dwarfs \ {x} : item'[d] = item[d]
    BY <1>5, <1>8, <1>a, <2>1 DEF RetryIsOwned, TypeOK
  <2>3. WorkHasItsPhase' /\ JobsAreLive' /\ EndedLeaves'
    BY <1>8, <1>b, <2>1, <2>2, NoJobs
    DEF RetryIsOwned, WorkHasItsPhase, JobsAreLive, EndedLeaves, Leaving
  <2>6. QueuedAreDown' /\ SweptHasNoIntent'
    BY <1>8, <1>b, <1>d, <2>1, <2>2, NoJobs DEF RetryIsOwned, QueuedAreDown, SweptHasNoIntent
  <2>4. RunningIsTracked' /\ UnrecoveredIsTracked'
    BY <1>8, <1>b, <2>1, <2>2
    DEF RetryIsOwned, RunningIsTracked, UnrecoveredIsTracked, OfferedIn, Leaving
  <2>5. StrangersAreLost'
    BY <1>8, <2>1, NoJobs DEF RetryIsOwned, StrangersAreLost, StrangersOf
  <2> QED BY <1>a, <2>3, <2>4, <2>5, <2>6 DEF RecoveryInv
<1>9. CASE CrewIsTold
  <2>1. /\ \A d \in Dwarfs : presence'[d] = Told(presence[d], tell[d]) /\ tell'[d] = "none"
        /\ \A d \in Dwarfs : tell[d] \in Departures \cup {"none", "unrecovered"}
        /\ \A d \in Dwarfs : presence[d] \in {"running", "unrecovered", "gone"}
        /\ up
    BY <1>9, <1>a DEF CrewIsTold, TypeOK
  <2>2. /\ WorkHasItsPhase' /\ JobsAreLive' /\ QueuedAreDown' /\ SweptHasNoIntent'
    BY <1>9, <1>b, <2>1, ToldFacts
    DEF CrewIsTold, WorkHasItsPhase, JobsAreLive, QueuedAreDown, SweptHasNoIntent
  <2>3. EndedLeaves' /\ RunningIsTracked'
    BY <1>9, <1>b, <2>1, ToldFacts DEF CrewIsTold, EndedLeaves, RunningIsTracked, Leaving
  <2>4. UnrecoveredIsTracked'
    BY <1>9, <1>b, <2>1, ToldFacts
    DEF CrewIsTold, UnrecoveredIsTracked, OfferedIn, WorkHasItsPhase, Leaving
  <2>5. StrangersAreLost'
    BY <1>9, <1>a, <1>b, <2>1, ToldFacts, StrangersKept DEF CrewIsTold, StrangersAreLost
  <2> QED BY <1>a, <2>2, <2>3, <2>4, <2>5 DEF RecoveryInv
<1>10. ASSUME NEW x \in Dwarfs, StopAsked(x) \/ StopFails(x) PROVE RecoveryInv'
  BY <1>10, <1>a, Undisturbed DEF StopAsked, StopFails
<1>11. CASE StopAllAsked
  <2>1. /\ \A d \in Dwarfs : /\ record'[d].live = record[d].live
                             /\ record'[d].proc = record[d].proc
                             /\ record'[d].intent => record[d].intent
                             /\ d \in swept' \ swept => /\ ~ record'[d].intent
                                                        /\ job[d] = NoJob /\ retry[d] = NoJob
    BY <1>11, <1>a, RowsMade DEF StopAllAsked, TypeOK, LiveDwarfs, Free
  <2>2. /\ WorkHasItsPhase' /\ JobsAreLive' /\ EndedLeaves' /\ QueuedAreDown'
        /\ RunningIsTracked' /\ UnrecoveredIsTracked'
    BY <1>11, <1>b, <2>1
    DEF StopAllAsked, WorkHasItsPhase, JobsAreLive, EndedLeaves, QueuedAreDown,
      RunningIsTracked, UnrecoveredIsTracked, OfferedIn, Leaving
  <2>3. SweptHasNoIntent'
    BY <1>11, <1>a, <1>b, <2>1, NoJobs DEF StopAllAsked, SweptHasNoIntent, TypeOK
  <2>4. StrangersAreLost'
    BY <1>11, <1>a, <1>b, <2>1, StrangersKept DEF StopAllAsked, StrangersAreLost
  <2> QED BY <1>a, <2>2, <2>3, <2>4 DEF RecoveryInv
<1>12. CASE RetryAsked
  <2>1. /\ phase' = "retrying" /\ up
        /\ \A d \in Dwarfs : /\ retry'[d] \in {Queued, NoJob}
                             /\ retry'[d] = Queued <=> d \in Open \cap Unrecovered
                             /\ d \in Open \cap Unrecovered => item'[d] = "open"
                             /\ tell[d] = "none" /\ job[d] = NoJob
    BY <1>12, <1>b, NoJobs DEF RetryAsked, WorkHasItsPhase, Open
  <2>2. WorkHasItsPhase' /\ JobsAreLive' /\ EndedLeaves'
    BY <1>12, <1>b, <2>1, NoJobs
    DEF RetryAsked, WorkHasItsPhase, JobsAreLive, EndedLeaves, Leaving
  <2>5. QueuedAreDown' /\ SweptHasNoIntent'
    BY <1>12, <1>b, <1>d, <2>1, NoJobs DEF RetryAsked, QueuedAreDown, SweptHasNoIntent, Unrecovered
  <2>3. RunningIsTracked' /\ UnrecoveredIsTracked'
    BY <1>12, <1>b, <2>1, NoJobs
    DEF RetryAsked, RunningIsTracked, UnrecoveredIsTracked, OfferedIn, Leaving, Open, Unrecovered
  <2>4. StrangersAreLost'
    BY <1>12, <1>a, <1>b, StrangersKept DEF RetryAsked, StrangersAreLost
  <2> QED BY <1>a, <2>2, <2>3, <2>4, <2>5 DEF RecoveryInv
<1>13. CASE DismissAsked
  <2>1. /\ phase \in {"pending-display", "shown"} /\ phase' = "settled" /\ up
        /\ \A d \in Dwarfs :
             /\ record'[d].proc = record[d].proc
             /\ record'[d].intent => record[d].intent
             /\ record'[d].live <=> record[d].live /\ d \notin Open \cap Unrecovered
             /\ tell[d] = "none" /\ tell'[d] = IF d \in Open THEN "recovery-dismissed" ELSE "none"
             /\ job[d] = NoJob /\ retry[d] = NoJob
    BY <1>13, <1>a, <1>b, RowsMade DEF DismissAsked, Dismissed, WorkHasItsPhase, TypeOK
  <2>2. WorkHasItsPhase' /\ JobsAreLive' /\ QueuedAreDown' /\ SweptHasNoIntent'
    BY <1>13, <1>b, <1>d, <2>1, NoJobs
    DEF DismissAsked, WorkHasItsPhase, JobsAreLive, QueuedAreDown, SweptHasNoIntent
  <2>3. \A d \in Open \cap Unrecovered : Leaving(d)'
    BY <1>13, <1>a, <2>1, ToldFacts
    DEF DismissAsked, Open, Unrecovered, Leaving, Departures, RecoveryEnds, TypeOK
  <2>4. \A d \in Dwarfs : ~ Leaving(d)
    BY <2>1 DEF Leaving, Departures, RecoveryEnds
  <2>6. EndedLeaves'
    BY <1>13, <1>b, <2>1, <2>3, <2>4 DEF DismissAsked, EndedLeaves
  <2>7. RunningIsTracked'
    BY <1>13, <1>b, <2>1 DEF DismissAsked, RunningIsTracked, Unrecovered
  <2>8. UnrecoveredIsTracked'
    BY <1>13, <1>b, <2>1, <2>3, <2>4
    DEF DismissAsked, UnrecoveredIsTracked, OfferedIn, Open, Unrecovered
  <2>5. StrangersAreLost'
    BY <1>13, <1>a, <1>b, <2>1, StrangersKept DEF DismissAsked, StrangersAreLost
  <2> QED BY <1>a, <2>2, <2>5, <2>6, <2>7, <2>8 DEF RecoveryInv
<1>14. ASSUME NEW x \in Dwarfs, StopEnds(x) PROVE RecoveryInv'
  <2>1. \A d \in Dwarfs : /\ presence'[d] \in {presence[d], "gone"}
                          /\ procs'[d] \subseteq procs[d] /\ tell[d] = "none"
    BY <1>14, <1>a, KilledType DEF StopEnds, TypeOK
  <2>2. /\ WorkHasItsPhase' /\ JobsAreLive' /\ EndedLeaves' /\ QueuedAreDown'
        /\ RunningIsTracked' /\ UnrecoveredIsTracked' /\ SweptHasNoIntent'
    BY <1>14, <1>b, <2>1
    DEF StopEnds, WorkHasItsPhase, JobsAreLive, EndedLeaves, QueuedAreDown,
      RunningIsTracked, UnrecoveredIsTracked, OfferedIn, SweptHasNoIntent, Leaving, Departures,
      RecoveryEnds
  <2>3. StrangersAreLost'
    BY <1>14, <1>a, <1>b, <2>1, StrangersKept DEF StopEnds, StrangersAreLost
  <2> QED BY <1>a, <2>2, <2>3 DEF RecoveryInv
<1>15. ASSUME NEW x \in Dwarfs, StopAllEnds(x) PROVE RecoveryInv'
  <2>1. \A d \in Dwarfs : procs'[d] \subseteq procs[d]
    BY <1>15, <1>a, KilledType DEF StopAllEnds
  <2> QED BY <1>15, <1>a, <2>1, Undisturbed DEF StopAllEnds
<1>16. CASE StopAllSettles
  <2>1. \A d \in Dwarfs : tell[d] = "none" /\ presence'[d] \in {presence[d], "gone"}
    BY <1>16 DEF StopAllSettles
  <2>2. CASE HostIsGone /\ UNCHANGED <<record, swept>>
    <3>1. untold' = untold \cup {d \in Dwarfs : tell[d] \in Departures}
      BY <1>16, <2>1 DEF StopAllSettles, Departures, RecoveryEnds
    <3> QED BY <1>16, <1>a, <2>1, <2>2, <3>1, HostGoneKeeps DEF StopAllSettles
  <2>3. CASE /\ record' = [d \in Dwarfs |-> IF d \in Failed THEN Restored(d) ELSE record[d]]
             /\ swept' = swept \ Failed
             /\ stopAll' = NoStopAll
             /\ UNCHANGED <<up, reportVars, stop, sessionVars, deaf, lost>>
    <3>1. \A d \in Dwarfs : /\ record'[d].live = record[d].live
                            /\ record'[d].proc = record[d].proc
                            /\ d \in swept' => record'[d] = record[d]
      <4>1. stopAll \in [t : {"ending"}, before : [Dwarfs -> Rows],
                         target : [Dwarfs -> Stops], outcome : [Dwarfs -> Outcomes]]
        BY <1>16, <1>a DEF StopAllSettles, TypeOK, NoStopAll
      <4>2. \A d \in Dwarfs : stopAll.before[d].intent \in BOOLEAN /\ record[d] \in Rows
        BY <1>a, <4>1 DEF Rows, TypeOK
      <4> QED BY <2>3, <4>2, RowsMade DEF Restored
    <3>2. /\ WorkHasItsPhase' /\ JobsAreLive' /\ EndedLeaves' /\ QueuedAreDown'
          /\ RunningIsTracked' /\ UnrecoveredIsTracked'
      BY <1>16, <1>b, <2>1, <2>3, <3>1
      DEF StopAllSettles, WorkHasItsPhase, JobsAreLive, EndedLeaves, QueuedAreDown,
        RunningIsTracked, UnrecoveredIsTracked, OfferedIn, Leaving, Departures, RecoveryEnds
    <3>3. SweptHasNoIntent'
      BY <1>a, <1>b, <2>3, <3>1 DEF SweptHasNoIntent, TypeOK
    <3>4. StrangersAreLost'
      BY <1>16, <1>a, <1>b, <2>1, <2>3, <3>1, StrangersKept DEF StopAllSettles, StrangersAreLost
    <3> QED BY <1>a, <3>2, <3>3, <3>4 DEF RecoveryInv
  <2> QED BY <1>16, <2>2, <2>3 DEF StopAllSettles
<1>17. CASE Crash
  BY <1>17, <1>a, HostGoneKeeps DEF Crash
<1>18. CASE Boot
  <2>1. /\ ~ up /\ up' /\ phase' = "collecting"
        /\ UNCHANGED <<presence, retry, held, procs, deaf, untold, swept>>
        /\ \A d \in Dwarfs : tell[d] = "none" /\ retry[d] = NoJob
    BY <1>18, <1>b DEF Boot, WorkHasItsPhase
  <2>2. \A d \in Dwarfs : record[d] \in Rows /\ ~ Ended(record[d]).intent
    BY <1>a, RowsMade DEF TypeOK
  <2>3. WorkHasItsPhase' /\ JobsAreLive' /\ QueuedAreDown'
    BY <1>18, <1>a, <2>1, BootFacts, NoJobs DEF WorkHasItsPhase, JobsAreLive, QueuedAreDown
  <2>4. EndedLeaves'
    <3>1. ASSUME NEW d \in Dwarfs, tell'[d] = "closed" PROVE Leaving(d)'
      BY <1>a, <3>1, ToldFacts DEF Leaving, Departures, TypeOK
    <3> QED BY <1>18, <1>a, <1>b, <2>1, <3>1, BootFacts
      DEF EndedLeaves, Leaving, Departures, RecoveryEnds
  <2>5. RunningIsTracked' /\ UnrecoveredIsTracked'
    <3>1. ASSUME NEW d \in Dwarfs
          PROVE  \/ presence[d] = "gone" \/ d \in untold' \/ job'[d] # NoJob
                 \/ tell'[d] = "closed" /\ Leaving(d)'
                 \/ tell'[d] = "unrecovered" /\ d \in found'
      <4>1. tell'[d] = "closed" => Leaving(d)'
        BY <1>a, ToldFacts DEF Leaving, Departures, TypeOK
      <4> QED BY <1>18, <1>a, <1>b, <2>1, <4>1, BootFacts
        DEF EndedLeaves, Leaving, Departures, RecoveryEnds
    <3> QED BY <2>1, <3>1 DEF RunningIsTracked, UnrecoveredIsTracked, OfferedIn
  <2>6. SweptHasNoIntent'
    BY <1>18, <1>a, <1>b, <2>1, <2>2, BootFacts, NoJobs DEF SweptHasNoIntent, TypeOK
  <2>7. StrangersAreLost'
    <3> SUFFICES ASSUME NEW d \in Dwarfs, NEW p \in procs[d]
                 PROVE  /\ job'[d].t = "end" => p = record'[d].proc \/ Lost(d, p)'
                        /\ job'[d].t = "resume" => Lost(d, p)'
      BY <2>1 DEF StrangersAreLost, StrangersOf
    <3>1. /\ p = record[d].proc \/ Lost(d, p)'
          /\ p = record[d].proc => Alive(d)
      <4>1. p = record[d].proc \/ Lost(d, p)
        BY <1>b, <2>1 DEF StrangersAreLost, StrangersOf
      <4>2. p \in 1..MaxProcs
        BY <1>a DEF TypeOK
      <4> QED BY <1>18, <1>a, <4>1, <4>2, BootFacts, ProcNumbers DEF Lost, Alive
    <3> QED BY <1>18, <1>a, <3>1, BootFacts, NoJobs
  <2> QED BY <1>a, <2>3, <2>4, <2>5, <2>6, <2>7 DEF RecoveryInv
<1>19. CASE ResumesSettle
  <2>1. PICK interrupted \in SUBSET covered :
          LET listed == found \cup interrupted IN
          /\ found' = {}
          /\ item' = [d \in Dwarfs |-> IF d \in listed THEN "open" ELSE item[d]]
          /\ phase' = IF listed = {} THEN "none" ELSE "pending-display"
    BY <1>19 DEF ResumesSettle
  <2>2. \A d \in Dwarfs : tell[d] = "none" /\ job[d] = NoJob /\ retry[d] = NoJob
    BY <1>19, <1>b DEF ResumesSettle, WorkHasItsPhase
  <2>3. /\ WorkHasItsPhase' /\ JobsAreLive' /\ EndedLeaves' /\ QueuedAreDown'
        /\ RunningIsTracked' /\ SweptHasNoIntent'
    BY <1>19, <1>b, <2>2, NoJobs
    DEF ResumesSettle, WorkHasItsPhase, JobsAreLive, EndedLeaves, QueuedAreDown,
      RunningIsTracked, SweptHasNoIntent, Leaving
  <2>4. UnrecoveredIsTracked'
    BY <1>19, <1>a, <1>b, <2>1, <2>2
    DEF ResumesSettle, UnrecoveredIsTracked, OfferedIn, Leaving, TypeOK, Departures, RecoveryEnds
  <2>5. StrangersAreLost'
    BY <1>19, <1>a, <1>b, StrangersKept DEF ResumesSettle, StrangersAreLost
  <2> QED BY <1>a, <2>3, <2>4, <2>5 DEF RecoveryInv
<1>20. CASE Shown
  <2>1. /\ WorkHasItsPhase' /\ JobsAreLive' /\ EndedLeaves' /\ QueuedAreDown'
        /\ RunningIsTracked' /\ UnrecoveredIsTracked' /\ SweptHasNoIntent'
    BY <1>20, <1>b
    DEF Shown, WorkHasItsPhase, JobsAreLive, EndedLeaves, QueuedAreDown,
      RunningIsTracked, UnrecoveredIsTracked, OfferedIn, SweptHasNoIntent, Leaving
  <2>2. StrangersAreLost'
    BY <1>20, <1>a, <1>b, StrangersKept DEF Shown, StrangersAreLost
  <2> QED BY <1>a, <2>1, <2>2 DEF RecoveryInv
<1>21. CASE RetriesSettle
  <2>1. /\ WorkHasItsPhase' /\ JobsAreLive' /\ EndedLeaves' /\ QueuedAreDown'
        /\ RunningIsTracked' /\ UnrecoveredIsTracked' /\ SweptHasNoIntent'
    BY <1>21, <1>b
    DEF RetriesSettle, WorkHasItsPhase, JobsAreLive, EndedLeaves, QueuedAreDown,
      RunningIsTracked, UnrecoveredIsTracked, OfferedIn, SweptHasNoIntent, Leaving
  <2>2. StrangersAreLost'
    BY <1>21, <1>a, <1>b, StrangersKept DEF RetriesSettle, StrangersAreLost
  <2> QED BY <1>a, <2>1, <2>2 DEF RecoveryInv
<1>22. CASE UNCHANGED vars
  BY <1>22, <1>a, Undisturbed DEF vars
<1> QED
  BY <1>1, <1>2, <1>3, <1>4, <1>6, <1>7, <1>8, <1>9, <1>10, <1>11, <1>12, <1>13, <1>14, <1>15,
     <1>16, <1>17, <1>18, <1>19, <1>20, <1>21, <1>22
  DEF Next, Pass, Retrying, Person, Ends

LEMMA InitInv == Init => RecoveryInv
<1> SUFFICES ASSUME Init PROVE RecoveryInv
  OBVIOUS
<1>1. TypeOK
  BY InitType
<1> QED BY <1>1, NoJobs
  DEF Init, RecoveryInv, WorkHasItsPhase, JobsAreLive, EndedLeaves, QueuedAreDown, RunningIsTracked,
    UnrecoveredIsTracked, StrangersAreLost, StrangersOf, SweptHasNoIntent, NoProc

LEMMA InvHolds == Spec => []RecoveryInv
<1> QED BY InitInv, InvStep, PTL DEF Spec

-----------------------------------------------------------------------------
(* The theorems *)

\* A dwarf shown unrecovered once the pass has ended is one the report still offers to Retry
\* or Dismiss (recoverAfterHostStart.ts, recoveryActions.ts).
THEOREM UnrecoveredIsOffered == Spec => []ListedIsOffered
<1>1. RecoveryInv => ListedIsOffered
  BY DEF RecoveryInv, TypeOK, UnrecoveredIsTracked, OfferedIn, ListedIsOffered, Leaving, Runs,
    Quiet, Departures, RecoveryEnds
<1> QED BY <1>1, InvHolds, PTL

\* A dwarf shown running once the pass has ended is heard by the Host, or its exit was dropped
\* as covered, or a Host stop cut its departure off (sessionExited.ts, sessionResumer.ts).
THEOREM RunningHasItsSession == Spec => []RunningIsHeard
<1>1. RecoveryInv => RunningIsHeard
  BY DEF RecoveryInv, RunningIsTracked, WorkHasItsPhase, RunningIsHeard, Runs, Quiet
<1> QED BY <1>1, InvHolds, PTL

\* INV-56: the boot pass asks no driver to resume a session beside a survivor it knows of
\* (recoverAfterHostStart.ts).
THEOREM SurvivorGoesFirst == Spec => PassEndsSurvivorFirst
<1>1. RecoveryInv => \A d \in Dwarfs : presence[d] # "gone" /\ job[d].t = "resume" =>
                       {p \in procs[d] : <<d, p>> \notin lost} = {}
  BY DEF RecoveryInv, StrangersAreLost, StrangersOf, Lost
<1>2. RecoveryInv /\ [Next]_vars =>
        [\A d \in Dwarfs : presence[d] # "gone" /\ job[d].t = "resume" /\ job'[d].t = "own" =>
           {p \in procs[d] : <<d, p>> \notin lost} = {}]_vars
  BY <1>1
<1> QED BY <1>2, InvHolds, PTL DEF Spec, PassEndsSurvivorFirst

\* S4.23: no boot takes up a session Stop everything took (stopAll.ts).
THEOREM SweptStaysStopped == Spec => []StopAllResumesNothing
<1>1. RecoveryInv => StopAllResumesNothing
  BY DEF RecoveryInv, SweptHasNoIntent, StopAllResumesNothing
<1> QED BY <1>1, InvHolds, PTL
=============================================================================
