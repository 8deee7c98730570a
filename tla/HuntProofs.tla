----------------------------- MODULE HuntProofs -----------------------------
(***************************************************************************)
(* Proofs about the hunt, for any tasks, findings, crashes, failures and   *)
(* commands of users: "done" is never made up, whichever copy of the queue *)
(* file is written; a result goes only when it is consumed; and until the  *)
(* file is harmed, no task is lost, the hunt is moves on a board           *)
(* (TaskBoard), and a task gets a worker only as often as it was put up.   *)
(***************************************************************************)
EXTENDS Hunt, TLAPS, Recursion

\* The lines and the reports are what they should be. (The list of tasks to
\* spawn is not in this: every step that uses it looks its tasks up again.)
Lists ==
  /\ file \in Seq(Line) /\ copy \in Seq(Line) /\ loaded \in Seq(Line)
  /\ results \in [Ids -> Reports \cup {NoReport}]
  /\ report \in Reports \cup {NoReport}

\* A listed result is there until it is consumed, and only a base task finds.
Consuming ==
  /\ entries \subseteq Ids
  /\ \A id \in entries : results[id] # NoReport
  /\ pc \in {"read", "truncate", "write", "chain"} =>
       cur \in Ids /\ report \in Reports
  /\ \A id \in Ids : results[id].found # << >> => IsBase(id)
  /\ report.found # << >> => cur \in Ids /\ IsBase(cur)

\* Every "done" anywhere goes back to a worker's report.
Honest(lines) ==
  \A i \in DOMAIN lines : lines[i].status = "done" => <<lines[i].id, "done">> \in reported

AllHonest ==
  /\ Honest(file) /\ Honest(copy) /\ Honest(loaded)
  /\ \A id \in Ids : results[id].verdict = "done" => <<id, "done">> \in reported
  /\ report.verdict = "done" => <<cur, "done">> \in reported

HonestInv == Lists /\ Consuming /\ AllHonest
----------------------------------------------------------------------------
(* What the operators on lines return.                                     *)

\* A pending line for an identifier is a line.
LEMMA PendingLine ==
  ASSUME NEW id \in Ids PROVE Pending(id) \in Line
BY DEF Pending, Line, Statuses

\* Setting the status of the first line of a task gives lines.
LEMMA SetFirstLines ==
  ASSUME NEW lines \in Seq(Line), NEW id, NEW status \in Statuses
  PROVE  /\ SetFirst(lines, id, status) \in Seq(Line)
         /\ DOMAIN SetFirst(lines, id, status) = DOMAIN lines
         /\ \A i \in DOMAIN lines :
              \/ SetFirst(lines, id, status)[i] = lines[i]
              \/ /\ SetFirst(lines, id, status)[i].status = status
                 /\ SetFirst(lines, id, status)[i].id = lines[i].id
<1> DEFINE k == First(lines, id)
           new == [lines EXCEPT ![k].status = status]
<1>1. \A i \in DOMAIN lines : lines[i] \in Line
  OBVIOUS
<1>2. DOMAIN new = DOMAIN lines
  OBVIOUS
<1>3. \A i \in DOMAIN lines :
        new[i] = IF i = k THEN [lines[i] EXCEPT !.status = status] ELSE lines[i]
  OBVIOUS
<1>4. \A i \in DOMAIN lines : new[i] \in Line
  BY <1>1, <1>3 DEF Line
<1>5. /\ DOMAIN lines = 1..Len(lines) /\ Len(lines) \in Nat
      /\ new = [i \in 1..Len(lines) |-> new[i]]
  OBVIOUS
<1>6. \A i \in DOMAIN lines :
        \/ new[i] = lines[i]
        \/ new[i].status = status /\ new[i].id = lines[i].id
  BY <1>1, <1>3 DEF Line
<1>7. new = SetFirst(lines, id, status)
  BY DEF SetFirst
<1> HIDE DEF new
<1>8. new \in Seq(Line)
  BY <1>2, <1>4, <1>5
<1> QED
  BY <1>2, <1>6, <1>7, <1>8

\* Setting the status of every line of a task gives lines.
LEMMA SetAllLines ==
  ASSUME NEW lines \in Seq(Line), NEW id, NEW verdict \in Statuses
  PROVE  /\ SetAll(lines, id, verdict) \in Seq(Line)
         /\ DOMAIN SetAll(lines, id, verdict) = DOMAIN lines
         /\ \A i \in DOMAIN lines :
              \/ SetAll(lines, id, verdict)[i] = lines[i]
              \/ /\ lines[i].id = id
                 /\ SetAll(lines, id, verdict)[i].status = verdict
                 /\ SetAll(lines, id, verdict)[i].id = id
<1> DEFINE new == SetAll(lines, id, verdict)
<1>1. \A i \in DOMAIN lines : lines[i] \in Line
  OBVIOUS
<1>2. /\ DOMAIN new = DOMAIN lines
      /\ \A i \in DOMAIN lines :
           new[i] = IF lines[i].id = id THEN [lines[i] EXCEPT !.status = verdict]
                                        ELSE lines[i]
  BY DEF SetAll
<1>3. \A i \in DOMAIN lines : new[i] \in Line
  BY <1>1, <1>2 DEF Line
<1>4. /\ DOMAIN lines = 1..Len(lines)
      /\ Len(lines) \in Nat
  OBVIOUS
<1>5. new = [i \in 1..Len(lines) |-> new[i]]
  BY <1>4 DEF SetAll
<1>7. \A i \in DOMAIN lines :
        \/ new[i] = lines[i]
        \/ lines[i].id = id /\ new[i].status = verdict /\ new[i].id = id
  BY <1>1, <1>2 DEF Line
<1> HIDE DEF new
<1>8. new \in Seq(Line)
  BY <1>2, <1>3, <1>4, <1>5
<1> QED
  BY <1>2, <1>7, <1>8 DEF new

\* Honest lines stay honest when a status other than "done" is set.
LEMMA SetFirstHonest ==
  ASSUME NEW lines \in Seq(Line), Honest(lines), NEW id, NEW status \in Statuses,
         status # "done"
  PROVE  Honest(SetFirst(lines, id, status))
BY SetFirstLines DEF Honest

\* The same for setting a reported verdict on every line of a task.
LEMMA SetAllHonest ==
  ASSUME NEW lines \in Seq(Line), Honest(lines), NEW id, NEW verdict \in Statuses,
         verdict = "done" => <<id, "done">> \in reported
  PROVE  Honest(SetAll(lines, id, verdict))
<1> DEFINE new == SetAll(lines, id, verdict)
<1>1. /\ DOMAIN new = DOMAIN lines
      /\ \A i \in DOMAIN lines :
           new[i] = lines[i] \/ (lines[i].id = id /\ new[i].status = verdict /\ new[i].id = id)
  BY SetAllLines
<1> HIDE DEF new
<1>2. Honest(new)
  BY <1>1 DEF Honest
<1> QED
  BY <1>2 DEF new

\* The same for appending a pending line.
LEMMA AppendHonest ==
  ASSUME NEW lines \in Seq(Line), Honest(lines), NEW id \in Ids
  PROVE  /\ Append(lines, Pending(id)) \in Seq(Line)
         /\ Honest(Append(lines, Pending(id)))
<1>1. Pending(id) \in Line /\ Pending(id).status = "pending"
  BY PendingLine DEF Pending
<1> QED
  BY <1>1 DEF Honest

\* What is written of a line sequence that is cut short.
LEMMA SubSeqLines ==
  ASSUME NEW lines \in Seq(Line), NEW n \in 0..(Len(lines) - 1)
  PROVE  /\ SubSeq(lines, 1, n) \in Seq(Line)
         /\ DOMAIN SubSeq(lines, 1, n) = 1..n
         /\ 1..n \subseteq DOMAIN lines
         /\ \A i \in 1..n : SubSeq(lines, 1, n)[i] = lines[i]
<1> DEFINE new == SubSeq(lines, 1, n)
<1>1. Len(lines) \in Nat /\ DOMAIN lines = 1..Len(lines) /\ n \in Nat /\ n <= Len(lines)
  OBVIOUS
<1>2. 1..n \subseteq DOMAIN lines
  BY <1>1
<1>3. new = [i \in 1..n |-> lines[i]]
  BY <1>1
<1>4. \A i \in 1..n : lines[i] \in Line
  BY <1>2
<1> HIDE DEF new
<1>5. new \in Seq(Line)
  BY <1>1, <1>3, <1>4
<1> QED
  BY <1>2, <1>3, <1>5 DEF new

\* Honest lines stay honest when they are cut short.
LEMMA SubSeqHonest ==
  ASSUME NEW lines \in Seq(Line), Honest(lines), NEW n \in 0..(Len(lines) - 1)
  PROVE  Honest(SubSeq(lines, 1, n))
<1> DEFINE new == SubSeq(lines, 1, n)
<1>1. DOMAIN new = 1..n /\ 1..n \subseteq DOMAIN lines /\ \A i \in 1..n : new[i] = lines[i]
  BY SubSeqLines
<1> HIDE DEF new
<1>2. Honest(new)
  BY <1>1 DEF Honest
<1> QED
  BY <1>2 DEF new

\* The findings of a report are taken from the front.
LEMMA FindingsTaken ==
  ASSUME NEW f \in Findings, f # << >>
  PROVE  /\ Head(f) \in Targets /\ Tail(f) \in Findings
         /\ \A i \in DOMAIN f : f[i] = Head(f) \/ \E j \in DOMAIN Tail(f) : f[i] = Tail(f)[j]
         /\ \A j \in DOMAIN Tail(f) : \E i \in DOMAIN f : f[i] = Tail(f)[j]
<1>1. PICK n \in 0..MaxFindings : f \in [1..n -> Targets]
  BY DEF Findings
<1>2. n \in Nat /\ n <= MaxFindings /\ MaxFindings \in Nat
  BY HuntAssumption
<1>3. f \in Seq(Targets) /\ Len(f) = n
  BY <1>1, <1>2
<1>4. n > 0
  BY <1>2, <1>3
<1>5. Head(f) = f[1] /\ Head(f) \in Targets
  BY <1>3, <1>4
<1>6. Tail(f) = [i \in 1..(n - 1) |-> f[i + 1]]
  <2>1. /\ Tail(f) \in Seq(Targets) /\ Len(Tail(f)) = n - 1
        /\ \A i \in 1..(n - 1) : Tail(f)[i] = f[i + 1]
    BY <1>3, <1>4
  <2>2. Tail(f) = [i \in 1..(n - 1) |-> Tail(f)[i]]
    <3> DEFINE rest == Tail(f)
    <3>1. rest \in Seq(Targets) /\ Len(rest) = n - 1
      BY <2>1
    <3> HIDE DEF rest
    <3>2. rest = [i \in 1..(n - 1) |-> rest[i]]
      BY <3>1
    <3> QED
      BY <3>2 DEF rest
  <2> HIDE DEF Findings
  <2> QED
    BY <2>1, <2>2
<1>7. Tail(f) \in [1..(n - 1) -> Targets]
  BY <1>1, <1>2, <1>4, <1>6
<1>8. n - 1 \in 0..MaxFindings
  BY <1>2, <1>4
<1>9. Tail(f) \in Findings
  BY <1>7, <1>8 DEF Findings
<1>10. DOMAIN f = 1..n /\ DOMAIN Tail(f) = 1..(n - 1)
  BY <1>1, <1>6
<1>11. ASSUME NEW i \in 1..n, i # 1 PROVE i - 1 \in 1..(n - 1) /\ f[i] = Tail(f)[i - 1]
  BY <1>2, <1>6, <1>11
<1>12. ASSUME NEW j \in 1..(n - 1) PROVE j + 1 \in 1..n /\ f[j + 1] = Tail(f)[j]
  BY <1>2, <1>6, <1>12
<1> QED
  BY <1>5, <1>9, <1>10, <1>11, <1>12

\* So what is left of the current report is a report.
LEMMA ReportTaken ==
  ASSUME report \in Reports, report.found # << >>
  PROVE  LET rest == [report EXCEPT !.found = Tail(@)]
         IN  /\ Head(report.found) \in Targets /\ report.found \in Findings
             /\ rest \in Reports /\ rest.verdict = report.verdict
             /\ rest.found = Tail(report.found)
<1>1. report \in [verdict : {"done"}, found : Findings]
  BY DEF Reports
<1>2. report.found \in Findings
  BY <1>1
<1>3. Head(report.found) \in Targets /\ Tail(report.found) \in Findings
  BY <1>2, FindingsTaken
<1> QED
  BY <1>1, <1>2, <1>3 DEF Reports
----------------------------------------------------------------------------
(* The invariant holds at first and every step preserves it.               *)

\* Before the first step nothing is done and nothing was reported.
LEMMA HonestInit == Init => HonestInv
<1> SUFFICES ASSUME Init PROVE HonestInv
  OBVIOUS
<1>1. \A b \in Bases : <<b>> \in Ids
  BY DEF Ids
<1>2. file = [i \in 1..Len(InitialTasks) |-> Pending(<<InitialTasks[i]>>)]
  BY HuntAssumption DEF Init
<1>3. \A i \in 1..Len(InitialTasks) : InitialTasks[i] \in Bases
  BY HuntAssumption
<1>4. \A i \in 1..Len(InitialTasks) : Pending(<<InitialTasks[i]>>) \in Line
  BY <1>1, <1>3, PendingLine
<1>5. file \in Seq(Line)
  BY <1>2, <1>4, HuntAssumption
<1>6. Honest(file)
  BY <1>2 DEF Honest, Pending
<1>7. << >> \in Seq(Line) /\ Honest(<< >>)
  BY DEF Honest
<1>8. Lists
  BY <1>5, <1>7 DEF Init, Lists
<1>9. Consuming
  BY DEF Init, Consuming, NoReport
<1>10. AllHonest
  BY <1>6, <1>7 DEF Init, AllHonest, NoReport
<1> QED
  BY <1>8, <1>9, <1>10 DEF HonestInv

\* Ending the process forgets what it has read.
LEMMA HonestExit ==
  ASSUME HonestInv, Exit,
         UNCHANGED <<results, loaded, reported>>,
         file' \in Seq(Line), Honest(file)'
  PROVE  HonestInv'
<1>1. << >> \in Seq(Line) /\ copy' = << >>
  BY DEF Exit
<1>2. Lists'
  BY <1>1 DEF Exit, HonestInv, Lists
<1>3. Consuming'
  BY DEF Exit, Goto, HonestInv, Consuming, NoReport
<1>4. Honest(copy)' /\ Honest(loaded)'
  BY <1>1 DEF HonestInv, AllHonest, Honest
<1>5. AllHonest'
  BY <1>4 DEF Exit, HonestInv, AllHonest, NoReport
<1> QED
  BY <1>2, <1>3, <1>5 DEF HonestInv

\* A step that only writes the file, and keeps the consumption where it is.
LEMMA HonestWrite ==
  ASSUME HonestInv,
         UNCHANGED <<results, cur, report, copy, loaded, reported>>, entries' \subseteq entries,
         pc' = pc \/ pc' \notin {"read", "truncate", "write", "chain"},
         file' \in Seq(Line), Honest(file)'
  PROVE  HonestInv'
<1>1. Lists'
  BY DEF HonestInv, Lists
<1>2. Consuming'
  BY DEF HonestInv, Consuming
<1>3. Honest(copy)' /\ Honest(loaded)'
  BY DEF HonestInv, AllHonest, Honest
<1>4. AllHonest'
  BY <1>3 DEF HonestInv, AllHonest
<1> QED
  BY <1>1, <1>2, <1>4 DEF HonestInv

\* Marking a task failed, if it can be, keeps the file honest.
LEMMA FailHonest ==
  ASSUME HonestInv, NEW id, FailIfWorkable(id), UNCHANGED reported
  PROVE  file' \in Seq(Line) /\ Honest(file)'
<1>1. file \in Seq(Line) /\ Honest(file)
  BY DEF HonestInv, Lists, AllHonest
<1>2. "failed" \in Statuses
  BY DEF Statuses
<1>3. CASE file' = SetFirst(file, id, "failed")
  <2>1. file' \in Seq(Line)
    BY <1>1, <1>2, <1>3, SetFirstLines
  <2>2. Honest(SetFirst(file, id, "failed"))
    BY <1>1, <1>2, SetFirstHonest
  <2> QED
    BY <1>3, <2>1, <2>2 DEF Honest
<1>4. CASE file' = file
  BY <1>1, <1>4 DEF Honest
<1> QED
  BY <1>3, <1>4 DEF FailIfWorkable, Replace

\* A user's command saves honest lines.
LEMMA HonestSave ==
  ASSUME HonestInv, UserSave, NEW lines \in Seq(Line), Honest(lines), file' = lines
  PROVE  HonestInv'
<1> USE DEF orch
<1>1. << >> \in Seq(Line) /\ loaded' = << >>
  BY DEF UserSave
<1>2. Lists'
  BY <1>1 DEF UserSave, HonestInv, Lists
<1>3. Consuming'
  BY DEF UserSave, HonestInv, Consuming
<1>4. Honest(file)' /\ Honest(copy)' /\ Honest(loaded)'
  BY <1>1 DEF UserSave, HonestInv, AllHonest, Honest
<1>5. AllHonest'
  BY <1>4 DEF UserSave, HonestInv, AllHonest
<1> QED
  BY <1>2, <1>3, <1>5 DEF HonestInv

\* Every step of the orchestrator, the workers and the user keeps it.
LEMMA HonestNext == HonestInv /\ [Next]_vars => HonestInv'
<1> SUFFICES ASSUME HonestInv, [Next]_vars PROVE HonestInv'
  OBVIOUS
<1> USE DEF orch, user, counters, deeds, mishaps
<1>0. file \in Seq(Line) /\ Honest(file)
  BY DEF HonestInv, Lists, AllHonest
<1>s. {"pending", "running", "failed", "done"} \subseteq Statuses
  BY DEF Statuses
<1>h. ASSUME UNCHANGED <<file, reported>> PROVE file' \in Seq(Line) /\ Honest(file)'
  BY <1>0, <1>h DEF Honest
<1>1. CASE ListPending
  BY <1>1, <1>h, HonestWrite DEF ListPending, Goto
<1>2. CASE SpawnCheck
  <2>1. CASE Exit
    BY <1>2, <1>h, <2>1, HonestExit DEF SpawnCheck
  <2>2. CASE ~Exit
    BY <1>2, <1>h, <2>2, HonestWrite DEF SpawnCheck, Goto
  <2> QED
    BY <2>1, <2>2
<1>3. CASE SpawnDrop
  BY <1>3, FailHonest, HonestWrite DEF SpawnDrop, Goto
<1>4. CASE SpawnStart
  <2> DEFINE id == Head(todo)
  <2>1. CASE Exit /\ UNCHANGED file
    BY <1>4, <1>h, <2>1, HonestExit DEF SpawnStart
  <2>2. CASE /\ file' = SetFirst(file, id, "running")
             /\ pc' = "launch"
             /\ UNCHANGED <<todo, entries, cur, report, copy>>
    <3>1. file' \in Seq(Line)
      BY <1>0, <1>s, <2>2, SetFirstLines
    <3>2. Honest(SetFirst(file, id, "running"))
      BY <1>0, <1>s, SetFirstHonest
    <3>3. Honest(file)'
      BY <1>4, <2>2, <3>2 DEF Honest, SpawnStart
    <3> QED
      BY <1>4, <2>2, <3>1, <3>3, HonestWrite DEF SpawnStart
  <2> QED
    BY <1>4, <2>1, <2>2 DEF SpawnStart, Replace, Goto
<1>5. CASE Launch
  <2>1. CASE Exit /\ FailIfWorkable(Head(todo))
    BY <1>5, <2>1, FailHonest, HonestExit DEF Launch
  <2>2. CASE UNCHANGED <<file, entries, cur, report, copy>> /\ pc' = "spawn"
    BY <1>5, <1>h, <2>2, HonestWrite DEF Launch
  <2> QED
    BY <1>5, <2>1, <2>2 DEF Launch, Goto
<1>6. CASE ReadResults
  <2>1. Lists' /\ AllHonest'
    BY <1>6, <1>h DEF ReadResults, HonestInv, Lists, AllHonest, Honest
  <2>2. Consuming'
    BY <1>6 DEF ReadResults, Goto, HonestInv, Consuming
  <2> QED
    BY <2>1, <2>2 DEF HonestInv
<1>7. ASSUME NEW id \in Ids, ReadReport(id), entries' = entries PROVE HonestInv'
  <2>1. results[id] \in Reports /\ cur' = id /\ report' = results[id]
    BY <1>7 DEF ReadReport, HonestInv, Lists, Consuming
  <2>2. Lists'
    BY <1>7, <2>1 DEF ReadReport, HonestInv, Lists
  <2>3. Consuming'
    BY <1>7, <2>1 DEF ReadReport, Goto, HonestInv, Consuming
  <2>4. AllHonest'
    BY <1>7, <2>1 DEF ReadReport, HonestInv, AllHonest, Honest
  <2> QED
    BY <2>2, <2>3, <2>4 DEF HonestInv
<1>7a. ASSUME NEW id \in Ids, ReadReport(id), entries' # entries PROVE HonestInv'
  BY <1>7a, <1>h, HonestWrite DEF ReadReport
<1>8. CASE TickDone
  BY <1>8, <1>h, HonestWrite DEF TickDone, Goto
<1>9. CASE ReadQueue \/ Truncate
  <2>1. << >> \in Seq(Line) /\ file' \in {file, << >>} /\ copy' \in {file, copy, << >>}
    BY <1>9 DEF ReadQueue, Truncate, Unrecorded
  <2>2. Lists'
    BY <1>9, <2>1 DEF ReadQueue, Truncate, HonestInv, Lists
  <2>3. Honest(file)' /\ Honest(copy)' /\ Honest(loaded)'
    BY <1>9, <2>1 DEF ReadQueue, Truncate, HonestInv, AllHonest, Honest
  <2>4. AllHonest'
    BY <1>9, <2>3 DEF ReadQueue, Truncate, HonestInv, AllHonest
  <2>5. Consuming'
    BY <1>9 DEF ReadQueue, Truncate, Unrecorded, Goto, HonestInv, Consuming
  <2> QED
    BY <2>2, <2>4, <2>5 DEF HonestInv
<1>11. CASE WriteVerdict
  <2>1. /\ copy \in Seq(Line) /\ Honest(copy)
        /\ report.verdict \in Statuses
        /\ report.verdict = "done" => <<cur, "done">> \in reported
    BY <1>11 DEF WriteVerdict, HonestInv, Lists, Consuming, AllHonest, Reports, Statuses
  <2>2. SetAll(copy, cur, report.verdict) \in Seq(Line)
    BY <2>1, SetAllLines
  <2>3. Honest(SetAll(copy, cur, report.verdict))
    BY <2>1, SetAllHonest
  <2> DEFINE new == SetAll(copy, cur, report.verdict)
  <2>4. file' \in {new, file} \/ \E n \in 0..(Len(new) - 1) : file' = SubSeq(new, 1, n)
    <3>1. Len(new) = Len(copy)
      BY <2>1, <2>2, SetAllLines
    <3> QED
      BY <1>11, <3>1 DEF WriteVerdict, WriteAll, WriteSome, Replace
  <2> HIDE DEF new
  <2>a. ASSUME NEW n \in 0..(Len(new) - 1)
        PROVE  SubSeq(new, 1, n) \in Seq(Line) /\ Honest(SubSeq(new, 1, n))
    BY <2>2, <2>3, SubSeqLines, SubSeqHonest DEF new
  <2>5. Honest(file)' /\ file' \in Seq(Line)
    <3>1. UNCHANGED reported
      BY <1>11 DEF WriteVerdict
    <3>2. PICK lines \in Seq(Line) : file' = lines /\ Honest(lines)
      BY <1>0, <2>2, <2>3, <2>4, <2>a DEF new
    <3> QED
      BY <3>1, <3>2 DEF Honest
  <2>6. << >> \in Seq(Line) /\ copy' = << >>
    BY <1>11 DEF WriteVerdict
  <2>7. Lists'
    BY <1>11, <2>5, <2>6 DEF WriteVerdict, HonestInv, Lists
  <2>8. Consuming'
    BY <1>11 DEF WriteVerdict, Goto, HonestInv, Consuming
  <2>9. Honest(copy)' /\ Honest(loaded)'
    BY <1>11, <2>6 DEF WriteVerdict, HonestInv, AllHonest, Honest
  <2>10. AllHonest'
    BY <1>11, <2>5, <2>9 DEF WriteVerdict, HonestInv, AllHonest
  <2> QED
    BY <2>7, <2>8, <2>10 DEF HonestInv
<1>12. CASE Chain
  <2> DEFINE t == Head(report.found)
  <2>1. /\ file' = Append(file, Pending(<<cur[1], t>>)) \/ file' = file
        /\ report' = [report EXCEPT !.found = Tail(@)]
    BY <1>12 DEF Chain, AppendLine, LoseLine, Replace
  <2>2. cur \in Ids /\ IsBase(cur) /\ report \in Reports /\ report.found # << >>
    BY <1>12 DEF Chain, HonestInv, Consuming
  <2>3. t \in Targets /\ report' \in Reports /\ report'.verdict = report.verdict
    BY <2>1, <2>2, ReportTaken
  <2> HIDE DEF t
  <2>4. cur[1] \in Bases
    BY <2>2 DEF Ids
  <2>5. <<cur[1], t>> \in Ids
    BY <2>3, <2>4 DEF Ids
  <2>6. /\ Append(file, Pending(<<cur[1], t>>)) \in Seq(Line)
        /\ Honest(Append(file, Pending(<<cur[1], t>>)))
    BY <1>0, <2>5, AppendHonest
  <2>7. file' \in Seq(Line) /\ Honest(file)'
    BY <1>0, <1>12, <2>1, <2>6 DEF Chain, Honest
  <2>8. Lists'
    BY <1>12, <2>3, <2>7 DEF Chain, HonestInv, Lists
  <2>9. Consuming'
    BY <1>12, <2>2, <2>3 DEF Chain, HonestInv, Consuming, IsBase
  <2>10. Honest(copy)' /\ Honest(loaded)'
    BY <1>12 DEF Chain, HonestInv, AllHonest, Honest
  <2>11. AllHonest'
    BY <1>12, <2>3, <2>7, <2>10 DEF Chain, HonestInv, AllHonest
  <2> QED
    BY <2>8, <2>9, <2>11 DEF HonestInv
<1>13. CASE RemoveResult
  <2>1. Lists'
    BY <1>13 DEF RemoveResult, HonestInv, Lists
  <2>2. Consuming'
    BY <1>13 DEF RemoveResult, Goto, HonestInv, Lists, Consuming, NoReport
  <2>3. Honest(file)' /\ Honest(copy)' /\ Honest(loaded)'
    BY <1>13 DEF RemoveResult, HonestInv, AllHonest, Honest
  <2>4. AllHonest'
    BY <1>13, <2>3 DEF RemoveResult, HonestInv, Lists, AllHonest, NoReport
  <2> QED
    BY <2>1, <2>2, <2>4 DEF HonestInv
<1>14. CASE Crash
  BY <1>14, <1>h, HonestExit DEF Crash
<1>15. CASE Restart
  BY <1>15, <1>h, HonestWrite DEF Restart, Goto
<1>16. ASSUME NEW id \in Ids, WorkerReports(id) PROVE HonestInv'
  <2>1. PICK r \in Reports :
          /\ r.found # << >> => IsBase(id)
          /\ results' = [results EXCEPT ![id] = r]
          /\ reported' = reported \cup {<<id, r.verdict>>}
    BY <1>16 DEF WorkerReports
  <2>2. r # NoReport
    BY DEF Reports, NoReport
  <2>3. Lists'
    BY <1>16, <2>1 DEF WorkerReports, HonestInv, Lists
  <2>4. Consuming'
    BY <1>16, <2>1, <2>2 DEF WorkerReports, HonestInv, Lists, Consuming
  <2>5. Honest(file)' /\ Honest(copy)' /\ Honest(loaded)'
    BY <1>16, <2>1 DEF WorkerReports, HonestInv, AllHonest, Honest
  <2>6. AllHonest'
    BY <1>16, <2>1, <2>5 DEF WorkerReports, HonestInv, Lists, AllHonest
  <2> QED
    BY <2>3, <2>4, <2>6 DEF HonestInv
<1>17. ASSUME NEW id \in Ids, WorkerDies(id) PROVE HonestInv'
  BY <1>17, <1>h, HonestWrite DEF WorkerDies
<1>18. CASE UserLoad
  <2>1. Lists'
    BY <1>18 DEF UserLoad, HonestInv, Lists
  <2>2. Consuming'
    BY <1>18 DEF UserLoad, HonestInv, Consuming
  <2>3. AllHonest'
    BY <1>18 DEF UserLoad, HonestInv, AllHonest, Honest
  <2> QED
    BY <2>1, <2>2, <2>3 DEF HonestInv
<1>19. CASE UserSave
  <2>1. loaded \in Seq(Line) /\ Honest(loaded)
    BY DEF HonestInv, Lists, AllHonest
  <2>2. CASE \E b \in Bases : file' = Append(loaded, Pending(<<b>>))
    <3>1. PICK b \in Bases : file' = Append(loaded, Pending(<<b>>))
      BY <2>2
    <3>2. <<b>> \in Ids
      BY DEF Ids
    <3>3. /\ Append(loaded, Pending(<<b>>)) \in Seq(Line)
          /\ Honest(Append(loaded, Pending(<<b>>)))
      BY <2>1, <3>2, AppendHonest
    <3> QED
      BY <1>19, <3>1, <3>3, HonestSave
  <2>3. CASE \E id \in IdsIn(loaded) : file' = SetFirst(loaded, id, "pending")
    <3>1. PICK id \in IdsIn(loaded) : file' = SetFirst(loaded, id, "pending")
      BY <2>3
    <3>2. SetFirst(loaded, id, "pending") \in Seq(Line)
      BY <1>s, <2>1, SetFirstLines
    <3>3. Honest(SetFirst(loaded, id, "pending"))
      BY <1>s, <2>1, SetFirstHonest
    <3> QED
      BY <1>19, <3>1, <3>2, <3>3, HonestSave
  <2> QED
    BY <1>19, <2>2, <2>3 DEF UserSave, Replace
<1>20. CASE UserReturn
  <2>1. << >> \in Seq(Line) /\ loaded' = << >>
    BY <1>20 DEF UserReturn
  <2>2. Lists'
    BY <1>20, <2>1 DEF UserReturn, HonestInv, Lists
  <2>3. Consuming'
    BY <1>20 DEF UserReturn, HonestInv, Consuming
  <2>4. AllHonest'
    BY <1>20, <2>1 DEF UserReturn, HonestInv, AllHonest, Honest
  <2> QED
    BY <2>2, <2>3, <2>4 DEF HonestInv
<1>21. CASE UNCHANGED vars
  BY <1>21, <1>h, HonestWrite DEF vars
<1> QED
  BY <1>1, <1>2, <1>3, <1>4, <1>5, <1>6, <1>7, <1>7a, <1>8, <1>9, <1>11, <1>12, <1>13,
     <1>14, <1>15, <1>16, <1>17, <1>18, <1>19, <1>20, <1>21 DEF Next, Orchestrate

\* A task in the queue file is marked done only if a worker has reported so:
\* for any tasks and findings, any number of crashes between any two steps of
\* the orchestrator, any commands of a user beside it, and updates lost to the
\* file being rewritten without the lock (updateStatus, orchestrator.go:175).
THEOREM HuntDoneReported == Spec => []DoneWasReported
<1>1. HonestInv => DoneWasReported
  BY DEF HonestInv, AllHonest, Honest, DoneWasReported
<1> QED
  BY <1>1, HonestInit, HonestNext, PTL DEF Spec
----------------------------------------------------------------------------
(* No task is lost until the file is harmed.                               *)

\* A command that has seen the last writing of the orchestrator has the file as it
\* is, and so has an orchestrator that is about to write; between the two halves of
\* os.WriteFile the copy has every task.
Undisturbed ==
  \/ harmed
  \/ /\ lock = "user" /\ ~stale => loaded = file
     /\ lock = "user" /\ pc = "write" => stale
     /\ ~unlinked
     /\ pc = "truncate" => copy = file
     /\ known \subseteq IF pc = "write" THEN IdsIn(copy) ELSE IdsIn(file)

\* What is harmed stays so.
LEMMA HarmStays ==
  ASSUME [Next]_vars, harmed PROVE harmed'
<1> USE DEF mishaps
<1>1. CASE ListPending \/ SpawnCheck \/ SpawnDrop \/ SpawnStart \/ Launch
  BY <1>1 DEF ListPending, SpawnCheck, SpawnDrop, SpawnStart, Launch
<1>2. CASE ReadResults \/ (\E id \in Ids : ReadReport(id)) \/ TickDone \/ ReadQueue
  BY <1>2 DEF ReadResults, ReadReport, TickDone, ReadQueue
<1>3. CASE Truncate \/ WriteVerdict
  BY <1>3 DEF Truncate, WriteVerdict, WriteAll, WriteSome
<1>4. CASE Chain \/ RemoveResult
  BY <1>4 DEF Chain, AppendLine, LoseLine, RemoveResult
<1>5. CASE Crash \/ Restart \/ \E id \in Ids : WorkerReports(id) \/ WorkerDies(id)
  BY <1>5 DEF Crash, Restart, WorkerReports, WorkerDies
<1>6. CASE UserLoad \/ UserSave \/ UserReturn \/ UNCHANGED vars
  BY <1>6 DEF UserLoad, UserSave, UserReturn, vars
<1> QED
  BY <1>1, <1>2, <1>3, <1>4, <1>5, <1>6 DEF Next, Orchestrate

\* Setting statuses keeps the identifiers.
LEMMA SettingKeepsIds ==
  ASSUME NEW lines \in Seq(Line), NEW id, NEW status \in Statuses
  PROVE  /\ IdsIn(SetFirst(lines, id, status)) = IdsIn(lines)
         /\ IdsIn(SetAll(lines, id, status)) = IdsIn(lines)
<1>1. ASSUME NEW new, DOMAIN new = DOMAIN lines,
             \A i \in DOMAIN lines : new[i].id = lines[i].id
      PROVE  IdsIn(new) = IdsIn(lines)
  BY <1>1 DEF IdsIn
<1>2. \A i \in DOMAIN lines : SetFirst(lines, id, status)[i].id = lines[i].id
  BY SetFirstLines
<1>3. \A i \in DOMAIN lines : SetAll(lines, id, status)[i].id = lines[i].id
  BY SetAllLines
<1>4. /\ DOMAIN SetFirst(lines, id, status) = DOMAIN lines
      /\ DOMAIN SetAll(lines, id, status) = DOMAIN lines
  BY SetFirstLines, SetAllLines
<1> QED
  BY <1>1, <1>2, <1>3, <1>4

\* Appending a line keeps them too.
LEMMA AppendKeepsIds ==
  ASSUME NEW lines \in Seq(Line), NEW line \in Line
  PROVE  IdsIn(Append(lines, line)) = IdsIn(lines) \cup {line.id}
<1>1. /\ DOMAIN lines = 1..Len(lines)
      /\ DOMAIN Append(lines, line) = 1..(Len(lines) + 1)
      /\ \A i \in 1..Len(lines) : Append(lines, line)[i] = lines[i]
      /\ Append(lines, line)[Len(lines) + 1] = line
      /\ Len(lines) \in Nat
  OBVIOUS
<1>2. DOMAIN Append(lines, line) = DOMAIN lines \cup {Len(lines) + 1}
  BY <1>1
<1> DEFINE new == Append(lines, line)
<1> HIDE DEF new
<1>3. IdsIn(new) = IdsIn(lines) \cup {line.id}
  BY <1>1, <1>2 DEF IdsIn, new
<1> QED
  BY <1>3 DEF new

\* FailIfWorkable writes only when the lock is free, and keeps the tasks.
LEMMA FailKeepsIds ==
  ASSUME HonestInv, NEW id, FailIfWorkable(id)
  PROVE  \/ UNCHANGED <<file, known>>
         \/ /\ lock = "free"
            /\ IdsIn(file') = IdsIn(file) /\ known' = known \cup IdsIn(file')
<1>1. "failed" \in Statuses /\ file \in Seq(Line)
  BY DEF Statuses, HonestInv, Lists
<1>2. IdsIn(SetFirst(file, id, "failed")) = IdsIn(file)
  BY <1>1, SettingKeepsIds
<1> QED
  BY <1>2 DEF FailIfWorkable, Workable, Replace

\* Every step keeps it.
LEMMA UndisturbedNext ==
  ASSUME HonestInv, Undisturbed, [Next]_vars
  PROVE  Undisturbed'
<1> SUFFICES ASSUME ~harmed' PROVE Undisturbed'
  BY DEF Undisturbed
<1> USE DEF orch, user, counters, deeds, mishaps
<1>0. file \in Seq(Line) /\ copy \in Seq(Line) /\ loaded \in Seq(Line)
  BY DEF HonestInv, Lists
<1>s. {"pending", "running", "failed", "done"} \subseteq Statuses
  BY DEF Statuses
<1>u. /\ lock = "user" /\ ~stale => loaded = file
      /\ lock = "user" /\ pc = "write" => stale
      /\ ~unlinked
      /\ pc = "truncate" => copy = file
      /\ known \subseteq IF pc = "write" THEN IdsIn(copy) ELSE IdsIn(file)
  BY HarmStays DEF Undisturbed
<1>1. CASE ListPending \/ ReadResults \/ TickDone \/ RemoveResult \/ Restart
  BY <1>1, <1>u DEF ListPending, ReadResults, TickDone, RemoveResult, Restart, Goto,
                    Undisturbed, IdsIn
<1>2. CASE SpawnCheck
  BY <1>2, <1>u DEF SpawnCheck, Exit, Goto, Undisturbed, IdsIn
<1>3. CASE SpawnDrop
  <2>1. FailIfWorkable(Head(todo)) /\ pc = "drop" /\ pc' = "spawn"
        /\ UNCHANGED <<lock, loaded, stale, unlinked, copy>>
    BY <1>3 DEF SpawnDrop, Goto
  <2> QED
    BY <2>1, <1>u, FailKeepsIds DEF Undisturbed, IdsIn
<1>4. CASE SpawnStart
  <2>1. IdsIn(SetFirst(file, Head(todo), "running")) = IdsIn(file)
    BY <1>0, <1>s, SettingKeepsIds
  <2> QED
    BY <1>4, <1>u, <2>1 DEF SpawnStart, Workable, Exit, Replace, Goto, Undisturbed, IdsIn
<1>5. CASE Launch
  <2>1. CASE Exit /\ FailIfWorkable(Head(todo))
    <3>1. pc = "launch" /\ pc' = "down" /\ UNCHANGED <<lock, loaded, stale, unlinked>>
      BY <1>5, <2>1 DEF Launch, Exit, Goto
    <3> QED
      BY <1>u, <2>1, <3>1, FailKeepsIds DEF Undisturbed, IdsIn
  <2>2. CASE UNCHANGED <<file, known>> /\ pc' = "spawn"
    BY <1>5, <1>u, <2>2 DEF Launch, Undisturbed, IdsIn
  <2> QED
    BY <1>5, <2>1, <2>2 DEF Launch, Goto
<1>6. CASE \E id \in Ids : ReadReport(id)
  BY <1>6, <1>u DEF ReadReport, Goto, Undisturbed, IdsIn
<1>7. CASE ReadQueue
  BY <1>7, <1>u DEF ReadQueue, Unrecorded, Goto, Undisturbed, IdsIn
<1>8. CASE Truncate
  BY <1>8, <1>u DEF Truncate, Unrecorded, Writes, Goto, Undisturbed, IdsIn
<1>9. CASE WriteVerdict
  <2>1. report.verdict \in Statuses
    BY <1>9 DEF WriteVerdict, HonestInv, Consuming, Reports, Statuses
  <2>2. IdsIn(SetAll(copy, cur, report.verdict)) = IdsIn(copy)
    BY <1>0, <2>1, SettingKeepsIds
  <2>3. WriteAll
    BY <1>9 DEF WriteVerdict, WriteSome
  <2>4. IdsIn(file') = IdsIn(copy) /\ known' = known \cup IdsIn(file')
    BY <1>u, <2>2, <2>3 DEF WriteAll, Replace
  <2>5. pc = "write" /\ pc' = "chain" /\ UNCHANGED <<lock, loaded, unlinked>>
        /\ stale' = (lock = "user")
    BY <1>9 DEF WriteVerdict, Writes, Goto
  <2>6. known' \subseteq IdsIn(file)'
    BY <1>u, <2>4, <2>5 DEF IdsIn
  <2> QED
    BY <1>u, <2>5, <2>6 DEF Undisturbed
<1>10. CASE Chain
  <2> DEFINE t == Head(report.found)
  <2>1. cur \in Ids /\ report \in Reports /\ report.found # << >>
    BY <1>10 DEF Chain, HonestInv, Consuming
  <2>2. t \in Targets
    BY <2>1, ReportTaken
  <2> HIDE DEF t
  <2>3. cur[1] \in Bases
    BY <2>1 DEF Ids
  <2>4. Pending(<<cur[1], t>>) \in Line
    BY <2>2, <2>3, PendingLine DEF Ids
  <2>5. IdsIn(file) \subseteq IdsIn(Append(file, Pending(<<cur[1], t>>)))
    BY <1>0, <2>4, AppendKeepsIds
  <2>6. \/ Replace(Append(file, Pending(<<cur[1], t>>)))
        \/ UNCHANGED <<file, known>>
    BY <1>10 DEF Chain, AppendLine, LoseLine, t
  <2>7. pc = "chain" /\ pc' = "chain" /\ Writes /\ UNCHANGED <<lock, loaded, unlinked>>
    BY <1>10 DEF Chain
  <2> QED
    BY <1>u, <2>5, <2>6, <2>7 DEF Writes, Replace, Undisturbed, IdsIn
<1>11. CASE Crash
  BY <1>11, <1>u DEF Crash, Exit, Goto, Undisturbed, IdsIn
<1>12. CASE \E id \in Ids : WorkerReports(id) \/ WorkerDies(id)
  BY <1>12, <1>u DEF WorkerReports, WorkerDies, Undisturbed, IdsIn
<1>13. CASE UserLoad
  BY <1>13, <1>u DEF UserLoad, Undisturbed, IdsIn
<1>14. CASE UserSave
  <2>1. lock = "user" /\ ~stale /\ pc \notin {"truncate", "write"}
    BY <1>14 DEF UserSave
  <2>2. PICK lines : Replace(lines) /\ IdsIn(file) \subseteq IdsIn(lines)
    <3>1. \A b \in Bases : Pending(<<b>>) \in Line
      BY PendingLine DEF Ids
    <3>2. \A b \in Bases : IdsIn(loaded) \subseteq IdsIn(Append(loaded, Pending(<<b>>)))
      BY <1>0, <3>1, AppendKeepsIds
    <3>3. \A id : IdsIn(SetFirst(loaded, id, "pending")) = IdsIn(loaded)
      BY <1>0, <1>s, SettingKeepsIds
    <3>4. loaded = file
      BY <1>u, <2>1
    <3> QED
      BY <1>14, <3>2, <3>3, <3>4 DEF UserSave
  <2> QED
    BY <1>14, <1>u, <2>1, <2>2 DEF UserSave, Replace, Undisturbed, IdsIn
<1>15. CASE UserReturn
  BY <1>15, <1>u DEF UserReturn, Undisturbed, IdsIn
<1>16. CASE UNCHANGED vars
  BY <1>16, <1>u DEF vars, Undisturbed, IdsIn
<1> QED
  BY <1>1, <1>2, <1>3, <1>4, <1>5, <1>6, <1>7, <1>8, <1>9, <1>10, <1>11, <1>12, <1>13,
     <1>14, <1>15, <1>16 DEF Next, Orchestrate

\* What becomes of "No data loss" (docs/distributed-hunt.md:279) for any tasks and
\* findings, and any number of crashes, failures, launches and commands in any order:
\* every task that was ever in the queue file stays there, until os.WriteFile is cut
\* short in the middle, or the orchestrator's updateStatus and a command each write
\* back what they read before the other wrote. (Each of the two does lose a task; run
\* finding_torn_queue shows the first.)
THEOREM HuntLosesNoTask == Spec => []NoTaskLost
<1>1. Init => Undisturbed
  BY DEF Init, Undisturbed
<1>2. Undisturbed => NoTaskLost
  BY DEF Undisturbed, NoTaskLost, NoDataLoss, Queued
<1> QED
  BY <1>1, <1>2, HonestInit, HonestNext, UndisturbedNext, PTL DEF Spec
----------------------------------------------------------------------------
(* A result is removed only when it has been consumed.                     *)

Busy == {"read", "truncate", "write", "chain"}

\* A result takes one of the workers that were started; so a task that was
\* started once has no other worker that could write its result again.
Counted ==
  /\ workers \in [Ids -> Nat] /\ starts \in [Ids -> Nat]
  /\ \A id \in Ids : workers[id] <= starts[id]
  /\ \A id \in Ids : results[id] # NoReport => workers[id] < starts[id]
  /\ pc \in Busy => results[cur] # NoReport

\* Then what was read of the result is what it holds; and while it is chained, and
\* nothing has spoiled it, its verdict is recorded and what is no longer in the report
\* is in the file.
Chained(t) ==
  (\E j \in DOMAIN report.found : report.found[j] = t) \/ <<cur[1], t>> \in IdsIn(file)

Consumed ==
  /\ pc \in Busy \ {"chain"} /\ starts[cur] <= 1 => report = results[cur]
  /\ pc = "write" /\ unlinked => spoiled
  /\ pc = "chain" /\ starts[cur] <= 1 /\ ~spoiled =>
       /\ report.verdict = results[cur].verdict
       /\ \A i \in DOMAIN results[cur].found : Chained(results[cur].found[i])
       /\ \A i \in DOMAIN file : file[i].id = cur => file[i].status = report.verdict

\* Every step keeps the counts.
LEMMA CountedNext ==
  ASSUME HonestInv, Counted, [Next]_vars
  PROVE  Counted'
<1> USE DEF orch, user, counters, deeds, mishaps, Busy
<1>0. results \in [Ids -> Reports \cup {NoReport}] /\ (pc \in Busy => cur \in Ids)
  BY DEF HonestInv, Lists, Consuming
<1>1. ASSUME UNCHANGED <<results, workers, starts>>,
             pc' \notin Busy \/ (pc \in Busy /\ cur' = cur)
      PROVE  Counted'
  BY <1>1 DEF Counted
<1>2. CASE ListPending \/ TickDone \/ ReadResults \/ ReadQueue \/ Truncate \/ Restart
  BY <1>1, <1>2 DEF ListPending, TickDone, ReadResults, ReadQueue, Truncate, Restart,
                    Unrecorded, Goto
<1>3. CASE SpawnCheck \/ SpawnDrop \/ SpawnStart
  BY <1>1, <1>3 DEF SpawnCheck, SpawnDrop, SpawnStart, Exit, Goto
<1>4. CASE Launch
  <2> DEFINE h == Head(todo)
  <2>1. UNCHANGED results /\ pc' \notin Busy
    BY <1>4 DEF Launch, Exit, Goto
  <2>2. CASE UNCHANGED <<workers, starts>>
    BY <1>1, <2>1, <2>2
  <2>3. CASE /\ starts' = [starts EXCEPT ![h] = @ + 1]
             /\ workers' = [workers EXCEPT ![h] = @ + 1]
    <3> HIDE DEF h
    <3>1. /\ starts \in [Ids -> Nat] /\ workers \in [Ids -> Nat]
          /\ \A id \in Ids : workers[id] <= starts[id]
      BY DEF Counted
    <3>2. /\ starts' \in [Ids -> Nat] /\ workers' \in [Ids -> Nat]
          /\ \A id \in Ids : /\ workers'[id] <= starts'[id]
                             /\ workers[id] < starts[id] => workers'[id] < starts'[id]
      <4>1. \A id \in Ids :
              /\ starts'[id] = IF id = h THEN starts[id] + 1 ELSE starts[id]
              /\ workers'[id] = IF id = h THEN workers[id] + 1 ELSE workers[id]
        BY <2>3, <3>1
      <4>2. \A id \in Ids : starts[id] \in Nat /\ workers[id] \in Nat
        BY <3>1
      <4>3. starts' \in [Ids -> Nat] /\ workers' \in [Ids -> Nat]
        <5>1. CASE h \in Ids
          BY <2>3, <3>1, <5>1
        <5>2. CASE h \notin Ids
          <6>1. starts' = starts /\ workers' = workers
            BY <2>3, <3>1, <5>2
          <6> QED
            BY <3>1, <6>1
        <5> QED
          BY <5>1, <5>2
      <4> QED
        BY <3>1, <4>1, <4>2, <4>3
    <3> QED
      BY <2>1, <3>2 DEF Counted
  <2> QED
    BY <1>4, <2>2, <2>3 DEF Launch
<1>5. ASSUME NEW id \in Ids, ReadReport(id) PROVE Counted'
  <2>1. results[id] # NoReport
    BY <1>5 DEF ReadReport, HonestInv, Consuming
  <2> QED
    BY <1>5, <2>1 DEF ReadReport, Goto, Counted
<1>6. CASE WriteVerdict \/ Chain
  BY <1>1, <1>6 DEF WriteVerdict, Chain, Goto
<1>7. CASE RemoveResult
  BY <1>0, <1>7 DEF RemoveResult, Goto, Counted
<1>8. CASE Crash
  BY <1>1, <1>8 DEF Crash, Exit, Goto
<1>9. ASSUME NEW id \in Ids, WorkerReports(id) PROVE Counted'
  <2>1. PICK r \in Reports : results' = [results EXCEPT ![id] = r]
    BY <1>9 DEF WorkerReports
  <2>2. r # NoReport
    BY DEF Reports, NoReport
  <2>3. workers' = [workers EXCEPT ![id] = @ - 1] /\ workers[id] > 0
        /\ UNCHANGED <<starts, pc, cur>>
    BY <1>9 DEF WorkerReports
  <2> QED
    BY <1>0, <2>1, <2>2, <2>3 DEF Counted
<1>10. ASSUME NEW id \in Ids, WorkerDies(id) PROVE Counted'
  BY <1>10 DEF WorkerDies, Counted
<1>11. CASE UserLoad \/ UserSave \/ UserReturn \/ UNCHANGED vars
  BY <1>1, <1>11 DEF UserLoad, UserSave, UserReturn, vars
<1> QED
  BY <1>2, <1>3, <1>4, <1>5, <1>6, <1>7, <1>8, <1>9, <1>10, <1>11 DEF Next, Orchestrate

\* Every step keeps what is consumed.
LEMMA ConsumedNext ==
  ASSUME HonestInv, Counted, Consumed, [Next]_vars
  PROVE  Consumed'
<1> USE DEF orch, user, counters, deeds, mishaps, Busy
<1>1. ASSUME pc' \notin Busy PROVE Consumed'
  BY <1>1 DEF Consumed
<1>2. CASE ListPending \/ TickDone \/ ReadResults \/ Restart \/ SpawnCheck \/ SpawnDrop
  BY <1>1, <1>2 DEF ListPending, TickDone, ReadResults, Restart, SpawnCheck, SpawnDrop,
                    Exit, Goto
<1>3. CASE SpawnStart \/ Launch \/ RemoveResult \/ Crash
  BY <1>1, <1>3 DEF SpawnStart, Launch, RemoveResult, Crash, Exit, Goto
<1>4. ASSUME NEW id \in Ids, ReadReport(id) PROVE Consumed'
  BY <1>4 DEF ReadReport, Goto, Consumed
<1>5. CASE ReadQueue \/ Truncate
  BY <1>5 DEF ReadQueue, Truncate, Unrecorded, Goto, Consumed
<1>6. CASE WriteVerdict
  <2>1. pc = "write" /\ pc' = "chain" /\ UNCHANGED <<results, starts, cur, report>>
    BY <1>6 DEF WriteVerdict, Goto
  <2>2. ASSUME starts[cur] <= 1, ~spoiled'
        PROVE  /\ report = results[cur]
               /\ \A i \in DOMAIN file' : file'[i].id = cur => file'[i].status = report.verdict
    <3>1. file' = SetAll(copy, cur, report.verdict)
      BY <1>6, <2>1, <2>2 DEF WriteVerdict, WriteAll, WriteSome, Replace, Consumed
    <3>2. copy \in Seq(Line)
      BY DEF HonestInv, Lists
    <3>3. report.verdict \in Statuses
      BY <2>1 DEF HonestInv, Consuming, Reports, Statuses
    <3>4. DOMAIN file' = DOMAIN copy
      BY <3>1, <3>2, <3>3, SetAllLines
    <3>5. \A i \in DOMAIN copy :
            file'[i] = IF copy[i].id = cur THEN [copy[i] EXCEPT !.status = report.verdict]
                                           ELSE copy[i]
      BY <3>1 DEF SetAll
    <3>6. \A i \in DOMAIN copy : copy[i] \in Line
      BY <3>2
    <3>7. report = results[cur]
      BY <2>1, <2>2 DEF Consumed
    <3> QED
      BY <3>4, <3>5, <3>6, <3>7 DEF Line
  <2> QED
    BY <2>1, <2>2 DEF Consumed, Chained
<1>7. CASE Chain
  <2> DEFINE t == Head(report.found)
             id == <<cur[1], t>>
  <2>1. UNCHANGED <<pc, cur, results, starts>> /\ pc = "chain"
    BY <1>7 DEF Chain
  <2>2. cur \in Ids /\ IsBase(cur) /\ report \in Reports /\ report.found # << >>
    BY <1>7 DEF Chain, HonestInv, Consuming
  <2>3. /\ t \in Targets /\ report.found \in Findings
        /\ report'.verdict = report.verdict /\ report'.found = Tail(report.found)
    BY <1>7, <2>2, ReportTaken DEF Chain
  <2>4. \A i \in DOMAIN report.found :
          report.found[i] = t \/ \E j \in DOMAIN report'.found : report.found[i] = report'.found[j]
    BY <2>2, <2>3, FindingsTaken
  <2>5. CASE LoseLine
    BY <2>1, <2>5 DEF LoseLine, Consumed
  <2>6. CASE AppendLine(id)
    <3> HIDE DEF t
    <3>1. cur[1] \in Bases
      BY <2>2 DEF Ids
    <3>2. /\ Pending(id) \in Line /\ file \in Seq(Line)
          /\ Pending(id).id = id
      BY <2>3, <3>1, PendingLine DEF Ids, Pending, HonestInv, Lists
    <3>3. id # cur
      <4>1. Len(cur) = 1 /\ Len(id) = 2
        BY <2>2 DEF IsBase
      <4> QED
        BY <4>1
    <3> HIDE DEF id
    <3>4. /\ file' = Append(file, Pending(id)) /\ UNCHANGED spoiled
      BY <2>6 DEF AppendLine, Replace
    <3>5. /\ DOMAIN file' = DOMAIN file \cup {Len(file) + 1}
          /\ \A i \in DOMAIN file : file'[i] = file[i]
          /\ file'[Len(file) + 1] = Pending(id)
      BY <3>2, <3>4
    <3>6. \A i \in DOMAIN file' : file'[i].id = cur => i \in DOMAIN file
      BY <3>2, <3>3, <3>5
    <3>7. IdsIn(file) \subseteq IdsIn(file') /\ id \in IdsIn(file')
      BY <3>2, <3>5 DEF IdsIn
    <3>8. \A u : Chained(u) => Chained(u)'
      <4>1. ASSUME NEW u, Chained(u)
            PROVE  \/ \E j \in DOMAIN report'.found : report'.found[j] = u
                   \/ <<cur[1], u>> \in IdsIn(file')
        <5>1. CASE <<cur[1], u>> \in IdsIn(file)
          BY <3>7, <5>1
        <5>2. CASE \E j \in DOMAIN report.found : report.found[j] = u
          <6>1. u = t \/ \E j \in DOMAIN report'.found : report'.found[j] = u
            BY <2>4, <5>2
          <6> QED
            BY <3>7, <6>1 DEF id
        <5> QED
          BY <4>1, <5>1, <5>2 DEF Chained
      <4> QED
        BY <2>1, <4>1 DEF Chained, IdsIn
    <3>9. ASSUME starts[cur] <= 1, ~spoiled
          PROVE  /\ report'.verdict = results[cur].verdict
                 /\ \A i \in DOMAIN results[cur].found : Chained(results[cur].found[i])'
                 /\ \A i \in DOMAIN file' :
                      file'[i].id = cur => file'[i].status = report'.verdict
      <4>1. /\ report.verdict = results[cur].verdict
            /\ \A i \in DOMAIN results[cur].found : Chained(results[cur].found[i])
            /\ \A i \in DOMAIN file : file[i].id = cur => file[i].status = report.verdict
        BY <2>1, <3>9 DEF Consumed
      <4>2. \A i \in DOMAIN results[cur].found : Chained(results[cur].found[i])'
        BY <2>1, <3>8, <4>1
      <4> QED
        BY <2>3, <3>5, <3>6, <4>1, <4>2
    <3> QED
      BY <2>1, <3>4, <3>9 DEF Consumed
  <2> QED
    BY <1>7, <2>5, <2>6 DEF Chain
<1>8. ASSUME NEW id \in Ids, WorkerReports(id) PROVE Consumed'
  <2>1. PICK r \in Reports : results' = [results EXCEPT ![id] = r]
    BY <1>8 DEF WorkerReports
  <2>2. workers[id] > 0 /\ UNCHANGED <<file, starts, pc, cur, report, unlinked, spoiled>>
    BY <1>8 DEF WorkerReports
  <2>3. ASSUME pc \in Busy, starts[cur] <= 1 PROVE cur # id
    <3> SUFFICES ASSUME cur = id PROVE FALSE
      OBVIOUS
    <3>1. workers[id] \in Nat /\ starts[id] \in Nat /\ workers[id] < starts[id]
      BY <2>3 DEF Counted
    <3> QED
      BY <2>2, <2>3, <3>1
  <2>4. pc \in Busy /\ starts[cur] <= 1 => results'[cur] = results[cur]
    BY <2>1, <2>3 DEF HonestInv, Lists, Consuming
  <2> QED
    BY <2>2, <2>4 DEF Consumed, Chained, IdsIn
<1>9. ASSUME UNCHANGED <<file, results, starts, pc, cur, report, unlinked, spoiled>>
      PROVE  Consumed'
  BY <1>9 DEF Consumed, Chained, IdsIn
<1>10. ASSUME NEW id \in Ids, WorkerDies(id) PROVE Consumed'
  BY <1>9, <1>10 DEF WorkerDies
<1>11. CASE UserLoad \/ UserReturn \/ UNCHANGED vars
  BY <1>9, <1>11 DEF UserLoad, UserReturn, vars
<1>12. CASE UserSave
  BY <1>12 DEF UserSave, Consumed
<1> QED
  BY <1>2, <1>3, <1>4, <1>5, <1>6, <1>7, <1>8, <1>10, <1>11, <1>12 DEF Next, Orchestrate

\* What a step that removes a result leaves behind.
Leaves ==
  \A id \in Ids :
    /\ results[id] # NoReport /\ results'[id] = NoReport
    /\ starts[id] <= 1 /\ ~spoiled
    => /\ \A i \in DOMAIN results[id].found : <<id[1], results[id].found[i]>> \in IdsIn(file)
       /\ \A i \in DOMAIN file : file[i].id = id => file[i].status = results[id].verdict

\* Only RemoveResult removes one, and by then it is consumed.
LEMMA RemovesConsumed ==
  ASSUME HonestInv, Consumed, [Next]_vars
  PROVE  Leaves
<1> USE DEF orch, user, counters, deeds, mishaps, Busy
<1>1. CASE UNCHANGED results
  BY <1>1 DEF Leaves
<1>2. ASSUME NEW id \in Ids, WorkerReports(id) PROVE Leaves
  <2>1. PICK r \in Reports : results' = [results EXCEPT ![id] = r]
    BY <1>2 DEF WorkerReports
  <2>2. r # NoReport
    BY DEF Reports, NoReport
  <2> QED
    BY <2>1, <2>2 DEF Leaves, HonestInv, Lists
<1>3. CASE RemoveResult /\ results' # results
  <2>1. /\ pc = "chain" /\ report.found = << >>
        /\ results' = [results EXCEPT ![cur] = NoReport]
    BY <1>3 DEF RemoveResult
  <2>2. \A id \in Ids : id # cur => results'[id] = results[id]
    BY <2>1 DEF HonestInv, Lists
  <2>3. \A u : Chained(u) => <<cur[1], u>> \in IdsIn(file)
    BY <2>1 DEF Chained
  <2> QED
    BY <2>1, <2>2, <2>3 DEF Leaves, Consumed
<1> QED
  BY <1>1, <1>2, <1>3
  DEF Next, Orchestrate, ListPending, SpawnCheck, SpawnDrop, SpawnStart, Launch, ReadResults,
      ReadReport, TickDone, ReadQueue, Truncate, WriteVerdict, Chain, Crash, Restart,
      WorkerDies, UserLoad, UserSave, UserReturn, vars

\* At-least-once, for any tasks and findings, and any number of crashes, failures and
\* commands: the loop of orchestrator.go removes a result file only when its findings
\* are in the queue and its verdict is on every line of its task, unless the task has
\* been started twice, a command has saved the queue since the result was read, or an
\* operation on the queue file has failed, whose error updateStatus and Add return and
\* the loop drops (orchestrator.go:84, 99, 101, 110). FindingsBecomeTasks,
\* which does not except failures, does not hold.
THEOREM HuntConsumesResults == Spec => ResultsAreConsumed
<1>1. Init => Counted /\ Consumed
  BY DEF Init, Counted, Consumed, Busy
<1>2. HonestInv /\ Consumed /\ [Next]_vars
        => [\A id \in Ids :
             /\ results[id] # NoReport /\ results'[id] = NoReport
             /\ starts[id] <= 1 /\ ~spoiled
             => /\ \A i \in DOMAIN results[id].found :
                     <<id[1], results[id].found[i]>> \in IdsIn(file)
                /\ \A i \in DOMAIN file :
                     file[i].id = id => file[i].status = results[id].verdict]_vars
  BY RemovesConsumed DEF Leaves
<1> QED
  BY <1>1, <1>2, HonestInit, HonestNext, CountedNext, ConsumedNext,
     PTL DEF Spec, ResultsAreConsumed
----------------------------------------------------------------------------
(* What List("pending") returns.                                           *)

\* pos points to a line of each of the identifiers, one after the other in the first n
\* lines; from some identifier on they are pending.
Points(pos, lines, n, ids, from) ==
  /\ pos \in [1..Len(ids) -> 1..n]
  /\ \A k, l \in 1..Len(ids) : k < l => pos[k] < pos[l]
  /\ \A k \in 1..Len(ids) : lines[pos[k]].id = ids[k]
  /\ \A k \in from..Len(ids) : lines[pos[k]].status = "pending"

\* The listing after the first i lines: identifiers of pending ones, in their order.
ListedUpTo(lines, i, ids) == ids \in Seq(Ids) /\ \E pos : Points(pos, lines, i, ids, 1)

\* PendingIds builds its list along the lines.
Listing(lines, ids) ==
  ids = [i \in 0..Len(lines) |->
           IF i = 0 THEN << >>
           ELSE IF lines[i].status = "pending" THEN Append(ids[i - 1], lines[i].id)
           ELSE ids[i - 1]]

\* There is such a function.
LEMMA ListingExists ==
  ASSUME NEW lines \in Seq(Line)
  PROVE  \E ids : Listing(lines, ids)
<1> DEFINE n == Len(lines)
           V == Seq(Ids)
           step == [i \in 1..n |->
                      [s \in V |-> IF lines[i].status = "pending"
                                     THEN Append(s, lines[i].id) ELSE s]]
<1>1. n \in Nat /\ << >> \in V /\ \A i \in 1..n : lines[i] \in Line
  OBVIOUS
<1>2. \A i \in 1..n : lines[i].id \in Ids
  BY <1>1 DEF Line
<1> HIDE DEF n
<1>3. ASSUME NEW i \in 1..n, NEW s \in V
      PROVE  (IF lines[i].status = "pending" THEN Append(s, lines[i].id) ELSE s) \in V
  BY <1>2
<1>4. step \in Steps(n, V)
  BY <1>3 DEF Steps
<1> HIDE DEF step, V
<1>5. PICK f : Follows(f, n, V, << >>, step)
  BY <1>1, <1>4, RecursionExists
<1>6. f \in [0..n -> V] /\ f[0] = << >> /\ \A i \in 1..n : f[i] = step[i][f[i - 1]]
  BY <1>5 DEF Follows
<1>7. \A i \in 1..n : f[i - 1] \in V
  BY <1>1, <1>6
<1>8. \A i \in 1..n : f[i] = IF lines[i].status = "pending"
                               THEN Append(f[i - 1], lines[i].id) ELSE f[i - 1]
  BY <1>6, <1>7 DEF step
<1>9. \A i \in 0..n :
        f[i] = IF i = 0 THEN << >>
               ELSE IF lines[i].status = "pending" THEN Append(f[i - 1], lines[i].id)
               ELSE f[i - 1]
  <2>1. \A i \in 0..n : i = 0 \/ (i \in 1..n /\ i # 0)
    BY <1>1
  <2> QED
    BY <1>6, <1>8, <2>1, Zenon
<1>10. f = [i \in 0..n |-> f[i]]
  BY <1>6
<1> QED
  BY <1>9, <1>10 DEF Listing, n

\* One more line is looked at.
LEMMA ListingGoesOn ==
  ASSUME NEW lines \in Seq(Line), NEW i \in 1..Len(lines), NEW ids,
         ListedUpTo(lines, i - 1, ids)
  PROVE  ListedUpTo(lines, i, IF lines[i].status = "pending"
                                THEN Append(ids, lines[i].id) ELSE ids)
<1>1. ids \in Seq(Ids) /\ lines[i].id \in Ids
  <2>1. lines[i] \in Line
    OBVIOUS
  <2> QED
    BY <2>1 DEF ListedUpTo, Line
<1>2. PICK pos : Points(pos, lines, i - 1, ids, 1)
  BY DEF ListedUpTo
<1> DEFINE m == Len(ids)
<1>3. m \in Nat /\ i \in 1..i /\ \A j \in 1..(i - 1) : j \in 1..i /\ j < i
  BY <1>1
<1>4. CASE lines[i].status # "pending"
  <2>1. Points(pos, lines, i, ids, 1)
    BY <1>2, <1>3 DEF Points
  <2> QED
    BY <1>1, <1>4, <2>1 DEF ListedUpTo
<1>5. CASE lines[i].status = "pending"
  <2> DEFINE longer == Append(ids, lines[i].id)
             new == [k \in 1..(m + 1) |-> IF k = m + 1 THEN i ELSE pos[k]]
  <2>1. /\ longer \in Seq(Ids) /\ Len(longer) = m + 1 /\ longer[m + 1] = lines[i].id
        /\ \A k \in 1..m : longer[k] = ids[k]
    BY <1>1
  <2>2. \A k \in 1..(m + 1) : k \in 1..m \/ k = m + 1
    BY <1>3
  <2>3. /\ new[m + 1] = i /\ \A k \in 1..m : new[k] = pos[k] /\ k \in 1..(m + 1) /\ k < m + 1
    BY <1>3
  <2>4. \A k \in 1..m : pos[k] \in 1..i /\ pos[k] < i
    BY <1>2, <1>3 DEF Points
  <2>5. new \in [1..(m + 1) -> 1..i]
    BY <1>3, <2>2, <2>4
  <2> HIDE DEF new, longer
  <2>6. ASSUME NEW k \in 1..(m + 1), NEW l \in 1..(m + 1), k < l PROVE new[k] < new[l]
    <3>1. k \in 1..m
      BY <1>3, <2>6
    <3>2. CASE l = m + 1
      BY <2>3, <2>4, <3>1, <3>2
    <3>3. CASE l \in 1..m
      <4>1. pos[k] < pos[l]
        BY <1>2, <2>6, <3>1, <3>3 DEF Points
      <4> QED
        BY <2>3, <3>1, <3>3, <4>1
    <3> QED
      BY <2>2, <3>2, <3>3
  <2>7. \A k \in 1..(m + 1) : lines[new[k]].id = longer[k] /\ lines[new[k]].status = "pending"
    BY <1>2, <1>5, <2>1, <2>2, <2>3 DEF Points
  <2>8. Points(new, lines, i, longer, 1)
    BY <2>1, <2>5, <2>6, <2>7 DEF Points
  <2>9. ListedUpTo(lines, i, longer)
    BY <2>1, <2>8 DEF ListedUpTo
  <2> QED
    BY <1>5, <2>9 DEF longer
<1> QED
  BY <1>4, <1>5

\* It lists identifiers of pending lines, and none twice if no task has two.
LEMMA PendingIdsListed ==
  ASSUME NEW lines \in Seq(Line)
  PROVE  ListedUpTo(lines, Len(lines), PendingIds(lines))
<1> DEFINE n == Len(lines)
           ids == CHOOSE f : Listing(lines, f)
<1>1. n \in Nat
  OBVIOUS
<1>2. Listing(lines, ids)
  BY ListingExists
<1>3. PendingIds(lines) = ids[n]
  BY DEF PendingIds, Listing
<1> HIDE DEF ids, n
<1>4. /\ ids[0] = << >>
      /\ \A i \in 1..n : ids[i] = IF lines[i].status = "pending"
                                    THEN Append(ids[i - 1], lines[i].id) ELSE ids[i - 1]
  <2>1. \A i \in 0..n :
          ids[i] = IF i = 0 THEN << >>
                   ELSE IF lines[i].status = "pending" THEN Append(ids[i - 1], lines[i].id)
                   ELSE ids[i - 1]
    BY <1>2 DEF Listing, n
  <2>2. 0 \in 0..n /\ \A i \in 1..n : i \in 0..n /\ i # 0
    BY <1>1
  <2> QED
    BY <2>1, <2>2
<1> DEFINE S == {i \in 0..n : ListedUpTo(lines, i, ids[i])}
<1>5. 0 \in S
  <2>1. << >> \in Seq(Ids) /\ Len(<< >>) = 0 /\ [k \in 1..0 |-> 0] \in [1..0 -> 1..0]
    OBVIOUS
  <2>2. Points([k \in 1..0 |-> 0], lines, 0, << >>, 1)
    BY <2>1 DEF Points
  <2>3. ListedUpTo(lines, 0, ids[0])
    BY <1>4, <2>1, <2>2 DEF ListedUpTo
  <2> QED
    BY <1>1, <2>3
<1>6. ASSUME NEW i \in 1..n, i - 1 \in S PROVE i \in S
  <2>1. ListedUpTo(lines, i - 1, ids[i - 1])
    BY <1>6
  <2>2. ListedUpTo(lines, i, ids[i])
    BY <1>4, <2>1, ListingGoesOn DEF n
  <2> QED
    BY <2>2
<1> HIDE DEF S
<1>7. \A i \in 0..n : i \in S
  BY <1>1, <1>5, <1>6, Interval, Zenon
<1>8. n \in S
  BY <1>1, <1>7
<1> QED
  BY <1>3, <1>8 DEF S, n
----------------------------------------------------------------------------
(* Every variable has its type.                                            *)

\* What HonestInv does not say of the types; no step but a launch counts, and
\* where the orchestrator looks at the head of its list there is one.
OtherTypes ==
  /\ workers \in [Ids -> 0..MaxStarts] /\ starts \in [Ids -> 0..MaxStarts]
  /\ pc \in Places
  /\ todo \in Seq(Ids) /\ (pc \in {"drop", "start", "launch"} => todo # << >>)
  /\ cur \in Ids \cup {NoId}
  /\ lock \in {"free", "user"} /\ unlinked \in BOOLEAN
  /\ crashes \in 0..MaxCrashes /\ commands \in 0..MaxCommands
  /\ known \subseteq Ids
  /\ reported \subseteq Ids \X {"done", "failed"}

\* Every step keeps the types.
LEMMA OtherTypesNext ==
  ASSUME HonestInv, HonestInv', Counted, OtherTypes, [Next]_vars
  PROVE  OtherTypes'
<1> USE DEF orch, user, counters, deeds, mishaps
<1>n. {MaxCrashes, MaxCommands, MaxStarts} \subseteq Nat
  BY HuntAssumption
<1>p. Places = {"tick", "spawn", "drop", "start", "launch", "consume", "read", "truncate",
                "write", "chain", "down"}
  BY DEF Places
<1>k. ASSUME known' = known \cup IdsIn(file') PROVE known' \subseteq Ids
  <2>1. \A i \in DOMAIN file' : file'[i] \in Line
    BY DEF HonestInv, Lists
  <2> QED
    BY <1>k, <2>1 DEF IdsIn, Line, OtherTypes
<1>t. ASSUME todo # << >>
      PROVE  Head(todo) \in Ids /\ Tail(todo) \in Seq(Ids)
  BY <1>t DEF OtherTypes
<1>x. ASSUME Exit, UNCHANGED <<workers, starts, lock, unlinked, commands, reported>>,
             crashes' \in 0..MaxCrashes, known' \subseteq Ids
      PROVE  OtherTypes'
  BY <1>x, <1>p DEF Exit, Goto, OtherTypes
<1>y. ASSUME UNCHANGED <<workers, starts, lock, unlinked, commands, crashes, reported>>,
             known' \subseteq Ids, cur' \in Ids \cup {NoId}, pc' \in Places,
             todo' \in Seq(Ids),
             pc' \in {"drop", "start", "launch"} => todo' # << >>
      PROVE  OtherTypes'
  BY <1>y DEF OtherTypes
<1>f. ASSUME NEW id, FailIfWorkable(id) PROVE known' \subseteq Ids
  BY <1>f, <1>k DEF FailIfWorkable, Replace, OtherTypes
<1>1. CASE ListPending
  <2>1. PendingIds(file) \in Seq(Ids)
    BY PendingIdsListed DEF ListedUpTo, HonestInv, Lists
  <2> QED
    BY <1>1, <1>y, <1>p, <2>1 DEF ListPending, Goto, OtherTypes
<1>2. CASE SpawnCheck
  <2>1. CASE Exit
    BY <1>2, <1>x, <2>1 DEF SpawnCheck, OtherTypes
  <2>2. CASE pc' \in {"drop", "start"} /\ UNCHANGED <<todo, cur>>
    BY <1>2, <1>y, <1>p, <2>2 DEF SpawnCheck, OtherTypes
  <2> QED
    BY <1>2, <2>1, <2>2 DEF SpawnCheck, Goto
<1>3. CASE SpawnDrop
  <2>1. todo # << >>
    BY <1>3 DEF SpawnDrop, OtherTypes
  <2>2. known' \subseteq Ids
    BY <1>3, <1>f DEF SpawnDrop
  <2> QED
    BY <1>3, <1>t, <1>y, <1>p, <2>1, <2>2 DEF SpawnDrop, Goto, OtherTypes
<1>4. CASE SpawnStart
  <2>1. CASE Exit /\ UNCHANGED known
    BY <1>4, <1>x, <2>1 DEF SpawnStart, OtherTypes
  <2>2. CASE /\ known' = known \cup IdsIn(file')
             /\ pc' = "launch" /\ UNCHANGED <<todo, cur>>
    <3>1. known' \subseteq Ids
      BY <1>k, <2>2
    <3> QED
      BY <1>4, <1>y, <1>p, <2>2, <3>1 DEF SpawnStart, OtherTypes
  <2> QED
    BY <1>4, <2>1, <2>2 DEF SpawnStart, Goto, Replace
<1>5. CASE Launch
  <2> DEFINE h == Head(todo)
  <2>1. h \in Ids /\ Tail(todo) \in Seq(Ids)
    BY <1>5, <1>t DEF Launch, OtherTypes
  <2>2. CASE /\ starts[h] < MaxStarts
             /\ starts' = [starts EXCEPT ![h] = @ + 1]
             /\ workers' = [workers EXCEPT ![h] = @ + 1]
             /\ todo' = Tail(todo) /\ pc' = "spawn" /\ UNCHANGED <<known, cur>>
    <3> HIDE DEF h
    <3>1. starts[h] \in Nat /\ workers[h] \in Nat /\ workers[h] <= starts[h] /\ MaxStarts \in Nat
      BY <1>n, <2>1 DEF Counted
    <3>2. starts[h] + 1 \in 0..MaxStarts /\ workers[h] + 1 \in 0..MaxStarts
      BY <2>2, <3>1
    <3>3. starts' \in [Ids -> 0..MaxStarts] /\ workers' \in [Ids -> 0..MaxStarts]
      BY <2>1, <2>2, <3>2 DEF OtherTypes
    <3> QED
      BY <1>5, <1>p, <2>1, <2>2, <3>3 DEF Launch, OtherTypes
  <2>3. CASE FailIfWorkable(h) /\ Exit /\ UNCHANGED <<workers, starts>>
    BY <1>5, <1>f, <1>x, <2>3 DEF Launch, OtherTypes
  <2> QED
    BY <1>5, <2>2, <2>3 DEF Launch, Goto
<1>6. CASE ReadResults \/ TickDone \/ ReadQueue \/ RemoveResult \/ Restart
  BY <1>6, <1>y, <1>p DEF ReadResults, TickDone, ReadQueue, RemoveResult, Restart,
                          Unrecorded, Goto, OtherTypes
<1>7. ASSUME NEW id \in Ids, ReadReport(id) PROVE OtherTypes'
  BY <1>7, <1>y, <1>p DEF ReadReport, Goto, OtherTypes
<1>8. CASE Truncate
  BY <1>8, <1>p DEF Truncate, Unrecorded, Goto, OtherTypes
<1>9. CASE WriteVerdict
  <2>1. known' \subseteq Ids
    BY <1>9, <1>k DEF WriteVerdict, WriteAll, WriteSome, Replace, OtherTypes
  <2> QED
    BY <1>9, <1>y, <1>p, <2>1 DEF WriteVerdict, Goto, OtherTypes
<1>10. CASE Chain
  <2>1. known' \subseteq Ids
    BY <1>10, <1>k DEF Chain, AppendLine, LoseLine, Replace, OtherTypes
  <2> QED
    BY <1>10, <1>y, <2>1 DEF Chain, OtherTypes
<1>11. CASE Crash
  <2>1. crashes \in 0..MaxCrashes /\ crashes < MaxCrashes /\ crashes' = crashes + 1
    BY <1>11 DEF Crash, OtherTypes
  <2>2. crashes' \in 0..MaxCrashes
    BY <1>n, <2>1
  <2> QED
    BY <1>11, <1>x, <2>2 DEF Crash, OtherTypes
<1>12. ASSUME NEW id \in Ids, WorkerReports(id) \/ WorkerDies(id) PROVE OtherTypes'
  <2>1. workers[id] > 0 /\ workers' = [workers EXCEPT ![id] = @ - 1]
    BY <1>12 DEF WorkerReports, WorkerDies
  <2>2. workers' \in [Ids -> 0..MaxStarts]
    <3>1. workers[id] \in 0..MaxStarts
      BY DEF OtherTypes
    <3>2. workers[id] - 1 \in 0..MaxStarts
      BY <1>n, <2>1, <3>1
    <3> QED
      BY <2>1, <3>2 DEF OtherTypes
  <2>3. \A r \in Reports : <<id, r.verdict>> \in Ids \X {"done", "failed"}
    BY DEF Reports
  <2>4. reported' \subseteq Ids \X {"done", "failed"}
    BY <1>12, <2>3 DEF WorkerReports, WorkerDies, OtherTypes
  <2> QED
    BY <1>12, <2>2, <2>4 DEF WorkerReports, WorkerDies, OtherTypes
<1>13. CASE UserLoad
  <2>1. commands \in 0..MaxCommands /\ commands < MaxCommands /\ commands' = commands + 1
    BY <1>13 DEF UserLoad, OtherTypes
  <2>2. commands' \in 0..MaxCommands
    BY <1>n, <2>1
  <2> QED
    BY <1>13, <2>2 DEF UserLoad, OtherTypes
<1>14. CASE UserSave
  <2>1. known' = known \cup IdsIn(file')
    BY <1>14 DEF UserSave, Replace
  <2>2. known' \subseteq Ids /\ unlinked' \in BOOLEAN
    BY <1>14, <1>k, <2>1 DEF UserSave
  <2> QED
    BY <1>14, <2>2 DEF UserSave, OtherTypes
<1>15. CASE UserReturn
  BY <1>15 DEF UserReturn, OtherTypes
<1>16. CASE UNCHANGED vars
  BY <1>16 DEF vars, OtherTypes
<1> QED
  BY <1>1, <1>2, <1>3, <1>4, <1>5, <1>6, <1>7, <1>8, <1>9, <1>10, <1>11, <1>12, <1>13,
     <1>14, <1>15, <1>16 DEF Next, Orchestrate

\* The types of what the mishaps leave behind.
MishapTypes ==
  /\ garbled \subseteq {"file", "copy"}
  /\ failures \in 0..MaxFailures
  /\ asked \in [Ids -> Nat] /\ doubled \subseteq Ids
  /\ {stale, harmed, spoiled} \subseteq BOOLEAN

\* Every step keeps these too.
LEMMA MishapTypesNext ==
  ASSUME HonestInv, OtherTypes, MishapTypes, [Next]_vars
  PROVE  MishapTypes'
<1> USE DEF orch, user, counters, deeds, mishaps
<1>f. failures' = failures \/ Fails => failures' \in 0..MaxFailures
  <2>1. MaxFailures \in Nat /\ failures \in 0..MaxFailures
    BY HuntAssumption DEF MishapTypes
  <2> QED
    BY <2>1 DEF Fails
<1>0. /\ garbled \subseteq {"file", "copy"} /\ asked \in [Ids -> Nat] /\ doubled \subseteq Ids
      /\ stale \in BOOLEAN /\ harmed \in BOOLEAN /\ spoiled \in BOOLEAN
      /\ known \subseteq Ids
  BY DEF MishapTypes, OtherTypes
<1>w. Writes => stale' \in BOOLEAN
  BY DEF Writes
<1>1. CASE ListPending \/ ReadResults \/ TickDone \/ RemoveResult \/ Restart
  BY <1>1, <1>0, <1>f DEF ListPending, ReadResults, TickDone, RemoveResult, Restart,
                          MishapTypes
<1>2. CASE SpawnCheck \/ SpawnDrop \/ SpawnStart \/ Launch
  BY <1>2, <1>0, <1>f DEF SpawnCheck, SpawnDrop, SpawnStart, Launch, FailIfWorkable, Exit,
                          MishapTypes
<1>3. CASE \E id \in Ids : ReadReport(id)
  BY <1>3, <1>0, <1>f DEF ReadReport, MishapTypes
<1>4. CASE ReadQueue \/ Truncate
  BY <1>4, <1>0, <1>f, <1>w DEF ReadQueue, Truncate, Unrecorded, MishapTypes
<1>5. CASE WriteVerdict
  BY <1>5, <1>0, <1>f, <1>w DEF WriteVerdict, WriteAll, WriteSome, MishapTypes
<1>6. CASE Chain
  <2>1. PICK id : AppendLine(id) \/ LoseLine
    BY <1>6 DEF Chain
  <2>2. /\ garbled' \subseteq {"file", "copy"} /\ doubled' \subseteq Ids
        /\ harmed' \in BOOLEAN /\ spoiled' \in BOOLEAN
        /\ failures' \in 0..MaxFailures
    BY <1>0, <1>f, <2>1 DEF AppendLine, LoseLine
  <2> QED
    BY <1>6, <1>0, <1>w, <2>2 DEF Chain, MishapTypes
<1>7. CASE Crash
  BY <1>7, <1>0, <1>f DEF Crash, Exit, MishapTypes
<1>8. CASE \E id \in Ids : WorkerReports(id) \/ WorkerDies(id)
  BY <1>8, <1>0, <1>f DEF WorkerReports, WorkerDies, MishapTypes
<1>9. CASE UserLoad
  BY <1>9, <1>0, <1>f DEF UserLoad, MishapTypes
<1>10. CASE UserSave
  <2>1. asked' = asked \/ \E id \in Ids : asked' = [asked EXCEPT ![id] = @ + 1]
    <3>1. \A i \in DOMAIN loaded : loaded[i] \in Line
      BY DEF HonestInv, Lists
    <3>2. IdsIn(loaded) \subseteq Ids
      BY <3>1 DEF IdsIn, Line
    <3> QED
      BY <1>10, <3>2 DEF UserSave
  <2>2. asked' \in [Ids -> Nat]
    BY <1>0, <2>1
  <2>3. failures' \in 0..MaxFailures
    BY <1>10, <1>f DEF UserSave
  <2> QED
    BY <1>10, <1>0, <2>2, <2>3 DEF UserSave, MishapTypes
<1>11. CASE UserReturn \/ UNCHANGED vars
  BY <1>11, <1>0, <1>f DEF UserReturn, vars, MishapTypes
<1> QED
  BY <1>1, <1>2, <1>3, <1>4, <1>5, <1>6, <1>7, <1>8, <1>9, <1>10, <1>11
  DEF Next, Orchestrate

\* And all have them at first.
LEMMA TypesInit == Init => OtherTypes /\ MishapTypes
<1>1. Init => OtherTypes
  <2> SUFFICES ASSUME Init PROVE OtherTypes
    OBVIOUS
  <2>1. 0 \in 0..MaxStarts /\ 0 \in 0..MaxCrashes /\ 0 \in 0..MaxCommands
    BY HuntAssumption
  <2>2. /\ workers \in [Ids -> 0..MaxStarts] /\ starts \in [Ids -> 0..MaxStarts]
        /\ pc \in Places /\ pc = "tick" /\ todo = << >>
        /\ cur \in Ids \cup {NoId}
        /\ lock \in {"free", "user"} /\ unlinked \in BOOLEAN
        /\ crashes \in 0..MaxCrashes /\ commands \in 0..MaxCommands
        /\ reported = {}
    BY <2>1 DEF Init, Places
  <2>3. \A i \in DOMAIN file : file[i] \in Line
    BY HonestInit DEF HonestInv, Lists
  <2>4. known \subseteq Ids
    BY <2>3 DEF Init, IdsIn, Line
  <2> QED
    BY <2>2, <2>4 DEF OtherTypes
<1>2. Init => MishapTypes
  <2>1. 0 \in 0..MaxFailures
    BY HuntAssumption
  <2>2. Init => asked \in [Ids -> Nat]
    BY DEF Init
  <2>3. Init => garbled = {} /\ failures = 0 /\ doubled = {}
    BY DEF Init
  <2>4. Init => {stale, harmed, spoiled} \subseteq BOOLEAN
    BY DEF Init
  <2> QED
    BY <2>1, <2>2, <2>3, <2>4 DEF MishapTypes
<1> QED
  BY <1>1, <1>2

\* Every variable of the hunt has its type, for any tasks, findings and bounds: a
\* line never gets a status but pending, running, done and failed (queue.go:58 also
\* names "blocked", which nothing sets), whichever process has written the file.
THEOREM HuntTypeCorrect == Spec => []TypeOK
<1>1. Init => Counted
  BY DEF Init, Counted, Busy
<1>2. HonestInv /\ OtherTypes /\ MishapTypes => TypeOK
  BY DEF HonestInv, Lists, Consuming, OtherTypes, MishapTypes, TypeOK
<1> QED
  BY <1>1, <1>2, TypesInit, HonestInit, HonestNext, CountedNext, OtherTypesNext,
     MishapTypesNext, PTL DEF Spec
----------------------------------------------------------------------------
(* The hunt as moves on a board. What is still to be spawned has a pending *)
(* line each, whatever lines are doubled; and what is recorded of a task   *)
(* was reported.                                                           *)

\* The first line of a task.
LEMMA FirstIs ==
  ASSUME NEW lines \in Seq(Line), NEW id \in IdsIn(lines)
  PROVE  /\ First(lines, id) \in DOMAIN lines /\ lines[First(lines, id)].id = id
         /\ \A j \in DOMAIN lines : lines[j].id = id => First(lines, id) <= j
<1> DEFINE S == {i \in DOMAIN lines : lines[i].id = id}
<1>1. DOMAIN lines = 1..Len(lines) /\ Len(lines) \in Nat
  OBVIOUS
<1>2. S \in SUBSET Nat /\ S # {}
  BY <1>1 DEF IdsIn
<1>3. PICK k \in S : \A j \in S : k <= j
  BY <1>2, LeastNumber
<1>4. \A j \in 1..(k - 1) : lines[j].id # id
  <2>1. \A j \in 1..(k - 1) : j \in DOMAIN lines /\ ~(k <= j)
    BY <1>1, <1>3
  <2> QED
    BY <1>3, <2>1
<1> DEFINE f == First(lines, id)
<1>5. f \in DOMAIN lines /\ lines[f].id = id /\ \A j \in 1..(f - 1) : lines[j].id # id
  BY <1>3, <1>4 DEF First
<1> HIDE DEF f
<1>6. ASSUME NEW j \in DOMAIN lines, lines[j].id = id PROVE f <= j
  <2>1. j \notin 1..(f - 1)
    BY <1>5, <1>6
  <2> QED
    BY <1>1, <1>5, <2>1
<1> QED
  BY <1>5, <1>6 DEF f

\* Setting its status marks it and nothing else.
LEMMA SetFirstIs ==
  ASSUME NEW lines \in Seq(Line), NEW id, NEW status
  PROVE  SetFirst(lines, id, status)
           = [i \in DOMAIN lines |-> IF i \in {First(lines, id)}
                                       THEN [lines[i] EXCEPT !.status = status] ELSE lines[i]]
<1> DEFINE k == First(lines, id)
<1> HIDE DEF k
<1>1. [lines EXCEPT ![k].status = status]
        = [i \in DOMAIN lines |-> IF i \in {k} THEN [lines[i] EXCEPT !.status = status]
                                               ELSE lines[i]]
  OBVIOUS
<1> QED
  BY <1>1 DEF SetFirst, k

\* Setting the status of the first line of the head of a list leaves the lines pointed to
\* by the rest as they are: that line is not after the head's own.
LEMMA PointsMarked ==
  ASSUME NEW lines \in Seq(Line), NEW ids \in Seq(Ids), ids # << >>, NEW pos, NEW from \in {1, 2},
         Points(pos, lines, Len(lines), ids, from), NEW status \in Statuses
  PROVE  LET new == SetFirst(lines, Head(ids), status)
         IN  Len(new) = Len(lines) /\ Points(pos, new, Len(lines), ids, 2)
<1> DEFINE n == Len(lines)
           m == Len(ids)
           h == Head(ids)
           new == SetFirst(lines, h, status)
           f == First(lines, h)
<1>1. n \in Nat /\ DOMAIN lines = 1..n /\ m \in Nat /\ 1 \in 1..m /\ ids[1] = h
  OBVIOUS
<1>2. pos[1] \in DOMAIN lines /\ lines[pos[1]].id = h
  BY <1>1 DEF Points
<1>3. h \in IdsIn(lines)
  BY <1>2 DEF IdsIn
<1>4. f \in 1..n /\ f <= pos[1]
  BY <1>1, <1>2, <1>3, FirstIs
<1>5. /\ new \in Seq(Line) /\ DOMAIN new = DOMAIN lines
      /\ \A i \in DOMAIN lines : new[i].id = lines[i].id
  BY SetFirstLines
<1>6. \A i \in 1..n : i # f => new[i] = lines[i]
  BY <1>1, SetFirstIs
<1> HIDE DEF new, f, n
<1>7. Len(new) = n
  BY <1>1, <1>5
<1>8. \A k \in 2..m : k \in from..m /\ k \in 1..m /\ 1 < k /\ pos[1] < pos[k]
  BY <1>1 DEF Points
<1>9. \A k \in 1..m : pos[k] \in 1..n
  BY DEF Points, n
<1>10. ASSUME NEW k \in 2..m PROVE new[pos[k]].status = "pending"
  <2>1. pos[k] # f /\ pos[k] \in 1..n
    BY <1>1, <1>4, <1>8, <1>9
  <2>2. lines[pos[k]].status = "pending"
    BY <1>8 DEF Points
  <2> QED
    BY <1>6, <2>1, <2>2
<1>11. \A k \in 1..m : new[pos[k]].id = ids[k]
  BY <1>1, <1>5, <1>9 DEF Points
<1>12. Points(pos, new, n, ids, 2)
  BY <1>10, <1>11 DEF Points, n
<1> QED
  BY <1>7, <1>12 DEF new, n

\* When the head is taken off, the rest is pending.
LEMMA PointsRest ==
  ASSUME NEW ids \in Seq(Ids), ids # << >>, NEW pos, NEW lines, NEW n, NEW from \in {1, 2},
         Points(pos, lines, n, ids, from)
  PROVE  \E new : Points(new, lines, n, Tail(ids), 1)
<1> DEFINE m == Len(ids)
           rest == Tail(ids)
           new == [k \in 1..(m - 1) |-> pos[k + 1]]
<1>1. /\ m \in Nat /\ m # 0 /\ Len(rest) = m - 1
      /\ \A k \in 1..(m - 1) : rest[k] = ids[k + 1] /\ k + 1 \in 1..m /\ k + 1 \in from..m
  OBVIOUS
<1>2. new \in [1..(m - 1) -> 1..n]
  BY <1>1 DEF Points
<1>3. \A k \in 1..(m - 1) : new[k] = pos[k + 1]
  OBVIOUS
<1> HIDE DEF new, rest
<1>4. ASSUME NEW k \in 1..(m - 1), NEW l \in 1..(m - 1), k < l PROVE new[k] < new[l]
  <2>1. k + 1 < l + 1 /\ k + 1 \in 1..m /\ l + 1 \in 1..m
    BY <1>1, <1>4
  <2>2. pos[k + 1] < pos[l + 1]
    BY <2>1 DEF Points
  <2> QED
    BY <1>3, <2>2
<1>5. \A k \in 1..(m - 1) : lines[new[k]].id = rest[k] /\ lines[new[k]].status = "pending"
  BY <1>1, <1>3 DEF Points
<1>6. Points(new, lines, n, rest, 1)
  BY <1>1, <1>2, <1>4, <1>5 DEF Points
<1> QED
  BY <1>6 DEF rest

\* The tasks still to be spawned have lines, which are pending but for that of the one
\* about to be launched, which is running, or pending again if a user retries it.
Standing ==
  /\ todo \in Seq(Ids)
  /\ pc \notin {"spawn", "drop", "start", "launch"} => todo = << >>
  /\ pc \in {"drop", "start", "launch"} => todo # << >>
  /\ \E pos : Points(pos, file, Len(file), todo, IF pc = "launch" THEN 2 ELSE 1)
  /\ pc = "launch" =>
       \E i \in DOMAIN file :
         file[i].id = Head(todo) /\ file[i].status \in {"pending", "running"}

\* What workers and results there are is of tasks that were in the file, and what is read
\* of a result was reported.
Recorded ==
  /\ IdsIn(file) \subseteq known
  /\ \A id \in Ids : workers[id] > 0 => id \in known
  /\ \A id \in Ids : results[id] # NoReport => <<id, results[id].verdict>> \in reported
  /\ pc \in Busy => <<cur, report.verdict>> \in reported

BoardInv == harmed \/ (Standing /\ Recorded)

\* Without tasks to spawn there is nothing to stand for.
LEMMA NothingStands ==
  ASSUME todo' = << >>, pc' \notin {"drop", "start", "launch"}
  PROVE  Standing'
<1>1. << >> \in Seq(Ids) /\ Len(<< >>) = 0
  OBVIOUS
<1>2. ASSUME NEW lines, NEW n PROVE Points([k \in 1..0 |-> 0], lines, n, << >>, 1)
  <2>1. [k \in 1..0 |-> 0] \in [1..0 -> 1..n]
    OBVIOUS
  <2> QED
    BY <1>1, <2>1 DEF Points
<1>3. ASSUME NEW lines, NEW n PROVE \E pos : Points(pos, lines, n, << >>, 1)
  BY <1>2
<1>4. \E pos : Points(pos, file', Len(file'), << >>, 1)
  BY <1>3
<1> QED
  BY <1>1, <1>4 DEF Standing

\* Marking the first line of the head keeps the lines of what is behind it.
LEMMA StandingMarked ==
  ASSUME NEW lines \in Seq(Line), NEW ids \in Seq(Ids), ids # << >>,
         NEW from \in {1, 2}, NEW pos, Points(pos, lines, Len(lines), ids, from),
         NEW new, NEW status \in Statuses,
         new = lines \/ new = SetFirst(lines, Head(ids), status)
  PROVE  \E p : Points(p, new, Len(new), Tail(ids), 1)
<1>1. CASE new = lines
  BY <1>1, PointsRest
<1>2. CASE new = SetFirst(lines, Head(ids), status)
  <2>1. Len(new) = Len(lines) /\ Points(pos, new, Len(new), ids, 2)
    BY <1>2, PointsMarked
  <2>2. 2 \in {1, 2}
    OBVIOUS
  <2> QED
    BY <2>1, <2>2, PointsRest
<1> QED
  BY <1>1, <1>2

\* The places of a tick's spawning.
Spawning == {"spawn", "drop", "start", "launch"}

\* Before the first tick there is nothing to spawn, and nothing is recorded.
LEMMA BoardInvInit == Init => BoardInv
<1> SUFFICES ASSUME Init PROVE BoardInv
  OBVIOUS
<1>1. << >> \in Seq(Ids) /\ Len(<< >>) = 0 /\ todo = << >> /\ pc = "tick"
  BY DEF Init
<1>2. Points([k \in 1..0 |-> 0], file, Len(file), << >>, 1)
  <2>1. [k \in 1..0 |-> 0] \in [1..0 -> 1..Len(file)]
    OBVIOUS
  <2> QED
    BY <1>1, <2>1 DEF Points
<1>3. Standing
  BY <1>1, <1>2 DEF Standing
<1>4. Recorded
  BY DEF Init, Recorded, Busy
<1> QED
  BY <1>3, <1>4 DEF BoardInv

\* A command that does no harm saves its update of the file as it is, while the
\* orchestrator is not inside updateStatus.
LEMMA SaveIs ==
  ASSUME HonestInv, Undisturbed, ~harmed, ~harmed', UserSave
  PROVE  /\ pc \notin {"truncate", "write"} /\ known' = known \cup IdsIn(file')
         /\ \/ /\ \E b \in Bases :
                   <<b>> \in Ids /\ <<b>> \notin known /\ file' = Append(file, Pending(<<b>>))
               /\ UNCHANGED asked
            \/ \E id \in IdsIn(file) :
                 /\ id \in Ids /\ file' = SetFirst(file, id, "pending")
                 /\ asked' = [asked EXCEPT ![id] = @ + 1]
<1>1. lock = "user" /\ ~stale /\ pc \notin {"truncate", "write"}
  BY DEF UserSave
<1>2. loaded = file
  BY <1>1 DEF Undisturbed
<1>3. IdsIn(file) \subseteq Ids
  <2>1. \A i \in DOMAIN file : file[i] \in Line
    BY DEF HonestInv, Lists
  <2> QED
    BY <2>1 DEF IdsIn, Line
<1>4. \A b \in Bases : <<b>> \in Ids
  BY DEF Ids
<1> QED
  BY <1>1, <1>2, <1>3, <1>4 DEF UserSave, Replace

\* Its update keeps the lines of what is to be spawned.
LEMMA StandingSaved ==
  ASSUME file \in Seq(Line), Standing, UNCHANGED <<todo, pc>>,
         \/ \E id \in Ids : file' = Append(file, Pending(id))
         \/ \E id \in IdsIn(file) : file' = SetFirst(file, id, "pending")
  PROVE  Standing'
<1> DEFINE n == Len(file)
           from == IF pc = "launch" THEN 2 ELSE 1
<1>1. n \in Nat /\ DOMAIN file = 1..n
  OBVIOUS
<1>2. PICK pos : Points(pos, file, n, todo, from)
  BY DEF Standing
<1>3. /\ Len(file') \in Nat /\ n <= Len(file') /\ DOMAIN file' = 1..Len(file')
      /\ \A i \in 1..n :
           \/ file'[i] = file[i]
           \/ file'[i].id = file[i].id /\ file'[i].status = "pending"
  <2>1. CASE \E id \in Ids : file' = Append(file, Pending(id))
    BY <1>1, <2>1, PendingLine
  <2>2. CASE \E id \in IdsIn(file) : file' = SetFirst(file, id, "pending")
    <3>1. "pending" \in Statuses
      BY DEF Statuses
    <3> QED
      BY <1>1, <2>2, <3>1, SetFirstLines
  <2> QED
    BY <2>1, <2>2
<1> HIDE DEF n, from
<1>3a. 1..n \subseteq 1..Len(file')
  <2>1. n \in Nat /\ Len(file') \in Nat /\ n <= Len(file')
    BY <1>1, <1>3
  <2> DEFINE m == Len(file')
  <2> HIDE DEF m
  <2>2. 1..n \subseteq 1..m
    BY <2>1 DEF m
  <2> QED
    BY <2>2 DEF m
<1>4. Points(pos, file', Len(file'), todo, from)
  <2>1. \A k \in 1..Len(todo) : pos[k] \in 1..n
    BY <1>2 DEF Points
  <2>2. pos \in [1..Len(todo) -> 1..Len(file')]
    <3> DEFINE m == Len(file')
    <3>1. pos \in [1..Len(todo) -> 1..n]
      BY <1>2 DEF Points
    <3>2. 1..n \subseteq 1..m
      BY <1>3a
    <3> HIDE DEF m
    <3>3. pos \in [1..Len(todo) -> 1..m]
      BY <3>1, <3>2
    <3> QED
      BY <3>3 DEF m
  <2>3. \A k \in 1..Len(todo) : file'[pos[k]].id = todo[k]
    BY <1>2, <1>3, <2>1 DEF Points
  <2>4. \A k \in from..Len(todo) : k \in 1..Len(todo)
    BY DEF from
  <2>5. \A k \in from..Len(todo) : file'[pos[k]].status = "pending"
    BY <1>2, <1>3, <2>1, <2>4 DEF Points
  <2> QED
    BY <1>2, <2>2, <2>3, <2>5 DEF Points
<1>5. pc = "launch" =>
        \E i \in DOMAIN file' :
          file'[i].id = Head(todo) /\ file'[i].status \in {"pending", "running"}
  <2> SUFFICES ASSUME pc = "launch"
               PROVE  \E i \in 1..Len(file') :
                        file'[i].id = Head(todo) /\ file'[i].status \in {"pending", "running"}
    BY <1>3
  <2>1. PICK i \in 1..n : file[i].id = Head(todo) /\ file[i].status \in {"pending", "running"}
    BY <1>1 DEF Standing
  <2>2. i \in 1..Len(file')
    BY <1>3a
  <2> QED
    BY <1>3, <2>1, <2>2
<1> QED
  BY <1>4, <1>5 DEF Standing, from

\* What is to be spawned keeps its lines.
LEMMA StandingNext ==
  ASSUME HonestInv, Undisturbed, Standing, ~harmed, ~harmed', [Next]_vars
  PROVE  Standing'
<1> USE DEF orch, user, counters, deeds, mishaps
<1>0. /\ file \in Seq(Line) /\ todo \in Seq(Ids)
      /\ {"failed", "running"} \subseteq Statuses
  BY DEF HonestInv, Lists, Standing, Statuses
<1>1. ASSUME UNCHANGED <<file, todo, pc>> PROVE Standing'
  BY <1>1 DEF Standing
<1>2. ASSUME Exit PROVE Standing'
  BY <1>2, NothingStands DEF Exit, Goto
<1>3. ASSUME pc \notin Spawning, UNCHANGED todo, pc' \notin {"drop", "start", "launch"}
      PROVE  Standing'
  BY <1>3, NothingStands DEF Standing, Spawning
<1>4a. CASE ListPending /\ UNCHANGED todo
  BY <1>3, <1>4a DEF ListPending, Goto, Spawning
<1>4. CASE ListPending /\ todo' # todo
  <2>1. /\ todo' = PendingIds(file) /\ pc' = "spawn" /\ UNCHANGED file
    BY <1>4 DEF ListPending, Goto
  <2>2. todo' \in Seq(Ids) /\ \E pos : Points(pos, file', Len(file'), todo', 1)
    BY <1>0, <2>1, PendingIdsListed DEF ListedUpTo
  <2> QED
    BY <2>1, <2>2 DEF Standing
<1>5. CASE SpawnCheck
  <2>1. CASE pc' \in {"drop", "start"} /\ UNCHANGED <<file, todo>>
    BY <1>5, <2>1 DEF SpawnCheck, Standing
  <2> QED
    BY <1>2, <1>5, <2>1 DEF SpawnCheck, Goto
<1>6. CASE SpawnDrop
  <2>1. /\ todo # << >> /\ todo' = Tail(todo) /\ pc' = "spawn"
        /\ file' = file \/ file' = SetFirst(file, Head(todo), "failed")
    BY <1>6 DEF SpawnDrop, Goto, FailIfWorkable, Replace, Standing
  <2>2. PICK pos : Points(pos, file, Len(file), todo, 1)
    BY <1>6 DEF SpawnDrop, Standing
  <2>3. \E p : Points(p, file', Len(file'), todo', 1)
    BY <1>0, <2>1, <2>2, StandingMarked
  <2>4. todo' \in Seq(Ids)
    BY <1>0, <2>1
  <2> QED
    BY <2>1, <2>3, <2>4 DEF Standing
<1>7. CASE SpawnStart
  <2> DEFINE id == Head(todo)
  <2>1. CASE /\ id \in IdsIn(file) /\ file' = SetFirst(file, id, "running")
             /\ pc' = "launch" /\ UNCHANGED todo
    <3>1. todo # << >>
      BY <1>7 DEF SpawnStart, Standing
    <3>2. PICK pos : Points(pos, file, Len(file), todo, 1)
      BY <1>7 DEF SpawnStart, Standing
    <3>3. Points(pos, file', Len(file'), todo, 2)
      BY <1>0, <2>1, <3>1, <3>2, PointsMarked
    <3>4. \E i \in DOMAIN file' : file'[i].id = id /\ file'[i].status = "running"
      <4> DEFINE f == First(file, id)
      <4>1. f \in DOMAIN file /\ file[f].id = id /\ file[f] \in Line
        BY <1>0, <2>1, FirstIs
      <4>2. file' = [i \in DOMAIN file |->
                       IF i \in {f} THEN [file[i] EXCEPT !.status = "running"] ELSE file[i]]
        BY <1>0, <2>1, SetFirstIs
      <4> HIDE DEF f
      <4> QED
        BY <4>1, <4>2 DEF Line
    <3> QED
      BY <1>0, <2>1, <3>1, <3>3, <3>4 DEF Standing
  <2> QED
    BY <1>2, <1>7, <2>1 DEF SpawnStart, Workable, Goto, Replace
<1>8. CASE Launch
  <2>1. CASE todo' = Tail(todo) /\ pc' = "spawn" /\ UNCHANGED file
    <3>1. todo # << >>
      BY <1>8 DEF Launch, Standing
    <3>2. PICK pos : Points(pos, file, Len(file), todo, 2)
      BY <1>8 DEF Launch, Standing
    <3>3. \E p : Points(p, file', Len(file'), todo', 1)
      BY <1>0, <2>1, <3>1, <3>2, PointsRest
    <3>4. todo' \in Seq(Ids)
      BY <1>0, <2>1, <3>1
    <3> QED
      BY <2>1, <3>3, <3>4 DEF Standing
  <2> QED
    BY <1>2, <1>8, <2>1 DEF Launch, Goto
<1>9. CASE ReadResults
  BY <1>9, NothingStands DEF ReadResults, Goto
<1>10. CASE \E id \in Ids : ReadReport(id)
  BY <1>3, <1>10 DEF ReadReport, Goto, Spawning
<1>11. CASE TickDone \/ ReadQueue \/ Truncate \/ WriteVerdict
  BY <1>3, <1>11 DEF TickDone, ReadQueue, Truncate, WriteVerdict, Unrecorded, Goto, Spawning
<1>12. CASE Chain \/ RemoveResult \/ Restart
  BY <1>3, <1>12 DEF Chain, RemoveResult, Restart, Goto, Spawning
<1>13. CASE Crash
  BY <1>2, <1>13 DEF Crash
<1>14. CASE \E id \in Ids : WorkerReports(id) \/ WorkerDies(id)
  BY <1>1, <1>14 DEF WorkerReports, WorkerDies
<1>15. CASE UserLoad \/ UserReturn \/ UNCHANGED vars
  BY <1>1, <1>15 DEF UserLoad, UserReturn, vars
<1>16. CASE UserSave
  <2>1. UNCHANGED <<todo, pc>>
    BY <1>16 DEF UserSave
  <2> QED
    BY <1>0, <1>16, <2>1, SaveIs, StandingSaved
<1> QED
  BY <1>4, <1>4a, <1>5, <1>6, <1>7, <1>8, <1>9, <1>10, <1>11, <1>12, <1>13, <1>14, <1>15, <1>16
  DEF Next, Orchestrate

\* What is recorded was reported.
LEMMA RecordedNext ==
  ASSUME HonestInv, Counted, Standing, Recorded, [Next]_vars
  PROVE  Recorded'
<1> USE DEF orch, user, counters, deeds, mishaps
<1> DEFINE Known == IdsIn(file) \subseteq known
           Worked == \A id \in Ids : workers[id] > 0 => id \in known
           Resulted == \A id \in Ids :
                         results[id] # NoReport => <<id, results[id].verdict>> \in reported
           Read == pc \in Busy => <<cur, report.verdict>> \in reported
<1>0. /\ Standing /\ Known /\ Worked /\ Resulted /\ Read
      /\ results \in [Ids -> Reports \cup {NoReport}] /\ workers \in [Ids -> Nat]
      /\ file \in Seq(Line) /\ copy \in Seq(Line)
  BY DEF Recorded, HonestInv, Lists, Counted
<1>1. SUFFICES Known' /\ Worked' /\ Resulted' /\ Read'
  BY DEF Recorded
<1>2. known \subseteq known' /\ reported \subseteq reported'
  BY DEF Next, Orchestrate, ListPending, SpawnCheck, SpawnDrop, SpawnStart, Launch,
         ReadResults, ReadReport, TickDone, ReadQueue, Truncate, WriteVerdict, Chain,
         RemoveResult, Crash, Restart, WorkerReports, WorkerDies, UserLoad, UserSave,
         UserReturn, FailIfWorkable, WriteAll, WriteSome, AppendLine, LoseLine, Replace, vars
<1>3. Known'
  <2>1. CASE UNCHANGED file
    BY <1>0, <1>2, <2>1 DEF IdsIn
  <2>2. CASE file' = << >>
    BY <2>2 DEF IdsIn
  <2>3. CASE \E lines : Replace(lines)
    BY <2>3 DEF Replace
  <2> QED
    BY <2>1, <2>2, <2>3
    DEF Next, Orchestrate, ListPending, SpawnCheck, SpawnDrop, SpawnStart, Launch,
         ReadResults, ReadReport, TickDone, ReadQueue, Truncate, WriteVerdict, Chain,
         RemoveResult, Crash, Restart, WorkerReports, WorkerDies, UserLoad, UserSave,
         UserReturn, FailIfWorkable, WriteAll, WriteSome, AppendLine, LoseLine, vars
<1>4. Worked'
  <2>1. CASE UNCHANGED workers
    BY <1>0, <1>2, <2>1
  <2>2. ASSUME NEW id \in Ids, workers' = [workers EXCEPT ![id] = @ - 1], workers[id] > 0
        PROVE  Worked'
    BY <1>0, <1>2, <2>2
  <2>3. CASE Launch /\ workers' = [workers EXCEPT ![Head(todo)] = @ + 1]
    <3> DEFINE h == Head(todo)
    <3>1. h \in IdsIn(file)
      BY <1>0, <2>3 DEF Launch, Standing, IdsIn
    <3>2. \A id \in Ids : id # h => workers'[id] = workers[id]
      BY <1>0, <2>3
    <3> HIDE DEF h
    <3> QED
      BY <1>0, <1>2, <3>1, <3>2
  <2> QED
    BY <2>1, <2>2, <2>3
    DEF Next, Orchestrate, ListPending, SpawnCheck, SpawnDrop, SpawnStart, Launch,
         ReadResults, ReadReport, TickDone, ReadQueue, Truncate, WriteVerdict, Chain,
         RemoveResult, Crash, Restart, WorkerReports, WorkerDies, UserLoad, UserSave,
         UserReturn, vars
<1>5. Resulted'
  <2>1. CASE UNCHANGED results
    BY <1>0, <1>2, <2>1
  <2>2. ASSUME NEW id \in Ids, WorkerReports(id) PROVE Resulted'
    <3>1. PICK r \in Reports : /\ results' = [results EXCEPT ![id] = r]
                               /\ reported' = reported \cup {<<id, r.verdict>>}
      BY <2>2 DEF WorkerReports
    <3> QED
      BY <1>0, <1>2, <3>1
  <2>3. CASE RemoveResult
    BY <1>0, <1>2, <2>3 DEF RemoveResult
  <2> QED
    BY <2>1, <2>2, <2>3
    DEF Next, Orchestrate, ListPending, SpawnCheck, SpawnDrop, SpawnStart, Launch,
         ReadResults, ReadReport, TickDone, ReadQueue, Truncate, WriteVerdict, Chain,
         Crash, Restart, WorkerDies, UserLoad, UserSave, UserReturn, vars
<1>6. ASSUME pc' \notin Busy PROVE Read'
  BY <1>6 DEF Busy
<1>7. ASSUME UNCHANGED <<file, pc, cur, report>> PROVE Read'
  BY <1>0, <1>2, <1>7
<1>8. ASSUME ListPending \/ SpawnCheck \/ SpawnDrop \/ SpawnStart \/ Launch \/ ReadResults PROVE Read'
  BY <1>6, <1>8
  DEF ListPending, SpawnCheck, SpawnDrop, SpawnStart, Launch, ReadResults, Exit, Goto, Busy
<1>9. ASSUME TickDone \/ RemoveResult \/ Crash \/ Restart PROVE Read'
  BY <1>6, <1>9 DEF TickDone, RemoveResult, Crash, Restart, Exit, Goto, Busy
<1>10. ASSUME NEW id \in Ids, ReadReport(id) PROVE Read'
  <2>1. results[id] # NoReport
    BY <1>10 DEF ReadReport, HonestInv, Consuming
  <2>2. \/ cur' = id /\ report' = results[id] /\ UNCHANGED reported
        \/ pc' \notin Busy
    BY <1>10 DEF ReadReport, Busy
  <2> QED
    BY <1>0, <1>6, <2>1, <2>2
<1>11. ASSUME ReadQueue \/ Truncate PROVE Read'
  <2>1. pc \in Busy /\ UNCHANGED <<cur, report, reported>>
    BY <1>11 DEF ReadQueue, Truncate, Busy
  <2> QED
    BY <1>0, <2>1
<1>12. ASSUME WriteVerdict PROVE Read'
  BY <1>0, <1>12 DEF WriteVerdict, Goto, Busy
<1>13. ASSUME Chain PROVE Read'
  <2>1. report \in Reports /\ report.found # << >>
    BY <1>13 DEF Chain, HonestInv, Consuming
  <2>2. report'.verdict = report.verdict
    BY <1>13, <2>1, ReportTaken DEF Chain
  <2> QED
    BY <1>0, <1>13, <2>2 DEF Chain, Busy
<1>14. ASSUME NEW id \in Ids, WorkerReports(id) \/ WorkerDies(id) PROVE Read'
  BY <1>0, <1>2, <1>14 DEF WorkerReports, WorkerDies
<1>15. ASSUME UserLoad \/ UserReturn \/ UNCHANGED vars PROVE Read'
  BY <1>0, <1>2, <1>15 DEF UserLoad, UserReturn, vars
<1>16. ASSUME UserSave PROVE Read'
  BY <1>0, <1>16 DEF UserSave
<1>17. Read'
  BY <1>7, <1>8, <1>9, <1>10, <1>11, <1>12, <1>13, <1>14, <1>15, <1>16 DEF Next, Orchestrate
<1> QED
  BY <1>3, <1>4, <1>5, <1>17

\* Until the file is harmed, both hold.
LEMMA BoardInvNext ==
  ASSUME HonestInv, Counted, Undisturbed, BoardInv, [Next]_vars
  PROVE  BoardInv'
<1>1. ~harmed' => ~harmed
  BY HarmStays
<1> QED
  BY <1>1, StandingNext, RecordedNext DEF BoardInv

\* The board, as Hunt's instance of TaskBoard has it.
Board == IF pc = "write" /\ ~unlinked THEN copy ELSE file

\* Appending a line for a task that is not on it is the user's addition.
LEMMA IsAdd ==
  ASSUME NEW b \in Bases, <<b>> \notin IdsIn(Board), UNCHANGED reported,
         Board' = Append(Board, Pending(<<b>>))
  PROVE  TB!Move
<1>1. TB!Add(b)
  BY DEF Board, IdsIn, Pending, TB!Add, TB!Places, TB!Put
<1> QED
  BY <1>1 DEF TB!Move

\* Marking a task's first line is marking one of its places.
LEMMA IsMarkOne ==
  ASSUME Board \in Seq(Line), NEW id \in IdsIn(Board), NEW status,
         Board' = SetFirst(Board, id, status)
  PROVE  TB!MarkOne(id, status)
<1> DEFINE k == First(Board, id)
<1>1. k \in DOMAIN Board /\ Board[k].id = id
  BY FirstIs
<1>2. Board' = [i \in DOMAIN Board |-> IF i \in {k} THEN [Board[i] EXCEPT !.status = status]
                                                    ELSE Board[i]]
  BY SetFirstIs
<1> HIDE DEF k
<1>3. k \in TB!Places(id)
  BY <1>1 DEF Board, TB!Places
<1>4. TB!Mark({k}, status)
  BY <1>2 DEF Board, TB!Mark
<1> QED
  BY <1>3, <1>4 DEF TB!MarkOne

\* A line of a task with some status is the task having it.
LEMMA IsHas ==
  ASSUME NEW id, NEW statuses, NEW i \in DOMAIN Board, Board[i].id = id,
         Board[i].status \in statuses
  PROVE  TB!Has(id, statuses)
BY DEF Board, TB!Has, TB!Places

\* So the three ways of marking a task are moves.
LEMMA IsMoveOfOne ==
  ASSUME Board \in Seq(Line), NEW id \in IdsIn(Board), NEW status,
         Board' = SetFirst(Board, id, status), UNCHANGED reported,
         \/ status = "pending"
         \/ status = "running" /\ TB!Has(id, {"pending"})
         \/ status = "failed" /\ TB!Has(id, {"pending", "running"})
  PROVE  TB!Move
<1>1. TB!MarkOne(id, status)
  BY IsMarkOne
<1>2. id \in TB!Ids
  <2>1. PICK i \in DOMAIN Board : id = Board[i].id /\ Board[i] \in Line
    BY DEF IdsIn
  <2> QED
    BY <2>1 DEF Line, Ids, TB!Ids
<1>3. TB!Retry(id) \/ TB!Spawn(id) \/ TB!GiveUp(id)
  BY <1>1 DEF TB!Retry, TB!Spawn, TB!GiveUp
<1> QED
  BY <1>2, <1>3 DEF TB!Move

\* Marking all its lines with what was reported is one too, ...
LEMMA IsSettle ==
  ASSUME NEW id \in Ids, NEW verdict \in {"done", "failed"}, <<id, verdict>> \in reported,
         Board' = SetAll(Board, id, verdict), UNCHANGED reported
  PROVE  TB!Move
<1>1. TB!Settle(id, verdict)
  <2>1. \A i \in DOMAIN Board : i \in TB!Places(id) <=> Board[i].id = id
    BY DEF Board, TB!Places
  <2>2. TB!Mark(TB!Places(id), verdict)
    BY <2>1 DEF Board, SetAll, TB!Mark
  <2> QED
    BY <2>2 DEF TB!Settle
<1>2. id \in TB!Ids
  BY DEF Ids, TB!Ids
<1> QED
  BY <1>1, <1>2 DEF TB!Move

\* ... and so is adding a finding of a task that is reported as done.
LEMMA IsAddFinding ==
  ASSUME NEW b \in Bases, NEW t \in Targets, <<<<b>>, "done">> \in reported,
         Board' = Append(Board, Pending(<<b, t>>)), UNCHANGED reported
  PROVE  TB!Move
<1>1. TB!AddFinding(b, t)
  BY DEF Board, Pending, TB!AddFinding, TB!Put
<1> QED
  BY <1>1 DEF TB!Move

\* A worker's report is a move of what was reported.
LEMMA IsReport ==
  ASSUME NEW id \in IdsIn(Board), id \in Ids, NEW verdict \in {"done", "failed"},
         reported' = reported \cup {<<id, verdict>>}, UNCHANGED Board
  PROVE  TB!Move
<1>1. TB!Places(id) # {}
  BY DEF Board, IdsIn, TB!Places
<1>2. TB!Report(id, verdict)
  BY <1>1 DEF Board, TB!Report
<1>3. id \in TB!Ids
  BY DEF Ids, TB!Ids
<1> QED
  BY <1>2, <1>3 DEF TB!Move

\* Every step that does no harm is a move, or leaves the board and the reports alone.
LEMMA StepsAreMoves ==
  ASSUME HonestInv, Undisturbed, BoardInv, [Next]_vars, ~harmed'
  PROVE  [TB!Move]_TB!boardVars
<1> USE DEF orch, user, counters, deeds, mishaps
<1>a. ~harmed
  BY HarmStays
<1>0. /\ file \in Seq(Line) /\ copy \in Seq(Line) /\ todo \in Seq(Ids)
      /\ known \subseteq IdsIn(Board) /\ ~unlinked
      /\ pc # "write" => Board = file
      /\ pc = "write" => Board = copy
      /\ Board \in Seq(Line)
      /\ Standing /\ Recorded
  BY <1>a DEF HonestInv, Lists, BoardInv, Standing, Undisturbed, Board
<1>1. ASSUME UNCHANGED <<Board, reported>> PROVE [TB!Move]_TB!boardVars
  BY <1>1 DEF Board, TB!boardVars
<1>2. ASSUME UNCHANGED <<file, reported>>, pc # "write", pc' # "write"
      PROVE  [TB!Move]_TB!boardVars
  BY <1>1, <1>2 DEF Board
<1>3. ASSUME UNCHANGED <<file, reported, pc, copy, unlinked>>
      PROVE  [TB!Move]_TB!boardVars
  BY <1>1, <1>3 DEF Board
<1>4. ASSUME NEW id, FailIfWorkable(id), UNCHANGED reported, pc # "write", pc' # "write",
             id \in IdsIn(file) => TB!Has(id, {"pending", "running"})
      PROVE  [TB!Move]_TB!boardVars
  <2>1. CASE UNCHANGED file
    BY <1>2, <1>4, <2>1
  <2>2. CASE id \in IdsIn(file) /\ file' = SetFirst(file, id, "failed")
    <3>1. Board' = file' /\ Board = file
      BY <1>0, <1>4 DEF Board
    <3> QED
      BY <1>0, <1>4, <2>2, <3>1, IsMoveOfOne
  <2> QED
    BY <1>4, <2>1, <2>2 DEF FailIfWorkable, Workable, Replace
<1>5. ASSUME pc \in {"drop", "start"}
      PROVE  TB!Has(Head(todo), {"pending"}) /\ TB!Has(Head(todo), {"pending", "running"})
  <2>1. PICK pos : Points(pos, file, Len(file), todo, 1)
    BY <1>0, <1>5 DEF Standing
  <2>2. 1 \in 1..Len(todo) /\ todo[1] = Head(todo)
    BY <1>0, <1>5 DEF Standing
  <2>3. pos[1] \in DOMAIN file /\ file[pos[1]].id = Head(todo) /\ file[pos[1]].status = "pending"
    BY <1>0, <2>1, <2>2 DEF Points
  <2> QED
    BY <1>0, <1>5, <2>3, IsHas
<1>6. CASE ListPending \/ SpawnCheck \/ ReadResults \/ TickDone \/ ReadQueue \/ RemoveResult
  BY <1>2, <1>6
  DEF ListPending, SpawnCheck, ReadResults, TickDone, ReadQueue, RemoveResult, Unrecorded,
      Exit, Goto
<1>7. CASE \E id \in Ids : ReadReport(id)
  BY <1>2, <1>7 DEF ReadReport, Goto
<1>8. CASE SpawnDrop
  BY <1>4, <1>5, <1>8 DEF SpawnDrop, Goto
<1>9. CASE SpawnStart
  <2> DEFINE id == Head(todo)
  <2>1. CASE UNCHANGED file
    BY <1>2, <1>9, <2>1 DEF SpawnStart, Exit, Goto
  <2>2. CASE id \in IdsIn(file) /\ file' = SetFirst(file, id, "running")
    <3>1. Board = file /\ Board' = file' /\ UNCHANGED reported
      BY <1>0, <1>9 DEF SpawnStart, Exit, Goto, Board
    <3>2. TB!Has(id, {"pending"})
      BY <1>5, <1>9 DEF SpawnStart
    <3> HIDE DEF id
    <3> QED
      BY <1>0, <2>2, <3>1, <3>2, IsMoveOfOne
  <2> QED
    BY <1>9, <2>1, <2>2 DEF SpawnStart, Workable, Replace
<1>10. CASE Launch
  <2>1. pc = "launch" /\ pc' # "write" /\ UNCHANGED reported
    BY <1>10 DEF Launch, Exit, Goto
  <2>2. CASE UNCHANGED file
    BY <1>2, <2>1, <2>2
  <2>3. CASE FailIfWorkable(Head(todo))
    <3>1. PICK i \in DOMAIN file : file[i].id = Head(todo) /\ file[i].status \in {"pending", "running"}
      BY <1>0, <2>1 DEF Standing
    <3>2. TB!Has(Head(todo), {"pending", "running"})
      BY <1>0, <2>1, <3>1, IsHas
    <3> QED
      BY <1>4, <2>1, <2>3, <3>2
  <2> QED
    BY <1>10, <2>2, <2>3 DEF Launch
<1>11. CASE Truncate /\ pc' = "chain"
  BY <1>2, <1>11 DEF Truncate, Unrecorded, Goto
<1>11a. CASE Truncate /\ pc' = "write"
  <2>1. Board' = copy /\ copy = file /\ Board = file /\ UNCHANGED reported
    BY <1>0, <1>a, <1>11a DEF Truncate, Unrecorded, Goto, Undisturbed, Board
  <2> QED
    BY <1>1, <2>1
<1>11b. Truncate => pc' \in {"chain", "write"}
  BY DEF Truncate, Unrecorded, Goto
<1>12. CASE WriteVerdict
  <2>1. /\ Board = copy /\ Board' = file' /\ file' = SetAll(copy, cur, report.verdict)
        /\ UNCHANGED reported /\ pc = "write"
    BY <1>0, <1>12 DEF WriteVerdict, WriteAll, WriteSome, Replace, Goto, Board
  <2>2. cur \in Ids /\ report.verdict \in {"done", "failed"}
    BY <2>1 DEF HonestInv, Consuming, Reports
  <2>3. <<cur, report.verdict>> \in reported
    BY <1>0, <2>1 DEF Recorded, Busy
  <2> QED
    BY <2>1, <2>2, <2>3, IsSettle
<1>13. CASE Chain
  <2> DEFINE t == Head(report.found)
  <2>1. cur \in Ids /\ IsBase(cur) /\ report \in Reports /\ report.found # << >>
    BY <1>13 DEF Chain, HonestInv, Consuming
  <2>2. cur[1] \in Bases /\ cur = <<cur[1]>>
    BY <2>1 DEF Ids, IsBase
  <2>3. t \in Targets
    BY <2>1, ReportTaken
  <2>4. report.verdict = "done"
    BY <2>1 DEF Reports
  <2>5. pc = "chain" /\ pc' = "chain" /\ UNCHANGED reported
    BY <1>13 DEF Chain
  <2>6. <<cur, "done">> \in reported
    BY <1>0, <2>4, <2>5 DEF Recorded, Busy
  <2>7. CASE LoseLine
    BY <1>2, <2>5, <2>7 DEF LoseLine
  <2>8. CASE AppendLine(<<cur[1], t>>)
    <3>1. Board = file /\ Board' = file' /\ file' = Append(file, Pending(<<cur[1], t>>))
      BY <1>0, <2>5, <2>8 DEF AppendLine, Replace, Board
    <3> DEFINE b == cur[1]
    <3>2. /\ b \in Bases /\ <<<<b>>, "done">> \in reported
          /\ Board' = Append(Board, Pending(<<b, t>>))
      BY <2>2, <2>6, <3>1
    <3> HIDE DEF b, t
    <3> QED
      BY <2>3, <2>5, <3>2, IsAddFinding
  <2> QED
    BY <1>13, <2>7, <2>8 DEF Chain
<1>14. CASE Crash
  <2>1. pc # "write"
    BY <1>14 DEF Crash
  <2>2. UNCHANGED <<file, reported>> /\ pc' # "write"
    BY <1>14 DEF Crash, Exit, Goto
  <2> QED
    BY <1>2, <2>1, <2>2
<1>15. CASE Restart
  BY <1>2, <1>15 DEF Restart, Goto
<1>16. ASSUME NEW id \in Ids, WorkerReports(id) PROVE [TB!Move]_TB!boardVars
  <2>1. PICK r \in Reports : reported' = reported \cup {<<id, r.verdict>>}
    BY <1>16 DEF WorkerReports
  <2>2. r.verdict \in {"done", "failed"}
    BY DEF Reports
  <2>3. id \in IdsIn(Board)
    BY <1>0, <1>16 DEF WorkerReports, Recorded
  <2>4. UNCHANGED Board
    BY <1>16 DEF WorkerReports, Board
  <2> QED
    BY <2>1, <2>2, <2>3, <2>4, IsReport
<1>17. ASSUME NEW id \in Ids, WorkerDies(id) PROVE [TB!Move]_TB!boardVars
  BY <1>3, <1>17 DEF WorkerDies
<1>18. CASE UserLoad \/ UserReturn \/ UNCHANGED vars
  BY <1>3, <1>18 DEF UserLoad, UserReturn, vars
<1>19. CASE UserSave
  <2>1. pc \notin {"truncate", "write"} /\ pc' = pc /\ UNCHANGED reported
    BY <1>a, <1>19, SaveIs DEF UserSave
  <2>2. Board = file /\ Board' = file'
    BY <1>0, <2>1 DEF Board
  <2>3. CASE \E b \in Bases : <<b>> \notin known /\ file' = Append(file, Pending(<<b>>))
    <3>1. PICK b \in Bases : <<b>> \notin known /\ file' = Append(file, Pending(<<b>>))
      BY <2>3
    <3>2. <<b>> \notin IdsIn(Board)
      BY <1>0, <2>2, <3>1 DEF Recorded
    <3> QED
      BY <2>1, <2>2, <3>1, <3>2, IsAdd
  <2>4. CASE \E id \in IdsIn(file) : file' = SetFirst(file, id, "pending")
    <3>1. PICK id \in IdsIn(file) : file' = SetFirst(file, id, "pending")
      BY <2>4
    <3> QED
      BY <1>0, <2>1, <2>2, <3>1, IsMoveOfOne
  <2> QED
    BY <1>a, <1>19, <2>3, <2>4, SaveIs
<1> QED
  BY <1>6, <1>7, <1>8, <1>9, <1>10, <1>11, <1>11a, <1>11b, <1>12, <1>13, <1>14, <1>15, <1>16,
     <1>17, <1>18, <1>19
  DEF Next, Orchestrate

\* "No data loss" (docs/distributed-hunt.md:279) in full, for any tasks and findings and any
\* number of crashes, failures, launches and commands, run beside the loop in any order:
\* until the file is harmed (HuntLosesNoTask says how), every rewriting of it is one move
\* of one task (of all its lines, when its verdict is recorded), which leaves the others as
\* they are; a task is given to a worker only when it is pending, takes a verdict only when
\* a worker has reported it, and a finding is added only when the task that made it is
\* reported as done. The three steps of updateStatus (orchestrator.go:175) are one.
THEOREM HuntMovesAreAtomic == Spec => MovesAreAtomic
<1>1. Init => Undisturbed /\ Counted
  BY DEF Init, Undisturbed, Counted, Busy
<1>2. Init => TB!BoardInit
  <2> SUFFICES ASSUME Init PROVE TB!BoardInit
    OBVIOUS
  <2>1. \A i \in DOMAIN file : file[i].status = "pending"
    BY DEF Init, Pending
  <2> QED
    BY <2>1 DEF Init, TB!BoardInit
<1>3. HonestInv /\ Undisturbed /\ BoardInv /\ [Next]_vars => [harmed' \/ TB!Move]_TB!boardVars
  BY StepsAreMoves
<1> QED
  BY <1>1, <1>2, <1>3, BoardInvInit, BoardInvNext, HonestInit, HonestNext, CountedNext,
     UndisturbedNext, PTL DEF Spec, MovesAreAtomic
----------------------------------------------------------------------------
(* A task gets a worker once for each time it was put up for work.         *)

\* A task has at most one of the lines; one of its lines is pending.
OneLine(lines, id) == \A i, j \in DOMAIN lines : lines[i].id = id /\ lines[j].id = id => i = j
IsPending(lines, id) == \E i \in DOMAIN lines : lines[i].id = id /\ lines[i].status = "pending"

\* A task with a pending line has been put up for work once more than it was started; so
\* has the one that is about to be launched, not counting a retry since it was marked as
\* running, which is still to be served.
AsAsked(id) ==
  /\ OneLine(Board, id)
  /\ starts[id] <= asked[id]
  /\ IsPending(Board, id) => starts[id] < asked[id]
  /\ pc = "launch" /\ Head(todo) = id =>
       /\ starts[id] < asked[id]
       /\ IsPending(Board, id) => starts[id] + 1 < asked[id]

Worked ==
  /\ \A id \in Ids : asked[id] > 0 /\ (id \notin known => starts[id] = 0)
  /\ \A id \in Ids \ doubled : AsAsked(id)

\* No line of the task becomes pending.
NoneAsked(new, lines, id) ==
  /\ DOMAIN new = DOMAIN lines
  /\ \A i \in DOMAIN lines :
       /\ new[i].id = lines[i].id
       /\ new[i].id = id /\ new[i].status = "pending" => lines[i].status = "pending"

\* Then nothing changes for the task, ...
LEMMA AskedSame ==
  ASSUME NEW id, AsAsked(id), NoneAsked(Board', Board, id), UNCHANGED <<starts, asked>>,
         pc' # "launch" \/ UNCHANGED <<pc, todo>>
  PROVE  AsAsked(id)'
<1> DEFINE old == Board
           new == Board'
<1>1. /\ OneLine(old, id) /\ starts[id] <= asked[id]
      /\ IsPending(old, id) => starts[id] < asked[id]
      /\ pc = "launch" /\ Head(todo) = id =>
           /\ starts[id] < asked[id]
           /\ IsPending(old, id) => starts[id] + 1 < asked[id]
  BY DEF AsAsked
<1>2. NoneAsked(new, old, id)
  OBVIOUS
<1> HIDE DEF old, new
<1>3. OneLine(new, id)
  BY <1>1, <1>2 DEF OneLine, NoneAsked
<1>4. IsPending(new, id) => IsPending(old, id)
  BY <1>2 DEF IsPending, NoneAsked
<1>5. /\ OneLine(Board, id)' /\ (IsPending(Board, id)' => IsPending(old, id))
  BY <1>3, <1>4 DEF new, OneLine, IsPending
<1> QED
  BY <1>1, <1>5 DEF AsAsked

\* ... as when its first line, or any other, is marked with another status, ...
LEMMA NoneAskedMarked ==
  ASSUME NEW lines \in Seq(Line), NEW id, NEW other, NEW status \in Statuses, status # "pending"
  PROVE  /\ NoneAsked(lines, lines, id)
         /\ NoneAsked(SetFirst(lines, other, status), lines, id)
         /\ NoneAsked(SetAll(lines, other, status), lines, id)
<1>1. NoneAsked(lines, lines, id)
  BY DEF NoneAsked
<1>2. NoneAsked(SetFirst(lines, other, status), lines, id)
  BY SetFirstLines DEF NoneAsked
<1>3. NoneAsked(SetAll(lines, other, status), lines, id)
  BY SetAllLines DEF NoneAsked
<1> QED
  BY <1>1, <1>2, <1>3

\* ... or a line of another task is appended.
LEMMA AskedAppended ==
  ASSUME Board \in Seq(Line), NEW n \in Ids, Board' = Append(Board, Pending(n)),
         NEW id, id # n, AsAsked(id), UNCHANGED <<starts, asked, pc, todo>>
  PROVE  AsAsked(id)'
<1> DEFINE old == Board
           new == Board'
           k == Len(Board) + 1
<1>1. /\ OneLine(old, id) /\ starts[id] <= asked[id]
      /\ IsPending(old, id) => starts[id] < asked[id]
      /\ pc = "launch" /\ Head(todo) = id =>
           /\ starts[id] < asked[id]
           /\ IsPending(old, id) => starts[id] + 1 < asked[id]
  BY DEF AsAsked
<1>2. /\ DOMAIN new = DOMAIN old \cup {k} /\ new[k] = Pending(n)
      /\ \A i \in DOMAIN old : new[i] = old[i]
  BY PendingLine
<1>3. new[k].id # id
  BY <1>2 DEF Pending
<1> HIDE DEF old, new, k
<1>4. OneLine(new, id) /\ (IsPending(new, id) => IsPending(old, id))
  BY <1>1, <1>2, <1>3 DEF OneLine, IsPending
<1>5. /\ OneLine(Board, id)' /\ (IsPending(Board, id)' => IsPending(old, id))
  BY <1>4 DEF new, OneLine, IsPending
<1> QED
  BY <1>1, <1>5 DEF AsAsked

\* A task that comes to the queue for the first time has one line, and no worker yet.
LEMMA AskedFirst ==
  ASSUME Board \in Seq(Line), NEW id \in Ids, Board' = Append(Board, Pending(id)),
         id \notin IdsIn(Board), starts'[id] = 0, asked'[id] \in Nat, asked'[id] > 0,
         pc' = "launch" => Head(todo') # id
  PROVE  AsAsked(id)'
<1> DEFINE old == Board
           new == Board'
           k == Len(Board) + 1
<1>1. DOMAIN new = DOMAIN old \cup {k} /\ \A i \in DOMAIN old : new[i] = old[i]
  BY PendingLine
<1>2. \A i \in DOMAIN old : old[i].id # id
  BY DEF IdsIn
<1> HIDE DEF old, new, k
<1>3. OneLine(new, id)
  BY <1>1, <1>2 DEF OneLine
<1>4. OneLine(Board, id)'
  BY <1>3 DEF new, OneLine
<1> QED
  BY <1>4 DEF AsAsked

\* Before the first step, every task has been put up for work once.
LEMMA WorkedInit == Init => Worked
<1> SUFFICES ASSUME Init PROVE Worked
  OBVIOUS
<1>1. /\ starts = [id \in Ids |-> 0] /\ asked = [id \in Ids |-> 1] /\ pc = "tick"
      /\ Board = file
  BY DEF Init, Board
<1>2. /\ DOMAIN file = DOMAIN InitialTasks
      /\ \A i \in DOMAIN file : file[i].id = <<InitialTasks[i]>>
  BY DEF Init, Pending
<1>3. ASSUME NEW id PROVE OneLine(Board, id)
  <2>1. \A i, j \in DOMAIN file : file[i].id = file[j].id => i = j
    BY <1>2, HuntAssumption
  <2> QED
    BY <1>1, <2>1 DEF OneLine
<1> QED
  BY <1>1, <1>3 DEF Worked, AsAsked

\* Marking the only line of a task as running leaves it without a pending one.
LEMMA MarkedRunning ==
  ASSUME NEW lines \in Seq(Line), NEW id \in IdsIn(lines), OneLine(lines, id)
  PROVE  /\ OneLine(SetFirst(lines, id, "running"), id)
         /\ ~IsPending(SetFirst(lines, id, "running"), id)
<1> DEFINE f == First(lines, id)
           new == SetFirst(lines, id, "running")
<1>1. f \in DOMAIN lines /\ lines[f].id = id /\ lines[f] \in Line
  BY FirstIs
<1>2. new = [i \in DOMAIN lines |->
               IF i \in {f} THEN [lines[i] EXCEPT !.status = "running"] ELSE lines[i]]
  BY SetFirstIs
<1> HIDE DEF new, f
<1>3. \A i \in DOMAIN new : new[i].id = id => i = f
  BY <1>1, <1>2 DEF OneLine, Line
<1>4. new[f].status = "running"
  BY <1>1, <1>2 DEF Line
<1>5. OneLine(new, id) /\ ~IsPending(new, id)
  BY <1>3, <1>4 DEF OneLine, IsPending
<1> QED
  BY <1>5 DEF new

\* Every step that does no harm keeps the balance.
LEMMA WorkedNext ==
  ASSUME HonestInv, Counted, MishapTypes, Undisturbed, Standing, Recorded, Worked,
         ~harmed, ~harmed', [Next]_vars
  PROVE  Worked'
<1> USE DEF orch, user, counters, deeds, mishaps
<1>0. /\ file \in Seq(Line) /\ copy \in Seq(Line) /\ Board \in Seq(Line)
      /\ starts \in [Ids -> Nat] /\ asked \in [Ids -> Nat]
      /\ IdsIn(file) \subseteq known /\ ~unlinked
      /\ pc # "write" => Board = file
      /\ {"failed", "running", "done"} \subseteq Statuses
  BY DEF HonestInv, Lists, Counted, MishapTypes, Recorded, Undisturbed, Board, Statuses
<1>b. \A id \in Ids : asked[id] > 0 /\ (id \notin known => starts[id] = 0)
  BY DEF Worked
<1>1. ASSUME UNCHANGED <<starts, asked>>, pc' # "launch" \/ UNCHANGED <<pc, todo>>,
             doubled \subseteq doubled', known \subseteq known',
             \A id : NoneAsked(Board', Board, id)
      PROVE  Worked'
  <2>1. \A id \in Ids \ doubled' : AsAsked(id)'
    BY <1>1, AskedSame DEF Worked
  <2> QED
    BY <1>1, <1>b, <2>1 DEF Worked
<1>2. ASSUME UNCHANGED <<starts, asked, Board, doubled>>, known \subseteq known',
             pc' # "launch" \/ UNCHANGED <<pc, todo>>
      PROVE  Worked'
  BY <1>1, <1>2 DEF NoneAsked
<1>3. ASSUME UNCHANGED <<starts, asked, file, doubled, known>>, pc # "write",
             pc' \notin {"write", "launch"}
      PROVE  Worked'
  <2>1. UNCHANGED Board
    BY <1>3 DEF Board
  <2> QED
    BY <1>2, <1>3, <2>1
<1>4. ASSUME NEW id, FailIfWorkable(id), UNCHANGED <<starts, asked, doubled>>, pc # "write",
             pc' \notin {"write", "launch"}
      PROVE  Worked'
  <2>1. CASE UNCHANGED <<file, known>>
    BY <1>3, <1>4, <2>1
  <2>2. CASE Replace(SetFirst(file, id, "failed"))
    <3>1. Board = file /\ Board' = SetFirst(file, id, "failed") /\ known \subseteq known'
      BY <1>0, <1>4, <2>2 DEF Board, Replace
    <3>2. \A x : NoneAsked(Board', Board, x)
      BY <1>0, <3>1, NoneAskedMarked
    <3> QED
      BY <1>1, <1>4, <3>1, <3>2
  <2> QED
    BY <1>4, <2>1, <2>2 DEF FailIfWorkable
<1>5. CASE ListPending \/ SpawnCheck \/ ReadResults \/ TickDone \/ ReadQueue \/ RemoveResult
  BY <1>3, <1>5
  DEF ListPending, SpawnCheck, ReadResults, TickDone, ReadQueue, RemoveResult, Unrecorded,
      Exit, Goto
<1>6. CASE \E id \in Ids : ReadReport(id)
  BY <1>3, <1>6 DEF ReadReport, Goto
<1>7. CASE SpawnDrop
  BY <1>4, <1>7 DEF SpawnDrop, Goto
<1>8. CASE SpawnStart
  <2> DEFINE h == Head(todo)
  <2>1. CASE UNCHANGED <<file, known>>  /\ pc' # "launch"
    BY <1>3, <1>8, <2>1 DEF SpawnStart, Exit, Goto
  <2>2. CASE /\ h \in IdsIn(file) /\ Replace(SetFirst(file, h, "running"))
             /\ pc' = "launch" /\ UNCHANGED todo
    <3> DEFINE new == SetFirst(file, h, "running")
    <3>1. Board = file /\ Board' = new /\ known \subseteq known' /\ pc = "start"
          /\ UNCHANGED <<starts, asked, doubled>>
      BY <1>0, <1>8, <2>2 DEF SpawnStart, Board, Replace
    <3>2. ASSUME NEW id, AsAsked(id), id # h PROVE AsAsked(id)'
      <4>1. /\ OneLine(file, id) /\ starts[id] <= asked[id]
            /\ IsPending(file, id) => starts[id] < asked[id]
        BY <1>0, <3>1, <3>2 DEF AsAsked
      <4>2. NoneAsked(new, file, id)
        BY <1>0, NoneAskedMarked
      <4> HIDE DEF new
      <4>3. OneLine(new, id) /\ (IsPending(new, id) => IsPending(file, id))
        BY <4>1, <4>2 DEF OneLine, IsPending, NoneAsked
      <4>4. /\ OneLine(Board, id)' /\ (IsPending(Board, id)' => IsPending(file, id))
        BY <3>1, <4>3 DEF OneLine, IsPending
      <4> QED
        BY <2>2, <3>1, <3>2, <4>1, <4>4 DEF AsAsked
    <3>3. ASSUME NEW id, AsAsked(id), id = h PROVE AsAsked(id)'
      <4>1. IsPending(file, id)
        <5>1. PICK pos : Points(pos, file, Len(file), todo, 1)
          BY <3>1 DEF Standing
        <5>2. todo \in Seq(Ids) /\ todo # << >>
          BY <3>1 DEF Standing
        <5>3. 1 \in 1..Len(todo) /\ todo[1] = id
          BY <3>3, <5>2
        <5>4. pos[1] \in DOMAIN file
          <6>1. pos[1] \in 1..Len(file)
            BY <5>1, <5>3 DEF Points
          <6>2. DOMAIN file = 1..Len(file)
            BY <1>0
          <6> QED
            BY <6>1, <6>2
        <5>5. file[pos[1]].id = id /\ file[pos[1]].status = "pending"
          BY <5>1, <5>3 DEF Points
        <5> QED
          BY <5>4, <5>5 DEF IsPending
      <4>2. OneLine(file, id) /\ starts[id] < asked[id] /\ starts[id] <= asked[id]
        BY <1>0, <3>1, <3>3, <4>1 DEF AsAsked
      <4>3. new = SetFirst(file, id, "running") /\ id \in IdsIn(file)
        BY <2>2, <3>3
      <4> HIDE DEF new, h
      <4>4. OneLine(new, id) /\ ~IsPending(new, id)
        BY <1>0, <4>2, <4>3, MarkedRunning
      <4>5. OneLine(Board, id)' /\ ~IsPending(Board, id)'
        BY <3>1, <4>4 DEF OneLine, IsPending
      <4> QED
        BY <3>1, <4>2, <4>5 DEF AsAsked
    <3> HIDE DEF new, h
    <3>4. \A id \in Ids \ doubled' : AsAsked(id)'
      <4>1. \A id \in Ids \ doubled' : AsAsked(id)
        BY <3>1 DEF Worked
      <4> QED
        BY <3>2, <3>3, <4>1
    <3> QED
      BY <1>b, <3>1, <3>4 DEF Worked
  <2> QED
    BY <1>8, <2>1, <2>2 DEF SpawnStart, Workable, Exit, Goto
<1>9. CASE Launch
  <2> DEFINE h == Head(todo)
  <2>1. CASE FailIfWorkable(h) /\ Exit /\ UNCHANGED <<workers, starts>>
    BY <1>4, <1>9, <2>1 DEF Launch, Exit, Goto
  <2>2. CASE /\ starts' = [starts EXCEPT ![h] = @ + 1]
             /\ pc' = "spawn" /\ UNCHANGED <<file, known, asked, doubled>>
    <3>1. Board = file /\ Board' = file /\ pc = "launch"
      BY <1>0, <1>9, <2>2 DEF Launch, Board
    <3>2. h \in IdsIn(file)
      BY <3>1 DEF Standing, IdsIn
    <3>3. \A id \in Ids : starts'[id] = IF id = h THEN starts[id] + 1 ELSE starts[id]
      BY <1>0, <2>2
    <3> HIDE DEF h
    <3>4. ASSUME NEW id \in Ids, AsAsked(id) PROVE AsAsked(id)'
      <4>1. /\ OneLine(file, id) /\ starts[id] <= asked[id]
            /\ IsPending(file, id) => starts[id] < asked[id]
            /\ h = id => /\ starts[id] < asked[id]
                         /\ IsPending(file, id) => starts[id] + 1 < asked[id]
        BY <3>1, <3>4 DEF AsAsked, h
      <4>2. /\ OneLine(Board, id)' /\ (IsPending(Board, id)' => IsPending(file, id))
        BY <3>1, <4>1 DEF OneLine, IsPending
      <4>3. starts[id] \in Nat /\ asked[id] \in Nat /\ asked'[id] = asked[id]
        BY <1>0, <2>2
      <4>4. /\ starts'[id] <= asked'[id]
            /\ IsPending(file, id) => starts'[id] < asked'[id]
        BY <3>3, <4>1, <4>3
      <4> QED
        BY <2>2, <4>2, <4>4 DEF AsAsked
    <3>5. \A id \in Ids \ doubled' : AsAsked(id)'
      BY <2>2, <3>4 DEF Worked
    <3>6. \A id \in Ids : asked'[id] > 0 /\ (id \notin known' => starts'[id] = 0)
      BY <1>0, <1>b, <2>2, <3>2, <3>3
    <3> QED
      BY <3>5, <3>6 DEF Worked
  <2> QED
    BY <1>9, <2>1, <2>2 DEF Launch, Goto
<1>10. CASE Truncate /\ pc' = "chain"
  BY <1>3, <1>10 DEF Truncate, Unrecorded, Goto
<1>11. CASE Truncate /\ pc' = "write"
  <2>1. Board' = copy /\ copy = file /\ Board = file /\ UNCHANGED <<starts, asked, doubled, known>>
    BY <1>0, <1>11 DEF Truncate, Unrecorded, Goto, Undisturbed, Board
  <2> QED
    BY <1>2, <1>11, <2>1
<1>12. Truncate => pc' \in {"chain", "write"}
  BY DEF Truncate, Unrecorded, Goto
<1>13. CASE WriteVerdict
  <2>1. /\ Board = copy /\ Board' = SetAll(copy, cur, report.verdict) /\ known \subseteq known'
        /\ UNCHANGED <<starts, asked, doubled>> /\ pc = "write" /\ pc' = "chain"
    BY <1>0, <1>13 DEF WriteVerdict, WriteAll, WriteSome, Replace, Goto, Board
  <2>2. report.verdict \in {"done", "failed"}
    BY <2>1 DEF HonestInv, Consuming, Reports
  <2>3. \A id : NoneAsked(Board', Board, id)
    BY <1>0, <2>1, <2>2, NoneAskedMarked
  <2> QED
    BY <1>1, <2>1, <2>3
<1>14. CASE Chain
  <2> DEFINE t == Head(report.found)
  <2>0. PICK n : n = <<cur[1], t>>
    OBVIOUS
  <2>1. cur \in Ids /\ report \in Reports /\ report.found # << >>
    BY <1>14 DEF Chain, HonestInv, Consuming
  <2>2. t \in Targets
    BY <2>1, ReportTaken
  <2>3. n \in Ids
    BY <2>0, <2>1, <2>2 DEF Ids
  <2>4. pc = "chain" /\ UNCHANGED <<pc, todo, starts, asked>>
    BY <1>14 DEF Chain
  <2>5. CASE LoseLine
    BY <1>3, <2>4, <2>5 DEF LoseLine
  <2>6. CASE AppendLine(n)
    <3> HIDE DEF t
    <3>1. /\ Board = file /\ Board' = Append(file, Pending(n)) /\ known \subseteq known'
          /\ doubled' = IF n \in known THEN doubled \cup {n} ELSE doubled
      BY <1>0, <2>4, <2>6 DEF AppendLine, Replace, Board
    <3>2. ASSUME NEW id \in Ids \ doubled', id # n PROVE AsAsked(id)'
      <4>1. AsAsked(id)
        BY <3>1, <3>2 DEF Worked
      <4> QED
        BY <1>0, <2>3, <2>4, <3>1, <3>2, <4>1, AskedAppended
    <3>3. ASSUME n \notin doubled' PROVE AsAsked(n)'
      <4>1. n \notin known
        BY <3>1, <3>3
      <4>2. n \notin IdsIn(Board) /\ starts'[n] = 0 /\ asked'[n] \in Nat /\ asked'[n] > 0
        BY <1>0, <1>b, <2>3, <2>4, <3>1, <4>1
      <4> QED
        BY <1>0, <2>3, <2>4, <3>1, <4>2, AskedFirst
    <3>4. \A id \in Ids \ doubled' : AsAsked(id)'
      BY <3>2, <3>3
    <3> QED
      BY <1>b, <2>4, <3>1, <3>4 DEF Worked
  <2> QED
    BY <1>14, <2>0, <2>5, <2>6 DEF Chain
<1>15. CASE Crash
  <2>1. pc # "write" /\ pc' = "down" /\ UNCHANGED <<starts, asked, file, doubled, known>>
    BY <1>15 DEF Crash, Exit, Goto
  <2> QED
    BY <1>3, <2>1
<1>16. CASE Restart
  BY <1>3, <1>16 DEF Restart, Goto
<1>17. ASSUME UNCHANGED <<starts, asked, file, doubled, known, pc, todo, copy, unlinked>>
       PROVE  Worked'
  <2>1. UNCHANGED Board
    BY <1>17 DEF Board
  <2> QED
    BY <1>2, <1>17, <2>1
<1>18. CASE \E id \in Ids : WorkerReports(id) \/ WorkerDies(id)
  BY <1>17, <1>18 DEF WorkerReports, WorkerDies
<1>19. CASE UserLoad \/ UserReturn \/ UNCHANGED vars
  BY <1>17, <1>19 DEF UserLoad, UserReturn, vars
<1>20. CASE UserSave
  <2>1. pc \notin {"truncate", "write"} /\ known' = known \cup IdsIn(file')
        /\ UNCHANGED <<pc, todo, starts, doubled>>
    BY <1>20, SaveIs DEF UserSave
  <2>2. Board = file /\ Board' = file' /\ known \subseteq known'
    BY <1>0, <2>1 DEF Board
  <2>3. ASSUME NEW b \in Bases, <<b>> \in Ids, <<b>> \notin known,
               file' = Append(file, Pending(<<b>>)), UNCHANGED asked
        PROVE  Worked'
    <3> DEFINE n == <<b>>
    <3>1. n \in Ids /\ n \notin known /\ Board' = Append(Board, Pending(n))
      BY <2>2, <2>3
    <3> HIDE DEF n
    <3>2. ASSUME NEW id \in Ids \ doubled', id # n PROVE AsAsked(id)'
      <4>1. AsAsked(id)
        BY <2>1, <3>2 DEF Worked
      <4> QED
        BY <1>0, <2>1, <2>3, <3>1, <3>2, <4>1, AskedAppended
    <3>3. AsAsked(n)'
      <4>1. n \notin IdsIn(Board) /\ starts'[n] = 0 /\ asked'[n] \in Nat /\ asked'[n] > 0
        BY <1>0, <1>b, <2>1, <2>2, <2>3, <3>1
      <4>2. pc' = "launch" => Head(todo') # n
        <5>1. pc = "launch" => Head(todo) \in IdsIn(file)
          BY DEF Standing, IdsIn
        <5> QED
          BY <1>0, <2>1, <3>1, <5>1
      <4> QED
        BY <1>0, <3>1, <4>1, <4>2, AskedFirst
    <3>4. \A id \in Ids \ doubled' : AsAsked(id)'
      BY <3>2, <3>3
    <3> QED
      BY <1>b, <2>1, <2>2, <2>3, <3>4 DEF Worked
  <2>4. ASSUME NEW r \in Ids, r \in IdsIn(file), file' = SetFirst(file, r, "pending"),
               asked' = [asked EXCEPT ![r] = @ + 1]
        PROVE  Worked'
    <3>1. \A id \in Ids : /\ asked'[id] = IF id = r THEN asked[id] + 1 ELSE asked[id]
                          /\ asked[id] \in Nat /\ starts[id] \in Nat
      BY <1>0, <2>4
    <3>2. /\ DOMAIN file' = DOMAIN file
          /\ \A i \in DOMAIN file :
               /\ file'[i].id = file[i].id
               /\ file[i].id # r => file'[i] = file[i]
      <4> DEFINE f == First(file, r)
      <4>1. f \in DOMAIN file /\ file[f].id = r
        BY <1>0, <2>4, FirstIs
      <4>2. file' = [i \in DOMAIN file |->
                       IF i \in {f} THEN [file[i] EXCEPT !.status = "pending"] ELSE file[i]]
        BY <1>0, <2>4, SetFirstIs
      <4>3. \A i \in DOMAIN file : file[i] \in Line
        BY <1>0
      <4> HIDE DEF f
      <4> QED
        BY <4>1, <4>2, <4>3 DEF Line
    <3>3. ASSUME NEW id \in Ids, AsAsked(id) PROVE AsAsked(id)'
      <4>1. /\ OneLine(file, id) /\ starts[id] <= asked[id]
            /\ IsPending(file, id) => starts[id] < asked[id]
            /\ pc = "launch" /\ Head(todo) = id =>
                 /\ starts[id] < asked[id]
                 /\ IsPending(file, id) => starts[id] + 1 < asked[id]
        BY <2>2, <3>3 DEF AsAsked
      <4>2. OneLine(file', id)
        BY <3>2, <4>1 DEF OneLine
      <4>3. id # r => (IsPending(file', id) => IsPending(file, id))
        BY <3>2 DEF IsPending
      <4>4. /\ OneLine(Board, id)' /\ (IsPending(Board, id)' => IsPending(file', id))
        BY <2>2, <4>2 DEF OneLine, IsPending
      <4>5. CASE id = r
        <5>1. asked'[id] = asked[id] + 1 /\ asked[id] \in Nat /\ starts[id] \in Nat
              /\ starts'[id] = starts[id]
          BY <2>1, <3>1, <4>5
        <5>2. starts'[id] <= asked'[id] /\ starts'[id] < asked'[id]
          BY <4>1, <5>1
        <5>3. pc = "launch" /\ Head(todo) = id => starts'[id] + 1 < asked'[id]
          BY <4>1, <5>1
        <5> QED
          BY <2>1, <4>4, <5>2, <5>3 DEF AsAsked
      <4>6. CASE id # r
        <5>1. asked'[id] = asked[id] /\ starts'[id] = starts[id]
          BY <2>1, <3>1, <4>6
        <5> QED
          BY <2>1, <4>1, <4>3, <4>4, <4>6, <5>1 DEF AsAsked
      <4> QED
        BY <4>5, <4>6
    <3>4. \A id \in Ids \ doubled' : AsAsked(id)'
      BY <2>1, <3>3 DEF Worked
    <3>5. \A id \in Ids : asked'[id] > 0 /\ (id \notin known' => starts'[id] = 0)
      BY <1>b, <2>1, <2>2, <3>1
    <3> QED
      BY <3>4, <3>5 DEF Worked
  <2> QED
    BY <1>20, <2>3, <2>4, SaveIs
<1> QED
  BY <1>5, <1>6, <1>7, <1>8, <1>9, <1>10, <1>11, <1>12, <1>13, <1>14, <1>15, <1>16, <1>18,
     <1>19, <1>20 DEF Next, Orchestrate

\* A task gets a worker only as often as it was put up for work, once if nobody retries
\* it: for any tasks and findings, and any number of crashes, failures and commands at any
\* point of runSpawn (main.go:1401-1493) and of the loop, until the file is harmed
\* (HuntLosesNoTask says how). Only a finding that is added when its identifier is known
\* may get more: orchestrator.go:164 adds it without looking (TaskIdsAreUnique).
THEOREM HuntStartsAsAsked == Spec => []StartedAsAsked
<1>1. Init => Counted /\ Undisturbed /\ OtherTypes /\ MishapTypes
  BY TypesInit DEF Init, Counted, Busy, Undisturbed
<1> DEFINE Balanced == harmed \/ Worked
<1>2. /\ HonestInv /\ Counted /\ MishapTypes /\ Undisturbed /\ BoardInv /\ Balanced
      /\ [Next]_vars
      => Balanced'
  BY WorkedNext, HarmStays DEF BoardInv
<1>3. Init => Balanced
  BY WorkedInit
<1>4. Balanced => StartedAsAsked
  BY DEF Worked, AsAsked, StartedAsAsked
<1> HIDE DEF Balanced
<1> QED
  BY <1>1, <1>2, <1>3, <1>4, BoardInvInit, BoardInvNext, HonestInit, HonestNext, CountedNext,
     OtherTypesNext, MishapTypesNext, UndisturbedNext, PTL DEF Spec
============================================================================
