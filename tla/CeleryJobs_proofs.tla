-------------------------- MODULE CeleryJobs_proofs --------------------------
(***************************************************************************)
(* Proofs about CeleryJobs, for any number of tasks, of handlers and of    *)
(* worker processes, and any number of crashes.                            *)
(*                                                                         *)
(* The invariant Inv is inductive.  What a record says of a task is true   *)
(* of it, and stays true, for a verdict is final; hence a record that a    *)
(* handler has kept is true as well, however old it is, and so is what the *)
(* handler puts together from it.                                          *)
(***************************************************************************)
EXTENDS CeleryJobs, TLAPS

\* A record in a ready state is true of a task at stage st.
TrueOf(rec, st) ==
    rec.state \in Ready =>
        /\ st \in Verdict
        /\ rec.state = "SUCCESS" => rec.returned = st
        /\ rec.state = "FAILURE" => st = "failed"

Collecting == {"step", "progress", "info", "success", "failure"}

\* What an answer under construction has to do with the record kept: a final
\* state that it names is that of the record, and which tests are left to be
\* made says what the record is not.
Consistent(rd) ==
    /\ rd.pc \in Collecting =>
         /\ rd.answer.status \in {"none"} \cup Raw
         /\ rd.answer.status \in Ready => rd.seen.state = rd.answer.status
    /\ rd.pc = "info" => rd.seen.state \notin Ready
    /\ rd.pc = "failure" => rd.seen.state # "SUCCESS"

Whole(rd) ==
    rd.pc = "respond" =>
        /\ rd.answer.status \in {"completed", "SUCCESS"} => rd.answer.result
        /\ rd.answer.status = "FAILURE" => rd.answer.error
        /\ rd.handler = "get_analysis_status" => rd.answer.status \notin Ready

\* What a handler knows of its task, which is at stage st and whose client
\* shows v.
Knows(rd, st, v) ==
    /\ st # "none"
    /\ rd.handler = "get_analysis_status" => v # "idle"
    /\ TrueOf(rd.seen, st)
    /\ rd.pc = "respond" /\ rd.answer.status \in Verdict => rd.answer.status = st

RecordsHold == \A j \in Job : TrueOf(record[j], stage[j])

ReadersHold ==
    \A r \in Reader :
        /\ Consistent(reader[r])
        /\ Whole(reader[r])
        /\ reader[r].pc # "idle" =>
             /\ reader[r].job \in Job
             /\ Knows(reader[r], stage[reader[r].job], view[reader[r].job])

ViewsHold == \A j \in Job : view[j] \in Verdict => view[j] = stage[j]

Inv == TypeOK /\ RecordsHold /\ ReadersHold /\ ViewsHold

\* A reader, as TypeOK has it.
ReaderType == [pc: ReaderPc, handler: Handler, job: Job \cup {NoJob},
               seen: Record, answer: Answer]

LEMMA InitInv == Init => Inv
<1> SUFFICES ASSUME Init PROVE Inv
  OBVIOUS
<1>1. NoRecord \in Record /\ NoAnswer \in Answer /\ NoRecord.state = "PENDING"
  BY DEF NoRecord, Record, Raw, NoAnswer, Answer
<1>2. IdleReader \in ReaderType /\ IdleReader.pc = "idle"
  BY <1>1 DEF IdleReader, ReaderType, ReaderPc, Handler
<1>3. TypeOK
  BY <1>1, <1>2, CeleryAssumption DEF Init, TypeOK, ReaderType
<1>4. RecordsHold
  BY <1>1 DEF Init, RecordsHold, TrueOf, Ready
<1>5. ReadersHold
  BY <1>2 DEF Init, ReadersHold, Consistent, Whole, Collecting
<1>6. ViewsHold
  BY DEF Init, ViewsHold, Verdict
<1> QED
  BY <1>3, <1>4, <1>5, <1>6 DEF Inv

-----------------------------------------------------------------------------
(* Steps of tasks and records                                              *)

\* No step takes a task back to before its submission or changes its verdict,
\* and no client goes back to before it had its task id.
Forward ==
    \A j \in Job :
        /\ stage[j] # "none" => stage'[j] # "none"
        /\ stage[j] \in Verdict => stage'[j] = stage[j]
        /\ view[j] # "idle" => view'[j] # "idle"

\* What is true of a task stays true of it.
LEMMA KnowledgeLasts ==
    ASSUME Inv, Forward, UNCHANGED reader
    PROVE  ReadersHold'
<1> SUFFICES ASSUME NEW r \in Reader
             PROVE  /\ Consistent(reader'[r])
                    /\ Whole(reader'[r])
                    /\ reader'[r].pc # "idle" =>
                         /\ reader'[r].job \in Job
                         /\ Knows(reader'[r], stage'[reader'[r].job], view'[reader'[r].job])
  BY DEF ReadersHold
<1>1. reader'[r] = reader[r]
  OBVIOUS
<1>2. Consistent(reader[r]) /\ Whole(reader[r])
  BY DEF Inv, ReadersHold
<1>3. ASSUME reader[r].pc # "idle"
      PROVE  /\ reader[r].job \in Job
             /\ Knows(reader[r], stage'[reader[r].job], view'[reader[r].job])
  <2>1. reader[r].job \in Job /\ Knows(reader[r], stage[reader[r].job], view[reader[r].job])
    BY <1>3 DEF Inv, ReadersHold
  <2> QED
    BY <2>1 DEF Forward, Knows, TrueOf
<1> QED
  BY <1>1, <1>2, <1>3

\* The update of the record of a task that runs.
LEMMA StoreTyped ==
    ASSUME Inv, NEW j \in Job, NEW s \in Raw, NEW v \in {"none"} \cup Verdict,
           record[j].state # "SUCCESS", Store(j, s, v)
    PROVE  /\ record' \in [Job -> Record]
           /\ record'[j] = [state |-> s, returned |-> v]
           /\ \A k \in Job \ {j} : record'[k] = record[k]
<1>1. record \in [Job -> Record]
  BY DEF Inv, TypeOK
<1>2. [state |-> s, returned |-> v] \in Record
  BY DEF Record
<1> QED
  BY <1>1, <1>2 DEF Store

LEMMA AliveFacts ==
    ASSUME Inv, NEW j \in alive
    PROVE  j \in Job /\ stage[j] = "running" /\ record[j].state \notin Ready
BY DEF Inv, TypeOK, RecordsHold, TrueOf, Verdict

LEMMA SubmitInv == ASSUME Inv, NEW j \in Job, Submit(j) PROVE Inv'
<1>1. TypeOK'
  BY DEF Submit, Inv, TypeOK
<1>2. Forward /\ UNCHANGED reader
  BY DEF Submit, Forward, Inv, TypeOK, Verdict
<1>3. RecordsHold' /\ ViewsHold'
  BY DEF Submit, Inv, TypeOK, RecordsHold, ViewsHold, TrueOf, Verdict
<1> QED
  BY <1>1, <1>2, <1>3, KnowledgeLasts DEF Inv

LEMMA ReplyInv == ASSUME Inv, NEW j \in Job, Reply(j) PROVE Inv'
<1>1. TypeOK'
  BY DEF Reply, taskVars, Inv, TypeOK
<1>2. Forward /\ UNCHANGED reader
  BY DEF Reply, taskVars, Forward, Inv, TypeOK
<1>3. RecordsHold' /\ ViewsHold'
  BY DEF Reply, taskVars, Inv, TypeOK, RecordsHold, ViewsHold, Verdict
<1> QED
  BY <1>1, <1>2, <1>3, KnowledgeLasts DEF Inv

LEMMA TakeInv == ASSUME Inv, NEW j \in Job, Take(j) PROVE Inv'
<1>1. TypeOK'
  BY DEF Take, Inv, TypeOK
<1>2. Forward /\ UNCHANGED reader
  BY DEF Take, Forward, Inv, TypeOK, Verdict
<1>3. RecordsHold' /\ ViewsHold'
  BY DEF Take, Inv, TypeOK, RecordsHold, ViewsHold, TrueOf, Verdict
<1> QED
  BY <1>1, <1>2, <1>3, KnowledgeLasts DEF Inv

LEMMA TrackInv ==
    ASSUME Inv, NEW j \in Job, TrackStarted(j) \/ Progress(j)
    PROVE  Inv'
<1>1. record[j].state # "SUCCESS"
  BY DEF TrackStarted, Progress
<1>2. PICK s \in {"STARTED", "PROGRESS"} : Store(j, s, "none")
  BY DEF TrackStarted, Progress
<1>3. UNCHANGED <<stage, alive, crashes, reader, view>>
  BY DEF TrackStarted, Progress, taskVars
<1>4. s \in Raw /\ s \notin Ready
  BY <1>2 DEF Raw, Ready
<1>5. /\ record' \in [Job -> Record]
      /\ record'[j] = [state |-> s, returned |-> "none"]
      /\ \A k \in Job \ {j} : record'[k] = record[k]
  BY <1>1, <1>2, <1>4, StoreTyped
<1>6. TypeOK'
  BY <1>3, <1>5 DEF Inv, TypeOK
<1>7. RecordsHold' /\ ViewsHold'
  BY <1>3, <1>4, <1>5 DEF Inv, RecordsHold, ViewsHold, TrueOf
<1>8. Forward
  BY <1>3 DEF Forward
<1> QED
  BY <1>3, <1>6, <1>7, <1>8, KnowledgeLasts DEF Inv

LEMMA EndInv ==
    ASSUME Inv, NEW j \in Job, Return(j) \/ Fail(j)
    PROVE  Inv'
<1>1. j \in alive
  BY DEF Return, Fail
<1>2. PICK v \in Verdict : /\ Finish(j, v)
                           /\ \/ Store(j, "SUCCESS", v)
                              \/ v = "failed" /\ Store(j, "FAILURE", "none")
  <2>1. CASE Return(j)
    BY <2>1 DEF Return
  <2>2. CASE Fail(j)
    BY <2>2 DEF Fail, Verdict
  <2> QED
    BY <2>1, <2>2
<1>3. PICK s \in Ready, w \in {"none"} \cup Verdict :
         /\ Store(j, s, w)
         /\ TrueOf([state |-> s, returned |-> w], v)
  <2>1. CASE Store(j, "SUCCESS", v)
    <3>1. "SUCCESS" \in Ready /\ TrueOf([state |-> "SUCCESS", returned |-> v], v)
      BY <1>2 DEF Ready, TrueOf
    <3> QED
      BY <1>2, <2>1, <3>1
  <2>2. CASE v = "failed" /\ Store(j, "FAILURE", "none")
    <3>1. "FAILURE" \in Ready /\ TrueOf([state |-> "FAILURE", returned |-> "none"], v)
      BY <1>2, <2>2 DEF Ready, TrueOf
    <3> QED
      BY <2>2, <3>1
  <2> QED
    BY <1>2, <2>1, <2>2
<1>4. /\ stage' = [stage EXCEPT ![j] = v] /\ alive' = alive \ {j}
      /\ UNCHANGED <<reader, view, crashes>>
  BY <1>2 DEF Finish
<1>5. stage[j] = "running" /\ record[j].state \notin Ready
  BY <1>1, AliveFacts
<1>6. /\ record' \in [Job -> Record]
      /\ record'[j] = [state |-> s, returned |-> w]
      /\ \A k \in Job \ {j} : record'[k] = record[k]
  BY <1>3, <1>5, StoreTyped DEF Ready, Raw
<1>7. /\ stage'[j] = v /\ \A k \in Job \ {j} : stage'[k] = stage[k]
      /\ stage' \in [Job -> {"none", "queued", "running"} \cup Verdict]
  BY <1>4 DEF Inv, TypeOK
<1>8. TypeOK'
  BY <1>4, <1>6, <1>7 DEF Inv, TypeOK
<1>9. RecordsHold'
  BY <1>3, <1>6, <1>7 DEF Inv, RecordsHold
<1>10. ViewsHold'
  BY <1>4, <1>5, <1>7 DEF Inv, ViewsHold, Verdict
<1>11. Forward
  BY <1>4, <1>5, <1>7 DEF Forward, Verdict
<1> QED
  BY <1>4, <1>8, <1>9, <1>10, <1>11, KnowledgeLasts DEF Inv

LEMMA LossInv ==
    ASSUME Inv, Crash \/ \E j \in Job : Expire(j)
    PROVE  Inv'
<1>1. UNCHANGED <<stage, reader, view>>
  BY DEF Crash, Expire, taskVars
<1>2. /\ record' \in [Job -> Record]
      /\ \A k \in Job : record'[k] = record[k] \/ record'[k].state = "PENDING"
  BY DEF Crash, Expire, Inv, TypeOK, NoRecord, Record, Raw
<1>3. alive' \subseteq alive /\ crashes' \in 0..MaxCrashes
  <2>1. CASE Crash
    BY <2>1, CeleryAssumption DEF Crash, Inv, TypeOK
  <2>2. CASE \E j \in Job : Expire(j)
    BY <2>2 DEF Expire, taskVars, Inv, TypeOK
  <2> QED
    BY <2>1, <2>2
<1>4. TypeOK'
  BY <1>1, <1>2, <1>3 DEF Inv, TypeOK
<1>5. RecordsHold' /\ ViewsHold' /\ Forward
  BY <1>1, <1>2 DEF Inv, RecordsHold, ViewsHold, TrueOf, Forward, Ready
<1> QED
  BY <1>1, <1>4, <1>5, KnowledgeLasts DEF Inv

-----------------------------------------------------------------------------
(* Steps of the handlers                                                   *)

\* Handler r goes on as rd.
LEMMA ReaderStep ==
    ASSUME Inv, NEW r \in Reader, NEW rd \in ReaderType,
           reader' = [reader EXCEPT ![r] = rd],
           UNCHANGED <<taskVars, record, view>>,
           Consistent(rd), Whole(rd),
           rd.pc # "idle" => rd.job \in Job /\ Knows(rd, stage[rd.job], view[rd.job])
    PROVE  Inv'
<1>1. /\ reader' \in [Reader -> ReaderType]
      /\ reader'[r] = rd
      /\ \A q \in Reader \ {r} : reader'[q] = reader[q]
  BY DEF Inv, TypeOK, ReaderType
<1>2. TypeOK'
  BY <1>1 DEF Inv, TypeOK, ReaderType, taskVars
<1>3. RecordsHold' /\ ViewsHold'
  BY DEF Inv, RecordsHold, ViewsHold, taskVars
<1>4. ReadersHold'
  <2>1. UNCHANGED <<stage, view>>
    BY DEF taskVars
  <2> QED
    BY <1>1, <2>1 DEF Inv, ReadersHold
<1> QED
  BY <1>2, <1>3, <1>4 DEF Inv

LEMMA IdleFacts ==
    /\ NoRecord \in Record /\ NoRecord.state = "PENDING" /\ NoAnswer \in Answer
    /\ NoAnswer.status = "none"
    /\ IdleReader \in ReaderType /\ IdleReader.pc = "idle" /\ IdleReader.seen = NoRecord
    /\ Consistent(IdleReader) /\ Whole(IdleReader)
<1>1. NoRecord \in Record /\ NoRecord.state = "PENDING"
      /\ NoAnswer \in Answer /\ NoAnswer.status = "none"
  BY DEF NoRecord, Record, Raw, NoAnswer, Answer
<1>2. IdleReader \in ReaderType /\ IdleReader.pc = "idle" /\ IdleReader.seen = NoRecord
  BY <1>1 DEF IdleReader, ReaderType, ReaderPc, Handler
<1>3. Consistent(IdleReader) /\ Whole(IdleReader)
  BY <1>2 DEF Consistent, Whole, Collecting
<1> QED
  BY <1>1, <1>2, <1>3

LEMMA AbandonInv ==
    ASSUME Inv, NEW r \in Reader, Abandon(r), UNCHANGED <<taskVars, record, view>>
    PROVE  Inv'
BY ReaderStep, IdleFacts DEF Abandon

\* The record that a handler looks at is true of its task.
LEMMA SeenTrue ==
    ASSUME Inv, NEW r \in Reader, reader[r].pc # "idle"
    PROVE  /\ reader[r] \in ReaderType /\ reader[r].job \in Job
           /\ Seen(r) \in Record
           /\ TrueOf(Seen(r), stage[reader[r].job])
           /\ reader[r].seen.state \in Ready => Seen(r) = reader[r].seen
           /\ Knows(reader[r], stage[reader[r].job], view[reader[r].job])
           /\ Consistent(reader[r])
<1>1. reader[r] \in ReaderType
  BY DEF Inv, TypeOK, ReaderType
<1>2. reader[r].job \in Job /\ Knows(reader[r], stage[reader[r].job], view[reader[r].job])
  BY DEF Inv, ReadersHold
<1>3. TrueOf(reader[r].seen, stage[reader[r].job]) /\ reader[r].seen \in Record
  BY <1>1, <1>2 DEF Knows, ReaderType
<1>4. TrueOf(record[reader[r].job], stage[reader[r].job]) /\ record[reader[r].job] \in Record
  BY <1>2 DEF Inv, TypeOK, RecordsHold
<1>5. Consistent(reader[r])
  BY DEF Inv, ReadersHold
<1> QED
  BY <1>1, <1>2, <1>3, <1>4, <1>5 DEF Seen

\* A handler reads, and goes on to `next` with `answer`.
LEMMA ReadInv ==
    ASSUME Inv, NEW r \in Reader, NEW l \in ReaderPc \ {"idle"},
           NEW next \in ReaderPc \ {"idle"}, NEW answer \in Answer,
           Read(r, l, next, answer),
           next \in Collecting =>
             /\ answer.status \in {"none"} \cup Raw
             /\ answer.status \in Ready => Seen(r).state = answer.status,
           next = "info" => Seen(r).state \notin Ready,
           next = "failure" => Seen(r).state # "SUCCESS",
           next = "respond" =>
             /\ answer.status \in {"completed", "SUCCESS"} => answer.result
             /\ answer.status = "FAILURE" => answer.error
             /\ reader[r].handler = "get_analysis_status" => answer.status \notin Ready
             /\ answer.status \in Verdict => answer.status = stage[reader[r].job]
    PROVE  Inv'
<1> DEFINE rd == [reader[r] EXCEPT !.pc = next, !.answer = answer,
                     !.seen = IF Seen(r).state \in Ready THEN Seen(r) ELSE reader[r].seen]
<1>1. reader[r].pc = l /\ reader[r].pc # "idle"
  BY DEF Read
<1>2. reader' = [reader EXCEPT ![r] = rd] /\ UNCHANGED <<taskVars, record, view>>
  BY DEF Read
<1>3. /\ reader[r] \in ReaderType /\ reader[r].job \in Job
      /\ Seen(r) \in Record
      /\ TrueOf(Seen(r), stage[reader[r].job])
      /\ reader[r].seen.state \in Ready => Seen(r) = reader[r].seen
      /\ Knows(reader[r], stage[reader[r].job], view[reader[r].job])
  BY <1>1, SeenTrue
<1>4. /\ rd \in ReaderType
      /\ rd.pc = next /\ rd.answer = answer /\ rd.job = reader[r].job
      /\ rd.handler = reader[r].handler
      /\ rd.seen \in {Seen(r), reader[r].seen}
      /\ Seen(r).state \in Ready => rd.seen = Seen(r)
      /\ Seen(r).state \notin Ready => rd.seen.state \notin Ready
  BY <1>3 DEF ReaderType
<1>5. Consistent(rd)
  <2>1. next \in Collecting /\ answer.status \in Ready => rd.seen.state = answer.status
    BY <1>4
  <2>2. next = "info" => rd.seen.state \notin Ready
    BY <1>4
  <2>3. next = "failure" => rd.seen.state # "SUCCESS"
    BY <1>4 DEF Ready
  <2> HIDE DEF rd
  <2> QED
    BY <1>4, <2>1, <2>2, <2>3 DEF Consistent
<1>6. Whole(rd)
  <2> HIDE DEF rd
  <2> QED
    BY <1>4 DEF Whole
<1>7. Knows(rd, stage[rd.job], view[rd.job])
  <2> HIDE DEF rd
  <2> QED
    BY <1>3, <1>4 DEF Knows
<1> HIDE DEF rd
<1> QED
  BY <1>2, <1>3, <1>4, <1>5, <1>6, <1>7, ReaderStep

LEMMA AskInv ==
    ASSUME Inv, NEW r \in Reader, NEW h \in Handler, NEW j \in Job, Ask(r, h, j)
    PROVE  Inv'
<1> DEFINE rd == [IdleReader EXCEPT !.handler = h, !.job = j,
                    !.pc = IF h = "get_analysis_status" THEN "known" ELSE "name"]
<1>1. /\ rd \in ReaderType /\ rd.pc \in {"known", "name"}
      /\ rd.job = j /\ rd.handler = h /\ rd.seen = NoRecord
  BY IdleFacts DEF ReaderType, ReaderPc
<1>2. /\ reader' = [reader EXCEPT ![r] = rd]
      /\ UNCHANGED <<taskVars, record, view>>
      /\ stage[j] # "none"
      /\ h = "get_analysis_status" => view[j] = "polling"
  BY DEF Ask
<1> HIDE DEF rd
<1>3. Consistent(rd) /\ Whole(rd)
  BY <1>1 DEF Consistent, Whole, Collecting
<1>4. Knows(rd, stage[rd.job], view[rd.job])
  BY <1>1, <1>2, IdleFacts DEF Knows, TrueOf, Ready
<1> QED
  BY <1>1, <1>2, <1>3, <1>4, ReaderStep

LEMMA KnownInv == ASSUME Inv, NEW r \in Reader, CheckKnown(r) PROVE Inv'
<1>1. CASE Seen(r).state # "PENDING"
  <2>1. Read(r, "known", "name", NoAnswer)
    BY <1>1 DEF CheckKnown
  <2> QED
    BY <2>1, ReadInv, IdleFacts DEF ReaderPc, Collecting
<1>2. CASE Seen(r).state = "PENDING"
  BY <1>2, AbandonInv DEF CheckKnown
<1> QED
  BY <1>1, <1>2

LEMMA NameInv == ASSUME Inv, NEW r \in Reader, NameStatus(r) PROVE Inv'
<1> DEFINE answer == [NoAnswer EXCEPT !.status = Seen(r).state]
<1>1. PICK next \in {"step", "progress"} : Read(r, "name", next, answer)
  BY DEF NameStatus
<1>2. reader[r].pc # "idle"
  BY <1>1 DEF Read
<1>3. Seen(r).state \in Raw
  BY <1>2, SeenTrue DEF Record
<1>4. answer \in Answer /\ answer.status = Seen(r).state
  BY <1>3, IdleFacts DEF Answer
<1> HIDE DEF answer
<1> QED
  BY <1>1, <1>3, <1>4, ReadInv DEF ReaderPc, Collecting

\* The answer of a handler that collects, and of a Celery state: it is that of
\* the record that the handler looks at.
LEMMA CollectingFacts ==
    ASSUME Inv, NEW r \in Reader, reader[r].pc \in Collecting
    PROVE  /\ reader[r].answer \in Answer
           /\ reader[r].answer.status \in {"none"} \cup Raw
           /\ reader[r].answer.status \in Ready => Seen(r).state = reader[r].answer.status
           /\ reader[r].pc = "failure" => Seen(r).state # "SUCCESS" \/ reader[r].seen.state \notin Ready
BY SeenTrue DEF Consistent, Collecting, ReaderType

LEMMA StepInv == ASSUME Inv, NEW r \in Reader, NameStep(r) PROVE Inv'
<1>1. Read(r, "step", "progress", reader[r].answer)
  BY DEF NameStep
<1>2. reader[r].pc \in Collecting
  BY <1>1 DEF Read, Collecting
<1> QED
  BY <1>1, <1>2, CollectingFacts, ReadInv DEF ReaderPc, Collecting

LEMMA ProgressInv == ASSUME Inv, NEW r \in Reader, TestProgress(r) PROVE Inv'
<1>1. PICK next \in {"info", "success"} :
        /\ Read(r, "progress", next, reader[r].answer)
        /\ next = "info" => Seen(r).state = "PROGRESS"
  BY DEF TestProgress
<1>2. reader[r].pc \in Collecting
  BY <1>1 DEF Read, Collecting
<1> QED
  BY <1>1, <1>2, CollectingFacts, ReadInv DEF ReaderPc, Collecting, Ready

\* What a verdict in the dict of the task makes of an answer.
LEMMA MergeInv == ASSUME Inv, NEW r \in Reader, MergeInfo(r) PROVE Inv'
<1>1. reader[r].pc = "info" /\ reader[r].pc \in Collecting /\ reader[r].pc # "idle"
  BY DEF MergeInfo, Collecting
<1>2. CASE Seen(r).state = "FAILURE"
  BY <1>2, AbandonInv DEF MergeInfo
<1>3. CASE Seen(r).state = "SUCCESS"
  <2> DEFINE answer == [status |-> Seen(r).returned,
                        result |-> Seen(r).returned = "completed",
                        error  |-> Seen(r).returned = "failed"]
  <2>1. Read(r, "info", "respond", answer)
    BY <1>3 DEF MergeInfo
  <2>2. Seen(r).returned \in Verdict /\ Seen(r).returned = stage[reader[r].job]
    BY <1>1, <1>3, SeenTrue DEF TrueOf, Ready
  <2>3. /\ answer \in Answer
        /\ answer.status = stage[reader[r].job] /\ answer.status \in Verdict
        /\ answer.status = "completed" => answer.result
    BY <2>2 DEF Answer, Verdict
  <2> HIDE DEF answer
  <2> QED
    BY <2>1, <2>3, ReadInv DEF ReaderPc, Collecting, Verdict, Ready
<1>4. CASE Seen(r).state \notin Ready
  <2>1. Read(r, "info", "respond", reader[r].answer)
    BY <1>4 DEF MergeInfo, Ready
  <2>2. /\ reader[r].answer \in Answer
        /\ reader[r].answer.status \in ({"none"} \cup Raw) \ Ready
    BY <1>1, <1>4, CollectingFacts
  <2> QED
    BY <2>1, <2>2, ReadInv DEF ReaderPc, Collecting, Raw, Ready, Verdict
<1> QED
  BY <1>2, <1>3, <1>4 DEF Ready

LEMMA SuccessInv == ASSUME Inv, NEW r \in Reader, TestSuccess(r) PROVE Inv'
<1>1. reader[r].pc = "success" /\ reader[r].pc \in Collecting /\ reader[r].pc # "idle"
  BY DEF TestSuccess, Read, Collecting
<1>2. /\ reader[r].answer \in Answer
      /\ reader[r].answer.status \in {"none"} \cup Raw
      /\ reader[r].answer.status \in Ready => Seen(r).state = reader[r].answer.status
  BY <1>1, CollectingFacts
<1>3. CASE Seen(r).state # "SUCCESS"
  <2>1. Read(r, "success", "failure", reader[r].answer)
    BY <1>3 DEF TestSuccess
  <2> QED
    BY <1>2, <1>3, <2>1, ReadInv DEF ReaderPc, Collecting
<1>4. CASE Seen(r).state = "SUCCESS" /\ reader[r].handler = "get_analysis_status"
  <2> DEFINE answer == [reader[r].answer EXCEPT !.status = Seen(r).returned,
                                                !.result = Seen(r).returned = "completed"]
  <2>1. Read(r, "success", "respond", answer)
    BY <1>4 DEF TestSuccess
  <2>2. Seen(r).returned \in Verdict /\ Seen(r).returned = stage[reader[r].job]
    BY <1>1, <1>4, SeenTrue DEF TrueOf, Ready
  <2>3. /\ answer \in Answer
        /\ answer.status = stage[reader[r].job] /\ answer.status \in Verdict
        /\ answer.status = "completed" => answer.result
    BY <1>2, <2>2 DEF Answer, Verdict
  <2> HIDE DEF answer
  <2> QED
    BY <2>1, <2>3, ReadInv DEF ReaderPc, Collecting, Verdict, Ready
<1>5. CASE Seen(r).state = "SUCCESS" /\ reader[r].handler # "get_analysis_status"
  <2> DEFINE answer == [reader[r].answer EXCEPT !.result = TRUE]
  <2>1. Read(r, "success", "respond", answer)
    BY <1>5 DEF TestSuccess
  <2>2. answer \in Answer /\ answer.status = reader[r].answer.status /\ answer.result
    BY <1>2 DEF Answer
  <2>3. answer.status # "FAILURE" /\ answer.status \notin Verdict
    BY <1>2, <1>5, <2>2 DEF Ready, Raw, Verdict
  <2> HIDE DEF answer
  <2> QED
    BY <1>5, <2>1, <2>2, <2>3, ReadInv DEF ReaderPc, Collecting
<1> QED
  BY <1>3, <1>4, <1>5

LEMMA FailureInv == ASSUME Inv, NEW r \in Reader, TestFailure(r) PROVE Inv'
<1>1. reader[r].pc = "failure" /\ reader[r].pc \in Collecting /\ reader[r].pc # "idle"
  BY DEF TestFailure, Read, Collecting
<1>2. /\ reader[r].answer \in Answer
      /\ reader[r].answer.status \in {"none"} \cup Raw
      /\ reader[r].answer.status \in Ready => /\ Seen(r).state = reader[r].answer.status
                                              /\ Seen(r).state = "FAILURE"
  BY <1>1, CollectingFacts, SeenTrue DEF Consistent, Ready
<1>3. CASE Seen(r).state # "FAILURE"
  <2>1. Read(r, "failure", "respond", reader[r].answer)
    BY <1>3 DEF TestFailure
  <2> QED
    BY <1>2, <1>3, <2>1, ReadInv DEF ReaderPc, Collecting, Raw, Ready, Verdict
<1>4. CASE Seen(r).state = "FAILURE" /\ reader[r].handler = "get_analysis_status"
  <2> DEFINE answer == [reader[r].answer EXCEPT !.status = "failed", !.error = TRUE]
  <2>1. Read(r, "failure", "respond", answer)
    BY <1>4 DEF TestFailure
  <2>2. stage[reader[r].job] = "failed"
    BY <1>1, <1>4, SeenTrue DEF TrueOf, Ready
  <2>3. answer \in Answer /\ answer.status = "failed"
    BY <1>2 DEF Answer, Verdict
  <2> HIDE DEF answer
  <2> QED
    BY <2>1, <2>2, <2>3, ReadInv DEF ReaderPc, Collecting, Ready
<1>5. CASE Seen(r).state = "FAILURE" /\ reader[r].handler # "get_analysis_status"
  <2> DEFINE answer == [reader[r].answer EXCEPT !.error = TRUE]
  <2>1. Read(r, "failure", "respond", answer)
    BY <1>5 DEF TestFailure
  <2>2. answer \in Answer /\ answer.status = reader[r].answer.status /\ answer.error
    BY <1>2 DEF Answer
  <2>3. answer.status \notin {"SUCCESS", "completed"} /\ answer.status \notin Verdict
    BY <1>2, <1>5, <2>2 DEF Ready, Raw, Verdict
  <2> HIDE DEF answer
  <2> QED
    BY <1>5, <2>1, <2>2, <2>3, ReadInv DEF ReaderPc, Collecting
<1> QED
  BY <1>3, <1>4, <1>5

\* What a response shows to a client, if it shows anything.
LEMMA ResponseFacts ==
    ASSUME Inv, NEW r \in Reader, Respond(r)
    PROVE  \/ view' = view
           \/ \E j \in Job : /\ stage[j] \in Verdict /\ view[j] # "idle"
                             /\ view' = [view EXCEPT ![j] = stage[j]]
<1>1. reader[r].pc # "idle" /\ reader[r].pc = "respond"
  BY DEF Respond
<1>2. reader[r].job \in Job /\ Knows(reader[r], stage[reader[r].job], view[reader[r].job])
  BY <1>1, SeenTrue
<1> QED
  BY <1>1, <1>2 DEF Respond, Knows

LEMMA RespondInv == ASSUME Inv, NEW r \in Reader, Respond(r) PROVE Inv'
<1>1. /\ UNCHANGED <<stage, alive, crashes, record>>
      /\ reader' = [reader EXCEPT ![r] = IdleReader]
  BY DEF Respond, Abandon, taskVars
<1>2. /\ view' \in [Job -> {"idle", "polling"} \cup Verdict]
      /\ ViewsHold'
      /\ \A j \in Job : view[j] # "idle" => view'[j] # "idle"
  <2>1. CASE view' = view
    BY <1>1, <2>1 DEF Inv, TypeOK, ViewsHold
  <2>2. CASE \E j \in Job : /\ stage[j] \in Verdict /\ view[j] # "idle"
                            /\ view' = [view EXCEPT ![j] = stage[j]]
    <3>1. PICK j \in Job : /\ stage[j] \in Verdict /\ view[j] # "idle"
                           /\ view' = [view EXCEPT ![j] = stage[j]]
      BY <2>2
    <3>2. view'[j] = stage[j] /\ \A k \in Job \ {j} : view'[k] = view[k]
      BY <3>1 DEF Inv, TypeOK
    <3> QED
      BY <1>1, <3>1, <3>2 DEF Inv, TypeOK, ViewsHold, Verdict
  <2> QED
    BY <2>1, <2>2, ResponseFacts
<1>3. /\ reader' \in [Reader -> ReaderType]
      /\ reader'[r] = IdleReader
      /\ \A q \in Reader \ {r} : reader'[q] = reader[q]
  BY <1>1, IdleFacts DEF Inv, TypeOK, ReaderType
<1>4. TypeOK'
  BY <1>1, <1>2, <1>3 DEF Inv, TypeOK, ReaderType
<1>5. RecordsHold'
  BY <1>1 DEF Inv, RecordsHold
<1>6. ReadersHold'
  BY <1>1, <1>2, <1>3, IdleFacts DEF Inv, ReadersHold, Knows
<1> QED
  BY <1>2, <1>4, <1>5, <1>6 DEF Inv

-----------------------------------------------------------------------------
(* The theorems                                                            *)

LEMMA InvStep == Inv /\ [Next]_vars => Inv'
<1> SUFFICES ASSUME Inv, [Next]_vars PROVE Inv'
  OBVIOUS
<1>1. CASE Crash \/ \E j \in Job : Expire(j)
  BY <1>1, LossInv
<1>2. ASSUME NEW j \in Job, Submit(j) \/ Reply(j) \/ Take(j) \/ Execute(j) \/ Progress(j)
      PROVE  Inv'
  BY <1>2, SubmitInv, ReplyInv, TakeInv, TrackInv, EndInv DEF Execute
<1>3. ASSUME NEW r \in Reader, Handle(r) PROVE Inv'
  BY <1>3, KnownInv, NameInv, StepInv, ProgressInv, MergeInv, SuccessInv, FailureInv,
     RespondInv DEF Handle
<1>4. ASSUME NEW r \in Reader, NEW h \in Handler, NEW j \in Job, Ask(r, h, j) PROVE Inv'
  BY <1>4, AskInv
<1>5. CASE UNCHANGED vars
  <2>1. TypeOK' /\ RecordsHold' /\ ViewsHold' /\ Forward /\ UNCHANGED reader
    BY <1>5 DEF vars, Inv, TypeOK, RecordsHold, ViewsHold, Forward
  <2> QED
    BY <2>1, KnowledgeLasts DEF Inv
<1> QED
  BY <1>1, <1>2, <1>3, <1>4, <1>5 DEF Next

LEMMA Invariance == Spec => []Inv
BY InitInv, InvStep, PTL DEF Spec

\* The variables of the Celery job service always have their types.
THEOREM TypeCorrect == Spec => []TypeOK
<1>1. Inv => TypeOK
  BY DEF Inv
<1> QED
  BY <1>1, Invariance, PTL

\* A status answer of get_analysis_status or get_celery_task_status is whole,
\* whatever the worker does between the reads that it is made of.
THEOREM AnswersAreWholeAlways == Spec => []AnswersAreWhole
<1>1. Inv => AnswersAreWhole
  BY DEF Inv, ReadersHold, Whole, AnswersAreWhole
<1> QED
  BY <1>1, Invariance, PTL

-----------------------------------------------------------------------------
(* The service implements the life cycle.                                  *)

phaseBar == [j \in Job |-> CASE stage[j] = "none"    -> "absent"
                             [] stage[j] = "queued"  -> "queued"
                             [] stage[j] = "running" -> "analyzing"
                             [] OTHER                -> stage[j]]

keptBar == {j \in Job : stage[j] = "queued" \/ j \in alive \/ record[j].state # "PENDING"}

USE DEF phaseBar, keptBar, Lifecycle!Verdict

LEMMA LifecycleForget ==
    ASSUME keptBar' \subseteq keptBar, UNCHANGED <<stage, view>>
    PROVE  Lifecycle!LifecycleNext
BY DEF Lifecycle!LifecycleNext, Lifecycle!Forget

LEMMA PhaseFacts ==
    ASSUME Inv, NEW j \in Job
    PROVE  /\ stage[j] = "none" => phaseBar[j] = "absent"
           /\ stage[j] # "none" => phaseBar[j] # "absent"
           /\ stage[j] = "queued" => phaseBar[j] = "queued"
           /\ stage[j] = "running" => phaseBar[j] = "analyzing"
           /\ stage[j] \in Verdict => phaseBar[j] = stage[j]
BY DEF Inv, TypeOK, Verdict

LEMMA PhaseStep ==
    ASSUME Inv, NEW j \in Job, NEW st \in {"queued", "running"} \cup Verdict,
           stage' = [stage EXCEPT ![j] = st]
    PROVE  phaseBar' = [phaseBar EXCEPT ![j] = IF st = "running" THEN "analyzing" ELSE st]
<1>1. stage'[j] = st /\ \A k \in Job \ {j} : stage'[k] = stage[k]
  BY DEF Inv, TypeOK
<1> QED
  BY <1>1 DEF Verdict

LEMMA LifecycleTask ==
    ASSUME Inv, NEW j \in Job,
           Submit(j) \/ Reply(j) \/ Take(j) \/ Execute(j) \/ Progress(j) \/ Expire(j)
    PROVE  Lifecycle!LifecycleNext
<1>1. CASE Submit(j)
  <2>1. phaseBar[j] = "absent" /\ phaseBar' = [phaseBar EXCEPT ![j] = "queued"]
    BY <1>1, PhaseFacts, PhaseStep DEF Submit
  <2>2. keptBar' = keptBar \cup {j} /\ view' = view
    BY <1>1 DEF Submit, Inv, TypeOK
  <2> QED
    BY <2>1, <2>2 DEF Lifecycle!LifecycleNext, Lifecycle!Accept
<1>2. CASE Reply(j)
  <2>1. phaseBar[j] # "absent" /\ view[j] = "idle"
    BY <1>2, PhaseFacts DEF Reply
  <2>2. /\ phaseBar' = phaseBar /\ keptBar' = keptBar
        /\ view' = [view EXCEPT ![j] = "polling"]
    BY <1>2 DEF Reply, taskVars
  <2> QED
    BY <2>1, <2>2 DEF Lifecycle!LifecycleNext, Lifecycle!Watch
<1>3. CASE Take(j)
  <2>1. /\ phaseBar[j] = "queued" /\ j \in keptBar
        /\ phaseBar' = [phaseBar EXCEPT ![j] = "analyzing"]
    BY <1>3, PhaseFacts, PhaseStep DEF Take
  <2>2. keptBar' = keptBar /\ view' = view
    BY <1>3 DEF Take, Inv, TypeOK
  <2> QED
    BY <2>1, <2>2 DEF Lifecycle!LifecycleNext, Lifecycle!Begin
<1>4. CASE TrackStarted(j) \/ Progress(j)
  <2>1. \A k \in Job \ {j} : record'[k] = record[k]
    BY <1>4 DEF TrackStarted, Progress, Store, Inv, TypeOK
  <2>2. j \in keptBar /\ UNCHANGED <<stage, alive, view>>
    BY <1>4 DEF TrackStarted, Progress, taskVars
  <2>3. keptBar' \subseteq keptBar
    BY <2>1, <2>2
  <2> QED
    BY <2>2, <2>3, LifecycleForget
<1>5. CASE Return(j) \/ Fail(j)
  <2>1. j \in alive /\ stage[j] = "running" /\ record[j].state \notin Ready
    BY <1>5, AliveFacts DEF Return, Fail
  <2>2. PICK v \in Verdict : Finish(j, v)
    BY <1>5 DEF Return, Fail, Verdict
  <2>3. PICK s \in Ready, w \in {"none"} \cup Verdict : Store(j, s, w)
    BY <1>5 DEF Return, Fail, Ready
  <2>4. /\ record'[j].state \in Ready
        /\ \A k \in Job \ {j} : record'[k] = record[k]
    <3>1. record[j].state # "SUCCESS" /\ s \in Raw
      BY <2>1 DEF Ready, Raw
    <3>2. /\ record'[j] = [state |-> s, returned |-> w]
          /\ \A k \in Job \ {j} : record'[k] = record[k]
      BY <2>3, <3>1, StoreTyped
    <3> QED
      BY <3>2
  <2>5. phaseBar[j] = "analyzing" /\ phaseBar' = [phaseBar EXCEPT ![j] = v]
    <3>1. v # "running" /\ v \in {"queued", "running"} \cup Verdict
      BY DEF Verdict
    <3>2. stage' = [stage EXCEPT ![j] = v]
      BY <2>2 DEF Finish
    <3> HIDE DEF phaseBar
    <3>3. phaseBar' = [phaseBar EXCEPT ![j] = IF v = "running" THEN "analyzing" ELSE v]
      BY <3>1, <3>2, PhaseStep
    <3> QED
      BY <2>1, <3>1, <3>3, PhaseFacts
  <2>6. j \in keptBar /\ keptBar' = keptBar /\ view' = view
    <3>1. \A k \in Job \ {j} : stage'[k] = stage[k]
      BY <2>2 DEF Finish, Inv, TypeOK
    <3> QED
      BY <2>1, <2>2, <2>4, <3>1 DEF Finish, Ready
  <2> QED
    BY <2>5, <2>6 DEF Lifecycle!LifecycleNext, Lifecycle!Conclude, Verdict
<1>6. CASE Expire(j)
  <2>1. /\ UNCHANGED <<stage, alive, view>>
        /\ \A k \in Job : record'[k] = record[k] \/ record'[k].state = "PENDING"
    BY <1>6, IdleFacts DEF Expire, taskVars, Inv, TypeOK
  <2> QED
    BY <2>1, LifecycleForget
<1> QED
  BY <1>1, <1>2, <1>3, <1>4, <1>5, <1>6 DEF Execute

LEMMA LifecycleHandle ==
    ASSUME Inv, NEW r \in Reader, Handle(r)
    PROVE  Lifecycle!LifecycleNext
<1>1. UNCHANGED <<stage, alive, record>>
  BY DEF Handle, CheckKnown, NameStatus, NameStep, TestProgress, MergeInfo, TestSuccess,
         TestFailure, Respond, Read, taskVars
<1>2. CASE view' = view
  BY <1>1, <1>2, LifecycleForget
<1>3. CASE Respond(r) /\ view' # view
  <2>1. PICK j \in Job : /\ stage[j] \in Verdict /\ view[j] # "idle"
                         /\ view' = [view EXCEPT ![j] = stage[j]]
    BY <1>3, ResponseFacts
  <2>2. view[j] = "polling"
    BY <1>3, <2>1 DEF Inv, TypeOK, ViewsHold, Verdict
  <2>3. phaseBar[j] = stage[j] /\ phaseBar' = phaseBar /\ keptBar' = keptBar
    BY <1>1, <2>1, PhaseFacts
  <2> QED
    BY <2>1, <2>2, <2>3 DEF Lifecycle!LifecycleNext, Lifecycle!Learn, Verdict
<1> QED
  BY <1>2, <1>3
  DEF Handle, CheckKnown, NameStatus, NameStep, TestProgress, MergeInfo, TestSuccess,
      TestFailure, Read

\* Whatever is read when, lost with a worker or expired, the client of the
\* Celery service sees the behaviour that JobLifecycle promises, as that of the
\* in-memory service does.
THEOREM Refinement == Spec => ImplementsLifecycle
<1>1. Init => Lifecycle!LifecycleInit
  BY IdleFacts DEF Init, Lifecycle!LifecycleInit
<1>2. Inv /\ [Next]_vars => [Lifecycle!LifecycleNext]_(Lifecycle!lifecycleVars)
  <2> SUFFICES ASSUME Inv, [Next]_vars
               PROVE  Lifecycle!LifecycleNext
    OBVIOUS
  <2>1. CASE Crash
    BY <2>1, LifecycleForget DEF Crash
  <2>2. ASSUME NEW r \in Reader, NEW h \in Handler, NEW j \in Job, Ask(r, h, j)
        PROVE  Lifecycle!LifecycleNext
    <3>1. UNCHANGED <<stage, alive, record, view>>
      BY <2>2 DEF Ask, taskVars
    <3> QED
      BY <3>1, LifecycleForget
  <2>3. CASE UNCHANGED vars
    BY <2>3, LifecycleForget DEF vars
  <2> QED
    BY <2>1, <2>2, <2>3, LifecycleTask, LifecycleHandle DEF Next
<1> QED
  BY <1>1, <1>2, Invariance, PTL DEF Spec, ImplementsLifecycle, Lifecycle!LifecycleSpec

=============================================================================
