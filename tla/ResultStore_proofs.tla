------------------------- MODULE ResultStore_proofs -------------------------
(***************************************************************************)
(* Proofs about ResultStore, for any sessions, documents of any length and *)
(* any number of crashes.                                                  *)
(***************************************************************************)
EXTENDS ResultStore, SequenceTheorems, TLAPS

JobState == {"none", "running", "saved", "writing", "done", "failed", "killed"}
Restart  == {"seeding", "inserting"}

Typed ==
    /\ run \in [Session -> Nat] /\ saved \in [Session -> Nat]
    /\ nextId \in Nat \ {0}
    /\ \A s \in Session : saved[s] < nextId /\ run[s] < nextId
    /\ file \in [exists: BOOLEAN, blocks: Seq(Block)] /\ Len(file.blocks) <= MaxBlocks
    /\ job \in [Session -> JobState]
    /\ size \in [Session -> 0..MaxBlocks] /\ offset \in [Session -> 0..MaxBlocks]
    /\ clean \subseteq Session
    /\ server \in {"down", "refused", "up"} \cup Restart
    /\ seed \in Memory \cup {NoSession}
    /\ crashes \in 0..MaxCrashes
    /\ lone \in Session \cup {NoSession}

\* The file is there and holds the whole document of session s.
Holds(s) == file.exists /\ size[s] > 0 /\ file.blocks = Document(s)

\* Where a job can stand, and what is left of its document.
JobsInOrder ==
    /\ \A s \in Session : job[s] \in {"saved", "writing"} => s \in Memory
    /\ \A s \in Memory :
         /\ job[s] \in {"running", "saved"} => size[s] > 0 /\ offset[s] = 0
         /\ job[s] = "writing" => offset[s] < size[s]
         /\ job[s] = "none" => offset[s] = 0
         /\ server # "up" => ~InProgress(s)

\* A run that is saved is in the database, or is being saved anew, from a file
\* that nothing writes to.
NothingLost ==
    /\ server \in Restart => \E s \in Memory : s = seed /\ Holds(s)
    /\ \A s \in Session :
         saved[s] > 0 /\ run[s] = 0 => server # "up" /\ s \in Memory /\ Holds(s)

\* The job that runs undisturbed, once it has saved its run, and its file.
Undisturbed(s) ==
    /\ \A t \in Session \ {s} : ~InProgress(t)
    /\ s \in Memory => server = "up" /\ job[s] # "none"
    /\ s \in Memory /\ job[s] \in {"saved", "writing", "done"} =>
         \A t \in Session \ {s} : run[t] < run[s]
    /\ s \in Memory /\ job[s] = "writing" =>
         /\ file.exists /\ Len(file.blocks) = offset[s]
         /\ \A k \in 1..offset[s] : file.blocks[k] = <<s, k>>
    /\ s \in Memory /\ job[s] = "done" => Holds(s)

LoneAlone == lone # NoSession => Undisturbed(lone)

Inv == Typed /\ JobsInOrder /\ NothingLost /\ LoneAlone

USE DEF Session, JobState, Restart

-----------------------------------------------------------------------------
(* The document in the file                                                *)

LEMMA DocumentFacts ==
    ASSUME Typed, NEW s \in Session
    PROVE  /\ Document(s) \in Seq(Block) /\ Len(Document(s)) = size[s]
           /\ \A k \in 1..size[s] : Document(s)[k] = <<s, k>>
<1>1. size[s] \in Nat /\ size[s] <= MaxBlocks
  BY ResultAssumption DEF Typed
<1>2. \A k \in 1..size[s] : <<s, k>> \in Block
  BY <1>1, ResultAssumption DEF Block
<1> QED
  BY <1>1, <1>2, IsASeq DEF Document

\* Two sessions have no document in common.
LEMMA OneHolder ==
    ASSUME Typed, NEW s \in Session, NEW t \in Session, Holds(s), Holds(t)
    PROVE  s = t
<1>1. 1 \in 1..size[s] /\ 1 \in 1..size[t]
  <2>1. size[s] \in 0..MaxBlocks /\ size[t] \in 0..MaxBlocks
    BY DEF Typed
  <2>2. size[s] > 0 /\ size[t] > 0
    BY DEF Holds
  <2> QED
    BY <2>1, <2>2, ResultAssumption
<1>2. Document(s)[1] = <<s, 1>> /\ Document(t)[1] = <<t, 1>>
  BY <1>1, DocumentFacts, Zenon
<1>3. Document(s) = Document(t)
  BY DEF Holds
<1> QED
  BY <1>2, <1>3

\* What the readers take from the file is the session whose document it holds.
LEMMA FullResultFacts ==
    ASSUME Typed
    PROVE  /\ FullResult \in Memory \cup {NoSession}
           /\ \A s \in Memory : FullResult = s <=> Holds(s)
<1>1. FullResult \in Memory => Holds(FullResult)
  <2>1. CASE file.exists /\ \E s \in Memory : size[s] > 0 /\ file.blocks = Document(s)
    <3> DEFINE s == CHOOSE s \in Memory : size[s] > 0 /\ file.blocks = Document(s)
    <3>1. s \in Memory /\ size[s] > 0 /\ file.blocks = Document(s)
      BY <2>1, Zenon
    <3>2. FullResult = s
      BY <2>1, Zenon DEF FullResult
    <3> HIDE DEF s
    <3> QED
      BY <2>1, <3>1, <3>2 DEF Holds
  <2>2. CASE ~(file.exists /\ \E s \in Memory : size[s] > 0 /\ file.blocks = Document(s))
    BY <2>2, ResultAssumption DEF FullResult
  <2> QED
    BY <2>1, <2>2
<1>2. FullResult \in Memory \cup {NoSession}
  BY DEF FullResult
<1>3. ASSUME NEW s \in Memory, Holds(s)
      PROVE  FullResult = s
  <2>1. FullResult \in Memory /\ Holds(FullResult)
    BY <1>3, <1>1 DEF FullResult, Holds
  <2> QED
    BY <1>3, <2>1, OneHolder
<1> QED
  BY <1>1, <1>2, <1>3

LEMMA InitInv == Init => Inv
<1> SUFFICES ASSUME Init PROVE Inv
  OBVIOUS
<1>1. <<>> \in Seq(Block) /\ Len(<<>>) = 0
  BY EmptySeq
<1>2. Typed
  BY <1>1, ResultAssumption DEF Init, Typed
<1>3. JobsInOrder /\ NothingLost /\ LoneAlone
  BY <1>2 DEF Init, JobsInOrder, NothingLost, LoneAlone, InProgress
<1> QED
  BY <1>2, <1>3 DEF Inv

-----------------------------------------------------------------------------
(* Steps of a job                                                          *)

\* Whether the file holds the document of s, if neither it nor s's document
\* is touched.
LEMMA HoldsKept ==
    ASSUME NEW s, file' = file, size'[s] = size[s]
    PROVE  Holds(s)' <=> Holds(s)
BY DEF Holds, Document

LEMMA BeginStep ==
    ASSUME Inv, NEW s \in Session, Begin(s)
    PROVE  Inv'
<1> USE DEF Inv
<1>1. /\ job[s] = "none" /\ (s \in Memory => server = "up")
      /\ job' = [job EXCEPT ![s] = "running"]
      /\ clean' \in {clean, clean \cup {s}}
      /\ lone' = (IF \E t \in Session : InProgress(t) THEN NoSession ELSE s)
      /\ UNCHANGED <<run, nextId, saved, file, offset, server, seed, crashes>>
  BY DEF Begin, dbVars, bootVars
<1>2. PICK n \in 0..MaxBlocks : /\ size' = [size EXCEPT ![s] = n]
                                /\ s \in Memory => n > 0
  <2>1. PICK m \in 1..MaxBlocks : size' = [size EXCEPT ![s] = IF s \in Memory THEN m ELSE 0]
    BY DEF Begin
  <2>2. CASE s \in Memory
    <3>1. size' = [size EXCEPT ![s] = m] /\ m \in 0..MaxBlocks /\ m > 0
      BY <2>1, <2>2, ResultAssumption
    <3> QED
      BY <3>1
  <2>3. CASE s \notin Memory
    <3>1. size' = [size EXCEPT ![s] = 0] /\ 0 \in 0..MaxBlocks
      BY <2>1, <2>3, ResultAssumption
    <3> QED
      BY <2>3, <3>1
  <2> QED
    BY <2>2, <2>3
<1>3. Typed'
  BY <1>1, <1>2 DEF Typed
<1>4. \A t \in Session \ {s} : job'[t] = job[t] /\ size'[t] = size[t]
  BY <1>1, <1>2 DEF Typed
<1>5. job'[s] = "running" /\ size'[s] = n
  BY <1>1, <1>2 DEF Typed
<1>6. JobsInOrder'
  BY <1>1, <1>2, <1>4, <1>5 DEF JobsInOrder, InProgress, Typed
<1>7. \A t \in Session \ {s} : Holds(t)' <=> Holds(t)
  BY <1>1, <1>4, HoldsKept
<1>8. NothingLost'
  BY <1>1, <1>7, ResultAssumption DEF NothingLost, Typed
<1>9. LoneAlone'
  BY <1>1, <1>4, <1>5 DEF LoneAlone, Undisturbed, InProgress
<1> QED
  BY <1>3, <1>6, <1>8, <1>9

\* The run that is inserted is the newest one.
LEMMA InsertFacts ==
    ASSUME Typed, NEW s \in Session, InsertRun(s)
    PROVE  /\ run' \in [Session -> Nat] /\ saved' \in [Session -> Nat]
           /\ nextId' \in Nat \ {0}
           /\ \A t \in Session : saved'[t] < nextId' /\ run'[t] < nextId'
           /\ run'[s] > 0 /\ \A t \in Session \ {s} : run'[t] = run[t] /\ run'[t] < run'[s]
           /\ \A t \in Session \ {s} : saved'[t] = saved[t]
BY SMTT(30) DEF Typed, InsertRun

LEMMA SaveRunStep ==
    ASSUME Inv, NEW s \in Session, SaveRun(s)
    PROVE  Inv'
<1> USE DEF Inv
<1>1. /\ job[s] = "running"
      /\ job' = [job EXCEPT ![s] = IF s \in Memory THEN "saved" ELSE "done"]
      /\ UNCHANGED <<file, size, offset, clean, server, seed, crashes>>
      /\ \/ InsertRun(s) /\ lone' = lone
         \/ UNCHANGED <<run, nextId, saved>> /\ lone' = NoSession
  BY DEF SaveRun, dbVars, bootVars
<1>2. Typed'
  BY <1>1, InsertFacts DEF Typed
<1>3. \A t \in Session \ {s} : job'[t] = job[t]
  BY <1>1 DEF Typed
<1>4. job'[s] = IF s \in Memory THEN "saved" ELSE "done"
  BY <1>1 DEF Typed
<1>5. JobsInOrder'
  BY <1>1, <1>3, <1>4, ResultAssumption DEF JobsInOrder, InProgress
<1>6. \A t \in Session : Holds(t)' <=> Holds(t)
  BY <1>1, HoldsKept
<1>7. \A t \in Session : saved'[t] > 0 /\ run'[t] = 0 => saved[t] > 0 /\ run[t] = 0
  BY <1>1, InsertFacts
<1>8. NothingLost'
  BY <1>1, <1>6, <1>7, ResultAssumption DEF NothingLost, Typed
<1>9. LoneAlone'
  <2> SUFFICES ASSUME lone' # NoSession PROVE Undisturbed(lone)'
    BY DEF LoneAlone
  <2>1. InsertRun(s) /\ lone' = lone /\ lone \in Session /\ Undisturbed(lone)
    BY <1>1 DEF LoneAlone, Typed
  <2>2. lone = s
    BY <1>1, <2>1 DEF Undisturbed, InProgress
  <2>3. s \in Memory => server = "up"
    BY <2>1, <2>2 DEF Undisturbed
  <2> QED
    BY <1>1, <1>3, <1>4, <2>1, <2>2, <2>3, InsertFacts DEF Undisturbed, InProgress
<1> QED
  BY <1>2, <1>5, <1>8, <1>9

LEMMA FailJobStep ==
    ASSUME Inv, NEW s \in Session, FailJob(s)
    PROVE  Inv'
<1> USE DEF Inv
<1>1. /\ job[s] \in {"saved", "writing"} /\ job' = [job EXCEPT ![s] = "failed"]
      /\ UNCHANGED <<run, nextId, saved, file, size, offset, clean, server, seed, crashes, lone>>
  BY DEF FailJob, dbVars, bootVars
<1>2. Typed'
  BY <1>1 DEF Typed
<1>3. job'[s] = "failed" /\ \A t \in Session \ {s} : job'[t] = job[t]
  BY <1>1 DEF Typed
<1>4. \A t \in Session : Holds(t)' <=> Holds(t)
  BY <1>1, HoldsKept
<1>5. JobsInOrder'
  BY <1>1, <1>3, ResultAssumption DEF JobsInOrder, InProgress
<1>6. NothingLost'
  BY <1>1, <1>4, ResultAssumption DEF NothingLost, Typed
<1>7. LoneAlone'
  <2> SUFFICES ASSUME lone \in Session PROVE Undisturbed(lone)'
    BY <1>1 DEF LoneAlone, Typed
  <2>1. Undisturbed(lone)
    BY ResultAssumption DEF LoneAlone
  <2>2. lone = s
    BY <1>1, <2>1 DEF Undisturbed, InProgress
  <2> QED
    BY <1>1, <1>3, <2>1, <2>2 DEF Undisturbed, InProgress
<1> QED
  BY <1>2, <1>5, <1>6, <1>7

\* Before the file is opened there is at most another job's document in it.
LEMMA OpenFileStep ==
    ASSUME Inv, NEW s \in Session, OpenFile(s)
    PROVE  Inv'
<1> USE DEF Inv
<1>1. /\ job[s] = "saved" /\ job' = [job EXCEPT ![s] = "writing"]
      /\ file' = [exists |-> TRUE, blocks |-> <<>>]
      /\ UNCHANGED <<run, nextId, saved, size, offset, clean, server, seed, crashes, lone>>
  BY DEF OpenFile, dbVars, bootVars
<1>2. <<>> \in Seq(Block) /\ Len(<<>>) = 0
  BY EmptySeq
<1>3. Typed'
  <2>1. file' \in [exists: BOOLEAN, blocks: Seq(Block)] /\ Len(file'.blocks) <= MaxBlocks
    BY <1>1, <1>2, ResultAssumption
  <2>2. job' \in [Session -> JobState]
    BY <1>1 DEF Typed
  <2> QED
    BY <1>1, <2>1, <2>2 DEF Typed
<1>4. job'[s] = "writing" /\ \A t \in Session \ {s} : job'[t] = job[t]
  BY <1>1 DEF Typed
<1>5. s \in Memory /\ server = "up" /\ size[s] > 0 /\ offset[s] = 0
  BY <1>1 DEF JobsInOrder, InProgress
<1>6. JobsInOrder'
  BY <1>1, <1>4, <1>5, ResultAssumption DEF JobsInOrder, InProgress
<1>7. NothingLost'
  BY <1>1, <1>5 DEF NothingLost
<1>8. LoneAlone'
  <2> SUFFICES ASSUME lone \in Session PROVE Undisturbed(lone)'
    BY <1>1 DEF LoneAlone, Typed
  <2>1. Undisturbed(lone)
    BY ResultAssumption DEF LoneAlone
  <2>2. lone = s
    BY <1>1, <2>1 DEF Undisturbed, InProgress
  <2> QED
    BY <1>1, <1>2, <1>4, <1>5, <2>1, <2>2 DEF Undisturbed, InProgress
<1> QED
  BY <1>3, <1>6, <1>7, <1>8

LEMMA WrittenFacts ==
    ASSUME Typed, NEW s \in Session, NEW k \in 1..MaxBlocks
    PROVE  LET bs == Written(file.blocks, s, k)
           IN  /\ bs \in Seq(Block) /\ Len(bs) <= MaxBlocks
               /\ bs[k] = <<s, k>>
               /\ Len(file.blocks) = k - 1 =>
                    /\ Len(bs) = k
                    /\ \A i \in 1..(k - 1) : bs[i] = file.blocks[i]
<1> DEFINE n  == IF Len(file.blocks) < k THEN k ELSE Len(file.blocks)
           bs == Written(file.blocks, s, k)
<1>1. /\ file.blocks \in Seq(Block) /\ Len(file.blocks) \in Nat
      /\ DOMAIN file.blocks = 1..Len(file.blocks) /\ Len(file.blocks) <= MaxBlocks
  BY LenProperties DEF Typed
<1>2. n \in Nat /\ n <= MaxBlocks /\ k \in 1..n
  BY <1>1, ResultAssumption
<1>3. <<s, k>> \in Block /\ NoSession \in Block
  BY DEF Block
<1>4. bs = [i \in 1..n |-> IF i = k THEN <<s, k>>
                           ELSE IF i <= Len(file.blocks) THEN file.blocks[i] ELSE NoSession]
  BY DEF Written
<1>5. \A i \in 1..n : i <= Len(file.blocks) => file.blocks[i] \in Block
  BY <1>1, <1>2, ElementOfSeq
<1>6. Len(file.blocks) = k - 1 => n = k
  BY <1>1
<1> HIDE DEF n, bs
<1>7. \A i \in 1..n : bs[i] \in Block
  BY <1>3, <1>4, <1>5
<1>8. bs \in Seq(Block) /\ Len(bs) = n
  BY <1>2, <1>4, <1>7, IsASeq
<1>9. bs[k] = <<s, k>>
  BY <1>2, <1>4
<1>10. ASSUME Len(file.blocks) = k - 1, NEW i \in 1..(k - 1)
       PROVE  bs[i] = file.blocks[i]
  BY <1>4, <1>6, <1>10
<1> QED
  BY <1>2, <1>6, <1>8, <1>9, <1>10 DEF bs

LEMMA WriteBlockStep ==
    ASSUME Inv, NEW s \in Session, WriteBlock(s)
    PROVE  Inv'
<1> USE DEF Inv
<1>1. /\ job[s] = "writing"
      /\ file' = [file EXCEPT !.blocks = Written(@, s, offset[s] + 1)]
      /\ offset' = [offset EXCEPT ![s] = @ + 1]
      /\ job' = [job EXCEPT ![s] = IF offset[s] + 1 = size[s] THEN "done" ELSE @]
      /\ UNCHANGED <<run, nextId, saved, size, clean, server, seed, crashes, lone>>
  BY DEF WriteBlock, dbVars, bootVars
<1>2. /\ s \in Memory /\ server = "up" /\ offset[s] < size[s]
      /\ offset[s] \in 0..MaxBlocks /\ size[s] \in 0..MaxBlocks
  BY <1>1 DEF JobsInOrder, InProgress, Typed
<1>3. PICK k \in 1..MaxBlocks : k = offset[s] + 1
  BY <1>2, ResultAssumption
<1> DEFINE bs == Written(file.blocks, s, k)
<1>4. file' = [file EXCEPT !.blocks = bs]
  BY <1>1, <1>3
<1>5. /\ bs \in Seq(Block) /\ Len(bs) <= MaxBlocks /\ bs[k] = <<s, k>>
      /\ Len(file.blocks) = k - 1 =>
           /\ Len(bs) = k /\ \A i \in 1..(k - 1) : bs[i] = file.blocks[i]
  BY WrittenFacts
<1> HIDE DEF bs
<1>6. file'.exists = file.exists /\ file'.blocks = bs
  BY <1>4 DEF Typed
<1>7. /\ offset'[s] = k /\ \A t \in Session \ {s} : offset'[t] = offset[t] /\ job'[t] = job[t]
      /\ job'[s] = IF k = size[s] THEN "done" ELSE "writing"
  BY <1>1, <1>3 DEF Typed
<1>8. Typed'
  <2>1. offset' = [offset EXCEPT ![s] = k] /\ k \in 0..MaxBlocks
    BY <1>1, <1>3
  <2>2. offset' \in [Session -> 0..MaxBlocks]
    BY <2>1 DEF Typed
  <2>3. file' \in [exists: BOOLEAN, blocks: Seq(Block)] /\ Len(file'.blocks) <= MaxBlocks
    BY <1>4, <1>5, <1>6 DEF Typed
  <2>4. job' \in [Session -> JobState]
    BY <1>1 DEF Typed
  <2> QED
    BY <1>1, <2>2, <2>3, <2>4 DEF Typed
<1>9. JobsInOrder'
  <2>1. job'[s] = "writing" => k < size[s]
    BY <1>2, <1>3, <1>7
  <2> QED
    BY <1>1, <1>2, <1>7, <2>1 DEF JobsInOrder, InProgress
<1>10. NothingLost'
  BY <1>1, <1>2 DEF NothingLost
<1>11. LoneAlone'
  <2> SUFFICES ASSUME lone \in Session PROVE Undisturbed(lone)'
    BY <1>1 DEF LoneAlone, Typed
  <2>1. Undisturbed(lone)
    BY ResultAssumption DEF LoneAlone
  <2>2. lone = s
    BY <1>1, <2>1 DEF Undisturbed, InProgress
  <2>3. /\ file.exists /\ Len(file.blocks) = k - 1
        /\ \A i \in 1..(k - 1) : file.blocks[i] = <<s, i>>
    BY <1>1, <1>2, <1>3, <2>1, <2>2 DEF Undisturbed
  <2>4. Len(bs) = k /\ \A i \in 1..k : bs[i] = <<s, i>>
    BY <1>5, <2>3
  <2>5. k = size[s] => Holds(s)'
    <3> SUFFICES ASSUME k = size[s] PROVE bs = Document(s)
      <4>1. Document(s)' = Document(s)
        BY <1>1 DEF Document
      <4> QED
        BY <1>1, <1>6, <2>3, <4>1 DEF Holds
    <3>1. Document(s) \in Seq(Block) /\ Len(Document(s)) = k
          /\ \A i \in 1..k : Document(s)[i] = <<s, i>>
      BY DocumentFacts
    <3>2. Len(bs) = Len(Document(s)) /\ \A i \in 1..Len(bs) : bs[i] = Document(s)[i]
      BY <2>4, <3>1
    <3> QED
      BY <1>5, <3>1, <3>2, SeqEqual
  <2> QED
    BY <1>1, <1>2, <1>6, <1>7, <2>1, <2>2, <2>3, <2>4, <2>5 DEF Undisturbed, InProgress
<1> QED
  BY <1>8, <1>9, <1>10, <1>11

-----------------------------------------------------------------------------
(* Steps of the server                                                     *)

LEMMA CrashStep ==
    ASSUME Inv, Crash
    PROVE  Inv'
<1> USE DEF Inv
<1>1. /\ server' = "down" /\ seed' = NoSession /\ lone' = NoSession
      /\ crashes < MaxCrashes /\ crashes' = crashes + 1
      /\ job' = [s \in Session |-> IF s \in Memory /\ InProgress(s) THEN "killed" ELSE job[s]]
      /\ UNCHANGED <<run, nextId, saved, file, size, offset, clean>>
  BY DEF Crash, dbVars
<1>2. \A s \in Session : job'[s] = IF s \in Memory /\ InProgress(s) THEN "killed" ELSE job[s]
  BY <1>1
<1>3. crashes' \in 0..MaxCrashes
  BY <1>1, ResultAssumption DEF Typed
<1>4. Typed'
  BY <1>1, <1>3 DEF Typed
<1>5. JobsInOrder'
  BY <1>1, <1>2 DEF JobsInOrder, InProgress
<1>6. \A s \in Session : Holds(s)' <=> Holds(s)
  BY <1>1, HoldsKept
<1>7. NothingLost'
  BY <1>1, <1>6, ResultAssumption DEF NothingLost, Typed
<1>8. LoneAlone'
  BY <1>1 DEF LoneAlone
<1> QED
  BY <1>4, <1>5, <1>7, <1>8

\* A restart reads the document that is in the file, and comes up without one
\* only if there is no file.
LEMMA StartStep ==
    ASSUME Inv, Start
    PROVE  Inv'
<1> USE DEF Inv
<1>1. /\ server \in {"down", "refused"}
      /\ UNCHANGED <<run, nextId, saved, file, job, size, offset, clean, crashes, lone>>
      /\ \/ ~file.exists /\ server' = "up" /\ seed' = seed
         \/ FullResult # NoSession /\ server' = "seeding" /\ seed' = FullResult
         \/ server' = "refused" /\ seed' = seed
  BY DEF Start, dbVars, jobVars
<1>2. FullResult # NoSession => FullResult \in Memory /\ Holds(FullResult)
  BY FullResultFacts
<1>3. Typed'
  BY <1>1, <1>2 DEF Typed
<1>4. JobsInOrder'
  BY <1>1 DEF JobsInOrder, InProgress
<1>5. \A s \in Session : Holds(s)' <=> Holds(s)
  BY <1>1, HoldsKept
<1>6. ~file.exists => \A s \in Session : ~Holds(s)
  BY DEF Holds
<1>7. NothingLost'
  <2>1. server' \in Restart => \E s \in Memory : s = seed' /\ Holds(s)'
    <3> SUFFICES ASSUME server' \in Restart PROVE \E s \in Memory : s = seed' /\ Holds(s)'
      OBVIOUS
    <3>1. PICK f \in Memory : f = FullResult /\ seed' = f /\ Holds(f)
      BY <1>1, <1>2
    <3>2. Holds(f)'
      BY <1>5, <3>1
    <3> QED
      BY <3>1, <3>2
  <2>2. \A s \in Session : saved'[s] > 0 /\ run'[s] = 0 =>
            server' # "up" /\ s \in Memory /\ Holds(s)'
    BY <1>1, <1>5, <1>6 DEF NothingLost
  <2> QED
    BY <2>1, <2>2 DEF NothingLost
<1>8. LoneAlone'
  <2> SUFFICES ASSUME lone \in Session PROVE Undisturbed(lone)'
    BY <1>1 DEF LoneAlone, Typed
  <2>1. Undisturbed(lone)
    BY ResultAssumption DEF LoneAlone
  <2>2. lone \notin Memory
    BY <1>1, <2>1 DEF Undisturbed
  <2> QED
    BY <1>1, <2>1, <2>2 DEF Undisturbed, InProgress
<1> QED
  BY <1>3, <1>4, <1>7, <1>8

\* Between the two commits the run is gone, but its document is in the file.
LEMMA SeedStep ==
    ASSUME Inv, SeedDelete \/ SeedInsert \/ SeedFails
    PROVE  Inv'
<1> USE DEF Inv
<1>1. /\ server \in Restart /\ seed \in Memory /\ Holds(seed)
      /\ UNCHANGED <<file, job, size, offset, clean, crashes, lone>>
      /\ server' \in {"inserting", "refused", "up"}
  BY DEF SeedDelete, SeedInsert, SeedFails, jobVars, NothingLost
<1>2. \/ server' = "inserting" /\ seed' = seed /\ UNCHANGED <<nextId, saved>>
         /\ run' = [run EXCEPT ![seed] = 0]
      \/ server' = "up" /\ seed' = NoSession /\ InsertRun(seed)
      \/ server' = "refused" /\ seed' = NoSession /\ UNCHANGED <<run, nextId, saved>>
  BY DEF SeedDelete, SeedInsert, SeedFails, dbVars
<1>3. Typed'
  <2>1. run' \in [Session -> Nat] /\ saved' \in [Session -> Nat] /\ nextId' \in Nat \ {0}
        /\ \A s \in Session : saved'[s] < nextId' /\ run'[s] < nextId'
    <3>1. CASE InsertRun(seed)
      BY <1>1, <3>1, InsertFacts
    <3>2. CASE UNCHANGED <<nextId, saved>> /\ run' = [run EXCEPT ![seed] = 0]
      BY <1>1, <3>2 DEF Typed
    <3>3. CASE UNCHANGED <<run, nextId, saved>>
      BY <3>3 DEF Typed
    <3> QED
      BY <1>2, <3>1, <3>2, <3>3
  <2>2. seed' \in Memory \cup {NoSession}
    BY <1>1, <1>2
  <2> QED
    BY <1>1, <2>1, <2>2 DEF Typed
<1>4. JobsInOrder'
  BY <1>1 DEF JobsInOrder, InProgress
<1>5. \A s \in Session : Holds(s)' <=> Holds(s)
  BY <1>1, HoldsKept
<1>6. ASSUME NEW s \in Session, saved'[s] > 0, run'[s] = 0
      PROVE  server' # "up" /\ s \in Memory /\ Holds(s)
  <2>1. CASE s = seed
    BY <1>1, <1>2, <1>6, <2>1, InsertFacts
  <2>2. CASE s # seed
    <3>1. saved[s] > 0 /\ run[s] = 0
      BY <1>1, <1>2, <1>6, <2>2, InsertFacts DEF Typed
    <3>2. s \in Memory /\ Holds(s)
      BY <3>1 DEF NothingLost
    <3>3. FALSE
      BY <1>1, <2>2, <3>2, OneHolder
    <3> QED
      BY <3>3
  <2> QED
    BY <2>1, <2>2
<1>7. NothingLost'
  <2>1. server' \in Restart => \E s \in Memory : s = seed' /\ Holds(s)'
    BY <1>1, <1>2, <1>5
  <2> QED
    BY <1>5, <1>6, <2>1 DEF NothingLost
<1>8. LoneAlone'
  <2> SUFFICES ASSUME lone \in Session PROVE Undisturbed(lone)'
    BY <1>1 DEF LoneAlone, Typed
  <2>1. Undisturbed(lone)
    BY ResultAssumption DEF LoneAlone
  <2>2. lone \notin Memory
    BY <1>1, <2>1 DEF Undisturbed
  <2> QED
    BY <1>1, <2>1, <2>2 DEF Undisturbed, InProgress
<1> QED
  BY <1>3, <1>4, <1>7, <1>8

LEMMA InvStep == Inv /\ [Next]_vars => Inv'
<1> SUFFICES ASSUME Inv, [Next]_vars PROVE Inv'
  OBVIOUS
<1>1. CASE UNCHANGED vars
  <2>1. \A s \in Session : Holds(s)' <=> Holds(s)
    BY <1>1, HoldsKept DEF vars, dbVars, jobVars, bootVars
  <2>2. LoneAlone'
    <3> SUFFICES ASSUME lone \in Session PROVE Undisturbed(lone)'
      BY <1>1 DEF LoneAlone, Inv, Typed, vars
    <3>1. PICK s \in Session : s = lone /\ lone' = s /\ Undisturbed(s)
      BY <1>1, ResultAssumption DEF LoneAlone, Inv, vars
    <3> QED
      BY <1>1, <2>1, <3>1 DEF Undisturbed, InProgress, vars, dbVars, jobVars, bootVars
  <2> QED
    BY <1>1, <2>1, <2>2
    DEF Inv, Typed, JobsInOrder, NothingLost, InProgress, vars, dbVars, jobVars, bootVars
<1> QED
  BY <1>1, CrashStep, StartStep, SeedStep, BeginStep, SaveRunStep, FailJobStep, OpenFileStep,
     WriteBlockStep
  DEF Next

LEMMA InvAlways == Spec => []Inv
BY InitInv, InvStep, PTL DEF Spec

-----------------------------------------------------------------------------

\* All variables keep their types.
THEOREM TypeCorrect == Spec => []TypeOK
<1>1. Inv => TypeOK
  <2> SUFFICES ASSUME Typed PROVE TypeOK
    BY DEF Inv
  <2>1. file.blocks \in [1..Len(file.blocks) -> Block] /\ Len(file.blocks) \in 0..MaxBlocks
    BY LenProperties, ResultAssumption DEF Typed
  <2>2. file \in File
    <3>1. file.blocks \in UNION {[1..n -> Block] : n \in 0..MaxBlocks}
      BY <2>1
    <3>2. file = [exists |-> file.exists, blocks |-> file.blocks] /\ file.exists \in BOOLEAN
      BY DEF Typed
    <3> QED
      BY <3>1, <3>2 DEF File
  <2> QED
    BY <2>2 DEF Typed, TypeOK
<1> QED
  BY <1>1, InvAlways, PTL

\* What was once saved is never lost, wherever a restart is interrupted.
THEOREM SavedSurvivesAlways == Spec => []SavedSurvives
<1>1. Inv => SavedSurvives
  <2> SUFFICES ASSUME Inv, NEW s \in Session, saved[s] > 0, ~(run[s] > 0)
               PROVE  server # "up" /\ FullResult = s
    BY DEF SavedSurvives
  <2>1. run[s] = 0
    BY DEF Inv, Typed
  <2> QED
    BY <2>1, FullResultFacts DEF Inv, NothingLost
<1> QED
  BY <1>1, InvAlways, PTL

\* The newest run is that of the job that has just ended undisturbed, and the
\* file is its document.
THEOREM ShowsLoneResultAlways == Spec => []ShowsLoneResult
<1>1. Inv => ShowsLoneResult
  <2> SUFFICES ASSUME Inv, lone \in Memory, job[lone] = "done"
               PROVE  /\ StatsOf = lone /\ ReportOf = lone /\ FullResult = lone
                      /\ lone \notin clean => ListOf = lone
    BY DEF ShowsLoneResult
  <2>1. PICK s \in Memory : s = lone /\ s # NoSession
    BY ResultAssumption
  <2>2. Undisturbed(s)
    BY <2>1 DEF Inv, LoneAlone
  <2>3. FullResult = s
    BY <2>1, <2>2, FullResultFacts DEF Inv, Undisturbed
  <2>4. \A t \in Session \ {s} : run[t] < run[s] /\ ~(run[s] <= run[t])
    BY <2>1, <2>2 DEF Inv, Undisturbed, Typed
  <2>5. run[s] \in Nat
    BY DEF Inv, Typed
  <2>6. Latest \in {NoSession, s}
    <3>1. ASSUME ~(\A t \in Session : run[t] = 0)
          PROVE  Latest = s
      <4>1. ASSUME NEW t \in Session
            PROVE  run[t] <= run[s]
        <5>1. run[t] \in Nat
          BY DEF Inv, Typed
        <5>2. t = s \/ run[t] < run[s]
          BY <2>4
        <5> QED
          BY <2>5, <5>1, <5>2
      <4>2. Latest = CHOOSE r \in Session : \A t \in Session : run[t] <= run[r]
        BY <3>1 DEF Latest
      <4>3. Latest \in Session /\ \A t \in Session : run[t] <= run[Latest]
        BY <4>1, <4>2, Zenon
      <4> QED
        BY <2>4, <4>3
    <3> QED
      BY <3>1 DEF Latest
  <2> QED
    BY <2>1, <2>3, <2>6 DEF StatsOf, ReportOf, ListOf
<1> QED
  BY <1>1, InvAlways, PTL

\* A run that the API has shown never disappears while the server answers.
THEOREM NoGapWhileUpAlways == Spec => NoGapWhileUp
<1>1. Inv /\ [Next]_vars => [server = "up" => \A s \in Session : run[s] > 0 => run'[s] > 0]_vars
  <2> SUFFICES ASSUME Inv, Next, server = "up", NEW s \in Session, run[s] > 0
               PROVE  run'[s] > 0
    OBVIOUS
  <2>1. run' = run \/ \E t \in Session : InsertRun(t)
    BY DEF Next, Crash, Start, SeedDelete, SeedInsert, SeedFails, Begin, SaveRun, FailJob,
           OpenFile, WriteBlock, dbVars
  <2> QED
    BY <2>1, InsertFacts DEF Inv
<1> QED
  BY <1>1, InvAlways, PTL DEF Spec, NoGapWhileUp

=============================================================================
