------------------------- MODULE AnalysisJobs_proofs -------------------------
(***************************************************************************)
(* Proofs about JobStore and AnalysisJobs, for any number of jobs, of      *)
(* requests in flight and of pool threads, any cap and any TTL.            *)
(*                                                                         *)
(* First the dict and its clean-up on their own: StoreInv says how a       *)
(* clean-up's list relates to the dict, RoomLeft how much room the         *)
(* clean-ups under way still make.  Then the service: the parts of Inv     *)
(* say, for a request, what its job looks like while the request runs, and *)
(* for a job, what its entry says given where its worker stands.           *)
(***************************************************************************)
EXTENDS AnalysisJobs, FiniteSetTheorems, TLAPS

USE DEF Submitter, Handler, CleanerState, IdleCleaner

-----------------------------------------------------------------------------
(* The dict and its clean-up                                               *)

\* Only a handler that submits a job stamps one.
Submitting(r) == \/ cleaner[r].pc = "stamped"
                 \/ cleaner[r].pc # "idle" /\ cleaner[r].handler \in Submitter

PastCreation == \A j \in Job : created[j] <= clock

\* The id that a handler is about to insert is in no dict and on no list.
FreshId ==
    \A r \in Request : Submitting(r) =>
        /\ cleaner[r].own \in Job \ stored
        /\ \A s \in Request : cleaner[r].own \notin cleaner[s].snap
        /\ \A s \in Request \ {r} : Submitting(s) => cleaner[s].own # cleaner[r].own

\* The victims are the oldest of those listed that the handler does not protect.
VictimsAreOldest ==
    \A r \in Request : cleaner[r].pc = "pop" =>
        /\ cleaner[r].victims \subseteq cleaner[r].snap
        /\ \A v \in cleaner[r].victims, w \in cleaner[r].snap \ cleaner[r].victims :
              w # cleaner[r].own => created[v] <= created[w]

\* Jobs that are stamped and not inserted yet.
Stamped == {cleaner[s].own : s \in {t \in Request : cleaner[t].pc = "stamped"}}

\* What the list of r lacks although it is older than an entry listed: inserted
\* since, or still to be inserted.
Strays(r) ==
    {w \in (stored \cup Stamped) \ cleaner[r].snap :
        \E v \in cleaner[r].snap : created[w] < created[v]}

\* They were stamped by other requests when r made its list, and no new ones
\* come up after that.
FewStrays ==
    \A r \in Request : cleaner[r].pc \in {"scan", "pop"} =>
        Cardinality(Strays(r)) < Cardinality(Request)

StoreInv == StoreTypeOK /\ PastCreation /\ FreshId /\ VictimsAreOldest

LEMMA StoreInitInv == StoreInit => StoreInv
BY StoreAssumption
DEF StoreInit, StoreInv, StoreTypeOK, PastCreation, FreshId, VictimsAreOldest, Submitting

\* A request that goes on with its clean-up keeps its job and its handler.
LEMMA GotoFacts ==
    ASSUME StoreTypeOK, NEW r \in Request, NEW S \in SUBSET Job, NEW V \in SUBSET Job,
           NEW l \in {"cap", "scan", "pop", "clean", "stamped"}, CleanerGoto(r, l, S, V)
    PROVE  /\ cleaner' \in [Request -> CleanerState]
           /\ cleaner'[r].pc = l /\ cleaner'[r].snap = S /\ cleaner'[r].victims = V
           /\ cleaner'[r].own = cleaner[r].own
           /\ cleaner'[r].handler = cleaner[r].handler
           /\ \A s \in Request \ {r} : cleaner'[s] = cleaner[s]
<1> DEFINE c == [cleaner[r] EXCEPT !.pc = l, !.snap = S, !.victims = V]
<1>1. /\ c \in CleanerState
      /\ c.pc = l /\ c.snap = S /\ c.victims = V
      /\ c.own = cleaner[r].own /\ c.handler = cleaner[r].handler
  BY cleaner[r] \in CleanerState DEF StoreTypeOK
<1>2. cleaner' = [cleaner EXCEPT ![r] = c]
  BY DEF CleanerGoto
<1> HIDE DEF c, CleanerState
<1> QED
  BY <1>1, <1>2 DEF StoreTypeOK

LEMMA LeaveFacts ==
    ASSUME StoreTypeOK, NEW r \in Request, CleanerLeaves(r)
    PROVE  /\ cleaner' \in [Request -> CleanerState]
           /\ cleaner'[r] = IdleCleaner
           /\ \A s \in Request \ {r} : cleaner'[s] = cleaner[s]
BY DEF StoreTypeOK, CleanerLeaves

\* What the call of cleanup() changes.
LEMMA TtlFacts ==
    ASSUME StoreTypeOK, NEW r \in Request, NEW h, NEW j, CleanupTtl(r, h, j)
    PROVE  /\ cleaner[r].pc = "idle"
           /\ cleaner'[r].pc = "cap" /\ cleaner'[r].own = j /\ cleaner'[r].handler = h
           /\ cleaner'[r].snap = {} /\ cleaner'[r].victims = {}
           /\ \A s \in Request \ {r} : cleaner'[s] = cleaner[s]
           /\ stored' \subseteq stored /\ UNCHANGED <<clock, created>>
BY DEF CleanupTtl, StoreTypeOK

\* Over the cap the dict is listed, otherwise the clean-up is over.
LEMMA CapFacts ==
    ASSUME StoreTypeOK, NEW r \in Request, CleanupCap(r)
    PROVE  /\ cleaner[r].pc = "cap" /\ UNCHANGED <<clock, stored, created>>
           /\ cleaner' \in [Request -> CleanerState]
           /\ cleaner'[r].pc \in {"scan", "clean"} /\ cleaner'[r].snap \subseteq stored
           /\ cleaner'[r].pc = "scan" => cleaner'[r].snap = stored
           /\ cleaner'[r].own = cleaner[r].own
           /\ cleaner'[r].handler = cleaner[r].handler
           /\ \A s \in Request \ {r} : cleaner'[s] = cleaner[s]
<1>1. /\ cleaner[r].pc = "cap" /\ UNCHANGED <<clock, stored, created>>
      /\ CleanerGoto(r, "scan", stored, {}) \/ CleanerGoto(r, "clean", {}, {})
  BY DEF CleanupCap
<1>2. stored \in SUBSET Job /\ {} \in SUBSET Job
  BY DEF StoreTypeOK
<1>3. CASE CleanerGoto(r, "scan", stored, {})
  <2>1. "scan" \in {"cap", "scan", "pop", "clean", "stamped"}
    OBVIOUS
  <2>2. /\ cleaner' \in [Request -> CleanerState]
        /\ cleaner'[r].pc = "scan" /\ cleaner'[r].snap = stored
        /\ cleaner'[r].own = cleaner[r].own /\ cleaner'[r].handler = cleaner[r].handler
        /\ \A s \in Request \ {r} : cleaner'[s] = cleaner[s]
    BY <1>2, <1>3, <2>1, GotoFacts, ZenonT(30)
  <2> QED
    BY <1>1, <2>2
<1>4. CASE CleanerGoto(r, "clean", {}, {})
  BY <1>1, <1>2, <1>4, GotoFacts
<1> QED
  BY <1>1, <1>3, <1>4

LEMMA PopFacts ==
    ASSUME StoreTypeOK, NEW r \in Request, CleanupPop(r)
    PROVE  /\ cleaner[r].pc = "pop" /\ UNCHANGED <<clock, created>>
           /\ stored' = stored \ cleaner[r].victims
           /\ cleaner' \in [Request -> CleanerState]
           /\ cleaner'[r].pc = "clean" /\ cleaner'[r].snap = {}
           /\ cleaner'[r].own = cleaner[r].own
           /\ cleaner'[r].handler = cleaner[r].handler
           /\ \A s \in Request \ {r} : cleaner'[s] = cleaner[s]
<1>1. /\ cleaner[r].pc = "pop" /\ UNCHANGED <<clock, created>>
      /\ stored' = stored \ cleaner[r].victims
      /\ CleanerGoto(r, "clean", {}, {})
  BY DEF CleanupPop
<1>2. {} \in SUBSET Job
  BY Zenon
<1> QED
  BY <1>1, <1>2, GotoFacts

\* How the choice of victims goes on.
LEMMA ChooseFacts ==
    ASSUME StoreTypeOK, NEW r \in Request, CleanupChoose(r)
    PROVE  /\ cleaner[r].pc = "scan" /\ UNCHANGED <<clock, stored, created>>
           /\ cleaner' \in [Request -> CleanerState]
           /\ cleaner'[r].pc = "pop" /\ cleaner'[r].snap = cleaner[r].snap
           /\ cleaner'[r].victims \subseteq Prunable(r)
           /\ OldestOf(cleaner'[r].victims, Prunable(r), Cardinality(stored) - MaxJobs)
           /\ cleaner'[r].own = cleaner[r].own
           /\ cleaner'[r].handler = cleaner[r].handler
           /\ \A s \in Request \ {r} : cleaner'[s] = cleaner[s]
<1>1. PICK V \in SUBSET Prunable(r) :
          /\ OldestOf(V, Prunable(r), Cardinality(stored) - MaxJobs)
          /\ CleanerGoto(r, "pop", cleaner[r].snap, V)
  BY DEF CleanupChoose
<1>2. cleaner[r].pc = "scan" /\ UNCHANGED <<clock, stored, created>>
  BY DEF CleanupChoose
<1>3. V \in SUBSET Job /\ cleaner[r].snap \in SUBSET Job
  BY <1>1 DEF Prunable, StoreTypeOK
<1>4. /\ cleaner' \in [Request -> CleanerState]
      /\ cleaner'[r].pc = "pop" /\ cleaner'[r].snap = cleaner[r].snap /\ cleaner'[r].victims = V
      /\ cleaner'[r].own = cleaner[r].own
      /\ cleaner'[r].handler = cleaner[r].handler
      /\ \A s \in Request \ {r} : cleaner'[s] = cleaner[s]
  BY <1>1, <1>3, GotoFacts
<1> QED
  BY <1>1, <1>2, <1>4

LEMMA StoreArriveStep ==
    ASSUME StoreInv, NEW r \in Request, Submit(r) \/ Poll(r)
    PROVE  StoreInv'
<1>1. PICK h \in Handler, j \in Job :
          CleanupTtl(r, h, j) /\ (h \in Submitter => Forgotten(j))
  BY DEF Submit, Poll, StoreInv, StoreTypeOK
<1>2. StoreTypeOK
  BY DEF StoreInv
<1>3. StoreTypeOK' /\ PastCreation'
  BY <1>1 DEF CleanupTtl, StoreInv, StoreTypeOK, PastCreation
<1>4. FreshId'
  BY <1>1, <1>2, TtlFacts DEF StoreInv, FreshId, Submitting, Forgotten
<1>5. VictimsAreOldest'
  BY <1>1, <1>2, TtlFacts DEF StoreInv, VictimsAreOldest
<1> QED
  BY <1>3, <1>4, <1>5 DEF StoreInv

LEMMA StoreCapStep ==
    ASSUME StoreInv, NEW r \in Request, CleanupCap(r)
    PROVE  StoreInv'
<1>1. StoreTypeOK
  BY DEF StoreInv
<1>2. StoreTypeOK' /\ PastCreation'
  BY <1>1, CapFacts DEF StoreInv, StoreTypeOK, PastCreation
<1>3. FreshId'
  BY <1>1, CapFacts DEF StoreInv, FreshId, Submitting
<1>4. VictimsAreOldest'
  BY <1>1, CapFacts DEF StoreInv, VictimsAreOldest
<1> QED
  BY <1>2, <1>3, <1>4 DEF StoreInv

LEMMA StoreChooseStep ==
    ASSUME StoreInv, NEW r \in Request, CleanupChoose(r)
    PROVE  StoreInv'
<1>1. StoreTypeOK
  BY DEF StoreInv
<1>2. StoreTypeOK' /\ PastCreation'
  BY <1>1, ChooseFacts DEF StoreInv, StoreTypeOK, PastCreation
<1>3. FreshId'
  BY <1>1, ChooseFacts DEF StoreInv, FreshId, Submitting
<1>4. /\ cleaner'[r].victims \subseteq cleaner[r].snap
      /\ \A v \in cleaner'[r].victims, w \in cleaner[r].snap \ cleaner'[r].victims :
            w # cleaner[r].own => created[v] <= created[w]
  BY <1>1, ChooseFacts DEF OldestOf, Prunable
<1> HIDE DEF CleanerState
<1>5. VictimsAreOldest'
  BY <1>1, <1>4, ChooseFacts DEF StoreInv, VictimsAreOldest
<1> QED
  BY <1>2, <1>3, <1>5 DEF StoreInv

LEMMA StorePopStep ==
    ASSUME StoreInv, NEW r \in Request, CleanupPop(r)
    PROVE  StoreInv'
<1>1. StoreTypeOK
  BY DEF StoreInv
<1>2. StoreTypeOK' /\ PastCreation'
  BY <1>1, PopFacts DEF StoreInv, StoreTypeOK, PastCreation
<1>3. FreshId'
  BY <1>1, PopFacts DEF StoreInv, FreshId, Submitting
<1>4. VictimsAreOldest'
  BY <1>1, PopFacts DEF StoreInv, VictimsAreOldest
<1> QED
  BY <1>2, <1>3, <1>4 DEF StoreInv

LEMMA StoreLeaveStep ==
    ASSUME StoreInv, NEW r \in Request, CleanupRaises(r) \/ Get(r)
    PROVE  StoreInv'
<1>1. CleanerLeaves(r) /\ UNCHANGED <<clock, stored, created>> /\ StoreTypeOK
  BY DEF CleanupRaises, Get, StoreInv
<1>2. StoreTypeOK' /\ PastCreation'
  BY <1>1, LeaveFacts DEF StoreInv, StoreTypeOK, PastCreation
<1>3. FreshId'
  BY <1>1, LeaveFacts DEF StoreInv, FreshId, Submitting
<1>4. VictimsAreOldest'
  BY <1>1, LeaveFacts DEF StoreInv, VictimsAreOldest
<1> QED
  BY <1>2, <1>3, <1>4 DEF StoreInv

\* The time is that of the entry to be inserted, and of no other.
LEMMA StampFacts ==
    ASSUME StoreInv, NEW r \in Request, Stamp(r)
    PROVE  /\ cleaner[r].pc = "clean" /\ Submitting(r)
           /\ cleaner[r].own \in Job \ stored
           /\ \A s \in Request : cleaner[r].own \notin cleaner[s].snap
           /\ cleaner' \in [Request -> CleanerState]
           /\ cleaner'[r].pc = "stamped" /\ cleaner'[r].snap = {}
           /\ cleaner'[r].own = cleaner[r].own /\ cleaner'[r].handler = cleaner[r].handler
           /\ \A s \in Request \ {r} : cleaner'[s] = cleaner[s]
           /\ UNCHANGED <<clock, stored>>
           /\ created'[cleaner[r].own] = clock
           /\ \A j \in Job \ {cleaner[r].own} : created'[j] = created[j]
           /\ created' \in [Job -> 0..MaxClock]
<1>1. /\ cleaner[r].pc = "clean" /\ Submitting(r)
      /\ CleanerGoto(r, "stamped", {}, {}) /\ UNCHANGED <<clock, stored>>
      /\ created' = [created EXCEPT ![cleaner[r].own] = clock]
  BY DEF Stamp, Submitting
<1>2. /\ cleaner[r].own \in Job \ stored
      /\ \A s \in Request : cleaner[r].own \notin cleaner[s].snap
  BY <1>1 DEF StoreInv, FreshId
<1>3. StoreTypeOK /\ {} \in SUBSET Job
  BY DEF StoreInv
<1>4. /\ cleaner' \in [Request -> CleanerState]
      /\ cleaner'[r].pc = "stamped" /\ cleaner'[r].snap = {}
      /\ cleaner'[r].own = cleaner[r].own /\ cleaner'[r].handler = cleaner[r].handler
      /\ \A s \in Request \ {r} : cleaner'[s] = cleaner[s]
  BY <1>1, <1>3, GotoFacts
<1>5. /\ created'[cleaner[r].own] = clock
      /\ \A j \in Job \ {cleaner[r].own} : created'[j] = created[j]
      /\ created' \in [Job -> 0..MaxClock]
  BY <1>1, <1>2, <1>3 DEF StoreTypeOK
<1> QED
  BY <1>1, <1>2, <1>4, <1>5

LEMMA StoreStampStep ==
    ASSUME StoreInv, NEW r \in Request, Stamp(r)
    PROVE  StoreInv'
<1>1. StoreTypeOK' /\ PastCreation'
  BY StampFacts DEF StoreInv, StoreTypeOK, PastCreation
<1>2. FreshId'
  BY StampFacts DEF StoreInv, FreshId, Submitting
<1>3. VictimsAreOldest'
  <2>1. \A s \in Request : cleaner[s].snap \subseteq Job
    BY DEF StoreInv, StoreTypeOK
  <2> QED
    BY <2>1, StampFacts DEF StoreInv, VictimsAreOldest
<1> QED
  BY <1>1, <1>2, <1>3 DEF StoreInv

LEMMA InsertFacts ==
    ASSUME StoreInv, NEW r \in Request, Insert(r)
    PROVE  /\ cleaner[r].pc = "stamped" /\ Submitting(r)
           /\ cleaner[r].own \in Job \ stored
           /\ \A s \in Request : cleaner[r].own \notin cleaner[s].snap
           /\ \A s \in Request \ {r} : Submitting(s) => cleaner[s].own # cleaner[r].own
           /\ cleaner' \in [Request -> CleanerState]
           /\ cleaner'[r] = IdleCleaner
           /\ \A s \in Request \ {r} : cleaner'[s] = cleaner[s]
           /\ UNCHANGED <<clock, created>>
           /\ stored' = stored \cup {cleaner[r].own}
<1>1. /\ cleaner[r].pc = "stamped" /\ Submitting(r)
      /\ CleanerLeaves(r) /\ UNCHANGED <<clock, created>>
      /\ stored' = stored \cup {cleaner[r].own} /\ StoreTypeOK
  BY DEF Insert, Submitting, StoreInv
<1>2. /\ cleaner[r].own \in Job \ stored
      /\ \A s \in Request : cleaner[r].own \notin cleaner[s].snap
      /\ \A s \in Request \ {r} : Submitting(s) => cleaner[s].own # cleaner[r].own
  BY <1>1 DEF StoreInv, FreshId
<1> QED
  BY <1>1, <1>2, LeaveFacts

LEMMA StoreInsertStep ==
    ASSUME StoreInv, NEW r \in Request, Insert(r)
    PROVE  StoreInv'
<1>1. StoreTypeOK' /\ PastCreation'
  BY InsertFacts DEF StoreInv, StoreTypeOK, PastCreation
<1>2. FreshId'
  BY InsertFacts DEF StoreInv, FreshId, Submitting
<1>3. VictimsAreOldest'
  BY InsertFacts DEF StoreInv, VictimsAreOldest
<1> QED
  BY <1>1, <1>2, <1>3 DEF StoreInv

LEMMA StoreInvStep == StoreInv /\ [StoreNext]_storeVars => StoreInv'
<1> SUFFICES ASSUME StoreInv, [StoreNext]_storeVars PROVE StoreInv'
  OBVIOUS
<1>1. CASE StoreTick
  BY <1>1, StoreAssumption
  DEF StoreTick, StoreInv, StoreTypeOK, PastCreation, FreshId, VictimsAreOldest, Submitting
<1>2. CASE UNCHANGED storeVars
  BY <1>2 DEF storeVars, StoreInv, StoreTypeOK, PastCreation, FreshId,
              VictimsAreOldest, Submitting
<1> QED
  BY <1>1, <1>2, StoreArriveStep, StoreCapStep, StoreChooseStep, StorePopStep, StoreLeaveStep,
     StoreStampStep, StoreInsertStep
  DEF StoreNext, Clean

\* The variables of the store always have their types.
THEOREM StoreTypeCorrect == StoreSpec => []StoreTypeOK
<1>1. StoreInv => StoreTypeOK
  BY DEF StoreInv
<1> QED
  BY <1>1, StoreInitInv, StoreInvStep, PTL DEF StoreSpec

-----------------------------------------------------------------------------
(* The order of eviction.  FewStrays is inductive because strays are only  *)
(* made before the list is: at the moment of the listing they are entries  *)
(* that other handlers have stamped, and whoever stamps later is younger.  *)

\* The size of a set of jobs.
LEMMA SizeOf ==
    ASSUME NEW S \in SUBSET Job
    PROVE  /\ IsFiniteSet(S) /\ Cardinality(S) \in Nat
           /\ \A T \in SUBSET S : Cardinality(T) <= Cardinality(S)
BY StoreAssumption, FS_Subset, FS_CardinalityType

\* The entries stamped while r is elsewhere come from the other requests.
LEMMA StampedByOthers ==
    ASSUME StoreTypeOK, NEW r \in Request, cleaner[r].pc # "stamped"
    PROVE  Cardinality(Stamped) < Cardinality(Request)
<1> DEFINE D == {t \in Request : cleaner[t].pc = "stamped"}
           f == [t \in D |-> cleaner[t].own]
<1>1. f \in Surjection(D, Stamped)
  BY DEF Stamped, Surjection
<1>2. D \in SUBSET (Request \ {r})
  OBVIOUS
<1> HIDE DEF D, f
<1>3. IsFiniteSet(Request \ {r}) /\ Cardinality(Request \ {r}) = Cardinality(Request) - 1
  BY StoreAssumption, FS_RemoveElement
<1>4. IsFiniteSet(D) /\ Cardinality(D) <= Cardinality(Request \ {r})
  BY <1>2, <1>3, FS_Subset
<1>5. IsFiniteSet(Stamped) /\ Cardinality(Stamped) <= Cardinality(D)
  BY <1>1, <1>4, FS_Surjection
<1>6. Cardinality(Stamped) \in Nat /\ Cardinality(D) \in Nat /\ Cardinality(Request) \in Nat
  BY <1>4, <1>5, StoreAssumption, FS_CardinalityType
<1> QED
  BY <1>3, <1>4, <1>5, <1>6

\* A step that neither makes nor moves a list of r leaves no more strays.
NoNewStrays(r) ==
    /\ cleaner'[r].snap = cleaner[r].snap
    /\ \A w \in (stored' \cup Stamped') \ cleaner[r].snap, v \in cleaner[r].snap :
          created'[w] < created'[v] =>
              w \in stored \cup Stamped /\ created[w] < created[v]

LEMMA StraysShrink ==
    ASSUME StoreTypeOK, NEW r \in Request, NoNewStrays(r),
           Stamped \in SUBSET Job,
           Cardinality(Strays(r)) < Cardinality(Request)
    PROVE  Cardinality(Strays(r)') < Cardinality(Request)
<1>1. Strays(r)' \in SUBSET Strays(r) /\ Strays(r) \in SUBSET Job
  BY DEF Strays, NoNewStrays, StoreTypeOK
<1>2. PICK a \in Nat, b \in Nat, n \in Nat :
          a = Cardinality(Strays(r)) /\ b = Cardinality(Strays(r)') /\ n = Cardinality(Request)
  BY <1>1, SizeOf, StoreAssumption, FS_CardinalityType
<1>3. b <= a
  BY <1>1, <1>2, SizeOf
<1> QED
  BY <1>2, <1>3

LEMMA StrayStep == StoreInv /\ FewStrays /\ [StoreNext]_storeVars => FewStrays'
<1> SUFFICES ASSUME StoreInv, FewStrays, [StoreNext]_storeVars,
                    NEW r \in Request, cleaner'[r].pc \in {"scan", "pop"}
             PROVE  Cardinality(Strays(r)') < Cardinality(Request)
  BY DEF FewStrays
<1>1. StoreTypeOK
  BY DEF StoreInv
<1>2. Stamped \in SUBSET Job
  BY DEF StoreInv, FreshId, Stamped, Submitting
<1>3. ASSUME NoNewStrays(r), cleaner[r].pc \in {"scan", "pop"}
      PROVE  Cardinality(Strays(r)') < Cardinality(Request)
  BY <1>1, <1>2, <1>3, StraysShrink DEF FewStrays
<1>4. CASE StoreTick \/ UNCHANGED storeVars
  <2>1. UNCHANGED <<stored, created, cleaner>>
    BY <1>4 DEF StoreTick, storeVars
  <2>2. NoNewStrays(r)
    BY <2>1 DEF NoNewStrays, Stamped
  <2> QED
    BY <1>3, <2>1, <2>2
<1>5. ASSUME NEW s \in Request, Submit(s) \/ Poll(s)
      PROVE  Cardinality(Strays(r)') < Cardinality(Request)
  <2>1. PICK h \in Handler, j \in Job : CleanupTtl(s, h, j)
    BY <1>1, <1>5 DEF Submit, Poll, StoreTypeOK
  <2>2. r # s /\ cleaner'[r] = cleaner[r]
    BY <1>1, <2>1, TtlFacts
  <2>3. Stamped' \subseteq Stamped
    BY <1>1, <2>1, TtlFacts DEF Stamped
  <2>4. NoNewStrays(r)
    BY <1>1, <2>1, <2>2, <2>3, TtlFacts DEF NoNewStrays
  <2> QED
    BY <1>3, <2>2, <2>4
<1>6. ASSUME NEW s \in Request, CleanupCap(s)
      PROVE  Cardinality(Strays(r)') < Cardinality(Request)
  <2>1. cleaner[s].pc = "cap" /\ UNCHANGED <<stored, created>>
    BY <1>1, <1>6, CapFacts
  <2>2. /\ \A t \in Request \ {s} : cleaner'[t] = cleaner[t]
        /\ cleaner'[s].pc \in {"scan", "clean"}
        /\ cleaner'[s].pc = "scan" => cleaner'[s].snap = stored
    BY <1>1, <1>6, CapFacts
  <2>3. Stamped' = Stamped
    BY <2>1, <2>2 DEF Stamped
  <2>4. CASE r = s
    <3>1. Strays(r)' \in SUBSET Stamped
      BY <2>1, <2>2, <2>3, <2>4 DEF Strays
    <3>2. Cardinality(Stamped) < Cardinality(Request)
      BY <1>1, <2>1, StampedByOthers
    <3>3. PICK a \in Nat, b \in Nat, n \in Nat :
              a = Cardinality(Stamped) /\ b = Cardinality(Strays(r)') /\ n = Cardinality(Request)
      BY <1>2, <3>1, SizeOf, StoreAssumption, FS_CardinalityType
    <3>4. b <= a
      BY <1>2, <3>1, <3>3, SizeOf
    <3> QED
      BY <3>2, <3>3, <3>4
  <2>5. CASE r # s
    <3>1. NoNewStrays(r)
      BY <2>1, <2>2, <2>3, <2>5 DEF NoNewStrays
    <3> QED
      BY <1>3, <2>2, <2>5, <3>1
  <2> QED
    BY <2>4, <2>5
<1>7. ASSUME NEW s \in Request, CleanupChoose(s)
      PROVE  Cardinality(Strays(r)') < Cardinality(Request)
  <2>1. Stamped' = Stamped
    BY <1>1, <1>7, ChooseFacts DEF Stamped
  <2>2. cleaner'[r].snap = cleaner[r].snap /\ cleaner[r].pc \in {"scan", "pop"}
    BY <1>1, <1>7, ChooseFacts
  <2>3. NoNewStrays(r)
    BY <1>1, <1>7, <2>1, <2>2, ChooseFacts DEF NoNewStrays
  <2> QED
    BY <1>3, <2>2, <2>3
<1>8. ASSUME NEW s \in Request, CleanupPop(s) \/ CleanupRaises(s) \/ Get(s)
      PROVE  Cardinality(Strays(r)') < Cardinality(Request)
  <2>1. \/ CleanupPop(s)
        \/ CleanerLeaves(s) /\ UNCHANGED <<stored, created>>
    BY <1>8 DEF CleanupRaises, Get
  <2>2. /\ \A t \in Request \ {s} : cleaner'[t] = cleaner[t]
        /\ cleaner'[s].pc \in {"clean", "idle"}
        /\ stored' \subseteq stored /\ created' = created
    BY <1>1, <2>1, PopFacts, LeaveFacts
  <2>3. Stamped' \subseteq Stamped /\ r # s
    BY <2>2 DEF Stamped
  <2>4. NoNewStrays(r)
    BY <2>1, <2>2, <2>3 DEF NoNewStrays
  <2> QED
    BY <1>3, <2>2, <2>3, <2>4
<1>9. ASSUME NEW s \in Request, Stamp(s)
      PROVE  Cardinality(Strays(r)') < Cardinality(Request)
  <2> DEFINE own == cleaner[s].own
  <2>1. r # s /\ cleaner'[r] = cleaner[r]
    BY <1>9, StampFacts DEF StoreInv
  <2>2. Stamped' \subseteq Stamped \cup {own}
    BY <1>9, StampFacts DEF Stamped
  <2>3. ASSUME NEW w \in (stored' \cup Stamped') \ cleaner[r].snap, NEW v \in cleaner[r].snap,
               created'[w] < created'[v]
        PROVE  w \in stored \cup Stamped /\ created[w] < created[v]
    <3>1. v \in Job /\ v # own /\ created'[v] = created[v] /\ created[v] <= clock
      BY <1>1, <1>9, StampFacts DEF StoreInv, PastCreation, StoreTypeOK
    <3>2. w # own
      BY <1>1, <1>9, <2>3, <3>1, StampFacts DEF StoreTypeOK
    <3>3. w \in stored \cup Stamped /\ w \in Job
      BY <1>1, <1>2, <1>9, <2>2, <3>2, StampFacts DEF StoreTypeOK
    <3>4. created'[w] = created[w]
      BY <1>9, <3>2, <3>3, StampFacts
    <3> QED
      BY <2>3, <3>1, <3>3, <3>4
  <2>4. NoNewStrays(r)
    BY <2>1, <2>3 DEF NoNewStrays
  <2> QED
    BY <1>3, <2>1, <2>4
<1>10. ASSUME NEW s \in Request, Insert(s)
       PROVE  Cardinality(Strays(r)') < Cardinality(Request)
  <2>1. r # s /\ cleaner'[r] = cleaner[r]
    BY <1>10, InsertFacts
  <2>2. cleaner[s].own \in Stamped /\ Stamped' \subseteq Stamped
    BY <1>10, InsertFacts DEF Stamped
  <2>3. NoNewStrays(r)
    BY <1>10, <2>1, <2>2, InsertFacts DEF NoNewStrays
  <2> QED
    BY <1>3, <2>1, <2>3
<1> QED
  BY <1>4, <1>5, <1>6, <1>7, <1>8, <1>9, <1>10 DEF StoreNext, Clean

\* However clean-ups overlap and however late a handler inserts what it has
\* stamped: an entry is only overtaken when it was not listed, and there are
\* fewer such entries than requests.
THEOREM OldestFirstAlways == StoreSpec => OldestFirst
<1> DEFINE Overtaken(r) == {k \in stored \cap stored' :
                              /\ k # cleaner'[r].own
                              /\ \E j \in stored \ stored' : created[k] < created[j]}
           Ordered == \A r \in Request : cleaner'[r] # cleaner[r] =>
                         /\ Overtaken(r) \cap cleaner[r].snap = {}
                         /\ Cardinality(Overtaken(r)) < Cardinality(Request)
<1>1. StoreInv /\ FewStrays /\ [StoreNext]_storeVars => [Ordered]_storeVars
  <2> SUFFICES ASSUME StoreInv, FewStrays, StoreNext, NEW r \in Request, cleaner'[r] # cleaner[r]
               PROVE  /\ Overtaken(r) \cap cleaner[r].snap = {}
                      /\ Cardinality(Overtaken(r)) < Cardinality(Request)
    OBVIOUS
  <2>1. StoreTypeOK
    BY DEF StoreInv
  <2>2. ASSUME Overtaken(r) = {}
        PROVE  /\ Overtaken(r) \cap cleaner[r].snap = {}
               /\ Cardinality(Overtaken(r)) < Cardinality(Request)
    <3>1. Cardinality(Request) \in Nat /\ Cardinality(Request) # 0
      BY StoreAssumption, FS_EmptySet, FS_CardinalityType
    <3>2. Cardinality(Overtaken(r)) = 0
      BY <2>2, FS_EmptySet
    <3> QED
      BY <2>2, <3>1, <3>2
  <2>3. CASE stored \subseteq stored'
    <3>1. Overtaken(r) = {}
      BY <2>3
    <3> QED
      BY <2>2, <3>1
  <2>4. CASE \E s \in Request : Submit(s) \/ Poll(s)
    <3>1. PICK s \in Request, h \in Handler, own \in Job : CleanupTtl(s, h, own)
      BY <2>1, <2>4 DEF Submit, Poll, StoreTypeOK
    <3>2. s = r /\ cleaner'[r].own = own
      BY <2>1, <3>1, TtlFacts
    <3>3. \A j \in stored, k \in stored : Expired(j) /\ created[k] < created[j] => Expired(k)
      BY StoreAssumption, <2>1 DEF Expired, StoreTypeOK
    <3>4. stored' = {j \in stored : Expired(j) => j = own}
      BY <3>1 DEF CleanupTtl
    <3>5. Overtaken(r) = {}
      BY <3>2, <3>3, <3>4
    <3> QED
      BY <2>2, <3>5
  <2>5. CASE \E s \in Request : CleanupPop(s)
    <3>1. PICK s \in Request : CleanupPop(s)
      BY <2>5
    <3>2. cleaner[s].pc = "pop" /\ stored' = stored \ cleaner[s].victims
      BY <2>1, <3>1, PopFacts
    <3>3. s = r /\ cleaner'[r].own = cleaner[r].own
      BY <2>1, <3>1, PopFacts
    <3>4. /\ cleaner[r].victims \subseteq cleaner[r].snap
          /\ \A v \in cleaner[r].victims, w \in cleaner[r].snap \ cleaner[r].victims :
                w # cleaner[r].own => created[v] <= created[w]
      BY <3>2, <3>3 DEF StoreInv, VictimsAreOldest
    <3>5. \A j \in stored : created[j] \in Nat
      BY <2>1 DEF StoreTypeOK
    <3>6. Overtaken(r) \cap cleaner[r].snap = {}
      <4> SUFFICES ASSUME NEW k \in stored \cap stored', NEW j \in stored \ stored',
                          k # cleaner'[r].own, created[k] < created[j], k \in cleaner[r].snap
                   PROVE  FALSE
        OBVIOUS
      <4>1. j \in cleaner[r].victims /\ k \notin cleaner[r].victims
        BY <3>2, <3>3
      <4>2. created[j] <= created[k]
        BY <3>3, <3>4, <4>1
      <4> QED
        BY <3>5, <4>2
    <3>7. Overtaken(r) \in SUBSET Strays(r)
      <4> SUFFICES ASSUME NEW k \in Overtaken(r) PROVE k \in Strays(r)
        OBVIOUS
      <4>1. PICK j \in stored \ stored' : created[k] < created[j]
        OBVIOUS
      <4>2. j \in cleaner[r].snap
        BY <3>2, <3>3, <3>4
      <4>3. k \in stored \ cleaner[r].snap
        BY <3>6
      <4> QED
        BY <4>1, <4>2, <4>3 DEF Strays
    <3>8. Strays(r) \in SUBSET Job
      BY <2>1 DEF Strays, StoreTypeOK, StoreInv, FreshId, Stamped, Submitting
    <3> HIDE DEF Overtaken
    <3>9. PICK a \in Nat, b \in Nat, n \in Nat :
              /\ a = Cardinality(Strays(r)) /\ b = Cardinality(Overtaken(r))
              /\ n = Cardinality(Request)
      BY <3>7, <3>8, SizeOf, StoreAssumption, FS_CardinalityType
    <3>10. b <= a /\ a < n
      BY <3>2, <3>3, <3>7, <3>8, <3>9, SizeOf DEF FewStrays
    <3> QED
      BY <3>6, <3>9, <3>10
  <2> QED
    BY <2>3, <2>4, <2>5 DEF StoreNext, StoreTick, Clean, CleanupCap, CleanupRaises,
           CleanupChoose, Stamp, Insert, Get
<1>2. StoreInit => FewStrays
  BY DEF StoreInit, FewStrays
<1> QED
  BY <1>1, <1>2, StoreInitInv, StoreInvStep, StrayStep, PTL DEF StoreSpec, OldestFirst

-----------------------------------------------------------------------------
(* The bound of the store.  RoomLeft is the inductive invariant: take some *)
(* of the clean-ups that have listed their candidates.  Either so little   *)
(* is stored that each of them and of the handlers whose dict is clean may *)
(* insert an entry, and each other request two, or one of them will still  *)
(* drop enough for that.                                                   *)

Busy  == {r \in Request : cleaner[r].pc \in {"scan", "pop"}}
Ready == {r \in Request : cleaner[r].pc \in {"clean", "stamped"}}

\* b more than the cap may be stored once the clean-ups in R are through.
Slack(R, b) == b + Cardinality(R) + Cardinality(Ready) = 2 * Cardinality(Request) - 1

\* Once the victims are popped no more than b entries beyond the cap are left.
\* A clean-up that is yet to choose takes as many as are there too many: all of
\* its list, or as many as there are, some of which are gone; the more of them
\* are gone the fewer are there too many.
Relieves(r, b) ==
    IF cleaner[r].pc = "pop"
    THEN Cardinality(stored \ cleaner[r].victims) <= MaxJobs + b
    ELSE /\ Cardinality(stored \cup Prunable(r)) <= MaxJobs + 2 * b + 1
         /\ Cardinality(stored \ Prunable(r)) <= MaxJobs + b

RoomLeft ==
    \A R \in SUBSET Busy, b \in Int : Slack(R, b) =>
        Cardinality(stored) <= MaxJobs + b \/ \E r \in R : Relieves(r, b)

LEMMA DisjointRequests ==
    ASSUME NEW R \in SUBSET Request, NEW D \in SUBSET Request, R \cap D = {}
    PROVE  /\ Cardinality(Request) \in Nat /\ Cardinality(R) \in Nat /\ Cardinality(D) \in Nat
           /\ IsFiniteSet(R) /\ IsFiniteSet(D)
           /\ Cardinality(R) + Cardinality(D) <= Cardinality(Request)
<1>1. IsFiniteSet(R) /\ IsFiniteSet(D) /\ IsFiniteSet(R \cup D)
  BY StoreAssumption, FS_Subset, FS_Union
<1>2. Cardinality(R \cup D) = Cardinality(R) + Cardinality(D) - Cardinality(R \cap D)
  BY <1>1, FS_Union
<1>3. Cardinality(R \cap D) = 0
  BY FS_EmptySet
<1>4. Cardinality(R \cup D) <= Cardinality(Request)
  BY StoreAssumption, FS_Subset
<1>5. Cardinality(Request) \in Nat /\ Cardinality(R) \in Nat /\ Cardinality(D) \in Nat
  BY <1>1, StoreAssumption, FS_CardinalityType
<1> QED
  BY <1>1, <1>2, <1>3, <1>4, <1>5

\* The slack is a number of requests.
LEMMA SlackFacts ==
    ASSUME NEW R \in SUBSET Busy
    PROVE  /\ Cardinality(Request) \in Nat /\ Cardinality(R) \in Nat
           /\ IsFiniteSet(R) /\ IsFiniteSet(Ready)
           /\ Cardinality(Ready) \in Nat
           /\ Cardinality(R) + Cardinality(Ready) <= Cardinality(Request)
           /\ \A b \in Int : Slack(R, b) => b >= Cardinality(Request) - 1
<1>1. R \in SUBSET Request /\ Ready \in SUBSET Request /\ R \cap Ready = {}
  BY DEF Busy, Ready
<1>2. /\ Cardinality(Request) \in Nat /\ Cardinality(R) \in Nat /\ Cardinality(Ready) \in Nat
      /\ IsFiniteSet(R) /\ IsFiniteSet(Ready)
      /\ Cardinality(R) + Cardinality(Ready) <= Cardinality(Request)
  BY <1>1, DisjointRequests
<1>3. \A b \in Int : Slack(R, b) => b >= Cardinality(Request) - 1
  BY <1>2 DEF Slack
<1> QED
  BY <1>2, <1>3

LEMMA SlackFactsNext ==
    ASSUME NEW R \in SUBSET Busy', NEW b \in Int, Slack(R, b)'
    PROVE  /\ Cardinality(Request) \in Nat /\ Cardinality(R) \in Nat
           /\ Cardinality(Ready') \in Nat
           /\ b + Cardinality(R) + Cardinality(Ready') = 2 * Cardinality(Request) - 1
           /\ Cardinality(R) + Cardinality(Ready') <= Cardinality(Request)
           /\ b >= Cardinality(Request) - 1
<1> DEFINE D == Ready'
<1>1. R \in SUBSET Request /\ D \in SUBSET Request /\ R \cap D = {}
  BY DEF Busy, Ready
<1>2. b + Cardinality(R) + Cardinality(D) = 2 * Cardinality(Request) - 1
  BY DEF Slack
<1> HIDE DEF D
<1>3. /\ Cardinality(Request) \in Nat /\ Cardinality(R) \in Nat /\ Cardinality(D) \in Nat
      /\ Cardinality(R) + Cardinality(D) <= Cardinality(Request)
  BY <1>1, DisjointRequests
<1>4. b >= Cardinality(Request) - 1
  BY <1>2, <1>3
<1> QED
  BY <1>2, <1>3, <1>4 DEF D

LEMMA GrowsBy ==
    ASSUME NEW S \in SUBSET Job, NEW E \in SUBSET Job, NEW T \in SUBSET (S \cup E)
    PROVE  Cardinality(T) <= Cardinality(S) + Cardinality(E)
<1>1. IsFiniteSet(S) /\ IsFiniteSet(E) /\ S \cup E \in SUBSET Job /\ S \cap E \in SUBSET Job
  BY SizeOf
<1>2. Cardinality(S \cup E) = Cardinality(S) + Cardinality(E) - Cardinality(S \cap E)
  BY <1>1, FS_Union
<1>3. Cardinality(T) <= Cardinality(S \cup E)
  BY <1>1, SizeOf
<1>4. /\ Cardinality(S) \in Nat /\ Cardinality(E) \in Nat /\ Cardinality(S \cap E) \in Nat
      /\ Cardinality(T) \in Nat
  BY <1>1, SizeOf
<1> QED
  BY <1>2, <1>3, <1>4

\* A clean-up that goes on keeps what it relieves, but for what is inserted.
LEMMA ReliefKept ==
    ASSUME StoreTypeOK, StoreTypeOK', NEW s \in Request, cleaner'[s] = cleaner[s],
           NEW E \in SUBSET Job, stored' \subseteq stored \cup E,
           NEW b \in Int, NEW c \in Int, b + Cardinality(E) <= c, Relieves(s, b)
    PROVE  Relieves(s, c)'
<1> DEFINE P == Prunable(s)
           V == cleaner[s].victims
<1>1. P \in SUBSET Job /\ V \in SUBSET Job /\ stored \in SUBSET Job /\ stored' \in SUBSET Job
  BY DEF StoreTypeOK, Prunable
<1>2. P' = P /\ V' = V
  BY DEF Prunable
<1> HIDE DEF P, V
<1>3. /\ Cardinality(stored' \ V) <= Cardinality(stored \ V) + Cardinality(E)
      /\ Cardinality(stored' \ P) <= Cardinality(stored \ P) + Cardinality(E)
      /\ Cardinality(stored' \cup P) <= Cardinality(stored \cup P) + Cardinality(E)
  BY <1>1, GrowsBy
<1>4. /\ Cardinality(stored \ V) \in Nat /\ Cardinality(stored' \ V) \in Nat
      /\ Cardinality(stored \ P) \in Nat /\ Cardinality(stored' \ P) \in Nat
      /\ Cardinality(stored \cup P) \in Nat /\ Cardinality(stored' \cup P) \in Nat
      /\ Cardinality(E) \in Nat
  BY <1>1, SizeOf
<1>5. MaxJobs \in Nat
  BY StoreAssumption
<1>6. CASE cleaner[s].pc = "pop"
  <2>1. Cardinality(stored \ V) <= MaxJobs + b
    BY <1>6 DEF Relieves, V
  <2>2. Cardinality(stored' \ V) <= MaxJobs + c
    BY <1>3, <1>4, <1>5, <2>1
  <2> QED
    BY <1>2, <1>6, <2>2 DEF Relieves, V
<1>7. CASE cleaner[s].pc # "pop"
  <2>1. /\ Cardinality(stored \cup P) <= MaxJobs + 2 * b + 1
        /\ Cardinality(stored \ P) <= MaxJobs + b
    BY <1>7 DEF Relieves, P
  <2>2. /\ Cardinality(stored' \cup P) <= MaxJobs + 2 * c + 1
        /\ Cardinality(stored' \ P) <= MaxJobs + c
    BY <1>3, <1>4, <1>5, <2>1
  <2> QED
    BY <1>2, <1>7, <2>2 DEF Relieves, P
<1> QED
  BY <1>6, <1>7

\* A step in which nothing comes in and no clean-up changes but those that end.
LEMMA EasedStep ==
    ASSUME StoreTypeOK, StoreTypeOK', RoomLeft, stored' \subseteq stored,
           Ready' \subseteq Ready,
           \A s \in Busy' : s \in Busy /\ cleaner'[s] = cleaner[s]
    PROVE  RoomLeft'
<1> SUFFICES ASSUME NEW R \in SUBSET Busy', NEW c \in Int, Slack(R, c)'
             PROVE  Cardinality(stored') <= MaxJobs + c \/ \E r \in R : Relieves(r, c)'
  BY DEF RoomLeft
<1>1. R \in SUBSET Busy /\ R \subseteq Request
  BY DEF Busy
<1>2. /\ Cardinality(R) \in Nat /\ Cardinality(Ready) \in Nat /\ Cardinality(Ready') \in Nat
      /\ Cardinality(Request) \in Nat /\ Cardinality(Ready') <= Cardinality(Ready)
  BY <1>1, SlackFacts, FS_Subset, FS_CardinalityType
<1>3. PICK b \in Int : Slack(R, b) /\ b <= c
  <2> DEFINE b == 2 * Cardinality(Request) - 1 - Cardinality(R) - Cardinality(Ready)
  <2>1. b \in Int /\ Slack(R, b) /\ b <= c
    BY <1>2 DEF Slack
  <2> QED
    BY <2>1
<1>4. Cardinality({}) = 0
  BY FS_EmptySet
<1>5. CASE Cardinality(stored) <= MaxJobs + b
  <2>1. /\ Cardinality(stored') <= Cardinality(stored)
        /\ Cardinality(stored) \in Nat /\ Cardinality(stored') \in Nat
    BY SizeOf DEF StoreTypeOK
  <2> QED
    BY <1>3, <1>5, <2>1, StoreAssumption
<1>6. ASSUME NEW r \in R, Relieves(r, b)
      PROVE  Relieves(r, c)'
  <2>1. r \in Request /\ cleaner'[r] = cleaner[r]
    BY <1>1
  <2>2. {} \in SUBSET Job /\ b + Cardinality({}) <= c /\ stored' \subseteq stored \cup {}
    BY <1>3, <1>4
  <2> HIDE DEF CleanerState
  <2> QED
    BY <1>3, <1>6, <2>1, <2>2, ReliefKept
<1>7. Cardinality(stored) <= MaxJobs + b \/ \E r \in R : Relieves(r, b)
  BY <1>1, <1>3 DEF RoomLeft
<1> QED
  BY <1>5, <1>6, <1>7

\* A handler inserts its entry, and may insert two more.
LEMMA InsertKeepsRoom ==
    ASSUME StoreInv, StoreTypeOK', RoomLeft, NEW r \in Request, Insert(r)
    PROVE  RoomLeft'
<1>1. /\ r \in Ready /\ cleaner[r].own \in Job
      /\ stored' = stored \cup {cleaner[r].own}
      /\ cleaner'[r].pc = "idle"
      /\ \A s \in Request \ {r} : cleaner'[s] = cleaner[s]
  BY InsertFacts DEF Ready
<1>2. Busy' = Busy /\ Ready' = Ready \ {r} /\ r \notin Busy
  BY <1>1 DEF Busy, Ready
<1> SUFFICES ASSUME NEW R \in SUBSET Busy, NEW c \in Int, Slack(R, c)'
             PROVE  Cardinality(stored') <= MaxJobs + c \/ \E s \in R : Relieves(s, c)'
  BY <1>2 DEF RoomLeft
<1>3. StoreTypeOK
  BY DEF StoreInv
<1>4. /\ Cardinality(R) \in Nat /\ Cardinality(Ready) \in Nat /\ Cardinality(Request) \in Nat
      /\ Cardinality(Ready \ {r}) = Cardinality(Ready) - 1
  BY <1>1, <1>3, SlackFacts, FS_RemoveElement
<1>5. PICK b \in Int : Slack(R, b) /\ c = b + 1
  <2>1. c - 1 \in Int /\ Slack(R, c - 1)
    BY <1>2, <1>4 DEF Slack
  <2> QED
    BY <2>1
<1> DEFINE E == {cleaner[r].own}
<1>6. E \in SUBSET Job /\ Cardinality(E) = 1 /\ stored' = stored \cup E
  BY <1>1, FS_Singleton
<1> HIDE DEF E
<1>7. CASE Cardinality(stored) <= MaxJobs + b
  <2>1. /\ Cardinality(stored') <= Cardinality(stored) + 1
        /\ Cardinality(stored) \in Nat /\ Cardinality(stored') \in Nat
    BY <1>3, <1>6, GrowsBy, SizeOf DEF StoreTypeOK
  <2> QED
    BY <1>5, <1>7, <2>1, StoreAssumption
<1>8. ASSUME NEW s \in R, Relieves(s, b)
      PROVE  Relieves(s, c)'
  <2>1. s \in Request /\ cleaner'[s] = cleaner[s]
    BY <1>1, <1>2 DEF Busy
  <2> QED
    BY <1>3, <1>5, <1>6, <1>8, <2>1, ReliefKept
<1>9. Cardinality(stored) <= MaxJobs + b \/ \E s \in R : Relieves(s, b)
  BY <1>5 DEF RoomLeft
<1> QED
  BY <1>7, <1>8, <1>9

\* Under the cap all requests may insert an entry.
LEMMA CapKeepsRoom ==
    ASSUME StoreInv, StoreTypeOK', RoomLeft, NEW r \in Request, CleanupCap(r)
    PROVE  RoomLeft'
<1>1. StoreTypeOK /\ stored' = stored /\ cleaner[r].pc = "cap"
  BY DEF CleanupCap, StoreInv
<1>2. /\ Cardinality(stored) \in Nat /\ MaxJobs \in Nat \ {0}
      /\ Cardinality(Request) \in Nat
  BY <1>1, SizeOf, StoreAssumption, FS_CardinalityType DEF StoreTypeOK
<1>3. CASE Cardinality(stored) <= MaxJobs
  <2> SUFFICES ASSUME NEW R \in SUBSET Busy', NEW c \in Int, Slack(R, c)'
               PROVE  Cardinality(stored) <= MaxJobs + c
    BY <1>1 DEF RoomLeft
  <2>1. c >= Cardinality(Request) - 1
    BY SlackFactsNext
  <2>2. Cardinality(Request) # 0
    BY StoreAssumption, FS_EmptySet
  <2> QED
    BY <1>2, <1>3, <2>1, <2>2
<1>4. CASE Cardinality(stored) > MaxJobs
  <2>1. CleanerGoto(r, "scan", stored, {}) /\ {} \in SUBSET Job /\ stored \in SUBSET Job
    BY <1>1, <1>2, <1>4 DEF CleanupCap, StoreTypeOK
  <2>2. /\ cleaner'[r].pc = "scan" /\ cleaner'[r].snap = stored
        /\ \A s \in Request \ {r} : cleaner'[s] = cleaner[s]
    BY <1>1, <2>1, GotoFacts DEF StoreTypeOK
  <2>3. Busy' = Busy \cup {r} /\ Ready' = Ready
    BY <1>1, <2>2 DEF Busy, Ready
  <2> SUFFICES ASSUME NEW R \in SUBSET Busy', NEW b \in Int, Slack(R, b)'
               PROVE  Cardinality(stored) <= MaxJobs + b \/ \E s \in R : Relieves(s, b)'
    BY <1>1 DEF RoomLeft
  <2>4. CASE r \notin R
    <3>1. R \in SUBSET Busy /\ Slack(R, b)
      BY <2>3, <2>4 DEF Slack
    <3>2. ASSUME NEW s \in R, Relieves(s, b)
          PROVE  Relieves(s, b)'
      <4>1. s # r /\ s \in Request
        BY <2>4, <3>1 DEF Busy
      <4> QED
        BY <1>1, <2>2, <3>2, <4>1 DEF Relieves, Prunable
    <3> QED
      BY <3>1, <3>2 DEF RoomLeft
  <2>5. CASE r \in R
    <3>1. PICK a \in Int : Slack({}, a)
      <4> DEFINE a == 2 * Cardinality(Request) - 1 - Cardinality({}) - Cardinality(Ready)
      <4>1. a \in Int /\ Slack({}, a)
        BY <1>1, SlackFacts DEF Slack
      <4> QED
        BY <4>1
    <3>2. Cardinality(stored) <= MaxJobs + a
      BY <3>1 DEF RoomLeft
    <3>3. a <= 2 * b + 1 /\ 0 <= b
      <4>1. /\ b + Cardinality(R) + Cardinality(Ready) = 2 * Cardinality(Request) - 1
            /\ Cardinality(R) + Cardinality(Ready) <= Cardinality(Request)
            /\ Cardinality(R) \in Nat /\ Cardinality(Ready) \in Nat
        BY <2>3, SlackFactsNext
      <4>2. a <= 2 * Cardinality(Request) - 1
        BY <1>1, <3>1, SlackFacts DEF Slack
      <4>3. Cardinality(Request) # 0
        BY StoreAssumption, FS_EmptySet
      <4> QED
        BY <1>2, <4>1, <4>2, <4>3
    <3> DEFINE P == stored \ {cleaner'[r].own}
    <3>4. Prunable(r)' = P /\ stored \cup P = stored
      BY <2>2 DEF Prunable
    <3>5. Cardinality(stored \ P) <= 1
      <4>1. stored \ P \in SUBSET {cleaner'[r].own}
        OBVIOUS
      <4>2. IsFiniteSet({cleaner'[r].own}) /\ Cardinality({cleaner'[r].own}) = 1
        BY FS_Singleton
      <4> QED
        BY <4>1, <4>2, FS_Subset
    <3>6. Cardinality(stored \ P) \in Nat
      BY <1>1, SizeOf DEF StoreTypeOK
    <3> HIDE DEF P
    <3>7. /\ Cardinality(stored \cup P) <= MaxJobs + 2 * b + 1
          /\ Cardinality(stored \ P) <= MaxJobs + b
      <4>1. PICK n \in Nat : n = Cardinality(stored)
        BY <1>2
      <4>2. PICK k \in Nat : k = Cardinality(stored \ P)
        BY <3>6
      <4>3. n <= MaxJobs + 2 * b + 1 /\ k <= MaxJobs + b
        BY <1>2, <3>2, <3>3, <3>5, <4>1, <4>2
      <4> QED
        BY <3>4, <4>1, <4>2, <4>3
    <3>8. Relieves(r, b)'
      BY <1>1, <2>2, <3>4, <3>7 DEF Relieves
    <3> QED
      BY <2>5, <3>8
  <2> QED
    BY <2>4, <2>5
<1> QED
  BY <1>2, <1>3, <1>4

\* What a clean-up leaves that chooses its victims from a list P, some of which
\* may be gone: either there was no more than b too much, or there is not then.
LEMMA ChoiceRelieves ==
    ASSUME NEW S \in SUBSET Job, NEW P \in SUBSET Job, NEW V \in SUBSET P, NEW b \in Nat,
           OldestOf(V, P, Cardinality(S) - MaxJobs),
           Cardinality(S \cup P) <= MaxJobs + 2 * b + 1,
           Cardinality(S \ P) <= MaxJobs + b
    PROVE  Cardinality(S) <= MaxJobs + b \/ Cardinality(S \ V) <= MaxJobs + b
<1>1. PICK s \in Nat, m \in Nat, p \in Nat, v \in Nat :
          s = Cardinality(S) /\ m = MaxJobs /\ p = Cardinality(P) /\ v = Cardinality(V)
  BY StoreAssumption, SizeOf
<1>2. v = IF s - m <= 0 THEN 0 ELSE IF s - m < p THEN s - m ELSE p
  BY <1>1 DEF OldestOf
<1>3. CASE s <= m
  BY <1>1, <1>3
<1>4. CASE s > m /\ s - m < p
  <2>1. v = s - m
    BY <1>2, <1>4
  <2>2. PICK gone \in Nat, left \in Nat, all \in Nat, dead \in Nat, live \in Nat :
            /\ gone = Cardinality(P \ S) /\ left = Cardinality(S \ V)
            /\ all = Cardinality(S \cup P) /\ dead = Cardinality(V \ S)
            /\ live = Cardinality(S \cap V)
    BY SizeOf
  <2>3. all = s + gone
    <3>1. S \cup P = S \cup (P \ S) /\ S \cap (P \ S) = {}
      OBVIOUS
    <3>2. Cardinality(S \cup (P \ S)) = Cardinality(S) + Cardinality(P \ S) - Cardinality(S \cap (P \ S))
      BY SizeOf, FS_Union
    <3>3. Cardinality(S \cap (P \ S)) = 0
      BY <3>1, FS_EmptySet
    <3>4. S \cup P = S \cup (P \ S)
      OBVIOUS
    <3>5. Cardinality(S \cup P) = Cardinality(S) + Cardinality(P \ S) - 0
      BY <3>2, <3>3, <3>4
    <3>6. all = s + gone - 0
      BY <1>1, <2>2, <3>5
    <3> QED
      BY <3>6
  <2>4. left = s - live /\ dead = v - live
    <3>1. IsFiniteSet(S) /\ IsFiniteSet(V)
      <4>1. V \in SUBSET Job
        OBVIOUS
      <4> QED
        BY <4>1, SizeOf
    <3>2. Cardinality(S \ V) = Cardinality(S) - Cardinality(S \cap V)
      BY <3>1, FS_Difference
    <3>3. Cardinality(V \ S) = Cardinality(V) - Cardinality(V \cap S)
      BY <3>1, FS_Difference
    <3>4. V \cap S = S \cap V
      OBVIOUS
    <3> QED
      BY <1>1, <2>2, <3>2, <3>3, <3>4
  <2>5. dead <= gone
    <3>1. V \ S \in SUBSET (P \ S)
      OBVIOUS
    <3> QED
      BY <2>2, <3>1, SizeOf
  <2>6. all <= m + 2 * b + 1
    BY <1>1, <2>2
  <2>7. s <= m + b \/ left <= m + b
    BY <2>1, <2>3, <2>4, <2>5, <2>6
  <2> QED
    BY <1>1, <2>2, <2>7
<1>5. CASE s > m /\ ~(s - m < p)
  <2>1. v = p \/ p < v
    BY <1>2, <1>5
  <2>2. IsFiniteSet(P) /\ V \in SUBSET P
    BY SizeOf
  <2>3. v <= p
    BY <1>1, <2>2, FS_Subset
  <2>4. Cardinality(P) = Cardinality(V)
    BY <1>1, <2>1, <2>3
  <2>5. V = P
    BY <2>2, <2>4, FS_Subset
  <2> QED
    BY <2>5
<1> QED
  BY <1>3, <1>4, <1>5

LEMMA ChooseKeepsRoom ==
    ASSUME StoreInv, RoomLeft, NEW r \in Request, CleanupChoose(r)
    PROVE  RoomLeft'
<1>1. StoreTypeOK /\ stored' = stored /\ cleaner[r].pc = "scan"
  BY DEF CleanupChoose, StoreInv
<1>2. PICK V \in SUBSET Prunable(r) :
          /\ V = cleaner'[r].victims
          /\ OldestOf(V, Prunable(r), Cardinality(stored) - MaxJobs)
  BY <1>1, ChooseFacts
<1>3. Prunable(r) \in SUBSET Job /\ stored \in SUBSET Job
  BY <1>1 DEF Prunable, StoreTypeOK
<1>4. /\ cleaner'[r].pc = "pop" /\ cleaner'[r].victims = V
      /\ \A s \in Request \ {r} : cleaner'[s] = cleaner[s]
  BY <1>1, <1>2, ChooseFacts
<1>5. Busy' = Busy /\ Ready' = Ready
  BY <1>1, <1>4 DEF Busy, Ready
<1> SUFFICES ASSUME NEW R \in SUBSET Busy, NEW b \in Int, Slack(R, b)
             PROVE  Cardinality(stored) <= MaxJobs + b \/ \E s \in R : Relieves(s, b)'
  BY <1>1, <1>5 DEF RoomLeft, Slack
<1>6. ASSUME NEW s \in R, s # r, Relieves(s, b)
      PROVE  Relieves(s, b)'
  <2>1. cleaner'[s] = cleaner[s]
    BY <1>4, <1>6 DEF Busy
  <2> QED
    BY <1>1, <1>6, <2>1 DEF Relieves, Prunable
<1>7. ASSUME Relieves(r, b)
      PROVE  Cardinality(stored) <= MaxJobs + b \/ Relieves(r, b)'
  <2>1. b \in Nat
    <3>1. b >= Cardinality(Request) - 1 /\ Cardinality(Request) \in Nat
      BY SlackFacts
    <3>2. Cardinality(Request) # 0
      BY StoreAssumption, FS_EmptySet
    <3> QED
      BY <3>1, <3>2
  <2>2. /\ Cardinality(stored \cup Prunable(r)) <= MaxJobs + 2 * b + 1
        /\ Cardinality(stored \ Prunable(r)) <= MaxJobs + b
    BY <1>1, <1>7 DEF Relieves
  <2>3. Cardinality(stored) <= MaxJobs + b \/ Cardinality(stored \ V) <= MaxJobs + b
    BY <1>2, <1>3, <2>1, <2>2, ChoiceRelieves
  <2> QED
    BY <1>1, <1>4, <2>3 DEF Relieves
<1>8. Cardinality(stored) <= MaxJobs + b \/ \E s \in R : Relieves(s, b)
  BY DEF RoomLeft
<1> QED
  BY <1>6, <1>7, <1>8

LEMMA PopKeepsRoom ==
    ASSUME StoreInv, StoreTypeOK', RoomLeft, NEW r \in Request, CleanupPop(r)
    PROVE  RoomLeft'
<1>1. /\ StoreTypeOK /\ cleaner[r].pc = "pop"
      /\ stored' = stored \ cleaner[r].victims
  BY PopFacts DEF StoreInv
<1>2. /\ cleaner'[r].pc = "clean"
      /\ \A s \in Request \ {r} : cleaner'[s] = cleaner[s]
  BY <1>1, PopFacts
<1>3. Busy' = Busy \ {r} /\ Ready' = Ready \cup {r} /\ r \in Busy /\ r \notin Ready
  BY <1>1, <1>2 DEF Busy, Ready
<1> SUFFICES ASSUME NEW R \in SUBSET Busy', NEW b \in Int, Slack(R, b)'
             PROVE  Cardinality(stored') <= MaxJobs + b \/ \E s \in R : Relieves(s, b)'
  BY DEF RoomLeft
<1> DEFINE Q == R \cup {r}
<1>4. Q \in SUBSET Busy /\ R \in SUBSET Busy /\ r \notin R
  BY <1>3
<1>5. Slack(Q, b)
  <2>1. /\ Cardinality(Q) = Cardinality(R) + 1
        /\ Cardinality(Ready') = Cardinality(Ready) + 1
    BY <1>3, <1>4, SlackFacts, FS_AddElement
  <2>2. b + Cardinality(R) + Cardinality(Ready') = 2 * Cardinality(Request) - 1
    BY SlackFactsNext
  <2>3. Cardinality(R) \in Nat /\ Cardinality(Ready) \in Nat /\ Cardinality(Request) \in Nat
    BY <1>4, SlackFacts
  <2> QED
    BY <2>1, <2>2, <2>3 DEF Slack
<1>6. Cardinality(stored) <= MaxJobs + b \/ \E s \in Q : Relieves(s, b)
  BY <1>4, <1>5 DEF RoomLeft
<1>7. CASE Cardinality(stored) <= MaxJobs + b
  <2>1. /\ Cardinality(stored') <= Cardinality(stored)
        /\ Cardinality(stored) \in Nat /\ Cardinality(stored') \in Nat
    BY <1>1, SizeOf DEF StoreTypeOK
  <2> QED
    BY <1>7, <2>1, StoreAssumption
<1>8. CASE Relieves(r, b)
  BY <1>1, <1>8 DEF Relieves
<1>9. ASSUME NEW s \in R, Relieves(s, b)
      PROVE  Relieves(s, b)'
  <2>1. s \in Request /\ cleaner'[s] = cleaner[s]
    BY <1>2, <1>4 DEF Busy
  <2>2. {} \in SUBSET Job /\ b + Cardinality({}) <= b /\ stored' \subseteq stored \cup {}
    BY <1>1, FS_EmptySet
  <2> QED
    BY <1>1, <1>9, <2>1, <2>2, ReliefKept
<1> QED
  BY <1>6, <1>7, <1>8, <1>9

LEMMA RoomStep == StoreInv /\ RoomLeft /\ [StoreNext]_storeVars => RoomLeft'
<1> SUFFICES ASSUME StoreInv, RoomLeft, [StoreNext]_storeVars
             PROVE  RoomLeft'
  OBVIOUS
<1>1. StoreTypeOK /\ StoreTypeOK'
  BY StoreInvStep DEF StoreInv
<1>2. CASE StoreTick \/ UNCHANGED storeVars
  <2>1. stored' = stored /\ cleaner' = cleaner
    BY <1>2 DEF StoreTick, storeVars
  <2>2. Ready' = Ready /\ Busy' = Busy
    BY <2>1 DEF Ready, Busy
  <2> QED
    BY <1>1, <2>1, <2>2, EasedStep
<1>3. ASSUME NEW r \in Request, Submit(r) \/ Poll(r) PROVE RoomLeft'
  <2>1. PICK h \in Handler, j \in Job : CleanupTtl(r, h, j)
    BY <1>1, <1>3 DEF Submit, Poll, StoreTypeOK
  <2>2. /\ stored' \subseteq stored /\ cleaner[r].pc = "idle" /\ cleaner'[r].pc = "cap"
        /\ \A s \in Request \ {r} : cleaner'[s] = cleaner[s]
    BY <1>1, <2>1, TtlFacts
  <2>3. Ready' = Ready /\ \A s \in Busy' : s \in Busy /\ cleaner'[s] = cleaner[s]
    BY <2>2 DEF Ready, Busy
  <2> QED
    BY <1>1, <2>2, <2>3, EasedStep
<1>4. ASSUME NEW r \in Request, CleanupRaises(r) \/ Get(r) PROVE RoomLeft'
  <2>1. stored' = stored /\ CleanerLeaves(r)
    BY <1>4 DEF CleanupRaises, Get
  <2>2. cleaner'[r].pc = "idle" /\ \A s \in Request \ {r} : cleaner'[s] = cleaner[s]
    BY <1>1, <2>1, LeaveFacts
  <2>3. Ready' \subseteq Ready /\ \A s \in Busy' : s \in Busy /\ cleaner'[s] = cleaner[s]
    BY <2>2 DEF Ready, Busy
  <2> QED
    BY <1>1, <2>1, <2>3, EasedStep
<1>5. ASSUME NEW r \in Request, Stamp(r) PROVE RoomLeft'
  <2>1. Ready' = Ready /\ \A s \in Busy' : s \in Busy /\ cleaner'[s] = cleaner[s]
    BY <1>5, StampFacts DEF Ready, Busy
  <2>2. stored' = stored
    BY <1>5, StampFacts
  <2> QED
    BY <1>1, <2>1, <2>2, EasedStep
<1> QED
  BY <1>1, <1>2, <1>3, <1>4, <1>5, CapKeepsRoom, ChooseKeepsRoom, PopKeepsRoom, InsertKeepsRoom
  DEF StoreNext, Clean

\* Whatever the number of requests that clean up at the same time: an entry
\* for each, and one less for an eviction that another has made before it, is
\* all that the dict holds beyond its cap.
THEOREM StoreBoundedAlways == StoreSpec => []StoreBounded
<1>1. StoreInit => RoomLeft
  <2> SUFFICES ASSUME StoreInit, NEW R \in SUBSET Busy, NEW b \in Int, Slack(R, b)
               PROVE  Cardinality(stored) <= MaxJobs + b
    BY DEF RoomLeft
  <2>1. Cardinality(stored) = 0 /\ b >= Cardinality(Request) - 1 /\ Cardinality(Request) \in Nat
    BY SlackFacts, FS_EmptySet DEF StoreInit
  <2> QED
    BY <2>1, StoreAssumption
<1>2. StoreInv /\ RoomLeft => StoreBounded
  <2> SUFFICES ASSUME StoreInv, RoomLeft PROVE StoreBounded
    OBVIOUS
  <2>1. {} \in SUBSET Busy /\ Cardinality({}) = 0
    BY FS_EmptySet
  <2>2. Cardinality(Request) \in Nat /\ Cardinality(Ready) \in Nat
    BY <2>1, SlackFacts
  <2>3. PICK b \in Int : Slack({}, b) /\ b <= 2 * Cardinality(Request) - 1
    <3> DEFINE b == 2 * Cardinality(Request) - 1 - Cardinality(Ready)
    <3>1. b \in Int /\ Slack({}, b) /\ b <= 2 * Cardinality(Request) - 1
      BY <2>1, <2>2 DEF Slack
    <3> QED
      BY <3>1
  <2>4. Cardinality(stored) <= MaxJobs + b
    BY <2>1, <2>3 DEF RoomLeft
  <2>5. Cardinality(stored) \in Nat
    BY SizeOf DEF StoreInv, StoreTypeOK
  <2> QED
    BY <2>2, <2>3, <2>4, <2>5, StoreAssumption DEF StoreBounded
<1> QED
  BY <1>1, <1>2, StoreInitInv, StoreInvStep, RoomStep, PTL DEF StoreSpec

-----------------------------------------------------------------------------
(* The service                                                             *)

Dispatching(r) == request[r].pc = "dispatch"

\* A request is in one place, and there it is about a job.
Placed ==
    \A r \in Request :
        /\ cleaner[r].pc = "idle" => cleaner[r].own = NoJob
        /\ cleaner[r].pc # "idle" => cleaner[r].own \in Job /\ request[r].pc = "idle"
        /\ request[r].pc # "idle" => request[r].job \in Job

\* The job that a handler is about to insert is one that nobody has seen ...
Unseen ==
    \A r \in Request : Submitting(r) =>
        /\ meta[cleaner[r].own].status = "absent"
        /\ \A s \in Request \ {r} : Submitting(s) => cleaner[s].own # cleaner[r].own

\* ... and the one that it has inserted has neither worker nor client yet.
Undispatched ==
    \A r \in Request : Dispatching(r) =>
        /\ meta[request[r].job].status # "absent"
        /\ worker[request[r].job] = "none"
        /\ \A s \in Request \ {r} : Dispatching(s) => request[s].job # request[r].job

\* The status of an entry, given its worker: also of a dropped one, whose
\* worker can only be on its way to its death.
EntryMatchesWorker ==
    \A j \in Job :
        \/ meta[j].status \in StatusAt(worker[j])
        \/ worker[j] \in {"fail", "dead"} /\ j \notin stored /\ meta[j].status # "absent"

\* Only jobs that were inserted are stored, and the client of a job has
\* its id from when the worker is dispatched on.
Known ==
    \A j \in Job :
        /\ meta[j].status = "absent" => j \notin stored
        /\ worker[j] = "none" <=> view[j] = "idle"

PayloadMatches ==
    \A j \in Job : worker[j] = "done" =>
        meta[j].payload = IF meta[j].status = "completed" THEN "result" ELSE "error"

\* What a response has read of its job is still true when it is a verdict.
SeenMatches ==
    \A r \in Request : request[r].pc \in {"respond", "encode"} =>
        /\ meta[request[r].job].status # "absent"
        /\ request[r].pc = "encode" /\ request[r].seen \in Verdict
             => meta[request[r].job].status = request[r].seen

Inv == /\ TypeOK
       /\ Placed /\ Unseen /\ Undispatched
       /\ EntryMatchesWorker /\ Known /\ PayloadMatches
       /\ SeenMatches /\ VerdictIsFinal

-----------------------------------------------------------------------------
(* Type correctness                                                        *)

USE DEF Verdict, Status, View, Payload, Meta, Running, WorkerPc, RequestState,
        IdleRequest, BlankMeta

LEMMA InitType == Init => TypeOK
BY StoreAssumption DEF Init, StoreInit, TypeOK, StoreTypeOK

LEMMA StatusType ==
    ASSUME TypeOK, NEW j \in Job, NEW v \in Status,
           meta' = [meta EXCEPT ![j].status = v]
    PROVE  meta' \in [Job -> Meta]
<1>1. meta[j] \in Meta
  BY DEF TypeOK
<1>2. [meta[j] EXCEPT !.status = v] \in Meta
  BY <1>1
<1>3. meta' = [meta EXCEPT ![j] = [meta[j] EXCEPT !.status = v]]
  OBVIOUS
<1> HIDE DEF Meta
<1> QED
  BY <1>2, <1>3 DEF TypeOK

LEMMA PayloadType ==
    ASSUME TypeOK, NEW j \in Job, NEW v \in Payload,
           meta' = [meta EXCEPT ![j].payload = v]
    PROVE  meta' \in [Job -> Meta]
<1>1. meta[j] \in Meta
  BY DEF TypeOK
<1>2. [meta[j] EXCEPT !.payload = v] \in Meta
  BY <1>1
<1>3. meta' = [meta EXCEPT ![j] = [meta[j] EXCEPT !.payload = v]]
  OBVIOUS
<1> HIDE DEF Meta
<1> QED
  BY <1>2, <1>3 DEF TypeOK

LEMMA MetaType ==
    ASSUME TypeOK, NEW j \in Job, NEW m \in Meta, meta' = [meta EXCEPT ![j] = m]
    PROVE  meta' \in [Job -> Meta]
BY DEF TypeOK

LEMMA RequestType ==
    ASSUME TypeOK, NEW r \in Request, NEW q \in RequestState,
           request' = [request EXCEPT ![r] = q]
    PROVE  request' \in [Request -> RequestState]
BY DEF TypeOK

LEMMA WorkerType ==
    ASSUME TypeOK, NEW j \in Job, NEW l \in WorkerPc,
           Advance(j, l) \/ Finish(j, l)
    PROVE  worker' \in [Job -> WorkerPc]
BY DEF TypeOK, Advance, Finish

LEMMA TtlType ==
    ASSUME TypeOK, NEW r \in Request, NEW h \in Handler, NEW j \in Job,
           CleanupTtl(r, h, j), UNCHANGED jobVars
    PROVE  TypeOK'
BY DEF TypeOK, StoreTypeOK, CleanupTtl, jobVars

LEMMA CleanType ==
    ASSUME TypeOK, NEW r \in Request, CleanUp(r)
    PROVE  TypeOK'
<1>1. StoreTypeOK
  BY DEF TypeOK
<1>2. CASE CleanupRaises(r)
  BY <1>1, <1>2, LeaveFacts DEF CleanupRaises, CleanUp, jobVars, TypeOK, StoreTypeOK
<1>3. CASE CleanupCap(r) \/ CleanupChoose(r) \/ CleanupPop(r)
  BY <1>1, <1>3, CapFacts, ChooseFacts, PopFacts DEF CleanUp, jobVars, TypeOK, StoreTypeOK
<1> QED
  BY <1>2, <1>3 DEF CleanUp, Clean

LEMMA ServeType ==
    ASSUME TypeOK, Placed, NEW r \in Request, Serve(r)
    PROVE  TypeOK'
<1>1. CASE CleanUp(r)
  BY <1>1, CleanType
<1>2. CASE InsertJob(r)
  <2> DEFINE own == cleaner[r].own
  <2>1. own \in Job /\ cleaner[r].handler \in Handler
    BY <1>2 DEF InsertJob, Insert, TypeOK, StoreTypeOK, Placed
  <2>2. meta' \in [Job -> Meta]
    BY <1>2, <2>1, MetaType, [BlankMeta EXCEPT !.status = "queued"] \in Meta
    DEF InsertJob
  <2>3. request' \in [Request -> RequestState]
    <3>1. [IdleRequest EXCEPT !.pc = "dispatch", !.handler = cleaner[r].handler,
                              !.job = own] \in RequestState
      BY <2>1, IdleRequest \in RequestState
    <3> QED
      BY <1>2, <3>1, RequestType DEF InsertJob
  <2>4. cleaner' \in [Request -> CleanerState]
    BY <1>2, LeaveFacts DEF InsertJob, Insert, TypeOK
  <2>5. stored' \subseteq Job /\ created' = created /\ clock' = clock
    BY <1>2, <2>1 DEF InsertJob, Insert, TypeOK, StoreTypeOK
  <2> QED
    BY <1>2, <2>2, <2>3, <2>4, <2>5 DEF InsertJob, TypeOK, StoreTypeOK
<1>3. CASE DispatchJob(r)
  <2>1. request' \in [Request -> RequestState]
    BY <1>3, RequestType, IdleRequest \in RequestState DEF DispatchJob
  <2>2. worker' \in [Job -> WorkerPc]
    BY <1>3 DEF DispatchJob, TypeOK
  <2>3. view' \in [Job -> View]
    BY <1>3 DEF DispatchJob, TypeOK
  <2> QED
    BY <1>3, <2>1, <2>2, <2>3 DEF DispatchJob, storeVars, TypeOK, StoreTypeOK
<1>4. CASE LookupJob(r)
  <2>1. cleaner[r].own \in Job
    BY <1>4 DEF LookupJob, Get, TypeOK, StoreTypeOK, Placed
  <2>2. request' \in [Request -> RequestState]
    <3>1. [IdleRequest EXCEPT !.pc = "respond", !.job = cleaner[r].own] \in RequestState
      BY <2>1, IdleRequest \in RequestState
    <3> QED
      BY <1>4, <3>1, RequestType, IdleRequest \in RequestState DEF LookupJob
  <2>3. cleaner' \in [Request -> CleanerState]
    BY <1>4, LeaveFacts DEF LookupJob, Get, TypeOK
  <2> QED
    BY <1>4, <2>2, <2>3 DEF LookupJob, Get, TypeOK, StoreTypeOK
<1>5. CASE EncodeStatus(r)
  <2>1. request[r].job \in Job
    BY <1>5 DEF EncodeStatus, TypeOK, Placed
  <2>2. request' \in [Request -> RequestState]
    <3> DEFINE m == meta[request[r].job]
               q == [request[r] EXCEPT !.pc = "encode", !.seen = m.status,
                                       !.keys = m.keys]
    <3>1. m \in Meta
      BY <2>1 DEF TypeOK
    <3>2. m.status \in Status /\ m.keys \in 0..2
      BY <3>1
    <3>3. q \in RequestState
      BY <3>2, request[r] \in RequestState DEF TypeOK
    <3> QED
      BY <1>5, <3>3, RequestType DEF EncodeStatus
  <2> QED
    BY <1>5, <2>2 DEF EncodeStatus, storeVars, TypeOK, StoreTypeOK
<1>6. CASE EncodeResult(r)
  <2>1. view' \in [Job -> View]
    BY <1>6 DEF EncodeResult, TypeOK
  <2> QED
    BY <1>6, <2>1 DEF EncodeResult, storeVars, TypeOK, StoreTypeOK
<1>7. CASE EncodeRaises(r)
  BY <1>7 DEF EncodeRaises, storeVars, TypeOK, StoreTypeOK
<1>8. CASE StampJob(r)
  <2>1. cleaner[r].own \in Job /\ clock \in 0..MaxClock /\ {} \in SUBSET Job /\ StoreTypeOK
    BY <1>8 DEF StampJob, Stamp, TypeOK, StoreTypeOK, Placed
  <2>2. /\ CleanerGoto(r, "stamped", {}, {}) /\ UNCHANGED <<clock, stored>>
        /\ created' = [created EXCEPT ![cleaner[r].own] = clock]
    BY <1>8 DEF StampJob, Stamp
  <2>3. cleaner' \in [Request -> CleanerState]
    BY <2>1, <2>2, GotoFacts
  <2>4. created' \in [Job -> 0..MaxClock]
    BY <2>1, <2>2 DEF StoreTypeOK
  <2> QED
    BY <1>8, <2>2, <2>3, <2>4 DEF StampJob, jobVars, TypeOK, StoreTypeOK
<1> QED
  BY <1>1, <1>2, <1>3, <1>4, <1>5, <1>6, <1>7, <1>8 DEF Serve, Proceed

LEMMA WorkType ==
    ASSUME TypeOK, NEW j \in Job, BeginAnalysis(j) \/ Work(j)
    PROVE  TypeOK'
<1>1. meta' \in [Job -> Meta]
  <2>1. CASE BeginAnalysis(j) \/ FailJob(j)
    BY <2>1, StatusType DEF BeginAnalysis, FailJob, TypeOK
  <2>2. CASE RecordLanguage(j)
    BY <2>2, MetaType, [meta[j] EXCEPT !.keys = 1] \in Meta
    DEF RecordLanguage, Write, TypeOK
  <2>3. CASE MakeReport(j)
    BY <2>3, MetaType, [meta[j] EXCEPT !.keys = 2] \in Meta
    DEF MakeReport, Write, TypeOK
  <2>4. CASE CompleteJob(j)
    BY <2>4, MetaType, [meta[j] EXCEPT !.status = "completed"] \in Meta
    DEF CompleteJob, Write, TypeOK
  <2>5. CASE StoreResult(j) \/ StoreError(j)
    BY <2>5, PayloadType DEF StoreResult, StoreError, TypeOK
  <2>6. CASE Raise(j)
    BY <2>6 DEF Raise, TypeOK
  <2> QED
    BY <2>1, <2>2, <2>3, <2>4, <2>5, <2>6 DEF Work
<1>2. worker' \in [Job -> WorkerPc]
  BY WorkerType DEF BeginAnalysis, Work, RecordLanguage, MakeReport, CompleteJob,
                    StoreResult, Raise, FailJob, StoreError, Write
<1>3. borrowed' \subseteq Job /\ UNCHANGED <<storeVars, request, view>>
  BY DEF BeginAnalysis, Work, RecordLanguage, MakeReport, CompleteJob, StoreResult,
         Raise, FailJob, StoreError, Write, Finish, TypeOK
<1> QED
  BY <1>1, <1>2, <1>3 DEF storeVars, TypeOK, StoreTypeOK

-----------------------------------------------------------------------------
(* The invariant is inductive                                              *)

LEMMA InitInv == Init => Inv
<1> SUFFICES ASSUME Init PROVE Inv
  OBVIOUS
<1>1. TypeOK
  BY InitType
<1>2. Placed /\ Unseen /\ Undispatched /\ SeenMatches
  BY DEF Init, StoreInit, Placed, Unseen, Undispatched, SeenMatches, Submitting,
         Dispatching
<1>3. EntryMatchesWorker
  BY DEF Init, EntryMatchesWorker, StatusAt
<1>4. Known /\ PayloadMatches /\ VerdictIsFinal
  BY DEF Init, StoreInit, Known, PayloadMatches, VerdictIsFinal
<1> QED
  BY <1>1, <1>2, <1>3, <1>4 DEF Inv

\* What the status of an entry tells of its worker.
LEMMA AbsentFacts ==
    ASSUME Inv, NEW j \in Job, meta[j].status = "absent"
    PROVE  worker[j] = "none" /\ j \notin stored /\ view[j] = "idle"
BY DEF Inv, TypeOK, EntryMatchesWorker, Known, StatusAt

LEMMA VerdictFacts ==
    ASSUME Inv, NEW j \in Job, meta[j].status \in Verdict
    PROVE  worker[j] \in {"result", "fail", "error", "done", "dead"}
BY DEF Inv, TypeOK, EntryMatchesWorker, StatusAt

\* A clean-up only drops entries, and that disturbs nothing said about jobs.
LEMMA DropStep ==
    ASSUME Inv, stored' \subseteq stored, UNCHANGED jobVars
    PROVE  /\ Undispatched' /\ EntryMatchesWorker' /\ Known'
           /\ PayloadMatches' /\ SeenMatches' /\ VerdictIsFinal'
<1>1. Undispatched' /\ PayloadMatches' /\ SeenMatches' /\ VerdictIsFinal'
  BY DEF Inv, jobVars, Undispatched, Dispatching, PayloadMatches, SeenMatches,
         VerdictIsFinal
<1>2. EntryMatchesWorker'
  BY DEF Inv, jobVars, EntryMatchesWorker, StatusAt
<1>3. Known'
  BY DEF Inv, jobVars, Known
<1> QED
  BY <1>1, <1>2, <1>3

LEMMA ArriveStep ==
    ASSUME Inv, NEW r \in Request, NEW h \in Handler, NEW j \in Job,
           Idle(r), CleanupTtl(r, h, j), UNCHANGED jobVars,
           h \in Submitter => Fresh(j)
    PROVE  Inv'
<1>1. TypeOK'
  BY TtlType DEF Inv
<1>2. stored' \subseteq stored
  BY DEF CleanupTtl
<1>3. /\ cleaner'[r].pc = "cap" /\ cleaner'[r].own = j /\ cleaner'[r].handler = h
      /\ \A s \in Request \ {r} : cleaner'[s] = cleaner[s]
  BY TtlFacts DEF Inv, TypeOK
<1>4. Placed'
  BY <1>3 DEF Inv, Placed, Idle, jobVars
<1>5. Unseen'
  BY <1>3 DEF Inv, Unseen, Submitting, Fresh, jobVars
<1> QED
  BY <1>1, <1>2, <1>4, <1>5, DropStep DEF Inv

\* A clean-up, and the stamp that follows it, leave the request with the same
\* job, or end it.
CleanerGoesOn(r) ==
    /\ cleaner[r].pc # "idle"
    /\ \A s \in Request \ {r} : cleaner'[s] = cleaner[s]
    /\ \/ cleaner'[r] = IdleCleaner
       \/ /\ cleaner'[r].pc # "idle" /\ cleaner'[r].own = cleaner[r].own
          /\ Submitting(r)' => Submitting(r)

LEMMA GoesOnStep ==
    ASSUME Inv, NEW r \in Request, CleanerGoesOn(r), UNCHANGED jobVars
    PROVE  Placed' /\ Unseen'
<1>1. Placed'
  BY DEF CleanerGoesOn, Inv, Placed, jobVars
<1>2. Unseen'
  BY DEF CleanerGoesOn, Inv, Unseen, Submitting, jobVars
<1> QED
  BY <1>1, <1>2

LEMMA CleanStep ==
    ASSUME Inv, NEW r \in Request, CleanUp(r) \/ StampJob(r)
    PROVE  Inv'
<1>1. TypeOK'
  BY CleanType, ServeType DEF Inv, Serve, Proceed
<1>2. stored' \subseteq stored /\ UNCHANGED jobVars
  BY DEF CleanUp, Clean, CleanupCap, CleanupRaises, CleanupChoose, CleanupPop, StampJob, Stamp
<1>3. StoreTypeOK
  BY DEF Inv, TypeOK
<1>4. CleanerGoesOn(r)
  <2>1. CASE CleanupRaises(r)
    BY <1>3, <2>1, LeaveFacts DEF CleanupRaises, CleanerGoesOn
  <2>2. CASE CleanupCap(r) \/ CleanupChoose(r) \/ CleanupPop(r)
    BY <1>3, <2>2, CapFacts, ChooseFacts, PopFacts DEF CleanerGoesOn, Submitting
  <2>3. CASE Stamp(r)
    <3>1. {} \in SUBSET Job
      BY Zenon
    <3>2. /\ cleaner[r].pc = "clean" /\ cleaner[r].handler \in Submitter
          /\ CleanerGoto(r, "stamped", {}, {})
      BY <2>3 DEF Stamp
    <3> QED
      BY <1>3, <3>1, <3>2, GotoFacts DEF CleanerGoesOn, Submitting
  <2> QED
    BY <2>1, <2>2, <2>3 DEF CleanUp, Clean, StampJob
<1> QED
  BY <1>1, <1>2, <1>4, DropStep, GoesOnStep DEF Inv

LEMMA InsertStep ==
    ASSUME Inv, NEW r \in Request, InsertJob(r)
    PROVE  Inv'
<1> DEFINE own == cleaner[r].own
<1>1. TypeOK'
  BY ServeType DEF Inv, Serve, Proceed
<1>2. /\ own \in Job /\ Submitting(r) /\ request[r].pc = "idle"
      /\ meta[own].status = "absent"
  BY DEF InsertJob, Insert, Inv, TypeOK, StoreTypeOK, Placed, Unseen, Submitting
<1>3. worker[own] = "none" /\ view[own] = "idle"
  BY <1>2, AbsentFacts
<1>4. /\ meta' = [meta EXCEPT ![own] = [BlankMeta EXCEPT !.status = "queued"]]
      /\ meta'[own].status = "queued"
      /\ \A j \in Job \ {own} : meta'[j] = meta[j]
      /\ stored' = stored \cup {own}
      /\ UNCHANGED <<worker, view>>
  BY <1>2 DEF InsertJob, Insert, Inv, TypeOK
<1>5. /\ cleaner'[r] = IdleCleaner
      /\ \A s \in Request \ {r} : cleaner'[s] = cleaner[s]
  BY DEF InsertJob, Insert, CleanerLeaves, Inv, TypeOK, StoreTypeOK
<1>6. /\ request'[r].pc = "dispatch" /\ request'[r].job = own
      /\ \A s \in Request \ {r} : request'[s] = request[s]
  BY DEF InsertJob, Inv, TypeOK
<1>7. Placed'
  BY <1>2, <1>5, <1>6 DEF Inv, Placed
<1>8. Unseen'
  BY <1>2, <1>4, <1>5 DEF Inv, Placed, Unseen, Submitting
<1>9. Undispatched'
  BY <1>2, <1>3, <1>4, <1>6 DEF Inv, Placed, Undispatched, Dispatching
<1>10. EntryMatchesWorker'
  <2>1. meta'[own].status \in StatusAt(worker'[own])
    BY <1>3, <1>4 DEF StatusAt
  <2>2. ASSUME NEW j \in Job \ {own}
        PROVE  \/ meta'[j].status \in StatusAt(worker'[j])
               \/ worker'[j] \in {"fail", "dead"} /\ j \notin stored' /\ meta'[j].status # "absent"
    BY <1>4 DEF Inv, EntryMatchesWorker
  <2> QED
    BY <2>1, <2>2 DEF EntryMatchesWorker, StatusAt
<1>11. Known' /\ PayloadMatches' /\ VerdictIsFinal'
  BY <1>3, <1>4 DEF Inv, Known, PayloadMatches, VerdictIsFinal
<1>12. SeenMatches'
  BY <1>2, <1>4, <1>6 DEF Inv, Placed, SeenMatches
<1> QED
  BY <1>1, <1>7, <1>8, <1>9, <1>10, <1>11, <1>12 DEF Inv

LEMMA DispatchStep ==
    ASSUME Inv, NEW r \in Request, DispatchJob(r)
    PROVE  Inv'
<1> DEFINE own == request[r].job
<1>1. TypeOK'
  BY ServeType DEF Inv, Serve, Proceed
<1>2. /\ own \in Job /\ Dispatching(r)
      /\ meta[own].status # "absent" /\ worker[own] = "none"
  BY DEF DispatchJob, Inv, Placed, Undispatched, Dispatching
<1>3. meta[own].status = "queued"
  BY <1>2 DEF Inv, EntryMatchesWorker, StatusAt
<1>4. /\ worker'[own] \in {"pending", "ready"} /\ view'[own] = "polling"
      /\ \A j \in Job \ {own} : worker'[j] = worker[j] /\ view'[j] = view[j]
      /\ UNCHANGED <<storeVars, meta>>
  BY <1>2 DEF DispatchJob, Inv, TypeOK
<1>5. request'[r] = IdleRequest /\ \A s \in Request \ {r} : request'[s] = request[s]
  BY DEF DispatchJob, Inv, TypeOK
<1>6. Placed' /\ Unseen'
  BY <1>4, <1>5 DEF Inv, Placed, Unseen, Submitting, storeVars
<1>7. Undispatched' /\ SeenMatches'
  BY <1>2, <1>4, <1>5 DEF Inv, Placed, Undispatched, Dispatching, SeenMatches
<1>8. EntryMatchesWorker'
  BY <1>2, <1>3, <1>4 DEF Inv, EntryMatchesWorker, StatusAt, storeVars
<1>9. Known' /\ PayloadMatches' /\ VerdictIsFinal'
  BY <1>3, <1>4 DEF Inv, Known, PayloadMatches, VerdictIsFinal, storeVars
<1> QED
  BY <1>1, <1>6, <1>7, <1>8, <1>9 DEF Inv

LEMMA LookupStep ==
    ASSUME Inv, NEW r \in Request, LookupJob(r)
    PROVE  Inv'
<1>1. TypeOK'
  BY ServeType DEF Inv, Serve, Proceed
<1>2. /\ cleaner[r].own \in Job /\ request[r].pc = "idle"
      /\ cleaner[r].own \in stored => meta[cleaner[r].own].status # "absent"
  BY DEF LookupJob, Get, Inv, Placed, Known
<1>3. /\ cleaner'[r] = IdleCleaner
      /\ \A s \in Request \ {r} : cleaner'[s] = cleaner[s]
  BY DEF LookupJob, Get, CleanerLeaves, Inv, TypeOK, StoreTypeOK
<1>4. /\ \/ request'[r].pc = "idle"
         \/ /\ request'[r].pc = "respond" /\ request'[r].job = cleaner[r].own
            /\ cleaner[r].own \in stored
      /\ \A s \in Request \ {r} : request'[s] = request[s]
  BY DEF LookupJob, Inv, TypeOK
<1>5. UNCHANGED <<stored, meta, worker, view>>
  BY DEF LookupJob, Get
<1>6. Placed' /\ Unseen'
  BY <1>2, <1>3, <1>4, <1>5 DEF Inv, Placed, Unseen, Submitting
<1>7. Undispatched' /\ SeenMatches'
  BY <1>2, <1>4, <1>5 DEF Inv, Undispatched, Dispatching, SeenMatches
<1>8. EntryMatchesWorker' /\ Known' /\ PayloadMatches' /\ VerdictIsFinal'
  BY <1>5 DEF Inv, EntryMatchesWorker, StatusAt, Known, PayloadMatches, VerdictIsFinal
<1> QED
  BY <1>1, <1>6, <1>7, <1>8 DEF Inv

LEMMA EncodeStatusStep ==
    ASSUME Inv, NEW r \in Request, EncodeStatus(r)
    PROVE  Inv'
<1>1. TypeOK'
  BY ServeType DEF Inv, Serve
<1>2. /\ request'[r].pc = "encode" /\ request'[r].job = request[r].job
      /\ request'[r].seen = meta[request[r].job].status
      /\ \A s \in Request \ {r} : request'[s] = request[s]
  BY request[r] \in RequestState DEF EncodeStatus, Inv, TypeOK
<1>3. request[r].pc = "respond" /\ UNCHANGED <<storeVars, meta, worker, view>>
  BY DEF EncodeStatus
<1>4. Placed' /\ Unseen'
  BY <1>2, <1>3 DEF Inv, Placed, Unseen, Submitting, storeVars
<1>5. Undispatched' /\ SeenMatches'
  BY <1>2, <1>3 DEF Inv, Undispatched, Dispatching, SeenMatches
<1>6. EntryMatchesWorker' /\ Known' /\ PayloadMatches' /\ VerdictIsFinal'
  BY <1>3 DEF Inv, EntryMatchesWorker, StatusAt, Known, PayloadMatches,
              VerdictIsFinal, storeVars
<1> QED
  BY <1>1, <1>4, <1>5, <1>6 DEF Inv

LEMMA EncodeEndStep ==
    ASSUME Inv, NEW r \in Request, EncodeResult(r) \/ EncodeRaises(r)
    PROVE  Inv'
<1> DEFINE own == request[r].job
<1>1. TypeOK'
  BY ServeType DEF Inv, Serve, Proceed
<1>2. request'[r] = IdleRequest /\ \A s \in Request \ {r} : request'[s] = request[s]
  BY DEF EncodeResult, EncodeRaises, Inv, TypeOK
<1>3. request[r].pc = "encode" /\ UNCHANGED <<storeVars, meta, worker>>
  BY DEF EncodeResult, EncodeRaises
<1>4. \/ view' = view
      \/ meta[own].status \in Verdict /\ view' = [view EXCEPT ![own] = meta[own].status]
  BY DEF EncodeResult, EncodeRaises, Inv, SeenMatches
<1>5. own \in Job
  BY <1>3 DEF Inv, Placed
<1>6. Placed' /\ Unseen'
  BY <1>2, <1>3 DEF Inv, Placed, Unseen, Submitting, storeVars
<1>7. Undispatched' /\ SeenMatches'
  BY <1>2, <1>3 DEF Inv, Undispatched, Dispatching, SeenMatches
<1>8. EntryMatchesWorker' /\ PayloadMatches'
  BY <1>3 DEF Inv, EntryMatchesWorker, StatusAt, PayloadMatches, storeVars
<1>9. Known' /\ VerdictIsFinal'
  <2>1. meta[own].status \in Verdict => worker[own] # "none"
    BY <1>5, VerdictFacts
  <2> QED
    BY <1>3, <1>4, <1>5, <2>1 DEF Inv, TypeOK, Known, VerdictIsFinal, storeVars
<1> QED
  BY <1>1, <1>6, <1>7, <1>8, <1>9 DEF Inv

-----------------------------------------------------------------------------
(* The steps of the workers.  WorkerStep says what each has to show about  *)
(* its own entry.                                                          *)

LEMMA WorkerStep ==
    ASSUME Inv, NEW j \in Job, BeginAnalysis(j) \/ Work(j),
           worker[j] # "none", worker'[j] # "none",
           \A k \in Job \ {j} : worker'[k] = worker[k] /\ meta'[k] = meta[k],
           meta[j].status \in Verdict => meta'[j].status = meta[j].status,
           \/ meta'[j].status \in StatusAt(worker'[j])
           \/ worker'[j] \in {"fail", "dead"} /\ j \notin stored,
           meta'[j].status # "absent",
           worker'[j] = "done" => meta'[j].payload =
               IF meta'[j].status = "completed" THEN "result" ELSE "error"
    PROVE  Inv'
<1>1. TypeOK'
  BY WorkType DEF Inv
<1>2. UNCHANGED <<storeVars, request, view>>
  BY DEF BeginAnalysis, Work, RecordLanguage, MakeReport, CompleteJob, StoreResult,
         Raise, FailJob, StoreError, Write
<1>3. Placed'
  BY <1>2 DEF Inv, Placed, storeVars
<1>4. meta[j].status # "absent"
  BY AbsentFacts
<1>5. Unseen'
  BY <1>2, <1>4 DEF Inv, Placed, Unseen, Submitting, storeVars
<1>6. Undispatched'
  BY <1>2 DEF Inv, Placed, Undispatched, Dispatching
<1>7. EntryMatchesWorker'
  BY <1>2 DEF Inv, EntryMatchesWorker, StatusAt, storeVars
<1>8. Known' /\ PayloadMatches'
  BY <1>2 DEF Inv, Known, PayloadMatches, storeVars
<1>9. SeenMatches'
  BY <1>2 DEF Inv, Placed, SeenMatches
<1>10. VerdictIsFinal'
  BY <1>2 DEF Inv, VerdictIsFinal
<1> QED
  BY <1>1, <1>3, <1>5, <1>6, <1>7, <1>8, <1>9, <1>10 DEF Inv

LEMMA BeginStep ==
    ASSUME Inv, NEW j \in Job, BeginAnalysis(j)
    PROVE  Inv'
<1>1. /\ worker[j] \in {"pending", "ready"} /\ meta[j].status = "queued"
  BY DEF BeginAnalysis, Inv, EntryMatchesWorker, StatusAt
<1>2. \A k \in Job \ {j} : worker'[k] = worker[k] /\ meta'[k] = meta[k]
  BY DEF BeginAnalysis, Advance, Finish, Inv, TypeOK
<1>3. \/ worker'[j] = "pipeline" /\ meta'[j].status = "analyzing"
      \/ worker'[j] = "dead" /\ j \notin stored /\ meta' = meta
  BY DEF BeginAnalysis, Advance, Finish, Inv, TypeOK
<1>4. meta'[j].status \in StatusAt(worker'[j]) \/ (worker'[j] = "dead" /\ j \notin stored)
  <2>1. worker'[j] = "pipeline" => meta'[j].status \in StatusAt(worker'[j])
    BY <1>3 DEF StatusAt
  <2> QED
    BY <1>3, <2>1
<1> QED
  BY <1>1, <1>2, <1>3, <1>4, WorkerStep

LEMMA WriteStep ==
    ASSUME Inv, NEW j \in Job, RecordLanguage(j) \/ MakeReport(j) \/ CompleteJob(j)
    PROVE  Inv'
<1>1. worker[j] \in {"pipeline", "report", "complete"} /\ meta[j].status = "analyzing"
  BY DEF RecordLanguage, MakeReport, CompleteJob, Write, Inv, EntryMatchesWorker, StatusAt
<1>2. \A k \in Job \ {j} : worker'[k] = worker[k] /\ meta'[k] = meta[k]
  BY DEF RecordLanguage, MakeReport, CompleteJob, Write, Advance, Inv, TypeOK
<1>3. \/ worker'[j] \in {"report", "complete"} /\ meta'[j].status = "analyzing"
      \/ worker'[j] = "result" /\ meta'[j].status = "completed"
      \/ worker'[j] = "fail" /\ meta' = meta
  BY <1>1, meta[j] \in Meta
  DEF RecordLanguage, MakeReport, CompleteJob, Write, Advance, Inv, TypeOK
<1>4. meta'[j].status \in StatusAt(worker'[j])
  BY <1>1, <1>3 DEF StatusAt
<1> QED
  BY <1>1, <1>2, <1>3, <1>4, WorkerStep DEF Work

LEMMA StoreResultStep ==
    ASSUME Inv, NEW j \in Job, StoreResult(j)
    PROVE  Inv'
<1>1. worker[j] = "result" /\ meta[j].status = "completed"
  BY DEF StoreResult, Inv, EntryMatchesWorker, StatusAt
<1>2. \A k \in Job \ {j} : worker'[k] = worker[k] /\ meta'[k] = meta[k]
  BY DEF StoreResult, Advance, Finish, Inv, TypeOK
<1>3. /\ meta'[j].status = "completed"
      /\ \/ worker'[j] = "done" /\ meta'[j].payload = "result"
         \/ worker'[j] = "fail" /\ j \notin stored
  BY <1>1, meta[j] \in Meta DEF StoreResult, Advance, Finish, Inv, TypeOK
<1>4. meta'[j].status \in StatusAt(worker'[j]) \/ (worker'[j] = "fail" /\ j \notin stored)
  <2>1. worker'[j] = "done" => meta'[j].status \in StatusAt(worker'[j])
    BY <1>3 DEF StatusAt
  <2> QED
    BY <1>3, <2>1
<1> QED
  BY <1>1, <1>2, <1>3, <1>4, WorkerStep DEF Work

LEMMA RaiseStep ==
    ASSUME Inv, NEW j \in Job, Raise(j)
    PROVE  Inv'
<1>1. worker[j] \in {"pipeline", "report"} /\ meta[j].status = "analyzing"
  BY DEF Raise, Inv, EntryMatchesWorker, StatusAt
<1>2. /\ worker'[j] = "fail" /\ meta' = meta
      /\ \A k \in Job \ {j} : worker'[k] = worker[k]
  BY DEF Raise, Advance, Inv, TypeOK
<1>3. meta'[j].status \in StatusAt(worker'[j])
  BY <1>1, <1>2 DEF StatusAt
<1> QED
  BY <1>1, <1>2, <1>3, WorkerStep DEF Work

LEMMA FailStep ==
    ASSUME Inv, NEW j \in Job, FailJob(j)
    PROVE  Inv'
<1>1. /\ worker[j] = "fail" /\ meta[j].status # "absent"
      /\ j \in stored => meta[j].status = "analyzing"
  BY AbsentFacts DEF FailJob, Inv, EntryMatchesWorker, StatusAt
<1>2. \A k \in Job \ {j} : worker'[k] = worker[k] /\ meta'[k] = meta[k]
  BY DEF FailJob, Advance, Finish, Inv, TypeOK
<1>3. \/ worker'[j] = "error" /\ meta'[j].status = "failed" /\ j \in stored
      \/ worker'[j] = "dead" /\ j \notin stored /\ meta' = meta
  BY meta[j] \in Meta DEF FailJob, Advance, Finish, Inv, TypeOK
<1>4. meta'[j].status \in StatusAt(worker'[j]) \/ (worker'[j] = "dead" /\ j \notin stored)
  <2>1. worker'[j] = "error" => meta'[j].status \in StatusAt(worker'[j])
    BY <1>3 DEF StatusAt
  <2> QED
    BY <1>3, <2>1
<1> QED
  BY <1>1, <1>2, <1>3, <1>4, WorkerStep DEF Work

LEMMA StoreErrorStep ==
    ASSUME Inv, NEW j \in Job, StoreError(j)
    PROVE  Inv'
<1>1. worker[j] = "error" /\ meta[j].status = "failed"
  BY DEF StoreError, Inv, EntryMatchesWorker, StatusAt
<1>2. \A k \in Job \ {j} : worker'[k] = worker[k] /\ meta'[k] = meta[k]
  BY DEF StoreError, Advance, Finish, Inv, TypeOK
<1>3. /\ meta'[j].status = "failed"
      /\ \/ worker'[j] = "done" /\ meta'[j].payload = "error"
         \/ worker'[j] = "dead" /\ j \notin stored
  BY <1>1, meta[j] \in Meta DEF StoreError, Advance, Finish, Inv, TypeOK
<1>4. meta'[j].status \in StatusAt(worker'[j]) \/ (worker'[j] = "dead" /\ j \notin stored)
  <2>1. worker'[j] = "done" => meta'[j].status \in StatusAt(worker'[j])
    BY <1>3 DEF StatusAt
  <2> QED
    BY <1>3, <2>1
<1> QED
  BY <1>1, <1>2, <1>3, <1>4, WorkerStep DEF Work

-----------------------------------------------------------------------------

\* Every step preserves the invariant.
THEOREM InvStep == Inv /\ [Next]_vars => Inv'
<1> SUFFICES ASSUME Inv, [Next]_vars PROVE Inv'
  OBVIOUS
<1>1. CASE Tick
  <2>1. TypeOK'
    BY <1>1, StoreAssumption DEF Tick, StoreTick, jobVars, Inv, TypeOK, StoreTypeOK
  <2>2. Placed' /\ Unseen'
    BY <1>1 DEF Tick, StoreTick, jobVars, Inv, Placed, Unseen, Submitting
  <2> QED
    BY <1>1, <2>1, <2>2, DropStep DEF Tick, StoreTick, Inv
<1>2. ASSUME NEW r \in Request, Arrive(r) PROVE Inv'
  BY <1>2, ArriveStep DEF Arrive, StartAnalysis, AnalyzeFile, PollStatus
<1>3. ASSUME NEW r \in Request, Serve(r) PROVE Inv'
  BY <1>3, CleanStep, InsertStep, DispatchStep, LookupStep, EncodeStatusStep,
     EncodeEndStep DEF Serve, Proceed
<1>4. ASSUME NEW j \in Job, BeginAnalysis(j) \/ Work(j) PROVE Inv'
  BY <1>4, BeginStep, WriteStep, StoreResultStep, RaiseStep, FailStep, StoreErrorStep
  DEF Work
<1>5. CASE UNCHANGED vars
  <2>1. TypeOK' /\ Placed' /\ Unseen'
    BY <1>5 DEF vars, Inv, TypeOK, StoreTypeOK, Placed, Unseen, Submitting
  <2> QED
    BY <1>5, <2>1, DropStep DEF vars, jobVars, Inv
<1> QED
  BY <1>1, <1>2, <1>3, <1>4, <1>5 DEF Next

\* The invariant holds in every reachable state.
LEMMA Invariance == Spec => []Inv
BY InitInv, InvStep, PTL DEF Spec

\* The variables of the service always have their types.
THEOREM TypeCorrect == Spec => []TypeOK
BY Invariance, PTL DEF Inv

\* An entry that the store still has is never left behind by its worker: it
\* shows the stage of one that will write it again, or the outcome, with its
\* result or error, of one that has ended.
THEOREM StoredMatchesWorkerAlways == Spec => []StoredMatchesWorker
<1>1. Inv => StoredMatchesWorker
  BY DEF Inv, TypeOK, StoreTypeOK, EntryMatchesWorker, PayloadMatches, StatusAt,
         StoredMatchesWorker
<1> QED
  BY <1>1, Invariance, PTL

\* What the client of a job was told last is and stays the job's verdict.
THEOREM VerdictIsFinalAlways == Spec => []VerdictIsFinal
BY Invariance, PTL DEF Inv

\* No handler and no worker puts a job back that a clean-up has dropped.
THEOREM DroppedForGoodAlways == Spec => DroppedForGood
<1>1. Inv /\ [Next]_vars =>
        [\A j \in Job : j \in stored' \ stored => worker[j] = "none" /\ view[j] = "idle"]_vars
  <2> SUFFICES ASSUME Inv, Next, NEW j \in Job, j \in stored' \ stored
               PROVE  worker[j] = "none" /\ view[j] = "idle"
    OBVIOUS
  <2>1. \E r \in Request : InsertJob(r)
    BY DEF Next, Tick, StoreTick, Arrive, StartAnalysis, AnalyzeFile, PollStatus,
           CleanupTtl, Serve, Proceed, CleanUp, Clean, CleanupCap, CleanupRaises,
           CleanupChoose, CleanupPop, StampJob, Stamp, DispatchJob, LookupJob, Get, EncodeStatus,
           EncodeResult, EncodeRaises, BeginAnalysis, Work, RecordLanguage,
           MakeReport, CompleteJob, StoreResult, Raise, FailJob, StoreError, Write,
           storeVars
  <2>2. PICK r \in Request : InsertJob(r)
    BY <2>1
  <2>3. cleaner[r].own = j /\ meta[j].status = "absent"
    BY <2>2 DEF InsertJob, Insert, Inv, Unseen, Submitting
  <2> QED
    BY <2>3, AbsentFacts
<1> QED
  BY <1>1, Invariance, PTL DEF Spec, DroppedForGood

-----------------------------------------------------------------------------
(* The service uses the dict as JobStore has it: what it does to the dict  *)
(* is a step of StoreNext or nothing, so that what is proved of the dict   *)
(* alone holds in the service.                                             *)

\* What a clean-up has listed was inserted at some time, so that no list has
\* an id that is fresh.
Listed == \A r \in Request : \A j \in cleaner[r].snap : meta[j].status # "absent"

LEMMA NeverAbsentAgain ==
    ASSUME Inv, [Next]_vars, NEW j \in Job, meta[j].status # "absent"
    PROVE  meta'[j].status # "absent"
<1>1. meta \in [Job -> Meta]
  BY DEF Inv, TypeOK
<1>2. CASE Tick \/ UNCHANGED vars
  BY <1>2 DEF Tick, jobVars, vars
<1>3. ASSUME NEW r \in Request, Arrive(r) \/ Serve(r) PROVE meta'[j].status # "absent"
  <2>1. meta' = meta \/ \E k : meta' = [meta EXCEPT ![k] = [BlankMeta EXCEPT !.status = "queued"]]
    BY <1>3 DEF Arrive, StartAnalysis, AnalyzeFile, PollStatus, jobVars, Serve, Proceed,
           CleanUp, StampJob, InsertJob, DispatchJob, LookupJob, EncodeStatus, EncodeResult,
           EncodeRaises
  <2> QED
    BY <1>1, <2>1
<1>4. ASSUME NEW i \in Job, BeginAnalysis(i) \/ Work(i) PROVE meta'[j].status # "absent"
  <2>1. \/ meta' = meta
        \/ \E st \in {"analyzing", "completed", "failed"} :
               meta' = [meta EXCEPT ![i].status = st]
        \/ \E p \in {"result", "error"} : meta' = [meta EXCEPT ![i].payload = p]
        \/ \E k \in 1..2 : meta' = [meta EXCEPT ![i] = [meta[i] EXCEPT !.keys = k]]
        \/ meta' = [meta EXCEPT ![i] = [meta[i] EXCEPT !.status = "completed"]]
    BY <1>4 DEF BeginAnalysis, Work, RecordLanguage, MakeReport, CompleteJob, Write,
           StoreResult, Raise, FailJob, StoreError
  <2> QED
    BY <1>1, <2>1
<1> QED
  BY <1>2, <1>3, <1>4 DEF Next

LEMMA ListedStep == Inv /\ Listed /\ [Next]_vars => Listed'
<1> SUFFICES ASSUME Inv, Listed, [Next]_vars, NEW r \in Request, NEW j \in cleaner'[r].snap
             PROVE  meta'[j].status # "absent"
  BY DEF Listed
<1>1. cleaner \in [Request -> CleanerState] /\ cleaner' \in [Request -> CleanerState]
  BY InvStep DEF Inv, TypeOK, StoreTypeOK
<1>2. j \in cleaner[r].snap \/ j \in stored
  <2>1. StoreTypeOK
    BY DEF Inv, TypeOK
  <2>2. ASSUME NEW s \in Request, CleanerLeaves(s) \/ \E h, i : CleanupTtl(s, h, i)
        PROVE  j \in cleaner[r].snap \/ j \in stored
    BY <2>1, <2>2, LeaveFacts, TtlFacts
  <2>3. ASSUME NEW s \in Request, CleanupCap(s) \/ CleanupChoose(s) \/ CleanupPop(s)
        PROVE  j \in cleaner[r].snap \/ j \in stored
    BY <2>1, <2>3, CapFacts, ChooseFacts, PopFacts
  <2>4. ASSUME NEW s \in Request, Stamp(s)
        PROVE  j \in cleaner[r].snap \/ j \in stored
    <3>1. {} \in SUBSET Job /\ CleanerGoto(s, "stamped", {}, {})
      BY <2>4 DEF Stamp
    <3> QED
      BY <2>1, <3>1, GotoFacts
  <2>5. CASE cleaner' = cleaner
    BY <2>5
  <2>6. \/ cleaner' = cleaner
        \/ \E s \in Request :
              \/ CleanupCap(s) \/ CleanupChoose(s) \/ CleanupPop(s) \/ Stamp(s)
              \/ CleanerLeaves(s) \/ \E h, i : CleanupTtl(s, h, i)
    BY DEF Next, vars, storeVars, Tick, StoreTick, Arrive, StartAnalysis, AnalyzeFile, PollStatus,
           Serve, Proceed, CleanUp, Clean, CleanupRaises, StampJob, InsertJob, Insert,
           DispatchJob, LookupJob, Get,
           EncodeStatus, EncodeResult, EncodeRaises, BeginAnalysis, Work, RecordLanguage,
           MakeReport, CompleteJob, Write, StoreResult, Raise, FailJob, StoreError
  <2> QED
    BY <2>2, <2>3, <2>4, <2>5, <2>6
<1>3. j \in Job /\ stored \subseteq Job
  BY <1>1 DEF Inv, TypeOK, StoreTypeOK
<1>4. meta[j].status # "absent"
  BY <1>2, <1>3 DEF Listed, Inv, Known
<1> QED
  BY <1>3, <1>4, NeverAbsentAgain

LEMMA StoreStep == Inv /\ Listed /\ [Next]_vars => [StoreNext]_storeVars
<1> SUFFICES ASSUME Inv, Listed, [Next]_vars PROVE [StoreNext]_storeVars
  OBVIOUS
<1>1. CASE Tick \/ UNCHANGED vars
  BY <1>1 DEF Tick, vars, storeVars, StoreNext
<1>2. ASSUME NEW r \in Request, Arrive(r) PROVE StoreNext
  <2>1. ASSUME NEW j \in Job, Fresh(j) PROVE Forgotten(j)
    BY <2>1 DEF Fresh, Forgotten, Listed, Inv, Known
  <2>2. Submit(r) \/ Poll(r)
    BY <1>2, <2>1 DEF Arrive, StartAnalysis, AnalyzeFile, PollStatus, Submit, Poll
  <2> QED
    BY <2>2 DEF StoreNext
<1>3. ASSUME NEW r \in Request, Serve(r) PROVE [StoreNext]_storeVars
  <2>1. Clean(r) \/ Stamp(r) \/ Insert(r) \/ Get(r) \/ UNCHANGED storeVars
    BY <1>3 DEF Serve, Proceed, CleanUp, StampJob, InsertJob, DispatchJob, LookupJob, EncodeStatus,
           EncodeResult, EncodeRaises
  <2> QED
    BY <2>1 DEF StoreNext
<1>4. ASSUME NEW j \in Job, BeginAnalysis(j) \/ Work(j) PROVE UNCHANGED storeVars
  BY <1>4 DEF BeginAnalysis, Work, RecordLanguage, MakeReport, CompleteJob, Write,
         StoreResult, Raise, FailJob, StoreError
<1> QED
  BY <1>1, <1>2, <1>3, <1>4 DEF Next

\* Handlers, workers and polling clients together do to the dict only what
\* JobStore allows: ids are new when they are submitted, because an entry that
\* some clean-up still has on its list was once inserted.
THEOREM ServiceKeepsStoreSpec == Spec => StoreSpec
<1>1. Init => StoreInit /\ Listed
  BY DEF Init, StoreInit, Listed
<1> QED
  BY <1>1, Invariance, ListedStep, StoreStep, PTL DEF Spec, StoreSpec

\* In the service too, with every handler and worker at it, the dict holds no
\* more than its cap and what the requests in flight account for.
THEOREM ServiceStoreBounded == Spec => []StoreBounded
BY ServiceKeepsStoreSpec, StoreBoundedAlways

\* In the service too, an entry that is overtaken is one that the clean-up had
\* not listed, and there are fewer of them than requests.
THEOREM ServiceOldestFirst == Spec => OldestFirst
BY ServiceKeepsStoreSpec, OldestFirstAlways

-----------------------------------------------------------------------------
(* The service implements the life cycle: each step of it is a step of     *)
(* JobLifecycle, with Forget for all that only drops entries or nothing.   *)

phaseBar == [j \in Job |-> meta[j].status]

USE DEF phaseBar, Lifecycle!Verdict

LEMMA LifecycleForget ==
    ASSUME stored' \subseteq stored, meta' = meta, view' = view
    PROVE  Lifecycle!LifecycleNext
BY DEF Lifecycle!LifecycleNext, Lifecycle!Forget

LEMMA PhaseStep ==
    ASSUME TypeOK, NEW j \in Job, NEW v \in Status,
           \/ meta' = [meta EXCEPT ![j].status = v]
           \/ meta' = [meta EXCEPT ![j] = [meta[j] EXCEPT !.status = v]]
    PROVE  phaseBar' = [phaseBar EXCEPT ![j] = v]
<1>1. meta'[j].status = v /\ \A k \in Job \ {j} : meta'[k] = meta[k]
  BY meta[j] \in Meta DEF TypeOK
<1> QED
  BY <1>1

LEMMA LifecycleServe ==
    ASSUME Inv, NEW r \in Request, Serve(r)
    PROVE  Lifecycle!LifecycleNext
<1>1. CASE CleanUp(r) \/ StampJob(r) \/ LookupJob(r) \/ EncodeStatus(r) \/ EncodeRaises(r)
  BY <1>1, LifecycleForget
  DEF CleanUp, Clean, CleanupCap, CleanupRaises, CleanupChoose, CleanupPop, jobVars,
      StampJob, Stamp, LookupJob, Get, EncodeStatus, EncodeRaises, storeVars
<1>2. CASE InsertJob(r)
  <2> DEFINE own == cleaner[r].own
  <2>1. own \in Job /\ meta[own].status = "absent"
    BY <1>2 DEF InsertJob, Insert, Inv, Placed, Unseen, Submitting
  <2>2. /\ meta'[own].status = "queued"
        /\ \A j \in Job \ {own} : meta'[j] = meta[j]
        /\ stored' = stored \cup {own} /\ view' = view
    BY <1>2, <2>1 DEF InsertJob, Insert, Inv, TypeOK
  <2>3. phaseBar' = [phaseBar EXCEPT ![own] = "queued"]
    BY <2>1, <2>2
  <2> QED
    BY <2>1, <2>2, <2>3 DEF Lifecycle!LifecycleNext, Lifecycle!Accept
<1>3. CASE DispatchJob(r)
  <2> DEFINE own == request[r].job
  <2>1. own \in Job /\ meta[own].status # "absent" /\ view[own] = "idle"
    BY <1>3 DEF DispatchJob, Inv, Placed, Undispatched, Dispatching, Known
  <2>2. UNCHANGED <<stored, meta>> /\ view' = [view EXCEPT ![own] = "polling"]
    BY <1>3 DEF DispatchJob, storeVars
  <2> QED
    BY <2>1, <2>2 DEF Lifecycle!LifecycleNext, Lifecycle!Watch
<1>4. CASE EncodeResult(r)
  <2> DEFINE own == request[r].job
  <2>1. own \in Job /\ UNCHANGED <<stored, meta>>
    BY <1>4 DEF EncodeResult, storeVars, Inv, Placed
  <2>2. CASE request[r].seen \notin Verdict
    BY <1>4, <2>1, <2>2, LifecycleForget DEF EncodeResult
  <2>3. CASE request[r].seen \in Verdict
    <3>1. meta[own].status \in Verdict /\ view' = [view EXCEPT ![own] = meta[own].status]
      BY <1>4, <2>3 DEF EncodeResult, Inv, SeenMatches
    <3>2. view[own] # "idle"
      BY <2>1, <3>1, VerdictFacts DEF Inv, Known
    <3>3. CASE view[own] = "polling"
      BY <2>1, <3>1, <3>3 DEF Lifecycle!LifecycleNext, Lifecycle!Learn
    <3>4. CASE view[own] \in Verdict
      <4>1. view' = view
        BY <2>1, <3>1, <3>4 DEF Inv, TypeOK, VerdictIsFinal
      <4> QED
        BY <2>1, <4>1, LifecycleForget
    <3> QED
      BY <2>1, <3>2, <3>3, <3>4 DEF Inv, TypeOK
  <2> QED
    BY <2>2, <2>3
<1> QED
  BY <1>1, <1>2, <1>3, <1>4 DEF Serve, Proceed

LEMMA LifecycleWork ==
    ASSUME Inv, NEW j \in Job, BeginAnalysis(j) \/ Work(j)
    PROVE  Lifecycle!LifecycleNext
<1>1. view' = view /\ stored' = stored
  BY DEF BeginAnalysis, Work, RecordLanguage, MakeReport, CompleteJob, StoreResult,
         Raise, FailJob, StoreError, Write, storeVars
<1>2. \/ phaseBar' = phaseBar
      \/ /\ j \in stored /\ meta[j].status = "queued"
         /\ phaseBar' = [phaseBar EXCEPT ![j] = "analyzing"]
      \/ /\ j \in stored /\ meta[j].status = "analyzing"
         /\ \E v \in Verdict : phaseBar' = [phaseBar EXCEPT ![j] = v]
  <2>1. CASE BeginAnalysis(j)
    <3>1. meta[j].status = "queued"
      BY <2>1 DEF BeginAnalysis, Inv, EntryMatchesWorker, StatusAt
    <3>2. j \in stored => phaseBar' = [phaseBar EXCEPT ![j] = "analyzing"]
      BY <2>1, PhaseStep DEF BeginAnalysis, Inv
    <3> QED
      BY <2>1, <3>1, <3>2 DEF BeginAnalysis
  <2>2. CASE RecordLanguage(j) \/ MakeReport(j)
    BY <2>2 DEF RecordLanguage, MakeReport, Write, Inv, TypeOK
  <2>3. CASE CompleteJob(j)
    <3>1. meta[j].status = "analyzing"
      BY <2>3 DEF CompleteJob, Write, Inv, EntryMatchesWorker, StatusAt
    <3>2. j \in stored => phaseBar' = [phaseBar EXCEPT ![j] = "completed"]
      BY <2>3, PhaseStep DEF CompleteJob, Write, Inv
    <3> QED
      BY <2>3, <3>1, <3>2 DEF CompleteJob, Write
  <2>4. CASE StoreResult(j) \/ StoreError(j)
    BY <2>4 DEF StoreResult, StoreError, Inv, TypeOK
  <2>5. CASE Raise(j)
    BY <2>5 DEF Raise
  <2>6. CASE FailJob(j)
    <3>1. j \in stored => meta[j].status = "analyzing"
      BY <2>6 DEF FailJob, Inv, EntryMatchesWorker, StatusAt
    <3>2. j \in stored => phaseBar' = [phaseBar EXCEPT ![j] = "failed"]
      BY <2>6, PhaseStep DEF FailJob, Inv
    <3> QED
      BY <2>6, <3>1, <3>2 DEF FailJob
  <2> QED
    BY <2>1, <2>2, <2>3, <2>4, <2>5, <2>6 DEF Work
<1>3. CASE phaseBar' = phaseBar
  BY <1>1, <1>3 DEF Lifecycle!LifecycleNext, Lifecycle!Forget
<1>4. CASE /\ j \in stored /\ meta[j].status = "queued"
           /\ phaseBar' = [phaseBar EXCEPT ![j] = "analyzing"]
  BY <1>1, <1>4 DEF Lifecycle!LifecycleNext, Lifecycle!Begin
<1>5. CASE /\ j \in stored /\ meta[j].status = "analyzing"
           /\ \E v \in Verdict : phaseBar' = [phaseBar EXCEPT ![j] = v]
  BY <1>1, <1>5 DEF Lifecycle!LifecycleNext, Lifecycle!Conclude
<1> QED
  BY <1>2, <1>3, <1>4, <1>5

\* Whatever the threads, the clean-ups and the order of a worker's writes, the
\* client of the service sees the behaviour that JobLifecycle promises.
THEOREM Refinement == Spec => ImplementsLifecycle
<1>1. Init => Lifecycle!LifecycleInit
  BY DEF Init, StoreInit, Lifecycle!LifecycleInit
<1>2. Inv /\ [Next]_vars => [Lifecycle!LifecycleNext]_(Lifecycle!lifecycleVars)
  <2> SUFFICES ASSUME Inv, [Next]_vars
               PROVE  Lifecycle!LifecycleNext
    OBVIOUS
  <2>1. CASE Tick
    BY <2>1, LifecycleForget DEF Tick, StoreTick, jobVars
  <2>2. ASSUME NEW r \in Request, Arrive(r) PROVE Lifecycle!LifecycleNext
    BY <2>2, LifecycleForget
    DEF Arrive, StartAnalysis, AnalyzeFile, PollStatus, CleanupTtl, jobVars
  <2>3. CASE UNCHANGED vars
    BY <2>3, LifecycleForget DEF vars
  <2> QED
    BY <2>1, <2>2, <2>3, LifecycleServe, LifecycleWork DEF Next
<1> QED
  BY <1>1, <1>2, Invariance, PTL DEF Spec, ImplementsLifecycle, Lifecycle!LifecycleSpec

=============================================================================
