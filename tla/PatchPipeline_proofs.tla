------------------------ MODULE PatchPipeline_proofs ------------------------
(***************************************************************************)
(* Proofs about PatchPipeline and the report of RedBlue on what it leaves, *)
(* for any ids, any number of reports, options and keys, any max_retries.  *)
(***************************************************************************)
EXTENDS RedBlue, SequenceTheorems, FiniteSetTheorems, NaturalsInduction, WellFoundedInduction, TLAPS

Front  == {"static", "select", "audit"}
Agent  == {"generate", "call"}
Behind == {"build", "save", "finish", "returned"}

Typed ==
    /\ pc \in Stage /\ opts \in Option
    /\ id \in Seq(Id) /\ Len(id) <= MaxReports
    /\ targets \subseteq Reports /\ todo \subseteq targets
    /\ target \in Reports \cup {0}
    /\ mode \in {"single", "multi"} /\ attempt \in 0..MaxRetries
    /\ key \in Key /\ refused \subseteq Key
    /\ spoilt \in BOOLEAN /\ llmError \in BOOLEAN
    /\ patches \in Seq(Patch)
    /\ \A i \in DOMAIN patches : patches[i].of \in targets

\* Before the agent begins there is nothing of what it and the database make.
InOrder ==
    /\ pc \in Front => target = 0 /\ todo = {} /\ patches = <<>> /\ ~llmError
    /\ pc \in {"static", "audit"} => targets = {}
    /\ pc = "audit" => id = <<>>
    /\ pc \notin {"finish", "returned", "raised"} => rows = <<>>

\* A target is yet to come, under way, or has its patch.
Accounted ==
    /\ llmError => patches = <<>>
    /\ pc \in Agent =>
         /\ ~llmError
         /\ pc = "call" => target \in targets
         /\ targets = todo \cup {patches[i].of : i \in DOMAIN patches}
                           \cup (IF pc = "call" THEN {target} ELSE {})
    /\ pc \in {"syntax", "security"} \cup Behind /\ opts.use_llm /\ ~llmError =>
         targets = {patches[i].of : i \in DOMAIN patches}

Fresh(p)  == ~p.valid /\ p.scan = "none" /\ p.status = IF p.blank THEN "failed" ELSE "generated"
Parsed(p) == /\ p.scan = "none"
             /\ IF p.status = "failed" THEN p.blank \/ ~p.valid
                ELSE p.status = "generated" /\ ~p.blank /\ p.valid
Checked(p) ==
    \/ /\ p.status = "failed" /\ (p.blank \/ ~p.valid \/ p.scan = "new")
       /\ p.scan \in {"none", "new"}
    \/ p.status = "verified" /\ ~p.blank /\ p.valid /\ p.scan \in {"clean", "error"}

Progressing ==
    \A i \in DOMAIN patches :
        /\ pc \in Agent \cup {"syntax"} => Fresh(patches[i])
        /\ pc = "security" => Parsed(patches[i])
        /\ pc \in Behind => Checked(patches[i])

\* The dict by id: report_by_id.
ById == [r \in Reports |-> ByIdOf(r)]

\* A patch was scanned against the report that the database has it under.
Attributed ==
    /\ \A i \in DOMAIN patches :
         patches[i].scan # "none" => patches[i].against = ById[patches[i].of]
    /\ rows # <<>> => DOMAIN rows = DOMAIN patches
    /\ \A i \in DOMAIN rows : rows[i] = ById[patches[i].of]

\* How many keys before key q key k comes in turn: 1 to NumKeys.
Before(k, q) == IF k < q THEN q - k ELSE q + NumKeys - k

\* As many keys as there were attempts have been refused, the present one not
\* among them unless there were more attempts than keys.
KeysInTurn ==
    /\ ~spoilt => \A k \in Key : Before(k, key) <= attempt => k \in refused
    /\ AllKeysTried

Inv == Typed /\ InOrder /\ Accounted /\ Progressing /\ Attributed /\ KeysInTurn

USE DEF Stage, Option, Front, Agent, Behind

-----------------------------------------------------------------------------
(* Lemmas on data                                                          *)

\* A bounded set of numbers that is not empty has a greatest one.
LEMMA GreatestExists ==
    ASSUME NEW n \in Nat, NEW S, S \subseteq 0..n, S # {}
    PROVE  \E m \in S : \A s \in S : s <= m
<1> DEFINE T == {n - s : s \in S}
<1>1. T \subseteq Nat /\ T # {}
  <2>1. \A s \in S : n - s \in Nat
    OBVIOUS
  <2>2. PICK s \in S : TRUE
    OBVIOUS
  <2>3. n - s \in T
    BY <2>2
  <2> QED
    BY <2>1, <2>3
<1>2. PICK t \in T : \A u \in T : ~(<<u, t>> \in OpToRel(<, Nat))
  BY <1>1, WFMin, NatLessThanWellFounded, Zenon
<1>3. \A u \in T : ~(u < t)
  BY <1>1, <1>2, Zenon DEF OpToRel
<1>4. PICK m \in S : t = n - m
  OBVIOUS
<1>5. ASSUME NEW s \in S PROVE s <= m
  <2>1. n - s \in T
    OBVIOUS
  <2>2. ~(n - s < n - m)
    BY <2>1, <1>3, <1>4
  <2>3. s \in Nat /\ m \in Nat
    OBVIOUS
  <2> HIDE DEF T
  <2> QED
    BY <2>2, <2>3
<1> QED
  BY <1>5

\* The dict by id has a report with the id that is looked up.
LEMMA ByIdOfReport ==
    ASSUME Typed, NEW r \in Reports
    PROVE  ByIdOf(r) \in Reports /\ id[ByIdOf(r)] = id[r]
<1> DEFINE S == {s \in Reports : id[s] = id[r]}
<1>1. Len(id) \in Nat /\ S \subseteq 0..Len(id) /\ r \in S
  BY LenProperties DEF Typed, Reports
<1>2. PICK m \in S : \A s \in S : s <= m
  BY <1>1, GreatestExists
<1>3. \E s \in Reports : /\ id[s] = id[r]
                         /\ \A t \in Reports : id[t] = id[r] => t <= s
  BY <1>2
<1> QED
  BY <1>3 DEF ByIdOf

\* rotate_key goes to the next key, and from the last one to the first.
LEMMA NextKey ==
    ASSUME NEW k \in Key
    PROVE  (k + 1) % NumKeys = IF k + 1 < NumKeys THEN k + 1 ELSE 0
<1>1. NumKeys \in Nat /\ NumKeys > 0 /\ k \in Nat /\ k < NumKeys
  BY PipelineAssumption DEF Key
<1> QED
  BY <1>1, SMTT(30)

LEMMA BeforeInRange ==
    ASSUME NEW k \in Key, NEW q \in Key
    PROVE  Before(k, q) \in 1..NumKeys
BY PipelineAssumption DEF Key, Before

\* What has come d keys before q comes d + 1 before the next, but q comes 1.
LEMMA BeforeNext ==
    ASSUME NEW k \in Key, NEW q \in Key, NEW r \in Key,
           r = IF q + 1 < NumKeys THEN q + 1 ELSE 0
    PROVE  Before(k, r) = IF k = q THEN 1 ELSE Before(k, q) + 1
BY PipelineAssumption DEF Key, Before

\* Patches that are appended, one or several of a kind.
LEMMA MorePatches ==
    ASSUME NEW ps \in Seq(Patch), NEW p \in Patch, NEW n \in Nat
    PROVE  LET qs == ps \o [i \in 1..n |-> p]
           IN  /\ qs \in Seq(Patch)
               /\ DOMAIN qs = 1..(Len(ps) + n)
               /\ \A i \in DOMAIN ps : i \in DOMAIN qs /\ qs[i] = ps[i]
               /\ \A i \in DOMAIN qs : i \notin DOMAIN ps => qs[i] = p
<1> DEFINE es == [i \in 1..n |-> p]
<1>1. es \in Seq(Patch) /\ Len(es) = n
  BY IsASeq
<1>2. Len(ps) \in Nat /\ DOMAIN ps = 1..Len(ps)
  BY LenProperties
<1>3. /\ ps \o es \in Seq(Patch)
      /\ Len(ps \o es) = Len(ps) + n
      /\ \A i \in 1..(Len(ps) + n) :
            (ps \o es)[i] = IF i <= Len(ps) THEN ps[i] ELSE es[i - Len(ps)]
  BY <1>1, ConcatProperties
<1>4. DOMAIN (ps \o es) = 1..(Len(ps) + n)
  BY <1>3, LenProperties
<1> HIDE DEF es
<1>5. \A i \in 1..n : es[i] = p
  BY DEF es
<1>6. \A i \in DOMAIN (ps \o es) : i \notin DOMAIN ps => (ps \o es)[i] = p
  BY <1>2, <1>3, <1>4, <1>5
<1> QED
  BY <1>2, <1>3, <1>4, <1>6 DEF es

LEMMA OnePatch ==
    ASSUME NEW ps \in Seq(Patch), NEW p \in Patch
    PROVE  LET qs == Append(ps, p)
           IN  /\ qs \in Seq(Patch)
               /\ \A i \in DOMAIN ps : i \in DOMAIN qs /\ qs[i] = ps[i]
               /\ \A i \in DOMAIN qs : i \notin DOMAIN ps => qs[i] = p
               /\ \E i \in DOMAIN qs : i \notin DOMAIN ps
<1>1. Len(ps) \in Nat /\ DOMAIN ps = 1..Len(ps)
  BY LenProperties
<1>2. /\ Append(ps, p) \in Seq(Patch)
      /\ Len(Append(ps, p)) = Len(ps) + 1
      /\ DOMAIN Append(ps, p) = 1..(Len(ps) + 1)
      /\ \A i \in 1..Len(ps) : Append(ps, p)[i] = ps[i]
      /\ Append(ps, p)[Len(ps) + 1] = p
  BY AppendProperties, LenProperties
<1> QED
  BY <1>1, <1>2

LEMMA GeneratedIsPatch ==
    ASSUME Typed, target \in targets
    PROVE  /\ Generated \in Patch
           /\ ~Generated.blank /\ Fresh(Generated) /\ Generated.of = target
<1>1. target \in 1..MaxReports /\ 0 \in 0..MaxReports
  BY PipelineAssumption, LenProperties DEF Typed, Reports
<1> QED
  BY <1>1 DEF Generated, Patch, Fresh

\* The patch that says that there is none.
GivenUp(limited, other) ==
    [Generated EXCEPT !.blank = TRUE, !.status = "failed", !.refused = limited, !.spoilt = other]

LEMMA GivenUpIsPatch ==
    ASSUME Typed, target \in targets, NEW limited \in SUBSET Key, NEW other \in BOOLEAN
    PROVE  LET p == GivenUp(limited, other)
           IN  /\ p \in Patch /\ Fresh(p) /\ p.of = target /\ p.blank
               /\ p.refused = limited /\ p.spoilt = other
<1>1. target \in 1..MaxReports /\ 0 \in 0..MaxReports
  BY PipelineAssumption, LenProperties DEF Typed, Reports
<1> QED
  BY <1>1 DEF GivenUp, Generated, Patch, Fresh

LEMMA ByIdKept == id' = id => ById' = ById
BY DEF ById, ByIdOf, Reports

-----------------------------------------------------------------------------
(* The invariant                                                           *)

LEMMA InitInv == Init => Inv
<1> SUFFICES ASSUME Init PROVE Inv
  OBVIOUS
<1>1. /\ id = <<>> /\ Len(id) = 0 /\ id \in Seq(Id)
      /\ patches = <<>> /\ DOMAIN patches = {} /\ patches \in Seq(Patch)
      /\ rows = <<>> /\ DOMAIN rows = {}
  BY EmptySeq DEF Init
<1>2. 0 \in Key
  BY PipelineAssumption DEF Key
<1>3. Typed
  <2> HIDE DEF Option
  <2>1. /\ 0 \in 0..MaxRetries /\ Len(id) <= MaxReports
        /\ pc \in Stage /\ mode \in {"single", "multi"}
    BY <1>1, PipelineAssumption DEF Init
  <2> QED
    BY <1>1, <1>2, <2>1 DEF Init, Typed
<1>4. KeysInTurn
  BY <1>1, <1>2, PipelineAssumption DEF Init, KeysInTurn, AllKeysTried, Before, Key
<1> QED
  BY <1>1, <1>2, <1>3, <1>4 DEF Init, Inv, InOrder, Accounted, Progressing, Attributed

\* The findings of the analysis: ids in place of none, before there is anything
\* that goes by them.
LEMMA FrontStep ==
    ASSUME Inv, RunStaticAnalysis \/ Select \/ Audit
    PROVE  Inv'
<1> USE DEF Inv
<1>1. /\ pc \in Front
      /\ target = 0 /\ todo = {} /\ patches = <<>> /\ rows = <<>> /\ ~llmError
      /\ UNCHANGED <<opts, target, mode, attempt, key, refused, spoilt, patches, rows>>
  BY DEF RunStaticAnalysis, Select, Audit, agentVars, InOrder
<1>2. DOMAIN patches = {} /\ DOMAIN rows = {}
  BY <1>1
<1>3. KeysInTurn'
  BY <1>1, <1>2 DEF KeysInTurn, AllKeysTried
<1>4. Attributed' /\ Progressing'
  BY <1>1, <1>2 DEF Attributed, Progressing
<1>5. ASSUME NEW n \in 0..MaxReports, id' \in [1..n -> Id]
      PROVE  id' \in Seq(Id) /\ Len(id') = n /\ Reports' = 1..n /\ DOMAIN id' = 1..n
  BY <1>5, IsASeq DEF Reports
<1>6. CASE RunStaticAnalysis
  <2>1. id' \in Seq(Id) /\ Len(id') <= MaxReports /\ pc' = "select" /\ pc = "static"
        /\ UNCHANGED <<targets, todo, llmError>>
    BY <1>6, <1>5, PipelineAssumption DEF RunStaticAnalysis, agentVars
  <2>2. targets = {}
    BY <2>1 DEF InOrder
  <2>3. Typed'
    BY <1>1, <1>2, <2>1, <2>2 DEF Typed
  <2>4. InOrder' /\ Accounted'
    BY <1>1, <1>2, <2>1, <2>2 DEF InOrder, Accounted
  <2> QED
    BY <1>3, <1>4, <2>3, <2>4
<1>7. CASE Select
  <2>1. /\ targets' \in SUBSET Reports /\ todo' = (IF opts.use_llm THEN targets' ELSE {})
        /\ pc' = (CASE opts.use_llm /\ targets' # {}             -> "generate"
                    [] opts.use_llm /\ opts.audit /\ id = <<>>   -> "audit"
                    [] OTHER                                     -> "build")
        /\ UNCHANGED <<id, llmError>>
    BY <1>7 DEF Select
  <2>6. targets' # {} => id # <<>>
    BY <2>1, EmptySeq DEF Reports
  <2>2. \/ pc' = "generate" /\ opts.use_llm /\ todo' = targets'
        \/ pc' = "audit" /\ id = <<>> /\ todo' = targets' /\ targets' = {}
        \/ pc' = "build" /\ todo' \subseteq targets' /\ (opts.use_llm => targets' = {})
    <3>1. CASE opts.use_llm /\ targets' # {}
      <4>1. pc' = "generate"
        BY <2>1, <2>6, <3>1, Zenon
      <4>2. todo' = targets'
        BY <2>1, <3>1, Zenon
      <4> QED
        BY <3>1, <4>1, <4>2, Zenon
    <3>2. CASE opts.use_llm /\ opts.audit /\ id = <<>> /\ targets' = {}
      <4>1. pc' = "audit"
        BY <2>1, <3>2, Zenon
      <4>2. todo' = targets'
        BY <2>1, <3>2, Zenon
      <4> QED
        BY <3>2, <4>1, <4>2, Zenon
    <3>3. CASE ~opts.use_llm \/ (targets' = {} /\ ~(opts.audit /\ id = <<>>))
      <4>1. pc' = "build"
        BY <2>1, <3>3, Zenon
      <4> QED
        BY <2>1, <3>3, <4>1, Zenon
    <3> QED
      BY <3>1, <3>2, <3>3, Zenon
  <2>3. Reports' = Reports
    BY <2>1 DEF Reports
  <2>4. Typed'
    BY <1>1, <1>2, <2>1, <2>2, <2>3 DEF Typed
  <2>5. InOrder' /\ Accounted'
    BY <1>1, <1>2, <2>1, <2>2 DEF InOrder, Accounted
  <2> QED
    BY <1>3, <1>4, <2>4, <2>5
<1>8. CASE Audit
  <2>1. pc = "audit" /\ targets = {}
    BY <1>8 DEF Audit, InOrder
  <2>2. CASE llmError' = TRUE /\ pc' = "build" /\ UNCHANGED <<id, targets, todo>>
    <3>1. Reports' = Reports
      BY <2>2 DEF Reports
    <3>2. Typed'
      BY <1>1, <1>2, <2>1, <2>2, <3>1 DEF Typed
    <3>3. InOrder' /\ Accounted'
      BY <1>1, <1>2, <2>1, <2>2 DEF InOrder, Accounted
    <3> QED
      BY <1>3, <1>4, <3>2, <3>3
  <2>3. CASE ~(llmError' = TRUE /\ pc' = "build" /\ UNCHANGED <<id, targets, todo>>)
    <3>1. /\ \E n \in 0..MaxReports : id' \in [1..n -> Id]
          /\ targets' \subseteq DOMAIN id' /\ todo' = targets'
          /\ pc' = IF targets' = {} THEN "build" ELSE "generate"
          /\ llmError' = llmError
      BY <1>8, <2>3 DEF Audit
    <3>2. id' \in Seq(Id) /\ Len(id') <= MaxReports /\ DOMAIN id' = Reports'
      BY <3>1, <1>5, PipelineAssumption
    <3>3. Typed'
      BY <1>1, <1>2, <3>1, <3>2 DEF Typed
    <3>4. InOrder' /\ Accounted'
      BY <1>1, <1>2, <3>1 DEF InOrder, Accounted
    <3> QED
      BY <1>3, <1>4, <3>3, <3>4
  <2> QED
    BY <2>2, <2>3
<1> QED
  BY <1>6, <1>7, <1>8

\* What a step of the agent has to show for itself, as long as it goes on.
LEMMA AgentKeeps ==
    ASSUME Inv, pc \in Agent, pc' \in Agent \cup {"syntax"},
           UNCHANGED <<opts, id, targets, llmError, rows>>,
           todo' \subseteq targets, target' \in targets \cup {target},
           mode' \in {"single", "multi"}, attempt' \in 0..MaxRetries, key' \in Key,
           refused' \subseteq Key, spoilt' \in BOOLEAN,
           patches' \in Seq(Patch),
           \A i \in DOMAIN patches' : \/ i \in DOMAIN patches /\ patches'[i] = patches[i]
                                    \/ /\ patches'[i].of \in targets /\ Fresh(patches'[i])
                                       /\ NumKeys <= MaxRetries + 1 /\ patches'[i].blank =>
                                            patches'[i].spoilt \/ patches'[i].refused = Key
    PROVE  Typed' /\ InOrder' /\ Progressing' /\ Attributed' /\ AllKeysTried'
<1> USE DEF Inv
<1>1. Reports' = Reports
  BY DEF Reports
<1>2. rows = <<>> /\ DOMAIN rows = {} /\ pc \in Stage
  BY DEF InOrder
<1>3. Typed'
  BY <1>1 DEF Typed
<1>4. InOrder'
  BY <1>2 DEF InOrder
<1>5. Progressing'
  <2> HIDE DEF Fresh, Checked, Parsed
  <2>1. \A i \in DOMAIN patches' : Fresh(patches'[i])
    BY DEF Progressing
  <2> QED
    BY <2>1 DEF Progressing
<1>6. Attributed'
  <2>1. \A i \in DOMAIN patches' :
          patches'[i].scan # "none" => patches'[i].against = ById[patches'[i].of]
    BY DEF Attributed, Fresh
  <2> QED
    BY <1>2, <2>1, ByIdKept DEF Attributed
<1>7. AllKeysTried'
  BY DEF KeysInTurn, AllKeysTried
<1> QED
  BY <1>3, <1>4, <1>5, <1>6, <1>7

\* At a first attempt there is nothing that could have been refused.
LEMMA FirstAttemptFacts ==
    ASSUME Typed, key' \in Key, NEW m \in {"single", "multi"}, FirstAttempt(m)
    PROVE  /\ mode' \in {"single", "multi"} /\ attempt' \in 0..MaxRetries
           /\ refused' \subseteq Key /\ spoilt' \in BOOLEAN
           /\ (~spoilt => \A k \in Key : Before(k, key) <= attempt => k \in refused)'
<1>1. 0 \in 0..MaxRetries
  BY PipelineAssumption
<1>2. NumKeys \in Nat
  BY PipelineAssumption
<1>3. /\ mode' \in {"single", "multi"} /\ attempt' = 0
      /\ refused' = {} /\ spoilt' = FALSE
  BY DEF FirstAttempt
<1>4. ASSUME NEW k \in Key
      PROVE  ~(Before(k, key') <= 0)
  <2>1. PICK d \in 1..NumKeys : d = Before(k, key')
    BY BeforeInRange
  <2> QED
    BY <2>1, <1>2
<1>5. \A k \in Key : ~(Before(k, key') <= attempt')
  BY <1>3, <1>4
<1>6. (~spoilt => \A k \in Key : Before(k, key) <= attempt => k \in refused)'
  BY <1>5
<1> QED
  BY <1>1, <1>2, <1>3, <1>6

\* What remains to be shown of such a step: that the target is accounted for,
\* and that keys go in turn.
LEMMA AgentInv ==
    ASSUME Typed', InOrder', Progressing', Attributed', AllKeysTried', Accounted',
           (~spoilt => \A k \in Key : Before(k, key) <= attempt => k \in refused)'
    PROVE  Inv'
BY DEF Inv, KeysInTurn

\* An attempt has failed, and what is noted of the failures is true.
LEMMA RetryStep ==
    ASSUME Inv, pc = "call", NEW limited \in SUBSET Key, NEW other \in BOOLEAN,
           Retry(limited, other), key' \in Key,
           UNCHANGED <<opts, id, targets, todo, target, llmError, rows>>,
           ~other => \A k \in Key : Before(k, key') <= attempt + 1 => k \in limited
    PROVE  Inv'
<1> USE DEF Inv
<1>1. /\ target \in targets /\ ~llmError /\ todo \subseteq targets
      /\ targets = todo \cup {patches[i].of : i \in DOMAIN patches} \cup {target}
      /\ patches \in Seq(Patch) /\ attempt \in 0..MaxRetries /\ mode \in {"single", "multi"}
  BY DEF Accounted, Typed
<1>2. CASE attempt < MaxRetries /\ attempt' = attempt + 1 /\ refused' = limited
           /\ spoilt' = other /\ UNCHANGED <<pc, mode, patches>>
  <2>1. attempt + 1 \in 0..MaxRetries
    BY <1>1, <1>2, PipelineAssumption
  <2>2. Typed' /\ InOrder' /\ Progressing' /\ Attributed' /\ AllKeysTried'
    BY <1>1, <1>2, <2>1, AgentKeeps
  <2>3. Accounted'
    BY <1>1, <1>2 DEF Accounted
  <2>4. (~spoilt => \A k \in Key : Before(k, key) <= attempt => k \in refused)'
    BY <1>2
  <2> QED
    BY <2>2, <2>3, <2>4, AgentInv
<1>3. CASE FirstAttempt("single") /\ UNCHANGED <<pc, patches>>
  <2>1. Typed' /\ InOrder' /\ Progressing' /\ Attributed' /\ AllKeysTried'
    BY <1>1, <1>3, AgentKeeps, FirstAttemptFacts
  <2>2. Accounted'
    BY <1>1, <1>3 DEF Accounted
  <2> QED
    BY <1>3, <2>1, <2>2, AgentInv, FirstAttemptFacts
<1>4. CASE attempt = MaxRetries /\ GiveUp(limited, other)
  <2> DEFINE p == GivenUp(limited, other)
  <2>1. p \in Patch /\ Fresh(p) /\ p.of = target /\ p.refused = limited /\ p.spoilt = other
    BY <1>1, GivenUpIsPatch
  <2>2. NumKeys <= MaxRetries + 1 => other \/ limited = Key
    <3> SUFFICES ASSUME NumKeys <= MaxRetries + 1, ~other, NEW k \in Key
                 PROVE  k \in limited
      BY <1>1
    <3>1. PICK d \in 1..NumKeys : d = Before(k, key')
      BY BeforeInRange
    <3>2. d <= MaxRetries + 1
      BY <3>1, PipelineAssumption
    <3> QED
      BY <1>4, <3>1, <3>2
  <2>3. patches' = Append(patches, p) /\ FirstAttempt("single") /\ pc' = "generate"
    BY <1>4 DEF GiveUp, GivenUp
  <2> HIDE DEF p
  <2>4. /\ patches' \in Seq(Patch)
        /\ \A i \in DOMAIN patches : i \in DOMAIN patches' /\ patches'[i] = patches[i]
        /\ \A i \in DOMAIN patches' : i \notin DOMAIN patches => patches'[i] = p
        /\ \E i \in DOMAIN patches' : i \notin DOMAIN patches
    BY <1>1, <2>1, <2>3, OnePatch
  <2>5. Typed' /\ InOrder' /\ Progressing' /\ Attributed' /\ AllKeysTried'
    BY <1>1, <2>1, <2>2, <2>3, <2>4, AgentKeeps, FirstAttemptFacts
  <2>6. targets = todo \cup {patches'[i].of : i \in DOMAIN patches'}
    BY <1>1, <2>1, <2>4
  <2>7. Accounted'
    BY <1>1, <2>3, <2>6 DEF Accounted
  <2> QED
    BY <2>3, <2>5, <2>7, AgentInv, FirstAttemptFacts
<1> QED
  BY <1>2, <1>3, <1>4 DEF Retry

LEMMA RateLimitedStep ==
    ASSUME Inv, RateLimited
    PROVE  Inv'
<1> USE DEF Inv
<1>1. pc = "call" /\ key' = (key + 1) % NumKeys /\ Retry(refused \cup {key}, spoilt)
      /\ UNCHANGED <<opts, id, targets, todo, target, llmError, rows>>
  BY DEF RateLimited, RotateKey
<1>2. key \in Key /\ refused \cup {key} \in SUBSET Key /\ spoilt \in BOOLEAN
      /\ attempt \in 0..MaxRetries
  BY DEF Typed
<1>3. PICK q \in Key : q = key
  BY <1>2
<1>4. PICK r : r = IF q + 1 < NumKeys THEN q + 1 ELSE 0
  OBVIOUS
<1>5. r \in Key /\ key' = r
  BY <1>1, <1>3, <1>4, NextKey, PipelineAssumption DEF Key
<1>6. ASSUME ~spoilt, NEW k \in Key, Before(k, key') <= attempt + 1
      PROVE  k \in refused \cup {key}
  <2>1. CASE k = q
    BY <2>1, <1>3
  <2>2. CASE k # q
    <3>1. Before(k, r) = Before(k, q) + 1
      BY <2>2, <1>4, <1>5, BeforeNext
    <3>2. PICK d \in 1..NumKeys : d = Before(k, q)
      BY BeforeInRange
    <3>3. PICK a \in 0..MaxRetries : a = attempt
      BY <1>2
    <3>4. d <= a
      BY <3>1, <3>2, <3>3, <1>5, <1>6, PipelineAssumption
    <3> QED
      BY <3>2, <3>3, <3>4, <1>3, <1>6 DEF KeysInTurn
  <2> QED
    BY <2>1, <2>2
<1> QED
  BY <1>1, <1>2, <1>5, <1>6, RetryStep

LEMMA NoAnswerStep ==
    ASSUME Inv, NoAnswer
    PROVE  Inv'
<1>1. pc = "call" /\ Retry(refused, TRUE) /\ key' \in Key /\ refused \in SUBSET Key
      /\ UNCHANGED <<opts, id, targets, todo, target, llmError, rows>>
  BY DEF NoAnswer, Inv, Typed
<1> QED
  BY <1>1, RetryStep

LEMMA AnswerStep ==
    ASSUME Inv, Answer
    PROVE  Inv'
<1> USE DEF Inv
<1>1. PICK n \in 1..(IF mode = "multi" THEN MaxOptions ELSE 1) :
          patches' = patches \o [i \in 1..n |-> Generated]
  BY DEF Answer
<1>2. /\ pc = "call" /\ pc' = "generate" /\ FirstAttempt(mode) /\ key' = key
      /\ UNCHANGED <<opts, id, targets, todo, target, key, llmError, rows>>
  BY DEF Answer
<1>3. /\ target \in targets /\ ~llmError /\ todo \subseteq targets
      /\ targets = todo \cup {patches[i].of : i \in DOMAIN patches} \cup {target}
      /\ patches \in Seq(Patch) /\ mode \in {"single", "multi"} /\ key \in Key
  BY <1>2 DEF Accounted, Typed
<1>4. Generated \in Patch /\ ~Generated.blank /\ Fresh(Generated) /\ Generated.of = target
  BY <1>3, GeneratedIsPatch
<1>5. n \in Nat /\ n >= 1
  BY <1>1, PipelineAssumption
<1>6. Len(patches) \in Nat /\ DOMAIN patches = 1..Len(patches)
  BY <1>3, LenProperties
<1>7. /\ patches' \in Seq(Patch)
      /\ DOMAIN patches' = 1..(Len(patches) + n)
      /\ \A i \in DOMAIN patches : i \in DOMAIN patches' /\ patches'[i] = patches[i]
      /\ \A i \in DOMAIN patches' : i \notin DOMAIN patches => patches'[i] = Generated
  BY <1>1, <1>3, <1>4, <1>5, MorePatches
<1>8. Len(patches) + 1 \in DOMAIN patches' /\ Len(patches) + 1 \notin DOMAIN patches
  BY <1>5, <1>6, <1>7
<1>9. targets = todo \cup {patches'[i].of : i \in DOMAIN patches'}
  BY <1>3, <1>4, <1>7, <1>8
<1>10. Typed' /\ InOrder' /\ Progressing' /\ Attributed' /\ AllKeysTried'
  BY <1>2, <1>3, <1>4, <1>7, AgentKeeps, FirstAttemptFacts
<1>11. Accounted'
  BY <1>2, <1>3, <1>9 DEF Accounted
<1> QED
  BY <1>2, <1>3, <1>10, <1>11, AgentInv, FirstAttemptFacts

LEMMA NextTargetStep ==
    ASSUME Inv, NextTarget
    PROVE  Inv'
<1> USE DEF Inv
<1>1. PICK t \in todo : target' = t /\ todo' = todo \ {t}
  BY DEF NextTarget
<1>2. PICK m \in {"single", "multi"} : FirstAttempt(m)
  BY DEF NextTarget
<1>3. /\ pc = "generate" /\ pc' = "call" /\ key' = key
      /\ UNCHANGED <<opts, id, targets, key, patches, llmError, rows>>
  BY DEF NextTarget
<1>4. /\ ~llmError /\ todo \subseteq targets /\ key \in Key /\ patches \in Seq(Patch)
      /\ targets = todo \cup {patches[i].of : i \in DOMAIN patches}
  BY <1>3 DEF Accounted, Typed
<1>5. Typed' /\ InOrder' /\ Progressing' /\ Attributed' /\ AllKeysTried'
  BY <1>1, <1>2, <1>3, <1>4, AgentKeeps, FirstAttemptFacts
<1>6. Accounted'
  BY <1>1, <1>3, <1>4 DEF Accounted
<1> QED
  BY <1>2, <1>3, <1>4, <1>5, <1>6, AgentInv, FirstAttemptFacts

LEMMA AllAnsweredStep ==
    ASSUME Inv, AllAnswered
    PROVE  Inv'
<1> USE DEF Inv
<1>1. /\ pc = "generate" /\ pc' = "syntax" /\ todo = {}
      /\ UNCHANGED <<opts, id, targets, agentVars, patches, llmError, rows>>
  BY DEF AllAnswered
<1>2. /\ patches \in Seq(Patch) /\ todo \subseteq targets /\ mode \in {"single", "multi"}
      /\ attempt \in 0..MaxRetries /\ key \in Key /\ refused \subseteq Key /\ spoilt \in BOOLEAN
      /\ targets = todo \cup {patches[i].of : i \in DOMAIN patches}
      /\ ~llmError
  BY <1>1 DEF Accounted, Typed
<1>3. Typed' /\ InOrder' /\ Progressing' /\ Attributed' /\ AllKeysTried'
  BY <1>1, <1>2, AgentKeeps DEF agentVars
<1>4. Accounted'
  BY <1>1, <1>2 DEF Accounted
<1>5. (~spoilt => \A k \in Key : Before(k, key) <= attempt => k \in refused)'
  BY <1>1 DEF KeysInTurn, agentVars
<1> QED
  BY <1>3, <1>4, <1>5, AgentInv

\* The patches are lost, and no target has one any more.
LEMMA LosePatchesStep ==
    ASSUME Inv, LosePatches
    PROVE  Inv'
<1> USE DEF Inv
<1>1. /\ pc \in Agent /\ pc' = "build" /\ patches' = <<>> /\ llmError' = TRUE /\ todo' = {}
      /\ FirstAttempt("single") /\ key' = key
      /\ UNCHANGED <<opts, id, targets, target, key, rows>>
  BY DEF LosePatches
<1>2. DOMAIN patches' = {} /\ patches' \in Seq(Patch) /\ Reports' = Reports /\ key \in Key
  BY <1>1, EmptySeq DEF Reports, Typed
<1>3. rows = <<>> /\ DOMAIN rows = {}
  BY <1>1 DEF InOrder
<1>4. Typed'
  BY <1>1, <1>2, FirstAttemptFacts DEF Typed
<1>5. InOrder' /\ Accounted'
  BY <1>1, <1>3 DEF InOrder, Accounted
<1>6. Progressing' /\ Attributed' /\ AllKeysTried'
  BY <1>1, <1>2, <1>3 DEF Progressing, Attributed, AllKeysTried
<1> QED
  BY <1>1, <1>2, <1>4, <1>5, <1>6, AgentInv, FirstAttemptFacts

\* What a step behind the agent keeps that changes no more of a patch than what
\* the validation found.
LEMMA BehindKeeps ==
    ASSUME Inv, pc \notin Front \cup Agent, pc' \in Stage \ (Front \cup Agent),
           UNCHANGED <<opts, id, targets, agentVars, llmError>>,
           patches' \in Seq(Patch), DOMAIN patches' = DOMAIN patches,
           \A i \in DOMAIN patches :
               /\ patches'[i].of = patches[i].of /\ patches'[i].blank = patches[i].blank
               /\ patches'[i].refused = patches[i].refused
               /\ patches'[i].spoilt = patches[i].spoilt,
           pc' \in Behind => pc \in {"syntax", "security"} \cup Behind,
           pc' = "security" => pc = "syntax", pc' # "syntax"
    PROVE  Typed' /\ Accounted' /\ KeysInTurn'
<1> USE DEF Inv
<1>1. Reports' = Reports
  BY DEF Reports
<1>2. Typed'
  BY <1>1 DEF Typed, agentVars
<1>3. {patches'[i].of : i \in DOMAIN patches'} = {patches[i].of : i \in DOMAIN patches}
  OBVIOUS
<1>4. patches = <<>> => patches' = <<>>
  <2>1. DOMAIN patches = 1..Len(patches) /\ DOMAIN patches' = 1..Len(patches')
        /\ Len(patches) \in Nat /\ Len(patches') \in Nat
    BY LenProperties DEF Typed
  <2> QED
    BY <2>1, EmptySeq
<1>5. Accounted'
  <2> HIDE DEF Option
  <2> QED
    BY <1>3, <1>4 DEF Accounted
<1>6. AllKeysTried'
  BY DEF KeysInTurn, AllKeysTried
<1>7. (~spoilt => \A k \in Key : Before(k, key) <= attempt => k \in refused)'
  BY DEF KeysInTurn, agentVars
<1> QED
  BY <1>2, <1>5, <1>6, <1>7 DEF KeysInTurn

\* A patch is replaced by one with another status, and so on.
LEMMA SeqOfPatches ==
    ASSUME NEW ps \in Seq(Patch), NEW f, f = [i \in DOMAIN ps |-> f[i]],
           \A i \in DOMAIN ps : f[i] \in Patch
    PROVE  f \in Seq(Patch) /\ DOMAIN f = DOMAIN ps
<1>1. Len(ps) \in Nat /\ DOMAIN ps = 1..Len(ps)
  BY LenProperties
<1>2. f = [i \in 1..Len(ps) |-> f[i]]
  BY <1>1
<1> QED
  BY <1>1, <1>2, IsASeq

LEMMA ValidateSyntaxStep ==
    ASSUME Inv, ValidateSyntax
    PROVE  Inv'
<1> USE DEF Inv
<1>1. PICK bad \in SUBSET DOMAIN patches :
         patches' = [i \in DOMAIN patches |->
                       IF patches[i].blank \/ i \in bad
                       THEN [patches[i] EXCEPT !.status = "failed"]
                       ELSE [patches[i] EXCEPT !.valid = TRUE]]
  BY DEF ValidateSyntax
<1>2. /\ pc = "syntax" /\ pc' = "security" /\ UNCHANGED <<opts, id, targets, agentVars, llmError, rows>>
  BY DEF ValidateSyntax
<1>3. patches \in Seq(Patch) /\ rows = <<>> /\ DOMAIN rows = {}
  BY <1>2 DEF Typed, InOrder
<1>4. ASSUME NEW i \in DOMAIN patches
      PROVE  /\ patches'[i] \in Patch
             /\ patches'[i].of = patches[i].of /\ patches'[i].blank = patches[i].blank
             /\ patches'[i].refused = patches[i].refused
             /\ patches'[i].spoilt = patches[i].spoilt
             /\ Parsed(patches'[i])
  <2>1. patches[i] \in Patch
    BY <1>3, ElementOfSeq, LenProperties
  <2>2. Fresh(patches[i])
    BY <1>2 DEF Progressing
  <2>3. CASE patches[i].blank \/ i \in bad
    <3>1. patches'[i] = [patches[i] EXCEPT !.status = "failed"]
      BY <1>1, <2>3
    <3> QED
      BY <2>1, <2>2, <2>3, <3>1 DEF Patch, Fresh, Parsed
  <2>4. CASE ~(patches[i].blank \/ i \in bad)
    <3>1. patches'[i] = [patches[i] EXCEPT !.valid = TRUE]
      BY <1>1, <2>4
    <3> QED
      BY <2>1, <2>2, <2>4, <3>1 DEF Patch, Fresh, Parsed
  <2> QED
    BY <2>3, <2>4
<1>5. patches' \in Seq(Patch) /\ DOMAIN patches' = DOMAIN patches
  <2>1. patches' = [i \in DOMAIN patches |-> patches'[i]]
    BY <1>1
  <2> QED
    BY <1>3, <1>4, <2>1, SeqOfPatches
<1>6. Typed' /\ Accounted' /\ KeysInTurn'
  BY <1>2, <1>4, <1>5, BehindKeeps
<1>7. InOrder'
  BY <1>2, <1>3 DEF InOrder
<1>8. Progressing'
  <2> HIDE DEF Fresh, Parsed, Checked
  <2> QED
    BY <1>2, <1>4, <1>5 DEF Progressing
<1>9. Attributed'
  <2>1. \A i \in DOMAIN patches' : patches'[i].scan = "none"
    BY <1>4, <1>5 DEF Parsed
  <2> QED
    BY <1>2, <1>3, <2>1 DEF Attributed
<1> QED
  BY <1>6, <1>7, <1>8, <1>9

LEMMA ValidateSecurityStep ==
    ASSUME Inv, ValidateSecurity
    PROVE  Inv'
<1> USE DEF Inv
<1>1. PICK outcome \in [DOMAIN patches -> {"clean", "new", "error"}] :
         patches' = [i \in DOMAIN patches |->
                       IF patches[i].status = "failed" THEN patches[i]
                       ELSE Scanned(patches[i], outcome[i])]
  BY DEF ValidateSecurity
<1>2. /\ pc = "security" /\ pc' = "build" /\ UNCHANGED <<opts, id, targets, agentVars, llmError, rows>>
  BY DEF ValidateSecurity
<1>3. patches \in Seq(Patch) /\ rows = <<>> /\ DOMAIN rows = {} /\ ById' = ById
  BY <1>2, ByIdKept DEF Typed, InOrder
<1>4. ASSUME NEW i \in DOMAIN patches
      PROVE  /\ patches'[i] \in Patch
             /\ patches'[i].of = patches[i].of /\ patches'[i].blank = patches[i].blank
             /\ patches'[i].refused = patches[i].refused
             /\ patches'[i].spoilt = patches[i].spoilt
             /\ Checked(patches'[i])
             /\ patches'[i].scan # "none" => patches'[i].against = ById[patches[i].of]
  <2>1. patches[i] \in Patch
    BY <1>3, ElementOfSeq, LenProperties
  <2>2. Parsed(patches[i])
    BY <1>2 DEF Progressing
  <2>3. patches[i].of \in Reports
    BY DEF Typed
  <2>4. CASE patches[i].status = "failed"
    BY <1>1, <2>1, <2>2, <2>4 DEF Parsed, Checked
  <2>5. CASE patches[i].status # "failed"
    <3>1. patches'[i] = Scanned(patches[i], outcome[i])
      BY <1>1, <2>5
    <3>2. ById[patches[i].of] = ByIdOf(patches[i].of)
      BY <2>3 DEF ById
    <3>3. ByIdOf(patches[i].of) \in 0..MaxReports
      <4>1. ByIdOf(patches[i].of) \in Reports
        BY <2>3, ByIdOfReport
      <4> QED
        BY <4>1, LenProperties, PipelineAssumption DEF Typed, Reports
    <3>4. outcome[i] \in {"clean", "new", "error"}
      OBVIOUS
    <3> QED
      BY <2>1, <2>2, <2>5, <3>1, <3>2, <3>3, <3>4 DEF Patch, Scanned, Parsed, Checked
  <2> QED
    BY <2>4, <2>5
<1>5. patches' \in Seq(Patch) /\ DOMAIN patches' = DOMAIN patches
  <2>1. patches' = [i \in DOMAIN patches |-> patches'[i]]
    BY <1>1
  <2> QED
    BY <1>3, <1>4, <2>1, SeqOfPatches
<1>6. Typed' /\ Accounted' /\ KeysInTurn'
  BY <1>2, <1>4, <1>5, BehindKeeps
<1>7. InOrder'
  BY <1>2, <1>3 DEF InOrder
<1>8. Progressing'
  <2> HIDE DEF Fresh, Parsed, Checked
  <2> QED
    BY <1>2, <1>4, <1>5 DEF Progressing
<1>9. Attributed'
  BY <1>2, <1>3, <1>4, <1>5 DEF Attributed
<1> QED
  BY <1>6, <1>7, <1>8, <1>9

LEMMA SaveStep ==
    ASSUME Inv, Save
    PROVE  Inv'
<1> USE DEF Inv
<1>1. /\ pc = "save" /\ pc' = "finish" /\ UNCHANGED <<opts, id, targets, agentVars, patches, llmError>>
      /\ \/ rows' = [i \in DOMAIN patches |-> ByIdOf(patches[i].of)]
         \/ rows' = rows
  BY DEF Save
<1>2. patches \in Seq(Patch) /\ rows = <<>> /\ DOMAIN rows = {} /\ ById' = ById
  BY <1>1, ByIdKept DEF Typed, InOrder
<1>3. Typed' /\ Accounted' /\ KeysInTurn'
  BY <1>1, <1>2, BehindKeeps
<1>4. InOrder'
  BY <1>1 DEF InOrder
<1>5. Progressing'
  <2> HIDE DEF Fresh, Parsed, Checked
  <2> QED
    BY <1>1 DEF Progressing
<1>6. Attributed'
  <2>1. CASE rows' = rows
    BY <1>1, <1>2, <2>1 DEF Attributed
  <2>2. CASE rows' = [i \in DOMAIN patches |-> ByIdOf(patches[i].of)]
    <3>1. \A i \in DOMAIN patches : ById[patches[i].of] = ByIdOf(patches[i].of)
      BY DEF Typed, ById
    <3>2. DOMAIN rows' = DOMAIN patches
          /\ \A i \in DOMAIN rows' : rows'[i] = ById[patches[i].of]
      BY <2>2, <3>1
    <3> QED
      BY <1>1, <1>2, <3>2 DEF Attributed
  <2> QED
    BY <1>1, <2>1, <2>2
<1> QED
  BY <1>3, <1>4, <1>5, <1>6

LEMMA PassOnStep ==
    ASSUME Inv, Build \/ Return \/ Raise
    PROVE  Inv'
<1> USE DEF Inv
<1>1. /\ UNCHANGED <<opts, id, targets, agentVars, patches, llmError, rows>>
      /\ \/ pc = "build" /\ pc' = "save"
         \/ pc = "finish" /\ pc' = "returned"
         \/ pc' = "raised"
  BY DEF Build, Return, Raise
<1>2. ById' = ById /\ Reports' = Reports
  BY <1>1, ByIdKept DEF Reports
<1>3. Typed' /\ InOrder' /\ KeysInTurn' /\ Attributed'
  BY <1>1, <1>2 DEF Typed, InOrder, KeysInTurn, AllKeysTried, Attributed, agentVars
<1>4. Accounted'
  <2> HIDE DEF Option
  <2> QED
    BY <1>1 DEF Accounted, agentVars
<1>5. Progressing'
  <2> HIDE DEF Fresh, Parsed, Checked
  <2> QED
    BY <1>1 DEF Progressing
<1> QED
  BY <1>3, <1>4, <1>5

LEMMA StutterStep ==
    ASSUME Inv, UNCHANGED vars
    PROVE  Inv'
<1>1. ById' = ById /\ Reports' = Reports
  BY ByIdKept DEF vars, Reports
<1> HIDE DEF Fresh, Parsed, Checked, Option
<1> QED
  BY <1>1 DEF Inv, Typed, InOrder, Accounted, Progressing, Attributed, KeysInTurn, AllKeysTried,
              vars, agentVars

LEMMA InvStep == Inv /\ [Next]_vars => Inv'
<1> SUFFICES ASSUME Inv, [Next]_vars PROVE Inv'
  OBVIOUS
<1> QED
  BY FrontStep, NextTargetStep, AnswerStep, RateLimitedStep, NoAnswerStep, LosePatchesStep,
     AllAnsweredStep, ValidateSyntaxStep, ValidateSecurityStep, SaveStep, PassOnStep, StutterStep
  DEF Next, Generate

LEMMA InvAlways == Spec => []Inv
BY InitInv, InvStep, PTL DEF Spec

-----------------------------------------------------------------------------

\* All variables keep their types; in particular rows refer to reports of the run.
THEOREM TypeCorrect == Spec => []TypeOK
<1>1. Inv => TypeOK
  <2> SUFFICES ASSUME Inv PROVE TypeOK
    OBVIOUS
  <2> USE DEF Inv
  <2>1. \E n \in 0..MaxReports : id \in [1..n -> Id]
    <3>1. Len(id) \in 0..MaxReports /\ id \in [1..Len(id) -> Id]
      BY LenProperties, PipelineAssumption DEF Typed
    <3> QED
      BY <3>1
  <2>2. \A i \in DOMAIN patches : patches[i] \in Patch
    BY ElementOfSeq, LenProperties DEF Typed
  <2>3. \A i \in DOMAIN rows : rows[i] \in Reports
    <3> SUFFICES ASSUME NEW i \in DOMAIN rows PROVE rows[i] \in Reports
      OBVIOUS
    <3>1. rows # <<>>
      OBVIOUS
    <3>2. i \in DOMAIN patches /\ rows[i] = ById[patches[i].of]
      BY <3>1 DEF Attributed
    <3>3. patches[i].of \in Reports
      BY <3>2 DEF Typed
    <3> QED
      BY <3>2, <3>3, ByIdOfReport DEF ById
  <2> QED
    BY <2>1, <2>2, <2>3 DEF TypeOK, Typed
<1> QED
  BY <1>1, InvAlways, PTL

\* No target is passed over in silence, however attempts fail, as long as the
\* error that loses all patches is reported.
THEOREM AnsweredOrExplainedAlways == Spec => []AnsweredOrExplained
<1>1. Inv => AnsweredOrExplained
  BY DEF Inv, Accounted, AnsweredOrExplained
<1> QED
  BY <1>1, InvAlways, PTL

\* No patch is handed out unchecked.
THEOREM NothingUncheckedAlways == Spec => []NothingUnchecked
<1>1. Inv => NothingUnchecked
  BY DEF Inv, Progressing, Checked, NothingUnchecked
<1> QED
  BY <1>1, InvAlways, PTL

\* The database has each patch under the report that its scan was made for,
\* whatever ids the reports share.
THEOREM StoredUnderScannedAlways == Spec => []StoredUnderScanned
<1>1. Inv => StoredUnderScanned
  <2> SUFFICES ASSUME Inv PROVE StoredUnderScanned
    OBVIOUS
  <2> USE DEF Inv
  <2>1. ASSUME NEW i \in DOMAIN rows
        PROVE  /\ id[rows[i]] = id[patches[i].of]
               /\ patches[i].scan # "none" => rows[i] = patches[i].against
    <3>1. rows # <<>>
      OBVIOUS
    <3>2. i \in DOMAIN patches /\ rows[i] = ById[patches[i].of]
      BY <3>1 DEF Attributed
    <3>3. patches[i].of \in Reports
      BY <3>2 DEF Typed
    <3>4. id[ById[patches[i].of]] = id[patches[i].of]
      BY <3>3, ByIdOfReport DEF ById
    <3> QED
      BY <3>2, <3>4 DEF Attributed
  <2>2. rows # <<>> => DOMAIN rows = DOMAIN patches
    BY DEF Attributed
  <2> QED
    BY <2>1, <2>2 DEF StoredUnderScanned
<1> QED
  BY <1>1, InvAlways, PTL

\* With no more keys than attempts, no target is given up for rate limits while
\* a key has not been tried.
THEOREM AllKeysTriedAlways == Spec => []AllKeysTried
<1>1. Inv => AllKeysTried
  BY DEF Inv, KeysInTurn
<1> QED
  BY <1>1, InvAlways, PTL

-----------------------------------------------------------------------------
(* The red and blue report                                                 *)

OutcomeOf(p) == IF p.status = "verified" THEN "validated_defense" ELSE "needs_review"

\* What has become of a patch can be told from its status alone, once it has
\* been checked.
LEMMA CheckedOutcome ==
    ASSUME NEW p, Checked(p)
    PROVE  /\ FromFile(p).id = id[p.of] /\ DefenseOutcome(FromFile(p)) = OutcomeOf(p)
           /\ FromDatabase(p).id = id[p.of] /\ DefenseOutcome(FromDatabase(p)) = OutcomeOf(p)
           /\ ResidualRisk(FromFile(p)) # ResidualRisk(FromDatabase(p)) => p.scan = "new"
<1>1. /\ FromFile(p).id = id[p.of] /\ FromFile(p).status = p.status
      /\ FromFile(p).passed = (p.scan \in {"clean", "error"})
      /\ FromFile(p).introduced = (p.scan = "new")
  BY DEF FromFile
<1>2. /\ FromDatabase(p).id = id[p.of] /\ FromDatabase(p).status = p.status
      /\ FromDatabase(p).passed = FALSE /\ FromDatabase(p).introduced = FALSE
  BY DEF FromFile, FromDatabase
<1> HIDE DEF Checked
<1>3. CASE p.status = "verified"
  <2>1. DefenseOutcome(FromFile(p)) = "validated_defense"
    BY <1>1, <1>3, Zenon DEF DefenseOutcome
  <2>2. DefenseOutcome(FromDatabase(p)) = "validated_defense"
    BY <1>2, <1>3, Zenon DEF DefenseOutcome
  <2>3. ResidualRisk(FromFile(p)) = "low" /\ ResidualRisk(FromDatabase(p)) = "low"
    BY <2>1, <2>2, Zenon DEF ResidualRisk
  <2> QED
    BY <1>1, <1>2, <1>3, <2>1, <2>2, <2>3 DEF OutcomeOf
<1>4. CASE p.status # "verified"
  <2>1. p.status = "failed" /\ p.scan \in {"none", "new"}
    BY <1>4 DEF Checked
  <2>2. ~FromFile(p).passed
    BY <1>1, <2>1
  <2>3. DefenseOutcome(FromFile(p)) = "needs_review"
    BY <1>1, <2>1, <2>2 DEF DefenseOutcome
  <2>4. DefenseOutcome(FromDatabase(p)) = "needs_review"
    BY <1>2, <2>1 DEF DefenseOutcome
  <2>5. ResidualRisk(FromDatabase(p)) = "unknown"
    BY <1>2, <2>4 DEF ResidualRisk
  <2>6. p.scan # "new" => ResidualRisk(FromFile(p)) = "unknown"
    BY <1>1, <2>3 DEF ResidualRisk
  <2> QED
    BY <1>1, <1>2, <1>4, <2>3, <2>4, <2>5, <2>6 DEF OutcomeOf
<1> QED
  BY <1>3, <1>4

\* The best of patches that were verified or failed is a verified one.
LEMMA BestOfChecked ==
    ASSUME NEW ds, ds # {},
           \A d \in ds : DefenseOutcome(d) \in {"validated_defense", "needs_review"}
    PROVE  BestOutcome(ds) = IF \E d \in ds : DefenseOutcome(d) = "validated_defense"
                             THEN "validated_defense" ELSE "needs_review"
<1> DEFINE Best(k) == /\ \E d \in ds : DefenseOutcome(d) = BestPriority[k]
                      /\ \A d \in ds : \E j \in k..4 : DefenseOutcome(d) = BestPriority[j]
<1>1. /\ BestPriority[1] = "validated_defense" /\ BestPriority[2] = "drafted_defense"
      /\ BestPriority[3] = "needs_review" /\ BestPriority[4] = "not_generated"
  BY DEF BestPriority
<1>2. \A k \in 1..4 : k = 1 \/ k = 2 \/ k = 3 \/ k = 4
  OBVIOUS
<1>3. CASE \E d \in ds : DefenseOutcome(d) = "validated_defense"
  <2>1. Best(1)
    BY <1>1, <1>3
  <2>2. ASSUME NEW k \in 1..4, Best(k) PROVE k = 1
    <3>1. PICK d \in ds : DefenseOutcome(d) = "validated_defense"
      BY <1>3
    <3>2. PICK j \in k..4 : DefenseOutcome(d) = BestPriority[j]
      BY <2>2
    <3>3. j = 1
      BY <1>1, <1>2, <3>1, <3>2
    <3> QED
      BY <3>2, <3>3
  <2>3. (CHOOSE k \in 1..4 : Best(k)) = 1
    <3> HIDE DEF Best
    <3>1. 1 \in 1..4
      OBVIOUS
    <3> QED
      BY <2>1, <2>2, <3>1
  <2> QED
    BY <1>1, <1>3, <2>3 DEF BestOutcome
<1>4. CASE ~\E d \in ds : DefenseOutcome(d) = "validated_defense"
  <2>1. \A d \in ds : DefenseOutcome(d) = "needs_review"
    BY <1>4
  <2>2. Best(3)
    BY <1>1, <2>1
  <2>3. ASSUME NEW k \in 1..4, Best(k) PROVE k = 3
    BY <1>1, <1>2, <2>1, <2>3
  <2>4. (CHOOSE k \in 1..4 : Best(k)) = 3
    <3> HIDE DEF Best
    <3>1. 3 \in 1..4
      OBVIOUS
    <3> QED
      BY <2>2, <2>3, <3>1
  <2> QED
    BY <1>1, <1>4, <2>4 DEF BestOutcome
<1> QED
  BY <1>3, <1>4

\* The patches that are looked up for report r.
Own(r) == {i \in DOMAIN patches : id[patches[i].of] = id[r]}

\* What the row of a report says, from whichever view the outcomes are taken.
LEMMA RowOfChecked ==
    ASSUME NEW view, NEW r, DOMAIN view = DOMAIN patches,
           \A i \in DOMAIN patches : /\ view[i].id = id[patches[i].of]
                                     /\ DefenseOutcome(view[i]) = OutcomeOf(patches[i])
    PROVE  RowStatus(r, Members(view)) =
             IF Own(r) = {} THEN "OPEN"
             ELSE IF \E i \in Own(r) : patches[i].status = "verified" THEN "BLOCKED"
             ELSE "REVIEW"
<1> DEFINE related == {d \in Members(view) : d.id = id[r]}
<1>1. \A d \in related : \E i \in Own(r) : d = view[i]
  BY DEF Members, Own
<1>2. \A i \in Own(r) : view[i] \in related
  BY DEF Members, Own
<1>3. \A i \in Own(r) : DefenseOutcome(view[i]) = OutcomeOf(patches[i])
  BY DEF Own
<1>4. RowStatus(r, Members(view)) =
        IF related = {} THEN "OPEN" ELSE DefenseStatus(BestOutcome(related))
  BY DEF RowStatus
<1> HIDE DEF related
<1>5. CASE Own(r) = {}
  <2>1. related = {}
    BY <1>1, <1>5
  <2> QED
    BY <1>4, <1>5, <2>1
<1>6. CASE Own(r) # {}
  <2>1. related # {}
    BY <1>2, <1>6
  <2>2. \A d \in related : DefenseOutcome(d) \in {"validated_defense", "needs_review"}
    BY <1>1, <1>3 DEF OutcomeOf
  <2>3. (\E d \in related : DefenseOutcome(d) = "validated_defense")
           <=> \E i \in Own(r) : patches[i].status = "verified"
    <3>1. \A i \in Own(r) : DefenseOutcome(view[i]) = "validated_defense"
                              <=> patches[i].status = "verified"
      BY <1>3 DEF OutcomeOf
    <3> QED
      BY <1>1, <1>2, <3>1
  <2>4. BestOutcome(related) = IF \E i \in Own(r) : patches[i].status = "verified"
                               THEN "validated_defense" ELSE "needs_review"
    BY <2>1, <2>2, <2>3, BestOfChecked
  <2>5. /\ DefenseStatus("validated_defense") = "BLOCKED"
        /\ DefenseStatus("needs_review") = "REVIEW"
    BY DEF DefenseStatus
  <2> QED
    BY <1>4, <1>6, <2>1, <2>4, <2>5
<1> QED
  BY <1>5, <1>6

\* Both views of a finished run tell of each patch what has become of it.
LEMMA ViewsOfFinished ==
    ASSUME Inv, Finished
    PROVE  /\ DOMAIN FileView = DOMAIN patches
           /\ \A i \in DOMAIN patches :
                /\ Checked(patches[i])
                /\ FileView[i] = FromFile(patches[i])
                /\ FileView[i].id = id[patches[i].of]
                /\ DefenseOutcome(FileView[i]) = OutcomeOf(patches[i])
           /\ DOMAIN rows = DOMAIN patches =>
                /\ DOMAIN DatabaseView = DOMAIN patches
                /\ \A i \in DOMAIN patches :
                     /\ DatabaseView[i] = FromDatabase(patches[i])
                     /\ DatabaseView[i].id = id[patches[i].of]
                     /\ DefenseOutcome(DatabaseView[i]) = OutcomeOf(patches[i])
<1>1. \A i \in DOMAIN patches : Checked(patches[i])
  BY DEF Inv, Progressing, Finished
<1> HIDE DEF Checked
<1>2. DOMAIN FileView = DOMAIN patches
      /\ \A i \in DOMAIN patches : FileView[i] = FromFile(patches[i])
  BY DEF FileView
<1>3. DOMAIN DatabaseView = DOMAIN rows
      /\ \A i \in DOMAIN rows : DatabaseView[i] = FromDatabase(patches[i])
  BY DEF DatabaseView
<1> QED
  BY <1>1, <1>2, <1>3, CheckedOutcome

Verified == {i \in DOMAIN patches : patches[i].status = "verified"}

\* A verified patch counts in both views, and no other patch in the database's.
LEMMA VerifiedCounts ==
    ASSUME Inv, Finished, NEW c \in RemovedCounts, NEW i \in DOMAIN patches
    PROVE  /\ c[i] \in 0..MaxRemoved
           /\ i \in Verified =>
                CountsFor(FileView[i], c[i]) \in Nat /\ CountsFor(FileView[i], c[i]) >= 1
           /\ DOMAIN rows = DOMAIN patches =>
                CountsFor(DatabaseView[i], c[i]) = IF i \in Verified THEN 1 ELSE 0
<1>1. c[i] \in 0..MaxRemoved
  BY DEF RemovedCounts
<1>2. /\ Checked(patches[i]) /\ FileView[i] = FromFile(patches[i])
      /\ DOMAIN rows = DOMAIN patches =>
           /\ DatabaseView[i] = FromDatabase(patches[i])
           /\ DefenseOutcome(DatabaseView[i]) = OutcomeOf(patches[i])
  BY ViewsOfFinished
<1>3. ASSUME i \in Verified
      PROVE  CountsFor(FileView[i], c[i]) = IF c[i] = 0 THEN 1 ELSE c[i]
  <2>1. patches[i].scan \in {"clean", "error"} /\ ~patches[i].blank
    BY <1>2, <1>3 DEF Verified, Checked
  <2>2. FileView[i].scanned /\ FileView[i].passed /\ FileView[i].code
    <3>1. PICK p : p = patches[i]
      OBVIOUS
    <3>2. /\ FromFile(p).scanned = (p.scan # "none")
          /\ FromFile(p).passed = (p.scan \in {"clean", "error"})
          /\ FromFile(p).code = ~p.blank
      BY DEF FromFile
    <3> QED
      BY <1>2, <2>1, <3>1, <3>2
  <2> QED
    BY <2>2, Zenon DEF CountsFor
<1>4. ASSUME DOMAIN rows = DOMAIN patches
      PROVE  CountsFor(DatabaseView[i], c[i]) = IF i \in Verified THEN 1 ELSE 0
  <2>1. DatabaseView[i].scanned = FALSE
    BY <1>2, <1>4 DEF FromDatabase, FromFile
  <2>2. DefenseOutcome(DatabaseView[i]) = "validated_defense" <=> i \in Verified
    BY <1>2, <1>4 DEF OutcomeOf, Verified
  <2> QED
    BY <2>1, <2>2, Zenon DEF CountsFor
<1> HIDE DEF Verified
<1> QED
  BY <1>1, <1>3, <1>4, RedBlueAssumption

\* A finding that a verified patch removes; the sums are over finite sets.
LEMMA RemovalsFacts ==
    ASSUME Inv, Finished, NEW c \in RemovedCounts
    PROVE  /\ \A i \in Verified : <<i, 1>> \in Removals(FileView, c)
           /\ IsFiniteSet(Removals(FileView, c))
           /\ DOMAIN rows = DOMAIN patches =>
                Removals(DatabaseView, c) \in SUBSET Removals(FileView, c)
<1>1. DOMAIN FileView = DOMAIN patches /\ Verified \subseteq DOMAIN patches
  BY ViewsOfFinished DEF Verified
<1>2. ASSUME NEW i \in Verified PROVE <<i, 1>> \in Removals(FileView, c)
  <2>1. CountsFor(FileView[i], c[i]) \in Nat /\ CountsFor(FileView[i], c[i]) >= 1
    BY <1>1, <1>2, VerifiedCounts
  <2> QED
    BY <1>1, <1>2, <2>1, RedBlueAssumption DEF Removals
<1>3. IsFiniteSet(Removals(FileView, c))
  <2>1. patches \in Seq(Patch) /\ Len(patches) \in Nat /\ DOMAIN patches = 1..Len(patches)
    BY LenProperties DEF Inv, Typed
  <2>2. IsFiniteSet(1..Len(patches))
    BY <2>1, FS_Interval
  <2>3. IsFiniteSet(1..MaxRemoved)
    BY RedBlueAssumption, FS_Interval
  <2>4. IsFiniteSet((DOMAIN FileView) \X (1..MaxRemoved))
    BY <1>1, <2>1, <2>2, <2>3, FS_Product
  <2>5. Removals(FileView, c) \in SUBSET ((DOMAIN FileView) \X (1..MaxRemoved))
    BY DEF Removals
  <2> QED
    BY <2>4, <2>5, FS_Subset
<1>4. ASSUME DOMAIN rows = DOMAIN patches, NEW x \in Removals(DatabaseView, c)
      PROVE  x \in Removals(FileView, c)
  <2>1. DOMAIN DatabaseView = DOMAIN patches
    BY <1>4, ViewsOfFinished
  <2>2. PICK i \in DOMAIN patches, k \in 1..MaxRemoved :
          x = <<i, k>> /\ k <= CountsFor(DatabaseView[i], c[i])
    BY <2>1 DEF Removals
  <2>3. CountsFor(DatabaseView[i], c[i]) = IF i \in Verified THEN 1 ELSE 0
    BY <1>4, VerifiedCounts
  <2>4. i \in Verified /\ k = 1
    BY <2>2, <2>3, RedBlueAssumption
  <2> QED
    BY <1>2, <2>2, <2>4
<1> QED
  BY <1>2, <1>3, <1>4

\* The report of the file and that of the database agree on every patch and on
\* every finding, on the risk that is left but for patches with new findings, and
\* the file has no fewer findings fixed.
THEOREM ViewsAgreeAlways == Spec => []ViewsAgree
<1>1. Inv => ViewsAgree
  <2> SUFFICES ASSUME Inv, Finished, DOMAIN rows = DOMAIN patches
               PROVE  /\ \A i \in DOMAIN patches :
                           /\ DefenseOutcome(FileView[i]) = DefenseOutcome(DatabaseView[i])
                           /\ ResidualRisk(FileView[i]) # ResidualRisk(DatabaseView[i]) =>
                                patches[i].scan = "new"
                      /\ \A r \in Reports :
                           RowStatus(r, Members(FileView)) = RowStatus(r, Members(DatabaseView))
                      /\ \A c \in RemovedCounts :
                           FixedCount(DatabaseView, c) <= FixedCount(FileView, c)
    BY DEF ViewsAgree
  <2>1. ASSUME NEW i \in DOMAIN patches
        PROVE  /\ DefenseOutcome(FileView[i]) = DefenseOutcome(DatabaseView[i])
               /\ ResidualRisk(FileView[i]) # ResidualRisk(DatabaseView[i]) =>
                    patches[i].scan = "new"
    <3>1. /\ Checked(patches[i])
          /\ FileView[i] = FromFile(patches[i]) /\ DatabaseView[i] = FromDatabase(patches[i])
      BY ViewsOfFinished
    <3> HIDE DEF Checked
    <3> QED
      BY <3>1, CheckedOutcome
  <2>2. ASSUME NEW r \in Reports
        PROVE  RowStatus(r, Members(FileView)) = RowStatus(r, Members(DatabaseView))
    <3> DEFINE row == IF Own(r) = {} THEN "OPEN"
                      ELSE IF \E i \in Own(r) : patches[i].status = "verified" THEN "BLOCKED"
                      ELSE "REVIEW"
    <3>1. RowStatus(r, Members(FileView)) = row
      BY ViewsOfFinished, RowOfChecked
    <3>2. RowStatus(r, Members(DatabaseView)) = row
      BY ViewsOfFinished, RowOfChecked
    <3> QED
      BY <3>1, <3>2
  <2>3. ASSUME NEW c \in RemovedCounts
        PROVE  FixedCount(DatabaseView, c) <= FixedCount(FileView, c)
    <3> DEFINE m == Cardinality(Removals(DatabaseView, c))
               n == Cardinality(Removals(FileView, c))
    <3>1. m \in Nat /\ n \in Nat /\ m <= n
      BY RemovalsFacts, FS_Subset, FS_CardinalityType
    <3>2. Len(id) \in Nat
      BY LenProperties DEF Inv, Typed
    <3>3. /\ FixedCount(DatabaseView, c) = IF m < Len(id) THEN m ELSE Len(id)
          /\ FixedCount(FileView, c) = IF n < Len(id) THEN n ELSE Len(id)
      BY DEF FixedCount
    <3> HIDE DEF m, n
    <3> QED
      BY <3>1, <3>2, <3>3
  <2> QED
    BY <2>1, <2>2, <2>3
<1> QED
  BY <1>1, InvAlways, PTL

\* The ids under which a patch was verified are no more than the findings that
\* are counted as fixed.
LEMMA IdsFixed ==
    ASSUME Inv, Finished, NEW c \in RemovedCounts,
           NEW B, B \subseteq {id[r] : r \in Reports},
           \A b \in B : \E i \in Verified : id[patches[i].of] = b
    PROVE  Cardinality(B) <= FixedCount(FileView, c)
<1> DEFINE chosen == [b \in B |-> CHOOSE i \in Verified : id[patches[i].of] = b]
           pair   == [b \in B |-> <<chosen[b], 1>>]
           R      == Removals(FileView, c)
<1>1. \A b \in B : chosen[b] \in Verified /\ id[patches[chosen[b]].of] = b
  OBVIOUS
<1> HIDE DEF chosen
<1>2. pair \in Injection(B, R)
  <2>1. pair \in [B -> R]
    BY <1>1, RemovalsFacts
  <2>2. \A b, d \in B : pair[b] = pair[d] => b = d
    BY <1>1
  <2> QED
    BY <2>1, <2>2 DEF Injection, IsInjective
<1> HIDE DEF pair
<1>3. IsFiniteSet(R)
  BY RemovalsFacts
<1> HIDE DEF R
<1>4. IsFiniteSet(B) /\ Cardinality(B) <= Cardinality(R)
  BY <1>2, <1>3, FS_Injection
<1>5. Len(id) \in Nat /\ Reports = 1..Len(id)
  BY LenProperties DEF Inv, Typed, Reports
<1>6. Cardinality(B) <= Len(id)
  <2> DEFINE first == [b \in B |-> CHOOSE r \in Reports : id[r] = b]
  <2>1. \A b \in B : first[b] \in Reports /\ id[first[b]] = b
    OBVIOUS
  <2>2. first \in [B -> Reports]
    BY <2>1
  <2> HIDE DEF first
  <2>3. first \in Injection(B, Reports)
    BY <2>1, <2>2 DEF Injection, IsInjective
  <2>4. IsFiniteSet(1..Len(id)) /\ Cardinality(1..Len(id)) = IF 1 > Len(id) THEN 0 ELSE Len(id) - 1 + 1
    BY <1>5, FS_Interval
  <2>5. IsFiniteSet(Reports) /\ Cardinality(Reports) = Len(id)
    BY <1>5, <2>4
  <2> QED
    BY <2>3, <2>5, FS_Injection
<1>7. Cardinality(B) \in Nat /\ Cardinality(R) \in Nat
  BY <1>3, <1>4, FS_CardinalityType
<1>8. FixedCount(FileView, c) = IF Cardinality(R) < Len(id) THEN Cardinality(R) ELSE Len(id)
  BY DEF FixedCount, R
<1> QED
  BY <1>4, <1>5, <1>6, <1>7, <1>8

\* A finding is called blocked exactly if a patch under its id was verified, and
\* open exactly if it has none; and no more ids are blocked than findings counted
\* as fixed, whatever the scans count.
THEOREM BlockedIsVerifiedAlways == Spec => []BlockedIsVerified
<1>1. Inv => BlockedIsVerified
  <2> SUFFICES ASSUME Inv, Finished
               PROVE  /\ \A r \in Reports :
                           /\ RowStatus(r, Members(FileView)) = "BLOCKED"
                                <=> \E i \in Own(r) : patches[i].status = "verified"
                           /\ RowStatus(r, Members(FileView)) = "OPEN" <=> Own(r) = {}
                      /\ \A c \in RemovedCounts :
                           Cardinality({id[r] : r \in Blocked(FileView)})
                             <= FixedCount(FileView, c)
    BY DEF BlockedIsVerified, Own
  <2>1. ASSUME NEW r \in Reports
        PROVE  /\ RowStatus(r, Members(FileView)) = "BLOCKED"
                    <=> \E i \in Own(r) : patches[i].status = "verified"
               /\ RowStatus(r, Members(FileView)) = "OPEN" <=> Own(r) = {}
    <3>1. RowStatus(r, Members(FileView)) =
            IF Own(r) = {} THEN "OPEN"
            ELSE IF \E i \in Own(r) : patches[i].status = "verified" THEN "BLOCKED"
            ELSE "REVIEW"
      BY ViewsOfFinished, RowOfChecked
    <3> QED
      BY <3>1
  <2>2. ASSUME NEW c \in RemovedCounts
        PROVE  Cardinality({id[r] : r \in Blocked(FileView)}) <= FixedCount(FileView, c)
    <3> DEFINE B == {id[r] : r \in Blocked(FileView)}
    <3>1. B \subseteq {id[r] : r \in Reports}
      BY DEF Blocked
    <3>2. \A b \in B : \E i \in Verified : id[patches[i].of] = b
      BY <2>1 DEF Blocked, Own, Verified
    <3> HIDE DEF B
    <3>3. Cardinality(B) <= FixedCount(FileView, c)
      BY <3>1, <3>2, IdsFixed
    <3> QED
      BY <3>3 DEF B
  <2> QED
    BY <2>1, <2>2
<1> QED
  BY <1>1, InvAlways, PTL

=============================================================================
