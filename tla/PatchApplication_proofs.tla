----------------------- MODULE PatchApplication_proofs -----------------------
(***************************************************************************)
(* Proofs about PatchApplication, for any fixes and vulnerabilities, any   *)
(* number of requests and any length of time.                              *)
(***************************************************************************)
EXTENDS PatchApplication, FiniteSetTheorems, TLAPS

\* A request has a branch of its own from the moment that GitHub says so.
NamesHold ==
    \A a \in Attempt :
        /\ name[a] # NoName => name[a] \in DOMAIN branches
        /\ step[a] \in {"unused", "save", "main", "branch"} => name[a] = NoName
        /\ step[a] \in {"file", "commit", "pull"} => name[a] # NoName

NamesDiffer ==
    \A a, b \in Attempt : a # b /\ name[a] # NoName => name[a] # name[b]

\* That branch holds what main held until the commit, and the fix after it.
BranchHolds ==
    \A a \in Attempt :
        /\ seen[a] \notin Fix
        /\ step[a] # "unused" => fix[a] \in Fix
        /\ step[a] \in {"file", "commit"} => branches[name[a]] \notin Fix
        /\ step[a] = "pull" => branches[name[a]] = fix[a]

\* The pull requests are those of requests that are over.
PullsHold ==
    \A p \in pulls :
        /\ step[p.by] \in {"replied", "done"}
        /\ p.head = name[p.by] /\ name[p.by] # NoName /\ branches[p.head] = fix[p.by]

\* ReplyMatchesGitHub, of one request, and that a reply comes last.
ReplyHolds(a) ==
    /\ reply[a] # "none" => step[a] \in {"replied", "done"}
    /\ reply[a] = "pr_created" => [head |-> name[a], by |-> a] \in pulls
    /\ reply[a] \in {"pr_created", "committed"} =>
         name[a] # NoName /\ branches[name[a]] = fix[a]
    /\ reply[a] \in {"committed", "applied_local", "error"} /\ a \notin lost =>
         \A p \in pulls : p.by # a
    /\ reply[a] = "applied_local" /\ a \notin lost /\ name[a] # NoName =>
         branches[name[a]] # fix[a]

RepliesHold == \A a \in Attempt : ReplyHolds(a)

Inv == TypeOK /\ NamesHold /\ NamesDiffer /\ BranchHolds /\ PullsHold /\ RepliesHold

USE DEF Content, Attempt, Second, Pull

LEMMA NewNameType == ASSUME TypeOK, NEW a \in Attempt, fix[a] \in Fix PROVE NewName(a) \in Name
BY PatchApplicationAssumption DEF TypeOK, NewName, Name

LEMMA InitInv == Init => Inv
BY PatchApplicationAssumption
DEF Init, Inv, TypeOK, NamesHold, NamesDiffer, BranchHolds, PullsHold, RepliesHold, ReplyHolds

-----------------------------------------------------------------------------
(* What the view does leaves the branches and replies alone.               *)

ViewStep(f) == Click(f) \/ Show(f) \/ Disconnect(f) \/ Remount(f)

LEMMA ViewType == ASSUME Inv, NEW f \in Fix, ViewStep(f) PROVE TypeOK'
<1> USE PatchApplicationAssumption DEF Inv
<1>1. CASE Click(f)
  BY <1>1 DEF Click, TypeOK, viewVars, github
<1>2. CASE Show(f)
  BY <1>2 DEF Show, TypeOK, viewVars, github
<1>3. CASE Disconnect(f)
  BY <1>3 DEF Disconnect, TypeOK, viewVars, github
<1>4. CASE Remount(f)
  BY <1>4 DEF Remount, TypeOK, viewVars, github
<1> QED BY <1>1, <1>2, <1>3, <1>4 DEF ViewStep

LEMMA ViewKeeps == ASSUME Inv, NEW f \in Fix, ViewStep(f) PROVE Inv'
<1>0. TypeOK' BY ViewType
<1>1. CASE Click(f)
  <2>1. PICK a \in Attempt : /\ step[a] = "unused"
                             /\ step' = [step EXCEPT ![a] = "save"]
                             /\ fix' = [fix EXCEPT ![a] = f]
    BY <1>1 DEF Click
  <2>2. UNCHANGED <<name, reply, seen, branches, pulls, lost>>
    BY <1>1 DEF Click, github
  <2>3. NamesHold' /\ NamesDiffer'
    BY <2>1, <2>2 DEF Inv, TypeOK, NamesHold, NamesDiffer
  <2>4. BranchHolds'
    BY <2>1, <2>2 DEF Inv, TypeOK, BranchHolds
  <2>5. PullsHold'
    BY <2>1, <2>2 DEF Inv, TypeOK, PullsHold
  <2>6. RepliesHold'
    BY <2>1, <2>2 DEF Inv, TypeOK, RepliesHold, ReplyHolds
  <2> QED BY <1>0, <2>3, <2>4, <2>5, <2>6 DEF Inv
<1>2. CASE Show(f)
  <2>1. waiting[f] \in Attempt BY <1>2 DEF Show, Inv, TypeOK
  <2> QED BY <1>0, <1>2, <2>1
       DEF Show, Inv, TypeOK, NamesHold, NamesDiffer, BranchHolds, PullsHold, RepliesHold, ReplyHolds, github
<1>3. CASE Disconnect(f) \/ Remount(f)
  BY <1>0, <1>3
  DEF Disconnect, Remount, Inv, NamesHold, NamesDiffer, BranchHolds, PullsHold, RepliesHold, ReplyHolds, github
<1> QED BY <1>1, <1>2, <1>3 DEF ViewStep

LEMMA OutsideKeeps == ASSUME Inv, Tick \/ EditMain \/ UNCHANGED vars PROVE Inv'
<1>1. CASE Tick
  BY <1>1, PatchApplicationAssumption
  DEF Tick, Inv, TypeOK, NamesHold, NamesDiffer, BranchHolds, PullsHold, RepliesHold, ReplyHolds, github, viewVars
<1>2. CASE EditMain
  BY <1>2, PatchApplicationAssumption
  DEF EditMain, Inv, TypeOK, NamesHold, NamesDiffer, BranchHolds, PullsHold, RepliesHold, ReplyHolds, viewVars
<1>3. CASE UNCHANGED vars
  BY <1>3
  DEF vars, Inv, TypeOK, NamesHold, NamesDiffer, BranchHolds, PullsHold, RepliesHold, ReplyHolds, github, viewVars
<1> QED BY <1>1, <1>2, <1>3

-----------------------------------------------------------------------------
(* The calls of one request                                                *)

LEMMA ProceedType == ASSUME Inv, NEW a \in Attempt, Proceed(a) PROVE TypeOK'
<1> USE PatchApplicationAssumption DEF Inv
<1>0. step[a] # "unused" /\ fix[a] \in Fix
  BY DEF Proceed, SaveLocal, GetMain, CreateBranch, GetFile, CommitFile, OpenPull, Refused,
         AnswerLost, BranchHolds
<1>1. NewName(a) \in Name BY <1>0, NewNameType
<1>2. CASE SaveLocal(a)
  <2>1. local' \in Fix \cup {"missing", "damaged"}
    BY <1>0, <1>2 DEF SaveLocal, TypeOK
  <2>2. step' \in [Attempt -> {"unused", "save", "main", "branch", "file", "commit", "pull",
                              "replied", "done"}]
    <3>1. Goto(a, "main") \/ Goto(a, "replied")
      BY <1>2 DEF SaveLocal, Answer
    <3> QED BY <3>1 DEF Goto, TypeOK
  <2>3. reply' \in [Attempt -> {"none", "pr_created", "committed", "applied_local", "error"}]
    BY <1>2 DEF SaveLocal, Goto, Answer, TypeOK
  <2> QED BY <1>2, <2>1, <2>2, <2>3 DEF SaveLocal, TypeOK, viewVars, github
<1>3. CASE GetMain(a)
  <2>1. step' \in [Attempt -> {"unused", "save", "main", "branch", "file", "commit", "pull",
                              "replied", "done"}]
    BY <1>3 DEF GetMain, Goto, TypeOK
  <2> QED BY <1>3, <2>1 DEF GetMain, TypeOK, viewVars, github
<1>4. CASE CreateBranch(a)
  BY <1>1, <1>4 DEF CreateBranch, Goto, WithBranch, TypeOK, viewVars
<1>5. CASE GetFile(a)
  <2>1. branches[name[a]] \in Content BY <1>5 DEF GetFile, TypeOK, NamesHold
  <2>2. sha' \in [Attempt -> Content] BY <1>5, <2>1 DEF GetFile, TypeOK
  <2> QED BY <1>5, <2>2 DEF GetFile, Goto, TypeOK, viewVars, github
<1>6. CASE CommitFile(a)
  BY <1>0, <1>6 DEF CommitFile, Goto, TypeOK, viewVars
<1>7. CASE OpenPull(a)
  <2>1. name[a] \in Name BY <1>7 DEF OpenPull, TypeOK, NamesHold
  <2> QED BY <1>7, <2>1 DEF OpenPull, Answer, Goto, TypeOK, viewVars
<1>8. CASE Refused(a)
  BY <1>8 DEF Refused, Answer, Goto, TypeOK, viewVars, github
<1>9. CASE AnswerLost(a)
  <2>1. pulls' \subseteq Pull
    <3>1. step[a] = "pull" => name[a] \in Name BY DEF TypeOK, NamesHold
    <3> QED BY <1>9, <3>1 DEF AnswerLost, EffectOf, TypeOK
  <2>2. DOMAIN branches' \subseteq Name /\ \A b \in DOMAIN branches' : branches'[b] \in Content
    <3>1. CASE UNCHANGED branches BY <3>1 DEF TypeOK
    <3>2. CASE branches' = WithBranch(NewName(a), seen[a])
      BY <1>1, <3>2 DEF WithBranch, TypeOK
    <3>3. CASE branches' = [branches EXCEPT ![name[a]] = fix[a]]
      BY <1>0, <3>3 DEF TypeOK
    <3> QED BY <1>9, <3>1, <3>2, <3>3 DEF AnswerLost, EffectOf
  <2> QED BY <1>9, <2>1, <2>2 DEF AnswerLost, Answer, Goto, TypeOK, viewVars
<1> QED BY <1>2, <1>3, <1>4, <1>5, <1>6, <1>7, <1>8, <1>9 DEF Proceed

LEMMA ProceedKeeps == ASSUME Inv, NEW a \in Attempt, Proceed(a) PROVE Inv'
<1>0. TypeOK' BY ProceedType
<1>1. step[a] # "unused" /\ fix[a] \in Fix /\ Fix \cap {"missing"} = {}
  BY PatchApplicationAssumption
  DEF Proceed, SaveLocal, GetMain, CreateBranch, GetFile, CommitFile, OpenPull, Refused,
      AnswerLost, Inv, BranchHolds
<1>2. CASE SaveLocal(a)
  <2>1. step[a] = "save" /\ UNCHANGED <<fix, name, seen, branches, pulls, lost>>
    BY <1>2 DEF SaveLocal, github
  <2>2. CASE step' = [step EXCEPT ![a] = "main"] /\ UNCHANGED reply
    BY <1>0, <2>1, <2>2
    DEF Inv, TypeOK, NamesHold, NamesDiffer, BranchHolds, PullsHold, RepliesHold, ReplyHolds
  <2>3. ASSUME NEW r \in {"applied_local", "error"}, step' = [step EXCEPT ![a] = "replied"],
               reply' = [reply EXCEPT ![a] = r]
        PROVE  Inv'
    <3>1. NamesHold' /\ NamesDiffer' /\ BranchHolds'
      BY <2>1, <2>3 DEF Inv, TypeOK, NamesHold, NamesDiffer, BranchHolds
    <3>2. PullsHold'
      BY <2>1, <2>3 DEF Inv, TypeOK, PullsHold
    <3>3. name[a] = NoName /\ \A p \in pulls : p.by # a
      BY <2>1 DEF Inv, NamesHold, PullsHold
    <3>4. RepliesHold'
      BY <2>1, <2>3, <3>3 DEF Inv, TypeOK, RepliesHold, ReplyHolds
    <3> QED BY <1>0, <3>1, <3>2, <3>4 DEF Inv
  <2> QED BY <1>2, <2>2, <2>3 DEF SaveLocal, Goto, Answer
<1>3. CASE GetMain(a)
  <2>1. main \notin Fix BY DEF Inv, TypeOK
  <2> QED BY <1>0, <1>3, <2>1
       DEF GetMain, Goto, Inv, TypeOK, NamesHold, NamesDiffer, BranchHolds, PullsHold, RepliesHold, ReplyHolds,
           github
<1>4. CASE CreateBranch(a)
  <2> DEFINE n == NewName(a)
  <2>1. /\ step[a] = "branch" /\ step' = [step EXCEPT ![a] = "file"]
        /\ n \notin DOMAIN branches /\ name' = [name EXCEPT ![a] = n]
        /\ DOMAIN branches' = DOMAIN branches \cup {n}
        /\ branches'[n] = seen[a] /\ \A b \in DOMAIN branches : branches'[b] = branches[b]
        /\ UNCHANGED <<fix, reply, seen, pulls, lost>>
    BY <1>4 DEF CreateBranch, Goto, WithBranch
  <2>2. n # NoName
    BY <1>1, NewNameType, PatchApplicationAssumption DEF Inv
  <2> HIDE DEF n
  <2>3. NamesHold' BY <2>1, <2>2 DEF Inv, TypeOK, NamesHold
  <2>4. NamesDiffer' BY <2>1, <2>2 DEF Inv, TypeOK, NamesHold, NamesDiffer
  <2>5. BranchHolds' BY <2>1, <2>2 DEF Inv, TypeOK, NamesHold, BranchHolds
  <2>6. PullsHold' BY <2>1, <2>2 DEF Inv, TypeOK, NamesHold, PullsHold
  <2>7. reply[a] = "none" BY <2>1 DEF Inv, RepliesHold, ReplyHolds
  <2>8. ASSUME NEW x \in Attempt, x # a PROVE ReplyHolds(x)'
    <3>1. ReplyHolds(x) BY DEF Inv, RepliesHold
    <3>2. name[x] # NoName => name[x] \in DOMAIN branches BY DEF Inv, NamesHold
    <3>3. name'[x] = name[x] /\ step'[x] = step[x] BY <2>1, <2>8 DEF Inv, TypeOK
    <3> QED BY <2>1, <3>1, <3>2, <3>3 DEF ReplyHolds
  <2>9. RepliesHold' BY <2>1, <2>7, <2>8 DEF RepliesHold, ReplyHolds
  <2> QED BY <1>0, <2>3, <2>4, <2>5, <2>6, <2>9 DEF Inv
<1>5. CASE GetFile(a)
  BY <1>0, <1>5
  DEF GetFile, Goto, Inv, TypeOK, NamesHold, NamesDiffer, BranchHolds, PullsHold, RepliesHold, ReplyHolds, github
<1>6. CASE CommitFile(a)
  <2>1. /\ step[a] = "commit" /\ step' = [step EXCEPT ![a] = "pull"]
        /\ branches' = [branches EXCEPT ![name[a]] = fix[a]]
        /\ UNCHANGED <<fix, name, reply, seen, pulls, lost>>
    BY <1>6 DEF CommitFile, Goto
  <2>2. NamesHold' /\ NamesDiffer'
    BY <2>1 DEF Inv, TypeOK, NamesHold, NamesDiffer
  <2>3. BranchHolds'
    BY <1>1, <2>1 DEF Inv, TypeOK, NamesHold, NamesDiffer, BranchHolds
  <2>4. PullsHold'
    BY <2>1 DEF Inv, TypeOK, NamesHold, NamesDiffer, PullsHold
  <2>5. RepliesHold'
    BY <2>1 DEF Inv, TypeOK, NamesHold, NamesDiffer, RepliesHold, ReplyHolds
  <2> QED BY <1>0, <2>2, <2>3, <2>4, <2>5 DEF Inv
<1>7. CASE OpenPull(a)
  <2>1. /\ step[a] = "pull" /\ step' = [step EXCEPT ![a] = "replied"]
        /\ reply' = [reply EXCEPT ![a] = "pr_created"]
        /\ pulls' = pulls \cup {[head |-> name[a], by |-> a]}
        /\ UNCHANGED <<fix, name, seen, branches, lost>>
    BY <1>7 DEF OpenPull, Answer, Goto
  <2>2. NamesHold' /\ NamesDiffer' /\ BranchHolds'
    BY <2>1 DEF Inv, TypeOK, NamesHold, NamesDiffer, BranchHolds
  <2>3. PullsHold'
    BY <2>1 DEF Inv, TypeOK, NamesHold, BranchHolds, PullsHold
  <2>4. RepliesHold'
    BY <2>1 DEF Inv, TypeOK, NamesHold, BranchHolds, RepliesHold, ReplyHolds
  <2> QED BY <1>0, <2>2, <2>3, <2>4 DEF Inv
<1>8. CASE Refused(a)
  <2>1. /\ step[a] \in {"main", "branch", "commit", "pull"}
        /\ step' = [step EXCEPT ![a] = "replied"]
        /\ reply' = [reply EXCEPT ![a] = IF step[a] = "pull" THEN "committed"
                                         ELSE "applied_local"]
        /\ UNCHANGED <<fix, name, seen, branches, pulls, lost>>
    BY <1>8 DEF Refused, Answer, Goto, github
  <2>2. NamesHold' /\ NamesDiffer' /\ BranchHolds'
    BY <2>1 DEF Inv, TypeOK, NamesHold, NamesDiffer, BranchHolds
  <2>3. PullsHold'
    BY <2>1 DEF Inv, TypeOK, PullsHold
  <2>4. RepliesHold'
    BY <1>1, <2>1 DEF Inv, TypeOK, NamesHold, BranchHolds, PullsHold, RepliesHold, ReplyHolds
  <2> QED BY <1>0, <2>2, <2>3, <2>4 DEF Inv
<1>9. CASE AnswerLost(a)
  <2>1. /\ step[a] \in {"main", "branch", "file", "commit", "pull"}
        /\ step' = [step EXCEPT ![a] = "replied"]
        /\ reply' = [reply EXCEPT ![a] = "applied_local"]
        /\ lost' = lost \cup {a}
        /\ UNCHANGED <<fix, name, seen>>
    BY <1>9 DEF AnswerLost, Answer, Goto
  <2>2. CASE UNCHANGED <<branches, pulls>>
    BY <1>0, <2>1, <2>2
    DEF Inv, TypeOK, NamesHold, NamesDiffer, BranchHolds, PullsHold, RepliesHold, ReplyHolds
  <2>3. CASE /\ step[a] = "branch" /\ NewName(a) \notin DOMAIN branches
             /\ branches' = WithBranch(NewName(a), seen[a])
             /\ UNCHANGED pulls
    <3>1. DOMAIN branches \subseteq DOMAIN branches' /\
          \A b \in DOMAIN branches : branches'[b] = branches[b]
      BY <2>3 DEF WithBranch
    <3>2. NamesHold' /\ NamesDiffer' /\ BranchHolds'
      BY <2>1, <3>1 DEF Inv, TypeOK, NamesHold, NamesDiffer, BranchHolds
    <3>3. PullsHold' BY <2>1, <2>3, <3>1 DEF Inv, TypeOK, NamesHold, PullsHold
    <3>4. RepliesHold' BY <2>1, <2>3, <3>1 DEF Inv, TypeOK, NamesHold, RepliesHold, ReplyHolds
    <3> QED BY <1>0, <3>2, <3>3, <3>4 DEF Inv
  <2>4. CASE /\ step[a] = "commit" /\ sha[a] = branches[name[a]]
             /\ branches' = [branches EXCEPT ![name[a]] = fix[a]]
             /\ UNCHANGED pulls
    <3>1. NamesHold' /\ NamesDiffer'
      BY <2>1, <2>4 DEF Inv, TypeOK, NamesHold, NamesDiffer
    <3>2. BranchHolds'
      BY <2>1, <2>4 DEF Inv, TypeOK, NamesHold, NamesDiffer, BranchHolds
    <3>3. PullsHold'
      BY <2>1, <2>4 DEF Inv, TypeOK, NamesHold, NamesDiffer, PullsHold
    <3>4. RepliesHold'
      BY <2>1, <2>4 DEF Inv, TypeOK, NamesHold, NamesDiffer, RepliesHold, ReplyHolds
    <3> QED BY <1>0, <3>1, <3>2, <3>3, <3>4 DEF Inv
  <2>5. CASE /\ step[a] = "pull" /\ Mergeable(a)
             /\ pulls' = pulls \cup {[head |-> name[a], by |-> a]}
             /\ UNCHANGED branches
    <3>1. NamesHold' /\ NamesDiffer' /\ BranchHolds'
      BY <2>1, <2>5 DEF Inv, TypeOK, NamesHold, NamesDiffer, BranchHolds
    <3>2. PullsHold'
      BY <2>1, <2>5 DEF Inv, TypeOK, NamesHold, BranchHolds, PullsHold
    <3>3. RepliesHold'
      BY <2>1, <2>5 DEF Inv, TypeOK, RepliesHold, ReplyHolds
    <3> QED BY <1>0, <3>1, <3>2, <3>3 DEF Inv
  <2> QED BY <1>9, <2>2, <2>3, <2>4, <2>5 DEF AnswerLost, EffectOf
<1> QED BY <1>2, <1>3, <1>4, <1>5, <1>6, <1>7, <1>8, <1>9 DEF Proceed

-----------------------------------------------------------------------------

\* Every step preserves the invariant.
THEOREM InvStep == Inv /\ [Next]_vars => Inv'
BY ViewKeeps, OutsideKeeps, ProceedKeeps DEF Next, ViewStep

\* The invariant holds in every reachable state.
LEMMA Invariance == Spec => []Inv
BY InitInv, InvStep, PTL DEF Spec

\* Every variable keeps its type, and a button waits exactly while it loads.
THEOREM TypeCorrect == Spec => []TypeOK
<1>1. Inv => TypeOK BY DEF Inv
<1> QED BY <1>1, Invariance, PTL

\* A pull request carries the fix of the request that opened it: no two
\* requests ever work on one branch, however many there are in a second.
THEOREM PullCarriesItsFixAlways == Spec => []PullCarriesItsFix
<1>1. Inv => PullCarriesItsFix
  BY DEF Inv, TypeOK, NamesHold, PullsHold, PullCarriesItsFix
<1> QED BY <1>1, Invariance, PTL

\* Every reply is true of GitHub, whatever was refused or lost and whatever
\* the other requests do.
THEOREM ReplyMatchesGitHubAlways == Spec => []ReplyMatchesGitHub
<1>1. Inv => ReplyMatchesGitHub
  BY DEF Inv, TypeOK, RepliesHold, ReplyHolds, ReplyMatchesGitHub
<1> QED BY <1>1, Invariance, PTL

-----------------------------------------------------------------------------
(* How many pull requests a fix gets.  Of the requests for it that did not *)
(* end in an error, all but the one that its button awaits, and the one    *)
(* whose success it shows, were forgotten.                                 *)

Unused ==
    \A a \in Attempt : step[a] = "unused" => fix[a] = NoFix /\ reply[a] = "none"

ErrorsHold == \A a \in Attempt : reply[a] = "error" => \A p \in pulls : p.by # a

Held == [f \in Fix |-> {a \in Attempt : fix[a] = f /\ reply[a] # "error" /\ waiting[f] # a}]

Shown == [f \in Fix |-> IF view[f] \in {"opened", "applied"} THEN 1 ELSE 0]

Counted == \A f \in Fix : Cardinality(Held[f]) <= forgot[f] + Shown[f]

CountInv == Unused /\ ErrorsHold /\ Counted

LEMMA OneMore ==
    ASSUME NEW S, NEW T, NEW x, IsFiniteSet(S), T \subseteq S \cup {x}
    PROVE  Cardinality(T) \in Nat /\ Cardinality(T) <= Cardinality(S) + 1
<1>1. /\ IsFiniteSet(S \cup {x})
      /\ Cardinality(S \cup {x}) = IF x \in S THEN Cardinality(S) ELSE Cardinality(S) + 1
  BY FS_AddElement
<1>2. IsFiniteSet(T) /\ Cardinality(T) <= Cardinality(S \cup {x})
  BY <1>1, FS_Subset
<1>3. Cardinality(S) \in Nat /\ Cardinality(T) \in Nat
  BY <1>2, FS_CardinalityType
<1> QED BY <1>1, <1>2, <1>3

LEMMA AttemptsFinite == \A S : S \subseteq Attempt => IsFiniteSet(S) /\ Cardinality(S) \in Nat
<1>1. IsFiniteSet(Attempt)
  BY PatchApplicationAssumption, FS_Interval
<1> QED BY <1>1, FS_Subset, FS_CardinalityType

LEMMA InitCount == Init => CountInv
<1> SUFFICES ASSUME Init PROVE CountInv
  OBVIOUS
<1>1. Unused /\ ErrorsHold
  BY DEF Init, Unused, ErrorsHold
<1>2. ASSUME NEW f \in Fix PROVE Cardinality(Held[f]) <= forgot[f] + Shown[f]
  <2>1. Held[f] = {}
    BY PatchApplicationAssumption DEF Init, Held
  <2>2. forgot[f] = 0 /\ Shown[f] = 0
    BY DEF Init, Shown
  <2> QED BY <2>1, <2>2, FS_EmptySet
<1> QED BY <1>1, <1>2 DEF CountInv, Counted

\* A step in which no request is forgotten and none is added.
LEMMA CountKept ==
    ASSUME CountInv, NEW f \in Fix, Held'[f] \subseteq Held[f],
           forgot \in [Fix -> Nat],
           forgot'[f] + Shown'[f] = forgot[f] + Shown[f]
    PROVE  Cardinality(Held'[f]) <= forgot'[f] + Shown'[f]
<1>1. IsFiniteSet(Held[f]) /\ Cardinality(Held[f]) \in Nat
  BY AttemptsFinite DEF Held
<1>2. Cardinality(Held'[f]) <= Cardinality(Held[f]) /\ Cardinality(Held'[f]) \in Nat
  BY <1>1, FS_Subset, FS_CardinalityType
<1>3. Cardinality(Held[f]) <= forgot[f] + Shown[f] /\ forgot[f] + Shown[f] \in Nat
  BY DEF CountInv, Counted, Shown
<1> QED BY <1>1, <1>2, <1>3

\* A step in which one request more is forgotten or shown.
LEMMA CountOneMore ==
    ASSUME CountInv, NEW f \in Fix, NEW a, Held'[f] \subseteq Held[f] \cup {a},
           forgot \in [Fix -> Nat],
           forgot'[f] + Shown'[f] = forgot[f] + Shown[f] + 1
    PROVE  Cardinality(Held'[f]) <= forgot'[f] + Shown'[f]
<1>1. IsFiniteSet(Held[f]) /\ Cardinality(Held[f]) \in Nat
  BY AttemptsFinite DEF Held
<1>2. Cardinality(Held'[f]) <= Cardinality(Held[f]) + 1 /\ Cardinality(Held'[f]) \in Nat
  BY <1>1, OneMore
<1>3. Cardinality(Held[f]) <= forgot[f] + Shown[f] /\ forgot[f] + Shown[f] \in Nat
  BY DEF CountInv, Counted, Shown
<1> QED BY <1>1, <1>2, <1>3

LEMMA ClickCount == ASSUME Inv, CountInv, NEW f \in Fix, Click(f) PROVE CountInv'
<1>1. PICK a \in Attempt : /\ step[a] = "unused"
                           /\ step' = [step EXCEPT ![a] = "save"]
                           /\ fix' = [fix EXCEPT ![a] = f]
                           /\ waiting' = [waiting EXCEPT ![f] = a]
  BY DEF Click
<1>2. /\ view[f] \in {"idle", "error"} /\ view' = [view EXCEPT ![f] = "loading"]
      /\ UNCHANGED <<forgot, reply, pulls>>
  BY DEF Click, github
<1>3. /\ fix'[a] = f /\ waiting'[f] = a /\ view'[f] = "loading"
      /\ \A b \in Attempt \ {a} : fix'[b] = fix[b] /\ step'[b] = step[b]
      /\ \A g \in Fix \ {f} : waiting'[g] = waiting[g] /\ view'[g] = view[g]
      /\ step'[a] # "unused" /\ waiting[f] = 0
  BY <1>1, <1>2 DEF Inv, TypeOK
<1>4. Unused' /\ ErrorsHold'
  BY <1>2, <1>3 DEF CountInv, Unused, ErrorsHold
<1>5. \A g \in Fix : Held'[g] \subseteq Held[g]
  <2> SUFFICES ASSUME NEW g \in Fix, NEW b \in Attempt, fix'[b] = g, reply[b] # "error",
                      waiting'[g] # b
               PROVE  fix[b] = g /\ waiting[g] # b
    BY <1>2 DEF Held
  <2>1. b # a
    BY <1>3
  <2> QED BY <1>3, <2>1
<1>6. forgot \in [Fix -> Nat] /\ \A g \in Fix : forgot'[g] + Shown'[g] = forgot[g] + Shown[g]
  BY <1>2, <1>3 DEF Inv, TypeOK, Shown
<1>7. Counted'
  BY <1>5, <1>6, CountKept DEF Counted
<1> QED BY <1>4, <1>7 DEF CountInv

LEMMA ShowCount == ASSUME Inv, CountInv, NEW f \in Fix, Show(f) PROVE CountInv'
<1> DEFINE a == waiting[f]
<1>1. /\ view[f] = "loading" /\ step[a] = "replied" /\ a \in Attempt
      /\ step' = [step EXCEPT ![a] = "done"] /\ waiting' = [waiting EXCEPT ![f] = 0]
      /\ UNCHANGED <<forgot, fix, reply, pulls>>
  BY DEF Show, github, Inv, TypeOK
<1> HIDE DEF a
<1>2. PICK v \in {"opened", "applied", "error"} :
        view' = [view EXCEPT ![f] = v] /\ (v = "error" <=> reply[a] = "error")
  <2>1. view' = [view EXCEPT ![f] = CASE reply[a] = "pr_created" -> "opened"
                                      [] reply[a] = "error" -> "error"
                                      [] OTHER -> "applied"]
    BY DEF Show, a
  <2> QED BY <2>1
<1>3. /\ view'[f] = v /\ waiting'[f] = 0
      /\ \A g \in Fix \ {f} : waiting'[g] = waiting[g] /\ view'[g] = view[g]
      /\ \A b \in Attempt : step'[b] = "unused" => step[b] = "unused"
  BY <1>1, <1>2 DEF Inv, TypeOK
<1>4. Unused' /\ ErrorsHold'
  BY <1>1, <1>3 DEF CountInv, Unused, ErrorsHold
<1>5. forgot \in [Fix -> Nat]
  BY DEF Inv, TypeOK
<1>6. ASSUME NEW g \in Fix PROVE Cardinality(Held'[g]) <= forgot'[g] + Shown'[g]
  <2>1. CASE g # f
    <3>1. Held'[g] \subseteq Held[g]
      BY <1>1, <1>3, <2>1 DEF Held
    <3>2. forgot'[g] + Shown'[g] = forgot[g] + Shown[g]
      BY <1>1, <1>3, <2>1 DEF Shown
    <3> QED BY <1>5, <3>1, <3>2, CountKept
  <2>2. CASE g = f /\ v = "error"
    <3>1. Held'[f] \subseteq Held[f]
      BY <1>1, <1>2, <1>3, <2>2 DEF Held, a
    <3>2. forgot'[f] + Shown'[f] = forgot[f] + Shown[f]
      BY <1>1, <1>3, <2>2 DEF Shown
    <3> QED BY <1>5, <2>2, <3>1, <3>2, CountKept
  <2>3. CASE g = f /\ v # "error"
    <3>1. Held'[f] \subseteq Held[f] \cup {a}
      BY <1>1 DEF Held, a
    <3>2. forgot'[f] + Shown'[f] = forgot[f] + Shown[f] + 1
      BY <1>1, <1>3, <1>5, <2>3 DEF Shown
    <3> QED BY <1>5, <2>3, <3>1, <3>2, CountOneMore
  <2> QED BY <2>1, <2>2, <2>3
<1> QED BY <1>4, <1>6 DEF CountInv, Counted

LEMMA ForgetCount ==
    ASSUME Inv, CountInv, NEW f \in Fix, Disconnect(f) \/ Remount(f)
    PROVE  CountInv'
<1>1. PICK v \in {"idle", "error"} :
        /\ view' = [view EXCEPT ![f] = v]
        /\ v = "error" => view[f] = "loading"
  BY DEF Disconnect, Remount
<1>2. /\ waiting' = [waiting EXCEPT ![f] = 0]
      /\ forgot' = [forgot EXCEPT ![f] = forgot[f] + 1]
      /\ view[f] \notin {"idle", "error"}
      /\ UNCHANGED <<step, fix, reply, pulls>>
  BY DEF Disconnect, Remount, github
<1>3. /\ view'[f] = v /\ forgot \in [Fix -> Nat] /\ forgot'[f] = forgot[f] + 1
      /\ \A g \in Fix \ {f} : /\ waiting'[g] = waiting[g] /\ view'[g] = view[g]
                              /\ forgot'[g] = forgot[g]
  BY <1>1, <1>2 DEF Inv, TypeOK
<1>4. Unused' /\ ErrorsHold'
  BY <1>2 DEF CountInv, Unused, ErrorsHold
<1>5. ASSUME NEW g \in Fix PROVE Cardinality(Held'[g]) <= forgot'[g] + Shown'[g]
  <2>1. CASE g # f
    <3>1. Held'[g] \subseteq Held[g]
      BY <1>2, <1>3, <2>1 DEF Held
    <3>2. forgot'[g] + Shown'[g] = forgot[g] + Shown[g]
      BY <1>3, <2>1 DEF Shown
    <3> QED BY <1>3, <3>1, <3>2, CountKept
  <2>2. CASE g = f /\ view[f] = "loading"
    <3>1. Held'[f] \subseteq Held[f] \cup {waiting[f]}
      BY <1>2 DEF Held
    <3>2. forgot'[f] + Shown'[f] = forgot[f] + Shown[f] + 1
      BY <1>3, <2>2 DEF Shown
    <3> QED BY <1>3, <2>2, <3>1, <3>2, CountOneMore
  <2>3. CASE g = f /\ view[f] # "loading"
    <3>1. waiting[f] = 0 /\ view[f] \in {"opened", "applied"}
      BY <1>2, <2>3 DEF Inv, TypeOK
    <3>2. Held'[f] \subseteq Held[f]
      BY <1>2, <3>1 DEF Held
    <3>3. forgot'[f] + Shown'[f] = forgot[f] + Shown[f]
      BY <1>3, <3>1 DEF Shown
    <3> QED BY <1>3, <2>3, <3>2, <3>3, CountKept
  <2> QED BY <2>1, <2>2, <2>3
<1> QED BY <1>4, <1>5 DEF CountInv, Counted

LEMMA ProceedCount == ASSUME Inv, CountInv, NEW a \in Attempt, Proceed(a) PROVE CountInv'
<1>1. UNCHANGED <<fix, view, waiting, forgot>>
  BY DEF Proceed, SaveLocal, GetMain, CreateBranch, GetFile, CommitFile, OpenPull, Refused,
         AnswerLost, viewVars
<1>2. step[a] \notin {"unused", "replied", "done"} /\ reply[a] = "none"
  <2>1. step[a] \notin {"unused", "replied", "done"}
    BY DEF Proceed, SaveLocal, GetMain, CreateBranch, GetFile, CommitFile, OpenPull, Refused,
           AnswerLost
  <2> QED BY <2>1 DEF Inv, TypeOK, RepliesHold, ReplyHolds
<1>3. \A b \in Attempt \ {a} : step'[b] = step[b] /\ reply'[b] = reply[b]
  <2>1. ASSUME NEW s, Goto(a, s) PROVE \A b \in Attempt \ {a} : step'[b] = step[b]
    BY <2>1 DEF Goto, Inv, TypeOK
  <2>2. ASSUME NEW s, Answer(a, s) PROVE \A b \in Attempt \ {a} : reply'[b] = reply[b]
    BY <2>2 DEF Answer, Inv, TypeOK
  <2>3. /\ \E s : Goto(a, s)
        /\ UNCHANGED reply \/ \E s : Answer(a, s)
    <3>1. CASE SaveLocal(a)
      BY <3>1 DEF SaveLocal, Answer
    <3>2. CASE GetMain(a) \/ CreateBranch(a) \/ GetFile(a) \/ CommitFile(a)
      BY <3>2 DEF GetMain, CreateBranch, GetFile, CommitFile
    <3>3. CASE OpenPull(a)
      BY <3>3 DEF OpenPull, Answer
    <3>4. CASE Refused(a)
      BY <3>4 DEF Refused, Answer
    <3>5. CASE AnswerLost(a)
      BY <3>5 DEF AnswerLost, Answer
    <3> QED BY <3>1, <3>2, <3>3, <3>4, <3>5 DEF Proceed
  <2> QED BY <2>1, <2>2, <2>3
<1>4. step'[a] # "unused"
  <2>1. ASSUME NEW s, Goto(a, s) PROVE step'[a] = s
    BY <2>1 DEF Goto, Inv, TypeOK
  <2>2. \E s \in {"main", "branch", "file", "commit", "pull", "replied"} : Goto(a, s)
    <3>1. CASE SaveLocal(a)
      BY <3>1 DEF SaveLocal, Answer
    <3>2. CASE GetMain(a) \/ CreateBranch(a) \/ GetFile(a) \/ CommitFile(a)
      BY <3>2 DEF GetMain, CreateBranch, GetFile, CommitFile
    <3>3. CASE OpenPull(a) \/ Refused(a) \/ AnswerLost(a)
      BY <3>3 DEF OpenPull, Refused, AnswerLost, Answer
    <3> QED BY <3>1, <3>2, <3>3 DEF Proceed
  <2> QED BY <2>1, <2>2
<1>5. /\ pulls' = pulls \/ reply'[a] # "error"
      /\ \A p \in pulls' \ pulls : p.by = a
  <2>1. CASE OpenPull(a)
    BY <2>1 DEF OpenPull, Answer, Inv, TypeOK
  <2>2. CASE AnswerLost(a)
    <3>1. reply'[a] = "applied_local"
      BY <2>2 DEF AnswerLost, Answer, Inv, TypeOK
    <3> QED BY <2>2, <3>1 DEF AnswerLost, EffectOf
  <2>3. CASE SaveLocal(a) \/ GetMain(a) \/ CreateBranch(a) \/ GetFile(a) \/ CommitFile(a)
             \/ Refused(a)
    BY <2>3 DEF SaveLocal, GetMain, CreateBranch, GetFile, CommitFile, Refused, github
  <2> QED BY <2>1, <2>2, <2>3 DEF Proceed
<1>6. \A p \in pulls : p.by # a
  BY <1>2 DEF Inv, PullsHold
<1>7. Unused'
  BY <1>1, <1>3, <1>4 DEF CountInv, Unused
<1>8. ErrorsHold'
  BY <1>3, <1>5, <1>6 DEF CountInv, ErrorsHold
<1>9. \A f \in Fix : Held'[f] \subseteq Held[f]
  BY <1>1, <1>2, <1>3 DEF Held
<1>10. Counted'
  <2>1. forgot \in [Fix -> Nat] /\ \A f \in Fix : forgot'[f] + Shown'[f] = forgot[f] + Shown[f]
    BY <1>1 DEF Inv, TypeOK, Shown
  <2> QED BY <1>9, <2>1, CountKept DEF Counted
<1> QED BY <1>7, <1>8, <1>10 DEF CountInv

LEMMA CountStep == Inv /\ CountInv /\ [Next]_vars => CountInv'
<1> SUFFICES ASSUME Inv, CountInv, [Next]_vars PROVE CountInv'
  OBVIOUS
<1>1. CASE Tick \/ EditMain \/ UNCHANGED vars
  <2>1. UNCHANGED <<step, fix, reply, pulls, view, waiting, forgot>>
    BY <1>1 DEF Tick, EditMain, vars, viewVars, github
  <2> QED BY <2>1 DEF CountInv, Unused, ErrorsHold, Counted, Held, Shown
<1> QED BY <1>1, ClickCount, ShowCount, ForgetCount, ProceedCount DEF Next

\* Each request opens at most one pull request, and none if it ends in an error.
LEMMA PullsCounted ==
    ASSUME Inv, CountInv, NEW f \in Fix
    PROVE  Cardinality(PullsOf(f)) <= 1 + forgot[f]
<1> DEFINE S == PullsOf(f)
           T == {a \in Attempt : fix[a] = f /\ reply[a] # "error"}
           opener == [p \in S |-> p.by]
<1>1. opener \in Injection(S, T)
  <2>1. ASSUME NEW p \in S PROVE p.by \in T
    BY <2>1 DEF PullsOf, Inv, TypeOK, CountInv, ErrorsHold
  <2>2. ASSUME NEW p \in S, NEW q \in S, p.by = q.by PROVE p = q
    <3>1. p \in Pull /\ q \in Pull /\ p.head = q.head
      BY <2>2 DEF PullsOf, Inv, TypeOK, PullsHold
    <3> QED BY <2>2, <3>1
  <2> QED BY <2>1, <2>2 DEF Injection, IsInjective
<1>2. IsFiniteSet(T) /\ Cardinality(T) \in Nat
  BY AttemptsFinite
<1>3. Cardinality(S) <= Cardinality(T) /\ Cardinality(S) \in Nat
  BY <1>1, <1>2, FS_Injection, FS_CardinalityType
<1>4. /\ IsFiniteSet(Held[f]) /\ Cardinality(Held[f]) \in Nat
      /\ Cardinality(Held[f]) <= forgot[f] + Shown[f] /\ forgot[f] \in Nat
  BY AttemptsFinite DEF Held, CountInv, Counted, Inv, TypeOK
<1>5. CASE waiting[f] = 0
  <2>1. T = Held[f]
    BY <1>5 DEF Held
  <2> QED BY <1>3, <1>4, <2>1, SMTT(30) DEF Shown
<1>6. CASE waiting[f] # 0
  <2>1. Shown[f] = 0
    BY <1>6 DEF Inv, TypeOK, Shown
  <2>2. T \subseteq Held[f] \cup {waiting[f]}
    BY DEF Held
  <2>3. Cardinality(T) <= Cardinality(Held[f]) + 1
    BY <1>4, <2>2, OneMore
  <2> QED BY <1>2, <1>3, <1>4, <2>1, <2>3
<1> QED BY <1>5, <1>6

\* A fix gets a second pull request only if the view lost sight of a request for
\* it, for any number of fixes and requests and whatever answers are lost.
THEOREM OnePullPerFixAlways == Spec => []OnePullPerFix
<1>1. Inv /\ CountInv => OnePullPerFix
  BY PullsCounted DEF OnePullPerFix
<1> QED BY <1>1, InitCount, CountStep, Invariance, PTL DEF Spec

=============================================================================
