-------------------------- MODULE PatchApplication --------------------------
(***************************************************************************)
(* Applying a fix: the button of the analyze view (AnalyzeView.jsx),       *)
(* POST /api/apply-patch (patch.py, patch_application.py) and the calls to *)
(* GitHub that make a branch, a commit and a pull request of it            *)
(* (github_patch_adapter.py).                                              *)
(*                                                                         *)
(* A call to GitHub is answered, refused, or its answer is lost: then the  *)
(* call may or may not have had its effect, requests raises, and the       *)
(* service reports what it did on its own disk.  All fixes are for one     *)
(* file.  Nobody merges or deletes branches here.                          *)
(***************************************************************************)
EXTENDS Integers, FiniteSets

CONSTANTS
    Fix,            \* the fixes that the view offers a button for
    Vuln,           \* ids of vulnerabilities
    VulnOf,         \* VulnOf[f]: the vulnerability that fix f is for
    NoFix, NoName,  \* no fix, and no branch
    Attempts,       \* bound of the model: requests that are made
    MaxSecond       \* bound of the model: seconds that pass

Attempt == 1..Attempts
Second == 0..MaxSecond

\* _branch_name: fix/<vulnerability>_<second>
Name == [of: Vuln, at: Second]

\* A pull request: its branch, and the request that opened it.
Pull == [head: Name, by: Attempt]

ASSUME PatchApplicationAssumption ==
    /\ VulnOf \in [Fix -> Vuln]
    /\ Fix \cap {"missing", "original", "edited", "damaged", NoFix} = {}
    /\ NoName \notin Name
    /\ Attempts \in Nat \ {0} /\ MaxSecond \in Nat

VARIABLES
    second,         \* datetime.now(), to the second
    view,           \* view[f]: the state of the button of fix f
    waiting,        \* waiting[f]: the request whose reply that button awaits
    step,           \* step[a]: the next call of request a
    fix,            \* fix[a]: the fix that request a is for
    name,           \* name[a]: branch_name
    sha,            \* sha[a]: what file_sha is the hash of
    reply,          \* reply[a]: the status that request a is answered with
    local,          \* the file in applied/, on the disk of the server
    main,           \* the file on the main branch
    seen,           \* seen[a]: the file at main_sha
    branches,       \* branches of fixes, and the file on each
    pulls,          \* pull requests
    lost,           \* history: requests that lost an answer of GitHub
    forgot          \* history: how often the view forgot a request for fix f

viewVars == <<view, waiting, forgot>>
github == <<main, branches, pulls>>
vars == <<second, viewVars, step, fix, name, sha, reply, seen, local, github, lost>>


\* Hashes are told apart by what they are hashes of; no file, no hash.
Content == Fix \cup {"missing", "original", "edited"}

TypeOK ==
    /\ second \in Second
    /\ view \in [Fix -> {"idle", "loading", "opened", "applied", "error"}]
    /\ waiting \in [Fix -> Attempt \cup {0}]
    /\ \A f \in Fix : view[f] = "loading" <=> waiting[f] # 0
    /\ step \in [Attempt -> {"unused", "save", "main", "branch", "file", "commit", "pull",
                             "replied", "done"}]
    /\ fix \in [Attempt -> Fix \cup {NoFix}]
    /\ name \in [Attempt -> Name \cup {NoName}]
    /\ sha \in [Attempt -> Content] /\ seen \in [Attempt -> Content]
    /\ reply \in [Attempt -> {"none", "pr_created", "committed", "applied_local", "error"}]
    /\ local \in Fix \cup {"missing", "damaged"}
    /\ main \in Content \ Fix
    /\ DOMAIN branches \subseteq Name /\ \A b \in DOMAIN branches : branches[b] \in Content
    /\ pulls \subseteq Pull
    /\ lost \subseteq Attempt
    /\ forgot \in [Fix -> Nat]

Init ==
    /\ second = 0
    /\ view = [f \in Fix |-> "idle"]
    /\ waiting = [f \in Fix |-> 0]
    /\ step = [a \in Attempt |-> "unused"]
    /\ fix = [a \in Attempt |-> NoFix]
    /\ name = [a \in Attempt |-> NoName]
    /\ sha = [a \in Attempt |-> "missing"]
    /\ reply = [a \in Attempt |-> "none"]
    /\ local = "missing"
    /\ main \in {"missing", "original"}
    /\ seen = [a \in Attempt |-> "missing"]
    /\ branches = [b \in {} |-> "missing"]
    /\ pulls = {}
    /\ lost = {}
    /\ forgot = [f \in Fix |-> 0]

-----------------------------------------------------------------------------
(* ApplyButton                                                             *)

\* applyFix; the button is disabled while it waits.
Click(f) ==
    /\ view[f] \in {"idle", "error"}
    /\ \E a \in Attempt :
         /\ step[a] = "unused" /\ \A b \in 1..(a - 1) : step[b] # "unused"
         /\ step' = [step EXCEPT ![a] = "save"]
         /\ fix' = [fix EXCEPT ![a] = f]
         /\ waiting' = [waiting EXCEPT ![f] = a]
    /\ view' = [view EXCEPT ![f] = "loading"]
    /\ UNCHANGED <<second, forgot, name, sha, reply, seen, local, github, lost>>

\* The reply arrives; the view tells by pr_url whether there is a pull request.
Show(f) ==
    /\ view[f] = "loading" /\ step[waiting[f]] = "replied"
    /\ view' = [view EXCEPT ![f] = CASE reply[waiting[f]] = "pr_created" -> "opened"
                                     [] reply[waiting[f]] = "error" -> "error"
                                     [] OTHER -> "applied"]
    /\ step' = [step EXCEPT ![waiting[f]] = "done"]
    /\ waiting' = [waiting EXCEPT ![f] = 0]
    /\ UNCHANGED <<second, forgot, fix, name, sha, reply, seen, local, github, lost>>

\* The connection to the server breaks while the view waits.
Disconnect(f) ==
    /\ view[f] = "loading"
    /\ view' = [view EXCEPT ![f] = "error"]
    /\ waiting' = [waiting EXCEPT ![f] = 0]
    /\ forgot' = [forgot EXCEPT ![f] = @ + 1]
    /\ UNCHANGED <<second, step, fix, name, sha, reply, seen, local, github, lost>>

\* The view is left and entered again: nothing of the button's state is kept.
Remount(f) ==
    /\ view[f] \notin {"idle", "error"}
    /\ view' = [view EXCEPT ![f] = "idle"]
    /\ waiting' = [waiting EXCEPT ![f] = 0]
    /\ forgot' = [forgot EXCEPT ![f] = @ + 1]
    /\ UNCHANGED <<second, step, fix, name, sha, reply, seen, local, github, lost>>

-----------------------------------------------------------------------------
(* What request a does                                                     *)

Goto(a, s) == step' = [step EXCEPT ![a] = s]

Answer(a, status) == Goto(a, "replied") /\ reply' = [reply EXCEPT ![a] = status]

\* apply_patch_workflow saves the fix on the disk of the server first; that is
\* all when there is no token, and all that fails with a status of 500.
SaveLocal(a) ==
    /\ step[a] = "save"
    /\ \/ /\ local' = fix[a]
          /\ \/ Goto(a, "main") /\ UNCHANGED reply
             \/ Answer(a, "applied_local")
       \/ local' \in {local, "damaged"} /\ Answer(a, "error")
    /\ UNCHANGED <<second, viewVars, fix, name, sha, seen, github, lost>>

\* The commit of main that the branch will start from.
GetMain(a) ==
    /\ step[a] = "main"
    /\ Goto(a, "branch")
    /\ seen' = [seen EXCEPT ![a] = main]
    /\ UNCHANGED <<second, viewVars, fix, name, sha, reply, local, github, lost>>

NewName(a) == [of |-> VulnOf[fix[a]], at |-> second]

WithBranch(b, c) == [x \in DOMAIN branches \cup {b} |-> IF x = b THEN c ELSE branches[x]]

\* Mutant of CreateBranch: a branch that exists already serves as well.
ReuseBranch(a) ==
    /\ step[a] = "branch"
    /\ name' = [name EXCEPT ![a] = NewName(a)]
    /\ Goto(a, "file")
    /\ branches' = IF NewName(a) \in DOMAIN branches THEN branches
                   ELSE WithBranch(NewName(a), seen[a])
    /\ UNCHANGED <<second, viewVars, fix, sha, reply, seen, local, main, pulls, lost>>

\* GitHub refuses a branch that exists (see Refused).
CreateBranch(a) ==
    /\ step[a] = "branch" /\ NewName(a) \notin DOMAIN branches
    /\ name' = [name EXCEPT ![a] = NewName(a)]
    /\ Goto(a, "file")
    /\ branches' = WithBranch(NewName(a), seen[a])
    /\ UNCHANGED <<second, viewVars, fix, sha, reply, seen, local, main, pulls, lost>>

\* The hash of the file on the new branch; any other answer than 200 counts as
\* no file.
GetFile(a) ==
    /\ step[a] = "file"
    /\ \E c \in {branches[name[a]], "missing"} : sha' = [sha EXCEPT ![a] = c]
    /\ Goto(a, "commit")
    /\ UNCHANGED <<second, viewVars, fix, name, reply, seen, local, github, lost>>

\* The whole file becomes the fix.  GitHub refuses a hash other than that of
\* the file on the branch, and none when there is a file.
CommitFile(a) ==
    /\ step[a] = "commit" /\ sha[a] = branches[name[a]]
    /\ branches' = [branches EXCEPT ![name[a]] = fix[a]]
    /\ Goto(a, "pull")
    /\ UNCHANGED <<second, viewVars, fix, name, sha, reply, seen, local, main, pulls, lost>>

\* GitHub refuses a pull request of a branch with no commit, and a second one of
\* a branch.
Mergeable(a) == branches[name[a]] # seen[a] /\ \A p \in pulls : p.head # name[a]

OpenPull(a) ==
    /\ step[a] = "pull" /\ Mergeable(a)
    /\ pulls' = pulls \cup {[head |-> name[a], by |-> a]}
    /\ Answer(a, "pr_created")
    /\ UNCHANGED <<second, viewVars, fix, name, sha, seen, local, main, branches, lost>>

\* Mutant of Refused: a refused commit goes on to the pull request.
RefusedButPulled(a) ==
    /\ step[a] \in {"main", "branch", "commit", "pull"}
    /\ IF step[a] = "commit" THEN Goto(a, "pull") /\ UNCHANGED reply
       ELSE Answer(a, IF step[a] = "pull" THEN "committed" ELSE "applied_local")
    /\ UNCHANGED <<second, viewVars, fix, name, sha, seen, local, github, lost>>

\* GitHub refuses a call.
Refused(a) ==
    /\ step[a] \in {"main", "branch", "commit", "pull"}
    /\ Answer(a, IF step[a] = "pull" THEN "committed" ELSE "applied_local")
    /\ UNCHANGED <<second, viewVars, fix, name, sha, seen, local, github, lost>>

\* What a call whose answer is lost may have done.
EffectOf(a) ==
    \/ UNCHANGED <<branches, pulls>>
    \/ /\ step[a] = "branch" /\ NewName(a) \notin DOMAIN branches
       /\ branches' = WithBranch(NewName(a), seen[a])
       /\ UNCHANGED pulls
    \/ /\ step[a] = "commit" /\ sha[a] = branches[name[a]]
       /\ branches' = [branches EXCEPT ![name[a]] = fix[a]]
       /\ UNCHANGED pulls
    \/ /\ step[a] = "pull" /\ Mergeable(a)
       /\ pulls' = pulls \cup {[head |-> name[a], by |-> a]}
       /\ UNCHANGED branches

\* Mutant of AnswerLost: the request starts again when an answer is lost.
StartAgain(a) ==
    /\ step[a] \in {"main", "branch", "file", "commit", "pull"}
    /\ EffectOf(a)
    /\ Goto(a, "main")
    /\ lost' = lost \cup {a}
    /\ UNCHANGED <<second, viewVars, fix, name, sha, reply, seen, local, main>>

\* The answer of a call does not come within 10 seconds, or the connection
\* breaks: apply_patch_workflow catches the exception.
AnswerLost(a) ==
    /\ step[a] \in {"main", "branch", "file", "commit", "pull"}
    /\ EffectOf(a)
    /\ Answer(a, "applied_local")
    /\ lost' = lost \cup {a}
    /\ UNCHANGED <<second, viewVars, fix, name, sha, seen, local, main>>

-----------------------------------------------------------------------------

\* A person changes the file on main, adds or removes it.
EditMain ==
    /\ main' \in {"missing", "edited"} \ {main}
    /\ UNCHANGED <<second, viewVars, step, fix, name, sha, reply, seen, local, branches, pulls, lost>>

Tick ==
    /\ second < MaxSecond
    /\ second' = second + 1
    /\ UNCHANGED <<viewVars, step, fix, name, sha, reply, seen, local, github, lost>>

Proceed(a) ==
    \/ SaveLocal(a) \/ GetMain(a) \/ CreateBranch(a) \/ GetFile(a) \/ CommitFile(a)
    \/ OpenPull(a) \/ Refused(a) \/ AnswerLost(a)

Next ==
    \/ Tick \/ EditMain
    \/ \E f \in Fix : Click(f) \/ Show(f) \/ Disconnect(f) \/ Remount(f)
    \/ \E a \in Attempt : Proceed(a)

Spec == Init /\ [][Next]_vars

-----------------------------------------------------------------------------

PullsOf(f) == {p \in pulls : fix[p.by] = f}

\* What a pull request would merge is the fix of the request that opened it,
\* although requests of one second and one vulnerability want the same branch.
PullCarriesItsFix ==
    \A p \in pulls : p.head \in DOMAIN branches /\ branches[p.head] = fix[p.by]

\* A reply is true of GitHub: "pr_created" and "committed" name a branch with
\* the fix, the one with a pull request and the other without, and, unless an
\* answer was lost, "applied_local" left neither a pull request nor the fix on a
\* branch.
ReplyMatchesGitHub ==
    \A a \in Attempt :
        /\ reply[a] = "pr_created" => [head |-> name[a], by |-> a] \in pulls
        /\ reply[a] \in {"pr_created", "committed"} => branches[name[a]] = fix[a]
        /\ reply[a] \in {"committed", "applied_local", "error"} /\ a \notin lost
             => \A p \in pulls : p.by # a
        /\ reply[a] = "applied_local" /\ a \notin lost /\ name[a] # NoName
             => branches[name[a]] # fix[a]

\* A fix gets a second pull request only if the view lost sight of a request
\* for it: the button cannot be pressed twice, and no error that it shows has
\* left a pull request behind.
OnePullPerFix == \A f \in Fix : Cardinality(PullsOf(f)) <= 1 + forgot[f]

=============================================================================
