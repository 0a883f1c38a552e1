---------------------------- MODULE GitClientProofs ----------------------------
(***************************************************************************)
(* What GitClient promises, for every number of workers, files, commits,   *)
(* cleanups, crashes and failing calls: the types, and that a worker       *)
(* nobody disturbed has read the manifests of a hash that is fresh.        *)
(***************************************************************************)
EXTENDS GitClient, TLAPS

Dirs == [exists : BOOLEAN, git : GitStates,
         head : OrGone, file : [Files -> OrGone]]

DirOK(d) ==
  /\ d \in Dirs
  /\ d.git = "ready" => d.head # Gone
  /\ ~ d.exists => d = Nothing

(* What the locals of a worker know whatever others do to the directory.    *)
JobOK(j) ==
  /\ j \in Jobs
  /\ j.since <= remote
  /\ j.pc = "sethead" => j.todo = Files
  /\ j.pc \in {"sethead", "merge"} => j.target # Gone /\ j.target >= j.since

(***************************************************************************)
(* What a worker that is alone knows of the directory: the files it has    *)
(* behind it are those of the commit it writes, which is that of HEAD; then*)
(* all files are; then what it has read is.  From the pull on, HEAD is not *)
(* older than the reconciliation.                                          *)
(***************************************************************************)
Reads(j, d) ==
  /\ j.pc \in {"hard", "merge"} =>
       j.target = d.head /\ \A f \in Files \ j.todo : d.file[f] = d.head
  /\ j.pc \in {"pull", "head", "walk"} => \A f \in Files : d.file[f] = d.head
  /\ j.pc = "head" => d.head >= j.since
  /\ j.pc = "walk" => j.sha = d.head /\ \A f \in Files \ j.todo : j.got[f] = j.sha
  /\ j.pc = "done" => \A f \in Files : j.got[f] = j.sha
  /\ j.pc \in {"walk", "done"} => j.sha >= j.since

Bounded == /\ remote \in Commits /\ removing \subseteq Pieces
           /\ rounds \in 0 .. MaxRounds /\ trouble \in 0 .. MaxTrouble

Knows(w) == JobOK(job[w]) /\ (job[w].alone => Reads(job[w], dir))

GitInv ==
  /\ Bounded /\ DirOK(dir)
  /\ job \in [Workers -> Jobs] /\ \A w \in Workers : Knows(w)

-----------------------------------------------------------------------------
LEMMA CommitType == /\ Commits \subseteq Nat /\ OrGone \subseteq Nat /\ Gone \in OrGone
                    /\ Gone = 0 /\ 1 \in Commits /\ \A c \in Commits : c # Gone /\ c \in OrGone
BY BoundsAssumption DEF Commits, OrGone, Gone

(* Directories are equal when their fields are.                             *)
LEMMA SameDir ==
  ASSUME NEW d \in Dirs, NEW e \in Dirs, d.exists = e.exists, d.git = e.git,
         d.head = e.head, d.file = e.file
  PROVE  d = e
BY DEF Dirs

LEMMA NothingOK == DirOK(Nothing)
BY CommitType DEF DirOK, Dirs, Nothing, NoFiles, GitStates

LEMMA EmptiedOK == DirOK(Emptied)
<1>1. Emptied \in Dirs /\ Emptied.exists /\ Emptied.git = "none"
  BY NothingOK DEF DirOK, Dirs, Emptied, Nothing
<1>2. QED
  BY <1>1 DEF DirOK

(* What go-git writes makes the directory anew, and no repository of it.    *)
LEMMA WrittenOK ==
  ASSUME DirOK(dir)
  PROVE  /\ DirOK(Rewritten)
         /\ Rewritten.head = dir.head /\ Rewritten.file = dir.file
         /\ DirOK([dir EXCEPT !.exists = TRUE, !.git = "partial"])
<1>1. /\ Rewritten \in Dirs /\ Rewritten.exists
      /\ Rewritten.head = dir.head /\ Rewritten.file = dir.file
      /\ Rewritten.git = "ready" => dir.git = "ready"
  BY DEF DirOK, Dirs, Rewritten, GitStates
<1>2. /\ [dir EXCEPT !.exists = TRUE, !.git = "partial"] \in Dirs
      /\ [dir EXCEPT !.exists = TRUE, !.git = "partial"].exists
      /\ [dir EXCEPT !.exists = TRUE, !.git = "partial"].git = "partial"
  BY DEF DirOK, Dirs, GitStates
<1>3. QED
  BY <1>1, <1>2 DEF DirOK

LEMMA IdleOK == remote \in Commits => JobOK(Idle) /\ ~ Idle.alone
BY CommitType DEF JobOK, Jobs, Idle, NoFiles, Calls, Resets

LEMMA AgainOK == remote \in Commits => JobOK(Again) /\ ~ Again.alone
<1> SUFFICES ASSUME remote \in Commits PROVE JobOK(Again) /\ ~ Again.alone
  OBVIOUS
<1>1. /\ Again.pc = "stat" /\ Again.since = remote /\ ~ Again.alone
  BY DEF Again, Idle
<1>2. Again \in Jobs
  <2>1. Idle \in Jobs
    BY CommitType DEF Idle, Jobs, NoFiles, Calls, Resets
  <2>2. QED
    BY <2>1, CommitType DEF Again, Jobs, Calls
<1>3. QED
  BY <1>1, <1>2, CommitType DEF JobOK

LEMMA GitInit == Init => GitInv
<1> SUFFICES ASSUME Init PROVE GitInv
  OBVIOUS
<1>1. Bounded
  <2>1. 0 \in 0 .. MaxRounds /\ 0 \in 0 .. MaxTrouble
    BY BoundsAssumption
  <2>2. QED
    BY <2>1, CommitType DEF Init, Bounded
<1>2. DirOK(dir)
  BY NothingOK DEF Init
<1>3. \A w \in Workers : job[w] = Idle
  BY DEF Init
<1>4. JobOK(Idle) /\ ~ Idle.alone
  BY <1>1, IdleOK DEF Bounded
<1>5. QED
  BY <1>1, <1>2, <1>3, <1>4 DEF GitInv, Knows, JobOK, Init

(* Another worker's step, and a cleanup: who stays alone sees no change.    *)
LEMMA Bystander ==
  ASSUME GitInv, NEW v \in Workers, NEW d, NEW b \in BOOLEAN,
         job'[v] = [job[v] EXCEPT !.alone = @ /\ b], b => dir' = dir,
         remote' = remote
  PROVE  job'[v] \in Jobs /\ Knows(v)'
<1>1. /\ job[v] \in Jobs /\ job'[v] \in Jobs
      /\ job'[v].alone => job[v].alone /\ b
      /\ job'[v].pc = job[v].pc /\ job'[v].target = job[v].target
      /\ job'[v].todo = job[v].todo /\ job'[v].sha = job[v].sha
      /\ job'[v].got = job[v].got /\ job'[v].since = job[v].since
  BY DEF GitInv, Jobs
<1>2. JobOK(job'[v])
  BY <1>1 DEF GitInv, Knows, JobOK
<1>3. job'[v].alone => Reads(job'[v], dir')
  BY <1>1 DEF GitInv, Knows, Reads
<1>4. QED
  BY <1>1, <1>2, <1>3 DEF Knows, JobOK

LEMMA StepKeeps ==
  ASSUME GitInv, NEW w \in Workers, NEW j, NEW d, Step(w, j, d),
         JobOK(j), DirOK(d), j.alone => Reads(j, d),
         NoTrouble \/ Trouble
  PROVE  GitInv'
<1>1. Bounded'
  <2>1. trouble' \in 0 .. MaxTrouble
    BY BoundsAssumption DEF GitInv, Bounded, NoTrouble, Trouble
  <2>2. QED
    BY <2>1 DEF GitInv, Bounded, Step
<1>2. dir' = d /\ DirOK(dir')
  BY DEF Step
<1>3. job'[w] = j /\ remote' = remote
  BY DEF Step
<1>4. ASSUME NEW v \in Workers, v # w PROVE job'[v] \in Jobs /\ Knows(v)'
  <2>1. job'[v] = [job[v] EXCEPT !.alone = @ /\ d = dir]
    BY <1>4 DEF Step
  <2>2. QED
    BY <2>1, <1>2, <1>3, Bystander
<1>5. job'[w] \in Jobs /\ Knows(w)'
  BY <1>2, <1>3 DEF Knows, JobOK
<1>6. job' \in [Workers -> Jobs]
  BY <1>4, <1>5 DEF Step
<1>7. QED
  BY <1>1, <1>2, <1>4, <1>5, <1>6 DEF GitInv, DirOK

LEMMA FailKeeps ==
  ASSUME GitInv, NEW w \in Workers, Fail(w), NoTrouble \/ Trouble
  PROVE  GitInv'
BY StepKeeps, AgainOK DEF Fail, GitInv, Bounded

LEMMA FailWithKeeps ==
  ASSUME GitInv, NEW w \in Workers, NEW D, FailWith(w, D), \A d \in D : DirOK(d),
         NoTrouble \/ Trouble
  PROVE  GitInv'
<1>1. PICK d \in D : Step(w, Again, d)
  BY DEF FailWith
<1>2. JobOK(Again) /\ ~ Again.alone
  BY AgainOK DEF GitInv, Bounded
<1>3. QED
  BY <1>1, <1>2, StepKeeps

(* An error may have written to the directory before.                       *)
LEMMA FailWritingKeeps ==
  ASSUME GitInv, NEW w \in Workers, FailWith(w, {dir, Rewritten}),
         NoTrouble \/ Trouble
  PROVE  GitInv'
BY FailWithKeeps, WrittenOK DEF GitInv

LEMMA FailCloneKeeps ==
  ASSUME GitInv, NEW w \in Workers, FailClone(w), NoTrouble \/ Trouble
  PROVE  GitInv'
<1>1. job[w].found \in {"none", "empty", "full"}
  BY DEF GitInv, Jobs
<1>2. CASE job[w].found = "none"
  <2>1. FailWith(w, {Nothing})
    BY <1>2 DEF FailClone
  <2>2. QED
    BY <2>1, NothingOK, FailWithKeeps
<1>3. CASE job[w].found = "empty"
  <2>1. FailWith(w, {Emptied})
    BY <1>3 DEF FailClone
  <2>2. QED
    BY <2>1, EmptiedOK, FailWithKeeps
<1>4. CASE job[w].found = "full"
  <2>1. FailWith(w, {dir, Rewritten})
    BY <1>4 DEF FailClone
  <2>2. QED
    BY <2>1, FailWritingKeeps
<1>5. QED
  BY <1>1, <1>2, <1>3, <1>4

(* A step that changes nothing but where the worker is.                     *)
LEMMA GotoKeeps ==
  ASSUME GitInv, NEW w \in Workers, NEW l \in Calls \cup {"done"},
         Step(w, Goto(w, l), dir), NoTrouble \/ Trouble,
         l \notin {"sethead", "merge"},
         job[w].alone => Reads(Goto(w, l), dir)
  PROVE  GitInv'
<1>1. /\ job[w] \in Jobs /\ JobOK(job[w])
  BY DEF GitInv, Knows
<1>2. JobOK(Goto(w, l)) /\ Goto(w, l).alone = job[w].alone
  BY <1>1 DEF JobOK, Goto, Jobs
<1>3. QED
  BY <1>2, StepKeeps DEF GitInv

LEMMA LoopOK ==
  ASSUME NEW w \in Workers, job[w] \in Jobs, NEW c \in OrGone,
         NEW l \in Resets \cup {"sethead", "walk"}
  PROVE  /\ Loop(w, l, c) \in Jobs /\ Loop(w, l, c).pc = l
         /\ Loop(w, l, c).since = job[w].since /\ Loop(w, l, c).target = c
         /\ Loop(w, l, c).todo = Files
<1>1. l \in Calls
  BY DEF Calls
<1>2. QED
  BY <1>1 DEF Loop, Jobs

LEMMA StatStep == ASSUME GitInv, NEW w \in Workers, Stat(w) PROVE GitInv'
<1>1. PICK l \in {"clone", "open"} : Step(w, Goto(w, l), dir)
  BY DEF Stat
<1>2. Reads(Goto(w, l), dir)
  BY <1>1 DEF Reads, Goto, GitInv, Jobs
<1>3. QED
  BY <1>1, <1>2, GotoKeeps DEF Stat, Calls

LEMMA CloneBeginStep == ASSUME GitInv, NEW w \in Workers, CloneBegin(w) PROVE GitInv'
<1> DEFINE d == [dir EXCEPT !.exists = TRUE, !.git = "partial"]
           j == [Goto(w, "cloning") EXCEPT !.found = Found]
<1>1. CASE Fail(w)
  BY <1>1, FailKeeps DEF CloneBegin
<1>2. CASE Step(w, j, d)
  <2>1. DirOK(d)
    BY WrittenOK DEF GitInv
  <2>2. Found \in {"none", "empty", "full"}
    BY DEF Found
  <2>3. j \in Jobs /\ j.pc = "cloning" /\ j.since = job[w].since
    <3>1. job[w] \in Jobs
      BY DEF GitInv
    <3>2. Goto(w, "cloning") \in Jobs
      BY <3>1 DEF Goto, Jobs, Calls
    <3>3. QED
      BY <2>2, <3>1, <3>2 DEF Goto, Jobs
  <2>4. JobOK(j) /\ Reads(j, d)
    BY <2>3 DEF GitInv, Knows, JobOK, Reads
  <2>5. QED
    BY <1>2, <2>1, <2>4, StepKeeps DEF CloneBegin
<1>3. QED
  BY <1>1, <1>2 DEF CloneBegin

LEMMA CloneRefsStep == ASSUME GitInv, NEW w \in Workers, CloneRefs(w) PROVE GitInv'
<1> DEFINE d == [dir EXCEPT !.git = "ready", !.head = remote]
           j == Loop(w, "populate", remote)
<1>1. CASE FailClone(w)
  BY <1>1, FailCloneKeeps DEF CloneRefs
<1>2. CASE dir.git = "partial" /\ Step(w, j, d)
  <2>1. DirOK(d)
    <3>1. dir \in Dirs /\ dir.exists /\ remote \in OrGone /\ remote # Gone
      BY <1>2, CommitType DEF GitInv, Bounded, DirOK, Nothing
    <3>2. d \in Dirs /\ d.exists /\ d.head = remote
      BY <3>1 DEF Dirs, GitStates
    <3>3. QED
      BY <3>1, <3>2 DEF DirOK
  <2>2. job[w] \in Jobs /\ remote \in OrGone
    BY CommitType DEF GitInv, Bounded
  <2>3. j \in Jobs /\ j.pc = "populate" /\ j.since = job[w].since
    BY <2>2, LoopOK DEF Resets
  <2>4. JobOK(j) /\ Reads(j, d)
    BY <2>3 DEF GitInv, Knows, JobOK, Reads
  <2>5. QED
    BY <1>2, <2>1, <2>4, StepKeeps DEF CloneRefs
<1>3. QED
  BY <1>1, <1>2 DEF CloneRefs

LEMMA OpenStep == ASSUME GitInv, NEW w \in Workers, Open(w) PROVE GitInv'
<1>1. CASE Fail(w)
  BY <1>1, FailKeeps DEF Open
<1>2. CASE Step(w, Goto(w, "fetch"), dir)
  <2>1. Reads(Goto(w, "fetch"), dir)
    BY DEF Reads, Goto, GitInv, Jobs
  <2>2. QED
    BY <1>2, <2>1, GotoKeeps DEF Open, Calls
<1>3. QED
  BY <1>1, <1>2 DEF Open

LEMMA FetchStep == ASSUME GitInv, NEW w \in Workers, Fetch(w) PROVE GitInv'
<1>1. CASE Fail(w)
  BY <1>1, FailKeeps DEF Fetch
<1>2. CASE Step(w, Goto(w, "checkout"), dir)
  <2>1. Reads(Goto(w, "checkout"), dir)
    BY DEF Reads, Goto, GitInv, Jobs
  <2>2. QED
    BY <1>2, <2>1, GotoKeeps DEF Fetch, Calls
<1>3. CASE FailWith(w, {dir, Rewritten})
  BY <1>3, FailWritingKeeps DEF Fetch
<1>4. QED
  BY <1>1, <1>2, <1>3 DEF Fetch

LEMMA CheckoutStep == ASSUME GitInv, NEW w \in Workers, CheckoutBranch(w) PROVE GitInv'
<1> DEFINE j == [Loop(w, "hard", dir.head) EXCEPT !.todo = ToReset, !.alone = TRUE]
<1>1. CASE FailWith(w, {dir, [dir EXCEPT !.exists = TRUE, !.git = "partial"]})
  <2>1. \A e \in {dir, [dir EXCEPT !.exists = TRUE, !.git = "partial"]} : DirOK(e)
    BY WrittenOK DEF GitInv
  <2>2. QED
    BY <1>1, <2>1, FailWithKeeps DEF CheckoutBranch
<1>2. CASE Step(w, j, dir)
  <2>1. dir.head \in OrGone
    BY DEF GitInv, DirOK, Dirs
  <2>2. /\ j \in Jobs /\ j.pc = "hard" /\ j.since = job[w].since
        /\ j.target = dir.head /\ j.todo = Files
    <3>1. job[w] \in Jobs
      BY DEF GitInv
    <3>2. /\ Loop(w, "hard", dir.head) \in Jobs /\ Loop(w, "hard", dir.head).pc = "hard"
          /\ Loop(w, "hard", dir.head).since = job[w].since
          /\ Loop(w, "hard", dir.head).target = dir.head
      BY <2>1, <3>1, LoopOK DEF Resets
    <3>3. QED
      BY <3>2 DEF ToReset, Jobs
  <2>3. JobOK(j) /\ Reads(j, dir)
    BY <2>2 DEF GitInv, Knows, JobOK, Reads
  <2>4. QED
    BY <1>2, <2>3, StepKeeps DEF CheckoutBranch, GitInv
<1>3. QED
  BY <1>1, <1>2 DEF CheckoutBranch

LEMMA ResetFileStep == ASSUME GitInv, NEW w \in Workers, ResetFile(w) PROVE GitInv'
<1>1. CASE Fail(w)
  BY <1>1, FailKeeps DEF ResetFile
<1>2. ASSUME NEW f \in job[w].todo,
             Step(w, [job[w] EXCEPT !.todo = @ \ {f}],
                  [dir EXCEPT !.exists = TRUE, !.file[f] = job[w].target])
      PROVE  GitInv'
  <2> DEFINE j == [job[w] EXCEPT !.todo = @ \ {f}]
             d == [dir EXCEPT !.exists = TRUE, !.file[f] = job[w].target]
  <2>1. job[w] \in Jobs /\ JobOK(job[w]) /\ job[w].pc \in Resets /\ f \in Files
    BY DEF GitInv, Knows, ResetFile, Jobs
  <2>2. DirOK(d)
    <3>1. d \in Dirs /\ d.exists /\ d.git = dir.git /\ d.head = dir.head
      BY <2>1 DEF GitInv, DirOK, Dirs, Jobs
    <3>2. QED
      BY <3>1 DEF GitInv, DirOK
  <2>3. JobOK(j)
    BY <2>1 DEF JobOK, Jobs, Resets
  <2>4. ASSUME j.alone PROVE Reads(j, d)
    <3>1. Reads(job[w], dir) /\ job[w].pc \in {"populate", "hard", "merge"}
      BY <2>1, <2>4 DEF GitInv, Knows, Resets
    <3>2. /\ d.head = dir.head /\ d.file = [dir.file EXCEPT ![f] = job[w].target]
          /\ dir.file \in [Files -> OrGone]
      BY DEF GitInv, DirOK, Dirs
    <3>3. /\ j.pc = job[w].pc /\ j.target = job[w].target /\ j.todo = job[w].todo \ {f}
      BY <2>1 DEF Jobs
    <3>4. QED
      BY <3>1, <3>2, <3>3 DEF Reads
  <2>5. QED
    BY <1>2, <2>2, <2>3, <2>4, StepKeeps DEF ResetFile
<1>3. CASE /\ job[w].todo = {}
           /\ Step(w, [Goto(w, AfterReset(job[w].pc)) EXCEPT !.target = Gone, !.found = "none"],
                   Rewritten)
  <2> DEFINE l == AfterReset(job[w].pc)
             j == [Goto(w, l) EXCEPT !.target = Gone, !.found = "none"]
  <2>1. /\ job[w].pc \in Resets /\ l \in {"open", "pull", "head"}
        /\ job[w] \in Jobs /\ JobOK(job[w])
    BY DEF ResetFile, AfterReset, Resets, GitInv, Knows
  <2>2. /\ j \in Jobs /\ j.pc = l /\ j.since = job[w].since /\ j.alone = job[w].alone
    BY <2>1, CommitType DEF Goto, Jobs, Calls
  <2>3. JobOK(j)
    BY <2>1, <2>2 DEF JobOK
  <2>4. DirOK(Rewritten) /\ Rewritten.head = dir.head /\ Rewritten.file = dir.file
    BY WrittenOK DEF GitInv
  <2>5. ASSUME job[w].alone PROVE Reads(j, Rewritten)
    <3>1. Reads(job[w], dir)
      BY <2>5 DEF GitInv, Knows
    <3>2. l = "head" => job[w].pc = "merge"
      BY <2>1 DEF AfterReset, Resets
    <3>3. l # "open" => job[w].pc \in {"hard", "merge"}
      BY <2>1 DEF AfterReset, Resets
    <3>4. QED
      BY <1>3, <2>1, <2>2, <2>4, <3>1, <3>2, <3>3 DEF Reads, JobOK
  <2>6. QED
    BY <1>3, <2>2, <2>3, <2>4, <2>5, StepKeeps DEF ResetFile
<1>4. CASE FailClone(w)
  BY <1>4, FailCloneKeeps DEF ResetFile
<1>5. QED
  BY <1>1, <1>2, <1>3, <1>4 DEF ResetFile

LEMMA PullStep == ASSUME GitInv, NEW w \in Workers, Pull(w) PROVE GitInv'
<1> DEFINE j == Loop(w, "sethead", Pulled)
<1>1. CASE Fail(w)
  BY <1>1, FailKeeps DEF Pull
<1>2. job[w] \in Jobs /\ JobOK(job[w]) /\ remote \in Commits /\ job[w].pc = "pull"
  BY DEF GitInv, Knows, Bounded, Pull, At
<1>3. CASE dir.head = Pulled /\ Step(w, Goto(w, "head"), dir)
  <2>1. job[w].alone => Reads(Goto(w, "head"), dir)
    BY <1>2, <1>3 DEF GitInv, Knows, Reads, Goto, JobOK, Jobs, Pulled
  <2>2. QED
    BY <1>3, <2>1, GotoKeeps DEF Pull, Calls
<1>4. CASE Step(w, j, dir)
  <2>1. JobOK(j) /\ Reads(j, dir)
    BY <1>2, CommitType DEF JobOK, Loop, Jobs, Calls, Pulled, Reads
  <2>2. QED
    BY <1>4, <2>1, StepKeeps DEF Pull, GitInv
<1>5. CASE FailWith(w, {dir, Rewritten})
  BY <1>5, FailWritingKeeps DEF Pull
<1>6. QED
  BY <1>1, <1>3, <1>4, <1>5 DEF Pull

LEMMA SetHeadStep == ASSUME GitInv, NEW w \in Workers, SetHead(w) PROVE GitInv'
<1> DEFINE moved == [dir EXCEPT !.head = job[w].target]
<1>1. CASE FailWith(w, {dir, Rewritten})
  BY <1>1, FailWritingKeeps DEF SetHead
<1>2. job[w] \in Jobs /\ JobOK(job[w]) /\ job[w].pc = "sethead"
  BY DEF GitInv, Knows, SetHead, At
<1>3. dir.git = "ready" => DirOK(moved)
  BY <1>2 DEF GitInv, DirOK, Dirs, Jobs, JobOK, Nothing
<1>4. CASE dir.git = "ready" /\ Step(w, Goto(w, "merge"), moved)
  <2>1. JobOK(Goto(w, "merge"))
    BY <1>2 DEF JobOK, Goto, Jobs, Calls, Resets
  <2>2. Reads(Goto(w, "merge"), moved)
    BY <1>2 DEF GitInv, DirOK, Dirs, Reads, Goto, JobOK, Jobs
  <2>3. QED
    BY <1>3, <1>4, <2>1, <2>2, StepKeeps DEF SetHead
<1>5. CASE dir.git = "ready" /\ Step(w, Again, moved)
  <2>1. JobOK(Again) /\ ~ Again.alone
    BY AgainOK DEF GitInv, Bounded
  <2>2. QED
    BY <1>3, <1>5, <2>1, StepKeeps DEF SetHead
<1>6. QED
  BY <1>1, <1>4, <1>5 DEF SetHead

LEMMA HeadStep == ASSUME GitInv, NEW w \in Workers, Head(w) PROVE GitInv'
<1> DEFINE j == [Loop(w, "walk", Gone) EXCEPT !.sha = dir.head]
<1>1. CASE Fail(w)
  BY <1>1, FailKeeps DEF Head
<1>2. CASE Step(w, j, dir)
  <2>1. job[w] \in Jobs /\ JobOK(job[w]) /\ job[w].pc = "head" /\ dir.head \in OrGone
    BY DEF GitInv, Knows, DirOK, Dirs, Head, At
  <2>2. JobOK(j)
    BY <2>1, CommitType DEF JobOK, Loop, Jobs, Calls
  <2>3. j.alone => Reads(j, dir)
    BY <2>1 DEF GitInv, Knows, Reads, Loop, Jobs
  <2>4. QED
    BY <1>2, <2>2, <2>3, StepKeeps DEF Head, GitInv
<1>3. QED
  BY <1>1, <1>2 DEF Head

LEMMA WalkStep == ASSUME GitInv, NEW w \in Workers, Walk(w) PROVE GitInv'
<1>1. CASE Fail(w)
  BY <1>1, FailKeeps DEF Walk
<1>2. /\ job[w] \in Jobs /\ JobOK(job[w]) /\ job[w].pc = "walk"
      /\ dir.file \in [Files -> OrGone]
      /\ job[w].alone => Reads(job[w], dir)
  BY DEF GitInv, Knows, DirOK, Dirs, Walk, At
<1>3. ASSUME NEW f \in job[w].todo,
             Step(w, [job[w] EXCEPT !.got[f] = dir.file[f], !.todo = @ \ {f}], dir)
      PROVE  GitInv'
  <2> DEFINE j == [job[w] EXCEPT !.got[f] = dir.file[f], !.todo = @ \ {f}]
  <2>1. /\ j \in Jobs /\ j.pc = "walk" /\ j.sha = job[w].sha /\ j.since = job[w].since
        /\ j.got = [job[w].got EXCEPT ![f] = dir.file[f]] /\ f \in Files
        /\ j.todo = job[w].todo \ {f} /\ j.alone = job[w].alone
        /\ job[w].got \in [Files -> OrGone]
    BY <1>2 DEF Jobs
  <2>2. JobOK(j)
    BY <1>2, <2>1 DEF JobOK
  <2>3. j.alone => Reads(j, dir)
    BY <1>2, <2>1 DEF Reads
  <2>4. QED
    BY <1>3, <2>2, <2>3, StepKeeps DEF Walk, GitInv
<1>4. CASE job[w].todo = {} /\ Step(w, Goto(w, "done"), dir)
  <2>1. job[w].alone => Reads(Goto(w, "done"), dir)
    BY <1>2, <1>4 DEF Reads, Goto, Jobs
  <2>2. QED
    BY <1>4, <2>1, GotoKeeps DEF Walk
<1>5. ASSUME NEW f \in job[w].todo,
             Step(w, [job[w] EXCEPT !.todo = @ \ {f}, !.alone = FALSE], dir)
      PROVE  GitInv'
  <2> DEFINE j == [job[w] EXCEPT !.todo = @ \ {f}, !.alone = FALSE]
  <2>1. j \in Jobs /\ j.pc = "walk" /\ j.since = job[w].since /\ ~ j.alone
    BY <1>2 DEF Jobs
  <2>2. JobOK(j)
    BY <1>2, <2>1 DEF JobOK
  <2>3. QED
    BY <1>5, <2>1, <2>2, StepKeeps DEF Walk, GitInv
<1>6. QED
  BY <1>1, <1>3, <1>4, <1>5 DEF Walk

LEMMA BeginStep == ASSUME GitInv, NEW w \in Workers, Begin(w) PROVE GitInv'
<1>1. JobOK(Again) /\ ~ Again.alone /\ Again \in Jobs
  BY AgainOK DEF GitInv, Bounded, JobOK
<1>2. UNCHANGED <<remote, dir>> /\ job' = [job EXCEPT ![w] = Again]
  BY DEF Begin
<1>3. Bounded'
  BY BoundsAssumption DEF GitInv, Bounded, Begin
<1>4. ASSUME NEW v \in Workers PROVE Knows(v)'
  BY <1>1, <1>2 DEF GitInv, Knows, JobOK, Reads
<1>5. QED
  BY <1>1, <1>2, <1>3, <1>4 DEF GitInv, DirOK

LEMMA CommitStep == GitInv /\ Commit => GitInv'
<1> SUFFICES ASSUME GitInv, Commit PROVE GitInv'
  OBVIOUS
<1>1. Bounded' /\ remote <= remote' /\ remote \in Nat /\ remote' \in Nat
  BY BoundsAssumption DEF GitInv, Bounded, Commit, Commits
<1>2. UNCHANGED <<dir, job>>
  BY DEF Commit
<1>3. ASSUME NEW v \in Workers PROVE Knows(v)'
  <2>1. job[v].since \in Nat
    BY CommitType DEF GitInv, Jobs
  <2>2. QED
    BY <1>1, <1>2, <2>1 DEF GitInv, Knows, JobOK, Reads
<1>4. QED
  BY <1>1, <1>2, <1>3 DEF GitInv, DirOK

LEMMA CleanUpStep == GitInv /\ CleanUp => GitInv'
<1> SUFFICES ASSUME GitInv, CleanUp PROVE GitInv'
  OBVIOUS
<1>1. Bounded'
  BY BoundsAssumption DEF GitInv, Bounded, CleanUp, Trouble
<1>2. UNCHANGED <<remote, dir, job>>
  BY DEF CleanUp
<1>3. QED
  BY <1>1, <1>2 DEF GitInv, DirOK, Knows, JobOK, Reads

LEMMA RemovePieceStep == GitInv /\ RemovePiece => GitInv'
<1> SUFFICES ASSUME GitInv, RemovePiece PROVE GitInv'
  OBVIOUS
<1>1. Bounded' /\ remote' = remote
  BY DEF GitInv, Bounded, RemovePiece
<1>2. PICK p \in Pieces : dir' \in {dir, Nothing, [dir EXCEPT !.git = "none", !.head = Gone],
                                  [dir EXCEPT !.file[p] = Gone]}
  <2>1. removing \subseteq Pieces
    BY DEF GitInv, Bounded
  <2>2. QED
    BY <2>1 DEF RemovePiece
<1>3. DirOK(dir')
  <2> dir \in Dirs /\ DirOK(dir)
    BY DEF GitInv, DirOK
  <2>1. DirOK([dir EXCEPT !.git = "none", !.head = Gone])
    <3>1. [dir EXCEPT !.git = "none", !.head = Gone] \in Dirs
      BY CommitType DEF Dirs, GitStates
    <3>2. dir = Nothing => [dir EXCEPT !.git = "none", !.head = Gone] = Nothing
      <4> DEFINE d == [dir EXCEPT !.git = "none", !.head = Gone]
      <4>1. d.exists = dir.exists /\ d.git = "none" /\ d.head = Gone /\ d.file = dir.file
        BY DEF Dirs
      <4>2. dir = Nothing => d.git = Nothing.git /\ d.head = Nothing.head
        BY <4>1 DEF Nothing
      <4> HIDE DEF d
      <4>3. QED
        BY <3>1, <4>1, <4>2, SameDir DEF d
    <3>3. QED
      BY <3>1, <3>2 DEF DirOK, Dirs
  <2>2. DirOK([dir EXCEPT !.file[p] = Gone])
    <3>1. [dir EXCEPT !.file[p] = Gone] \in Dirs
      BY CommitType DEF Dirs
    <3>2. [NoFiles EXCEPT ![p] = Gone] = NoFiles
      BY DEF NoFiles
    <3>3. dir = Nothing => [dir EXCEPT !.file[p] = Gone] = Nothing
      <4> DEFINE d == [dir EXCEPT !.file[p] = Gone]
      <4>1. /\ d.exists = dir.exists /\ d.git = dir.git /\ d.head = dir.head
            /\ d.file = [dir.file EXCEPT ![p] = Gone]
        BY DEF Dirs
      <4>2. dir = Nothing => d.file = Nothing.file
        BY <3>2, <4>1 DEF Nothing
      <4> HIDE DEF d
      <4>3. QED
        BY <3>1, <4>1, <4>2, SameDir DEF d
    <3>4. QED
      BY <3>1, <3>3 DEF DirOK, Dirs
  <2>3. QED
    BY <1>2, <2>1, <2>2, NothingOK
<1>4. ASSUME NEW v \in Workers PROVE job'[v] \in Jobs /\ Knows(v)'
  <2>1. job'[v] = [job[v] EXCEPT !.alone = @ /\ dir' = dir]
    BY DEF RemovePiece
  <2>2. QED
    BY <1>1, <2>1, Bystander
<1>5. job' \in [Workers -> Jobs]
  BY <1>4 DEF RemovePiece
<1>6. QED
  BY <1>1, <1>3, <1>4, <1>5 DEF GitInv, DirOK

LEMMA CrashStep == GitInv /\ Crash => GitInv'
<1> SUFFICES ASSUME GitInv, Crash PROVE GitInv'
  OBVIOUS
<1>1. Bounded' /\ UNCHANGED <<remote, dir>>
  BY BoundsAssumption DEF GitInv, Bounded, Crash, Trouble
<1>2. /\ JobOK(Again) /\ ~ Again.alone /\ JobOK(Idle) /\ ~ Idle.alone
      /\ Again \in Jobs /\ Idle \in Jobs
  BY AgainOK, IdleOK DEF GitInv, Bounded, JobOK
<1>3. \A v \in Workers : job'[v] \in {Idle, Again}
  BY DEF Crash
<1>4. job' \in [Workers -> Jobs]
  BY <1>2, <1>3 DEF Crash
<1>5. ASSUME NEW v \in Workers PROVE Knows(v)'
  BY <1>1, <1>2, <1>3 DEF Knows, JobOK
<1>6. QED
  BY <1>1, <1>4, <1>5 DEF GitInv, DirOK

LEMMA GitInvariant == Spec => []GitInv
<1>1. GitInv /\ [Next]_vars => GitInv'
  <2> SUFFICES ASSUME GitInv, [Next]_vars PROVE GitInv'
    OBVIOUS
  <2>1. CASE Commit \/ CleanUp \/ RemovePiece \/ Crash
    BY <2>1, CommitStep, CleanUpStep, RemovePieceStep, CrashStep
  <2>2. CASE \E w \in Workers : Begin(w) \/ Work(w)
    BY <2>2, BeginStep, StatStep, CloneBeginStep, CloneRefsStep, FetchStep,
       OpenStep, CheckoutStep, ResetFileStep, PullStep, SetHeadStep, HeadStep, WalkStep DEF Work
  <2>3. CASE UNCHANGED vars
    BY <2>3 DEF vars, GitInv, Bounded, DirOK, Knows, JobOK, Reads
  <2>4. QED
    BY <2>1, <2>2, <2>3 DEF Next
<1>2. QED
  BY <1>1, GitInit, PTL DEF Spec

(* Every variable keeps its type; what is no directory has nothing in it,   *)
(* and a repository that is ready has a HEAD.                               *)
THEOREM TypeCorrect == Spec => []TypeOK
<1>1. GitInv => TypeOK
  BY DEF GitInv, Bounded, DirOK, Dirs, TypeOK
<1>2. QED
  BY <1>1, GitInvariant, PTL

(* A worker nobody disturbed has the manifests of the hash it reports.      *)
THEOREM ManifestsAreOfHashEver == Spec => []ManifestsAreOfHash
<1>1. GitInv => ManifestsAreOfHash
  BY DEF GitInv, Knows, Reads, Jobs, ManifestsAreOfHash, At
<1>2. QED
  BY <1>1, GitInvariant, PTL

(* ... and that hash is no older than its reconciliation.                   *)
THEOREM HashIsFreshEver == Spec => []HashIsFresh
<1>1. GitInv => HashIsFresh
  BY DEF GitInv, Knows, Reads, HashIsFresh
<1>2. QED
  BY <1>1, GitInvariant, PTL

================================================================================
