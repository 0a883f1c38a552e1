------------------------------ MODULE GitClient ------------------------------
(***************************************************************************)
(* gitops/utils/git/git.go and the walk of GenerateManifests, call by      *)
(* call: workers that clone, fetch, check out, pull and read one directory *)
(* under os.TempDir(), and a cleanup that removes it.  Nothing locks the   *)
(* directory: go-git makes the directories anew that it writes to, though  *)
(* another worker is removing them.  A process that ends leaves them as    *)
(* they are.                                                               *)
(***************************************************************************)
EXTENDS Naturals

CONSTANTS
  Workers,
  Files,      \* the manifests, each changed by every commit; they decode
  Private,    \* the repository asks for credentials
  Token,      \* the client has a token
  MaxCommit,  \* bound: commits of the repository
  MaxRounds,  \* bound: reconciliations
  MaxTrouble  \* bound: crashes, failing calls and cleanups

ASSUME AccessAssumption == Private \in BOOLEAN /\ Token \in BOOLEAN
ASSUME BoundsAssumption ==
  MaxCommit \in Nat \ {0} /\ MaxRounds \in Nat /\ MaxTrouble \in Nat

VARIABLES
  remote,    \* the newest commit of the default branch
  dir,       \* the directory: its .git, the commit of HEAD, and the files
  job,       \* per worker, where it is and its local variables
  removing,  \* what RemoveAll has still to remove
  rounds,    \* reconciliations so far
  trouble    \* crashes, failing calls and cleanups so far

vars == <<remote, dir, job, removing, rounds, trouble>>

Commits == 1 .. MaxCommit
Gone == 0
OrGone == Commits \cup {Gone}
NoFiles == [f \in Files |-> Gone]

(* .git is "ready", "partial" as long as a clone has made nothing but HEAD *)
(* and objects, or "litter": files, of which none is HEAD.                 *)
GitStates == {"none", "litter", "partial", "ready"}
Nothing == [exists |-> FALSE, git |-> "none", head |-> Gone, file |-> NoFiles]
Emptied == [Nothing EXCEPT !.exists = TRUE]
Pieces == {"git", "directory"} \cup Files

(* A file other than HEAD is written to .git, or to where it has been.     *)
Rewritten ==
  [dir EXCEPT !.exists = TRUE, !.git = IF @ = "none" THEN "litter" ELSE @]

Resets == {"populate", "hard", "merge"}
Calls == {"stat", "clone", "cloning", "open", "fetch", "checkout", "pull",
          "sethead", "head", "walk"} \cup Resets

(* found: the directory when PlainClone began; target: the commit a reset  *)
(* writes; todo: the files of a loop; sha: what Checkout returned; got: the*)
(* commit of each file that was read.  Two histories: since, the newest    *)
(* commit when the reconciliation began, and alone, nobody else has        *)
(* changed the directory since Checkout.                                   *)
Jobs == [pc : Calls \cup {"idle", "done"}, found : {"none", "empty", "full"},
         target : OrGone, todo : SUBSET Files, sha : OrGone,
         got : [Files -> OrGone], since : OrGone, alone : BOOLEAN]
Idle == [pc |-> "idle", found |-> "none", target |-> Gone, todo |-> {},
         sha |-> Gone, got |-> NoFiles, since |-> Gone, alone |-> FALSE]

TypeOK ==
  /\ remote \in Commits
  /\ dir \in [exists : BOOLEAN, git : GitStates,
              head : OrGone, file : [Files -> OrGone]]
  /\ dir.git = "ready" => dir.head # Gone
  /\ ~ dir.exists => dir = Nothing
  /\ job \in [Workers -> Jobs]
  /\ removing \subseteq Pieces
  /\ rounds \in 0 .. MaxRounds /\ trouble \in 0 .. MaxTrouble

Init ==
  /\ remote = 1 /\ dir = Nothing
  /\ job = [w \in Workers |-> Idle]
  /\ removing = {} /\ rounds = 0 /\ trouble = 0

-----------------------------------------------------------------------------
At(w, l) == job[w].pc = l
NoTrouble == UNCHANGED trouble
Trouble == trouble < MaxTrouble /\ trouble' = trouble + 1

(* A call of worker w leaves it with the locals j, and the directory as d. *)
Step(w, j, d) ==
  /\ dir' = d
  /\ job' = [v \in Workers |->
               IF v = w THEN j ELSE [job[v] EXCEPT !.alone = @ /\ d = dir]]
  /\ UNCHANGED <<remote, removing, rounds>>

Goto(w, l) == [job[w] EXCEPT !.pc = l]
Loop(w, l, commit) == [job[w] EXCEPT !.pc = l, !.target = commit, !.todo = Files]

(* An error ends the reconciliation, and another one begins. *)
Again == [Idle EXCEPT !.pc = "stat", !.since = remote]
Fail(w) == Step(w, Again, dir)
FailWith(w, D) == \E d \in D : Step(w, Again, d)

Begin(w) ==
  /\ job[w].pc \in {"idle", "done"} /\ rounds < MaxRounds
  /\ rounds' = rounds + 1
  /\ job' = [job EXCEPT ![w] = Again]
  /\ UNCHANGED <<remote, dir, removing, trouble>>

-----------------------------------------------------------------------------
(* CloneOrFetch.                                                           *)

(* Mutant of ToClone: the directory is not looked at. *)
CloneAlways == TRUE

ToClone == ~ dir.exists

Stat(w) ==
  /\ At(w, "stat") /\ NoTrouble
  /\ Step(w, Goto(w, IF ToClone THEN "clone" ELSE "open"), dir)

(* The token is used for cloning, and for nothing else. *)
CloneAllowed == Private => Token
FetchAllowed == ~ Private

Found == IF ~ dir.exists THEN "none"
         ELSE IF dir.git = "none" /\ dir.file = NoFiles THEN "empty" ELSE "full"

(* PlainClone makes .git and its HEAD, unless there is a HEAD by now. *)
CloneBegin(w) ==
  /\ At(w, "clone") /\ NoTrouble
  /\ IF dir.git \in {"none", "litter"}
     THEN Step(w, [Goto(w, "cloning") EXCEPT !.found = Found],
               [dir EXCEPT !.exists = TRUE, !.git = "partial"])
     ELSE Fail(w)

(* One that fails removes what it has made, if there was nothing before. *)
FailClone(w) ==
  FailWith(w, CASE job[w].found = "none" -> {Nothing}
                [] job[w].found = "empty" -> {Emptied}
                [] job[w].found = "full" -> {dir, Rewritten})

(* It fetches everything and sets HEAD. *)
CloneRefs(w) ==
  /\ At(w, "cloning")
  /\ IF CloneAllowed /\ dir.git = "partial"
     THEN \/ /\ Step(w, Loop(w, "populate", remote),
                     [dir EXCEPT !.git = "ready", !.head = remote])
             /\ NoTrouble
          \/ FailClone(w) /\ Trouble
     ELSE FailClone(w) /\ NoTrouble

(* PlainOpen looks for HEAD. *)
Open(w) ==
  /\ At(w, "open") /\ NoTrouble
  /\ IF dir.git \in {"partial", "ready"} THEN Step(w, Goto(w, "fetch"), dir)
                                         ELSE Fail(w)

(* Fetch, which changes no file, may answer for half a clone as well.      *)
(* Packs and references are written, also where .git has been.             *)
Fetch(w) ==
  /\ At(w, "fetch")
  /\ \/ /\ FetchAllowed /\ dir.git \in {"partial", "ready"}
        /\ Step(w, Goto(w, "checkout"), dir) /\ NoTrouble
     \/ FetchAllowed /\ dir.git # "ready" /\ FailWith(w, {dir, Rewritten}) /\ NoTrouble
     \/ ~ FetchAllowed /\ Fail(w) /\ NoTrouble
     \/ Fail(w) /\ Trouble

-----------------------------------------------------------------------------
(* Checkout.                                                               *)

(* Mutant of ToReset: Force is missing, what is in the directory stays. *)
ResetNothing == {}

ToReset == Files

(* Half a clone has no branch to check out; and HEAD may be written to     *)
(* where .git has been when it was opened.                                 *)
CheckoutBranch(w) ==
  /\ At(w, "checkout") /\ NoTrouble
  /\ IF dir.git = "ready"
     THEN Step(w, [Loop(w, "hard", dir.head) EXCEPT !.todo = ToReset, !.alone = TRUE], dir)
     ELSE FailWith(w, {dir, [dir EXCEPT !.exists = TRUE, !.git = "partial"]})

AfterReset(l) == CASE l = "populate" -> "open" [] l = "hard" -> "pull"
                   [] l = "merge" -> "head"

(* The files of the work tree are written one after the other, then the    *)
(* index.  What is missing in .git may be read already, or be an error.    *)
ResetFile(w) ==
  /\ job[w].pc \in Resets /\ NoTrouble
  /\ \/ \E f \in job[w].todo :
          Step(w, [job[w] EXCEPT !.todo = @ \ {f}],
               [dir EXCEPT !.exists = TRUE, !.file[f] = job[w].target])
     \/ /\ job[w].todo = {}
        /\ Step(w, [Goto(w, AfterReset(job[w].pc)) EXCEPT !.target = Gone, !.found = "none"],
                Rewritten)
     \/ /\ dir.git # "ready"
        /\ IF job[w].pc = "populate" THEN FailClone(w) ELSE Fail(w)

(* Mutant of Pulled: there is no pull; Fetch is thought to be enough. *)
PulledNothing == dir.head

(* Mutant of Pulled: the reference is not found, and its hash is zero. *)
PulledZero == Gone

Pulled == remote

(* Pull: up to date, a fast-forward, or an error. *)
Pull(w) ==
  /\ At(w, "pull")
  /\ \/ /\ FetchAllowed /\ dir.git = "ready" /\ NoTrouble
        /\ Step(w, IF dir.head = Pulled THEN Goto(w, "head")
                                        ELSE Loop(w, "sethead", Pulled), dir)
     \/ FetchAllowed /\ dir.git # "ready" /\ FailWith(w, {dir, Rewritten}) /\ NoTrouble
     \/ ~ FetchAllowed /\ Fail(w) /\ NoTrouble
     \/ Fail(w) /\ Trouble

(* The branch of HEAD first, whoever has moved it since; then the files,   *)
(* unless they are found to be changed, which another worker's reset may   *)
(* cause.                                                                  *)
SetHead(w) ==
  /\ At(w, "sethead") /\ NoTrouble
  /\ LET moved == [dir EXCEPT !.head = job[w].target] IN
       \/ dir.git = "ready" /\ Step(w, Goto(w, "merge"), moved)
       \/ /\ dir.git = "ready" /\ \E v \in Workers \ {w} : job[v].pc \in Resets
          /\ Step(w, Again, moved)
       \/ dir.git # "ready" /\ FailWith(w, {dir, Rewritten})

Head(w) ==
  /\ At(w, "head") /\ NoTrouble
  /\ IF dir.git = "ready"
     THEN Step(w, [Loop(w, "walk", Gone) EXCEPT !.sha = dir.head], dir)
     ELSE Fail(w)

(* Another worker is in the middle of writing file f. *)
HalfWritten(w, f) == \E v \in Workers \ {w} :
  job[v].pc \in Resets /\ f \in job[v].todo /\ dir.file[f] # job[v].target

(* GenerateManifests: a file that is gone is an error, or is not seen; one *)
(* that does not decode is skipped without a word.                         *)
Walk(w) ==
  /\ At(w, "walk") /\ NoTrouble
  /\ \/ /\ dir.exists
        /\ \E f \in job[w].todo :
             \/ Step(w, [job[w] EXCEPT !.got[f] = dir.file[f], !.todo = @ \ {f}], dir)
             \/ /\ HalfWritten(w, f)
                /\ Step(w, [job[w] EXCEPT !.todo = @ \ {f}, !.alone = FALSE], dir)
     \/ dir.exists /\ job[w].todo = {} /\ Step(w, Goto(w, "done"), dir)
     \/ /\ ~ dir.exists \/ \E f \in job[w].todo : dir.file[f] = Gone
        /\ Fail(w)

-----------------------------------------------------------------------------
Commit ==
  /\ remote < MaxCommit /\ remote' = remote + 1
  /\ UNCHANGED <<dir, job, removing, rounds, trouble>>

(* CleanUp of another item: RemoveAll, piece by piece. *)
CleanUp ==
  /\ removing = {} /\ dir.exists /\ Trouble
  /\ removing' = Pieces
  /\ UNCHANGED <<remote, dir, job, rounds>>

(* The directory itself comes last, and stays if something is in it again: *)
(* an error, which is retried unless the Application is back.              *)
RemovePiece ==
  /\ \/ \E p \in removing \ {"directory"} :
          /\ removing' = removing \ {p}
          /\ dir' = IF p = "git" THEN [dir EXCEPT !.git = "none", !.head = Gone]
                                 ELSE [dir EXCEPT !.file[p] = Gone]
     \/ /\ removing = {"directory"} /\ Found # "full"
        /\ removing' = {} /\ dir' = Nothing
     \/ /\ removing = {"directory"} /\ Found = "full"
        /\ removing' \in {Pieces, {}} /\ UNCHANGED dir
  /\ job' = [w \in Workers |-> [job[w] EXCEPT !.alone = @ /\ dir' = dir]]
  /\ UNCHANGED <<remote, rounds, trouble>>

(* The process ends and is started again; it takes everything up again. *)
Crash ==
  /\ Trouble
  /\ job' = [w \in Workers |-> IF job[w].pc \in {"idle", "done"} THEN Idle ELSE Again]
  /\ removing' = {}
  /\ UNCHANGED <<remote, dir, rounds>>

Work(w) == \/ Stat(w) \/ CloneBegin(w) \/ CloneRefs(w) \/ Open(w) \/ Fetch(w)
           \/ CheckoutBranch(w) \/ ResetFile(w) \/ Pull(w) \/ SetHead(w)
           \/ Head(w) \/ Walk(w)

Next == \/ Commit \/ CleanUp \/ RemovePiece \/ Crash
        \/ \E w \in Workers : Begin(w) \/ Work(w)

(* Errors are retried for ever, and a removal goes on. *)
Fairness == WF_vars(RemovePiece) /\ \A w \in Workers : WF_vars(Work(w))

Spec == Init /\ [][Next]_vars /\ Fairness

-----------------------------------------------------------------------------
(***************************************************************************)
(* Checkout and GenerateManifests: the manifests are those of the hash     *)
(* that the status will name, as long as nobody else works on the          *)
(* directory; also after a crash in the middle of a checkout or a pull.    *)
(***************************************************************************)
ManifestsAreOfHash == \A w \in Workers :
  At(w, "done") /\ job[w].alone => job[w].got = [f \in Files |-> job[w].sha]

(***************************************************************************)
(* "Fetch the latest changes": the hash is not older than the newest       *)
(* commit was when the reconciliation began.                               *)
(***************************************************************************)
HashIsFresh == \A w \in Workers :
  job[w].pc \in {"walk", "done"} /\ job[w].alone => job[w].sha >= job[w].since

(***************************************************************************)
(* A directory without a repository, which os.Stat finds and PlainClone is *)
(* not called for.                                                         *)
(***************************************************************************)
Stuck == dir.exists /\ dir.git # "ready"

(***************************************************************************)
(* CloneOrFetch and Checkout: whatever fails, whoever cleans up and        *)
(* whenever the process ends, a worker that tries again reads its          *)
(* manifests in the end.  Two things only keep it from that: a directory   *)
(* that stays without a repository for ever, and clones that fail again    *)
(* and again, because each removes what another has just cloned.           *)
(***************************************************************************)
EventuallyRead == \A w \in Workers :
  (At(w, "stat") ~> At(w, "done")) \/ <>[]Stuck \/ []<>(~ dir.exists)

(***************************************************************************)
(* git.go:37 says what the token is for: "The intended use of a GitHub     *)
(* personal access token is in replace of your password".  With a token, a *)
(* private repository should be read as a public one is.                   *)
(***************************************************************************)
TokenIsEnough == Token => EventuallyRead
=============================================================================
