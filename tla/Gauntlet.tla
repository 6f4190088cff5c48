------------------------------- MODULE Gauntlet -------------------------------
(***************************************************************************)
(* scripts/run_instance.py: one arm of one instance, run in the clone of   *)
(* its repository, which earlier arms have used and may have been killed   *)
(* in.  Two commits are made there: the base with the instance's own test  *)
(* patch, and the head with what the arm adds to it; verify_test compares  *)
(* them.  A tree is named by the commit it started from, the patches that  *)
(* were applied and the litter that was committed with them.  git is       *)
(* modelled by what its commands do to a clone.                            *)
(***************************************************************************)
EXTENDS Naturals, Sequences, FiniteSetsExt

CONSTANTS
  Instances, NoInstance,
  Manifest,                \* the instances of the manifest
  Fixtures, FixtureOf,     \* FixtureOf[i]: the clone of i's repository
  Revisions, BaseCommit,   \* BaseCommit[i]
  Patches, Solution, TestPatch, \* Solution[i], TestPatch[i]: names of patches
  Donor,                   \* CROSSED_DONOR
  FailToPass, PassToPass,  \* test nodes
  DefaultNode,             \* tests/test_basic.py
  Headers,                 \* Headers[i]: the files of i's test patch, see TestFiles
  SourceFiles, NoFile

Arms == {"gold", "comment", "crossed", "timeout", "p2p"}

(* A file of a test patch: whether its name is that of a test, and its     *)
(* imports (none when it is not there): the source file each one leads to, *)
(* and whether the search ends there (flask, requests) or goes on when     *)
(* nothing is found (pytest).                                              *)
TestFiles == [named : BOOLEAN, imports : Seq([finds : SourceFiles \cup {NoFile}, ends : BOOLEAN])]

ASSUME GauntletAssumption ==
  /\ Manifest \subseteq Instances /\ NoInstance \notin Instances /\ NoFile \notin SourceFiles
  /\ FixtureOf \in [Instances -> Fixtures] /\ BaseCommit \in [Instances -> Revisions]
  /\ Solution \in [Instances -> Patches] /\ TestPatch \in [Instances -> Patches]
  /\ Donor \in [Instances -> Instances \cup {NoInstance}] /\ \A i \in Instances : Donor[i] # i
  /\ \A i \in Instances : Headers[i] \in Seq(TestFiles)
  /\ \A i, j \in Instances : Solution[i] # TestPatch[j] /\ (i # j => Solution[i] # Solution[j])

VARIABLES
  fixture,  \* the clone of each repository: a directory on disk
  arm       \* the invocation in progress

gauntletVars == <<fixture, arm>>

Tree(commit) == [commit |-> commit, applied |-> {}, litter |-> {}]
NoTree == Tree(NoInstance)

(* head: the commit checked out; tree: what the working tree and the index *)
(* hold of tracked files; untracked: the rest; locked: an index.lock.      *)
NoFixture == [is |-> "absent", head |-> NoTree, tree |-> NoTree, untracked |-> {},
              unmerged |-> FALSE, locked |-> FALSE]
ClonedFor(i) == [NoFixture EXCEPT !.is = "repo", !.head = Tree(BaseCommit[i]), !.tree = Tree(BaseCommit[i])]
NoArm == [stage |-> "idle", inst |-> NoInstance, name |-> "gold", base |-> NoTree, head |-> NoTree,
          node |-> DefaultNode, timeout |-> 300]

GauntletInit == fixture = [x \in Fixtures |-> NoFixture] /\ arm = NoArm

Inst == arm.inst
Place == FixtureOf[Inst]
At(stage) == arm.stage = stage
To(stage) == arm' = [arm EXCEPT !.stage = stage]
Update(record) == fixture' = [fixture EXCEPT ![Place] = record]

(* A CalledProcessError, or a result that is reported as inconclusive with *)
(* a disposition of its own: either way this arm is over.                  *)
Leave == arm' = NoArm
Raise == Leave /\ UNCHANGED fixture

(* main: an instance that the manifest does not name is refused. *)
Invoke ==
  /\ At("idle")
  /\ \E i \in Manifest, name \in Arms :
       arm' = [NoArm EXCEPT !.stage = "resolve", !.inst = i, !.name = name]
  /\ UNCHANGED fixture

(* resolve_repo: a directory with .git is taken for a clone. *)
ResolveRepo ==
  /\ At("resolve")
  /\ \/ fixture[Place].is = "absent" /\ Raise
     \/ fixture[Place].is = "absent" /\ Update(ClonedFor(Inst)) /\ To("checkout")
     \/ fixture[Place].is # "absent" /\ UNCHANGED fixture /\ To("checkout")

-----------------------------------------------------------------------------
(* git *)

(* checkout refuses an unmerged or locked index, and may refuse when local *)
(* changes or untracked files are in its way; otherwise it carries what    *)
(* was changed and not committed over to the commit it goes to.            *)
Detach(f, commit) ==
  [f EXCEPT !.head = Tree(commit),
            !.tree = [Tree(commit) EXCEPT !.applied = f.tree.applied \ f.head.applied,
                                          !.litter = f.tree.litter \ f.head.litter]]
Obstructed(f) == f.is = "partial" \/ f.unmerged \/ f.locked
InTheWay(f) == f.tree # f.head \/ f.untracked # {}

(* apply --3way leaves a patch that fits in tree and index; one that does  *)
(* not fit leaves nothing, or conflicts that make the index unmerged.      *)
Applied(f, patch) == [f EXCEPT !.tree.applied = @ \cup {patch}]
Conflicted(f, patch) == [Applied(f, patch) EXCEPT !.unmerged = TRUE]

(* add -A and commit: untracked files that are not ignored are in it. *)
Committed(f) ==
  LET tree == [f.tree EXCEPT !.litter = @ \cup (f.untracked \ {"ignored"})]
  IN  [f EXCEPT !.head = tree, !.tree = tree, !.untracked = @ \cap {"ignored"}]

-----------------------------------------------------------------------------
(* _reset_repo: four commands, each of which raises when it fails. *)
CheckoutBase ==
  /\ At("checkout")
  /\ LET f == fixture[Place]
     IN  \/ (Obstructed(f) \/ InTheWay(f)) /\ Raise
         \/ ~Obstructed(f) /\ Update(Detach(f, BaseCommit[Inst])) /\ To("reset")

(* Mutant of ResetHard: what was changed and not committed stays. *)
ResetSoft == At("reset") /\ UNCHANGED fixture /\ To("clean")
ResetHard == At("reset") /\ Update([fixture[Place] EXCEPT !.tree = fixture[Place].head]) /\ To("clean")

(* Mutant of CleanRepo: reset --hard is thought to be enough. *)
LeaveUntracked == At("clean") /\ UNCHANGED fixture /\ To("test_patch")

(* clean -xfd, a branch of its own, and an author. *)
CleanRepo == At("clean") /\ Update([fixture[Place] EXCEPT !.untracked = {}]) /\ To("test_patch")

(* _apply_patch *)
ApplyPatch(patch, next) ==
  \/ Update(Applied(fixture[Place], patch)) /\ To(next)
  \/ Update(Conflicted(fixture[Place], patch)) /\ Leave
  \/ Raise

ApplyTestPatch == At("test_patch") /\ ApplyPatch(TestPatch[Inst], "commit_base")

(* _commit_all raises when there is nothing to commit. *)
CommitAll == Update(Committed(fixture[Place]))
NothingToCommit == Committed(fixture[Place]).tree = fixture[Place].head

(* Step 2: an arm p2p whose instance has no such test takes the other kind. *)
FirstOf(nodes, otherwise) == IF nodes = <<>> THEN otherwise ELSE Head(nodes)
TestNode(i, name) ==
  LET failing == FirstOf(FailToPass[i], DefaultNode)
  IN  IF name = "p2p" THEN FirstOf(PassToPass[i], failing) ELSE failing

CommitBase ==
  /\ At("commit_base")
  /\ \/ NothingToCommit /\ Raise
     \/ /\ ~NothingToCommit /\ CommitAll
        /\ arm' = [arm EXCEPT !.stage = "change", !.base = Committed(fixture[Place]).tree,
                              !.node = TestNode(Inst, arm.name)]

(* _find_source_file_for_comment: the first file of the test patch that is *)
(* named like a test, or else the first; in it the first import that leads *)
(* to a source file, or that ends the search.                              *)
CommentTarget(i) ==
  LET files == Headers[i]
      named == {k \in DOMAIN files : files[k].named}
      imports == files[IF named = {} THEN 1 ELSE Min(named)].imports
      decisive == {k \in DOMAIN imports : imports[k].finds # NoFile \/ imports[k].ends}
  IN  IF files = <<>> \/ decisive = {} THEN NoFile ELSE imports[Min(decisive)].finds

CommentIn(file) == <<"comment", file>>
(* Mutant of ApplyChange: a crossed arm without a donor takes its own. *)
ApplyOwnChange ==
  /\ At("change")
  /\ \/ arm.name = "comment" /\ CommentTarget(Inst) = NoFile /\ Raise
     \/ /\ arm.name = "comment" /\ CommentTarget(Inst) # NoFile
        /\ Update(Applied(fixture[Place], CommentIn(CommentTarget(Inst)))) /\ To("commit_head")
     \/ arm.name = "crossed" /\ Donor[Inst] \in Manifest /\ ApplyPatch(Solution[Donor[Inst]], "commit_head")
     \/ arm.name # "comment" /\ ApplyPatch(Solution[Inst], "commit_head")

(* Step 3: what the arm adds.  The donor's solution comes without its test *)
(* patch; a donor has to be known, and to be in the manifest.              *)
ApplyChange ==
  /\ At("change")
  /\ \/ arm.name = "comment" /\ CommentTarget(Inst) = NoFile /\ Raise
     \/ /\ arm.name = "comment" /\ CommentTarget(Inst) # NoFile
        /\ Update(Applied(fixture[Place], CommentIn(CommentTarget(Inst)))) /\ To("commit_head")
     \/ arm.name = "crossed" /\ Donor[Inst] \notin Manifest /\ Raise
     \/ arm.name = "crossed" /\ Donor[Inst] \in Manifest /\ ApplyPatch(Solution[Donor[Inst]], "commit_head")
     \/ arm.name \in {"gold", "timeout", "p2p"} /\ ApplyPatch(Solution[Inst], "commit_head")

CommitHead ==
  /\ At("commit_head")
  /\ \/ NothingToCommit /\ Raise
     \/ /\ ~NothingToCommit /\ CommitAll
        /\ arm' = [arm EXCEPT !.stage = "verify", !.head = Committed(fixture[Place]).tree,
                              !.timeout = IF arm.name = "timeout" THEN 1 ELSE 300]

(* Step 4: verify_test (module Verify) gives its verdict or raises; caches *)
(* and build artifacts may be left in the clone.                           *)
VerifyArm ==
  /\ At("verify") /\ Leave
  /\ \E left \in SUBSET {"untracked", "ignored"} :
       Update([fixture[Place] EXCEPT !.untracked = @ \cup left])

(* The invocation is killed between two commands, or within one: a clone   *)
(* may be left half made, an index locked.                                 *)
KillArm ==
  /\ ~At("idle") /\ Leave
  /\ \/ UNCHANGED fixture
     \/ At("resolve") /\ fixture[Place].is = "absent" /\ Update([NoFixture EXCEPT !.is = "partial"])
     \/ ~At("resolve") /\ Update([fixture[Place] EXCEPT !.locked = TRUE])

GauntletNext ==
  \/ Invoke \/ ResolveRepo \/ CheckoutBase \/ ResetHard \/ CleanRepo \/ ApplyTestPatch \/ CommitBase
  \/ ApplyChange \/ CommitHead \/ VerifyArm \/ KillArm
GauntletSpec == GauntletInit /\ [][GauntletNext]_gauntletVars

(* What is compared is what the arm is named for, whatever earlier arms    *)
(* did in the clone: the base is the instance's commit with its own tests  *)
(* and nothing else; the head adds to it the instance's solution, or, for  *)
(* the two control arms, a comment in a file the tests import or another   *)
(* instance's solution, and never its own.                                 *)
ArmIsItsPatch ==
  At("verify") =>
    LET added == arm.head.applied \ arm.base.applied
    IN  /\ arm.base = [Tree(BaseCommit[Inst]) EXCEPT !.applied = {TestPatch[Inst]}]
        /\ arm.head = [arm.base EXCEPT !.applied = @ \cup added]
        /\ CASE arm.name = "comment" -> \E file \in SourceFiles : added = {CommentIn(file)}
             [] arm.name = "crossed" -> \E i \in Manifest \ {Inst} : added = {Solution[i]}
             [] OTHER                -> added = {Solution[Inst]}
=============================================================================
