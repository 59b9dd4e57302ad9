---------------------------- MODULE WorktreeMerge ----------------------------
(* Merging a worktree's branch into the main worktree                         *)
(* (git-worktree-handlers.ts), while the user has edits there that are not    *)
(* committed. Handlers of several webs interleave at every git command, and   *)
(* git itself is external: an edit stands for the changes of one file, a      *)
(* blocking one is of a file the merges touch.                                *)
EXTENDS Naturals, Sequences, SequencesExt

CONSTANTS
  Merges,        \* requests to merge
  Branches,      \* source branches
  Edits,         \* changes the user may make in the main worktree
  Blocking       \* those in files the merges touch

ASSUME MergeAssumption == Blocking \subseteq Edits /\ Branches # {}

VARIABLES
  made,       \* edits made so far
  tree,       \* edits in the main worktree
  stashes,    \* the stash, latest first: who pushed it, if tagged, and its edits
  unmerged,   \* what left conflicts in the index
  merged,     \* branches in HEAD
  request     \* each request: where its handler is, the stash it took, where that was
              \* in the list, its answer

mergeVars == <<made, tree, stashes, unmerged, merged, request>>

NoStash == [by |-> "none", tagged |-> FALSE, edits |-> {}]
MergeTypeOK ==
  /\ made \subseteq Edits /\ tree \subseteq Edits
  /\ \A i \in 1..Len(stashes) : stashes[i].edits \subseteq Edits
  /\ unmerged \in {"none", "merge", "squash", "pop"}
  /\ merged \subseteq Branches
  /\ \A m \in Merges :
       /\ request[m].at \in {"none", "stash", "top", "merge", "pop", "popping", "cleanup",
                             "done"}
       /\ request[m].branch \in Branches
       /\ request[m].answer \in {"none", "merged", "failed", "upToDate"}

MergeInit ==
  /\ made = {} /\ tree = {} /\ unmerged = "none" /\ merged = {}
  /\ stashes \in {<<>>, <<[by |-> "user", tagged |-> FALSE, edits |-> {}]>>}
  /\ request = [m \in Merges |->
       [at |-> "none", branch |-> CHOOSE b \in Branches : TRUE,
        stash |-> NoStash, ref |-> 0, answer |-> "none"]]

UserEdits(e) ==
  /\ e \notin made
  /\ made' = made \cup {e} /\ tree' = tree \cup {e}
  /\ UNCHANGED <<stashes, unmerged, merged, request>>

\* handleGitWorktreeMerge up to the stash, on the target's branch.
MergeRequested(m, b, stashFirst) ==
  /\ request[m].at = "none"
  /\ request' = [request EXCEPT
       ![m].at = IF stashFirst THEN "stash" ELSE "merge", ![m].branch = b]
  /\ UNCHANGED <<made, tree, stashes, unmerged, merged>>

\* pushMergeStash: git stash push -u, which does nothing on a clean tree and
\* fails on conflicts; then the top of the stash is taken for the one pushed if
\* it has the tag of any merge.
StashPushed(m) ==
  /\ request[m].at = "stash"
  /\ IF tree # {} /\ unmerged = "none"
     THEN /\ stashes' = <<[by |-> m, tagged |-> TRUE, edits |-> tree]>> \o stashes
          /\ tree' = {}
     ELSE UNCHANGED <<stashes, tree>>
  /\ request' = [request EXCEPT ![m].at = IF unmerged = "none" THEN "top" ELSE "merge"]
  /\ UNCHANGED <<made, unmerged, merged>>
StashTaken(m) ==
  /\ request[m].at = "top"
  /\ request' = [request EXCEPT
       ![m].at = "merge",
       ![m].stash = IF stashes # <<>> /\ Head(stashes).tagged THEN Head(stashes) ELSE NoStash]
  /\ UNCHANGED <<made, tree, stashes, unmerged, merged>>

\* executeMergeStrategy where the merge goes through; a squash of a branch that
\* is merged has nothing to commit and fails. Only here the request's strategy is
\* read, and chosen.
MergeSucceeds(m, strategy) ==
  /\ request[m].at = "merge" /\ unmerged = "none"
  /\ IF request[m].branch \in merged THEN strategy # "squash"
     ELSE tree \cap Blocking = {}
  /\ merged' = merged \cup {request[m].branch}
  /\ request' = [request EXCEPT
       ![m].at = IF request[m].branch \in merged THEN "pop" ELSE "cleanup",
       ![m].answer = IF request[m].branch \in merged THEN "upToDate" ELSE "merged"]
  /\ UNCHANGED <<made, tree, stashes, unmerged>>

\* Git refuses: conflicts in the index, edits that would be overwritten, a
\* branch that is no fast-forward, a hook.
MergeRefused(m) ==
  /\ request[m].at = "merge"
  /\ request' = [request EXCEPT ![m].at = "pop", ![m].answer = "failed"]
  /\ UNCHANGED <<made, tree, stashes, unmerged, merged>>

\* The merge stops on conflicts, which stay in the tree for the user.
MergeConflicts(m, strategy) ==
  /\ request[m].at = "merge" /\ unmerged = "none" /\ tree \cap Blocking = {}
  /\ request[m].branch \notin merged /\ strategy # "rebase"
  /\ unmerged' = strategy
  /\ request' = [request EXCEPT ![m].at = "pop", ![m].answer = "failed"]
  /\ UNCHANGED <<made, tree, stashes, merged>>

\* popMergeStashBySha: the list of stashes tells where the one taken is. It may
\* be gone.
StashListed(m) ==
  /\ request[m].at = "pop"
  /\ \/ /\ request[m].stash \notin ToSet(stashes)
        /\ request' = [request EXCEPT ![m].at = "done"]
     \/ \E i \in 1..Len(stashes) :
          /\ stashes[i] = request[m].stash
          /\ request' = [request EXCEPT ![m].at = "popping", ![m].ref = i]
  /\ UNCHANGED <<made, tree, stashes, unmerged, merged>>

\* Mutant: the tree is reset to what was popped.
ResetTree(popped) == popped
TreeAfter(popped) == tree \cup popped

\* Then the stash that stands there by now is popped, whosever it is, and the
\* answer given (buildMergeFailurePayload). Git does not pop onto conflicts or
\* over edits of the same files, and keeps a stash whose pop conflicts with what
\* was merged since.
PopFits(i) ==
  i \in 1..Len(stashes) /\ unmerged = "none" /\ tree \cap stashes[i].edits = {}
StashPopped(m) ==
  /\ request[m].at = "popping"
  /\ LET i == request[m].ref
     IN \/ /\ PopFits(i)
           /\ tree' = TreeAfter(stashes[i].edits) /\ stashes' = RemoveAt(stashes, i)
           /\ UNCHANGED unmerged
        \/ /\ PopFits(i) /\ merged # {} /\ stashes[i].edits \cap Blocking # {}
           /\ unmerged' = "pop" /\ tree' = TreeAfter({})
           /\ UNCHANGED stashes
        \/ /\ ~ PopFits(i)
           /\ tree' = TreeAfter({})
           /\ UNCHANGED <<stashes, unmerged>>
  /\ request' = [request EXCEPT ![m].at = "done", ![m].ref = 0]
  /\ UNCHANGED <<made, merged>>

\* cleanupAfterMerge removes the source's worktree and branch; the stash is left
\* to the user.
CleanedUp(m) ==
  /\ request[m].at = "cleanup"
  /\ request' = [request EXCEPT ![m].at = "done"]
  /\ UNCHANGED <<made, tree, stashes, unmerged, merged>>

\* handleGitMergeStashPop: the user asks for the stash of a merge that went through.
\* (Neither this message nor the next is in the dispatch table, handler.ts:160; they
\* are modelled as types.ts declares them.)
StashAskedBack(m) ==
  /\ request[m].at = "done" /\ request[m].answer = "merged" /\ request[m].stash # NoStash
  /\ request' = [request EXCEPT ![m].at = "pop"]
  /\ UNCHANGED <<made, tree, stashes, unmerged, merged>>

\* handleGitMergeDiscardBlockers: the user gives up edits that block a merge.
BlockersDiscarded(gone) ==
  /\ gone # {} /\ gone \subseteq tree \cap Blocking
  /\ tree' = tree \ gone /\ made' = made \ gone
  /\ UNCHANGED <<stashes, unmerged, merged, request>>

\* handleGitMergeAbort: only a merge can be aborted, neither the conflicts of a
\* squash nor those of a pop.
MergeAborted ==
  /\ unmerged = "merge" /\ unmerged' = "none"
  /\ UNCHANGED <<made, tree, stashes, merged, request>>

\* handleGitMergeComplete, once the user has resolved all conflicts.
MergeCompleted ==
  /\ unmerged # "none" /\ unmerged' = "none"
  /\ UNCHANGED <<made, tree, stashes, merged, request>>

MergeNext ==
  \/ MergeAborted \/ MergeCompleted
  \/ \E e \in Edits : UserEdits(e)
  \/ \E gone \in SUBSET Blocking : BlockersDiscarded(gone)
  \/ \E m \in Merges :
       \/ \E b \in Branches, first \in BOOLEAN : MergeRequested(m, b, first)
       \/ StashPushed(m) \/ StashTaken(m)
       \/ MergeRefused(m)
       \/ \E s \in {"merge", "squash", "rebase"} : MergeSucceeds(m, s) \/ MergeConflicts(m, s)
       \/ StashListed(m) \/ StashPopped(m) \/ CleanedUp(m) \/ StashAskedBack(m)

\* Git commands end.
MergeStep(m) ==
  \/ StashPushed(m) \/ StashTaken(m) \/ MergeRefused(m)
  \/ StashListed(m) \/ StashPopped(m) \/ CleanedUp(m)
MergeFairness == \A m \in Merges : WF_mergeVars(MergeStep(m))

MergeSpec == MergeInit /\ [][MergeNext]_mergeVars /\ MergeFairness
-----------------------------------------------------------------------------
\* No edit of the user is lost: whatever two merges do in turn, with or without
\* a stash, what the user changed in the main worktree is in its tree or in a stash,
\* until the user discards it, even where the stash popped is another one's.
NoEditLost ==
  \A e \in made : e \in tree \/ \E i \in 1..Len(stashes) : e \in stashes[i].edits

\* Every request to merge is answered.
MergesEnd == \A m \in Merges : request[m].at # "none" ~> request[m].at = "done"
=============================================================================
