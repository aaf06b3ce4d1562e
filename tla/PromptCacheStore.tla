-------------------------- MODULE PromptCacheStore --------------------------
(***************************************************************************)
(* The persistent prompt cache on disk (persistent_cache/disk_store*.rs):  *)
(* content-addressed block directories that form one tree per model, the   *)
(* publication transaction that adds a block, the global byte quota that   *)
(* evicts subtrees, the retention policy that compacts parent boundaries,  *)
(* and the startup scan that rebuilds the index after a crash.             *)
(*                                                                         *)
(* A block holds a sequence state of its own tokens and a boundary state,  *)
(* a snapshot at its last token (hybrid models keep both).  A prompt       *)
(* prefix is restored from the sequence states of a whole chain and one    *)
(* boundary state.                                                         *)
(***************************************************************************)
EXTENDS Integers, FiniteSets

CONSTANTS
    Block,         \* the blocks that prompts may need, of all models
    Parent,        \* parent_block_hash, NoBlock for the first of a prompt
    BlockIndex,    \* block_index, the depth of the block in its chain
    Tokens,        \* token_count of each block
    ModelOf,       \* the model whose directory holds the block
    BlockTokens,   \* block_token_count: a block with fewer is a partial tail
    BoundaryBytes, \* bytes of a boundary state; a sequence state has Tokens
    Maximum,       \* global_prompt_cache_maximum_size_bytes
    Stride,        \* common_prefix_checkpoint_stride_blocks
    Disturbances,  \* how many file operations fail or are interfered with
    NoBlock,
    NoModel

Model == {ModelOf[b] : b \in Block}

\* With every block, such a set holds the block it extends.
HoldsParents(blocks) == \A b \in blocks : Parent[b] # NoBlock => Parent[b] \in blocks

\* A block and everything it extends: the least such set that holds it.
Ancestry ==
    [b \in Block |-> {a \in Block :
        \A blocks \in SUBSET Block : b \in blocks /\ HoldsParents(blocks) => a \in blocks}]

Partial(b) == Tokens[b] < BlockTokens

\* validate_requested_block_ancestry, and a tail is never a chain parent.
ASSUME BlocksAssumption ==
    /\ NoBlock \notin Block /\ NoModel \notin Model
    /\ IsFiniteSet(Block)
    /\ Parent \in [Block -> Block \cup {NoBlock}]
    /\ BlockIndex \in [Block -> Nat]
    /\ BlockTokens \in Nat /\ Tokens \in [Block -> 1..BlockTokens]
    /\ Maximum \in Nat /\ BoundaryBytes \in Nat /\ Stride \in Nat \ {0}
    /\ Disturbances \in Nat
    /\ \A b \in Block :
          IF Parent[b] = NoBlock THEN BlockIndex[b] = 0
          ELSE /\ BlockIndex[b] = BlockIndex[Parent[b]] + 1
               /\ ModelOf[Parent[b]] = ModelOf[b]
               /\ ~Partial(Parent[b])

VARIABLES
    written,    \* the block directories on disk, and how many are older
    seqs,       \* blocks whose sequence-state file is on disk
    bnds,       \* blocks whose boundary-state file is on disk
    rotten,     \* state files whose header no longer validates
    stale,      \* bytes of abandoned staging directories, by model
    active,     \* the model of the open store, NoModel when none is open
    tracked,    \* blocks of tracked_files, the in-memory index
    trackedSeq, \* ... those with a sequence_state_file
    trackedBnd, \* ... those with a boundary_state_file
    total,      \* global_prompt_cache_total_size_bytes, an estimate
    at,         \* where open or the publication stands
    tx,         \* the publication in progress
    outcome,    \* what the last publication returned
    faulted,    \* a file operation failed, or an outsider touched the files
    acked,      \* complete blocks acknowledged and not removed since
    disturbed   \* how many did

diskVars  == <<written, seqs, bnds, rotten, stale>>
indexVars == <<tracked, trackedSeq, trackedBnd>>
faultVars == <<faulted, disturbed>>
histVars  == <<faultVars, acked>>
vars == <<diskVars, active, indexVars, total, at, tx, outcome, histVars>>

\* A file operation fails half way, or an outsider touches the files: the
\* index may be wrong until the store is opened again.
Disturb ==
    /\ disturbed < Disturbances
    /\ disturbed' = disturbed + 1 /\ faulted' = TRUE

NoTx == [block |-> NoBlock, boundaryOnly |-> FALSE, credit |-> 0, protected |-> {}]
NoOutcome == [block |-> NoBlock, result |-> "none"]

Dirs == DOMAIN written
Files == {"sequence", "boundary"} \X Block

Phases == {"closed", "startupQuota", "compact", "retryQuota",
           "idle", "quota", "commit", "reclaim", "supersede"}
Results == {"none", "Published", "AlreadyPublished", "failed", "unsatisfied"}

(***************************************************************************)
(* The type of every variable.                                             *)
(***************************************************************************)
TypeOK ==
    /\ Dirs \subseteq Block
    /\ \A b \in Dirs : written[b] = Cardinality({c \in Dirs : written[c] < written[b]})
    /\ seqs \subseteq Dirs /\ bnds \subseteq Dirs
    /\ rotten \subseteq Files
    /\ stale \in [Model -> Nat]
    /\ active \in Model \cup {NoModel}
    /\ tracked \subseteq {b \in Block : ModelOf[b] = active}
    /\ trackedSeq \subseteq tracked /\ trackedBnd \subseteq tracked
    /\ total \in Nat
    /\ at \in Phases /\ (at = "closed") = (active = NoModel)
    /\ tx \in [block : Block \cup {NoBlock}, boundaryOnly : BOOLEAN,
               credit : {0, BoundaryBytes}, protected : SUBSET Block]
    /\ outcome \in [block : Block \cup {NoBlock}, result : Results]
    /\ faulted \in BOOLEAN /\ acked \subseteq Block
    /\ disturbed \in 0..Disturbances
-----------------------------------------------------------------------------
(***************************************************************************)
(* What the scans of the directory tree compute.                           *)
(***************************************************************************)
\* persistent_prompt_cache_boundary_is_common_prefix_checkpoint
IsCheckpoint(b) == BlockIndex[b] = 0 \/ (BlockIndex[b] + 1) % Stride = 0

\* The sum of a function over a set: its values, laid out unit by unit, are
\* counted.
SumOver(f, S) == Cardinality(UNION {{x} \X (1..f[x]) : x \in S})

\* The bytes of a set of block directories, with these state files in them.
BytesOf(dirs, s, n) ==
    SumOver([b \in dirs |-> (IF b \in s THEN Tokens[b] ELSE 0)
                            + (IF b \in n THEN BoundaryBytes ELSE 0)], dirs)

\* scan_global_prompt_cache_quota: every owned byte under the root.
DiskBytes == BytesOf(Dirs, seqs, bnds) + SumOver(stale, Model)

\* build_block_subtree_candidates: a directory with every descendant that
\* directories on disk connect to it.
Subtree(root) ==
    {b \in Dirs : root \in Ancestry[b]
                  /\ {a \in Ancestry[b] : root \in Ancestry[a]} \subseteq Dirs}

\* Mutant: a publication does not protect the chain it extends.
AncestryUnprotected(tip) == {}

\* protected_ancestry_directory_paths: from the tip to the root of the
\* chain, as far as the index knows it.
ProtectedAncestry(tip) ==
    {a \in Ancestry[tip] : {c \in Ancestry[tip] : a \in Ancestry[c]} \subseteq tracked}

\* The order of what is left, and the order once a directory is written to.
Without(removed) ==
    LET left == Dirs \ removed
    IN  [b \in left |-> Cardinality({c \in left : written[c] < written[b]})]

Touched(b) ==
    [c \in Dirs \cup {b} |->
        IF c = b THEN Cardinality(Dirs \ {b})
        ELSE Cardinality({d \in Dirs \ {b} : written[d] < written[c]})]

\* The block directories, and what is in them, are removed from the disk.
RemoveDirectories(removed) ==
    /\ written' = Without(removed)
    /\ seqs' = seqs \ removed /\ bnds' = bnds \ removed
    /\ rotten' = {f \in rotten : f[2] \notin removed}

\* Mutant: the boundaries of the removed blocks stay in the index.
UntrackSequencesOnly(removed) ==
    /\ tracked' = tracked \ removed
    /\ trackedSeq' = trackedSeq \ removed /\ UNCHANGED trackedBnd

\* remove_blocks_by_directory_paths
UntrackBlocks(removed) ==
    /\ tracked' = tracked \ removed
    /\ trackedSeq' = trackedSeq \ removed /\ trackedBnd' = trackedBnd \ removed

Init ==
    /\ written = [b \in {} |-> 0] /\ seqs = {} /\ bnds = {} /\ rotten = {}
    /\ stale = [m \in Model |-> 0]
    /\ active = NoModel /\ at = "closed"
    /\ tracked = {} /\ trackedSeq = {} /\ trackedBnd = {}
    /\ total = 0 /\ tx = NoTx /\ outcome = NoOutcome
    /\ faulted = FALSE /\ acked = {} /\ disturbed = 0
-----------------------------------------------------------------------------
(***************************************************************************)
(* open: the startup scan, the abandoned transactions, then the quota.     *)
(***************************************************************************)
\* block_candidate_has_valid_sequence_ancestry, to a fixed point.
SequenceAncestryIsValid(b) ==
    \A a \in Ancestry[b] : a \in seqs /\ <<"sequence", a>> \notin rotten

\* Mutant: the scan rejects the parents whose boundary was compacted.
BoundaryIsRequired(b, candidates) == b \in bnds /\ <<"boundary", b>> \notin rotten

\* block_candidate_has_valid_boundary_topology: only a parent that is not a
\* checkpoint may lack its boundary.
BoundaryTopologyIsValid(b, candidates) ==
    \/ b \in bnds /\ <<"boundary", b>> \notin rotten
    \/ ~IsCheckpoint(b) /\ \E c \in candidates : Parent[c] = b

\* reconcile_block_topology
Reconciled(candidates) ==
    LET whole == {b \in candidates : SequenceAncestryIsValid(b)}
        bounded == {b \in whole : BoundaryTopologyIsValid(b, whole)}
    IN  {b \in bounded : Ancestry[b] \subseteq bounded}

\* scan_current_format_block_directories and
\* remove_unconditionally_reclaimable_startup_artifacts.
OpenScan(m) ==
    /\ at = "closed"
    /\ LET found == {b \in Dirs : ModelOf[b] = m}
           kept == Reconciled(found)
       IN  /\ RemoveDirectories(found \ kept)
           /\ tracked' = kept /\ trackedSeq' = kept
           /\ trackedBnd' = {b \in kept : b \in bnds /\ <<"boundary", b>> \notin rotten}
           /\ tx' = [NoTx EXCEPT !.protected = kept]
           /\ total' = BytesOf(Dirs \ (found \ kept), seqs, bnds)
    /\ stale' = [n \in Model |-> 0]
    /\ active' = m /\ at' = "startupQuota"
    /\ outcome' = NoOutcome
    /\ UNCHANGED histVars

\* Mutant: startup compacts checkpoints too.
CompactableParents == {b \in trackedBnd : \E c \in tracked : Parent[c] = b}

\* compact_active_model_parent_boundaries_for_startup_quota: redundant parent
\* boundaries, oldest first, until the rest fits.
Compactable ==
    {b \in trackedBnd : ~IsCheckpoint(b) /\ \E c \in tracked : Parent[c] = b}

IsOldest(b, candidates) == b \in candidates /\ \A c \in candidates : written[b] <= written[c]

CompactBoundary ==
    /\ at = "compact" /\ total > Maximum
    /\ \E b \in Compactable :
           /\ IsOldest(b, Compactable)
           /\ bnds' = bnds \ {b} /\ trackedBnd' = trackedBnd \ {b}
           /\ written' = Touched(b)
           /\ acked' = acked \ {b}
    /\ total' = total - BoundaryBytes
    /\ UNCHANGED <<seqs, rotten, stale, active, tracked, trackedSeq, at, tx, outcome,
                   faultVars>>

CompactionEnds ==
    /\ at = "compact" /\ (total <= Maximum \/ Compactable = {})
    /\ at' = "retryQuota" /\ total' = DiskBytes
    /\ UNCHANGED <<diskVars, active, indexVars, tx, outcome, histVars>>
-----------------------------------------------------------------------------
(***************************************************************************)
(* publish_block_with_performance_attribution                              *)
(***************************************************************************)
Returns(b, result) ==
    /\ at' = "idle" /\ tx' = NoTx
    /\ outcome' = [block |-> b, result |-> result]

\* History: only what an undisturbed store acknowledges is promised.
Acknowledge(b) == IF faulted THEN {} ELSE {b}

\* validate_existing_block_for_publication: the files the index names open
\* and validate.
ExistingIsValid(b) ==
    /\ b \in trackedSeq => b \in seqs /\ <<"sequence", b>> \notin rotten
    /\ b \in trackedBnd => b \in bnds /\ <<"boundary", b>> \notin rotten

\* The index names the block and its directory is there.
PublishExisting(b) ==
    /\ at = "idle" /\ ModelOf[b] = active
    /\ b \in tracked /\ b \in Dirs
    /\ IF ExistingIsValid(b) /\ b \in trackedSeq /\ b \in trackedBnd
       THEN Returns(b, "AlreadyPublished") /\ acked' = acked \cup Acknowledge(b)
       ELSE /\ ~ExistingIsValid(b) \/ b \notin trackedSeq
            /\ Returns(b, "failed") /\ UNCHANGED acked
    /\ UNCHANGED <<diskVars, active, indexVars, total, faultVars>>

\* parent_boundary_reclaim_after_commit, for the total as it is known.
ParentBoundaryReclaim(b, known) ==
    /\ Parent[b] # NoBlock
    /\ ~IsCheckpoint(Parent[b])
    /\ known + Tokens[b] + BoundaryBytes > Maximum
    /\ Parent[b] \in trackedBnd

Credit(b, known) == IF ParentBoundaryReclaim(b, known) THEN BoundaryBytes ELSE 0

\* The bytes the transaction is about to add.
AddedBytes ==
    IF tx.block = NoBlock THEN 0
    ELSE BoundaryBytes + (IF tx.boundaryOnly THEN 0 ELSE Tokens[tx.block])

\* Starts enforce_global_prompt_cache_quota_for_commit: abandoned staging
\* directories go first, whatever the total.
StartQuota(b, boundaryOnly, credit, protected) ==
    /\ at' = "quota"
    /\ tx' = [block |-> b, boundaryOnly |-> boundaryOnly, credit |-> credit,
              protected |-> protected]
    /\ stale' = [m \in Model |-> 0]
    /\ total' = BytesOf(Dirs, seqs, bnds)
    /\ outcome' = NoOutcome

\* publish_missing_boundary_state_transaction, up to its quota.
PublishBoundary(b) ==
    /\ at = "idle" /\ ModelOf[b] = active
    /\ b \in tracked /\ b \in Dirs
    /\ ExistingIsValid(b) /\ b \in trackedSeq /\ b \notin trackedBnd
    /\ StartQuota(b, TRUE, 0, ProtectedAncestry(b))
    /\ UNCHANGED <<written, seqs, bnds, rotten, active, indexVars, histVars>>

\* publish_new_block_transaction, up to its quota.  An entry whose directory
\* disappeared is discarded first.  The parent must be in the index.
PublishNew(b) ==
    LET known == IF b \in tracked THEN DiskBytes ELSE total
    IN  /\ at = "idle" /\ ModelOf[b] = active
        /\ b \notin tracked \/ b \notin Dirs
        /\ UntrackBlocks({b})
        /\ \/ /\ Parent[b] = NoBlock \/ Parent[b] \in tracked
              /\ Tokens[b] + BoundaryBytes <= Maximum
              /\ StartQuota(b, FALSE, Credit(b, known),
                            {b} \cup (IF Parent[b] = NoBlock THEN {}
                                      ELSE ProtectedAncestry(Parent[b])))
           \* No parent, or the staged files failed and were removed.
           \/ /\ Returns(b, "failed")
              /\ total' = known
              /\ UNCHANGED stale
        /\ UNCHANGED <<written, seqs, bnds, rotten, active, histVars>>
-----------------------------------------------------------------------------
(***************************************************************************)
(* enforce_global_prompt_cache_quota_for_commit_internal, for startup and  *)
(* for a publication.                                                      *)
(***************************************************************************)
Enforcing == at \in {"startupQuota", "retryQuota", "quota"}

\* committed_size_after_addition
Projected == total + AddedBytes - tx.credit

\* contains_protected_block_directory protects the whole candidate.
Evictable == {b \in Dirs : Subtree(b) \cap tx.protected = {}}

\* The blocks that cannot be restored once these are gone.
Descendants(removed) == {b \in Block : Ancestry[b] \cap removed # {}}

Evict ==
    /\ Enforcing /\ Projected > Maximum
    /\ \E root \in Evictable :
           /\ IsOldest(root, Evictable)
           /\ RemoveDirectories(Subtree(root)) /\ UntrackBlocks(Subtree(root))
           /\ total' = total - BytesOf(Subtree(root), seqs, bnds)
           /\ acked' = acked \ Subtree(root)
    /\ UNCHANGED <<stale, active, at, tx, outcome, faultVars>>

\* The process has no store: it never opened, or it ended.
Closed ==
    /\ at' = "closed" /\ active' = NoModel
    /\ tracked' = {} /\ trackedSeq' = {} /\ trackedBnd' = {}
    /\ tx' = NoTx /\ total' = 0 /\ outcome' = NoOutcome

\* remove_global_prompt_cache_eviction_candidate fails between two
\* directories, parents first: the index is not told of those removed.
EvictFails ==
    /\ Enforcing /\ Projected > Maximum
    /\ \E root \in Evictable : \E removed \in SUBSET Subtree(root) :
          /\ IsOldest(root, Evictable)
          /\ \A b \in removed : Ancestry[b] \cap Subtree(root) \subseteq removed
          /\ RemoveDirectories(removed)
          /\ acked' = acked \ Descendants(removed)
    /\ IF at = "quota" THEN Returns(tx.block, "failed") /\ UNCHANGED <<active, indexVars, total>>
       ELSE Closed
    /\ Disturb
    /\ UNCHANGED stale

QuotaFits ==
    /\ Enforcing /\ Projected <= Maximum
    /\ IF at = "quota" THEN at' = "commit" /\ UNCHANGED <<tx, faulted>>
       ELSE at' = "idle" /\ tx' = NoTx /\ faulted' = FALSE
    /\ UNCHANGED <<diskVars, active, indexVars, total, outcome, acked, disturbed>>

\* GlobalPromptCacheQuotaNotSatisfied: a publication removes its staging
\* directory, startup compacts once and then gives up.
QuotaNotSatisfied ==
    /\ Enforcing /\ Projected > Maximum /\ Evictable = {}
    /\ \/ at = "quota" /\ Returns(tx.block, "unsatisfied") /\ UNCHANGED <<active, indexVars, total>>
       \/ at = "startupQuota" /\ at' = "compact" /\ UNCHANGED <<active, indexVars, tx, outcome, total>>
       \/ at = "retryQuota" /\ Closed
    /\ UNCHANGED <<diskVars, histVars>>
-----------------------------------------------------------------------------
(***************************************************************************)
(* The durable commit, and what follows it.                                *)
(***************************************************************************)
\* commit_and_publish_block: the rename makes the staged block visible, the
\* synchronization makes it durable, and only then is it indexed.  The
\* reclaim is decided again, with the total the quota has left.
CommitBlock ==
    LET b == tx.block
    IN  /\ at = "commit" /\ ~tx.boundaryOnly /\ b \notin Dirs
        /\ written' = Touched(b)
        /\ seqs' = seqs \cup {b} /\ bnds' = bnds \cup {b}
        /\ \/ /\ tracked' = tracked \cup {b}
              /\ trackedSeq' = trackedSeq \cup {b} /\ trackedBnd' = trackedBnd \cup {b}
              /\ at' = "reclaim" /\ tx' = [tx EXCEPT !.credit = Credit(b, total)]
              /\ UNCHANGED <<outcome, faultVars>>
           \* synchronize_directory fails after the rename.
           \/ Returns(b, "failed") /\ Disturb /\ UNCHANGED indexVars
        /\ UNCHANGED <<rotten, stale, active, total, acked>>

\* The rename fails, or the final directory exists already: the staging
\* directory is removed.
CommitFails ==
    /\ at = "commit"
    /\ Returns(tx.block, "failed")
    /\ UNCHANGED <<diskVars, active, indexVars, total, histVars>>

\* publish_missing_boundary_state_transaction from its rename on.
CommitBoundary ==
    LET b == tx.block
    IN  /\ at = "commit" /\ tx.boundaryOnly
        /\ bnds' = bnds \cup {b} /\ written' = Touched(b)
        /\ rotten' = rotten \ {<<"boundary", b>>}
        /\ \/ /\ trackedBnd' = trackedBnd \cup {b}
              /\ Returns(b, "Published") /\ acked' = acked \cup Acknowledge(b)
              /\ total' = BytesOf(Dirs, seqs, bnds')
              /\ UNCHANGED faultVars
           \/ Returns(b, "failed") /\ Disturb /\ UNCHANGED <<trackedBnd, acked, total>>
        /\ UNCHANGED <<seqs, stale, active, tracked, trackedSeq>>

\* Mutant: the parent's boundary leaves the index and stays on disk.
ForgetParentBoundary ==
    /\ at = "reclaim" /\ tx.credit > 0
    /\ trackedBnd' = trackedBnd \ {Parent[tx.block]}
    /\ acked' = acked \ {Parent[tx.block]}
    /\ total' = DiskBytes /\ at' = "supersede"
    /\ UNCHANGED <<diskVars, active, tracked, trackedSeq, tx, outcome, faultVars>>

\* publish_new_block_transaction removes the parent's boundary once the
\* child is durable.
ReclaimParentBoundary ==
    LET p == Parent[tx.block]
    IN  /\ at = "reclaim" /\ tx.credit > 0
        /\ \/ /\ p \in Dirs
              /\ bnds' = bnds \ {p} /\ trackedBnd' = trackedBnd \ {p}
              /\ written' = Touched(p) /\ rotten' = rotten \ {<<"boundary", p>>}
              /\ total' = BytesOf(Dirs, seqs, bnds')
              /\ acked' = acked \ {p}
              /\ at' = "supersede" /\ UNCHANGED <<tx, outcome, faultVars>>
           \* The removal fails, or the synchronization after it, as it does
           \* where an earlier failure took the whole directory.
           \/ /\ Returns(tx.block, "failed")
              /\ IF p \in Dirs THEN Disturb ELSE UNCHANGED faultVars
              /\ bnds' \in {bnds, bnds \ {p}} /\ acked' = acked \ {p}
              /\ UNCHANGED <<written, rotten, trackedBnd, total>>
        /\ UNCHANGED <<seqs, stale, active, tracked, trackedSeq>>

NothingToReclaim ==
    /\ at = "reclaim" /\ tx.credit = 0
    /\ at' = "supersede" /\ total' = DiskBytes
    /\ UNCHANGED <<diskVars, active, indexVars, tx, outcome, histVars>>

\* supersede_shorter_partial_tail_siblings
ShorterSiblings(b) ==
    {c \in trackedSeq : /\ Partial(b) /\ c # b
                        /\ BlockIndex[c] = BlockIndex[b] /\ Parent[c] = Parent[b]
                        /\ Tokens[c] < Tokens[b]}

Supersede ==
    LET b == tx.block
        shorter == ShorterSiblings(b)
    IN  /\ at = "supersede"
        /\ \/ /\ RemoveDirectories(shorter) /\ UntrackBlocks(shorter)
              /\ total' = BytesOf(Dirs \ shorter, seqs, bnds)
              /\ Returns(b, "Published")
              /\ acked' = (acked \ shorter) \cup Acknowledge(b)
              /\ UNCHANGED faultVars
           \* A removal fails: the index still names those already removed.
           \/ \E removed \in SUBSET shorter :
                 /\ removed # shorter
                 /\ RemoveDirectories(removed)
                 /\ Returns(b, "failed") /\ Disturb
                 /\ acked' = acked \ removed
                 /\ UNCHANGED <<indexVars, total>>
        /\ UNCHANGED <<stale, active>>
-----------------------------------------------------------------------------
(***************************************************************************)
(* Reads, clearing, crashes and outsiders.                                 *)
(***************************************************************************)
\* load_file_kind and tracked_file_still_exists: a file that is gone is
\* untracked, one that does not validate is removed and untracked.  The
\* directory and the block's entry stay.
LoadBadFile(b) ==
    /\ at = "idle"
    /\ \/ /\ b \in trackedSeq /\ (b \notin seqs \/ <<"sequence", b>> \in rotten)
          /\ trackedSeq' = trackedSeq \ {b} /\ seqs' = seqs \ {b}
          /\ rotten' = rotten \ {<<"sequence", b>>}
          /\ written' = IF b \in seqs THEN Touched(b) ELSE written
          /\ total' = IF total > Tokens[b] THEN total - Tokens[b] ELSE 0
          /\ UNCHANGED <<bnds, trackedBnd>>
       \/ /\ b \in trackedBnd /\ (b \notin bnds \/ <<"boundary", b>> \in rotten)
          /\ trackedBnd' = trackedBnd \ {b} /\ bnds' = bnds \ {b}
          /\ rotten' = rotten \ {<<"boundary", b>>}
          /\ written' = IF b \in bnds THEN Touched(b) ELSE written
          /\ total' = IF total > BoundaryBytes THEN total - BoundaryBytes ELSE 0
          /\ UNCHANGED <<seqs, trackedSeq>>
    /\ UNCHANGED <<stale, active, tracked, at, tx, outcome, histVars>>

\* clear_prompt_cache of one model or of all; a removal may fail half way,
\* before the index is reset.
Clear(cleared) ==
    /\ at = "idle"
    /\ LET target == {b \in Dirs : ModelOf[b] \in cleared}
       IN  \/ /\ RemoveDirectories(target)
              /\ stale' = [m \in Model |-> IF m \in cleared THEN 0 ELSE stale[m]]
              /\ IF active \in cleared THEN UntrackBlocks(tracked) ELSE UNCHANGED indexVars
              /\ total' = BytesOf(Dirs \ target, seqs, bnds)
                          + SumOver(stale, Model \ cleared)
              /\ acked' = acked \ target
              /\ UNCHANGED faultVars
           \/ \E removed \in SUBSET target :
                 /\ removed # target
                 /\ RemoveDirectories(removed)
                 /\ acked' = acked \ Descendants(removed)
                 /\ Disturb
                 /\ UNCHANGED <<stale, indexVars, total>>
    /\ outcome' = NoOutcome
    /\ UNCHANGED <<active, at, tx>>

\* The process ends, at any point: only what is on disk is left, and the
\* staging directory of its publication is abandoned.
Crash ==
    /\ at # "closed"
    /\ stale' = IF at \in {"quota", "commit"} THEN [stale EXCEPT ![active] = @ + AddedBytes]
                ELSE stale
    /\ Closed
    /\ UNCHANGED <<written, seqs, bnds, rotten, histVars>>

\* Another worker process on the same root evicts a subtree, or a user
\* removes it.
OutsiderRemoves(b) ==
    /\ at \in {"idle", "closed"} /\ b \in Dirs
    /\ RemoveDirectories(Subtree(b))
    /\ acked' = acked \ Descendants({b})
    /\ Disturb
    /\ UNCHANGED <<stale, active, indexVars, total, at, tx, outcome>>

\* A state file vanishes or rots.
OutsiderSpoils(b) ==
    /\ at \in {"idle", "closed"}
    /\ \/ b \in seqs /\ seqs' = seqs \ {b} /\ UNCHANGED <<bnds, rotten>>
       \/ b \in bnds /\ bnds' = bnds \ {b} /\ UNCHANGED <<seqs, rotten>>
       \/ b \in seqs /\ rotten' = rotten \cup {<<"sequence", b>>} /\ UNCHANGED <<seqs, bnds>>
       \/ b \in bnds /\ rotten' = rotten \cup {<<"boundary", b>>} /\ UNCHANGED <<seqs, bnds>>
    /\ acked' = acked \ Descendants({b})
    /\ Disturb
    /\ UNCHANGED <<written, stale, active, indexVars, total, at, tx, outcome>>
-----------------------------------------------------------------------------
Publish(b) == PublishExisting(b) \/ PublishBoundary(b) \/ PublishNew(b)
Quota == Evict \/ EvictFails \/ QuotaFits \/ QuotaNotSatisfied
Commit == CommitBlock \/ CommitBoundary \/ CommitFails
Retain == ReclaimParentBoundary \/ NothingToReclaim \/ Supersede
Startup == CompactBoundary \/ CompactionEnds \/ \E m \in Model : OpenScan(m)
Outsider(b) == OutsiderRemoves(b) \/ OutsiderSpoils(b)

Next ==
    \/ Startup \/ Quota \/ Commit \/ Retain \/ Crash
    \/ \E b \in Block : Publish(b) \/ LoadBadFile(b) \/ Outsider(b)
    \/ \E cleared \in {{m} : m \in Model} \cup {Model} : Clear(cleared)

Spec == Init /\ [][Next]_vars
-----------------------------------------------------------------------------
(***************************************************************************)
(* PersistentPromptCachePrefixLookup                                       *)
(***************************************************************************)
HasSequence(b) == b \in trackedSeq /\ b \in seqs
HasBoundary(b) == b \in trackedBnd /\ b \in bnds

\* matched_sequence_state_block_keys: the chain up to the first gap.
Matched(tip) == {a \in Ancestry[tip] : \A c \in Ancestry[a] : HasSequence(c)}

\* newest_restorable_boundary_entry
NewestBoundary(tip) ==
    LET restorable == {a \in Matched(tip) : HasBoundary(a)}
    IN  IF restorable = {} THEN NoBlock
        ELSE CHOOSE a \in restorable : \A c \in restorable : BlockIndex[c] <= BlockIndex[a]

\* probe_restorable_partial_tail_block, after a chain that matched whole.
TailIsProbed(b) ==
    /\ Parent[b] = NoBlock \/ NewestBoundary(Parent[b]) = Parent[b]
    /\ HasSequence(b) /\ HasBoundary(b)

\* The last block a lookup restores for the prompt that ends in this block
\* and one token more.
LastRestored(b) ==
    IF ~Partial(b) THEN NewestBoundary(b)
    ELSE IF TailIsProbed(b) THEN b
    ELSE IF Parent[b] = NoBlock THEN NoBlock ELSE NewestBoundary(Parent[b])
-----------------------------------------------------------------------------
(***************************************************************************)
(* Every block of the index is on disk with its sequence state, and so is  *)
(* the whole chain below it: neither eviction, nor a publication that      *)
(* fails, nor a crash at any of their steps leaves a block without its     *)
(* parent.  Not after a failed file operation or outside interference,     *)
(* until the store is opened again.                                        *)
(***************************************************************************)
ChainsAreComplete ==
    at # "closed" /\ ~faulted =>
        \A b \in tracked : b \in seqs /\ b \in trackedSeq
                           /\ (Parent[b] # NoBlock => Parent[b] \in tracked)

(***************************************************************************)
(* Between operations the bytes on disk, of all models, are within the     *)
(* quota: the bytes a publication was credited for its parent's boundary   *)
(* are really given back, and a crash before that is repaired by open.     *)
(***************************************************************************)
QuotaIsKept ==
    at = "idle" /\ ~faulted => DiskBytes <= Maximum

(***************************************************************************)
(* A lookup of any indexed full block restores at least the deepest        *)
(* common-prefix checkpoint of its chain, however boundaries were          *)
(* compacted, evicted and published again.                                 *)
(***************************************************************************)
RestartPointsAreKept ==
    at = "idle" /\ ~faulted =>
        \A b \in tracked : \A a \in Ancestry[b] :
            ~Partial(b) /\ IsCheckpoint(a) =>
                NewestBoundary(b) # NoBlock /\ BlockIndex[NewestBoundary(b)] >= BlockIndex[a]

(***************************************************************************)
(* A full block whose publication was acknowledged is restored whole by a  *)
(* lookup until it is evicted, superseded, cleared or compacted: across    *)
(* crashes, restarts and publications of other blocks.                     *)
(***************************************************************************)
AcknowledgedIsRestorable ==
    at = "idle" /\ ~faulted =>
        \A b \in acked : ModelOf[b] = active /\ ~Partial(b) => LastRestored(b) = b

(***************************************************************************)
(* A partial tail that was just published is restored by the lookup of     *)
(* the prompt it belongs to, which is what it is persisted for.            *)
(***************************************************************************)
PublishedTailIsRestorable ==
    outcome.result = "Published" /\ ~faulted /\ Partial(outcome.block) =>
        LastRestored(outcome.block) = outcome.block
=============================================================================
