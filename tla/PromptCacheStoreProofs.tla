----------------------- MODULE PromptCacheStoreProofs -----------------------
(***************************************************************************)
(* For any tree of blocks, any quota and any number of disturbances: the   *)
(* chains of the index are complete, a lookup restores the deepest         *)
(* checkpoint of a chain, and a full block whose publication was           *)
(* acknowledged is restored whole, across crashes and restarts; and the    *)
(* bytes on disk stay within the quota.                                    *)
(*                                                                         *)
(* The properties speak of a store nothing has disturbed.  They are kept   *)
(* together by two facts that hold at every step: the index agrees with    *)
(* the disk while it can be trusted, and what was acknowledged is on disk  *)
(* in a form that the startup scan accepts, whatever happened to the rest. *)
(*                                                                         *)
(* The quota needs a ledger beside them: while it is enforced the total is *)
(* the bytes on disk, and a credit stands for a boundary that is there.    *)
(***************************************************************************)
EXTENDS PromptCacheStore, TLAPS, WellFoundedInduction, FiniteSetTheorems

GoodSeqs == {b \in seqs : <<"sequence", b>> \notin rotten}
GoodBnds == {b \in bnds : <<"boundary", b>> \notin rotten}

\* The index mirrors the disk: from the scan of open until a disturbance.
Trusted == at # "closed" /\ (~faulted \/ at \in {"startupQuota", "compact", "retryQuota"})

\* A publication of a block, as opposed to that of its missing boundary.
Adding == at \in {"quota", "commit"} /\ ~tx.boundaryOnly

\* What the index and the transaction may hold.
Shape ==
    /\ Dirs \subseteq Block
    /\ seqs \subseteq Dirs /\ bnds \subseteq Dirs
    /\ rotten \subseteq {"sequence", "boundary"} \X Dirs
    /\ tracked \subseteq {b \in Block : ModelOf[b] = active}
    /\ trackedSeq \subseteq tracked /\ trackedBnd \subseteq tracked
    /\ acked \subseteq Block
    /\ faulted \in BOOLEAN
    /\ at \in Phases
    /\ tx \in [block : Block \cup {NoBlock}, boundaryOnly : BOOLEAN,
               credit : {0, BoundaryBytes}, protected : SUBSET Block]
    /\ at \in {"quota", "commit", "reclaim", "supersede"} =>
          tx.block \in Block /\ ModelOf[tx.block] = active

\* A block being published still has what it needs of the index: quota cannot
\* evict what the transaction protects.
TransactionIsAnchored ==
    /\ at \in {"quota", "commit"} /\ tx.boundaryOnly =>
          tx.block \in tracked /\ tx.block \in tx.protected
    /\ Trusted /\ Adding /\ Parent[tx.block] # NoBlock =>
          Parent[tx.block] \in tracked /\ Parent[tx.block] \in tx.protected
    /\ Trusted /\ at \in {"reclaim", "supersede"} => tx.block \in trackedBnd
    /\ at = "reclaim" /\ tx.credit > 0 =>
          Parent[tx.block] # NoBlock /\ ~IsCheckpoint(Parent[tx.block])

\* A trusted index names valid files, whole chains and every checkpoint.
IndexIsSound ==
    Trusted =>
        /\ tracked \subseteq trackedSeq /\ tracked \subseteq GoodSeqs
        /\ HoldsParents(tracked)
        /\ trackedBnd \subseteq GoodBnds
        /\ \A b \in tracked : b \in trackedBnd \/ ~IsCheckpoint(b)

\* What was acknowledged is on disk with its whole chain, and the chain is
\* one that reconcile_block_topology accepts.
AckedIsDurable ==
    \A b \in acked :
        /\ b \in GoodBnds
        /\ \A a \in Ancestry[b] : a \in GoodSeqs /\ (a \in GoodBnds \/ ~IsCheckpoint(a))

AckedIsIndexed == Trusted => \A b \in acked : ModelOf[b] = active => b \in trackedBnd

IInv ==
    /\ Shape
    /\ TransactionIsAnchored
    /\ IndexIsSound
    /\ AckedIsDurable
    /\ AckedIsIndexed

-----------------------------------------------------------------------------
(* Chains *)

(***************************************************************************)
(* The chain of a block holds the block, with every block its parent, and  *)
(* only blocks; a set that holds the block and, with every block, its      *)
(* parent, holds the chain.                                                *)
(***************************************************************************)
LEMMA Chain ==
    ASSUME NEW b \in Block
    PROVE  /\ b \in Ancestry[b] /\ Ancestry[b] \subseteq Block
           /\ HoldsParents(Ancestry[b])
           /\ Parent[b] # NoBlock => Parent[b] \in Ancestry[b]
           /\ \A blocks \in SUBSET Block :
                 b \in blocks /\ HoldsParents(blocks) => Ancestry[b] \subseteq blocks
<1> USE BlocksAssumption
<1>1. Ancestry[b] = {a \in Block :
        \A blocks \in SUBSET Block : b \in blocks /\ HoldsParents(blocks) => a \in blocks}
  BY DEF Ancestry
<1>2. b \in Ancestry[b] /\ Ancestry[b] \subseteq Block
  BY <1>1
<1>3. ASSUME NEW a \in Ancestry[b], Parent[a] # NoBlock
      PROVE  Parent[a] \in Ancestry[b]
  <2>1. a \in Block /\ Parent[a] \in Block
    BY <1>2, <1>3
  <2>2. ASSUME NEW blocks \in SUBSET Block, b \in blocks, HoldsParents(blocks)
        PROVE  Parent[a] \in blocks
    BY <1>1, <1>3, <2>2 DEF HoldsParents
  <2> QED
    BY <1>1, <2>1, <2>2
<1>4. HoldsParents(Ancestry[b])
  BY <1>3 DEF HoldsParents
<1>5. \A blocks \in SUBSET Block :
         b \in blocks /\ HoldsParents(blocks) => Ancestry[b] \subseteq blocks
  BY <1>1
<1> QED
  BY <1>2, <1>3, <1>4, <1>5

(***************************************************************************)
(* The chain of a block of a chain is part of the chain.                   *)
(***************************************************************************)
LEMMA ChainOfChain ==
    ASSUME NEW b \in Block, NEW a \in Ancestry[b]
    PROVE  a \in Block /\ Ancestry[a] \subseteq Ancestry[b]
<1>1. a \in Block /\ Ancestry[b] \in SUBSET Block /\ HoldsParents(Ancestry[b])
  BY Chain
<1> QED
  BY <1>1, Chain

(***************************************************************************)
(* A chain descends: its other blocks are nearer to the root, belong to    *)
(* the same model, and have a child in the chain, so none is partial.      *)
(***************************************************************************)
LEMMA ChainDescends ==
    ASSUME NEW b \in Block, NEW a \in Ancestry[b]
    PROVE  /\ ModelOf[a] = ModelOf[b]
           /\ a # b => /\ BlockIndex[a] < BlockIndex[b]
                       /\ ~Partial(a)
                       /\ \E c \in Ancestry[b] : Parent[c] = a
<1> DEFINE below == {c \in Block : BlockIndex[c] < BlockIndex[b] \/ c = b}
           same == {c \in Block : ModelOf[c] = ModelOf[b]}
           onPath == {c \in Block : c = b \/ \E d \in Ancestry[b] : Parent[d] = c}
           path == onPath \cap Ancestry[b]
<1>1. HoldsParents(below) /\ b \in below /\ below \in SUBSET Block
  BY BlocksAssumption DEF HoldsParents
<1>2. HoldsParents(same) /\ b \in same /\ same \in SUBSET Block
  BY BlocksAssumption DEF HoldsParents
<1>3. HoldsParents(path) /\ b \in path /\ path \in SUBSET Block
  BY Chain, BlocksAssumption DEF HoldsParents
<1>4. a \in below /\ a \in same /\ a \in path
  BY <1>1, <1>2, <1>3, Chain
<1>5. a # b => \E c \in Ancestry[b] : c \in Block /\ Parent[c] = a
  BY <1>4, Chain
<1>6. a # b => ~Partial(a)
  BY <1>5, <1>4, BlocksAssumption
<1> QED
  BY <1>4, <1>5, <1>6

(***************************************************************************)
(* A chain that lies on disk is either removed with a subtree as far as    *)
(* its tip, or not touched by it (build_block_subtree_candidates).         *)
(***************************************************************************)
LEMMA SubtreesTakeTips ==
    ASSUME NEW b \in Block, Ancestry[b] \subseteq Dirs, NEW root, b \notin Subtree(root)
    PROVE  Ancestry[b] \cap Subtree(root) = {}
<1> SUFFICES ASSUME NEW a \in Ancestry[b], a \in Subtree(root) PROVE FALSE
  OBVIOUS
<1>1. root \in Ancestry[a] BY DEF Subtree
<1>2. root \in Ancestry[b] BY <1>1, ChainOfChain
<1>3. b \in Dirs BY Chain
<1> QED BY <1>2, <1>3 DEF Subtree

-----------------------------------------------------------------------------
(* What the file operations do *)

(***************************************************************************)
(* Removed directories leave with their files, and nothing else changes.   *)
(***************************************************************************)
LEMMA Removal ==
    ASSUME Shape, NEW removed, RemoveDirectories(removed)
    PROVE  /\ Dirs' = Dirs \ removed
           /\ seqs' \subseteq Dirs' /\ bnds' \subseteq Dirs'
           /\ rotten' \subseteq {"sequence", "boundary"} \X Dirs'
           /\ GoodSeqs' = GoodSeqs \ removed /\ GoodBnds' = GoodBnds \ removed
<1>1. Dirs' = Dirs \ removed
  BY DEF RemoveDirectories, Without, Dirs
<1>2. seqs' \subseteq Dirs' /\ bnds' \subseteq Dirs'
  BY <1>1 DEF RemoveDirectories, Shape
<1>3. rotten' \subseteq {"sequence", "boundary"} \X Dirs'
  BY <1>1 DEF RemoveDirectories, Shape
<1>4. \A b : <<"sequence", b>> \in rotten' <=> <<"sequence", b>> \in rotten /\ b \notin removed
  BY DEF RemoveDirectories
<1>5. \A b : <<"boundary", b>> \in rotten' <=> <<"boundary", b>> \in rotten /\ b \notin removed
  BY DEF RemoveDirectories
<1>6. seqs' = seqs \ removed /\ bnds' = bnds \ removed
  BY DEF RemoveDirectories
<1>7. GoodSeqs' = GoodSeqs \ removed
  BY <1>4, <1>6 DEF GoodSeqs
<1>8. GoodBnds' = GoodBnds \ removed
  BY <1>5, <1>6 DEF GoodBnds
<1> QED
  BY <1>1, <1>2, <1>3, <1>7, <1>8

(***************************************************************************)
(* A directory that is written to is on disk.                              *)
(***************************************************************************)
LEMMA Writing ==
    ASSUME NEW b, written' = Touched(b)
    PROVE  Dirs' = Dirs \cup {b}
BY DEF Touched, Dirs

(***************************************************************************)
(* What was acknowledged survives a removal that stays clear of its chain. *)
(***************************************************************************)
LEMMA DurableUnderRemoval ==
    ASSUME Shape, AckedIsDurable, NEW removed, RemoveDirectories(removed),
           acked' \subseteq acked, \A b \in acked' : Ancestry[b] \cap removed = {}
    PROVE  AckedIsDurable'
<1> SUFFICES ASSUME NEW b \in acked'
             PROVE  /\ b \in GoodBnds'
                    /\ \A a \in Ancestry[b] : a \in GoodSeqs' /\ (a \in GoodBnds' \/ ~IsCheckpoint(a))
  BY DEF AckedIsDurable
<1>1. b \in acked /\ b \in Block
  BY DEF Shape
<1>2. b \in Ancestry[b]
  BY <1>1, Chain
<1> QED
  BY <1>1, <1>2, Removal DEF AckedIsDurable

(***************************************************************************)
(* In a trusted index a block comes with its whole chain, and the chain is *)
(* on disk.                                                                *)
(***************************************************************************)
LEMMA IndexedChain ==
    ASSUME Shape, IndexIsSound, Trusted, NEW b \in tracked
    PROVE  Ancestry[b] \subseteq tracked /\ Ancestry[b] \subseteq Dirs
<1>1. b \in Block /\ tracked \in SUBSET Block /\ HoldsParents(tracked)
  BY DEF Shape, IndexIsSound
<1>2. Ancestry[b] \subseteq tracked
  BY <1>1, Chain
<1> QED
  BY <1>2 DEF Shape, IndexIsSound, GoodSeqs

(***************************************************************************)
(* A block is acknowledged by a trusted index only, with its boundary in   *)
(* it: then it is as durable as any that was acknowledged before.          *)
(***************************************************************************)
LEMMA IndexedIsDurable ==
    ASSUME Shape, IndexIsSound, Trusted, NEW b \in trackedBnd
    PROVE  /\ b \in GoodBnds
           /\ \A a \in Ancestry[b] : a \in GoodSeqs /\ (a \in GoodBnds \/ ~IsCheckpoint(a))
<1>1. b \in tracked
  BY DEF Shape
<1> QED
  BY <1>1, IndexedChain DEF IndexIsSound

-----------------------------------------------------------------------------
(* open *)

(***************************************************************************)
(* What the scan keeps is whole: its sequence states are valid, and so is  *)
(* every boundary a checkpoint needs, down to the root.                    *)
(***************************************************************************)
LEMMA KeptIsWhole ==
    ASSUME NEW found \in SUBSET Block
    PROVE  /\ Reconciled(found) \subseteq found /\ Reconciled(found) \subseteq GoodSeqs
           /\ HoldsParents(Reconciled(found))
           /\ \A b \in Reconciled(found) : b \in GoodBnds \/ ~IsCheckpoint(b)
<1> DEFINE whole == {b \in found : SequenceAncestryIsValid(b)}
           bounded == {b \in whole : BoundaryTopologyIsValid(b, whole)}
<1>1. Reconciled(found) = {b \in bounded : Ancestry[b] \subseteq bounded}
  BY DEF Reconciled
<1>2. bounded \subseteq found
  OBVIOUS
<1>3. Reconciled(found) \subseteq GoodSeqs
  BY <1>1, <1>2, Chain DEF SequenceAncestryIsValid, GoodSeqs
<1>4. \A b \in Reconciled(found) : b \in GoodBnds \/ ~IsCheckpoint(b)
  BY <1>1 DEF BoundaryTopologyIsValid, GoodBnds
<1>5. ASSUME NEW b \in Reconciled(found), Parent[b] # NoBlock
      PROVE  Parent[b] \in Reconciled(found)
  <2>1. b \in Block /\ Ancestry[b] \subseteq bounded
    BY <1>1, <1>2
  <2>2. Parent[b] \in Ancestry[b]
    BY <1>5, <2>1, Chain
  <2>3. Ancestry[Parent[b]] \subseteq Ancestry[b]
    BY <2>1, <2>2, ChainOfChain
  <2> QED
    BY <1>1, <2>1, <2>2, <2>3
<1>6. HoldsParents(Reconciled(found))
  BY <1>5 DEF HoldsParents
<1> QED
  BY <1>1, <1>2, <1>3, <1>4, <1>6

(***************************************************************************)
(* The scan keeps every acknowledged block of its model, with its chain.   *)
(***************************************************************************)
LEMMA AckedIsKept ==
    ASSUME Shape, AckedIsDurable, NEW m, NEW b \in acked, ModelOf[b] = m
    PROVE  Ancestry[b] \subseteq Reconciled({d \in Dirs : ModelOf[d] = m})
<1> DEFINE found == {d \in Dirs : ModelOf[d] = m}
           whole == {d \in found : SequenceAncestryIsValid(d)}
           bounded == {d \in whole : BoundaryTopologyIsValid(d, whole)}
<1>1. b \in Block
  BY DEF Shape
<1>2. ASSUME NEW a \in Ancestry[b] PROVE a \in whole
  <2>1. a \in Block /\ Ancestry[a] \subseteq Ancestry[b] /\ ModelOf[a] = m
    BY <1>1, ChainOfChain, ChainDescends
  <2>2. a \in Dirs
    BY <1>1 DEF AckedIsDurable, GoodSeqs, Shape
  <2>3. SequenceAncestryIsValid(a)
    BY <2>1 DEF SequenceAncestryIsValid, AckedIsDurable, GoodSeqs
  <2> QED
    BY <2>1, <2>2, <2>3
<1>3. ASSUME NEW a \in Ancestry[b] PROVE a \in bounded
  <2>1. CASE a \in GoodBnds
    BY <1>2, <2>1 DEF BoundaryTopologyIsValid, GoodBnds
  <2>2. CASE a \notin GoodBnds
    <3>1. a # b /\ ~IsCheckpoint(a)
      BY <2>2 DEF AckedIsDurable
    <3>2. PICK c \in Ancestry[b] : Parent[c] = a
      BY <3>1, <1>1, ChainDescends
    <3> QED
      BY <1>2, <3>1, <3>2 DEF BoundaryTopologyIsValid
  <2> QED
    BY <2>1, <2>2
<1>4. Reconciled(found) = {d \in bounded : Ancestry[d] \subseteq bounded}
  BY DEF Reconciled
<1>5. ASSUME NEW a \in Ancestry[b] PROVE a \in Reconciled(found)
  BY <1>1, <1>3, <1>4, ChainOfChain
<1> QED
  BY <1>5

(***************************************************************************)
(* The scan makes the index sound, and keeps what was acknowledged.        *)
(***************************************************************************)
LEMMA OpenScanKeeps ==
    ASSUME IInv, NEW m \in Model, OpenScan(m)
    PROVE  IInv'
<1> DEFINE found == {b \in Dirs : ModelOf[b] = m}
           kept == Reconciled(found)
<1> USE DEF IInv
<1>1. RemoveDirectories(found \ kept) /\ tracked' = kept /\ trackedSeq' = kept
      /\ trackedBnd' = {b \in kept : b \in GoodBnds}
      /\ tx' = [NoTx EXCEPT !.protected = kept] /\ active' = m /\ at' = "startupQuota"
      /\ faulted' = faulted /\ acked' = acked
  BY DEF OpenScan, histVars, faultVars, GoodBnds
<1>2. kept \subseteq found /\ kept \subseteq GoodSeqs /\ HoldsParents(kept)
      /\ \A b \in kept : b \in GoodBnds \/ ~IsCheckpoint(b)
  <2>1. found \in SUBSET Block
    BY DEF Shape
  <2> QED
    BY <2>1, KeptIsWhole
<1>3. Shape'
  BY <1>1, <1>2, Removal, ZenonT(40) DEF Shape, Phases, NoTx
<1>4. TransactionIsAnchored'
  BY <1>1 DEF TransactionIsAnchored, Trusted, Adding
<1>5. IndexIsSound'
  BY <1>1, <1>2, Removal DEF IndexIsSound
<1>6. ASSUME NEW b \in acked PROVE Ancestry[b] \cap (found \ kept) = {}
  <2>1. CASE ModelOf[b] = m
    BY <2>1, AckedIsKept
  <2>2. CASE ModelOf[b] # m
    BY <2>2, ChainDescends DEF Shape
  <2> QED
    BY <2>1, <2>2
<1>7. AckedIsDurable'
  BY <1>1, <1>6, DurableUnderRemoval
<1>8. AckedIsIndexed'
  <2> SUFFICES ASSUME NEW b \in acked, ModelOf[b] = m PROVE b \in trackedBnd'
    BY <1>1 DEF AckedIsIndexed
  <2>1. b \in kept
    BY AckedIsKept, Chain DEF Shape
  <2> QED
    BY <1>1, <2>1 DEF AckedIsDurable
<1> QED
  BY <1>3, <1>4, <1>5, <1>7, <1>8

(***************************************************************************)
(* Only a boundary that is no checkpoint is compacted, and it is no longer *)
(* promised.                                                               *)
(***************************************************************************)
LEMMA CompactBoundaryKeeps ==
    ASSUME IInv, CompactBoundary
    PROVE  IInv'
<1> USE DEF IInv
<1>1. PICK b \in Compactable :
         /\ bnds' = bnds \ {b} /\ trackedBnd' = trackedBnd \ {b}
         /\ written' = Touched(b) /\ acked' = acked \ {b}
  BY DEF CompactBoundary
<1>2. /\ at = "compact" /\ at' = at /\ faulted' = faulted /\ tx' = tx
      /\ seqs' = seqs /\ rotten' = rotten /\ active' = active
      /\ tracked' = tracked /\ trackedSeq' = trackedSeq
  BY DEF CompactBoundary, faultVars
<1>3. b \in trackedBnd /\ ~IsCheckpoint(b) /\ b \in Dirs
  BY <1>2 DEF Compactable, IndexIsSound, Trusted, GoodBnds, Shape
<1>4. Dirs' = Dirs
  BY <1>1, <1>3, Writing
<1>5. GoodSeqs' = GoodSeqs /\ GoodBnds' = GoodBnds \ {b}
  BY <1>1, <1>2 DEF GoodSeqs, GoodBnds
<1>6. Shape'
  BY <1>1, <1>2, <1>4 DEF Shape
<1>7. TransactionIsAnchored'
  BY <1>2 DEF TransactionIsAnchored, Adding
<1>8. IndexIsSound'
  BY <1>1, <1>2, <1>3, <1>5 DEF IndexIsSound, Trusted
<1>9. AckedIsDurable'
  BY <1>1, <1>3, <1>5 DEF AckedIsDurable
<1>10. AckedIsIndexed'
  BY <1>1, <1>2 DEF AckedIsIndexed, Trusted
<1> QED
  BY <1>6, <1>7, <1>8, <1>9, <1>10

\* The end of the compaction only moves on to the second enforcement.
LEMMA CompactionEndsKeeps ==
    ASSUME IInv, CompactionEnds
    PROVE  IInv'
<1> USE DEF IInv
<1>1. /\ at = "compact" /\ at' = "retryQuota"
      /\ written' = written /\ seqs' = seqs /\ bnds' = bnds /\ rotten' = rotten
      /\ active' = active /\ tracked' = tracked /\ trackedSeq' = trackedSeq
      /\ trackedBnd' = trackedBnd /\ tx' = tx /\ faulted' = faulted /\ acked' = acked
  BY DEF CompactionEnds, diskVars, indexVars, histVars, faultVars
<1>2. Dirs' = Dirs /\ GoodSeqs' = GoodSeqs /\ GoodBnds' = GoodBnds /\ Trusted /\ Trusted'
  BY <1>1 DEF Dirs, GoodSeqs, GoodBnds, Trusted
<1>3. Shape'
  BY <1>1, <1>2 DEF Shape, Phases
<1>4. TransactionIsAnchored'
  BY <1>1 DEF TransactionIsAnchored, Adding
<1>5. IndexIsSound' /\ AckedIsDurable' /\ AckedIsIndexed'
  BY <1>1, <1>2 DEF IndexIsSound, AckedIsDurable, AckedIsIndexed
<1> QED
  BY <1>3, <1>4, <1>5

-----------------------------------------------------------------------------
(* Publication and quota *)

(***************************************************************************)
(* A step that leaves the files, the index and the promises alone keeps    *)
(* what is known of them, unless it starts to trust the index.             *)
(***************************************************************************)
LEMMA QuietStep ==
    ASSUME IInv, UNCHANGED <<written, seqs, bnds, rotten, active, tracked, trackedSeq,
                             trackedBnd, acked>>,
           Trusted' => Trusted
    PROVE  /\ Dirs' = Dirs /\ IndexIsSound' /\ AckedIsDurable' /\ AckedIsIndexed'
           /\ (faulted' \in BOOLEAN /\ at' \in Phases
               /\ tx' \in [block : Block \cup {NoBlock}, boundaryOnly : BOOLEAN,
                           credit : {0, BoundaryBytes}, protected : SUBSET Block]
               /\ (at' \in {"quota", "commit", "reclaim", "supersede"} =>
                     tx'.block \in Block /\ ModelOf[tx'.block] = active)) => Shape'
<1> USE DEF IInv
<1>1. Dirs' = Dirs /\ GoodSeqs' = GoodSeqs /\ GoodBnds' = GoodBnds
  BY DEF Dirs, GoodSeqs, GoodBnds
<1>2. IndexIsSound' /\ AckedIsDurable' /\ AckedIsIndexed'
  BY <1>1 DEF IndexIsSound, AckedIsDurable, AckedIsIndexed
<1> QED
  BY <1>1, <1>2 DEF Shape

(***************************************************************************)
(* A publication that returns leaves an idle store, and its transaction is *)
(* over.                                                                   *)
(***************************************************************************)
LEMMA Returned ==
    ASSUME NEW b, NEW result, Returns(b, result)
    PROVE  /\ at' = "idle" /\ at' \in Phases
           /\ tx' \in [block : Block \cup {NoBlock}, boundaryOnly : BOOLEAN,
                       credit : {0, BoundaryBytes}, protected : SUBSET Block]
           /\ TransactionIsAnchored'
BY DEF Returns, NoTx, Phases, TransactionIsAnchored, Adding

(***************************************************************************)
(* Once the process is gone the index is empty and promises nothing.       *)
(***************************************************************************)
LEMMA ClosedStore ==
    ASSUME Closed
    PROVE  /\ ~Trusted' /\ at' \in Phases
           /\ at' \notin {"quota", "commit", "reclaim", "supersede"}
           /\ tx' \in [block : Block \cup {NoBlock}, boundaryOnly : BOOLEAN,
                       credit : {0, BoundaryBytes}, protected : SUBSET Block]
           /\ tracked' = {} /\ trackedSeq' = {} /\ trackedBnd' = {}
           /\ TransactionIsAnchored' /\ IndexIsSound' /\ AckedIsIndexed'
<1>1. ~Trusted'
  BY DEF Closed, Trusted
<1> QED
  BY <1>1 DEF Closed, NoTx, Phases, TransactionIsAnchored, Adding, IndexIsSound, AckedIsIndexed

(***************************************************************************)
(* A block that is already published is acknowledged by a trusted index.   *)
(***************************************************************************)
LEMMA PublishExistingKeeps ==
    ASSUME IInv, NEW b \in Block, PublishExisting(b)
    PROVE  IInv'
<1> USE DEF IInv
<1>1. /\ at = "idle" /\ at' = "idle" /\ tx' = NoTx
      /\ UNCHANGED <<written, seqs, bnds, rotten, active, tracked, trackedSeq, trackedBnd, faulted>>
  BY DEF PublishExisting, Returns, diskVars, indexVars, faultVars
<1>2. Dirs' = Dirs /\ GoodSeqs' = GoodSeqs /\ GoodBnds' = GoodBnds /\ Trusted' = Trusted
  BY <1>1 DEF Dirs, GoodSeqs, GoodBnds, Trusted
<1>3. acked' = acked \/ (~faulted /\ b \in trackedBnd /\ acked' = acked \cup {b})
  BY DEF PublishExisting, Acknowledge, Shape
<1>4. Shape'
  BY <1>1, <1>2, <1>3 DEF Shape, NoTx
<1>5. TransactionIsAnchored' /\ IndexIsSound'
  BY <1>1, <1>2 DEF TransactionIsAnchored, Adding, IndexIsSound
<1>6. AckedIsIndexed'
  BY <1>1, <1>2, <1>3 DEF AckedIsIndexed
<1>7. AckedIsDurable'
  <2>1. CASE acked' = acked
    BY <1>2, <2>1 DEF AckedIsDurable
  <2>2. CASE ~faulted /\ b \in trackedBnd /\ acked' = acked \cup {b}
    <3>1. Trusted
      BY <1>1, <2>2 DEF Trusted
    <3> QED
      BY <1>2, <2>2, <3>1, IndexedIsDurable DEF AckedIsDurable
  <2> QED
    BY <1>3, <2>1, <2>2
<1> QED
  BY <1>4, <1>5, <1>6, <1>7

(***************************************************************************)
(* The tip of a chain that the index knows is among the directories its    *)
(* publication protects.                                                   *)
(***************************************************************************)
LEMMA TipIsProtected ==
    ASSUME NEW tip \in Block, tip \in tracked
    PROVE  tip \in ProtectedAncestry(tip) /\ ProtectedAncestry(tip) \subseteq Block
<1>1. ASSUME NEW c \in Ancestry[tip], tip \in Ancestry[c] PROVE c = tip
  <2>1. c \in Block /\ BlockIndex[c] \in Nat /\ BlockIndex[tip] \in Nat
    BY ChainOfChain, BlocksAssumption
  <2> QED
    BY <1>1, <2>1, ChainDescends
<1> QED
  BY <1>1, Chain DEF ProtectedAncestry

\* A missing boundary is published for a block the index knows and protects.
LEMMA PublishBoundaryKeeps ==
    ASSUME IInv, NEW b \in Block, PublishBoundary(b)
    PROVE  IInv'
<1> USE DEF IInv
<1>1. /\ at = "idle" /\ at' = "quota" /\ ModelOf[b] = active /\ b \in tracked
      /\ tx' = [block |-> b, boundaryOnly |-> TRUE, credit |-> 0, protected |-> ProtectedAncestry(b)]
      /\ UNCHANGED <<written, seqs, bnds, rotten, active, tracked, trackedSeq, trackedBnd, acked, faulted>>
  BY DEF PublishBoundary, StartQuota, diskVars, indexVars, histVars, faultVars
<1>2. Trusted' => Trusted
  BY <1>1 DEF Trusted
<1>3. b \in ProtectedAncestry(b) /\ ProtectedAncestry(b) \in SUBSET Block
  BY <1>1, TipIsProtected
<1>4. Shape'
  BY <1>1, <1>2, <1>3, QuietStep DEF Shape, Phases
<1>5. TransactionIsAnchored'
  BY <1>1, <1>3 DEF TransactionIsAnchored, Adding
<1> QED
  BY <1>1, <1>2, <1>4, <1>5, QuietStep

(***************************************************************************)
(* A new block starts from a parent that the index knows and protects.     *)
(***************************************************************************)
LEMMA PublishNewKeeps ==
    ASSUME IInv, NEW b \in Block, PublishNew(b)
    PROVE  IInv'
<1> USE DEF IInv
<1>1. /\ at = "idle" /\ ModelOf[b] = active /\ (b \notin tracked \/ b \notin Dirs)
      /\ tracked' = tracked \ {b} /\ trackedSeq' = trackedSeq \ {b} /\ trackedBnd' = trackedBnd \ {b}
      /\ UNCHANGED <<written, seqs, bnds, rotten, active, acked, faulted>>
  BY DEF PublishNew, UntrackBlocks, histVars, faultVars
<1>2. Dirs' = Dirs /\ GoodSeqs' = GoodSeqs /\ GoodBnds' = GoodBnds
  BY <1>1 DEF Dirs, GoodSeqs, GoodBnds
<1>3. Trusted => b \notin tracked
  BY <1>1 DEF IndexIsSound, GoodSeqs, Shape
<1>4. at' \in {"idle", "quota"}
  BY DEF PublishNew, StartQuota, Returns
<1>5. Trusted' => Trusted /\ tracked' = tracked /\ trackedSeq' = trackedSeq /\ trackedBnd' = trackedBnd
  <2>1. Trusted' => Trusted
    BY <1>1, <1>4 DEF Trusted
  <2>2. b \notin tracked => b \notin trackedSeq /\ b \notin trackedBnd
    BY DEF Shape
  <2> QED
    BY <1>1, <1>3, <2>1, <2>2
<1>6. IndexIsSound' /\ AckedIsDurable' /\ AckedIsIndexed'
  BY <1>1, <1>2, <1>5 DEF IndexIsSound, AckedIsDurable, AckedIsIndexed
<1>7. /\ tx' \in [block : Block \cup {NoBlock}, boundaryOnly : BOOLEAN,
                  credit : {0, BoundaryBytes}, protected : SUBSET Block]
      /\ at' = "quota" => tx'.block = b
      /\ TransactionIsAnchored'
  <2> DEFINE protected == {b} \cup (IF Parent[b] = NoBlock THEN {} ELSE ProtectedAncestry(Parent[b]))
             known == IF b \in tracked THEN DiskBytes ELSE total
  <2>1. CASE Returns(b, "failed")
    BY <2>1, Returned
  <2>2. CASE /\ Parent[b] = NoBlock \/ Parent[b] \in tracked
             /\ StartQuota(b, FALSE, Credit(b, known), protected)
    <3>1. /\ at' = "quota"
          /\ tx' = [block |-> b, boundaryOnly |-> FALSE, credit |-> Credit(b, known),
                    protected |-> protected]
      BY <2>2 DEF StartQuota
    <3>2. Credit(b, known) \in {0, BoundaryBytes}
      BY DEF Credit
    <3>3. protected \in SUBSET Block
      BY <2>2, BlocksAssumption, TipIsProtected
    <3>4. Parent[b] # NoBlock => Parent[b] \in protected /\ Parent[b] \in tracked
      BY <2>2, BlocksAssumption, TipIsProtected
    <3>5. TransactionIsAnchored'
      BY <3>1, <3>4, <1>5 DEF TransactionIsAnchored, Adding
    <3> QED
      BY <3>1, <3>2, <3>3, <3>5
  <2> QED
    BY <2>1, <2>2 DEF PublishNew
<1>8. Shape'
  BY <1>1, <1>2, <1>4, <1>7 DEF Shape, Phases
<1> QED
  BY <1>6, <1>7, <1>8

(***************************************************************************)
(* An eviction takes whole subtrees, so that every chain that is left is   *)
(* complete, and never what the publication protects.                      *)
(***************************************************************************)
LEMMA EvictKeeps ==
    ASSUME IInv, Evict
    PROVE  IInv'
<1> USE DEF IInv
<1>1. PICK root \in Evictable :
         /\ RemoveDirectories(Subtree(root)) /\ UntrackBlocks(Subtree(root))
         /\ acked' = acked \ Subtree(root)
  BY DEF Evict
<1> DEFINE removed == Subtree(root)
<1> HIDE DEF removed
<1>2. UNCHANGED <<active, at, tx, faulted>> /\ Trusted' = Trusted
      /\ at \notin {"reclaim", "supersede"}
  BY DEF Evict, Enforcing, faultVars, Trusted
<1>3. /\ RemoveDirectories(removed) /\ acked' = acked \ removed
      /\ tracked' = tracked \ removed
      /\ trackedSeq' = trackedSeq \ removed /\ trackedBnd' = trackedBnd \ removed
      /\ removed \cap tx.protected = {}
  BY <1>1 DEF UntrackBlocks, Evictable, removed
<1>4. Shape'
  BY <1>2, <1>3, Removal DEF Shape
<1>5. TransactionIsAnchored'
  BY <1>2, <1>3 DEF TransactionIsAnchored, Adding, Shape, IndexIsSound
<1>6. ASSUME NEW b \in Block, Ancestry[b] \subseteq Dirs, b \notin removed
      PROVE  Ancestry[b] \cap removed = {}
  BY <1>6, SubtreesTakeTips DEF removed
<1>7. AckedIsDurable'
  BY <1>3, <1>6, DurableUnderRemoval DEF Shape, AckedIsDurable, GoodSeqs
<1>8. IndexIsSound'
  <2> SUFFICES ASSUME Trusted
               PROVE  /\ tracked' \subseteq trackedSeq' /\ tracked' \subseteq GoodSeqs'
                      /\ HoldsParents(tracked')
                      /\ trackedBnd' \subseteq GoodBnds'
                      /\ \A b \in tracked' : b \in trackedBnd' \/ ~IsCheckpoint(b)
    BY <1>2 DEF IndexIsSound
  <2>1. ASSUME NEW b \in tracked', Parent[b] # NoBlock PROVE Parent[b] \in tracked'
    <3>1. b \in Block /\ b \in tracked /\ b \notin removed
      BY <1>3 DEF Shape
    <3>2. Ancestry[b] \cap removed = {} /\ Ancestry[b] \subseteq tracked
      BY <1>6, <3>1, IndexedChain
    <3> QED
      BY <1>3, <2>1, <3>1, <3>2, Chain
  <2> QED
    BY <1>3, <2>1, Removal DEF IndexIsSound, HoldsParents
<1>9. AckedIsIndexed'
  BY <1>2, <1>3 DEF AckedIsIndexed
<1> QED
  BY <1>4, <1>5, <1>7, <1>8, <1>9

(***************************************************************************)
(* Where an eviction stops half way, what depends on the removed part is   *)
(* no longer promised, and the index is not trusted.                       *)
(***************************************************************************)
LEMMA EvictFailsKeeps ==
    ASSUME IInv, EvictFails
    PROVE  IInv'
<1> USE DEF IInv
<1>1. PICK removed : RemoveDirectories(removed) /\ acked' = acked \ Descendants(removed)
  BY DEF EvictFails
<1>2. faulted' = TRUE
  BY DEF EvictFails, Disturb
<1>3. AckedIsDurable'
  BY <1>1, DurableUnderRemoval DEF Descendants, Shape
<1>4. CASE at = "quota"
  <2>1. Returns(tx.block, "failed") /\ UNCHANGED <<active, tracked, trackedSeq, trackedBnd>>
    BY <1>4 DEF EvictFails, indexVars
  <2>2. ~Trusted'
    BY <1>2, <2>1, Returned DEF Trusted
  <2>3. Shape'
    BY <1>1, <1>2, <2>1, Removal, Returned DEF Shape
  <2> QED
    BY <1>3, <2>1, <2>2, <2>3, Returned DEF IndexIsSound, AckedIsIndexed
<1>5. CASE at # "quota"
  <2>1. Closed
    BY <1>5 DEF EvictFails
  <2>2. Shape'
    BY <1>1, <1>2, <2>1, Removal, ClosedStore DEF Shape
  <2> QED
    BY <1>3, <2>1, <2>2, ClosedStore
<1> QED
  BY <1>4, <1>5

\* Once the total fits, a publication commits, and open starts to trust its index.
LEMMA QuotaFitsKeeps ==
    ASSUME IInv, QuotaFits
    PROVE  IInv'
<1> USE DEF IInv
<1>1. UNCHANGED <<written, seqs, bnds, rotten, active, tracked, trackedSeq, trackedBnd, acked>>
  BY DEF QuotaFits, diskVars, indexVars
<1>2. CASE at = "quota"
  <2>1. at' = "commit" /\ tx' = tx /\ faulted' = faulted
    BY <1>2 DEF QuotaFits
  <2>2. Trusted' => Trusted
    BY <1>2, <2>1 DEF Trusted
  <2>3. Shape'
    BY <1>1, <1>2, <2>1, <2>2, QuietStep DEF Shape, Phases
  <2>4. TransactionIsAnchored'
    BY <1>1, <1>2, <2>1, <2>2 DEF TransactionIsAnchored, Adding
  <2> QED
    BY <1>1, <2>2, <2>3, <2>4, QuietStep
<1>3. CASE at # "quota"
  <2>1. at' = "idle" /\ tx' = NoTx /\ faulted' = FALSE /\ at \in {"startupQuota", "retryQuota"}
    BY <1>3 DEF QuotaFits, Enforcing
  <2>2. Trusted
    BY <2>1 DEF Trusted
  <2>3. Shape'
    BY <1>1, <2>1, <2>2, QuietStep DEF Shape, Phases, NoTx
  <2>4. TransactionIsAnchored'
    BY <2>1 DEF TransactionIsAnchored, Adding
  <2> QED
    BY <1>1, <2>2, <2>3, <2>4, QuietStep
<1> QED
  BY <1>2, <1>3

\* A quota that cannot be met fails the publication, or open, and nothing else.
LEMMA QuotaNotSatisfiedKeeps ==
    ASSUME IInv, QuotaNotSatisfied
    PROVE  IInv'
<1> USE DEF IInv
<1>1. UNCHANGED <<written, seqs, bnds, rotten, acked, faulted>>
  BY DEF QuotaNotSatisfied, diskVars, histVars, faultVars
<1>2. CASE at = "quota"
  <2>1. Returns(tx.block, "unsatisfied") /\ UNCHANGED <<active, tracked, trackedSeq, trackedBnd>>
    BY <1>2 DEF QuotaNotSatisfied, indexVars
  <2>2. Trusted' => Trusted
    BY <1>1, <1>2, <2>1, Returned DEF Trusted
  <2>3. Shape'
    BY <1>1, <2>1, <2>2, Returned, QuietStep DEF Shape
  <2> QED
    BY <1>1, <2>1, <2>2, <2>3, Returned, QuietStep
<1>3. CASE at = "startupQuota"
  <2>1. at' = "compact" /\ tx' = tx /\ UNCHANGED <<active, tracked, trackedSeq, trackedBnd>>
    BY <1>3 DEF QuotaNotSatisfied, indexVars
  <2>2. Trusted
    BY <1>3 DEF Trusted
  <2>3. Shape'
    BY <1>1, <2>1, <2>2, QuietStep DEF Shape, Phases
  <2>4. TransactionIsAnchored'
    BY <2>1 DEF TransactionIsAnchored, Adding
  <2> QED
    BY <1>1, <2>1, <2>2, <2>3, <2>4, QuietStep
<1>4. CASE at = "retryQuota"
  <2>1. Closed
    BY <1>4 DEF QuotaNotSatisfied
  <2>2. Dirs' = Dirs /\ GoodSeqs' = GoodSeqs /\ GoodBnds' = GoodBnds
    BY <1>1 DEF Dirs, GoodSeqs, GoodBnds
  <2>3. Shape' /\ AckedIsDurable'
    BY <1>1, <2>1, <2>2, ClosedStore DEF Shape, AckedIsDurable
  <2> QED
    BY <2>1, <2>3, ClosedStore
<1> QED
  BY <1>2, <1>3, <1>4 DEF QuotaNotSatisfied, Enforcing

-----------------------------------------------------------------------------
(* Commit and retention *)

(***************************************************************************)
(* A committed block is indexed with valid files, above a parent that the  *)
(* index knows.                                                            *)
(***************************************************************************)
LEMMA CommitBlockKeeps ==
    ASSUME IInv, CommitBlock
    PROVE  IInv'
<1> USE DEF IInv
<1> DEFINE b == tx.block
<1>1. /\ at = "commit" /\ ~tx.boundaryOnly /\ b \notin Dirs /\ written' = Touched(b)
      /\ seqs' = seqs \cup {b} /\ bnds' = bnds \cup {b}
      /\ UNCHANGED <<rotten, active, acked>>
  BY DEF CommitBlock
<1>2. b \in Block /\ ModelOf[b] = active
  BY <1>1 DEF Shape
<1>3. Dirs' = Dirs \cup {b}
  BY <1>1, Writing
<1>4. <<"sequence", b>> \notin rotten /\ <<"boundary", b>> \notin rotten
  BY <1>1 DEF Shape
<1>5. GoodSeqs' = GoodSeqs \cup {b} /\ GoodBnds' = GoodBnds \cup {b}
  BY <1>1, <1>4 DEF GoodSeqs, GoodBnds
<1>6. AckedIsDurable'
  BY <1>1, <1>5 DEF AckedIsDurable
<1>7. CASE /\ tracked' = tracked \cup {b}
           /\ trackedSeq' = trackedSeq \cup {b} /\ trackedBnd' = trackedBnd \cup {b}
           /\ at' = "reclaim" /\ tx' = [tx EXCEPT !.credit = Credit(b, total)]
           /\ UNCHANGED <<outcome, faultVars>>
  <2>1. faulted' = faulted
    BY <1>7 DEF faultVars
  <2>2. Trusted' => Trusted
    BY <1>1, <1>7, <2>1 DEF Trusted
  <2>3. /\ tx' \in [block : Block \cup {NoBlock}, boundaryOnly : BOOLEAN,
                    credit : {0, BoundaryBytes}, protected : SUBSET Block]
        /\ tx'.block = b /\ tx'.credit = Credit(b, total)
    BY <1>7 DEF Shape, Credit
  <2>4. Shape'
    BY <1>1, <1>2, <1>3, <1>7, <2>1, <2>3 DEF Shape, Phases
  <2>5. Credit(b, total) > 0 => Parent[b] # NoBlock /\ ~IsCheckpoint(Parent[b])
    BY DEF Credit, ParentBoundaryReclaim
  <2>6. TransactionIsAnchored'
    BY <1>7, <2>3, <2>5 DEF TransactionIsAnchored, Adding
  <2>7. Trusted' /\ Parent[b] # NoBlock => Parent[b] \in tracked
    BY <1>1, <2>2 DEF TransactionIsAnchored, Adding
  <2>8. IndexIsSound'
    BY <1>5, <1>7, <2>2, <2>7 DEF IndexIsSound, HoldsParents
  <2>9. AckedIsIndexed'
    BY <1>1, <1>7, <2>2 DEF AckedIsIndexed
  <2> QED
    BY <1>6, <2>4, <2>6, <2>8, <2>9
<1>8. CASE Returns(b, "failed") /\ Disturb /\ UNCHANGED indexVars
  <2>1. faulted' = TRUE /\ UNCHANGED <<tracked, trackedSeq, trackedBnd>>
    BY <1>8 DEF Disturb, indexVars
  <2>2. ~Trusted'
    BY <1>8, <2>1, Returned DEF Trusted
  <2>3. Shape'
    BY <1>1, <1>2, <1>3, <1>8, <2>1, Returned DEF Shape
  <2> QED
    BY <1>6, <1>8, <2>2, <2>3, Returned DEF IndexIsSound, AckedIsIndexed
<1> QED
  BY <1>7, <1>8 DEF CommitBlock

\* A failed commit leaves no trace.
LEMMA CommitFailsKeeps ==
    ASSUME IInv, CommitFails
    PROVE  IInv'
<1> USE DEF IInv
<1>1. /\ at = "commit" /\ Returns(tx.block, "failed")
      /\ UNCHANGED <<written, seqs, bnds, rotten, active, tracked, trackedSeq, trackedBnd, acked, faulted>>
  BY DEF CommitFails, diskVars, indexVars, histVars, faultVars
<1>2. Trusted' => Trusted
  BY <1>1, Returned DEF Trusted
<1>3. Shape'
  BY <1>1, <1>2, Returned, QuietStep DEF Shape
<1> QED
  BY <1>1, <1>2, <1>3, Returned, QuietStep

(***************************************************************************)
(* A boundary that was missing is added to a block that the index knows.   *)
(***************************************************************************)
LEMMA CommitBoundaryKeeps ==
    ASSUME IInv, CommitBoundary
    PROVE  IInv'
<1> USE DEF IInv
<1> DEFINE b == tx.block
<1>1. /\ at = "commit" /\ tx.boundaryOnly /\ written' = Touched(b)
      /\ bnds' = bnds \cup {b} /\ rotten' = rotten \ {<<"boundary", b>>}
      /\ UNCHANGED <<seqs, active, tracked, trackedSeq>>
  BY DEF CommitBoundary
<1>2. b \in Block /\ b \in tracked
  BY <1>1 DEF Shape, TransactionIsAnchored
<1>3. Dirs' = Dirs \cup {b}
  BY <1>1, Writing
<1>4. GoodSeqs' = GoodSeqs /\ GoodBnds' = GoodBnds \cup {b}
  BY <1>1 DEF GoodSeqs, GoodBnds
<1>5. CASE /\ trackedBnd' = trackedBnd \cup {b}
           /\ Returns(b, "Published") /\ acked' = acked \cup Acknowledge(b)
           /\ UNCHANGED faultVars
  <2>1. faulted' = faulted /\ at' = "idle"
    BY <1>5, Returned DEF faultVars
  <2>2. Trusted' = ~faulted /\ (~faulted => Trusted)
    BY <1>1, <2>1 DEF Trusted, Shape
  <2>3. acked' = acked \/ (~faulted /\ acked' = acked \cup {b})
    BY <1>5 DEF Acknowledge, Shape
  <2>4. Shape'
    BY <1>1, <1>2, <1>3, <1>5, <2>1, <2>3, Returned DEF Shape
  <2>5. IndexIsSound'
    BY <1>1, <1>2, <1>4, <1>5, <2>2 DEF IndexIsSound
  <2>6. AckedIsIndexed'
    BY <1>1, <1>5, <2>2, <2>3 DEF AckedIsIndexed
  <2>7. AckedIsDurable'
    <3>1. CASE acked' = acked
      BY <1>4, <3>1 DEF AckedIsDurable
    <3>2. CASE ~faulted /\ acked' = acked \cup {b}
      <4>1. b \in trackedBnd' /\ Trusted'
        BY <1>5, <2>2, <3>2
      <4>2. /\ b \in GoodBnds'
            /\ \A a \in Ancestry[b] : a \in GoodSeqs' /\ (a \in GoodBnds' \/ ~IsCheckpoint(a))
        <5>1. Ancestry[b] \subseteq tracked
          BY <1>2, <2>2, <3>2, IndexedChain
        <5> QED
          BY <1>4, <2>2, <3>2, <5>1 DEF IndexIsSound
      <4> QED
        BY <1>4, <3>2, <4>2 DEF AckedIsDurable
    <3> QED
      BY <2>3, <3>1, <3>2
  <2> QED
    BY <1>5, <2>4, <2>5, <2>6, <2>7, Returned
<1>6. CASE Returns(b, "failed") /\ Disturb /\ UNCHANGED <<trackedBnd, acked, total>>
  <2>1. faulted' = TRUE
    BY <1>6 DEF Disturb
  <2>2. ~Trusted'
    BY <1>6, <2>1, Returned DEF Trusted
  <2>3. Shape'
    BY <1>1, <1>2, <1>3, <1>6, <2>1, Returned DEF Shape
  <2>4. AckedIsDurable'
    BY <1>4, <1>6 DEF AckedIsDurable
  <2> QED
    BY <1>6, <2>2, <2>3, <2>4, Returned DEF IndexIsSound, AckedIsIndexed
<1> QED
  BY <1>5, <1>6 DEF CommitBoundary

(***************************************************************************)
(* The boundary that is reclaimed is no checkpoint, and not the one of the *)
(* block just committed.                                                   *)
(***************************************************************************)
LEMMA ReclaimKeeps ==
    ASSUME IInv, ReclaimParentBoundary
    PROVE  IInv'
<1> USE DEF IInv
<1> DEFINE p == Parent[tx.block]
<1>1. /\ at = "reclaim" /\ tx.credit > 0
      /\ UNCHANGED <<seqs, active, tracked, trackedSeq>>
      /\ acked' = acked \ {p}
  BY DEF ReclaimParentBoundary
<1>2. tx.block \in Block /\ p \in Block /\ ~IsCheckpoint(p) /\ p # tx.block
  BY <1>1, BlocksAssumption DEF Shape, TransactionIsAnchored
<1>3. CASE /\ p \in Dirs /\ bnds' = bnds \ {p} /\ trackedBnd' = trackedBnd \ {p}
           /\ written' = Touched(p) /\ rotten' = rotten \ {<<"boundary", p>>}
           /\ at' = "supersede" /\ UNCHANGED <<tx, outcome, faultVars>>
  <2>1. faulted' = faulted /\ tx' = tx
    BY <1>3 DEF faultVars
  <2>2. Trusted' => Trusted
    BY <1>1, <1>3, <2>1 DEF Trusted
  <2>3. Dirs' = Dirs
    BY <1>3, Writing
  <2>4. GoodSeqs' = GoodSeqs /\ GoodBnds' = GoodBnds \ {p}
    BY <1>1, <1>3 DEF GoodSeqs, GoodBnds
  <2>5. Shape'
    BY <1>1, <1>3, <2>1, <2>3 DEF Shape, Phases
  <2>6. TransactionIsAnchored'
    BY <1>1, <1>2, <1>3, <2>1, <2>2 DEF TransactionIsAnchored, Adding
  <2>7. IndexIsSound'
    BY <1>1, <1>2, <1>3, <2>2, <2>4 DEF IndexIsSound
  <2>8. AckedIsDurable'
    BY <1>1, <1>2, <2>4 DEF AckedIsDurable
  <2>9. AckedIsIndexed'
    BY <1>1, <1>3, <2>2 DEF AckedIsIndexed
  <2> QED
    BY <2>5, <2>6, <2>7, <2>8, <2>9
<1>4. CASE /\ Returns(tx.block, "failed")
           /\ IF p \in Dirs THEN Disturb ELSE UNCHANGED faultVars
           /\ bnds' \in {bnds, bnds \ {p}}
           /\ UNCHANGED <<written, rotten, trackedBnd, total>>
  <2>1. Dirs' = Dirs /\ GoodSeqs' = GoodSeqs
    BY <1>1, <1>4 DEF Dirs, GoodSeqs
  <2>2. faulted' \in BOOLEAN
    BY <1>4 DEF Disturb, faultVars, Shape
  <2>3. Shape'
    BY <1>1, <1>4, <2>1, <2>2, Returned DEF Shape
  <2>4. GoodBnds \ {p} \subseteq GoodBnds'
    BY <1>4 DEF GoodBnds
  <2>5. AckedIsDurable'
    BY <1>1, <1>2, <2>1, <2>4 DEF AckedIsDurable
  <2>6. ~Trusted' \/ (Trusted /\ p \notin Dirs)
    BY <1>1, <1>4, Returned DEF Disturb, faultVars, Trusted
  <2>7. Trusted /\ p \notin Dirs => p \notin bnds
    BY DEF Shape
  <2>8. IndexIsSound' /\ AckedIsIndexed'
    <3>1. CASE ~Trusted'
      BY <3>1 DEF IndexIsSound, AckedIsIndexed
    <3>2. CASE Trusted /\ p \notin Dirs
      <4>1. GoodBnds' = GoodBnds
        BY <1>4, <2>7, <3>2 DEF GoodBnds
      <4> QED
        BY <1>1, <1>4, <2>1, <3>2, <4>1 DEF IndexIsSound, AckedIsIndexed
    <3> QED
      BY <2>6, <3>1, <3>2
  <2> QED
    BY <1>4, <2>3, <2>5, <2>8, Returned
<1> QED
  BY <1>3, <1>4 DEF ReclaimParentBoundary

\* Without a boundary to reclaim only the total is refreshed.
LEMMA NothingToReclaimKeeps ==
    ASSUME IInv, NothingToReclaim
    PROVE  IInv'
<1> USE DEF IInv
<1>1. /\ at = "reclaim" /\ at' = "supersede" /\ tx' = tx
      /\ UNCHANGED <<written, seqs, bnds, rotten, active, tracked, trackedSeq, trackedBnd, acked, faulted>>
  BY DEF NothingToReclaim, diskVars, indexVars, histVars, faultVars
<1>2. Trusted' => Trusted
  BY <1>1 DEF Trusted
<1>3. Shape'
  BY <1>1, <1>2, QuietStep DEF Shape, Phases
<1>4. TransactionIsAnchored'
  BY <1>1, <1>2 DEF TransactionIsAnchored, Adding
<1> QED
  BY <1>1, <1>2, <1>3, <1>4, QuietStep

(***************************************************************************)
(* The tails that a longer one supersedes carry no chain; the new block is *)
(* acknowledged by a trusted index.                                        *)
(***************************************************************************)
LEMMA SupersedeKeeps ==
    ASSUME IInv, Supersede
    PROVE  IInv'
<1> USE DEF IInv
<1> DEFINE b == tx.block
           shorter == ShorterSiblings(b)
<1>1. at = "supersede" /\ active' = active /\ b \in Block
  BY DEF Supersede, Shape
<1>2. shorter \subseteq tracked /\ b \notin shorter
  BY DEF ShorterSiblings, Shape
<1>3. ASSUME NEW c \in shorter PROVE Partial(c)
  <2>1. c \in Block /\ Tokens[c] < Tokens[b] /\ Tokens[b] < BlockTokens
    BY <1>2 DEF ShorterSiblings, Partial, Shape
  <2>2. Tokens[c] \in Nat /\ Tokens[b] \in Nat /\ BlockTokens \in Nat
    BY <1>1, <2>1, BlocksAssumption
  <2> QED
    BY <2>1, <2>2 DEF Partial
<1>4. ASSUME NEW d \in Block, d \notin shorter PROVE Ancestry[d] \cap shorter = {}
  BY <1>3, <1>4, ChainDescends
<1>5. CASE /\ RemoveDirectories(shorter) /\ UntrackBlocks(shorter)
           /\ Returns(b, "Published") /\ acked' = (acked \ shorter) \cup Acknowledge(b)
           /\ UNCHANGED faultVars
  <2>1. faulted' = faulted /\ at' = "idle"
    BY <1>5, Returned DEF faultVars
  <2>2. Trusted' = ~faulted /\ (~faulted => Trusted)
    BY <1>1, <2>1 DEF Trusted, Shape
  <2>3. /\ tracked' = tracked \ shorter
        /\ trackedSeq' = trackedSeq \ shorter /\ trackedBnd' = trackedBnd \ shorter
    BY <1>5 DEF UntrackBlocks
  <2>4. acked' = acked \ shorter \/ (~faulted /\ acked' = (acked \ shorter) \cup {b})
    BY <1>5 DEF Acknowledge, Shape
  <2>5. ~faulted => b \in trackedBnd
    BY <1>1, <2>2 DEF TransactionIsAnchored
  <2>6. /\ Dirs' = Dirs \ shorter /\ GoodSeqs' = GoodSeqs \ shorter /\ GoodBnds' = GoodBnds \ shorter
        /\ seqs' \subseteq Dirs' /\ bnds' \subseteq Dirs'
        /\ rotten' \subseteq {"sequence", "boundary"} \X Dirs'
    BY <1>5, Removal
  <2>7. Shape'
    BY <1>1, <1>5, <2>1, <2>3, <2>4, <2>6, Returned DEF Shape
  <2>8. IndexIsSound'
    <3> SUFFICES ASSUME ~faulted
                 PROVE  /\ tracked' \subseteq trackedSeq' /\ tracked' \subseteq GoodSeqs'
                        /\ HoldsParents(tracked')
                        /\ trackedBnd' \subseteq GoodBnds'
                        /\ \A d \in tracked' : d \in trackedBnd' \/ ~IsCheckpoint(d)
      BY <2>2 DEF IndexIsSound
    <3>1. ASSUME NEW d \in tracked', Parent[d] # NoBlock PROVE Parent[d] \in tracked'
      <4>1. d \in Block /\ d \in tracked /\ d \notin shorter
        BY <2>3 DEF Shape
      <4>2. Parent[d] \in tracked /\ Parent[d] \in Ancestry[d]
        BY <2>2, <3>1, <4>1, Chain DEF IndexIsSound, HoldsParents
      <4> QED
        BY <1>4, <2>3, <4>1, <4>2
    <3> QED
      BY <2>2, <2>3, <2>6, <3>1 DEF IndexIsSound, HoldsParents
  <2>9. AckedIsIndexed'
    BY <1>1, <1>2, <2>2, <2>3, <2>4, <2>5 DEF AckedIsIndexed
  <2>10. ASSUME NEW d \in acked'
         PROVE  /\ d \in GoodBnds /\ d \in Block /\ d \notin shorter
                /\ \A a \in Ancestry[d] : a \in GoodSeqs /\ (a \in GoodBnds \/ ~IsCheckpoint(a))
    <3>1. CASE d \in acked \ shorter
      BY <3>1 DEF AckedIsDurable, Shape
    <3>2. CASE ~faulted /\ d = b
      BY <1>1, <1>2, <2>2, <2>5, <3>2, IndexedIsDurable
    <3> QED
      BY <2>4, <3>1, <3>2
  <2>11. AckedIsDurable'
    BY <1>4, <2>6, <2>10 DEF AckedIsDurable
  <2> QED
    BY <1>5, <2>7, <2>8, <2>9, <2>11, Returned
<1>6. CASE \E removed \in SUBSET shorter :
              /\ RemoveDirectories(removed)
              /\ Returns(b, "failed") /\ Disturb
              /\ acked' = acked \ removed
              /\ UNCHANGED <<indexVars, total>>
  <2>1. PICK removed \in SUBSET shorter :
              /\ RemoveDirectories(removed)
              /\ Returns(b, "failed") /\ Disturb
              /\ acked' = acked \ removed
              /\ UNCHANGED <<indexVars, total>>
    BY <1>6
  <2>2. faulted' = TRUE /\ UNCHANGED <<tracked, trackedSeq, trackedBnd>>
    BY <2>1 DEF Disturb, indexVars
  <2>3. ~Trusted'
    BY <2>1, <2>2, Returned DEF Trusted
  <2>4. Shape'
    BY <1>1, <2>1, <2>2, Removal, Returned DEF Shape
  <2>5. ASSUME NEW d \in acked' PROVE Ancestry[d] \cap removed = {}
    <3>1. d \in Block /\ d \notin removed
      BY <2>1 DEF Shape
    <3> QED
      BY <1>3, <2>1, <3>1, ChainDescends
  <2>6. AckedIsDurable'
    BY <2>1, <2>5, DurableUnderRemoval
  <2> QED
    BY <2>1, <2>3, <2>4, <2>6, Returned DEF IndexIsSound, AckedIsIndexed
<1> QED
  BY <1>5, <1>6 DEF Supersede

-----------------------------------------------------------------------------
(* Reads, clearing, crashes and outsiders *)

(***************************************************************************)
(* A trusted index names no bad file; elsewhere a bad file that is removed *)
(* is part of no acknowledged chain.                                       *)
(***************************************************************************)
LEMMA LoadBadFileKeeps ==
    ASSUME IInv, NEW b \in Block, LoadBadFile(b)
    PROVE  IInv'
<1> USE DEF IInv
<1>1. at = "idle" /\ UNCHANGED <<active, tracked, at, tx, acked, faulted>>
  BY DEF LoadBadFile, histVars, faultVars
<1>2. \/ b \in trackedSeq /\ b \notin GoodSeqs
      \/ b \in trackedBnd /\ b \notin GoodBnds
  BY DEF LoadBadFile, GoodSeqs, GoodBnds
<1>3. ~Trusted /\ ~Trusted'
  BY <1>1, <1>2 DEF IndexIsSound, Trusted, Shape
<1>4. /\ trackedSeq' \subseteq trackedSeq /\ trackedBnd' \subseteq trackedBnd
      /\ seqs' \subseteq seqs /\ bnds' \subseteq bnds /\ rotten' \subseteq rotten
  BY DEF LoadBadFile
<1>5. Dirs' = Dirs
  <2>1. written' = written \/ (b \in Dirs /\ written' = Touched(b))
    BY DEF LoadBadFile, Shape
  <2> QED
    BY <2>1, Writing DEF Dirs
<1>6. GoodSeqs \subseteq GoodSeqs' /\ GoodBnds \subseteq GoodBnds'
  <2>1. CASE /\ b \notin GoodSeqs /\ seqs' = seqs \ {b}
             /\ rotten' = rotten \ {<<"sequence", b>>} /\ bnds' = bnds
    BY <2>1 DEF GoodSeqs, GoodBnds
  <2>2. CASE /\ b \notin GoodBnds /\ bnds' = bnds \ {b}
             /\ rotten' = rotten \ {<<"boundary", b>>} /\ seqs' = seqs
    BY <2>2 DEF GoodSeqs, GoodBnds
  <2> QED
    BY <2>1, <2>2 DEF LoadBadFile, GoodSeqs, GoodBnds
<1>7. Shape'
  BY <1>1, <1>4, <1>5 DEF Shape
<1>8. TransactionIsAnchored'
  BY <1>1 DEF TransactionIsAnchored, Adding
<1>9. AckedIsDurable'
  BY <1>1, <1>6 DEF AckedIsDurable
<1> QED
  BY <1>3, <1>7, <1>8, <1>9 DEF IndexIsSound, AckedIsIndexed

(***************************************************************************)
(* A chain lies in the directory of one model, which is cleared whole.     *)
(***************************************************************************)
LEMMA ClearKeeps ==
    ASSUME IInv, NEW cleared \in SUBSET Model, Clear(cleared)
    PROVE  IInv'
<1> USE DEF IInv
<1> DEFINE target == {b \in Dirs : ModelOf[b] \in cleared}
<1>1. at = "idle" /\ UNCHANGED <<active, at, tx>>
  BY DEF Clear
<1>2. TransactionIsAnchored'
  BY <1>1 DEF TransactionIsAnchored, Adding
<1>3. CASE /\ RemoveDirectories(target)
           /\ IF active \in cleared THEN UntrackBlocks(tracked) ELSE UNCHANGED indexVars
           /\ acked' = acked \ target /\ UNCHANGED faultVars
  <2>1. faulted' = faulted /\ Trusted' = Trusted
    BY <1>1, <1>3 DEF faultVars, Trusted
  <2>2. /\ tracked' = IF active \in cleared THEN {} ELSE tracked
        /\ trackedSeq' = IF active \in cleared THEN {} ELSE trackedSeq
        /\ trackedBnd' = IF active \in cleared THEN {} ELSE trackedBnd
    BY <1>3 DEF UntrackBlocks, indexVars, Shape
  <2>3. tracked' \cap target = {}
    BY <2>2 DEF Shape
  <2>4. Shape'
    BY <1>1, <1>3, <2>1, <2>2, Removal DEF Shape
  <2>5. IndexIsSound'
    BY <1>3, <2>1, <2>2, <2>3, Removal DEF IndexIsSound, HoldsParents, Shape
  <2>6. ASSUME NEW b \in acked'
        PROVE  b \in Block /\ b \in Dirs /\ ModelOf[b] \notin cleared
    BY <1>3 DEF Shape, AckedIsDurable, GoodBnds
  <2>7. AckedIsDurable'
    <3>1. ASSUME NEW b \in acked' PROVE Ancestry[b] \cap target = {}
      BY <2>6, ChainDescends
    <3> QED
      BY <1>3, <3>1, DurableUnderRemoval
  <2>8. AckedIsIndexed'
    BY <1>1, <1>3, <2>1, <2>2, <2>6 DEF AckedIsIndexed
  <2> QED
    BY <1>2, <2>4, <2>5, <2>7, <2>8
<1>4. CASE \E removed \in SUBSET target :
              /\ RemoveDirectories(removed)
              /\ acked' = acked \ Descendants(removed)
              /\ Disturb /\ UNCHANGED <<stale, indexVars, total>>
  <2>1. PICK removed \in SUBSET target :
              /\ RemoveDirectories(removed)
              /\ acked' = acked \ Descendants(removed)
              /\ Disturb /\ UNCHANGED <<stale, indexVars, total>>
    BY <1>4
  <2>2. faulted' = TRUE /\ UNCHANGED <<tracked, trackedSeq, trackedBnd>>
    BY <2>1 DEF Disturb, indexVars
  <2>3. ~Trusted'
    BY <1>1, <2>2 DEF Trusted
  <2>4. Shape'
    BY <1>1, <2>1, <2>2, Removal DEF Shape
  <2>5. AckedIsDurable'
    BY <2>1, DurableUnderRemoval DEF Descendants, Shape
  <2> QED
    BY <1>2, <2>3, <2>4, <2>5 DEF IndexIsSound, AckedIsIndexed
<1> QED
  BY <1>3, <1>4 DEF Clear

\* A crash empties the index and touches no file of a committed block.
LEMMA CrashKeeps ==
    ASSUME IInv, Crash
    PROVE  IInv'
<1> USE DEF IInv
<1>1. Closed /\ UNCHANGED <<written, seqs, bnds, rotten, acked, faulted>>
  BY DEF Crash, histVars, faultVars
<1>2. Dirs' = Dirs /\ GoodSeqs' = GoodSeqs /\ GoodBnds' = GoodBnds
  BY <1>1 DEF Dirs, GoodSeqs, GoodBnds
<1>3. Shape' /\ AckedIsDurable'
  BY <1>1, <1>2, ClosedStore DEF Shape, AckedIsDurable
<1> QED
  BY <1>1, <1>3, ClosedStore

(***************************************************************************)
(* What an outsider removes or spoils, and what builds on it, is no longer *)
(* promised, and the index is not trusted until the next scan.             *)
(***************************************************************************)
LEMMA OutsiderKeeps ==
    ASSUME IInv, NEW b \in Block, Outsider(b)
    PROVE  IInv'
<1> USE DEF IInv
<1>1. /\ at \in {"idle", "closed"} /\ faulted' = TRUE
      /\ acked' = acked \ Descendants({b})
      /\ UNCHANGED <<active, tracked, trackedSeq, trackedBnd, at, tx>>
  BY DEF Outsider, OutsiderRemoves, OutsiderSpoils, Disturb, indexVars
<1>2. ~Trusted'
  BY <1>1 DEF Trusted
<1>3. TransactionIsAnchored'
  BY <1>1 DEF TransactionIsAnchored, Adding
<1>4. \A d \in acked' : d \in Block /\ b \notin Ancestry[d]
  BY <1>1 DEF Descendants, Shape
<1>5. CASE OutsiderRemoves(b)
  <2>1. RemoveDirectories(Subtree(b))
    BY <1>5 DEF OutsiderRemoves
  <2>2. Shape'
    BY <1>1, <2>1, Removal DEF Shape
  <2>3. ASSUME NEW d \in acked', NEW a \in Ancestry[d], a \in Subtree(b) PROVE FALSE
    BY <1>4, <2>3, ChainOfChain DEF Subtree
  <2>4. AckedIsDurable'
    BY <1>1, <2>1, <2>3, DurableUnderRemoval
  <2> QED
    BY <1>2, <1>3, <2>2, <2>4 DEF IndexIsSound, AckedIsIndexed
<1>6. CASE OutsiderSpoils(b)
  <2>1. /\ written' = written /\ seqs' \subseteq seqs /\ bnds' \subseteq bnds
        /\ rotten' \subseteq rotten \cup {<<"sequence", d>> : d \in {b} \cap Dirs}
                                    \cup {<<"boundary", d>> : d \in {b} \cap Dirs}
    BY <1>6 DEF OutsiderSpoils, Shape
  <2>2. Dirs' = Dirs
    BY <2>1 DEF Dirs
  <2>3. Shape'
    BY <1>1, <2>1, <2>2 DEF Shape
  <2>4. \A d : d # b => /\ d \in GoodSeqs => d \in GoodSeqs'
                        /\ d \in GoodBnds => d \in GoodBnds'
    BY <1>6 DEF OutsiderSpoils, GoodSeqs, GoodBnds
  <2>5. ASSUME NEW d \in acked' PROVE d # b /\ \A a \in Ancestry[d] : a # b
    BY <1>4, Chain
  <2>6. AckedIsDurable'
    BY <1>1, <2>4, <2>5 DEF AckedIsDurable
  <2> QED
    BY <1>2, <1>3, <2>3, <2>6 DEF IndexIsSound, AckedIsIndexed
<1> QED
  BY <1>5, <1>6 DEF Outsider

-----------------------------------------------------------------------------
(* The theorems *)

\* The empty, closed store satisfies the invariant.
LEMMA StoreInit == Init => IInv
<1> SUFFICES ASSUME Init PROVE IInv
  OBVIOUS
<1>1. Dirs = {}
  BY DEF Init, Dirs
<1>2. Shape
  BY <1>1 DEF Init, Shape, NoTx, Phases
<1>3. ~Trusted
  BY DEF Init, Trusted
<1> QED
  BY <1>2, <1>3 DEF Init, IInv, TransactionIsAnchored, Adding, IndexIsSound, AckedIsDurable, AckedIsIndexed

\* Every step of the store preserves the invariant.
LEMMA StoreNext == IInv /\ [Next]_vars => IInv'
<1> SUFFICES ASSUME IInv, [Next]_vars PROVE IInv'
  OBVIOUS
<1>1. CASE Startup
  BY <1>1, OpenScanKeeps, CompactBoundaryKeeps, CompactionEndsKeeps DEF Startup
<1>2. CASE Quota
  BY <1>2, EvictKeeps, EvictFailsKeeps, QuotaFitsKeeps, QuotaNotSatisfiedKeeps DEF Quota
<1>3. CASE Commit
  BY <1>3, CommitBlockKeeps, CommitBoundaryKeeps, CommitFailsKeeps DEF Commit
<1>4. CASE Retain
  BY <1>4, ReclaimKeeps, NothingToReclaimKeeps, SupersedeKeeps DEF Retain
<1>5. CASE Crash
  BY <1>5, CrashKeeps
<1>6. ASSUME NEW b \in Block, Publish(b) PROVE IInv'
  BY <1>6, PublishExistingKeeps, PublishBoundaryKeeps, PublishNewKeeps DEF Publish
<1>7. ASSUME NEW b \in Block, LoadBadFile(b) \/ Outsider(b) PROVE IInv'
  BY <1>7, LoadBadFileKeeps, OutsiderKeeps
<1>8. ASSUME NEW cleared \in {{m} : m \in Model} \cup {Model}, Clear(cleared) PROVE IInv'
  <2>1. cleared \in SUBSET Model
    OBVIOUS
  <2> QED
    BY <1>8, <2>1, ClearKeeps
<1>9. CASE UNCHANGED vars
  <2>1. UNCHANGED <<written, seqs, bnds, rotten, active, tracked, trackedSeq, trackedBnd, acked,
                    faulted, at, tx>>
    BY <1>9 DEF vars, diskVars, indexVars, histVars, faultVars
  <2>2. Dirs' = Dirs /\ GoodSeqs' = GoodSeqs /\ GoodBnds' = GoodBnds
        /\ Trusted' = Trusted /\ Adding' = Adding
    BY <2>1 DEF Dirs, GoodSeqs, GoodBnds, Trusted, Adding
  <2> QED
    BY <2>1, <2>2 DEF IInv, Shape, TransactionIsAnchored, IndexIsSound, AckedIsDurable, AckedIsIndexed
<1> QED
  BY <1>1, <1>2, <1>3, <1>4, <1>5, <1>6, <1>7, <1>8, <1>9 DEF Next

(***************************************************************************)
(* The index agrees with the disk while it can be trusted, and what was    *)
(* acknowledged stays on disk in a form the next scan accepts.             *)
(***************************************************************************)
THEOREM StoreIsSound == Spec => []IInv
BY StoreInit, StoreNext, PTL DEF Spec

(***************************************************************************)
(* Neither eviction, nor a failed publication, nor a crash leaves a block  *)
(* of the index without its files or without its parent.                   *)
(***************************************************************************)
THEOREM ChainsStayComplete == Spec => []ChainsAreComplete
<1>1. IInv => ChainsAreComplete
  <2> SUFFICES ASSUME IInv, at # "closed", ~faulted, NEW b \in tracked
               PROVE  b \in seqs /\ b \in trackedSeq
                      /\ (Parent[b] # NoBlock => Parent[b] \in tracked)
    BY DEF ChainsAreComplete
  <2>1. Trusted
    BY DEF Trusted
  <2> QED
    BY <2>1 DEF IInv, IndexIsSound, GoodSeqs, HoldsParents
<1> QED
  BY <1>1, StoreIsSound, PTL

(***************************************************************************)
(* Every lookup that matches a complete chain matches the whole of it.     *)
(***************************************************************************)
LEMMA WholeChainMatches ==
    ASSUME IInv, Trusted, NEW b \in tracked
    PROVE  Matched(b) = Ancestry[b]
<1> USE DEF IInv
<1>1. b \in Block /\ Ancestry[b] \subseteq tracked
  BY IndexedChain DEF Shape
<1>2. \A c \in tracked : HasSequence(c)
  BY DEF HasSequence, IndexIsSound, GoodSeqs
<1> QED
  BY <1>1, <1>2, ChainOfChain DEF Matched

(***************************************************************************)
(* An acknowledged full block of the open store is restored whole, across  *)
(* crashes, restarts and the publications of other blocks.                 *)
(***************************************************************************)
THEOREM AcknowledgedIsKept == Spec => []AcknowledgedIsRestorable
<1>1. IInv => AcknowledgedIsRestorable
  <2> SUFFICES ASSUME IInv, at = "idle", ~faulted, NEW b \in acked, ModelOf[b] = active, ~Partial(b)
               PROVE  LastRestored(b) = b
    BY DEF AcknowledgedIsRestorable
  <2> USE DEF IInv
  <2>1. Trusted
    BY DEF Trusted
  <2>2. b \in trackedBnd /\ b \in tracked /\ b \in Block /\ b \in bnds
    BY <2>1 DEF AckedIsIndexed, IndexIsSound, Shape, GoodBnds
  <2> DEFINE restorable == {a \in Matched(b) : HasBoundary(a)}
             Newest(a) == \A c \in restorable : BlockIndex[c] <= BlockIndex[a]
  <2>3. Matched(b) = Ancestry[b]
    BY <2>1, <2>2, WholeChainMatches
  <2>4. b \in restorable
    BY <2>2, <2>3, Chain DEF HasBoundary
  <2>5. \A c \in restorable : c \in Block /\ (c # b => BlockIndex[c] < BlockIndex[b])
    BY <2>2, <2>3, ChainOfChain, ChainDescends
  <2>6. Newest(b)
    BY <2>2, <2>5, BlocksAssumption
  <2>7. \A a \in restorable : Newest(a) => a = b
    <3> SUFFICES ASSUME NEW a \in restorable, Newest(a), a # b PROVE FALSE
      OBVIOUS
    <3>1. BlockIndex[b] <= BlockIndex[a] /\ BlockIndex[a] < BlockIndex[b]
      BY <2>4, <2>5
    <3>2. BlockIndex[a] \in Nat /\ BlockIndex[b] \in Nat
      BY <2>2, <2>5, BlocksAssumption
    <3> QED
      BY <3>1, <3>2
  <2>8. NewestBoundary(b) = CHOOSE a \in restorable : Newest(a)
    BY <2>4 DEF NewestBoundary
  <2>9. (CHOOSE a \in restorable : Newest(a)) = b
    <3> HIDE DEF Newest, restorable
    <3> QED
      BY <2>4, <2>6, <2>7
  <2> QED
    BY <2>8, <2>9 DEF LastRestored
<1> QED
  BY <1>1, StoreIsSound, PTL

(***************************************************************************)
(* A set of natural numbers that is not empty has a least element.         *)
(***************************************************************************)
LEMMA LeastNumber ==
    ASSUME NEW T \in SUBSET Nat, T # {}
    PROVE  \E n \in T : \A k \in T : n <= k
<1> DEFINE less == OpToRel(<, Nat)
<1>1. \A n, k \in Nat : <<n, k>> \in less <=> n < k
  BY DEF OpToRel
<1>2. IsWellFoundedOn(less, Nat)
  BY NatLessThanWellFounded
<1> HIDE DEF less
<1>3. PICK n \in T : \A k \in T : ~(<<k, n>> \in less)
  BY <1>2, WFMin
<1>4. ASSUME NEW k \in T PROVE n <= k
  <2>1. k \in Nat /\ n \in Nat
    OBVIOUS
  <2>2. ~(k < n)
    BY <1>1, <1>3, <2>1
  <2> QED
    BY <2>1, <2>2
<1> QED
  BY <1>4

(***************************************************************************)
(* A lookup of an indexed full block restores at least the deepest         *)
(* checkpoint of its chain.                                                *)
(***************************************************************************)
THEOREM RestartPointsStay == Spec => []RestartPointsAreKept
<1>1. IInv => RestartPointsAreKept
  <2> SUFFICES ASSUME IInv, at = "idle", ~faulted, NEW b \in tracked, NEW a \in Ancestry[b], IsCheckpoint(a)
               PROVE  NewestBoundary(b) # NoBlock /\ BlockIndex[NewestBoundary(b)] >= BlockIndex[a]
    BY DEF RestartPointsAreKept
  <2> USE DEF IInv
  <2>1. Trusted
    BY DEF Trusted
  <2>2. b \in Block /\ Ancestry[b] \subseteq tracked
    BY <2>1, IndexedChain DEF Shape
  <2> DEFINE restorable == {c \in Matched(b) : HasBoundary(c)}
             Newest(c) == \A d \in restorable : BlockIndex[d] <= BlockIndex[c]
             behind == {n \in Nat : \E c \in restorable : BlockIndex[c] + n = BlockIndex[b]}
  <2>3. Matched(b) = Ancestry[b]
    BY <2>1, WholeChainMatches
  <2>4. a \in restorable
    BY <2>1, <2>2, <2>3 DEF HasBoundary, IndexIsSound, GoodBnds
  <2>5. \A c \in restorable : /\ c \in Block /\ BlockIndex[c] \in Nat /\ BlockIndex[b] \in Nat
                              /\ BlockIndex[c] <= BlockIndex[b]
    BY <2>2, <2>3, ChainOfChain, ChainDescends, BlocksAssumption
  <2>6. \A c \in restorable : (BlockIndex[b] - BlockIndex[c]) \in behind
    BY <2>5
  <2>7. PICK n \in behind : \A k \in behind : n <= k
    BY <2>4, <2>6, LeastNumber
  <2>8. PICK c \in restorable : BlockIndex[c] + n = BlockIndex[b]
    BY <2>7
  <2>9. Newest(c)
    BY <2>5, <2>6, <2>7, <2>8
  <2>10. NewestBoundary(b) = CHOOSE d \in restorable : Newest(d)
    BY <2>4 DEF NewestBoundary
  <2>11. NewestBoundary(b) \in restorable /\ Newest(NewestBoundary(b))
    <3> HIDE DEF Newest, restorable
    <3> QED
      BY <2>8, <2>9, <2>10
  <2> QED
    BY <2>4, <2>5, <2>11, BlocksAssumption
<1> QED
  BY <1>1, StoreIsSound, PTL

-----------------------------------------------------------------------------
(* The ledger *)

\* The ages of the directories are their ranks.
Ranked == \A b \in Dirs : written[b] = Cardinality({c \in Dirs : written[c] < written[b]})

\* The bytes of the block directories, without abandoned staging.
OnDisk == BytesOf(Dirs, seqs, bnds)

\* The parent's boundary, for which the transaction was credited, can be reclaimed.
CreditIsHeld ==
    tx.credit > 0 => /\ Parent[tx.block] # NoBlock /\ ~IsCheckpoint(Parent[tx.block])
                     /\ Parent[tx.block] \in trackedBnd

\* The store is open exactly when it has a model, and the counters count.
Counters ==
    /\ active \in Model \cup {NoModel} /\ (at = "closed") = (active = NoModel)
    /\ total \in Nat /\ stale \in [Model -> Nat]
    /\ outcome \in [block : Block \cup {NoBlock}, result : Results]
    /\ disturbed \in 0..Disturbances

\* While the quota is enforced the total is exact, whatever disturbed the
\* store before.
TotalIsExact ==
    /\ at \notin {"closed", "idle"} => \A k \in Model : stale[k] = 0
    /\ at \in {"startupQuota", "compact", "retryQuota", "quota", "commit"} =>
          total = OnDisk
    /\ at \in {"startupQuota", "compact", "retryQuota"} => tx.block = NoBlock /\ tx.credit = 0
    /\ at \in {"quota", "commit"} /\ tx.boundaryOnly => tx.credit = 0
    /\ at = "commit" => Projected <= Maximum

\* What is on disk fits, save for what a committed block is credited.
DiskFits ==
    ~faulted =>
        /\ at \in {"quota", "commit", "reclaim"} => CreditIsHeld
        /\ at \in {"idle", "quota", "commit", "supersede"} => DiskBytes <= Maximum
        /\ at = "reclaim" => DiskBytes - tx.credit <= Maximum

Ledger == Counters /\ TotalIsExact /\ DiskFits

-----------------------------------------------------------------------------
(* Sums *)

\* The units that SumOver counts.
Laid(f, S) == UNION {{x} \X (1..f[x]) : x \in S}

(***************************************************************************)
(* A sum over a finite set of natural values is a natural number.          *)
(* DiskBytes and the quota's total are such sums.                          *)
(***************************************************************************)
LEMMA SumIsFinite ==
    ASSUME NEW S, IsFiniteSet(S), NEW f, \A x \in S : f[x] \in Nat
    PROVE  /\ IsFiniteSet(Laid(f, S)) /\ SumOver(f, S) = Cardinality(Laid(f, S))
           /\ SumOver(f, S) \in Nat
<1> DEFINE Column(x) == {x} \X (1..f[x])
           columns == {Column(x) : x \in S}
           g == [x \in S |-> Column(x)]
<1>1. g \in Surjection(S, columns)
  BY DEF Surjection
<1>2. IsFiniteSet(columns)
  <2> HIDE DEF g, columns
  <2> QED
    BY <1>1, FS_Surjection
<1>3. ASSUME NEW c \in columns PROVE IsFiniteSet(c)
  <2>1. PICK x \in S : c = {x} \X (1..f[x])
    OBVIOUS
  <2>2. f[x] \in Int /\ 1 \in Int
    OBVIOUS
  <2>3. IsFiniteSet({x}) /\ IsFiniteSet(1..f[x])
    BY <2>2, FS_Singleton, FS_Interval
  <2> QED
    BY <2>1, <2>3, FS_Product
<1>4. IsFiniteSet(UNION columns)
  <2> HIDE DEF columns
  <2> QED
    BY <1>2, <1>3, FS_UNION
<1>5. Cardinality(UNION columns) \in Nat
  <2> HIDE DEF columns
  <2> QED
    BY <1>4, FS_CardinalityType
<1> QED
  BY <1>4, <1>5 DEF SumOver, Laid

\* Functions that agree, or vanish where the other is not summed, have one sum.
LEMMA SumsAgree ==
    ASSUME NEW S, NEW T, NEW f, NEW g,
           \A x \in S : f[x] \in Nat /\ (IF x \in T THEN f[x] = g[x] ELSE f[x] = 0),
           \A x \in T : g[x] \in Nat /\ (IF x \in S THEN f[x] = g[x] ELSE g[x] = 0)
    PROVE  SumOver(f, S) = SumOver(g, T)
<1>1. \A x \in S : x \notin T => 1..f[x] = {}
  OBVIOUS
<1>2. \A x \in T : x \notin S => 1..g[x] = {}
  OBVIOUS
<1>3. UNION {{x} \X (1..f[x]) : x \in S} \subseteq UNION {{x} \X (1..g[x]) : x \in T}
  BY <1>1
<1>4. UNION {{x} \X (1..g[x]) : x \in T} \subseteq UNION {{x} \X (1..f[x]) : x \in S}
  BY <1>2
<1>5. UNION {{x} \X (1..f[x]) : x \in S} = UNION {{x} \X (1..g[x]) : x \in T}
  BY <1>3, <1>4
<1> QED
  BY <1>5 DEF SumOver

\* A sum over a set is the sum over a part and the sum over the rest.
LEMMA SumAddsUp ==
    ASSUME NEW S, IsFiniteSet(S), NEW f, \A x \in S : f[x] \in Nat, NEW T \in SUBSET S
    PROVE  SumOver(f, S) = SumOver(f, T) + SumOver(f, S \ T)
<1>1. IsFiniteSet(T) /\ IsFiniteSet(S \ T)
  BY FS_Subset, FS_Difference
<1>2. /\ IsFiniteSet(Laid(f, T)) /\ SumOver(f, T) = Cardinality(Laid(f, T)) /\ SumOver(f, T) \in Nat
      /\ SumOver(f, S) = Cardinality(Laid(f, S))
  BY <1>1, SumIsFinite
<1>3. /\ IsFiniteSet(Laid(f, S \ T)) /\ SumOver(f, S \ T) = Cardinality(Laid(f, S \ T))
      /\ SumOver(f, S \ T) \in Nat
  BY <1>1, SumIsFinite
<1>4. Laid(f, S) = Laid(f, T) \cup Laid(f, S \ T)
  BY DEF Laid
<1>5. Laid(f, T) \cap Laid(f, S \ T) = {}
  BY DEF Laid
<1>6. Cardinality(Laid(f, T) \cap Laid(f, S \ T)) = 0
  BY <1>5, FS_EmptySet
<1>7. Cardinality(Laid(f, T) \cup Laid(f, S \ T))
      = Cardinality(Laid(f, T)) + Cardinality(Laid(f, S \ T)) - Cardinality(Laid(f, T) \cap Laid(f, S \ T))
  BY <1>2, <1>3, FS_Union
<1> QED
  BY <1>2, <1>3, <1>4, <1>6, <1>7

\* The sum over one element is its value.
LEMMA SumOfOne ==
    ASSUME NEW x, NEW f, f[x] \in Nat
    PROVE  SumOver(f, {x}) = f[x]
<1>1. UNION {{y} \X (1..f[y]) : y \in {x}} = {x} \X (1..f[x])
  OBVIOUS
<1>2. IsFiniteSet({x}) /\ Cardinality({x}) = 1
  BY FS_Singleton
<1>3. IsFiniteSet(1..f[x]) /\ Cardinality(1..f[x]) = f[x]
  <2>1. 1 \in Int /\ f[x] \in Int
    OBVIOUS
  <2>2. IsFiniteSet(1..f[x]) /\ Cardinality(1..f[x]) = IF 1 > f[x] THEN 0 ELSE f[x] - 1 + 1
    BY <2>1, FS_Interval, Zenon
  <2> QED
    BY <2>2
<1>4. Cardinality({x} \X (1..f[x])) = Cardinality({x}) * Cardinality(1..f[x])
  BY <1>2, <1>3, FS_Product, Zenon
<1>5. Cardinality({x} \X (1..f[x])) = 1 * f[x]
  BY <1>2, <1>3, <1>4, Zenon
<1>6. 1 * f[x] = f[x]
  OBVIOUS
<1> QED
  BY <1>1, <1>5, <1>6 DEF SumOver

(***************************************************************************)
(* The bytes of a set of directories are a natural number.                 *)
(***************************************************************************)
LEMMA BytesAreCounted ==
    ASSUME NEW dirs \in SUBSET Block, NEW s, NEW n
    PROVE  BytesOf(dirs, s, n) \in Nat
<1> DEFINE f == [b \in dirs |-> (IF b \in s THEN Tokens[b] ELSE 0)
                                + (IF b \in n THEN BoundaryBytes ELSE 0)]
<1>1. IsFiniteSet(dirs)
  BY BlocksAssumption, FS_Subset
<1>2. \A b \in dirs : f[b] \in Nat
  BY BlocksAssumption
<1>3. BytesOf(dirs, s, n) = SumOver(f, dirs)
  BY DEF BytesOf
<1> HIDE DEF f
<1> QED
  BY <1>1, <1>2, <1>3, SumIsFinite

\* Only the state files inside the directories are counted.
LEMMA BytesOfTheSameFiles ==
    ASSUME NEW dirs \in SUBSET Block, NEW s, NEW n, NEW s2, NEW n2,
           dirs \cap s = dirs \cap s2, dirs \cap n = dirs \cap n2
    PROVE  BytesOf(dirs, s, n) = BytesOf(dirs, s2, n2)
<1>1. \A b \in dirs : (b \in s <=> b \in s2) /\ (b \in n <=> b \in n2)
  OBVIOUS
<1>2. [b \in dirs |-> (IF b \in s THEN Tokens[b] ELSE 0) + (IF b \in n THEN BoundaryBytes ELSE 0)]
      = [b \in dirs |-> (IF b \in s2 THEN Tokens[b] ELSE 0) + (IF b \in n2 THEN BoundaryBytes ELSE 0)]
  BY <1>1
<1> QED
  BY <1>2 DEF BytesOf

\* The bytes of a set of directories are those of a part and of the rest.
LEMMA BytesAddUp ==
    ASSUME NEW dirs \in SUBSET Block, NEW s, NEW n, NEW part \in SUBSET dirs
    PROVE  BytesOf(dirs, s, n) = BytesOf(part, s, n) + BytesOf(dirs \ part, s, n)
<1> DEFINE Weight(b) == (IF b \in s THEN Tokens[b] ELSE 0) + (IF b \in n THEN BoundaryBytes ELSE 0)
           f == [b \in dirs |-> Weight(b)]
           g == [b \in part |-> Weight(b)]
           h == [b \in dirs \ part |-> Weight(b)]
<1>0. \A b \in dirs : Weight(b) \in Nat
  BY BlocksAssumption
<1>1. IsFiniteSet(dirs) /\ \A b \in dirs : f[b] \in Nat
  BY <1>0, BlocksAssumption, FS_Subset
<1>2. SumOver(f, dirs) = SumOver(f, part) + SumOver(f, dirs \ part)
  BY <1>1, SumAddsUp
<1>3. /\ \A b \in part : f[b] = g[b] /\ f[b] \in Nat /\ g[b] \in Nat
      /\ \A b \in dirs \ part : f[b] = h[b] /\ f[b] \in Nat /\ h[b] \in Nat
  BY <1>0
<1>4. /\ BytesOf(dirs, s, n) = SumOver(f, dirs) /\ BytesOf(part, s, n) = SumOver(g, part)
      /\ BytesOf(dirs \ part, s, n) = SumOver(h, dirs \ part)
  BY DEF BytesOf
<1> HIDE DEF f, g, h
<1>5. SumOver(f, part) = SumOver(g, part)
  BY <1>3, SumsAgree
<1>6. SumOver(f, dirs \ part) = SumOver(h, dirs \ part)
  BY <1>3, SumsAgree
<1> QED
  BY <1>2, <1>4, <1>5, <1>6

\* One directory holds its sequence state and its boundary.
LEMMA BytesOfOne ==
    ASSUME NEW b \in Block, NEW s, NEW n
    PROVE  BytesOf({b}, s, n) = (IF b \in s THEN Tokens[b] ELSE 0)
                                + (IF b \in n THEN BoundaryBytes ELSE 0)
<1> DEFINE f == [c \in {b} |-> (IF c \in s THEN Tokens[c] ELSE 0)
                               + (IF c \in n THEN BoundaryBytes ELSE 0)]
<1>1. f[b] = (IF b \in s THEN Tokens[b] ELSE 0) + (IF b \in n THEN BoundaryBytes ELSE 0)
      /\ f[b] \in Nat
  BY BlocksAssumption
<1>2. BytesOf({b}, s, n) = SumOver(f, {b})
  BY DEF BytesOf
<1> HIDE DEF f
<1> QED
  BY <1>1, <1>2, SumOfOne

(***************************************************************************)
(* One boundary more or less is its bytes more or less.                    *)
(***************************************************************************)
LEMMA BytesOfABoundary ==
    ASSUME NEW dirs \in SUBSET Block, NEW s, NEW n, NEW b \in dirs, b \in n
    PROVE  BytesOf(dirs, s, n) = BytesOf(dirs, s, n \ {b}) + BoundaryBytes
<1>1. /\ BytesOf(dirs, s, n) = BytesOf({b}, s, n) + BytesOf(dirs \ {b}, s, n)
      /\ BytesOf(dirs, s, n \ {b}) = BytesOf({b}, s, n \ {b}) + BytesOf(dirs \ {b}, s, n \ {b})
  BY BytesAddUp
<1>2. BytesOf(dirs \ {b}, s, n) = BytesOf(dirs \ {b}, s, n \ {b})
  BY BytesOfTheSameFiles
<1>3. /\ BytesOf({b}, s, n) = (IF b \in s THEN Tokens[b] ELSE 0) + BoundaryBytes
      /\ BytesOf({b}, s, n \ {b}) = (IF b \in s THEN Tokens[b] ELSE 0) + 0
      /\ BytesOf(dirs \ {b}, s, n) \in Nat /\ Tokens[b] \in Nat /\ BoundaryBytes \in Nat
  BY BytesOfOne, BytesAreCounted, BlocksAssumption
<1> QED
  BY <1>1, <1>2, <1>3

(***************************************************************************)
(* Smaller values over fewer elements sum up to less: a removal never adds *)
(* bytes.                                                                  *)
(***************************************************************************)
LEMMA SumIsMonotone ==
    ASSUME NEW T, IsFiniteSet(T), NEW S \in SUBSET T, NEW f, NEW g,
           \A x \in T : g[x] \in Nat,
           \A x \in S : f[x] \in Nat /\ f[x] <= g[x]
    PROVE  SumOver(f, S) <= SumOver(g, T)
<1>1. IsFiniteSet(Laid(g, T)) /\ SumOver(g, T) = Cardinality(Laid(g, T))
  BY SumIsFinite
<1>2. Laid(f, S) \subseteq Laid(g, T)
  BY DEF Laid
<1>3. SumOver(f, S) = Cardinality(Laid(f, S))
  BY DEF SumOver, Laid
<1> QED
  BY <1>1, <1>2, <1>3, FS_Subset

\* Fewer directories with fewer files hold fewer bytes.
LEMMA FewerBytes ==
    ASSUME NEW dirs \in SUBSET Block, NEW s, NEW n, NEW part \in SUBSET dirs, NEW s2, NEW n2,
           s2 \subseteq s, n2 \subseteq n
    PROVE  BytesOf(part, s2, n2) <= BytesOf(dirs, s, n)
<1> DEFINE g == [b \in dirs |-> (IF b \in s THEN Tokens[b] ELSE 0)
                                + (IF b \in n THEN BoundaryBytes ELSE 0)]
           f == [b \in part |-> (IF b \in s2 THEN Tokens[b] ELSE 0)
                                + (IF b \in n2 THEN BoundaryBytes ELSE 0)]
<1>1. IsFiniteSet(dirs)
  BY BlocksAssumption, FS_Subset
<1>2. (\A b \in dirs : g[b] \in Nat) /\ \A b \in part : f[b] \in Nat /\ f[b] <= g[b]
  BY BlocksAssumption
<1>3. BytesOf(dirs, s, n) = SumOver(g, dirs) /\ BytesOf(part, s2, n2) = SumOver(f, part)
  BY DEF BytesOf
<1> HIDE DEF f, g
<1> QED
  BY <1>1, <1>2, <1>3, SumIsMonotone

(***************************************************************************)
(* There are finitely many models, as there are blocks.                    *)
(***************************************************************************)
LEMMA ModelsAreFinite == IsFiniteSet(Model)
<1> DEFINE g == [b \in Block |-> ModelOf[b]]
<1>1. g \in Surjection(Block, Model)
  BY DEF Surjection, Model
<1> HIDE DEF g
<1> QED
  BY <1>1, BlocksAssumption, FS_Surjection

\* The abandoned bytes are counted, and are nought once no model has any.
LEMMA StaleIsCounted ==
    ASSUME NEW f \in [Model -> Nat], NEW models \in SUBSET Model
    PROVE  /\ SumOver(f, models) \in Nat
           /\ (\A k \in models : f[k] = 0) => SumOver(f, models) = 0
<1>1. IsFiniteSet(models)
  BY ModelsAreFinite, FS_Subset
<1>2. SumOver(f, models) \in Nat
  BY <1>1, SumIsFinite
<1>3. ASSUME \A k \in models : f[k] = 0 PROVE SumOver(f, models) = 0
  <2>1. UNION {{x} \X (1..f[x]) : x \in models} = {}
    BY <1>3
  <2> QED
    BY <2>1, FS_EmptySet DEF SumOver
<1> QED
  BY <1>2, <1>3

-----------------------------------------------------------------------------
(* The order of the directories *)

(***************************************************************************)
(* Counting what is older turns any ages into ranks, of which the oldest   *)
(* is nought and none reaches the number of directories, and ranks are     *)
(* their own ranks.                                                        *)
(***************************************************************************)
LEMMA RanksAreRanked ==
    ASSUME NEW S, IsFiniteSet(S), NEW w, NEW r, \A b \in S : w[b] \in Nat,
           \A b \in S : r[b] = Cardinality({c \in S : w[c] < w[b]})
    PROVE  \A b \in S : /\ r[b] \in Nat /\ r[b] < Cardinality(S)
                        /\ r[b] = Cardinality({c \in S : r[c] < r[b]})
<1> DEFINE Older(b) == {c \in S : w[c] < w[b]}
<1>1. ASSUME NEW b \in S
      PROVE  IsFiniteSet(Older(b)) /\ Cardinality(Older(b)) \in Nat /\ r[b] = Cardinality(Older(b))
  <2>1. Older(b) \in SUBSET S
    OBVIOUS
  <2> QED
    BY <2>1, FS_Subset, FS_CardinalityType
<1>2. ASSUME NEW b \in S PROVE r[b] < Cardinality(S)
  <2>1. Older(b) \in SUBSET S /\ Older(b) # S
    <3>1. b \notin Older(b)
      OBVIOUS
    <3> QED
      BY <3>1
  <2>2. Cardinality(S) \in Nat
    BY FS_CardinalityType
  <2> HIDE DEF Older
  <2> QED
    BY <1>1, <2>1, <2>2, FS_Subset
<1>3. ASSUME NEW b \in S, NEW c \in S PROVE r[c] < r[b] <=> w[c] < w[b]
  <2>1. ASSUME w[c] < w[b] PROVE r[c] < r[b]
    <3>1. Older(c) \subseteq Older(b)
      BY <2>1
    <3>2. c \in Older(b) /\ c \notin Older(c)
      BY <2>1
    <3> HIDE DEF Older
    <3> QED
      BY <1>1, <3>1, <3>2, FS_Subset
  <2>2. ASSUME ~(w[c] < w[b]) PROVE ~(r[c] < r[b])
    <3>1. Older(b) \subseteq Older(c)
      BY <2>2
    <3> HIDE DEF Older
    <3> QED
      BY <1>1, <3>1, FS_Subset
  <2> QED
    BY <2>1, <2>2
<1>4. ASSUME NEW b \in S PROVE {c \in S : r[c] < r[b]} = {c \in S : w[c] < w[b]}
  BY <1>3
<1> HIDE DEF Older
<1> QED
  BY <1>1, <1>2, <1>4

\* The ages of the directories on disk are natural numbers.
LEMMA AgesAreNumbers ==
    ASSUME Shape, Ranked
    PROVE  /\ IsFiniteSet(Dirs)
           /\ \A b \in Dirs : written[b] \in Nat
<1>1. IsFiniteSet(Dirs)
  BY BlocksAssumption, FS_Subset DEF Shape
<1>2. ASSUME NEW b \in Dirs PROVE written[b] \in Nat
  <2>1. {c \in Dirs : written[c] < written[b]} \in SUBSET Dirs
    OBVIOUS
  <2> QED
    BY <1>1, <2>1, FS_Subset, FS_CardinalityType DEF Ranked
<1> QED
  BY <1>1, <1>2

\* A removal closes the gaps it leaves.
LEMMA RanksAfterRemoval ==
    ASSUME Shape, Ranked, NEW removed, written' = Without(removed)
    PROVE  Ranked'
<1> DEFINE left == Dirs \ removed
<1>1. Dirs' = left /\ \A b \in left : written'[b] = Cardinality({c \in left : written[c] < written[b]})
  BY DEF Without, Dirs
<1>2. IsFiniteSet(left) /\ \A b \in left : written[b] \in Nat
  BY AgesAreNumbers, FS_Difference
<1> HIDE DEF left
<1>3. \A b \in left : written'[b] = Cardinality({c \in left : written'[c] < written'[b]})
  BY <1>1, <1>2, RanksAreRanked
<1> QED
  BY <1>1, <1>3 DEF Ranked

\* A directory that is written to becomes the newest.
LEMMA RanksAfterWriting ==
    ASSUME Shape, Ranked, NEW b \in Block, written' = Touched(b)
    PROVE  Ranked'
<1> DEFINE others == Dirs \ {b}
<1>1. PICK w : w = written'
  OBVIOUS
<1>2. /\ Dirs' = others \cup {b} /\ b \notin others /\ w[b] = Cardinality(others)
      /\ \A c \in others : w[c] = Cardinality({d \in others : written[d] < written[c]})
  BY <1>1 DEF Touched, Dirs
<1>3. IsFiniteSet(others) /\ \A c \in others : written[c] \in Nat
  BY AgesAreNumbers, FS_Difference
<1> HIDE DEF others
<1>4. \A c \in others : /\ w[c] \in Nat /\ w[c] < Cardinality(others)
                        /\ w[c] = Cardinality({d \in others : w[d] < w[c]})
  BY <1>2, <1>3, RanksAreRanked
<1>5. w[b] \in Nat
  BY <1>2, <1>3, FS_CardinalityType
<1>6. \A c \in others : w[c] \in Nat /\ w[c] < w[b]
  BY <1>2, <1>4
<1>7. {d \in others \cup {b} : w[d] < w[b]} = others
  BY <1>2, <1>5, <1>6
<1>8. ASSUME NEW c \in others
      PROVE  {d \in others \cup {b} : w[d] < w[c]} = {d \in others : w[d] < w[c]}
  <2>1. ~(w[b] < w[c])
    BY <1>5, <1>6
  <2> QED
    BY <2>1
<1>9. \A c \in others \cup {b} : w[c] = Cardinality({d \in others \cup {b} : w[d] < w[c]})
  BY <1>2, <1>4, <1>7, <1>8
<1> QED
  BY <1>1, <1>2, <1>9 DEF Ranked

(***************************************************************************)
(* Every step removes directories, writes to one, or leaves their ages     *)
(* alone.                                                                  *)
(***************************************************************************)
LEMMA RanksAreKept ==
    ASSUME IInv, Ranked, [Next]_vars
    PROVE  Ranked'
<1>1. \/ written' = written
      \/ \E removed : written' = Without(removed)
      \/ \E b : written' = Touched(b) /\ b \in Block
  <2> USE DEF RemoveDirectories, diskVars
  <2>1. CASE Startup
    <3>1. Compactable \subseteq Block
      BY DEF Compactable, IInv, Shape
    <3> QED
      BY <2>1, <3>1 DEF Startup, CompactBoundary, CompactionEnds, OpenScan
  <2>2. CASE Quota
    BY <2>2 DEF Quota, Evict, EvictFails, QuotaFits, QuotaNotSatisfied
  <2>3. CASE Commit
    BY <2>3 DEF Commit, CommitBlock, CommitBoundary, CommitFails, IInv, Shape
  <2>4. CASE Retain
    BY <2>4 DEF Retain, ReclaimParentBoundary, NothingToReclaim, Supersede, IInv, Shape
  <2>5. CASE Crash
    BY <2>5 DEF Crash
  <2>6. ASSUME NEW b \in Block, Publish(b) \/ LoadBadFile(b) \/ Outsider(b)
        PROVE  written' = written \/ (\E removed : written' = Without(removed)) \/ written' = Touched(b)
    BY <2>6 DEF Publish, PublishExisting, PublishBoundary, PublishNew, LoadBadFile, Outsider,
                OutsiderRemoves, OutsiderSpoils
  <2>7. ASSUME NEW cleared, Clear(cleared) PROVE \E removed : written' = Without(removed)
    BY <2>7 DEF Clear
  <2>8. CASE UNCHANGED vars
    BY <2>8 DEF vars
  <2> QED
    BY <2>1, <2>2, <2>3, <2>4, <2>5, <2>6, <2>7, <2>8 DEF Next
<1>2. CASE written' = written
  BY <1>2 DEF Ranked, Dirs
<1>3. ASSUME NEW removed, written' = Without(removed) PROVE Ranked'
  BY <1>3, RanksAfterRemoval DEF IInv
<1>4. ASSUME NEW b \in Block, written' = Touched(b) PROVE Ranked'
  BY <1>4, RanksAfterWriting DEF IInv
<1> QED
  BY <1>1, <1>2, <1>3, <1>4

-----------------------------------------------------------------------------
(* The steps of the ledger *)

(***************************************************************************)
(* What is on disk is the bytes of the block directories and of the        *)
(* abandoned staging directories.                                          *)
(***************************************************************************)
LEMMA DiskIsCounted ==
    ASSUME Shape, Counters
    PROVE  /\ OnDisk \in Nat /\ SumOver(stale, Model) \in Nat
           /\ DiskBytes = OnDisk + SumOver(stale, Model)
           /\ (\A k \in Model : stale[k] = 0) => DiskBytes = OnDisk
<1>1. OnDisk \in Nat
  BY BytesAreCounted DEF Shape, OnDisk
<1>2. SumOver(stale, Model) \in Nat /\ ((\A k \in Model : stale[k] = 0) => SumOver(stale, Model) = 0)
  BY StaleIsCounted DEF Counters
<1> QED
  BY <1>1, <1>2 DEF DiskBytes, OnDisk

\* The same after the step.
LEMMA DiskIsCountedNext ==
    ASSUME Shape', Counters'
    PROVE  /\ OnDisk' \in Nat /\ SumOver(stale', Model) \in Nat
           /\ DiskBytes' = OnDisk' + SumOver(stale', Model)
           /\ (\A k \in Model : stale'[k] = 0) => DiskBytes' = OnDisk'
<1>1. OnDisk' \in Nat
  BY BytesAreCounted DEF Shape, OnDisk
<1>2. SumOver(stale', Model) \in Nat /\ ((\A k \in Model : stale'[k] = 0) => SumOver(stale', Model) = 0)
  BY StaleIsCounted DEF Counters
<1> QED
  BY <1>1, <1>2 DEF DiskBytes, OnDisk

(***************************************************************************)
(* Removed directories take their bytes with them.                         *)
(***************************************************************************)
LEMMA BytesAfterRemoval ==
    ASSUME Shape, NEW removed, RemoveDirectories(removed)
    PROVE  /\ OnDisk' = BytesOf(Dirs \ removed, seqs, bnds)
           /\ OnDisk' \in Nat /\ OnDisk' <= OnDisk
           /\ removed \subseteq Dirs => OnDisk' = OnDisk - BytesOf(removed, seqs, bnds)
<1>1. Dirs' = Dirs \ removed /\ seqs' = seqs \ removed /\ bnds' = bnds \ removed
  BY Removal DEF RemoveDirectories
<1>2. Dirs \in SUBSET Block /\ Dirs \ removed \in SUBSET Block
  BY DEF Shape
<1>3. BytesOf(Dirs \ removed, seqs \ removed, bnds \ removed) = BytesOf(Dirs \ removed, seqs, bnds)
  BY <1>2, BytesOfTheSameFiles
<1>4. OnDisk' = BytesOf(Dirs \ removed, seqs, bnds)
  BY <1>1, <1>3 DEF OnDisk
<1>5. BytesOf(Dirs \ removed, seqs, bnds) \in Nat /\ BytesOf(Dirs \ removed, seqs, bnds) <= OnDisk
  BY <1>2, BytesAreCounted, FewerBytes DEF OnDisk
<1>6. ASSUME removed \subseteq Dirs PROVE OnDisk' = OnDisk - BytesOf(removed, seqs, bnds)
  <2>1. OnDisk = BytesOf(removed, seqs, bnds) + BytesOf(Dirs \ removed, seqs, bnds)
    BY <1>2, <1>6, BytesAddUp DEF OnDisk
  <2>2. BytesOf(removed, seqs, bnds) \in Nat
    BY <1>2, <1>6, BytesAreCounted
  <2> QED
    BY <1>4, <1>5, <2>1, <2>2
<1> QED
  BY <1>4, <1>5, <1>6

\* A committed block adds both its files.
LEMMA BytesAfterCommit ==
    ASSUME Shape, Shape', NEW b \in Block, b \notin Dirs, Dirs' = Dirs \cup {b},
           seqs' = seqs \cup {b}, bnds' = bnds \cup {b}
    PROVE  OnDisk' = OnDisk + Tokens[b] + BoundaryBytes
<1>1. Dirs \in SUBSET Block /\ Dirs' \in SUBSET Block /\ Dirs' \ {b} = Dirs /\ {b} \in SUBSET Dirs'
  BY DEF Shape
<1>2. BytesOf(Dirs', seqs', bnds') = BytesOf({b}, seqs', bnds') + BytesOf(Dirs' \ {b}, seqs', bnds')
  BY <1>1, BytesAddUp
<1>3. BytesOf(Dirs, seqs', bnds') = BytesOf(Dirs, seqs, bnds)
  <2>1. Dirs \cap seqs' = Dirs \cap seqs /\ Dirs \cap bnds' = Dirs \cap bnds
    OBVIOUS
  <2> QED
    BY <1>1, <2>1, BytesOfTheSameFiles
<1>4. BytesOf({b}, seqs', bnds') = Tokens[b] + BoundaryBytes
  BY BytesOfOne
<1>5. BytesOf(Dirs, seqs, bnds) \in Nat /\ Tokens[b] \in Nat /\ BoundaryBytes \in Nat
  BY <1>1, BytesAreCounted, BlocksAssumption
<1>6. BytesOf(Dirs' \ {b}, seqs', bnds') = BytesOf(Dirs, seqs, bnds)
  BY <1>1, <1>3, Zenon
<1>7. BytesOf(Dirs', seqs', bnds') = (Tokens[b] + BoundaryBytes) + BytesOf(Dirs, seqs, bnds)
  BY <1>2, <1>4, <1>6, Zenon
<1>8. \A x \in Nat, y \in Nat, z \in Nat : (y + z) + x = x + y + z
  OBVIOUS
<1>9. OnDisk' = (Tokens[b] + BoundaryBytes) + OnDisk /\ OnDisk \in Nat
  BY <1>5, <1>7, Zenon DEF OnDisk
<1> QED
  BY <1>5, <1>8, <1>9, Zenon

\* Files that only disappear take bytes away.
LEMMA BytesAfterLoss ==
    ASSUME Shape, Dirs' = Dirs, seqs' \subseteq seqs, bnds' \subseteq bnds
    PROVE  OnDisk' \in Nat /\ OnDisk' <= OnDisk
BY BytesAreCounted, FewerBytes DEF Shape, OnDisk

\* A process that is gone has nothing to account for.
LEMMA ClosedLedger ==
    ASSUME Counters, Closed, stale' \in [Model -> Nat], disturbed' \in 0..Disturbances
    PROVE  Ledger'
<1>1. at' = "closed" /\ active' = NoModel /\ total' = 0 /\ outcome' = NoOutcome
  BY DEF Closed
<1>2. Counters'
  BY <1>1 DEF Counters, NoOutcome, Results
<1>3. TotalIsExact' /\ DiskFits'
  BY <1>1 DEF TotalIsExact, DiskFits
<1> QED
  BY <1>2, <1>3 DEF Ledger

\* A disturbed store that has returned accounts for nothing.
LEMMA FaultedLedger ==
    ASSUME Counters', at' \in {"idle", "closed"}, faulted' = TRUE
    PROVE  Ledger'
<1>1. TotalIsExact' /\ DiskFits'
  BY DEF TotalIsExact, DiskFits
<1> QED
  BY <1>1 DEF Ledger

\* An idle store accounts for what is on disk, if nothing disturbed it.
LEMMA IdleLedger ==
    ASSUME Counters', at' = "idle", ~faulted' => DiskBytes' <= Maximum
    PROVE  Ledger'
<1>1. TotalIsExact' /\ DiskFits'
  BY DEF TotalIsExact, DiskFits
<1> QED
  BY <1>1 DEF Ledger

\* What a return reports is a result.
LEMMA ReturnedOutcome ==
    ASSUME NEW b \in Block \cup {NoBlock}, NEW result \in Results, Returns(b, result)
    PROVE  outcome' \in [block : Block \cup {NoBlock}, result : Results] /\ at' = "idle"
BY DEF Returns

\* A disturbance is counted.
LEMMA DisturbCounts ==
    ASSUME Counters, Disturb
    PROVE  disturbed' \in 0..Disturbances /\ faulted' = TRUE
BY BlocksAssumption DEF Counters, Disturb

\* The scan of open counts what it leaves.
LEMMA OpenScanCounts ==
    ASSUME IInv, IInv', Ledger, NEW m \in Model, OpenScan(m)
    PROVE  Ledger'
<1> DEFINE found == {b \in Dirs : ModelOf[b] = m}
           kept == Reconciled(found)
<1>1. /\ RemoveDirectories(found \ kept) /\ total' = BytesOf(Dirs \ (found \ kept), seqs, bnds)
      /\ tx' = [NoTx EXCEPT !.protected = kept] /\ stale' = [n \in Model |-> 0]
      /\ active' = m /\ at' = "startupQuota" /\ outcome' = NoOutcome /\ disturbed' = disturbed
  BY DEF OpenScan, histVars, faultVars
<1>2. total' = OnDisk' /\ OnDisk' \in Nat
  <2> HIDE DEF kept, found
  <2> QED
    BY <1>1, BytesAfterRemoval DEF IInv
<1>3. Counters'
  BY <1>1, <1>2, BlocksAssumption DEF Ledger, Counters, NoOutcome, Results
<1>4. TotalIsExact'
  BY <1>1, <1>2 DEF TotalIsExact, NoTx
<1>5. DiskFits'
  BY <1>1 DEF DiskFits
<1> QED
  BY <1>3, <1>4, <1>5 DEF Ledger

\* A compacted boundary leaves the total with its bytes.
LEMMA CompactBoundaryCounts ==
    ASSUME IInv, IInv', Ledger, CompactBoundary
    PROVE  Ledger'
<1>1. PICK b \in Compactable : bnds' = bnds \ {b} /\ written' = Touched(b)
  BY DEF CompactBoundary
<1>2. /\ at = "compact" /\ at' = at /\ total' = total - BoundaryBytes
      /\ UNCHANGED <<seqs, stale, active, tx, outcome, faulted, disturbed>>
  BY DEF CompactBoundary, faultVars
<1>3. b \in bnds /\ b \in Dirs /\ Dirs \in SUBSET Block
  BY <1>2 DEF IInv, Compactable, IndexIsSound, Trusted, GoodBnds, Shape
<1>4. Dirs' = Dirs
  BY <1>1, <1>3, Writing
<1>5. OnDisk = OnDisk' + BoundaryBytes
  BY <1>1, <1>2, <1>3, <1>4, BytesOfABoundary DEF OnDisk
<1>6. OnDisk' \in Nat /\ total = OnDisk /\ BoundaryBytes \in Nat
  BY <1>1, <1>2, <1>4, BytesAfterLoss, BlocksAssumption DEF IInv, Ledger, TotalIsExact
<1>7. total' = OnDisk'
  <2>1. PICK left \in Nat : left = OnDisk'
    BY <1>6
  <2>2. total = left + BoundaryBytes /\ total' = total - BoundaryBytes
    BY <1>2, <1>5, <1>6, <2>1
  <2>3. \A x \in Nat, y \in Nat : x + y - y = x
    OBVIOUS
  <2>4. total' = left
    BY <1>6, <2>2, <2>3
  <2> QED
    BY <2>1, <2>4
<1>8. Counters'
  BY <1>2, <1>6, <1>7 DEF Ledger, Counters
<1>9. TotalIsExact' /\ DiskFits'
  BY <1>2, <1>7 DEF Ledger, TotalIsExact, DiskFits
<1> QED
  BY <1>8, <1>9 DEF Ledger

\* The end of the compaction measures the disk again.
LEMMA CompactionEndsCounts ==
    ASSUME IInv, IInv', Ledger, CompactionEnds
    PROVE  Ledger'
<1>1. /\ at = "compact" /\ at' = "retryQuota" /\ total' = DiskBytes
      /\ UNCHANGED <<written, seqs, bnds, stale, active, tx, outcome, faulted, disturbed>>
  BY DEF CompactionEnds, diskVars, indexVars, histVars, faultVars
<1>2. OnDisk' = OnDisk
  BY <1>1 DEF OnDisk, Dirs
<1>3. total' = OnDisk /\ OnDisk \in Nat
  BY <1>1, DiskIsCounted DEF IInv, Ledger, TotalIsExact
<1>4. Counters'
  BY <1>1, <1>3 DEF Ledger, Counters
<1>5. TotalIsExact' /\ DiskFits'
  BY <1>1, <1>2, <1>3 DEF Ledger, TotalIsExact, DiskFits
<1> QED
  BY <1>4, <1>5 DEF Ledger

\* A publication that finds its block leaves the disk alone.
LEMMA PublishExistingCounts ==
    ASSUME IInv, IInv', Ledger, NEW b \in Block, PublishExisting(b)
    PROVE  Ledger'
<1>1. /\ at = "idle"
      /\ UNCHANGED <<written, seqs, bnds, stale, active, total, faulted, disturbed>>
  BY DEF PublishExisting, diskVars, indexVars, faultVars
<1>2. at' = "idle" /\ outcome' \in [block : Block \cup {NoBlock}, result : Results]
  BY DEF PublishExisting, Returns, Results
<1>3. Counters'
  BY <1>1, <1>2 DEF Ledger, Counters
<1>4. DiskBytes' = DiskBytes
  BY <1>1 DEF DiskBytes, Dirs
<1> QED
  BY <1>1, <1>2, <1>3, <1>4, IdleLedger DEF Ledger, DiskFits

\* A publication starts from the bytes that are there.
LEMMA PublishBoundaryCounts ==
    ASSUME IInv, IInv', Ledger, NEW b \in Block, PublishBoundary(b)
    PROVE  Ledger'
<1>1. /\ at = "idle" /\ at' = "quota" /\ total' = OnDisk
      /\ tx'.boundaryOnly /\ tx'.credit = 0
      /\ stale' = [m \in Model |-> 0] /\ outcome' = NoOutcome
      /\ UNCHANGED <<written, seqs, bnds, active, faulted, disturbed>>
  BY DEF PublishBoundary, StartQuota, diskVars, indexVars, histVars, faultVars, OnDisk
<1>2. OnDisk' = OnDisk
  BY <1>1 DEF OnDisk, Dirs
<1>3. OnDisk \in Nat /\ SumOver(stale, Model) \in Nat /\ DiskBytes = OnDisk + SumOver(stale, Model)
  BY DiskIsCounted DEF IInv, Ledger
<1>4. Counters'
  BY <1>1, <1>3 DEF Ledger, Counters, NoOutcome, Results
<1>5. DiskBytes' = OnDisk
  BY <1>1, <1>2, <1>4, DiskIsCountedNext DEF IInv
<1>6. OnDisk <= DiskBytes
  BY <1>3
<1>7. TotalIsExact'
  BY <1>1, <1>2 DEF TotalIsExact
<1>8. ~faulted => OnDisk <= Maximum
  BY <1>1, <1>3, <1>6, BlocksAssumption DEF Ledger, DiskFits
<1>9. DiskFits'
  BY <1>1, <1>5, <1>8 DEF DiskFits, CreditIsHeld
<1> QED
  BY <1>4, <1>7, <1>9 DEF Ledger

\* A new block is credited only for a boundary of its parent that is indexed.
LEMMA PublishNewCounts ==
    ASSUME IInv, IInv', Ledger, NEW b \in Block, PublishNew(b)
    PROVE  Ledger'
<1> DEFINE known == IF b \in tracked THEN DiskBytes ELSE total
<1>1. /\ at = "idle" /\ trackedBnd' = trackedBnd \ {b}
      /\ UNCHANGED <<written, seqs, bnds, active, faulted, disturbed>>
  BY DEF PublishNew, UntrackBlocks, histVars, faultVars
<1>2. OnDisk' = OnDisk
  BY <1>1 DEF OnDisk, Dirs
<1>3. OnDisk \in Nat /\ SumOver(stale, Model) \in Nat /\ DiskBytes = OnDisk + SumOver(stale, Model)
  BY DiskIsCounted DEF IInv, Ledger
<1>4. CASE Returns(b, "failed") /\ total' = known /\ stale' = stale
  <2>1. at' = "idle" /\ outcome' \in [block : Block \cup {NoBlock}, result : Results]
    BY <1>4, ReturnedOutcome DEF Results
  <2>2. total' \in Nat
    BY <1>3, <1>4 DEF Ledger, Counters
  <2>3. Counters'
    BY <1>1, <1>4, <2>1, <2>2 DEF Ledger, Counters
  <2>4. DiskBytes' = DiskBytes
    BY <1>1, <1>4 DEF DiskBytes, Dirs
  <2> QED
    BY <1>1, <2>1, <2>3, <2>4, IdleLedger DEF Ledger, DiskFits
<1>5. CASE \E protected : StartQuota(b, FALSE, Credit(b, known), protected)
  <2>1. /\ at' = "quota" /\ tx'.block = b /\ ~tx'.boundaryOnly /\ tx'.credit = Credit(b, known)
        /\ stale' = [m \in Model |-> 0] /\ total' = OnDisk /\ outcome' = NoOutcome
    BY <1>5 DEF StartQuota, OnDisk
  <2>2. Counters'
    BY <1>1, <1>3, <2>1 DEF Ledger, Counters, NoOutcome, Results
  <2>3. DiskBytes' = OnDisk
    BY <1>2, <2>1, <2>2, DiskIsCountedNext DEF IInv
  <2>4. TotalIsExact'
    BY <1>2, <2>1 DEF TotalIsExact
  <2>5. Parent[b] # NoBlock => Parent[b] # b
    BY BlocksAssumption
  <2>6. CreditIsHeld'
    BY <1>1, <2>1, <2>5 DEF CreditIsHeld, Credit, ParentBoundaryReclaim
  <2>7. ~faulted => OnDisk <= Maximum
    <3>1. OnDisk <= DiskBytes
      BY <1>3
    <3> QED
      BY <1>1, <1>3, <3>1, BlocksAssumption DEF Ledger, DiskFits
  <2>8. DiskFits'
    BY <1>1, <2>1, <2>3, <2>6, <2>7 DEF DiskFits
  <2> QED
    BY <2>2, <2>4, <2>8 DEF Ledger
<1> QED
  BY <1>4, <1>5 DEF PublishNew

\* An eviction leaves the total with the bytes of the subtree, and not the
\* parent that the publication protects.
LEMMA EvictCounts ==
    ASSUME IInv, IInv', Ledger, Evict
    PROVE  Ledger'
<1>1. PICK root \in Evictable :
         /\ RemoveDirectories(Subtree(root)) /\ UntrackBlocks(Subtree(root))
         /\ total' = total - BytesOf(Subtree(root), seqs, bnds)
  BY DEF Evict
<1>2. PICK removed : removed = Subtree(root)
  OBVIOUS
<1>3. /\ RemoveDirectories(removed) /\ total' = total - BytesOf(removed, seqs, bnds)
      /\ trackedBnd' = trackedBnd \ removed
      /\ removed \cap tx.protected = {} /\ removed \subseteq Dirs
  BY <1>1, <1>2 DEF UntrackBlocks, Evictable, Subtree
<1>4. /\ at \in {"startupQuota", "retryQuota", "quota"}
      /\ UNCHANGED <<stale, active, at, tx, outcome, faulted, disturbed>>
  BY DEF Evict, Enforcing, faultVars
<1>5. total = OnDisk /\ \A k \in Model : stale[k] = 0
  BY <1>4 DEF Ledger, TotalIsExact
<1>6. OnDisk' \in Nat /\ OnDisk' <= OnDisk /\ OnDisk' = OnDisk - BytesOf(removed, seqs, bnds)
  BY <1>3, BytesAfterRemoval DEF IInv
<1>7. total' = OnDisk'
  BY <1>3, <1>5, <1>6
<1>8. Counters'
  BY <1>4, <1>6, <1>7 DEF Ledger, Counters
<1>9. TotalIsExact'
  BY <1>4, <1>7 DEF Ledger, TotalIsExact
<1>10. DiskBytes' = OnDisk' /\ DiskBytes = OnDisk /\ OnDisk \in Nat
  BY <1>4, <1>5, <1>8, DiskIsCounted, DiskIsCountedNext DEF IInv, Ledger
<1>11. ASSUME ~faulted, at = "quota" PROVE CreditIsHeld'
  <2> SUFFICES ASSUME tx.credit > 0
               PROVE  /\ Parent[tx.block] # NoBlock /\ ~IsCheckpoint(Parent[tx.block])
                      /\ Parent[tx.block] \in trackedBnd'
    BY <1>4 DEF CreditIsHeld
  <2>1. ~tx.boundaryOnly
    BY <1>11 DEF Ledger, TotalIsExact
  <2>2. /\ Parent[tx.block] # NoBlock /\ ~IsCheckpoint(Parent[tx.block])
        /\ Parent[tx.block] \in trackedBnd
    BY <1>11 DEF Ledger, DiskFits, CreditIsHeld
  <2>3. Parent[tx.block] \in tx.protected
    BY <1>11, <2>1, <2>2 DEF IInv, TransactionIsAnchored, Trusted, Adding
  <2> QED
    BY <1>3, <2>2, <2>3
<1>12. ASSUME ~faulted, at = "quota" PROVE DiskBytes' <= Maximum
  BY <1>6, <1>10, <1>12, BlocksAssumption DEF Ledger, DiskFits
<1>13. DiskFits'
  BY <1>4, <1>11, <1>12 DEF DiskFits
<1> QED
  BY <1>8, <1>9, <1>13 DEF Ledger

\* An eviction that stops half way is a disturbance.
LEMMA EvictFailsCounts ==
    ASSUME IInv, IInv', Ledger, EvictFails
    PROVE  Ledger'
<1>1. disturbed' \in 0..Disturbances /\ faulted' = TRUE /\ stale' = stale
  BY DisturbCounts DEF EvictFails, Ledger
<1>2. CASE at = "quota"
  <2>1. Returns(tx.block, "failed") /\ UNCHANGED <<active, total>>
    BY <1>2 DEF EvictFails
  <2>2. at' = "idle" /\ outcome' \in [block : Block \cup {NoBlock}, result : Results]
    BY <2>1, ReturnedOutcome DEF Results, IInv, Shape
  <2>3. Counters'
    BY <1>1, <1>2, <2>1, <2>2 DEF Ledger, Counters
  <2> QED
    BY <1>1, <2>2, <2>3, FaultedLedger
<1>3. CASE at # "quota"
  <2>1. Closed
    BY <1>3 DEF EvictFails
  <2> QED
    BY <1>1, <2>1, ClosedLedger DEF Ledger, Counters
<1> QED
  BY <1>2, <1>3

\* What fits is committed; what open leaves fits.
LEMMA QuotaFitsCounts ==
    ASSUME IInv, IInv', Ledger, QuotaFits
    PROVE  Ledger'
<1>1. /\ at \in {"startupQuota", "retryQuota", "quota"} /\ Projected <= Maximum
      /\ UNCHANGED <<written, seqs, bnds, stale, active, trackedBnd, total, outcome, disturbed>>
  BY DEF QuotaFits, Enforcing, diskVars, indexVars
<1>2. OnDisk' = OnDisk /\ DiskBytes' = DiskBytes
  BY <1>1 DEF OnDisk, DiskBytes, Dirs
<1>3. total = OnDisk /\ DiskBytes = OnDisk /\ OnDisk \in Nat
  BY <1>1, DiskIsCounted DEF IInv, Ledger, TotalIsExact
<1>4. CASE at = "quota"
  <2>1. at' = "commit" /\ tx' = tx /\ faulted' = faulted
    BY <1>4 DEF QuotaFits
  <2>2. Counters'
    BY <1>1, <1>4, <2>1 DEF Ledger, Counters
  <2>3. Projected' = Projected
    BY <1>1, <2>1 DEF Projected, AddedBytes
  <2>4. TotalIsExact'
    BY <1>1, <1>2, <1>3, <1>4, <2>1, <2>3 DEF Ledger, TotalIsExact
  <2>5. DiskFits'
    BY <1>1, <1>2, <1>4, <2>1 DEF Ledger, DiskFits, CreditIsHeld
  <2> QED
    BY <2>2, <2>4, <2>5 DEF Ledger
<1>5. CASE at # "quota"
  <2>1. at' = "idle" /\ tx.block = NoBlock /\ tx.credit = 0
    BY <1>1, <1>5 DEF QuotaFits, Ledger, TotalIsExact
  <2>2. Counters'
    BY <1>1, <1>5, <2>1 DEF Ledger, Counters
  <2>3. DiskBytes' <= Maximum
    BY <1>1, <1>2, <1>3, <2>1 DEF Projected, AddedBytes
  <2> QED
    BY <2>1, <2>2, <2>3, IdleLedger
<1> QED
  BY <1>4, <1>5

\* Where nothing more can be evicted the publication leaves no trace.
LEMMA QuotaNotSatisfiedCounts ==
    ASSUME IInv, IInv', Ledger, QuotaNotSatisfied
    PROVE  Ledger'
<1>1. UNCHANGED <<written, seqs, bnds, stale, faulted, disturbed>>
  BY DEF QuotaNotSatisfied, diskVars, histVars, faultVars
<1>2. OnDisk' = OnDisk /\ DiskBytes' = DiskBytes
  BY <1>1 DEF OnDisk, DiskBytes, Dirs
<1>3. CASE at = "quota" /\ Returns(tx.block, "unsatisfied") /\ UNCHANGED <<active, total>>
  <2>1. at' = "idle" /\ outcome' \in [block : Block \cup {NoBlock}, result : Results]
    BY <1>3, ReturnedOutcome DEF Results, IInv, Shape
  <2>2. Counters'
    BY <1>1, <1>3, <2>1 DEF Ledger, Counters
  <2> QED
    BY <1>1, <1>2, <1>3, <2>1, <2>2, IdleLedger DEF Ledger, DiskFits
<1>4. CASE at = "startupQuota" /\ at' = "compact" /\ UNCHANGED <<active, tx, outcome, total>>
  <2>1. Counters'
    BY <1>1, <1>4 DEF Ledger, Counters
  <2>2. TotalIsExact' /\ DiskFits'
    BY <1>1, <1>2, <1>4 DEF Ledger, TotalIsExact, DiskFits
  <2> QED
    BY <2>1, <2>2 DEF Ledger
<1>5. CASE Closed
  BY <1>1, <1>5, ClosedLedger DEF Ledger, Counters
<1> QED
  BY <1>3, <1>4, <1>5 DEF QuotaNotSatisfied

(***************************************************************************)
(* A committed block adds what was projected, and where that is too much   *)
(* its parent's boundary is there to be given back.                        *)
(***************************************************************************)
LEMMA CommitBlockCounts ==
    ASSUME IInv, IInv', Ledger, CommitBlock
    PROVE  Ledger'
<1>1. PICK b : b = tx.block
  OBVIOUS
<1>2. /\ at = "commit" /\ ~tx.boundaryOnly /\ b \notin Dirs /\ written' = Touched(b)
      /\ seqs' = seqs \cup {b} /\ bnds' = bnds \cup {b}
      /\ UNCHANGED <<stale, active, total>>
  BY <1>1 DEF CommitBlock
<1>3. b \in Block /\ b # NoBlock /\ tx.credit \in {0, BoundaryBytes}
  BY <1>1, <1>2, BlocksAssumption DEF IInv, Shape
<1>4. CASE Returns(b, "failed") /\ Disturb
  <2>1. at' = "idle" /\ outcome' \in [block : Block \cup {NoBlock}, result : Results]
    BY <1>3, <1>4, ReturnedOutcome DEF Results
  <2>2. disturbed' \in 0..Disturbances /\ faulted' = TRUE
    BY <1>4, DisturbCounts DEF Ledger
  <2>3. Counters'
    BY <1>2, <2>1, <2>2 DEF Ledger, Counters
  <2> QED
    BY <2>1, <2>2, <2>3, FaultedLedger
<1>5. CASE /\ trackedBnd' = trackedBnd \cup {b}
           /\ at' = "reclaim" /\ tx' = [tx EXCEPT !.credit = Credit(b, total)]
           /\ UNCHANGED <<outcome, faultVars>>
  <2>1. tx'.block = b /\ tx'.credit = Credit(b, total) /\ UNCHANGED <<faulted, disturbed, outcome>>
    BY <1>1, <1>5 DEF faultVars, IInv, Shape
  <2>2. Counters'
    BY <1>2, <1>5, <2>1 DEF Ledger, Counters
  <2>3. TotalIsExact'
    BY <1>2, <1>5 DEF Ledger, TotalIsExact
  <2>4. CreditIsHeld'
    BY <1>5, <2>1 DEF CreditIsHeld, Credit, ParentBoundaryReclaim
  <2>5. Dirs' = Dirs \cup {b} /\ Dirs \in SUBSET Block
    BY <1>2, Writing DEF IInv, Shape
  <2>6. OnDisk' = OnDisk + Tokens[b] + BoundaryBytes
    BY <1>2, <1>3, <2>5, BytesAfterCommit DEF IInv
  <2>7. OnDisk = total /\ total \in Nat /\ Tokens[b] \in Nat /\ BoundaryBytes \in Nat /\ Maximum \in Nat
    BY <1>2, <1>3, BlocksAssumption DEF Ledger, TotalIsExact, Counters
  <2>8. DiskBytes' = OnDisk'
    BY <1>2, <2>2, DiskIsCountedNext DEF IInv, Ledger, TotalIsExact
  <2>9. total + (BoundaryBytes + Tokens[b]) - tx.credit <= Maximum
    BY <1>1, <1>2, <1>3 DEF Ledger, TotalIsExact, Projected, AddedBytes
  <2>10. ASSUME ~faulted PROVE total + Tokens[b] + BoundaryBytes - Credit(b, total) <= Maximum
    <3>1. CASE total + Tokens[b] + BoundaryBytes <= Maximum
      <4>1. Credit(b, total) \in {0, BoundaryBytes}
        BY DEF Credit
      <4> QED
        BY <2>7, <3>1, <4>1
    <3>2. CASE total + Tokens[b] + BoundaryBytes > Maximum
      <4>1. tx.credit > 0 /\ tx.credit = BoundaryBytes
        BY <1>3, <2>7, <2>9, <3>2
      <4>2. /\ Parent[b] # NoBlock /\ ~IsCheckpoint(Parent[b]) /\ Parent[b] \in trackedBnd
        BY <1>1, <1>2, <2>10, <4>1 DEF Ledger, DiskFits, CreditIsHeld
      <4>3. Credit(b, total) = BoundaryBytes
        BY <3>2, <4>2 DEF Credit, ParentBoundaryReclaim
      <4> QED
        BY <2>7, <2>9, <4>1, <4>3
    <3> QED
      BY <2>7, <3>1, <3>2
  <2>11. ~faulted => DiskBytes' - tx'.credit <= Maximum
    <3>1. DiskBytes' = total + Tokens[b] + BoundaryBytes
      BY <2>6, <2>7, <2>8
    <3>2. tx'.credit = Credit(b, total) /\ Credit(b, total) \in Nat
      BY <2>1, <2>7 DEF Credit
    <3> QED
      BY <2>7, <2>10, <3>1, <3>2
  <2>12. DiskFits'
    BY <1>5, <2>1, <2>4, <2>11 DEF DiskFits
  <2> QED
    BY <2>2, <2>3, <2>12 DEF Ledger
<1> QED
  BY <1>1, <1>4, <1>5 DEF CommitBlock

\* A failed commit adds nothing.
LEMMA CommitFailsCounts ==
    ASSUME IInv, IInv', Ledger, CommitFails
    PROVE  Ledger'
<1>1. /\ at = "commit" /\ Returns(tx.block, "failed")
      /\ UNCHANGED <<written, seqs, bnds, stale, active, total, faulted, disturbed>>
  BY DEF CommitFails, diskVars, histVars, faultVars
<1>2. at' = "idle" /\ outcome' \in [block : Block \cup {NoBlock}, result : Results]
  BY <1>1, ReturnedOutcome DEF Results, IInv, Shape
<1>3. Counters'
  BY <1>1, <1>2 DEF Ledger, Counters
<1>4. DiskBytes' = DiskBytes
  BY <1>1 DEF DiskBytes, Dirs
<1> QED
  BY <1>1, <1>2, <1>3, <1>4, IdleLedger DEF Ledger, DiskFits

\* A missing boundary adds what was projected.
LEMMA CommitBoundaryCounts ==
    ASSUME IInv, IInv', Ledger, CommitBoundary
    PROVE  Ledger'
<1>1. PICK b : b = tx.block
  OBVIOUS
<1>2. /\ at = "commit" /\ tx.boundaryOnly /\ written' = Touched(b) /\ bnds' = bnds \cup {b}
      /\ UNCHANGED <<seqs, stale, active>>
  BY <1>1 DEF CommitBoundary
<1>3. b \in Block /\ b # NoBlock /\ b \in tracked
  BY <1>1, <1>2, BlocksAssumption DEF IInv, Shape, TransactionIsAnchored
<1>4. at' = "idle" /\ outcome' \in [block : Block \cup {NoBlock}, result : Results]
  <2>1. Returns(b, "Published") \/ Returns(b, "failed")
    BY <1>1 DEF CommitBoundary
  <2> QED
    BY <1>3, <2>1, ReturnedOutcome DEF Results
<1>5. CASE Disturb /\ UNCHANGED total
  <2>1. disturbed' \in 0..Disturbances /\ faulted' = TRUE
    BY <1>5, DisturbCounts DEF Ledger
  <2>2. Counters'
    BY <1>2, <1>4, <1>5, <2>1 DEF Ledger, Counters
  <2> QED
    BY <1>4, <2>1, <2>2, FaultedLedger
<1>6. CASE total' = BytesOf(Dirs, seqs, bnds') /\ UNCHANGED faultVars
  <2>1. Dirs \in SUBSET Block /\ UNCHANGED <<faulted, disturbed>>
    BY <1>6 DEF IInv, Shape, faultVars
  <2>2. total' \in Nat
    BY <1>6, <2>1, BytesAreCounted
  <2>3. Counters'
    BY <1>2, <1>4, <2>1, <2>2 DEF Ledger, Counters
  <2>4. DiskBytes' = OnDisk'
    BY <1>2, <2>3, DiskIsCountedNext DEF IInv, Ledger, TotalIsExact
  <2>5. ASSUME ~faulted PROVE OnDisk' <= Maximum
    <3>1. b \in Dirs
      BY <1>2, <1>3, <2>5 DEF IInv, IndexIsSound, Trusted, GoodSeqs, Shape
    <3>2. Dirs' = Dirs
      BY <1>2, <3>1, Writing
    <3>3. /\ total = OnDisk /\ OnDisk \in Nat /\ tx.credit = 0 /\ BoundaryBytes \in Nat /\ Maximum \in Nat
          /\ OnDisk + BoundaryBytes <= Maximum
      <4>1. total = OnDisk /\ tx.credit = 0 /\ Projected <= Maximum
        BY <1>2 DEF Ledger, TotalIsExact
      <4>2. Projected = total + (BoundaryBytes + 0) - tx.credit
        BY <1>1, <1>2, <1>3 DEF Projected, AddedBytes
      <4>3. OnDisk \in Nat /\ BoundaryBytes \in Nat /\ Maximum \in Nat
        BY DiskIsCounted, BlocksAssumption DEF IInv, Ledger
      <4> QED
        BY <4>1, <4>2, <4>3
    <3>4. OnDisk' = BytesOf(Dirs, seqs, bnds \cup {b})
      BY <1>2, <3>2 DEF OnDisk
    <3>5. CASE b \in bnds
      <4>1. bnds \cup {b} = bnds
        BY <3>5
      <4>2. OnDisk' = OnDisk
        BY <3>4, <4>1 DEF OnDisk
      <4> QED
        BY <3>3, <4>2
    <3>6. CASE b \notin bnds
      <4>1. (bnds \cup {b}) \ {b} = bnds
        BY <3>6
      <4>2. BytesOf(Dirs, seqs, bnds \cup {b})
            = BytesOf(Dirs, seqs, (bnds \cup {b}) \ {b}) + BoundaryBytes
        BY <2>1, <3>1, BytesOfABoundary
      <4>3. OnDisk' = OnDisk + BoundaryBytes
        BY <3>4, <4>1, <4>2 DEF OnDisk
      <4> QED
        BY <3>3, <4>3
    <3> QED
      BY <3>5, <3>6
  <2> QED
    BY <1>4, <2>1, <2>3, <2>4, <2>5, IdleLedger
<1> QED
  BY <1>1, <1>5, <1>6 DEF CommitBoundary

(***************************************************************************)
(* The reclaimed boundary gives back what the transaction was credited.    *)
(***************************************************************************)
LEMMA ReclaimCounts ==
    ASSUME IInv, IInv', Ledger, ReclaimParentBoundary
    PROVE  Ledger'
<1>1. PICK p : p = Parent[tx.block]
  OBVIOUS
<1>2. /\ at = "reclaim" /\ tx.credit > 0 /\ tx.credit = BoundaryBytes
      /\ UNCHANGED <<seqs, stale, active>>
  BY DEF ReclaimParentBoundary, IInv, Shape
<1>3. ~faulted => p \in bnds /\ p \in Dirs
  <2>1. ~faulted => p \in trackedBnd /\ Trusted
    BY <1>1, <1>2 DEF Ledger, DiskFits, CreditIsHeld, Trusted
  <2> QED
    BY <2>1 DEF IInv, IndexIsSound, GoodBnds, Shape
<1>4. Dirs \in SUBSET Block
  BY DEF IInv, Shape
<1>5. CASE /\ p \in Dirs /\ bnds' = bnds \ {p} /\ written' = Touched(p)
           /\ total' = BytesOf(Dirs, seqs, bnds') /\ at' = "supersede"
           /\ UNCHANGED <<tx, outcome, faultVars>>
  <2>1. UNCHANGED <<faulted, disturbed, outcome>> /\ Dirs' = Dirs
    BY <1>5, Writing DEF faultVars
  <2>2. total' \in Nat
    BY <1>4, <1>5, BytesAreCounted
  <2>3. Counters'
    BY <1>2, <1>5, <2>1, <2>2 DEF Ledger, Counters
  <2>4. TotalIsExact'
    BY <1>2, <1>5 DEF Ledger, TotalIsExact
  <2>5. DiskBytes' = OnDisk' /\ DiskBytes = OnDisk /\ OnDisk' \in Nat
    BY <1>2, <2>3, DiskIsCounted, DiskIsCountedNext DEF IInv, Ledger, TotalIsExact
  <2>6. ASSUME ~faulted PROVE OnDisk' <= Maximum
    <3>1. BytesOf(Dirs, seqs, bnds) = BytesOf(Dirs, seqs, bnds \ {p}) + BoundaryBytes
      BY <1>3, <1>4, <2>6, BytesOfABoundary
    <3>2. OnDisk = OnDisk' + BoundaryBytes
      BY <1>2, <1>5, <2>1, <3>1 DEF OnDisk
    <3>3. OnDisk - BoundaryBytes <= Maximum /\ BoundaryBytes \in Nat /\ Maximum \in Nat
      BY <1>2, <2>5, <2>6, BlocksAssumption DEF Ledger, DiskFits
    <3>4. PICK left \in Nat : left = OnDisk'
      BY <2>5
    <3>5. \A x \in Nat, y \in Nat : x + y - y = x
      OBVIOUS
    <3>6. OnDisk = left + BoundaryBytes
      BY <3>2, <3>4
    <3>7. left <= Maximum
      BY <3>3, <3>5, <3>6
    <3> QED
      BY <3>4, <3>7
  <2>7. DiskFits'
    BY <1>5, <2>1, <2>5, <2>6 DEF DiskFits
  <2> QED
    BY <2>3, <2>4, <2>7 DEF Ledger
<1>6. CASE /\ Returns(tx.block, "failed")
           /\ IF p \in Dirs THEN Disturb ELSE UNCHANGED faultVars
           /\ UNCHANGED total
  <2>1. at' = "idle" /\ outcome' \in [block : Block \cup {NoBlock}, result : Results]
    BY <1>6, ReturnedOutcome DEF Results, IInv, Shape
  <2>2. disturbed' \in 0..Disturbances /\ faulted' = TRUE
    <3>1. CASE p \in Dirs
      BY <1>6, <3>1, DisturbCounts DEF Ledger
    <3>2. CASE p \notin Dirs
      BY <1>3, <1>6, <3>2 DEF faultVars, Ledger, Counters, IInv, Shape
    <3> QED
      BY <3>1, <3>2
  <2>3. Counters'
    BY <1>2, <1>6, <2>1, <2>2 DEF Ledger, Counters
  <2> QED
    BY <2>1, <2>2, <2>3, FaultedLedger
<1> QED
  BY <1>1, <1>5, <1>6 DEF ReclaimParentBoundary

\* Without a credit the committed block fits as it is.
LEMMA NothingToReclaimCounts ==
    ASSUME IInv, IInv', Ledger, NothingToReclaim
    PROVE  Ledger'
<1>1. /\ at = "reclaim" /\ tx.credit = 0 /\ at' = "supersede" /\ total' = DiskBytes
      /\ UNCHANGED <<written, seqs, bnds, stale, active, tx, outcome, faulted, disturbed>>
  BY DEF NothingToReclaim, diskVars, indexVars, histVars, faultVars
<1>2. DiskBytes' = DiskBytes /\ DiskBytes \in Nat
  BY <1>1, DiskIsCounted DEF DiskBytes, Dirs, IInv, Ledger
<1>3. Counters'
  BY <1>1, <1>2 DEF Ledger, Counters
<1>4. TotalIsExact'
  BY <1>1 DEF Ledger, TotalIsExact
<1>5. ~faulted => DiskBytes <= Maximum
  BY <1>1, <1>2, BlocksAssumption DEF Ledger, DiskFits
<1>6. DiskFits'
  BY <1>1, <1>2, <1>5 DEF DiskFits
<1> QED
  BY <1>3, <1>4, <1>6 DEF Ledger

\* Superseded tails only free bytes.
LEMMA SupersedeCounts ==
    ASSUME IInv, IInv', Ledger, Supersede
    PROVE  Ledger'
<1>1. at = "supersede" /\ UNCHANGED <<stale, active>> /\ tx.block \in Block \cup {NoBlock}
      /\ \A k \in Model : stale[k] = 0
  BY DEF Supersede, IInv, Shape, Ledger, TotalIsExact
<1>2. CASE \E shorter : /\ RemoveDirectories(shorter)
                        /\ total' = BytesOf(Dirs \ shorter, seqs, bnds)
                        /\ Returns(tx.block, "Published") /\ UNCHANGED faultVars
  <2>1. PICK shorter : /\ RemoveDirectories(shorter)
                       /\ total' = BytesOf(Dirs \ shorter, seqs, bnds)
                       /\ Returns(tx.block, "Published") /\ UNCHANGED faultVars
    BY <1>2
  <2>2. at' = "idle" /\ outcome' \in [block : Block \cup {NoBlock}, result : Results]
        /\ UNCHANGED <<faulted, disturbed>>
    BY <1>1, <2>1, ReturnedOutcome DEF Results, faultVars
  <2>3. total' = OnDisk' /\ OnDisk' \in Nat /\ OnDisk' <= OnDisk
    BY <2>1, BytesAfterRemoval DEF IInv
  <2>4. Counters'
    BY <1>1, <2>2, <2>3 DEF Ledger, Counters
  <2>5. DiskBytes' = OnDisk' /\ DiskBytes = OnDisk /\ OnDisk \in Nat
    BY <1>1, <2>4, DiskIsCounted, DiskIsCountedNext DEF IInv, Ledger
  <2>6. ~faulted => DiskBytes' <= Maximum
    BY <1>1, <2>3, <2>5, BlocksAssumption DEF Ledger, DiskFits
  <2> QED
    BY <2>2, <2>4, <2>6, IdleLedger
<1>3. CASE Returns(tx.block, "failed") /\ Disturb /\ UNCHANGED total
  <2>1. at' = "idle" /\ outcome' \in [block : Block \cup {NoBlock}, result : Results]
    BY <1>1, <1>3, ReturnedOutcome DEF Results
  <2>2. disturbed' \in 0..Disturbances /\ faulted' = TRUE
    BY <1>3, DisturbCounts DEF Ledger
  <2>3. Counters'
    BY <1>1, <1>3, <2>1, <2>2 DEF Ledger, Counters
  <2> QED
    BY <2>1, <2>2, <2>3, FaultedLedger
<1> QED
  BY <1>2, <1>3 DEF Supersede

\* A bad file that is removed frees its bytes; the estimate does not go below nought.
LEMMA LoadBadFileCounts ==
    ASSUME IInv, IInv', Ledger, NEW b \in Block, LoadBadFile(b)
    PROVE  Ledger'
<1>1. at = "idle" /\ UNCHANGED <<stale, active, at, outcome, faulted, disturbed>>
  BY DEF LoadBadFile, histVars, faultVars
<1>2. seqs' \subseteq seqs /\ bnds' \subseteq bnds
  BY DEF LoadBadFile
<1>3. Dirs' = Dirs
  <2>1. written' = written \/ (b \in Dirs /\ written' = Touched(b))
    BY DEF LoadBadFile, IInv, Shape
  <2> QED
    BY <2>1, Writing DEF Dirs
<1>4. total' \in Nat
  <2>1. Tokens[b] \in Nat /\ BoundaryBytes \in Nat /\ total \in Nat
    BY BlocksAssumption DEF Ledger, Counters
  <2> QED
    BY <2>1 DEF LoadBadFile
<1>5. Counters'
  BY <1>1, <1>4 DEF Ledger, Counters
<1>6. OnDisk' <= OnDisk
  BY <1>2, <1>3, BytesAfterLoss DEF IInv
<1>7. ~faulted => DiskBytes' <= Maximum
  BY <1>1, <1>5, <1>6, DiskIsCounted, DiskIsCountedNext, BlocksAssumption DEF IInv, Ledger, DiskFits
<1> QED
  BY <1>1, <1>5, <1>7, IdleLedger

\* Clearing frees what it removes, abandoned staging directories included.
LEMMA ClearCounts ==
    ASSUME IInv, IInv', Ledger, NEW cleared \in SUBSET Model, Clear(cleared)
    PROVE  Ledger'
<1>1. PICK target : target = {b \in Dirs : ModelOf[b] \in cleared}
  OBVIOUS
<1>2. at = "idle" /\ UNCHANGED <<active, at>> /\ outcome' = NoOutcome
  BY DEF Clear
<1>3. outcome' \in [block : Block \cup {NoBlock}, result : Results]
  BY <1>2 DEF NoOutcome, Results
<1>4. CASE \E removed : RemoveDirectories(removed) /\ Disturb /\ UNCHANGED <<stale, total>>
  <2>1. disturbed' \in 0..Disturbances /\ faulted' = TRUE
    BY <1>4, DisturbCounts DEF Ledger
  <2>2. Counters'
    BY <1>2, <1>3, <1>4, <2>1 DEF Ledger, Counters
  <2> QED
    BY <1>2, <2>1, <2>2, FaultedLedger
<1>5. CASE /\ RemoveDirectories(target) /\ UNCHANGED faultVars
           /\ stale' = [m \in Model |-> IF m \in cleared THEN 0 ELSE stale[m]]
           /\ total' = BytesOf(Dirs \ target, seqs, bnds) + SumOver(stale, Model \ cleared)
  <2>1. UNCHANGED <<faulted, disturbed>>
    BY <1>5 DEF faultVars
  <2>2. OnDisk' = BytesOf(Dirs \ target, seqs, bnds) /\ OnDisk' \in Nat /\ OnDisk' <= OnDisk
    BY <1>5, BytesAfterRemoval DEF IInv
  <2>3. stale \in [Model -> Nat] /\ stale' \in [Model -> Nat]
    BY <1>5 DEF Ledger, Counters
  <2>4. SumOver(stale, Model \ cleared) \in Nat
    BY <2>3, StaleIsCounted
  <2>5. Counters'
    BY <1>2, <1>3, <1>5, <2>1, <2>2, <2>3, <2>4 DEF Ledger, Counters
  <2>6. SumOver(stale', Model) <= SumOver(stale, Model)
    <3>1. \A m \in Model : stale[m] \in Nat /\ stale'[m] \in Nat /\ stale'[m] <= stale[m]
      BY <1>5, <2>3
    <3> QED
      BY <3>1, ModelsAreFinite, SumIsMonotone
  <2>7. ~faulted => DiskBytes' <= Maximum
    BY <1>2, <2>2, <2>5, <2>6, DiskIsCounted, DiskIsCountedNext, BlocksAssumption DEF IInv, Ledger, DiskFits
  <2> QED
    BY <1>2, <2>1, <2>5, <2>7, IdleLedger
<1> QED
  BY <1>1, <1>4, <1>5 DEF Clear

\* A crash abandons the bytes it had staged.
LEMMA CrashCounts ==
    ASSUME IInv, Ledger, Crash
    PROVE  Ledger'
<1>1. Closed /\ disturbed' = disturbed /\ at # "closed"
  BY DEF Crash, histVars, faultVars
<1>2. active \in Model /\ stale \in [Model -> Nat] /\ disturbed \in 0..Disturbances
  BY <1>1 DEF Ledger, Counters
<1>3. AddedBytes \in Nat
  BY BlocksAssumption DEF AddedBytes, IInv, Shape
<1>4. stale' \in [Model -> Nat]
  BY <1>2, <1>3 DEF Crash
<1> QED
  BY <1>1, <1>2, <1>4, ClosedLedger DEF Ledger

\* Outsiders disturb a store that is idle or closed.
LEMMA OutsiderCounts ==
    ASSUME IInv, Ledger, NEW b \in Block, Outsider(b)
    PROVE  Ledger'
<1>1. at \in {"idle", "closed"} /\ Disturb /\ UNCHANGED <<stale, active, total, at, outcome>>
  BY DEF Outsider, OutsiderRemoves, OutsiderSpoils
<1>2. disturbed' \in 0..Disturbances /\ faulted' = TRUE
  BY <1>1, DisturbCounts DEF Ledger
<1>3. Counters'
  BY <1>1, <1>2 DEF Ledger, Counters
<1> QED
  BY <1>1, <1>2, <1>3, FaultedLedger

-----------------------------------------------------------------------------
(* The theorems about the ledger *)

\* An empty store has nothing to account for.
LEMMA LedgerInit == Init => Ranked /\ Ledger
<1> SUFFICES ASSUME Init PROVE Ranked /\ Ledger
  OBVIOUS
<1>1. Ranked
  BY DEF Init, Ranked, Dirs
<1>2. Counters
  BY BlocksAssumption DEF Init, Counters, NoOutcome, Results
<1>3. TotalIsExact /\ DiskFits
  BY DEF Init, TotalIsExact, DiskFits
<1> QED
  BY <1>1, <1>2, <1>3 DEF Ledger

\* Every step keeps the ledger.
LEMMA LedgerNext == IInv /\ IInv' /\ Ledger /\ [Next]_vars => Ledger'
<1> SUFFICES ASSUME IInv, IInv', Ledger, [Next]_vars PROVE Ledger'
  OBVIOUS
<1>1. CASE Startup
  BY <1>1, OpenScanCounts, CompactBoundaryCounts, CompactionEndsCounts DEF Startup
<1>2. CASE Quota
  BY <1>2, EvictCounts, EvictFailsCounts, QuotaFitsCounts, QuotaNotSatisfiedCounts DEF Quota
<1>3. CASE Commit
  BY <1>3, CommitBlockCounts, CommitBoundaryCounts, CommitFailsCounts DEF Commit
<1>4. CASE Retain
  BY <1>4, ReclaimCounts, NothingToReclaimCounts, SupersedeCounts DEF Retain
<1>5. CASE Crash
  BY <1>5, CrashCounts
<1>6. ASSUME NEW b \in Block, Publish(b) PROVE Ledger'
  BY <1>6, PublishExistingCounts, PublishBoundaryCounts, PublishNewCounts DEF Publish
<1>7. ASSUME NEW b \in Block, LoadBadFile(b) \/ Outsider(b) PROVE Ledger'
  BY <1>7, LoadBadFileCounts, OutsiderCounts
<1>8. ASSUME NEW cleared \in {{m} : m \in Model} \cup {Model}, Clear(cleared) PROVE Ledger'
  <2>1. cleared \in SUBSET Model
    OBVIOUS
  <2> QED
    BY <1>8, <2>1, ClearCounts
<1>9. CASE UNCHANGED vars
  <2>1. UNCHANGED <<written, seqs, bnds, stale, active, trackedBnd, total, at, tx, outcome,
                    faulted, disturbed>>
    BY <1>9 DEF vars, diskVars, indexVars, histVars, faultVars
  <2>2. OnDisk' = OnDisk /\ DiskBytes' = DiskBytes /\ Projected' = Projected
    BY <2>1 DEF OnDisk, DiskBytes, Projected, AddedBytes, Dirs
  <2>3. Counters'
    BY <2>1 DEF Ledger, Counters
  <2>4. TotalIsExact'
    BY <2>1, <2>2 DEF Ledger, TotalIsExact
  <2>5. DiskFits'
    BY <2>1, <2>2 DEF Ledger, DiskFits, CreditIsHeld
  <2> QED
    BY <2>3, <2>4, <2>5 DEF Ledger
<1> QED
  BY <1>1, <1>2, <1>3, <1>4, <1>5, <1>6, <1>7, <1>8, <1>9 DEF Next

(***************************************************************************)
(* While the quota is enforced the total is the bytes on disk, and what an *)
(* undisturbed store has on disk fits, save for the boundary a committed   *)
(* block is about to give back.                                            *)
(***************************************************************************)
THEOREM LedgerIsKept == Spec => [](Ranked /\ Ledger)
<1>1. IInv /\ Ranked /\ [Next]_vars => Ranked'
  BY RanksAreKept
<1> QED
  BY <1>1, LedgerInit, LedgerNext, StoreInit, StoreNext, PTL DEF Spec

(***************************************************************************)
(* Every variable keeps its type: the ages of the directories are ranks,   *)
(* and the estimate of the total never goes below nought, though evictions *)
(* and compactions subtract from it.                                       *)
(***************************************************************************)
THEOREM StoreTypeCorrect == Spec => []TypeOK
<1>1. IInv /\ Ranked /\ Ledger => TypeOK
  BY DEF IInv, Shape, Ranked, Ledger, Counters, TypeOK, Files
<1> QED
  BY <1>1, StoreIsSound, LedgerIsKept, PTL

(***************************************************************************)
(* Between operations the bytes on disk are within the quota: a credit is  *)
(* given only for a boundary that is still there to be removed when the    *)
(* block is committed.                                                     *)
(***************************************************************************)
THEOREM QuotaStaysKept == Spec => []QuotaIsKept
<1>1. Ledger => QuotaIsKept
  BY DEF Ledger, DiskFits, QuotaIsKept
<1> QED
  BY <1>1, LedgerIsKept, PTL

=============================================================================
