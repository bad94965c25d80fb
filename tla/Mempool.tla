------------------------------- MODULE Mempool --------------------------------
(***************************************************************************)
(* The transactions a sequencer holds for its next block (mempool.rs) and  *)
(* the HTTP handlers that bring them in (submit_tx, api.rs).               *)
(*                                                                         *)
(* The queue and the set of pending nullifiers are behind locks of their   *)
(* own.  A handler takes them one after the other, so a step below is what *)
(* a handler does between two points at which another task may run.  A     *)
(* submission is one call of the submit endpoint: a transaction sent twice *)
(* is two submissions with the same nullifiers.                            *)
(***************************************************************************)
EXTENDS Integers, Sequences, SequencesExt, FiniteSets

CONSTANTS
    Submitted,     \* calls of the submit endpoint
    NullifiersOf,  \* for each, its nullifier0 and nullifier1
    AnchorBlock,   \* for each, the block number its anchor names
    MaxPending     \* max_pending of the configuration

Spends(s) == ToSet(NullifiersOf[s])

ASSUME MempoolAssumption ==
    /\ MaxPending \in Nat
    /\ AnchorBlock \in [Submitted -> Nat]
    /\ \A s \in Submitted : Len(NullifiersOf[s]) = 2

VARIABLES
    queue,        \* transactions
    pending,      \* pending_nullifiers
    anchors,      \* block numbers anchor_lookup has anchors of
    handler,      \* how far the handler of each submission is
    forceSubmit   \* force_submit

mempoolVars == <<queue, pending, anchors, handler, forceSubmit>>

MempoolInit ==
    /\ queue = <<>>
    /\ pending = {}
    /\ anchors = {}
    /\ handler = [s \in Submitted |-> "new"]
    /\ forceSubmit = FALSE

Moves(s, from, to) == handler[s] = from /\ handler' = [handler EXCEPT ![s] = to]

MayEnter(s) ==
    /\ Len(queue) < MaxPending
    /\ NullifiersOf[s][1] # NullifiersOf[s][2]
    /\ Spends(s) \cap pending = {}

(* The first part of add: room, and no nullifier pending.  The pending set *)
(* is released again before anything is entered in it.                     *)
LookUp(s) ==
    /\ Moves(s, "new", IF MayEnter(s) THEN "looked" ELSE "refused")
    /\ UNCHANGED <<queue, pending, anchors, forceSubmit>>

(* Mutant: the nullifiers on record are not asked for.                     *)
AnchorKnown(s, onRecord, latest) == AnchorBlock[s] <= latest /\ AnchorBlock[s] \in anchors

(* onRecord are the nullifiers in the database and latest the last block   *)
(* in it, 0 when it is empty.                                              *)
Verifies(s, onRecord, latest) ==
    /\ Spends(s) \cap onRecord = {}
    /\ AnchorBlock[s] <= latest
    /\ AnchorBlock[s] \in anchors

(* The part of add that needs the database, the anchors and the verifier.  *)
(* Whether the proof is valid is the sender's choice; a submission whose   *)
(* proof is not never gets further than this, so only the others are kept. *)
Verify(s, onRecord, latest) ==
    /\ Moves(s, "looked", IF Verifies(s, onRecord, latest) THEN "verified" ELSE "refused")
    /\ UNCHANGED <<queue, pending, anchors, forceSubmit>>

Track(s) ==
    /\ Moves(s, "verified", "tracked")
    /\ pending' = pending \cup Spends(s)
    /\ UNCHANGED <<queue, anchors, forceSubmit>>

(* Mutant: a full queue does not release the nullifiers.                   *)
EnqueueKeepingNullifiers(s) ==
    /\ handler[s] = "tracked"
    /\ IF Len(queue) >= MaxPending
       THEN Moves(s, "tracked", "refused") /\ UNCHANGED queue
       ELSE Moves(s, "tracked", "accepted") /\ queue' = Append(queue, s)
    /\ UNCHANGED <<pending, anchors, forceSubmit>>

(* The end of add, under the lock of the queue.                            *)
Enqueue(s) ==
    /\ \/ /\ Len(queue) < MaxPending
          /\ Moves(s, "tracked", "accepted")
          /\ queue' = Append(queue, s)
          /\ UNCHANGED pending
       \/ /\ Len(queue) >= MaxPending
          /\ Moves(s, "tracked", "refused")
          /\ pending' = pending \ Spends(s)
          /\ UNCHANGED queue
    /\ UNCHANGED <<anchors, forceSubmit>>

(* The client goes away and the server drops the handler where it waits.   *)
Disconnect(s) ==
    /\ handler[s] \in {"looked", "verified", "tracked"}
    /\ Moves(s, handler[s], "dropped")
    /\ UNCHANGED <<queue, pending, anchors, forceSubmit>>

(* register_anchor, which the sequencer itself never calls: add lets       *)
(* nothing in before somebody does.                                        *)
RegisterAnchor(n) ==
    /\ n \notin anchors
    /\ anchors' = anchors \cup {n}
    /\ UNCHANGED <<queue, pending, handler, forceSubmit>>

(* The poke endpoint.                                                      *)
Poke ==
    /\ queue # <<>>
    /\ ~forceSubmit
    /\ forceSubmit' = TRUE
    /\ UNCHANGED <<queue, pending, anchors, handler>>

Handle(s, onRecord, latest) ==
    \/ LookUp(s)
    \/ Verify(s, onRecord, latest)
    \/ Track(s)
    \/ Enqueue(s)

-----------------------------------------------------------------------------
(* What the block builder does with the mempool.                           *)

SpentBy(batch) == UNION {Spends(s) : s \in ToSet(batch)}

TakeUpTo(count) == SubSeq(queue, 1, IF count < Len(queue) THEN count ELSE Len(queue))

Take(batch) ==
    /\ queue' = SubSeq(queue, Len(batch) + 1, Len(queue))
    /\ pending' = pending \ SpentBy(batch)

(* Mutant: the nullifiers are not entered again.                           *)
ReturnUntracked(batch) == queue' = batch \o queue /\ UNCHANGED pending

(* Mutant: the transactions are pushed in the order they were taken in.    *)
ReturnReversed(batch) ==
    /\ pending' = pending \cup SpentBy(batch)
    /\ queue' = Reverse(batch) \o queue

(* The nullifiers go back under one lock and the transactions under the    *)
(* next; no handler can tell this from one step.                           *)
ReturnToFront(batch) ==
    /\ pending' = pending \cup SpentBy(batch)
    /\ queue' = batch \o queue

(* A restart finds nothing of the mempool, and no handler.                 *)
LoseMempool ==
    /\ queue' = <<>>
    /\ pending' = {}
    /\ anchors' = {}
    /\ forceSubmit' = FALSE
    /\ handler' = [s \in Submitted |-> IF handler[s] = "new" THEN "new" ELSE "dropped"]
=============================================================================
