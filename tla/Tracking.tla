------------------------------ MODULE Tracking ------------------------------
(***************************************************************************)
(* Tombstones (tracker/, in the builds with TRACK).  A tracked transaction  *)
(* makes a nonce in the client, writes a tombstone of that name to the      *)
(* strong and to the causal store, and beside every strong object that it   *)
(* assigns it writes the nonce as the object's metadata.  Who reads the     *)
(* strong object meets the nonce, and is to look for the tombstone in its   *)
(* causal replica before it reads there.                                    *)
(*                                                                          *)
(* Writers assign one strong and one causal object in one transaction;      *)
(* readers read both.  The strong store is serializable: a phase there is   *)
(* one step.  Writers use the replica Home of the causal store and readers  *)
(* the replica Away, to which Home's transactions are shipped in order.     *)
(*                                                                          *)
(* The relay meets tombstones in TrackingContext::pending_nonces; only      *)
(* commitContext hands them to the tracker whose tombstones the reply       *)
(* carries, and nothing in the repository calls it.                         *)
(***************************************************************************)
EXTENDS Naturals, Sequences, FiniteSets

CONSTANTS Writers, Readers, Nonces, None,
          Operators,        \* writers that change the strong object by an operation
          MaxFailures       \* how often a reader loses its causal phase

ASSUME TrackingAssumption ==
  /\ None \notin Writers \cup Nonces
  /\ Writers \cap Readers = {}
  /\ Operators \subseteq Writers
  /\ MaxFailures \in Nat

VARIABLES strong,       \* the strong object's writer and metadata, and the tombstones there
          causal,       \* per replica: the writers whose transactions it has, its tombstones
          shipping,     \* transactions of Home that Away does not have yet
          nonce,        \* the client's tombstone variable, per writer
          pc,
          saw,          \* what each reader's strong phase read
          got,          \* and its causal phase
          obligations,  \* TombHolder<causal>::obligations of each reader
          observed,     \* TombHolder<causal>::observed_tombstones
          failures

vars == <<strong, causal, shipping, nonce, pc, saw, got, obligations, observed, failures>>
stores == <<strong, causal, shipping>>
readers == <<saw, got, obligations, observed, failures>>

Replicas == {"Home", "Away"}
Goto(c, p) == pc' = [pc EXCEPT ![c] = p]

Init == /\ strong = [val |-> None, meta |-> None, tombs |-> {}]
        /\ causal = [r \in Replicas |-> [applied |-> {}, tombs |-> {}]]
        /\ shipping = <<>>
        /\ nonce = [w \in Writers |-> None]
        /\ pc = [c \in Writers \cup Readers |-> "top"]
        /\ saw = [r \in Readers |-> None]
        /\ got = [r \in Readers |-> {}]
        /\ obligations = [r \in Readers |-> {}]
        /\ observed = [r \in Readers |-> {}]
        /\ failures = 0

-----------------------------------------------------------------------------
(* Writers: the phases of a tracked transaction *)

\* generateTombstone, in the phase labelled top: any random number.
GenerateTombstone(w) ==
  /\ pc[w] = "top"
  /\ \E n \in Nonces : nonce' = [nonce EXCEPT ![w] = n]
  /\ Goto(w, "strong")
  /\ UNCHANGED <<stores, readers>>

\* The stores' side of tracking (TrackableDataStore_common).
exists_trk(tombs, n) == n \in tombs
new_tomb_trk(tombs, n) == tombs \cup {n}
existing_tombstone_trk == strong.meta

\* writeTombstone refuses a name that is taken.
Unchecked(tombs, n) == TRUE
NameIsFree(tombs, n) == ~exists_trk(tombs, n)

\* accompanyWrite puts the nonce in the object's metadata, there or not; an
\* operation is not accompanied.
OnlyNew(w) == IF existing_tombstone_trk = None THEN nonce[w] ELSE existing_tombstone_trk
MetadataAfter(w) == IF w \in Operators THEN existing_tombstone_trk ELSE nonce[w]

StrongPhase(w) ==
  /\ pc[w] = "strong"
  /\ NameIsFree(strong.tombs, nonce[w])
  /\ strong' = [val |-> w, meta |-> MetadataAfter(w),
                tombs |-> new_tomb_trk(strong.tombs, nonce[w])]
  /\ Goto(w, "causal")
  /\ UNCHANGED <<causal, shipping, nonce, readers>>

\* A TombNameCollision or another SerializationFailure: a strong phase may
\* abort, and the transaction with it.
StrongAborts(w) ==
  /\ pc[w] = "strong"
  /\ Goto(w, "aborted")
  /\ UNCHANGED <<stores, nonce, readers>>

\* A causal phase is tried again until it commits, with the same nonce.
TombstoneOnly(w) ==
  /\ pc[w] = "causal"
  /\ NameIsFree(causal["Home"].tombs, nonce[w])
  /\ causal' = [causal EXCEPT !["Home"].tombs = new_tomb_trk(@, nonce[w])]
  /\ shipping' = shipping
  /\ Goto(w, "done")
  /\ UNCHANGED <<strong, nonce, readers>>

CausalPhase(w) ==
  /\ pc[w] = "causal"
  /\ NameIsFree(causal["Home"].tombs, nonce[w])
  /\ causal' = [causal EXCEPT !["Home"] = [applied |-> @.applied \cup {w},
                                           tombs |-> new_tomb_trk(@.tombs, nonce[w])]]
  /\ shipping' = Append(shipping, w)
  /\ Goto(w, "done")
  /\ UNCHANGED <<strong, nonce, readers>>

\* The client stops between its phases.
WriterStops(w) ==
  /\ pc[w] = "causal"
  /\ Goto(w, "stopped")
  /\ UNCHANGED <<stores, nonce, readers>>

\* The causal database ships a transaction as a whole.
Replicate ==
  /\ shipping # <<>>
  /\ LET w == Head(shipping) IN
       causal' = [causal EXCEPT !["Away"] = [applied |-> @.applied \cup {w},
                                             tombs |-> @.tombs \cup {nonce[w]}]]
  /\ shipping' = Tail(shipping)
  /\ UNCHANGED <<strong, nonce, pc, readers>>

-----------------------------------------------------------------------------
(* Readers *)

\* checkForTombstones collects the nonce that stands beside the object in the
\* phase's context; all_encountered_tombstones, which the reply carries, would
\* have it if the phase ended with commitContext, and is empty without.
EncounteredIfCommitted == {existing_tombstone_trk} \ {None}
Encountered == {}

\* set_phase_after drops the obligations that are left, and takes on the
\* tombstones that were never an obligation before.
SetPhaseAfter(r, tombs) == tombs \ observed[r]

ReadStrong(r) ==
  /\ pc[r] = "top"
  /\ saw' = [saw EXCEPT ![r] = strong.val]
  /\ obligations' = [obligations EXCEPT ![r] = SetPhaseAfter(r, Encountered)]
  /\ observed' = [observed EXCEPT ![r] = @ \cup SetPhaseAfter(r, Encountered)]
  /\ Goto(r, "hunt")
  /\ UNCHANGED <<stores, nonce, got, failures>>

\* The relay's find_tombstones polls in one transaction, whose snapshot does
\* not change: what is missing in it stays missing.
Found(r) == \A n \in obligations[r] : exists_trk(causal["Away"].tombs, n)
FindTombstones(r) ==
  /\ pc[r] = "hunt"
  /\ Goto(r, IF Found(r) THEN "causal" ELSE "polling")
  /\ UNCHANGED <<stores, nonce, readers>>

ReadCausal(r) ==
  /\ pc[r] = "causal"
  /\ got' = [got EXCEPT ![r] = causal["Away"].applied]
  /\ obligations' = [obligations EXCEPT ![r] = {}]
  /\ Goto(r, "done")
  /\ UNCHANGED <<stores, nonce, saw, observed, failures>>

\* The connection is lost in the causal phase, and the client runs another
\* transaction; what it was to look for is still among its obligations.
LosesPhase(r) ==
  /\ pc[r] \in {"hunt", "polling"} /\ failures < MaxFailures
  /\ failures' = failures + 1
  /\ Goto(r, "top")
  /\ UNCHANGED <<stores, nonce, saw, got, obligations, observed>>

Again(r) ==
  /\ pc[r] = "done"
  /\ Goto(r, "top")
  /\ UNCHANGED <<stores, nonce, readers>>

-----------------------------------------------------------------------------
Next == \/ \E w \in Writers : \/ GenerateTombstone(w) \/ StrongPhase(w) \/ StrongAborts(w)
                              \/ CausalPhase(w) \/ WriterStops(w)
        \/ Replicate
        \/ \E r \in Readers : \/ ReadStrong(r) \/ FindTombstones(r) \/ ReadCausal(r)
                              \/ LosesPhase(r) \/ Again(r)

Spec == Init /\ [][Next]_vars

\* Relays serve the request they have, and clients run their transactions to
\* the end; nothing is promised of writers, of replication or of failures.
ReaderStep(r) == ReadStrong(r) \/ FindTombstones(r) \/ ReadCausal(r)
FairSpec == Spec /\ \A r \in Readers : WF_vars(ReaderStep(r))

-----------------------------------------------------------------------------
(* Properties *)

\* Whatever transactions aborted, stopped or overwrote each other, the metadata
\* of a strong object that was last assigned is the nonce of that assignment's
\* transaction.  (accompanyWrite in the same transaction as the write)
MetadataNamesWriter ==
  strong.val \in Writers \ Operators => strong.meta = nonce[strong.val]

\* A replica that has a tombstone has the causal writes of every finished
\* transaction with that nonce.  (writeTombstone's refusal of a taken name)
TombstoneCarriesWrites ==
  \A r \in Replicas, w \in Writers :
    (pc[w] = "done" /\ nonce[w] \in causal[r].tombs) => w \in causal[r].applied

\* The causal phase, which would be tried for ever with the same nonce, never
\* finds its nonce taken: the strong phase of one of the two has aborted.
NoCollisionLeft ==
  \A w \in Writers : pc[w] = "causal" => nonce[w] \notin causal["Home"].tombs

\* A reader's transaction ends, whatever writers left undone and however far
\* the replicas are apart: no poll of find_tombstones, whose snapshot stands
\* still, waits for a tombstone that its replica did not have.
ReadersReturn == \A r \in Readers : pc[r] = "hunt" ~> pc[r] = "done"

\* Who sees the strong assignment of a transaction sees its causal writes as
\* well.  (what tombstones are for)
ReaderSeesWhole ==
  \A r \in Readers :
    (pc[r] = "done" /\ saw[r] \in Writers \ Operators) => saw[r] \in got[r]
=============================================================================
