---------------------------- MODULE ObjectStore ----------------------------
(***************************************************************************)
(* The content-addressed object store (core/src/object-store.ts): putObject *)
(* by several processes at once.  An object is known by its digest; two    *)
(* processes that store one digest bring the same bytes.  On Windows a     *)
(* file that a rename is replacing can be neither read nor renamed over    *)
(* (EPERM) until the rename has settled; elsewhere it can.                 *)
(***************************************************************************)
EXTENDS Naturals

CONSTANTS
  Digests,   \* what there is to store
  Writers,   \* the processes
  MaxReads,  \* of a destination after a lost race: 5 in the code
  Held,      \* what the store may hold at first
  Absent     \* no digest

ASSUME DigestsAssumption == Absent \notin Digests
ASSUME HeldAssumption == Held \subseteq [Digests -> {"absent", "valid", "corrupt"}]
ASSUME MaxReadsAssumption == MaxReads \in Nat \ {0}

VARIABLES
  objects,  \* what the path of each digest holds
  puts      \* what each writer is doing, with which digest

store == <<objects, puts>>

Idle == [at |-> "idle", digest |-> Absent, reads |-> 0]
Steps == {"idle", "look", "publish", "settling", "recover", "stored", "refused"}

StoreTypeOK ==
  /\ objects \in [Digests -> {"absent", "valid", "corrupt"}]
  /\ puts \in [Writers -> [at : Steps, digest : Digests \cup {Absent}, reads : 0 .. MaxReads]]

StoreInit == /\ objects \in Held
             /\ puts = [w \in Writers |-> Idle]

\* Another writer's rename of d has not settled.
Settling(w, d) ==
  \E v \in Writers \ {w} : puts[v].at = "settling" /\ puts[v].digest = d

\* w is asked to store d.
Put(w, d) == puts' = [puts EXCEPT ![w] = [at |-> "look", digest |-> d, reads |-> 0]]

At(w, s) == puts' = [puts EXCEPT ![w].at = s]

\* The first look: an object that is there is enough, one that is damaged is
\* refused and never replaced, and so is any error, that of a settling rename
\* included.
Look(w) ==
  LET d == puts[w].digest
  IN  /\ puts[w].at = "look"
      /\ \/ objects[d] = "valid" /\ At(w, "stored")
         \/ objects[d] = "absent" /\ At(w, "publish")
         \/ At(w, "refused")
      /\ UNCHANGED objects

\* The bytes are written beside the destination and renamed over it.
Publish(w) ==
  /\ puts[w].at = "publish"
  /\ objects' = [objects EXCEPT ![puts[w].digest] = "valid"]
  /\ At(w, "settling")

Settles(w) ==
  /\ puts[w].at = "settling"
  /\ At(w, "stored")
  /\ UNCHANGED objects

\* That fails: the file system's fault, or somebody else's object is there.
PublishFails(w) ==
  /\ puts[w].at = "publish"
  /\ At(w, "recover")
  /\ UNCHANGED objects

\* readVerifiedAfterRace: what is there decides, and is read again as long as
\* it is settling; any other error ends the put.
Recover(w) ==
  LET d == puts[w].digest
  IN  /\ puts[w].at = "recover"
      /\ \/ objects[d] = "valid" /\ At(w, "stored")
         \/ /\ Settling(w, d)
            /\ puts[w].reads + 1 < MaxReads
            /\ puts' = [puts EXCEPT ![w].reads = @ + 1]
         \/ At(w, "refused")
      /\ UNCHANGED objects

PutStep(w) == \/ Look(w) \/ Publish(w) \/ Settles(w) \/ PublishFails(w)
              \/ Recover(w)

PutOver(w) == puts[w].at \in {"stored", "refused"}

-----------------------------------------------------------------------------
\* A writer that was told its object is stored finds it there, valid, whoever
\* else was storing it.
StoredIsThere ==
  \A w \in Writers : puts[w].at = "stored" => objects[puts[w].digest] = "valid"

\* A damaged object is never replaced, and a valid one never damaged or
\* removed: what was once evidence stays as it is.
ObjectsStay ==
  [][\A d \in Digests : objects[d] # "absent" => objects'[d] = objects[d]]_objects

=============================================================================
