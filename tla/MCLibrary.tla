------------------------------- MODULE MCLibrary -------------------------------
(* Instances of Library for TLC. *)
EXTENDS Library, TLC

Symmetry ==
    Permutations(Takes) \cup Permutations(Foreign) \cup Permutations(Titles)
        \cup Permutations(Syncs)

(***************************************************************************)
(* A view without what nothing in files and rows depends on: who begins a  *)
(* sync (boot, watcher, debounce, rearms), since onResume() can begin one  *)
(* at any time, and what an ended finalizer had in hand.  States that      *)
(* agree in it have the same steps up to it.                               *)
(***************************************************************************)
FilesAndRows ==
    <<disk, db, nextId, erased, edit, erase, purge, restarts,
      [k \in Takes |-> IF FinAt(k, "done") THEN Off ELSE fin[k]],
      [s \in Syncs |-> IF sync[s].pc = "off" THEN Off
                       ELSE [pc |-> sync[s].pc, known |-> sync[s].known, todo |-> sync[s].todo]]>>
=============================================================================
