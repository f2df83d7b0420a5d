------------------------------- MODULE Album -------------------------------
(***************************************************************************)
(* What Folium promises about a photo of a worker, seen from outside.  Its *)
(* file is uploaded before its entry is stored, and deleted before its     *)
(* entry is removed; an upload or a deletion may stop half-way, and leaves *)
(* a file that nobody sees or an entry that shows nothing.                 *)
(***************************************************************************)
CONSTANT Items

VARIABLE stage

vars == <<stage>>

Stages == {"absent", "uploaded", "stored", "broken"}

Init == stage = [e \in Items |-> "absent"]

Becomes(e, old, new) == stage[e] = old /\ stage' = [stage EXCEPT ![e] = new]

Upload(e) == Becomes(e, "absent", "uploaded")
Store(e) == Becomes(e, "uploaded", "stored")
DeleteFile(e) == Becomes(e, "stored", "broken")
RemoveEntry(e) == Becomes(e, "broken", "absent")

Next ==
    \E e \in Items : Upload(e) \/ Store(e) \/ DeleteFile(e) \/ RemoveEntry(e)

Spec == Init /\ [][Next]_vars
=============================================================================
