--------------------------- MODULE MemoryCatalogue ---------------------------
(***************************************************************************)
(* What CloudMemoryService promises about the memories of a project, with  *)
(* no stores, objects or pointers in sight: a catalogue of entries that    *)
(* changes by one whole operation at a time.  An operation first shows its *)
(* whole effect at once and then is either kept or taken back entirely;    *)
(* until that is settled no other operation shows anything.                *)
(*                                                                         *)
(* An entry is [id, name, list, stamp]; the list names the memories it     *)
(* refers to.  An entry whose list repeats a name cannot be looked up, and *)
(* a rename does not follow it.                                            *)
(***************************************************************************)
VARIABLES
    cat,        \* the entries
    prior       \* {} or, while the last change may be taken back, {the entries before it}

catVars == <<cat, prior>>

Ids(entries) == {e.id : e \in entries}
Taken(entries) == {e.name : e \in entries}

CatalogueInit == cat = {} /\ prior = {}

Created == \E e \in cat' :
    /\ e.id \notin Ids(cat)
    /\ e.name \notin Taken(cat)
    /\ cat' = cat \cup {e}

Edited == \E e \in cat, f \in cat' :
    /\ f.id = e.id
    /\ f.name = e.name
    /\ cat' = (cat \ {e}) \cup {f}

Deleted == \E e \in cat : cat' = cat \ {e}

(* What happens to another entry when old becomes new. *)
Followed(e, old, new) ==
    IF old \in e.list.set /\ ~e.list.repeats
    THEN [e EXCEPT !.list.set = (@ \ {old}) \cup {new},
                   !.list.repeats = new \in e.list.set]
    ELSE e

Renamed == \E e \in cat, f \in cat' :
    /\ f.id = e.id
    /\ f.name \notin Taken(cat)
    /\ e.name # f.name /\ e.name \notin f.list.set
    /\ cat' = {f} \cup {Followed(r, e.name, f.name) : r \in cat \ {e}}

Change ==
    /\ prior = {}
    /\ prior' = {cat}
    /\ Created \/ Edited \/ Deleted \/ Renamed

Keep == prior # {} /\ prior' = {} /\ cat' = cat

TakeBack == cat' \in prior /\ prior' = {}

CatalogueNext == Change \/ Keep \/ TakeBack

CatalogueSpec == CatalogueInit /\ [][CatalogueNext]_catVars

=============================================================================
