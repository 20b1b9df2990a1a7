------------------------------- MODULE MCStorage -------------------------------
(* Two buckets.  Objects are of two kinds, of which a filter can pick one. *)
EXTENDS Storage

CONSTANTS b1, b2, ver, crs, expire, tagged, tier, pol, pub

MCRank == [b \in {b1, b2} |-> IF b = b1 THEN 1 ELSE 2]
MCSettings == {ver, crs, expire, tagged, tier, pol, pub}
MCFacet ==
  [s \in MCSettings |->
     CASE s = ver -> "versioning" [] s = crs -> "cors" [] s = pol -> "policy" [] s = pub -> "public"
       [] OTHER -> "lifecycle"]

MCExpiring == {expire, tagged, tier}

\* What a rule deletes of the objects "tmp" and "kept": "tagged" stands for a rule that
\* is disabled or filters by more than a prefix.
MCCovers == [s \in MCSettings |-> IF s \in {expire, tagged} THEN {"tmp"} ELSE {}]
MCReproduced == [s \in MCSettings |-> IF s = tagged THEN {"tmp", "kept"} ELSE MCCovers[s]]

MCAnswers == {{}, {b1, b2}}

MCInitial == [b \in {b1, b2} |-> IF b = b1 THEN {ver, crs} ELSE {expire, tagged, pub}]
=============================================================================
