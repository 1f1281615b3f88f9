----------------------------- MODULE UnitOfWork -----------------------------
(***************************************************************************)
(* How SQLAlchemy writes a row back: an UPDATE names the columns whose     *)
(* value differs from the one the session loaded, and no others.  What     *)
(* another transaction committed to the remaining columns in the meantime  *)
(* stays.                                                                  *)
(***************************************************************************)

Merge(cur, seen, new) ==
  [f \in DOMAIN cur |-> IF new[f] # seen[f] THEN new[f] ELSE cur[f]]
=============================================================================
