--------------------------- MODULE MCPoolSelection ---------------------------
(* Values of the constants for the runs of PoolSelection. *)
EXTENDS PoolSelection

\* Every default pool is reliable; or the second backup, with everything else as
\* bad as it can be.
MCOutlooks ==
  {[reliable |-> {0} \X Addresses, dead |-> {}],
   [reliable |-> {<<2, 2>>}, dead |-> Endpoints \ {<<2, 2>>}]}
=============================================================================
