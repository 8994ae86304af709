----------------------------- MODULE MCSayInbox -----------------------------
(* Small instances of SayInbox.  Symmetry is not used: the runs are small and *)
(* one of them checks temporal properties.                                    *)
EXTENDS SayInbox
=============================================================================
