------------------------------- MODULE MCBackup --------------------------------
(* A small instance of Backup. *)
EXTENDS Backup

\* An entire restore, one of users alone, one of posts alone, and a merge that
\* names a table that is not there.
MCRequests ==
    {[of |-> 1, tables |-> {}, mode |-> "REPLACE"],
     [of |-> 1, tables |-> {"users"}, mode |-> "REPLACE"],
     [of |-> 2, tables |-> {"posts"}, mode |-> "REPLACE"],
     [of |-> 1, tables |-> {"users", "unknown"}, mode |-> "MERGE"]}
=============================================================================
