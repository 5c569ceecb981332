---- MODULE MCNavigation ----
EXTENDS Navigation

\* Two projects, one of them without a data-management id; a document at the
\* root of one and one in a folder of the other.
MCHome == [d \in {"d1", "d2"} |->
             IF d = "d1" THEN [project |-> "p1", folder |-> None]
             ELSE [project |-> "p2", folder |-> "folder"]]
====
