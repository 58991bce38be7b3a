---------------------------- MODULE MCFileStore ----------------------------
(* Instances of FileStore for TLC. *)
EXTENDS FileStore, TLC

CONSTANTS ann, bob, photo, mail1, mail2, p1, p3, c1

\* Ann sends a photo, and both users read a mail whose attachment has the same
\* name.
Files  == photo :> ann @@ mail1 :> ann @@ mail2 :> bob
Places == photo :> p1 @@ mail1 :> p3 @@ mail2 :> p3
Dirs   == p1 :> ann @@ p3 :> Nobody
=============================================================================
