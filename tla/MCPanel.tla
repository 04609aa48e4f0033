------------------------------ MODULE MCPanel ------------------------------
(***************************************************************************)
(* One other client and two connections of the panel: requests overlap,    *)
(* and so do their fetches.  Connections fail without limit, and the first *)
(* error adds a second line.  Two documents: a key that is trusted, then   *)
(* one that replaces it, beside a key that cannot sign.                    *)
(***************************************************************************)
EXTENDS Panel

Key(k) == [kid |-> k, rs256 |-> TRUE]
MCDocs == << {Key("k1"), [kid |-> "k2", rs256 |-> FALSE]}, {Key("k2")} >>

=============================================================================
