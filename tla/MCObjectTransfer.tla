-------------------------- MODULE MCObjectTransfer --------------------------
(***************************************************************************)
(* Transfers for TLC.                                                      *)
(***************************************************************************)
EXTENDS ObjectTransfer

CONSTANTS w1, w2

F(name, length, size) == [name |-> name, length |-> length, size |-> size]

S(kind, files, encrypt, delete_after, limit, old) ==
    [kind |-> kind, files |-> files, encrypt |-> encrypt, delete_after |-> delete_after,
     limit |-> limit, old |-> old]

\* A part with a path too long for a header; the metadata of a backup, larger
\* and smaller than before; schema members, one of them empty; a single file
\* with a limited rate.
MCSetups ==
    {S("tarball", <<F("a", 3, 2), F("b", 1, 1)>>, TRUE, TRUE, 0, <<F("o", 1, 1)>>),
     S("data", <<F("n", 1, 6)>>, TRUE, FALSE, 0, <<F("o", 1, 3)>>),
     S("data", <<F("n", 1, 2)>>, FALSE, FALSE, 0, <<F("o", 1, 7)>>),
     S("members", <<F("a", 1, 0), F("b", 1, 5)>>, FALSE, FALSE, 0, <<F("o", 1, 1), F("p", 1, 2)>>),
     S("file", <<F("n", 1, 5)>>, FALSE, TRUE, 2, <<F("o", 1, 1)>>)}
=============================================================================
