--------------------------- MODULE MCDkvsReplicas ---------------------------
(* Instances of DkvsClient, and with it of DkvsReplicas, for TLC.          *)
EXTENDS DkvsClient

Rank(r, i) == [seq |-> r[1], validity |-> r[2], rank |-> i, owner |-> r[3],
               from |-> r[4]]

(* carol and dave are keys of a public service; dave, the older of the     *)
(* two, gives the key to bob at the instant carol writes.                  *)
Records ==
    { Rank(<<3, 3, "carol", None>>, 6), Rank(<<2, 3, "dave", None>>, 7),
      Rank(<<3, 2, "bob", "dave">>, 0) }

Owners == {"bob", "carol", "dave"}
Services == {"carol", "dave"}
OwnRecords == { r \in Records : r.owner = "dave" }
=============================================================================
