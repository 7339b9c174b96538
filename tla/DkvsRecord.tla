----------------------------- MODULE DkvsRecord -----------------------------
(***************************************************************************)
(* Which of two records of a key the DKVS keeps (dkvs/record.go and        *)
(* Compare of dkvs/dkvs_record.go).                                        *)
(*                                                                         *)
(* A record is what the choice depends on: its sequence number, the end of *)
(* its validity, the rank of its serialized bytes, the public key that     *)
(* owns it and, when its Data carries a transfer certificate that          *)
(* VerifyCertTransferConfirm accepts for that owner, the public key that   *)
(* gave the key away.  A record without Data has from = None.              *)
(***************************************************************************)
EXTENDS Integers

CONSTANTS
    Rec,        \* the records in play, all for one key
    Owner,      \* public keys
    Service,    \* those registered or approved for the key's public service
    None        \* no record, no Data

Record == [seq : Nat, validity : Nat, rank : Nat, owner : Owner,
           from : Owner \cup {None}]

(* Different records have different bytes.                                 *)
ASSUME RecordAssumption ==
    /\ Rec \subseteq Record
    /\ None \notin Rec
    /\ \A a, b \in Rec : a.rank = b.rank => a = b

(* Compare: by sequence number, then by the end of the validity.           *)
Compare(a, b) ==
    IF a.seq # b.seq THEN (IF a.seq > b.seq THEN 1 ELSE -1)
    ELSE IF a.validity # b.validity THEN (IF a.validity > b.validity THEN 1 ELSE -1)
    ELSE 0

(* selectRecord on two records: the second is kept when the first is older.*)
IsOlder(a, b) ==
    \/ Compare(a, b) < 0
    \/ Compare(a, b) = 0 /\ a.rank < b.rank

(* verifyPubKey: the record with the higher sequence number is the new     *)
(* one, at a tie the second; its owner must be the old one's, or have the  *)
(* key from it, or (without Data) both must belong to the public service.  *)
VerifyPubKey(a, b) ==
    LET new == IF a.seq > b.seq THEN a ELSE b
        old == IF a.seq > b.seq THEN b ELSE a
    IN  \/ new.owner = old.owner
        \/ new.from # None /\ new.from = old.owner
        \/ new.from = None /\ {old.owner, new.owner} \subseteq Service

(* Variant: the owner is not looked at.                                    *)
SelectAnyOwner(a, b) == IF IsOlder(a, b) THEN 1 ELSE 0

(* Validator.Select on two values: the index of the one to keep, or -1     *)
(* for an error.                                                           *)
Select(a, b) ==
    IF ~VerifyPubKey(a, b) THEN -1 ELSE IF IsOlder(a, b) THEN 1 ELSE 0

(* A value may take the place of the record kept (or of none): it is the   *)
(* same again, or Select prefers it.                                       *)
Replaces(r, old) == old \notin {None, r} => Select(r, old) = 0
=============================================================================
