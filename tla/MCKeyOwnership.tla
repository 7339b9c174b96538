--------------------------- MODULE MCKeyOwnership ---------------------------
(* KeyOwnership with the key of the gun and miner services, which may put    *)
(* the name, the key of the service of the shared key, which may as well,    *)
(* and a user.                                                               *)
EXTENDS KeyOwnership

CONSTANTS gunKey, sharedKey, someUser

ServiceNames ==
  [sn \in {"gun", "miner", "shared"} |->
     IF sn = "shared" THEN <<sharedKey>> ELSE <<gunKey>>]

(* The name, which is that of a service too; and a key of its namespace that *)
(* has a name after it which nobody owns.                                    *)
TheName == GetGunKey("shared")
Sub == [ns |-> "shared", rest |-> "other"]
Keys == {TheName, Sub}
Names == {"contract", "miner", "gun", "shared", "other"}

(* The name for all of the time, for a part of it with an approval of the    *)
(* user as a service, and the empty list, good for no name.                  *)
NameFor(till) == EncodeGunValue(gunKey, till)
Values ==
  {NameFor(MaxNow), <<>>,
   Append(NameFor(0), IssueCertApprove("shared", someUser, sharedKey, 0))}

(* The name is for sale, also to one buyer, and given away; and the sub key  *)
(* is given away.                                                            *)
Offers ==
  {[key |-> TheName, by |-> gunKey, to |-> None, fee |-> 1],
   [key |-> TheName, by |-> someUser, to |-> sharedKey, fee |-> 1],
   [key |-> TheName, by |-> sharedKey, to |-> someUser, fee |-> 0],
   [key |-> TheName, by |-> someUser, to |-> None, fee |-> 0],
   [key |-> Sub, by |-> gunKey, to |-> someUser, fee |-> 0]}

(* A payment of the name, which the miner has seen, or another service, or   *)
(* nobody but the buyer; one back; and one of another sum.                   *)
Paid(m, x, y, fee) ==
  [key |-> TheName, by |-> m, from |-> x, to |-> y, fee |-> fee]
Payments ==
  {Paid(m, someUser, gunKey, 1) : m \in User} \cup
  {Paid(gunKey, someUser, sharedKey, 1), Paid(gunKey, someUser, gunKey, 0)}

(* Approvals of the user: by the service, by another one in its own name or  *)
(* in that of the first, and by himself; and a certificate of the service.   *)
Grants ==
  {someUser} \X
    ({IssueCertApprove("shared", someUser, sharedKey, till) : till \in 0..MaxNow} \cup
     {IssueCertApprove("gun", someUser, sharedKey, MaxNow),
      IssueCertApprove("gun", someUser, gunKey, MaxNow),
      IssueCertApprove("shared", someUser, someUser, MaxNow),
      IssueCert(sharedKey, MaxNow)})
=============================================================================
