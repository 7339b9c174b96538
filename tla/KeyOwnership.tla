---------------------------- MODULE KeyOwnership ----------------------------
(* dkvs/cert.go, dkvs/services.go and the checks of dkvs/dkvs.go: who may    *)
(* put a record under a key, and how a key changes hands. Each call checks   *)
(* what it has read first and hands its record to the network afterwards,    *)
(* where verifyPubKey looks at the record that is there then. A record is    *)
(* there as long as it is valid: one that has expired is as good as none.    *)
(* The network is one register per key here; its replicas are in             *)
(* DkvsReplicas.                                                             *)
(*                                                                           *)
(* A certificate is what its checks look at. Those issued for a transfer do  *)
(* not expire: their time to live is a hundred years.                        *)
EXTENDS Certs, FiniteSets

CONSTANTS
  User,      \* public keys, which are long names too
  Short,     \* names of one byte to MinDKVSRecordKeyLength
  Key,       \* keys: [ns, rest], what is before and after the second slash
  Name,      \* one of them: /contract/name
  Sharing,   \* the public service whose certificates users keep
  Value,     \* values: lists of certificates
  Fee,       \* fees a transfer may ask
  Offer,     \* certificates of a transfer that a user may issue
  Payment,   \* certificates of a payment that a user may issue
  Grant,     \* pairs: a user, a certificate that he may be given
  MaxSeq,    \* bound: records created and certificates given to a user
  MaxCert,   \* bound: certificates of a transfer, and of a payment, issued
  MaxNow     \* bound: the clock

(* None, of Certs, is also no record, no receiver, no Data, the empty name.  *)
Long(n) == n \notin Short \cup {None}
GetGunKey(n) == [ns |-> "contract", rest |-> n]
IsGunName(k) == k.ns = "contract" /\ ~Long(k.rest)

Prepare == [key : Key, by : User, to : User \cup {None}, fee : Fee]
Receipt == [key : Key, by : User, from : User, to : User, fee : Fee]
Data == [cert : Prepare, tx : Receipt \cup {None}]
Record == [owner : User, value : Value, seq : 1..MaxSeq, till : 0..MaxNow,
           data : Data \cup {None}]

ASSUME NameAssumption ==
  /\ {"contract", "miner"} \subseteq Short /\ None \notin Short
  /\ User \cap Short = {}
  /\ Name \in Key /\ IsGunName(Name)
ASSUME ServiceAssumption ==
  /\ {"gun", "miner", Sharing} \subseteq DOMAIN dkvsServiceNameMap
  /\ "contract" \notin DOMAIN dkvsServiceNameMap
  /\ \A sn \in DOMAIN dkvsServiceNameMap : dkvsServiceNameMap[sn] \in Seq(User)
ASSUME ValueAssumption ==
  Value \subseteq Seq(Cert(User, 0..MaxNow)) /\ <<>> \in Value
ASSUME CertAssumption ==
  /\ Fee \subseteq Nat /\ 0 \in Fee
  /\ Offer \subseteq Prepare /\ Payment \subseteq Receipt
  /\ Grant \subseteq User \X Cert(User, 0..MaxNow)
ASSUME BoundAssumption ==
  MaxSeq \in Nat /\ MaxCert \in Nat /\ MaxNow \in Nat
ASSUME NoneAssumption ==
  /\ None \notin User \cup Cert(User, 0..MaxNow) /\ None \notin Receipt
  /\ None \notin Data /\ None \notin Record
  /\ None \notin [owner : User, until : 0..MaxNow]

VARIABLES
  rec,       \* [Key -> record kept, or None]
  prepares,  \* transfer certificates: [key, by, to, fee]
  receipts,  \* certificates of a payment: [key, by, from, to, fee]
  certs,     \* [User -> the list in the record that has his certificates]
  given,     \* history: [User -> all that services have given him, in order]
  now,       \* the clock
  puts,      \* calls past their checks, records on their way: [key, rec, read]
  seq,       \* TimestampSeq
  had,       \* history: pairs: the key has been the user's
  opened     \* history: names that have been an approved service's

certVars == <<certs, given, now>>
history == <<had, opened>>
vars == <<rec, prepares, receipts, certVars, puts, seq, history>>

(* TimestampSeq: the numbers of the records strictly increase.               *)
TimestampSeq == seq + 1

NewRecord(u, v, till, d) ==
  [owner |-> u, value |-> v, seq |-> TimestampSeq, till |-> till, data |-> d]
HasRoom == seq < MaxSeq /\ \A u \in User : seq + Len(given[u]) < MaxSeq

Init ==
  /\ rec = [k \in Key |-> None]
  /\ prepares = {} /\ receipts = {} /\ puts = {}
  /\ certs = [u \in User |-> <<>>] /\ given = [u \in User |-> <<>>]
  /\ now = 0
  /\ seq = 0 /\ had = {} /\ opened = {}

(* What the value of a record /contract/name must hold, and a record; the    *)
(* one kept under a key, as it is read; and who a key's is.                  *)
ValidateValue(k, v, till) == IsGunName(k) => VerifyGunRecordValue(v, till, now)
ValidateRecord(k, r) == ValidateValue(k, r.value, r.till) /\ now <= r.till

GetLocal(k) ==
  IF k \in Key /\ rec[k] # None /\ ValidateRecord(k, rec[k]) THEN rec[k] ELSE None

Owns(k, u) == GetLocal(k) # None /\ GetLocal(k).owner = u
HasPermission(n, u) == Owns(GetGunKey(n), u)

----------------------------------------------------------------------------
(* Certificates *)

VerifyCertTransferPrepare(k, c, oldpk, newpk) ==
  c.by = oldpk /\ c.key = k /\ c.to \in {None, newpk}

(* The payment may have gone either way.                                     *)
VerifyCertTxCompleted(k, fee, tx, oldpk, newpk) ==
  /\ tx # None /\ IsPublicServiceNameKey("miner", tx.by)
  /\ tx.key = k /\ tx.fee = fee
  /\ <<tx.from, tx.to>> \in {<<oldpk, newpk>>, <<newpk, oldpk>>}

(* Variant: no certificate of a payment is asked for.                        *)
VerifyUnpaid(k, c, tx, oldpk, newpk) == TRUE

VerifyCertTxCompleted2(k, c, tx, oldpk, newpk) ==
  c.fee # 0 => VerifyCertTxCompleted(k, c.fee, tx, oldpk, newpk)

VerifyCertTransferConfirm(k, d, oldpk, newpk) ==
  /\ VerifyCertTransferPrepare(k, d.cert, oldpk, newpk)
  /\ VerifyCertTxCompleted2(k, d.cert, d.tx, oldpk, newpk)

(* Anyone may issue one; it is worth something when the key is his.         *)
IssueCertTransferPrepare(c) ==
  /\ Cardinality(prepares) < MaxCert
  /\ prepares' = prepares \cup {c}
  /\ UNCHANGED <<rec, receipts, certVars, puts, seq, history>>

(* So may anyone one of a payment, if only those of miners are worth it.     *)
IssueCertTxCompleted(t) ==
  /\ Cardinality(receipts) < MaxCert
  /\ receipts' = receipts \cup {t}
  /\ UNCHANGED <<rec, prepares, certVars, puts, seq, history>>

(* A user is given a certificate, of approval (IssueCertApprove) or another  *)
(* one (IssueCert), and adds it to the record he keeps them in for the       *)
(* service, under his own public key.                                        *)
Give(u, c) ==
  /\ HasRoom
  /\ given' = [given EXCEPT ![u] = Append(@, c)]
  /\ certs' = [certs EXCEPT ![u] = EncodeCertsRecordValueWithCert(@, c)]
  /\ UNCHANGED <<rec, prepares, receipts, now, puts, seq, history>>

Tick ==
  /\ now < MaxNow
  /\ now' = now + 1
  /\ UNCHANGED <<rec, prepares, receipts, certs, given, puts, seq, history>>

(* IsApprovedPubkey: only the certificates kept for one service are modelled.*)
IsApprovedPubkey(sn, u) ==
  /\ sn = Sharing
  /\ VerifyCertApprove(FindPublicServiceCertByServiceName(certs[u], sn, now), u, now)

(* IsApprovedService: the record of the name has a certificate of a service  *)
(* for its owner.                                                            *)
ApprovedService(r) == r # None /\ HasServiceCertFor(r.value, r.owner, now)
IsApprovedService(sn) == ApprovedService(GetLocal(GetGunKey(sn)))

(* Sub-keys of a service's key are not told yet (IsChildPubkey).             *)
IsPublicService(sn, u) ==
  ~Long(sn) /\ (IsPublicServiceKey(u) \/ IsApprovedService(sn))

----------------------------------------------------------------------------
(* Calls *)

(* Variant: a name no longer protects the keys of its namespace.             *)
CheckNoKeyValidity(k, u) == TRUE

(* What follows the namespace: a short name is for its owner, one that is a  *)
(* public key for that key, and the empty or any other one for all.          *)
CheckNameValidity(n, u) == (n \in Short => HasPermission(n, u)) /\ (n \in User => n = u)

CheckKeyValidity(k, u) ==
  \/ Long(k.ns) /\ Long(k.rest)
  \/ IsPublicService(k.ns, u)
  \/ HasPermission(k.ns, u)
  \/ CheckNameValidity(k.rest, u)

Put(u, k, v, till) ==
  /\ HasRoom
  /\ CheckKeyValidity(k, u)
  /\ ValidateValue(k, v, till)
  /\ seq' = TimestampSeq
  /\ puts' = puts \cup
       {[key |-> k, rec |-> NewRecord(u, v, till, None), read |-> None]}
  /\ UNCHANGED <<rec, prepares, receipts, certVars, history>>

(* Variant: the caller is not compared with the owner of the record read.    *)
CheckAnyTransferPara(k, c, tx, newpk) ==
  /\ VerifyCertTransferPrepare(k, c, c.by, newpk)
  /\ tx # None => VerifyCertTxCompleted2(k, c, tx, c.by, newpk)

(* CheckTransferPara: the record read is the caller's, the certificate his.  *)
(* One of a payment is looked at when there is one: any service, not only a  *)
(* miner, may have issued it as long as no fee is asked.                     *)
CheckTransferPara(k, c, tx, newpk) ==
  /\ Owns(k, c.by)
  /\ VerifyCertTransferPrepare(k, c, c.by, newpk)
  /\ tx # None => /\ IsPublicService("miner", tx.by)
                  /\ VerifyCertTxCompleted2(k, c, tx, c.by, newpk)

(* TransferKey: the value stays that of the record read.                     *)
TransferKey(k, c, tx, newpk, till) ==
  /\ HasRoom /\ GetLocal(k) # None
  /\ CheckTransferPara(k, c, tx, newpk)
  /\ ValidateValue(k, GetLocal(k).value, till)
  /\ seq' = TimestampSeq
  /\ LET d == [cert |-> c, tx |-> tx]
     IN puts' = puts \cup {[key |-> k, read |-> GetLocal(k),
                            rec |-> NewRecord(newpk, GetLocal(k).value, till, d)]}
  /\ UNCHANGED <<rec, prepares, receipts, certVars, history>>

----------------------------------------------------------------------------
(* The network *)

(* verifyPubKey without Data: both are of the service, or approved by it.    *)
SharesService(sn, old, new) ==
  /\ IsPublicServiceName(sn) \/ IsApprovedService(sn)
  /\ \A u \in {old.owner, new.owner} :
       IsPublicServiceNameKey(sn, u) \/ IsApprovedPubkey(sn, u)

(* verifyPubKey: what may take the place of a record that is older.          *)
VerifyPubKey(k, old, new) ==
  \/ new.owner = old.owner
  \/ /\ new.data # None
     /\ VerifyCertTransferConfirm(k, new.data, old.owner, new.owner)
  \/ new.data = None /\ SharesService(k.ns, old, new)

Select(k, old, new) ==
  old = None \/ (new.seq > old.seq /\ VerifyPubKey(k, old, new))

(* A record that arrives, where one that is expired does not compete.        *)
Accepts(p) == ValidateRecord(p.key, p.rec) /\ Select(p.key, GetLocal(p.key), p.rec)

Deliver(p) ==
  /\ puts' = puts \ {p}
  /\ IF Accepts(p)
     THEN /\ rec' = [rec EXCEPT ![p.key] = p.rec]
          /\ had' = had \cup {<<p.key, p.rec.owner>>}
          /\ opened' = opened \cup
               {n \in {p.key.rest} : p.key = GetGunKey(n) /\ ApprovedService(p.rec)}
     ELSE UNCHANGED <<rec, history>>
  /\ UNCHANGED <<prepares, receipts, certVars, seq>>

----------------------------------------------------------------------------
Issue ==
  \/ \E c \in Offer : IssueCertTransferPrepare(c)
  \/ \E t \in Payment : IssueCertTxCompleted(t)
  \/ \E g \in Grant : Give(g[1], g[2])
  \/ Tick

(* Only the value of a name is looked at.                                    *)
Next ==
  \/ Issue
  \/ \E u \in User, k \in Key, v \in Value, till \in 0..MaxNow :
       (IsGunName(k) \/ v = <<>>) /\ Put(u, k, v, till)
  \/ \E k \in Key, c \in prepares, tx \in receipts \cup {None}, u \in User,
       till \in 0..MaxNow : TransferKey(k, c, tx, u, till)
  \/ \E p \in puts : Deliver(p)

Spec == Init /\ [][Next]_vars

----------------------------------------------------------------------------
(* Properties *)

(* Types; a record on its way is newer than what its call has read.          *)
TypeOK ==
  /\ rec \in [Key -> Record \cup {None}]
  /\ prepares \subseteq Prepare /\ receipts \subseteq Receipt
  /\ certs \in [User -> Seq(Cert(User, 0..MaxNow))]
  /\ given \in [User -> Seq(Cert(User, 0..MaxNow))]
  /\ now \in 0..MaxNow
  /\ puts \subseteq [key : Key, rec : Record, read : Record \cup {None}]
  /\ \A p \in puts : p.read # None => p.read.seq < p.rec.seq
  /\ seq \in 0..MaxSeq /\ had \subseteq Key \X User
  /\ opened \subseteq {k.rest : k \in Key}

(* Two users agree when the first has issued a certificate that lets the    *)
(* second have the name and, if it asks a fee, a miner one of its payment.   *)
Agree(x, y) ==
  \E c \in prepares :
    /\ c.key = Name /\ c.by = x /\ c.to \in {None, y}
    /\ \/ c.fee = 0
       \/ \E t \in receipts :
            /\ <<x, y>> \in {<<t.from, t.to>>, <<t.to, t.from>>}
            /\ t.key = Name /\ t.fee = c.fee /\ IsPublicServiceNameKey("miner", t.by)

Agreed == {q \in User \X User : Agree(q[1], q[2])}

Holding(r) == IF r = None THEN None ELSE [owner |-> r.owner, until |-> r.till]

Owned == INSTANCE OwnedKey
  WITH held <- Holding(GetLocal(Name)), agreed <- Agreed, Time <- 0..MaxNow

(* cert.go:228-345, record.go:121-153, dht.go:147-153: until its record      *)
(* expires the name has one owner at a time, who has agreed with the next    *)
(* one before it passes to him, whatever else was put between the check of a *)
(* call and its end; when it has expired, and not before, it is free for     *)
(* anyone who may put it (module OwnedKey).                                  *)
PassesByAgreement == Owned!Spec

(* dkvs.go:210-276, 278-280: what CheckTransferPara lets pass is accepted,   *)
(* if nothing was put meanwhile and its own time is not over; but for one    *)
(* that asks a fee and comes without a certificate of its payment.           *)
CheckedIsAccepted ==
  \A p \in puts :
    p.read # None /\ p.read = rec[p.key] /\ ValidateRecord(p.key, p.rec)
      /\ (p.rec.data.cert.fee # 0 => p.rec.data.tx # None)
      => Accepts(p)

(* Who may have put a record under a key: one who has had the name before    *)
(* the second slash, or is a service if that is short, or anyone if it has   *)
(* been an approved service's; one who has had the short name that follows,  *)
(* or is the public key that does; and anyone if that is empty or long.      *)
HasHad(n, u) == <<GetGunKey(n), u>> \in had
MayHavePut(k, u) ==
  \/ Long(k.ns) /\ Long(k.rest)
  \/ ~Long(k.ns) /\ (IsPublicServiceKey(u) \/ k.ns \in opened)
  \/ HasHad(k.ns, u)
  \/ (k.rest \in Short => HasHad(k.rest, u)) /\ (k.rest \in User => k.rest = u)

(* One that has Data came from one who has had the key himself.              *)
Admitted(k, r) ==
  IF r.data = None THEN MayHavePut(k, r.owner) ELSE <<k, r.data.cert.by>> \in had

(* dkvs.go:210-229, 370-400, 449-477, 631-643: a name protects the keys of   *)
(* its namespace. Who has one of them could have put it at some time, or has *)
(* it from one who had it, though the names that the check looks at may pass *)
(* on, or expire, before the record arrives.                                 *)
SubIsOfName == \A k \in Key : rec[k] # None => Admitted(k, rec[k])

(* cert.go:347-363, 500-526, services.go:164-179: who counts as approved has *)
(* been given a certificate that is still good, by a key of the service and  *)
(* of the one it names; and one that was given counts, if it was the first   *)
(* of its name and the first of its issuer, and no other key of the service  *)
(* has given one.  (So a renewal does not count.)                            *)
ApprovedAsGiven ==
  \A u \in User :
    LET OfService(i) == IsPublicServiceNameKey(Sharing, given[u][i].by)
        Good(i) == /\ given[u][i].name = "Approve" /\ given[u][i].user = u
                   /\ OfService(i)
                   /\ IsPublicServiceNameKey(given[u][i].ns, given[u][i].by)
                   /\ VerifyCert(given[u][i], now)
        Alone(i) == \A j \in DOMAIN given[u] \ {i} :
                      IF j < i THEN given[u][j].name # "Approve" /\ ~OfService(j)
                      ELSE given[u][j].by = given[u][i].by \/ ~OfService(j)
    IN /\ IsApprovedPubkey(Sharing, u) => \E i \in DOMAIN given[u] : Good(i)
       /\ \A i \in DOMAIN given[u] : Good(i) /\ Alone(i) => IsApprovedPubkey(Sharing, u)
=============================================================================
