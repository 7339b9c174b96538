------------------------------- MODULE Certs -------------------------------
(***************************************************************************)
(* The certificates of dkvs/cert.go and how dkvs/services.go looks them up *)
(* in the value of a record, which holds a list of them (CertVect).  A     *)
(* certificate is its name, who has issued it, for whom, the namespace in  *)
(* its Data, and the last instant it is good for; signatures are genuine.  *)
(***************************************************************************)
EXTENDS Integers, Sequences

CONSTANTS
    None,               \* no certificate, no user, no namespace
    dkvsServiceNameMap  \* [name of a public service -> its keys, in order]

IsPublicServiceName(sn) == sn \in DOMAIN dkvsServiceNameMap

Cert(user, time) ==
    [name : {"gun", "Approve", "other"}, by : user, user : user \cup {None},
     ns : DOMAIN dkvsServiceNameMap \cup {None}, till : time]

VerifyCert(c, now) == c # None /\ now <= c.till

(* The certificate of a service for anyone, of its approval of a user in a *)
(* namespace, and of a gun for a name, whose record has a list of one.     *)
IssueCert(s, till) ==
    [name |-> "other", by |-> s, user |-> None, ns |-> None, till |-> till]
IssueCertApprove(ns, u, s, till) ==
    [name |-> "Approve", by |-> s, user |-> u, ns |-> ns, till |-> till]
IssueCertGun(s, till) ==
    [name |-> "gun", by |-> s, user |-> None, ns |-> None, till |-> till]
EncodeGunValue(s, till) == <<IssueCertGun(s, till)>>

IsPublicServiceNameKey(sn, pk) ==
    /\ IsPublicServiceName(sn)
    /\ \E i \in DOMAIN dkvsServiceNameMap[sn] : dkvsServiceNameMap[sn][i] = pk

IsPublicServiceKey(pk) ==
    \E sn \in DOMAIN dkvsServiceNameMap : IsPublicServiceNameKey(sn, pk)

(* The first of a list, or None.                                           *)
First(cv, Test(_)) ==
    LET first == {i \in DOMAIN cv :
                    Test(cv[i]) /\ \A j \in 1..i - 1 : ~Test(cv[j])}
    IN  IF first = {} THEN None ELSE cv[CHOOSE i \in first : TRUE]

SearchCertByName(cv, name) == First(cv, LAMBDA c : c.name = name)

(* Variant: of the certificates that a key has issued the last is found.   *)
SearchLastByPubkey(cv, pk) ==
    First([i \in DOMAIN cv |-> cv[Len(cv) + 1 - i]], LAMBDA c : c.by = pk)

SearchCertByPubkey(cv, pk) == First(cv, LAMBDA c : c.by = pk)

(* FindPublicServiceCertByServiceName: of the keys of a service, in their  *)
(* order, the first whose first certificate is good.                       *)
FindPublicServiceCertByServiceName(cv, sn, now) ==
    IF ~IsPublicServiceName(sn) THEN None
    ELSE LET keys == dkvsServiceNameMap[sn]
         IN  First([i \in DOMAIN keys |-> SearchCertByPubkey(cv, keys[i])],
                   LAMBDA c : VerifyCert(c, now))

(* FindPublicServiceCertWithUserPubkey: some key of some service has, as   *)
(* its first certificate, a good one for the user.                         *)
HasServiceCertFor(cv, user, now) ==
    \E sn \in DOMAIN dkvsServiceNameMap :
        \E i \in DOMAIN dkvsServiceNameMap[sn] :
            LET c == SearchCertByPubkey(cv, dkvsServiceNameMap[sn][i])
            IN  VerifyCert(c, now) /\ c.user = user

(* The issuer must be a key of the service that the certificate names: it  *)
(* need not be the one in whose namespace the certificate was found.       *)
VerifyCertApprove(c, pk, now) ==
    /\ VerifyCert(c, now)
    /\ IsPublicServiceNameKey(c.ns, c.by)
    /\ c.name = "Approve" /\ c.user = pk

(* A certificate is dropped when the list has one of its name, good or not.*)
EncodeCertsRecordValueWithCert(cv, c) ==
    IF SearchCertByName(cv, c.name) # None THEN cv ELSE Append(cv, c)

(* VerifyGunRecordValue: the list must have a good certificate of a gun,   *)
(* made for the key with the times of the record.                          *)
VerifyGunRecordValue(cv, till, now) ==
    LET c == FindPublicServiceCertByServiceName(cv, "gun", now)
    IN  c # None /\ c.name = "gun" /\ c.till = till
=============================================================================
